-------------------------- MODULE RendererControl --------------------------
(***************************************************************************)
(* The control calls of a playback stream in callback mode, across the two *)
(* processes: RendererInClientInner asks RendererInServer by a synchronous *)
(* IPC whether the call is legal; the server passes the request to the     *)
(* engine stream and returns; the engine reports completion later, the     *)
(* server updates its status and sends a one-way notification back, which  *)
(* sets the client's state and ends the wait the call is in - unless that  *)
(* wait has timed out before.                                              *)
(*                                                                         *)
(* Start, Pause, Stop and Flush keep statusMutex_ from the first check to  *)
(* the end, so calls of several threads come one after the other; Release  *)
(* gives it up early.  Stop and Flush also hold writeMutex_, which the     *)
(* writer of RendererDataPath takes too.  Stand-by is not modelled.        *)
(***************************************************************************)
EXTENDS Naturals, Sequences

CONSTANTS
    Apps,        \* threads of the client that make control calls
    Ops,         \* the calls they make
    MaxOps,      \* bound: control calls made in a behaviour
    MayTimeOut,  \* waits that may reach their time limit
    MayRefuse,   \* may policy service or engine refuse a legal request?
    Free         \* a mutex nobody holds

ASSUME ControlAssumption ==
    /\ Ops \subseteq {"start", "pause", "stop", "flush", "release"}
    /\ MaxOps \in Nat
    /\ MayTimeOut \subseteq {"start", "pause", "stop", "flush", "drain", "write"}
    /\ MayRefuse \in BOOLEAN
    /\ Free \notin Apps

VARIABLES
    state,        \* client: state_
    statusMutex,  \* client: holder of statusMutex_
    writeMutex,   \* client: holder of writeMutex_
    notified,     \* client: notifiedOperation_
    pc,           \* client: where a thread is in its control call
    op,           \* client: the call
    ops,          \* number of calls made
    status,       \* server: status_
    drained,      \* server: OnStatusUpdateExt found DRAINING, has not set it
    engine,       \* requests the engine stream has accepted, not completed
    pending       \* OnOperationHandled calls under way to the client

clientVars == <<state, statusMutex, writeMutex, notified, pc, op, ops>>
serverVars == <<status, drained, engine, pending>>
controlVars == <<clientVars, serverVars>>

ControlInit ==
    /\ state = "PREPARED"
    /\ statusMutex = Free /\ writeMutex = Free
    /\ notified = "none"
    /\ pc = [a \in Apps |-> "idle"]
    /\ op = [a \in Apps |-> "none"]
    /\ ops = 0
    /\ status = "IDLE"
    /\ drained = FALSE
    /\ engine = <<>>
    /\ pending = <<>>

-----------------------------------------------------------------------------
(* Server: RendererInServer.                                                *)

Flushing == {"FLUSHING_WHEN_STARTED", "FLUSHING_WHEN_PAUSED",
             "FLUSHING_WHEN_STOPPED"}

(* The states in which a request is legal, and the one it leads to.         *)
Legal(req) ==
    CASE req = "start" -> {"IDLE", "PAUSED", "STOPPED"}
      [] req = "pause" -> {"STARTED"}
      [] req = "flush" -> {"STARTED", "PAUSED", "STOPPED"}
      [] req = "drain" -> {"STARTED"}
      [] req = "stop"  -> {"STARTED", "PAUSED", "DRAINING", "STARTING"}

Entered(req) ==
    CASE req = "start" -> "STARTING"
      [] req = "pause" -> "PAUSING"
      [] req = "flush" -> [STARTED |-> "FLUSHING_WHEN_STARTED",
                           PAUSED  |-> "FLUSHING_WHEN_PAUSED",
                           STOPPED |-> "FLUSHING_WHEN_STOPPED"][status]
      [] req = "drain" -> "DRAINING"
      [] req = "stop"  -> "STOPPING"

(* Start, Pause, Flush, Drain, Stop: the status changes before the policy   *)
(* service or the engine is asked, and stays changed when they refuse.      *)
ServerAccepts(req) ==
    /\ status \in Legal(req)
    /\ status' = Entered(req)
    /\ engine' = Append(engine, req)
    /\ UNCHANGED <<drained, pending>>

ServerRefuses(req) ==
    /\ \/ status \notin Legal(req) /\ UNCHANGED status
       \/ status \in Legal(req) /\ MayRefuse /\ status' = Entered(req)
    /\ UNCHANGED <<drained, engine, pending>>

(* Release: the engine stream is gone, its requests with it; unless the     *)
(* policy service refuses, or the release of the stream itself fails.       *)
ServerRelease ==
    /\ \/ status' = "RELEASED" /\ engine' = <<>>
       \/ MayRefuse /\ status' = "INVALID" /\ engine' = <<>>
       \/ MayRefuse /\ UNCHANGED <<status, engine>>
    /\ UNCHANGED <<drained, pending>>

Without(s, i) == SubSeq(s, 1, i - 1) \o SubSeq(s, i + 1, Len(s))

(* The engine completes requests in order, except that a drain takes as     *)
(* long as the audio left in the buffer and lets others pass.  Its          *)
(* callbacks are calls of one thread (PulseAudio main loop or HPAE manager).*)
Completable(i) == ~drained /\ \A j \in 1 .. i - 1 : engine[j] = "drain"

(* Mutant of EngineDone: a flush always ends in STARTED.                    *)
EngineDoneStarts(i) ==
    /\ Completable(i) /\ engine[i] # "drain"
    /\ engine' = Without(engine, i)
    /\ status' = CASE engine[i] \in {"start", "flush"} -> "STARTED"
                   [] engine[i] = "pause" -> "PAUSED"
                   [] engine[i] = "stop"  -> "STOPPED"
    /\ pending' = Append(pending, engine[i])
    /\ UNCHANGED <<drained, clientVars>>

(* OnStatusUpdate.                                                          *)
EngineDone(i) ==
    /\ Completable(i) /\ engine[i] # "drain"
    /\ engine' = Without(engine, i)
    /\ status' = CASE engine[i] = "start" -> "STARTED"
                   [] engine[i] = "pause" -> "PAUSED"
                   [] engine[i] = "stop"  -> "STOPPED"
                   [] engine[i] = "flush" ->
                        CASE status = "FLUSHING_WHEN_STARTED" -> "STARTED"
                          [] status = "FLUSHING_WHEN_PAUSED"  -> "PAUSED"
                          [] status = "FLUSHING_WHEN_STOPPED" -> "STOPPED"
                          [] OTHER -> status
    /\ pending' = Append(pending, engine[i])
    /\ UNCHANGED <<drained, clientVars>>

(* Mutant of EngineDrained: the status is not looked at.                    *)
EngineDrainedAlways(i) ==
    /\ Completable(i) /\ engine[i] = "drain"
    /\ engine' = Without(engine, i)
    /\ drained' = TRUE
    /\ UNCHANGED <<status, pending, clientVars>>

(* OnStatusUpdateExt: the test of status_ ...                               *)
EngineDrained(i) ==
    /\ Completable(i) /\ engine[i] = "drain"
    /\ engine' = Without(engine, i)
    /\ drained' = (status = "DRAINING")
    /\ UNCHANGED <<status, pending, clientVars>>

(* ... and, without a lock, its assignment.                                 *)
DrainEnds ==
    /\ drained
    /\ drained' = FALSE
    /\ status' = "STARTED"
    /\ pending' = Append(pending, "drain")
    /\ UNCHANGED <<engine, clientVars>>

Engine == DrainEnds \/ \E i \in 1 .. Len(engine) : EngineDone(i) \/ EngineDrained(i)

-----------------------------------------------------------------------------
(* Client.                                                                  *)

(* Mutant of CallServerMutexHeld: the mutex is kept while waiting.          *)
CallServerMutexKept ==
    \E a \in Apps : op[a] = "stop" /\ pc[a] \in {"ipc", "wait"}

(* Stop, and Start when it takes its request back, ask the server with      *)
(* callServerMutex_ held.                                                   *)
CallServerMutexHeld ==
    \E a \in Apps : (op[a] = "stop" /\ pc[a] = "ipc") \/ pc[a] = "undo"

(* OnOperationHandled.                                                      *)
OnOperationHandled ==
    /\ pending # <<>> /\ ~CallServerMutexHeld
    /\ pending' = Tail(pending)
    /\ notified' = Head(pending)
    /\ state' = CASE Head(pending) = "start" -> "RUNNING"
                  [] Head(pending) = "pause" -> "PAUSED"
                  [] Head(pending) = "stop"  -> "STOPPED"
                  [] OTHER -> state
    /\ UNCHANGED <<statusMutex, writeMutex, pc, op, ops, status, drained,
                   engine>>

At(a, o, l) == pc[a] = l /\ op[a] = o
Goto(a, l)  == pc' = [pc EXCEPT ![a] = l]

(* Mutant of Return: a call that returns early leaves writeMutex_ locked.   *)
ReturnKeepsWriteMutex(a) ==
    /\ Goto(a, "idle")
    /\ statusMutex' = IF statusMutex = a THEN Free ELSE statusMutex
    /\ UNCHANGED writeMutex

(* The call returns; its lock guards give up what it holds.                 *)
Return(a) ==
    /\ Goto(a, "idle")
    /\ statusMutex' = IF statusMutex = a THEN Free ELSE statusMutex
    /\ writeMutex' = IF writeMutex = a THEN Free ELSE writeMutex

Stay == UNCHANGED <<statusMutex, writeMutex>>

(* A thread makes a control call.                                           *)
Call(a, o) ==
    /\ pc[a] = "idle" /\ ops < MaxOps
    /\ ops' = ops + 1
    /\ op' = [op EXCEPT ![a] = o]
    /\ Goto(a, "lock")
    /\ Stay
    /\ UNCHANGED <<state, notified, serverVars>>

(* Mutant of Lock: Release does not take statusMutex_.                      *)
LockNotForRelease(a) ==
    /\ pc[a] = "lock"
    /\ \/ /\ op[a] = "release" /\ state # "RELEASED"
          /\ Goto(a, "ipc") /\ state' = "RELEASED" /\ Stay
       \/ /\ op[a] = "start" /\ statusMutex = Free
          /\ state \in {"PREPARED", "STOPPED", "PAUSED"}
          /\ Goto(a, "ipc") /\ statusMutex' = a /\ UNCHANGED <<state, writeMutex>>
    /\ UNCHANGED <<notified, op, ops, serverVars>>

(* statusMutex_, and the state checks of Start, Pause and Release.          *)
Lock(a) ==
    /\ pc[a] = "lock" /\ statusMutex = Free
    /\ CASE op[a] = "start" ->
              IF state \in {"PREPARED", "STOPPED", "PAUSED"}
              THEN Goto(a, "ipc") /\ statusMutex' = a /\ UNCHANGED <<state, writeMutex>>
              ELSE Return(a) /\ UNCHANGED state
         [] op[a] = "pause" ->
              IF state = "RUNNING"
              THEN Goto(a, "ipc") /\ statusMutex' = a /\ UNCHANGED <<state, writeMutex>>
              ELSE Return(a) /\ UNCHANGED state
         [] op[a] \in {"stop", "flush"} ->
              Goto(a, "wlock") /\ statusMutex' = a /\ UNCHANGED <<state, writeMutex>>
         [] op[a] = "release" ->
              IF state = "RELEASED" THEN Return(a) /\ UNCHANGED state
              ELSE Goto(a, "ipc") /\ state' = "RELEASED" /\ Stay
    /\ UNCHANGED <<notified, op, ops, serverVars>>

(* writeMutex_, and the state checks of Flush and DrainAudioStreamInner.    *)
LockWrite(a) ==
    /\ pc[a] = "wlock" /\ writeMutex = Free
    /\ IF op[a] = "flush"
       THEN IF state \in {"RUNNING", "PAUSED", "STOPPED"}
            THEN Goto(a, "ipc") /\ writeMutex' = a /\ UNCHANGED statusMutex
            ELSE Return(a)
       ELSE /\ Goto(a, IF state = "RUNNING" THEN "drain" ELSE "mark")
            /\ writeMutex' = a /\ UNCHANGED statusMutex
    /\ UNCHANGED <<state, notified, op, ops, serverVars>>

(* DrainAudioStreamInner(true); Stop ignores its result.                    *)
Drain(a) ==
    /\ pc[a] = "drain"
    /\ \/ ServerAccepts("drain") /\ Goto(a, "drainwait")
       \/ ServerRefuses("drain") /\ Goto(a, "mark")
    /\ Stay
    /\ UNCHANGED <<state, notified, op, ops>>

DrainWaitEnds(a) ==
    /\ pc[a] = "drainwait"
    /\ notified = "drain" \/ "drain" \in MayTimeOut
    /\ notified' = "none"
    /\ Goto(a, "mark")
    /\ Stay
    /\ UNCHANGED <<state, op, ops, serverVars>>

(* Mutant of MarkStopping: without the state checks.                        *)
MarkStoppingAlways(a) ==
    /\ pc[a] = "mark"
    /\ state' = "STOPPING" /\ Goto(a, "ipc") /\ Stay
    /\ UNCHANGED <<notified, op, ops, serverVars>>

(* Stop: the state checks, callServerMutex_ and UpdateStopState.            *)
MarkStopping(a) ==
    /\ pc[a] = "mark"
    /\ IF state \in {"RUNNING", "PAUSED"}
       THEN state' = "STOPPING" /\ Goto(a, "ipc") /\ Stay
       ELSE Return(a) /\ UNCHANGED state
    /\ UNCHANGED <<notified, op, ops, serverVars>>

(* ipcStream_->Start, Pause, Stop, Flush.                                   *)
Ask(a) ==
    /\ pc[a] = "ipc" /\ op[a] # "release"
    /\ \/ ServerAccepts(op[a]) /\ Goto(a, "wait") /\ Stay
       \/ ServerRefuses(op[a]) /\ Return(a)
    /\ UNCHANGED <<state, notified, op, ops>>

(* What callServerCV_ is waited on for.                                     *)
Answered(a) ==
    CASE op[a] = "start" -> state = "RUNNING"
      [] op[a] = "pause" -> state = "PAUSED"
      [] op[a] = "stop"  -> state = "STOPPED"
      [] op[a] = "flush" -> notified = "flush"

(* Mutant of FlushAnswered: the notification is left behind.                *)
FlushAnsweredKeepsIt(a) ==
    /\ At(a, "flush", "wait") /\ Answered(a)
    /\ Return(a)
    /\ UNCHANGED <<notified, state, op, ops, serverVars>>

FlushAnswered(a) ==
    /\ At(a, "flush", "wait") /\ Answered(a)
    /\ notified' = "none"
    /\ Return(a)
    /\ UNCHANGED <<state, op, ops, serverVars>>

(* The others are followed by a wake-up of the writer or of the callback    *)
(* loop before the locks are given up.                                      *)
OtherAnswered(a) ==
    /\ pc[a] = "wait" /\ op[a] # "flush" /\ Answered(a)
    /\ Goto(a, "wake")
    /\ Stay
    /\ UNCHANGED <<state, notified, op, ops, serverVars>>

(* NotifyStopWaiting (Start), FutexWake (Pause, Stop).                      *)
Wake(a) ==
    /\ pc[a] = "wake"
    /\ Return(a)
    /\ UNCHANGED <<state, notified, op, ops, serverVars>>

(* The wait reaches OPERATION_TIMEOUT_IN_MS: Start takes its request back.  *)
TimeOut(a) ==
    /\ pc[a] = "wait" /\ op[a] \in MayTimeOut /\ ~Answered(a)
    /\ IF op[a] = "start"
       THEN Goto(a, "undo") /\ Stay /\ UNCHANGED <<state, notified>>
       ELSE /\ Return(a)
            /\ state' = IF op[a] = "stop" THEN "INVALID" ELSE state
            /\ notified' = IF op[a] = "flush" THEN "none" ELSE notified
    /\ UNCHANGED <<op, ops, serverVars>>

Undo(a) ==
    /\ pc[a] = "undo"
    /\ ServerAccepts("stop") \/ ServerRefuses("stop")
    /\ Return(a)
    /\ UNCHANGED <<state, notified, op, ops>>

(* Release goes on without statusMutex_: the server, then JoinCallbackLoop. *)
Release(a) ==
    /\ At(a, "release", "ipc")
    /\ ServerRelease
    /\ Goto(a, "join")
    /\ Stay
    /\ UNCHANGED <<state, notified, op, ops>>

Join(a) ==
    /\ pc[a] = "join"
    /\ Return(a)
    /\ UNCHANGED <<state, notified, op, ops, serverVars>>

(* What a call does with neither the writer nor the loop involved.          *)
CallStep(a) ==
    \/ Lock(a) \/ LockWrite(a) \/ Drain(a) \/ DrainWaitEnds(a)
    \/ MarkStopping(a) \/ Ask(a) \/ FlushAnswered(a) \/ OtherAnswered(a)
    \/ TimeOut(a) \/ Undo(a) \/ Release(a)

CallPcs ==
    {"idle", "lock", "wlock", "drain", "drainwait", "mark", "ipc", "wait",
     "undo", "wake", "woken", "join", "preexit", "joining"}

ControlTypeOK ==
    /\ state \in {"PREPARED", "RUNNING", "PAUSED", "STOPPING", "STOPPED",
                  "INVALID", "RELEASED"}
    /\ notified \in {"none", "start", "pause", "stop", "flush", "drain"}
    /\ pc \in [Apps -> CallPcs]
    /\ op \in [Apps -> Ops \cup {"none"}]
    /\ ops \in 0 .. MaxOps
    /\ status \in {"IDLE", "STARTING", "STARTED", "PAUSING", "PAUSED",
                   "DRAINING", "STOPPING", "STOPPED", "RELEASED",
                   "INVALID"} \cup Flushing
    /\ drained \in BOOLEAN
    /\ engine \in Seq({"start", "pause", "flush", "drain", "stop"})
    /\ pending \in Seq({"start", "pause", "flush", "drain", "stop"})
=============================================================================
