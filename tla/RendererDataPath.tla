-------------------------- MODULE RendererDataPath --------------------------
(***************************************************************************)
(* A playback stream in callback mode: the callback loop                   *)
(* (RendererInClientInner::WriteCallbackFunc) takes buffers from its queue *)
(* and copies them into the shared ring buffer, waiting for room in        *)
(* FutexWait; the engine takes frames out and wakes it; control calls of   *)
(* other threads (RendererControl) change the state under it.              *)
(*                                                                         *)
(* The ring buffer is the FIFO that AudioBufferSpsc_proofs shows it to be. *)
(* A predicate of FutexWait is evaluated in one step although it reads     *)
(* state_ and both cursors: while the loop waits only the engine moves a   *)
(* cursor, and only towards more room.                                     *)
(***************************************************************************)
EXTENDS RendererControl, FutexTool

CONSTANTS
    Loop,       \* the callback loop thread
    Engine_,    \* the engine's thread in the server
    Total,      \* frames in the ring buffer
    Cb,         \* frames in a callback buffer (cbBufferSize_)
    CacheSize,  \* cacheSizeInFrame_
    Span,       \* frames the engine takes at once
    Capacity,   \* CB_QUEUE_CAPACITY
    MaxFrames   \* bound: frames the application provides

ASSUME DataPathAssumption ==
    /\ Loop \notin Apps /\ Engine_ \notin Apps /\ Loop # Free
    /\ Wakers = Apps \cup {Engine_}
    /\ Total \in Nat \ {0} /\ Cb \in 1 .. Total /\ Span \in Nat \ {0}
    /\ CacheSize \in Nat /\ Capacity \in Nat \ {0} /\ MaxFrames \in Nat

VARIABLES
    lpc,       \* where the loop is
    queue,     \* cbBufferQueue_: buffers, each a sequence of frames
    temp,      \* the buffer the loop has popped, what is left of it
    ring,      \* frames published and not taken
    nextFrame, \* number of the next frame the application provides
    taken,     \* number of the last frame the engine took
    released,  \* cbThreadReleased_
    cvNotified, \* has cbThreadCv_ been notified since the loop blocked on it?
    restarted  \* has the application called Start after another call?

loopVars == <<lpc, queue, temp, ring, nextFrame, taken, released, cvNotified>>
dataVars == <<controlVars, futexVars, loopVars, restarted>>

DataInit ==
    /\ ControlInit
    /\ FutexInit
    /\ lpc = "top"
    /\ queue = <<>> /\ temp = <<>> /\ ring = <<>>
    /\ nextFrame = 1 /\ taken = 0
    /\ released = FALSE
    /\ cvNotified = FALSE
    /\ restarted = FALSE

Take(n, s) == SubSeq(s, 1, n)
Drop(n, s) == SubSeq(s, n + 1, Len(s))
Least(m, n) == IF m < n THEN m ELSE n

-----------------------------------------------------------------------------
(* The loop: WriteCallbackFunc, called again until it returns false.        *)

LoopGoto(l) == lpc' = l
Running == state = "RUNNING"

(* Mutant of NeedWrite: the room in the ring is not looked at.              *)
NeedWriteCacheOnly == Len(ring) <= CacheSize

(* CheckBufferNeedWrite.                                                    *)
NeedWrite == Total - Len(ring) >= Cb /\ Len(ring) <= CacheSize

Top ==
    /\ lpc = "top"
    /\ LoopGoto(IF released THEN "end" ELSE "running?")
    /\ UNCHANGED <<controlVars, futexVars, queue, temp, ring, nextFrame, taken,
                   released, cvNotified>>

(* WaitForRunning: state_ is looked at under statusMutex_, cbThreadReleased_*)
(* is written without it.                                                   *)
CheckRunning ==
    /\ lpc = "running?" /\ statusMutex = Free
    /\ IF Running THEN LoopGoto("pop") /\ UNCHANGED statusMutex
       ELSE IF released THEN LoopGoto("top") /\ UNCHANGED statusMutex
       ELSE LoopGoto("block") /\ statusMutex' = Loop
    /\ UNCHANGED <<state, writeMutex, notified, pc, op, ops, serverVars, futexVars,
                   queue, temp, ring, nextFrame, taken, released, cvNotified>>

Block ==
    /\ lpc = "block"
    /\ LoopGoto("blocked")
    /\ cvNotified' = FALSE
    /\ statusMutex' = Free
    /\ UNCHANGED <<state, writeMutex, notified, pc, op, ops, serverVars, futexVars,
                   queue, temp, ring, nextFrame, taken, released>>

(* Notified: the predicate again.  Timed out, or told to end: the loop's    *)
(* function returns.                                                        *)
Unblock ==
    /\ lpc = "blocked"
    /\ LoopGoto(IF cvNotified /\ ~released THEN "running?" ELSE "top")
    /\ UNCHANGED <<controlVars, futexVars, queue, temp, ring, nextFrame, taken,
                   released, cvNotified>>

(* Mutant of Pop: the buffer stays in the queue.                            *)
PopKeeps ==
    /\ lpc = "pop"
    /\ IF queue = <<>>
       THEN LoopGoto("idlewait") /\ UNCHANGED temp
       ELSE temp' = Head(queue) /\ LoopGoto("popped")
    /\ UNCHANGED <<controlVars, futexVars, queue, ring, nextFrame, taken, released,
                   cvNotified>>

Pop ==
    /\ lpc = "pop"
    /\ IF queue = <<>>
       THEN LoopGoto("idlewait") /\ UNCHANGED <<queue, temp>>
       ELSE /\ temp' = Head(queue) /\ queue' = Tail(queue)
            /\ LoopGoto("popped")
    /\ UNCHANGED <<controlVars, futexVars, ring, nextFrame, taken, released,
                   cvNotified>>

(* Not RUNNING any more: the buffer goes back to the queue, which may block.*)
Repush ==
    /\ lpc = "popped" /\ ~Running /\ Len(queue) < Capacity
    /\ queue' = Append(queue, temp)
    /\ temp' = <<>>
    /\ LoopGoto("idlewait")
    /\ UNCHANGED <<controlVars, futexVars, ring, nextFrame, taken, released,
                   cvNotified>>

Popped ==
    /\ lpc = "popped" /\ Running
    /\ LoopGoto("wlock")
    /\ UNCHANGED <<controlVars, futexVars, queue, temp, ring, nextFrame, taken,
                   released, cvNotified>>

(* WriteInner: writeMutex_, then the state.                                 *)
WriteBegin ==
    /\ lpc = "wlock" /\ writeMutex = Free
    /\ IF Running
       THEN LoopGoto("write") /\ writeMutex' = Loop /\ UNCHANGED temp
       ELSE LoopGoto("pop") /\ temp' = <<>> /\ UNCHANGED writeMutex
    /\ UNCHANGED <<state, statusMutex, notified, pc, op, ops, serverVars, futexVars,
                   queue, ring, nextFrame, taken, released, cvNotified>>

(* WriteCacheData and WaitForBufferNeedOperate call FutexWait ...           *)
LoopWait ==
    /\ WaitBegin
    /\ \/ lpc = "write" /\ LoopGoto("writing")
       \/ lpc = "idlewait" /\ LoopGoto("idling")
    /\ UNCHANGED <<controlVars, queue, temp, ring, nextFrame, taken, released,
                   cvNotified>>

(* ... with the same predicate.                                             *)
Pred == ~Running \/ NeedWrite

MayExpire == lpc = "idling" \/ "write" \in MayTimeOut

(* No signal ends the system call (WaitInterrupted is FutexSignal's only):  *)
(* enough of them would use up the tries of one wait, whoever wakes.        *)
FutexWaiter ==
    /\ \/ WaitCas
       \/ WaitCheck(Pred, FALSE)
       \/ MayExpire /\ WaitCheck(Pred, TRUE)
       \/ WaitSys
       \/ WaitRecheck(Pred)
    /\ UNCHANGED <<controlVars, loopVars>>

FutexExpires ==
    /\ MayExpire /\ WaitExpire
    /\ UNCHANGED <<controlVars, loopVars>>

(* WriteInner returns an error: what is left of the buffer is lost.         *)
GiveUp ==
    /\ LoopGoto("pop")
    /\ temp' = <<>>
    /\ writeMutex' = Free

(* WriteCacheData after the wait: the state, the time-out, ...              *)
WriteRefused ==
    /\ lpc = "writing" /\ fpc = "idle"
    /\ ~Running \/ fres = "TIMEOUT"
    /\ GiveUp
    /\ UNCHANGED <<state, statusMutex, notified, pc, op, ops, serverVars, futexVars,
                   queue, ring, nextFrame, taken, released, cvNotified>>

WriteAllowed ==
    /\ lpc = "writing" /\ fpc = "idle"
    /\ Running /\ fres # "TIMEOUT"
    /\ LoopGoto("region")
    /\ UNCHANGED <<controlVars, futexVars, queue, temp, ring, nextFrame, taken,
                   released, cvNotified>>

(* ... then the writable region, the copy and SetCurWriteFrame.             *)
WriteFrames ==
    LET n == Least(Len(temp), Total - Len(ring))
    IN  /\ lpc = "region"
        /\ IF n = 0 THEN GiveUp /\ UNCHANGED ring
           ELSE /\ ring' = ring \o Take(n, temp)
                /\ temp' = Drop(n, temp)
                /\ IF n = Len(temp) THEN LoopGoto("pop") /\ writeMutex' = Free
                   ELSE LoopGoto("write") /\ UNCHANGED writeMutex
        /\ UNCHANGED <<state, statusMutex, notified, pc, op, ops, serverVars,
                       futexVars, queue, nextFrame, taken, released, cvNotified>>

(* WaitForBufferNeedOperate has returned; its result is only logged.        *)
IdleOver ==
    /\ lpc = "idling" /\ fpc = "idle"
    /\ LoopGoto(IF Running THEN "callback" ELSE "top")
    /\ UNCHANGED <<controlVars, futexVars, queue, temp, ring, nextFrame, taken,
                   released, cvNotified>>

(* CallClientHandle: the application's OnWriteData enqueues one buffer, if  *)
(* it has audio.                                                            *)
Callback ==
    /\ lpc = "callback"
    /\ \/ /\ nextFrame + Cb <= MaxFrames + 1 /\ state # "RELEASED"
          /\ Len(queue) < Capacity
          /\ queue' = Append(queue, [i \in 1 .. Cb |-> nextFrame + i - 1])
          /\ nextFrame' = nextFrame + Cb
       \/ nextFrame + Cb > MaxFrames + 1 /\ UNCHANGED <<queue, nextFrame>>
       \/ state = "RELEASED" /\ UNCHANGED <<queue, nextFrame>>
    /\ LoopGoto("top")   \* after at most WRITE_BUFFER_TIMEOUT_IN_MS
    /\ UNCHANGED <<controlVars, futexVars, temp, ring, taken, released, cvNotified>>

LoopStep ==
    \/ Top \/ CheckRunning \/ Block \/ Unblock \/ Pop \/ Repush \/ Popped
    \/ WriteBegin \/ LoopWait \/ FutexWaiter \/ WriteRefused \/ WriteAllowed
    \/ WriteFrames \/ IdleOver \/ Callback

-----------------------------------------------------------------------------
(* The engine takes frames (RendererInServer::WriteData) until the server   *)
(* has confirmed a pause or stop, and SetCurReadFrame wakes the writer.     *)

Playing == status \in {"STARTING", "STARTED", "PAUSING", "DRAINING", "STOPPING",
                       "FLUSHING_WHEN_STARTED"}

(* Mutant of EngineTakes: one frame too many is given back to the writer.   *)
EngineTakesOneMore ==
    LET n == Least(Span, Len(ring))
    IN  /\ Playing /\ ring # <<>>
        /\ WakeCall(Engine_)
        /\ ring' = Drop(n + 1, ring)
        /\ taken' = ring[n]
        /\ UNCHANGED <<controlVars, futexObj, fpc, tries, timedOut, fres, lpc, queue,
                       temp, nextFrame, released, cvNotified>>

EngineTakes ==
    LET n == Least(Span, Len(ring))
    IN  /\ Playing /\ ring # <<>>
        /\ WakeCall(Engine_)
        /\ ring' = Drop(n, ring)
        /\ taken' = ring[n]
        /\ UNCHANGED <<controlVars, futexObj, fpc, tries, timedOut, fres, lpc, queue,
                       temp, nextFrame, released, cvNotified>>

Wakes(w) == WakeStep(w) /\ UNCHANGED <<controlVars, loopVars>>

-----------------------------------------------------------------------------
(* Control calls, and what they do to the data.                             *)

(* Stop (after its drain) and Flush clear the queue; the server's Flush     *)
(* empties the ring and wakes the writer.                                   *)
ClearsQueue(a) ==
    \/ At(a, "stop", "drainwait") /\ pc'[a] = "mark"
    \/ At(a, "flush", "wlock") /\ pc'[a] = "ipc"

FlushesRing(a) ==
    At(a, "flush", "ipc") /\ status' \in Flushing /\ status' # status /\ ring # <<>>

ControlStep(a) ==
    /\ wpc[a] = "idle"
    /\ CallStep(a)
    /\ queue' = IF ClearsQueue(a) THEN <<>> ELSE queue
    /\ IF FlushesRing(a)
       THEN ring' = <<>> /\ WakeCall(a)
       ELSE UNCHANGED <<ring, wpc>>
    /\ UNCHANGED <<futexObj, fpc, tries, timedOut, fres, lpc, temp, nextFrame, taken,
                   released, cvNotified>>

(* Start ends with cbThreadCv_.notify_all, under statusMutex_.              *)
NotifyLoop(a) ==
    /\ op[a] = "start" /\ wpc[a] = "idle"
    /\ Wake(a)
    /\ cvNotified' = TRUE
    /\ UNCHANGED <<futexVars, lpc, queue, temp, ring, nextFrame, taken, released>>

(* Pause and Stop end with FutexWake, and give their locks up after it.     *)
WakeWriter(a) ==
    /\ At(a, op[a], "wake") /\ op[a] # "start"
    /\ WakeCall(a)
    /\ Goto(a, "woken")
    /\ UNCHANGED <<state, statusMutex, writeMutex, notified, op, ops, serverVars,
                   futexObj, fpc, tries, timedOut, fres, loopVars>>

Woken(a) ==
    /\ pc[a] = "woken" /\ wpc[a] = "idle"
    /\ Return(a)
    /\ UNCHANGED <<state, notified, op, ops, serverVars, futexVars, loopVars>>

(* Mutant of StopLoop: the loop is notified and not told to end.            *)
StopLoopNotTold(a) ==
    /\ pc[a] = "join"
    /\ cvNotified' = TRUE
    /\ Goto(a, "preexit")
    /\ UNCHANGED <<state, statusMutex, writeMutex, notified, op, ops, serverVars,
                   futexVars, lpc, queue, temp, ring, nextFrame, taken, released>>

(* JoinCallbackLoop: cbThreadReleased_ and the notification, ...            *)
StopLoop(a) ==
    /\ pc[a] = "join"
    /\ released' = TRUE
    /\ cvNotified' = TRUE
    /\ Goto(a, "preexit")
    /\ UNCHANGED <<state, statusMutex, writeMutex, notified, op, ops, serverVars,
                   futexVars, lpc, queue, temp, ring, nextFrame, taken>>

(* ... FutexWake(IS_PRE_EXIT), ...                                          *)
PreExit(a) ==
    /\ pc[a] = "preexit"
    /\ WakeCallExit(a)
    /\ Goto(a, "joining")
    /\ UNCHANGED <<state, statusMutex, writeMutex, notified, op, ops, serverVars,
                   futexObj, fpc, tries, timedOut, fres, loopVars>>

(* ... and join.                                                            *)
Joined(a) ==
    /\ pc[a] = "joining" /\ wpc[a] = "idle" /\ lpc = "end"
    /\ Return(a)
    /\ UNCHANGED <<state, notified, op, ops, serverVars, futexVars, loopVars>>

AppStep(a) ==
    \/ ControlStep(a) \/ NotifyLoop(a) \/ WakeWriter(a) \/ Woken(a)
    \/ StopLoop(a) \/ PreExit(a) \/ Joined(a) \/ Wakes(a)

AppCalls(a, o) ==
    /\ Call(a, o) /\ wpc[a] = "idle"
    /\ restarted' = (restarted \/ (o = "start" /\ ops > 0))
    /\ UNCHANGED <<futexVars, loopVars>>

Still(A) == A /\ UNCHANGED restarted

EngineCompletes == Engine /\ UNCHANGED <<futexVars, loopVars>>
Delivers == OnOperationHandled /\ UNCHANGED <<futexVars, loopVars>>

DataNext ==
    \/ Still(LoopStep) \/ Still(FutexExpires)
    \/ Still(EngineTakes) \/ Still(Wakes(Engine_))
    \/ Still(EngineCompletes) \/ Still(Delivers)
    \/ \E a \in Apps : Still(AppStep(a)) \/ \E o \in Ops : AppCalls(a, o)

(* Every thread that can go on does, and the engine plays.  A control call  *)
(* gets statusMutex_ although the loop polls it: the loop holds it for a    *)
(* moment once a second (strong fairness).  Nothing forces a futex wait to  *)
(* reach its time limit.                                                    *)
DataSpec ==
    /\ DataInit /\ [][DataNext]_dataVars
    /\ WF_dataVars(Still(LoopStep))
    /\ WF_dataVars(Still(EngineTakes)) /\ WF_dataVars(Still(Wakes(Engine_)))
    /\ WF_dataVars(Still(EngineCompletes)) /\ WF_dataVars(Still(Delivers))
    /\ \A a \in Apps : SF_dataVars(Still(AppStep(a)))

-----------------------------------------------------------------------------
LoopPcs == {"top", "running?", "block", "blocked", "pop", "popped", "wlock",
            "write", "writing", "region", "idlewait", "idling", "callback", "end"}

Buffers == Seq(1 .. MaxFrames)

DataTypeOK ==
    /\ ControlTypeOK
    /\ FutexTypeOK
    /\ statusMutex \in Apps \cup {Free, Loop}
    /\ writeMutex \in Apps \cup {Free, Loop}
    /\ lpc \in LoopPcs
    /\ queue \in Seq(Buffers) /\ Len(queue) <= Capacity
    /\ temp \in Buffers
    /\ ring \in Buffers /\ Len(ring) <= Total
    /\ nextFrame \in 1 .. MaxFrames + 1
    /\ taken \in 0 .. MaxFrames
    /\ released \in BOOLEAN /\ cvNotified \in BOOLEAN /\ restarted \in BOOLEAN

(* Until the stream is started again no frame is played twice or after a    *)
(* later one, ...                                                           *)
PlayedForward == [][taken' # taken => restarted \/ taken' > taken]_dataVars

(* ... and until a second call is made none is left out: the engine took    *)
(* each frame that it has passed.                                           *)
PlayedWithoutGaps ==
    [][ops <= 1 => \A f \in taken + 1 .. taken' :
                       \E i \in 1 .. Len(ring) : ring[i] = f]_dataVars

PlayedInOrder == PlayedForward /\ PlayedWithoutGaps

(* Without a second call every frame the application provided is played.    *)
AllPlayed == \A f \in {1, MaxFrames} : nextFrame > f ~> taken >= f \/ ops > 1

(* The loop has given up what it had popped: neither played nor put back.   *)
Loses == temp # <<>> /\ temp' = <<>> /\ ring' = ring /\ queue' = queue

(* While the stream is RUNNING, and until it is started again, the loop     *)
(* gives up no buffer, as long as no signal interrupts FutexWait.  (A wait  *)
(* that a pause has ended may find the stream RUNNING once more and the     *)
(* ring still full: that buffer is lost.)                                   *)
NoLossWhileRunning == [][Loses => ~Running \/ restarted]_dataVars

(* Every control call returns, Release after the loop has ended.            *)
CallsReturn == \A a \in Apps : pc[a] # "idle" ~> pc[a] = "idle"
=============================================================================
