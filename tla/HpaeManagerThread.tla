------------------------- MODULE HpaeManagerThread -------------------------
(***************************************************************************)
(* The thread of HpaeManager and its request queue: threads that send      *)
(* requests, the thread that sleeps until it is notified and handles them, *)
(* and DeInit, which ends the thread and handles what is left.             *)
(*                                                                         *)
(* The condition variable's predicate is evaluated, and the sleep begun,   *)
(* with mutex_ held; Notify takes it, PushRequest does not.  SendRequest's *)
(* test of hpaeManagerThread_ and its Notify are one step: that DeInit     *)
(* does not free the thread between them is left to its callers.           *)
(***************************************************************************)
EXTENDS HpaeNoLockQueue

VARIABLES
    running,     \* running_
    recvSignal,  \* recvSignal_
    dpc,         \* where DeInit is
    early        \* has DeInit stopped the thread before it began to run?

vars == <<queueVars, running, recvSignal, dpc, early>>

Init ==
    /\ QueueInit
    /\ running = FALSE /\ recvSignal = FALSE
    /\ dpc = "idle"
    /\ early = FALSE

At(l) == qpc[Handler] = l
OnlyGoto(l) ==
    /\ Goto(Handler, l)
    /\ UNCHANGED <<lists, regs, counts>>

-----------------------------------------------------------------------------
(* HpaeManagerThread::Run.                                                  *)

RunBegin ==
    /\ At("idle")
    /\ running' = TRUE
    /\ OnlyGoto("while")
    /\ UNCHANGED <<recvSignal, dpc, early>>

While ==
    /\ At("while")
    /\ OnlyGoto(IF running THEN "wait" ELSE "ended")
    /\ UNCHANGED <<running, recvSignal, dpc, early>>

(* Mutant of MayGoOn: the queue is not looked at.                           *)
MayGoOnSignal == recvSignal

(* IsMsgProcessing() || recvSignal_.                                        *)
MayGoOn == ~IsFinishProcess \/ recvSignal

Wait ==
    /\ At("wait")
    /\ OnlyGoto(IF MayGoOn THEN "handle" ELSE "asleep")
    /\ UNCHANGED <<running, recvSignal, dpc, early>>

(* A wake-up nobody asked for, or the time limit a pending transition sets, *)
(* after which the predicate does not matter.                               *)
WakeUp ==
    /\ At("asleep")
    /\ \E l \in {"wait", "handle"} : OnlyGoto(l)
    /\ UNCHANGED <<running, recvSignal, dpc, early>>

(* recvSignal_.store(false).                                                *)
ClearSignal ==
    /\ At("handled") /\ dpc \notin {"last", "done"}
    /\ recvSignal' = FALSE
    /\ OnlyGoto("while")
    /\ UNCHANGED <<running, dpc, early>>

Thread == RunBegin \/ While \/ Wait \/ ClearSignal

-----------------------------------------------------------------------------
(* Notify: the signal, and whoever sleeps evaluates the predicate again.    *)
Signals ==
    /\ recvSignal' = TRUE
    /\ IF At("asleep") THEN qpc' = [qpc EXCEPT ![Handler] = "wait"] ELSE UNCHANGED qpc

(* SendRequest after PushRequest.                                           *)
Notify(p) ==
    /\ qpc[p] = "returned"
    /\ IF dpc \in {"last", "done"} THEN UNCHANGED recvSignal /\ Goto(p, "idle")
       ELSE /\ recvSignal' = TRUE
            /\ qpc' = [qpc EXCEPT ![p] = "idle",
                                  ![Handler] = IF @ = "asleep" THEN "wait" ELSE @]
    /\ UNCHANGED <<lists, regs, counts, running, dpc, early>>

(* DeInit: DeactivateThread, ...                                            *)
StopThread ==
    /\ dpc = "idle"
    /\ running' = FALSE
    /\ early' = At("idle")
    /\ dpc' = "notify"
    /\ UNCHANGED <<queueVars, recvSignal>>

(* Mutant of NotifyThread: the thread is left asleep.                       *)
NotifyNobody ==
    /\ dpc = "notify"
    /\ dpc' = "join"
    /\ UNCHANGED <<queueVars, running, recvSignal, early>>

NotifyThread ==
    /\ dpc = "notify"
    /\ Signals
    /\ dpc' = "join"
    /\ UNCHANGED <<lists, regs, counts, running, early>>

(* ... join, and HandleRequests in its own thread.                          *)
JoinThread ==
    /\ dpc = "join" /\ At("ended")
    /\ dpc' = "last"
    /\ OnlyGoto("handle")
    /\ UNCHANGED <<running, recvSignal, early>>

DeInitEnd ==
    /\ dpc = "last" /\ At("handled")
    /\ dpc' = "done"
    /\ UNCHANGED <<queueVars, running, recvSignal, early>>

DeInit == StopThread \/ NotifyThread \/ JoinThread \/ DeInitEnd

Unsignalled == UNCHANGED <<running, recvSignal, dpc, early>>

Sender(p) == (Producer(p) /\ Unsignalled) \/ Notify(p)

Next ==
    \/ \E p \in Producers : (Push(p) /\ Unsignalled) \/ Sender(p)
    \/ (Handling /\ Unsignalled) \/ Thread \/ WakeUp
    \/ DeInit

(* Every thread that can take a step does; nobody has to send a request or  *)
(* to call DeInit, and nothing wakes a sleeper but Notify.                  *)
Spec ==
    /\ Init /\ [][Next]_vars
    /\ \A p \in Producers : WF_vars(Sender(p))
    /\ WF_vars((Handling /\ Unsignalled) \/ Thread)
    /\ WF_vars(dpc # "idle" /\ DeInit)

-----------------------------------------------------------------------------
TypeOK ==
    /\ QueueTypeOK
    /\ running \in BOOLEAN /\ recvSignal \in BOOLEAN /\ early \in BOOLEAN
    /\ dpc \in {"idle", "notify", "join", "last", "done"}
    /\ qpc \in [Threads ->
                  {"idle", "get", "getnext", "getcas", "putload", "putlink", "putcas",
                   "returned", "while", "wait", "asleep", "handle", "handlecas",
                   "walk", "handled", "ended"}]

(* The lock-free queue keeps the promises of RequestQueue.                  *)
QueueSpec == Queue!Spec

(* A request that has been published before the thread is gone is executed: *)
(* no interleaving of Notify, the sleep and the clearing of the signal      *)
(* leaves it behind, and DeInit executes the rest.                          *)
EveryRequestRuns ==
    \A p \in Producers : \A n \in 1 .. MaxPush[p] :
        (<<p, n>> \in NodesOf(Waiting) /\ dpc \notin {"last", "done"}) ~> ran[p] >= n

(* DeInit returns, unless it stopped the thread before Run had stored TRUE  *)
(* in running_: then the thread runs on and join waits for ever.            *)
DeInitReturns == dpc # "idle" ~> dpc = "done" \/ early
=============================================================================
