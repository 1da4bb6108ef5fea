---------------------------- MODULE FutexSignal ----------------------------
(***************************************************************************)
(* The use every stream makes of FutexTool, and no more: a waiter that     *)
(* sleeps until a condition holds and consumes it, and any number of       *)
(* wakers that first make the condition true and then call FutexWake.      *)
(*                                                                         *)
(* For the playback client the condition is WriteCacheData's predicate     *)
(* (room in the ring buffer, or no longer RUNNING); the wakers are         *)
(* SetCurReadFrame on the server and Pause, Stop and JoinCallbackLoop on   *)
(* the client.                                                             *)
(***************************************************************************)
EXTENDS FutexTool

VARIABLES
    ready,   \* the condition waited for
    told     \* wakers that made it true and have not called FutexWake yet

signalVars == <<futexVars, ready, told>>

SignalInit ==
    /\ FutexInit
    /\ ready = FALSE
    /\ told = {}

(* The waiter.                                                              *)
Wait       == WaitBegin /\ UNCHANGED <<ready, told>>
Cas        == WaitCas /\ UNCHANGED <<ready, told>>
Check      == \E expired \in BOOLEAN :
                WaitCheck(ready, expired) /\ UNCHANGED <<ready, told>>
Sleep      == WaitSys /\ UNCHANGED <<ready, told>>
Recheck    == WaitRecheck(ready) /\ UNCHANGED <<ready, told>>
Expire     == WaitExpire /\ UNCHANGED <<ready, told>>
Interrupt  == WaitInterrupted /\ UNCHANGED <<ready, told>>

(* What the waiter does once it has returned uses the condition up.         *)
Consume ==
    /\ fpc = "idle" /\ fres = "SUCCESS" /\ ready
    /\ ready' = FALSE
    /\ UNCHANGED <<futexVars, told>>

(* The wakers.                                                              *)
MakeReady(w) ==
    /\ wpc[w] = "idle" /\ w \notin told
    /\ ready' = TRUE
    /\ told' = told \cup {w}
    /\ UNCHANGED futexVars

CallWake(w) ==
    /\ w \in told
    /\ \/ WakeCall(w)
       \/ WakeCallExit(w)
    /\ told' = told \ {w}
    /\ UNCHANGED <<futexObj, fpc, tries, timedOut, fres, ready>>

WakerStep(w) == WakeStep(w) /\ UNCHANGED <<ready, told>>

Waiter == Wait \/ Cas \/ Check \/ Sleep \/ Recheck \/ Expire \/ Interrupt \/ Consume
Waker(w) == CallWake(w) \/ WakerStep(w)
SignalNext == Waiter \/ \E w \in Wakers : MakeReady(w) \/ Waker(w)

(* A waker that has begun goes on; nobody has to make the condition true,   *)
(* and no time-out has to happen.                                           *)
SignalSpec ==
    /\ SignalInit /\ [][SignalNext]_signalVars
    /\ \A w \in Wakers : WF_signalVars(Waker(w))

-----------------------------------------------------------------------------
SignalTypeOK ==
    /\ FutexTypeOK
    /\ ready \in BOOLEAN
    /\ told \subseteq Wakers

(* Wakers that have made the condition true and are yet to look at the      *)
(* word, and wakers that have changed the word and are yet to call the      *)
(* kernel.                                                                  *)
BeforeCas == {w \in Wakers : w \in told \/ wpc[w] \in {"cas", "exit"}}
BeforeCall == {w \in Wakers : wpc[w] = "call"}

(* No lost wake-up: when the waiter sleeps although the condition holds,    *)
(* a waker is on its way that will find it asleep.                          *)
NoLostWake ==
    fpc = "asleep" /\ ready =>
        \/ BeforeCall # {}
        \/ futexObj = "NOT_READY" /\ BeforeCas # {}

(* So a sleeper whose condition holds gets up without the help of its       *)
(* time-out.                                                                *)
WokenInTime == (fpc = "asleep" /\ ready) ~> fpc # "asleep"
=============================================================================
