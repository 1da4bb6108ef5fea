----------------------------- MODULE FutexTool -----------------------------
(***************************************************************************)
(* services/audio_service/common/src/futex_tool.cpp: one thread waits on a *)
(* word in shared memory until a predicate holds, others make the          *)
(* predicate true and wake it.  The word, the waiter's place in FutexWait  *)
(* and each waker's place in FutexWake are the state; every atomic access  *)
(* and every system call is a step.                                        *)
(*                                                                         *)
(* FutexWait takes its predicate as an argument, so WaitCheck and          *)
(* WaitRecheck take its value.  The modules that EXTEND this one say what  *)
(* it is.  One waiter per word: that is how every stream uses it, and with *)
(* two a wake-up can be lost (README).                                     *)
(***************************************************************************)
EXTENDS Naturals

CONSTANTS
    Wakers,     \* threads that call FutexWake
    TryCount    \* WAIT_TRY_COUNT

ASSUME TryCountAssumption == TryCount \in Nat \ {0}

VARIABLES
    futexObj,   \* the word
    fpc,        \* where the waiter is in FutexWait
    tries,      \* its tryCount
    timedOut,   \* did the last system call return ETIMEDOUT?
    fres,       \* result of its last FutexWait
    wpc         \* where each waker is in FutexWake

futexVars == <<futexObj, fpc, tries, timedOut, fres, wpc>>

FutexWords == {"READY", "NOT_READY", "PRE_EXIT"}
WaitPcs == {"idle", "cas", "check", "sys", "asleep", "recheck"}
WaitResults == {"none", "SUCCESS", "TIMEOUT", "FAILED"}
WakePcs == {"idle", "cas", "exit", "call"}

FutexTypeOK ==
    /\ futexObj \in FutexWords
    /\ fpc \in WaitPcs
    /\ tries \in 0 .. TryCount
    /\ timedOut \in BOOLEAN
    /\ fres \in WaitResults
    /\ wpc \in [Wakers -> WakePcs]

FutexInit ==
    /\ futexObj = "READY"
    /\ fpc = "idle"
    /\ tries = 0
    /\ timedOut = FALSE
    /\ fres = "none"
    /\ wpc = [w \in Wakers |-> "idle"]

-----------------------------------------------------------------------------
(* FutexWait.                                                               *)

(* Control: the waiter calls FutexWait.                                     *)
WaitBegin ==
    /\ fpc = "idle"
    /\ fpc' = "cas"
    /\ tries' = 0
    /\ timedOut' = FALSE
    /\ UNCHANGED <<futexObj, fres, wpc>>

WaitReturn(r) ==
    /\ fpc' = "idle"
    /\ fres' = r

(* compare_exchange READY -> NOT_READY; it fails harmlessly on NOT_READY.   *)
WaitCas ==
    /\ fpc = "cas"
    /\ IF futexObj = "PRE_EXIT"
       THEN WaitReturn("FAILED") /\ UNCHANGED futexObj
       ELSE futexObj' = "NOT_READY" /\ fpc' = "check" /\ UNCHANGED fres
    /\ UNCHANGED <<tries, timedOut, wpc>>

(* The predicate, then the time already spent, then the system call.        *)
WaitCheck(pred, expired) ==
    /\ fpc = "check"
    /\ IF pred THEN WaitReturn("SUCCESS")
       ELSE IF expired THEN WaitReturn("TIMEOUT")
       ELSE fpc' = "sys" /\ UNCHANGED fres
    /\ UNCHANGED <<futexObj, tries, timedOut, wpc>>

(* Mutant of WaitSys: sleeps without comparing the word.                    *)
WaitSysBlind ==
    /\ fpc = "sys"
    /\ fpc' = "asleep"
    /\ timedOut' = FALSE
    /\ UNCHANGED <<futexObj, tries, fres, wpc>>

(* FUTEX_WAIT sleeps only while the word is still NOT_READY (else EAGAIN).  *)
WaitSys ==
    /\ fpc = "sys"
    /\ fpc' = IF futexObj = "NOT_READY" THEN "asleep" ELSE "recheck"
    /\ timedOut' = FALSE
    /\ UNCHANGED <<futexObj, tries, fres, wpc>>

(* The sleep ends with ETIMEDOUT.                                           *)
WaitExpire ==
    /\ fpc = "asleep"
    /\ fpc' = "recheck"
    /\ timedOut' = TRUE
    /\ UNCHANGED <<futexObj, tries, fres, wpc>>

(* It ends with EINTR, woken by nobody: a try in vain unless pred holds.    *)
WaitInterrupted ==
    /\ fpc = "asleep"
    /\ fpc' = "recheck"
    /\ UNCHANGED <<futexObj, tries, timedOut, fres, wpc>>

WaitRecheck(pred) ==
    /\ fpc = "recheck"
    /\ IF pred THEN WaitReturn("SUCCESS") /\ UNCHANGED tries
       ELSE IF timedOut THEN WaitReturn("TIMEOUT") /\ UNCHANGED tries
       ELSE /\ tries' = tries + 1
            /\ IF tries + 1 < TryCount THEN fpc' = "cas" /\ UNCHANGED fres
               ELSE WaitReturn("FAILED")
    /\ UNCHANGED <<futexObj, timedOut, wpc>>

-----------------------------------------------------------------------------
(* FutexWake.                                                               *)

WakeGoto(w, l) == wpc' = [wpc EXCEPT ![w] = l]

(* Control: waker w calls FutexWake(futex), or FutexWake(futex, PRE_EXIT).  *)
WakeCall(w)     == wpc[w] = "idle" /\ WakeGoto(w, "cas")
WakeCallExit(w) == wpc[w] = "idle" /\ WakeGoto(w, "exit")

(* Mutant of WakeCas: wakes only if the word was READY.                     *)
WakeCasReady(w) ==
    /\ wpc[w] = "cas"
    /\ IF futexObj = "READY"
       THEN WakeGoto(w, "call")
       ELSE WakeGoto(w, "idle")
    /\ UNCHANGED <<futexObj, fpc, tries, timedOut, fres>>

(* compare_exchange NOT_READY -> READY; nobody waits on any other word.     *)
WakeCas(w) ==
    /\ wpc[w] = "cas"
    /\ IF futexObj = "NOT_READY"
       THEN futexObj' = "READY" /\ WakeGoto(w, "call")
       ELSE WakeGoto(w, "idle") /\ UNCHANGED futexObj
    /\ UNCHANGED <<fpc, tries, timedOut, fres>>

WakeExit(w) ==
    /\ wpc[w] = "exit"
    /\ futexObj' = "PRE_EXIT"
    /\ WakeGoto(w, "call")
    /\ UNCHANGED <<fpc, tries, timedOut, fres>>

(* FUTEX_WAKE.                                                              *)
WakeSys(w) ==
    /\ wpc[w] = "call"
    /\ fpc' = IF fpc = "asleep" THEN "recheck" ELSE fpc
    /\ WakeGoto(w, "idle")
    /\ UNCHANGED <<futexObj, tries, timedOut, fres>>

WakeStep(w) == WakeCas(w) \/ WakeExit(w) \/ WakeSys(w)
=============================================================================
