------------------------- MODULE FakeSession_proofs -------------------------
(***************************************************************************)
(* For any streams, rivals and number of delayed deactivations:            *)
(* PausedWithSession is inductive beside the types, and with it no step    *)
(* but a late clean-up leaves a stream playing that no entry stands for.   *)
(***************************************************************************)
EXTENDS FakeSession, TLAPS

Inv == TypeOK /\ PausedWithSession

NextButVoip ==
    \/ ActivateAudioSession
    \/ DeactivateDelayed \/ DeactivateAtOnce
    \/ \E t \in Threads : StopCaptured(t) \/ DropFake(t)
    \/ \E x \in Own : StartStream(x) \/ StopStream(x) \/ OnInterrupt(x)
    \/ \E r \in Rivals[voip] : RivalComes(r)
    \/ RivalGoes \/ ExcludedInterrupted
    \/ TimerEnds \/ OnAudioSessionTimeOut \/ HandleSessionTimeOutEvent

LEMMA StepForm == Next => NextButVoip /\ voip' = voip
  BY DEF Next, NextButVoip

\* Events are counted up for the streams of a set, for no other one.
LEMMA HaltCounts ==
  ASSUME halts \in [Own -> Nat], NEW S, Halt(S)
  PROVE  /\ halts' \in [Own -> Nat]
         /\ \A x \in Own : halts'[x] >= halts[x]
         /\ \A x \in Own \cap S : halts'[x] > 0
  BY DEF Halt

\* Everything keeps its type.
LEMMA TypeInit == Init => Inv
  <1> SUFFICES ASSUME Init PROVE Inv
    OBVIOUS
  <1>1. NoTask \in [at : {"none", "waiting", "stopped"}, streams : SUBSET Own]
    BY DEF NoTask
  <1>2. task \in [Threads -> [at : {"none", "waiting", "stopped"}, streams : SUBSET Own]]
    BY <1>1 DEF Init
  <1>3. entry[Fake] = "out" /\ entry \in [Own \cup {Fake} -> {"out", "active", "pause", "hold"}]
    BY DEF Init
  <1> QED
    BY <1>2, <1>3 DEF Init, Inv, TypeOK, PausedWithSession

LEMMA TypeStep == ASSUME TypeOK, Next PROVE TypeOK'
  <1> USE FakeAssumption DEF TypeOK
  <1>1. voip' = voip /\ NextButVoip
    BY StepForm
  <1>2. CASE ActivateAudioSession
    <2> DEFINE S == IF session THEN members ELSE Listed(Own, {"active", "pause", "hold"})
    <2>0. S \subseteq Own
      BY DEF Listed
    <2>1. UNCHANGED <<playing, task, timer>>
      BY <1>2 DEF ActivateAudioSession
    <2>2. ASSUME FakeGranted(S) PROVE TypeOK'
      BY <1>1, <2>0, <2>1, <2>2 DEF FakeGranted, RivalStays, NoHold, NoHoldFor
    <2>3. ASSUME FakeRefused(S) PROVE TypeOK'
      <3>1. CASE Level = "pause"
        <4>1. entry' \in [Own \cup {Fake} -> {"out", "active", "pause", "hold"}] /\ entry'[Fake] # "hold"
          BY <2>3, <3>1 DEF FakeRefused, NoHold, NoHoldFor
        <4>2. halts' \in [Own -> Nat]
          BY <2>3, HaltCounts DEF FakeRefused
        <4> QED
          BY <1>1, <2>0, <2>1, <2>3, <3>1, <4>1, <4>2 DEF FakeRefused
      <3>2. CASE Level # "pause"
        BY <1>1, <2>0, <2>1, <2>3, <3>2 DEF FakeRefused, Halt, NoHold
      <3> QED BY <3>1, <3>2
    <2> QED BY <1>2, <2>2, <2>3 DEF ActivateAudioSession
  <1>3. CASE DeactivateDelayed
    <2>1. entry' \in [Own \cup {Fake} -> {"out", "active", "pause", "hold"}] /\ entry'[Fake] # "hold"
      BY <1>3 DEF DeactivateDelayed, NoHold
    <2>2. PICK t \in Threads : task' = [task EXCEPT ![t] = [at |-> "waiting", streams |-> members]]
      BY <1>3 DEF DeactivateDelayed
    <2>3. task' \in [Threads -> [at : {"none", "waiting", "stopped"}, streams : SUBSET Own]]
      BY <2>2
    <2> QED
      BY <1>1, <1>3, <2>1, <2>3 DEF DeactivateDelayed, streamVars
  <1>4. CASE DeactivateAtOnce
    BY <1>1, <1>4 DEF DeactivateAtOnce, NoHold, streamVars, HasFake
  <1>5. ASSUME NEW t \in Threads, StopCaptured(t) PROVE TypeOK'
    BY <1>1, <1>5 DEF StopCaptured, NoTask, Halt
  <1>6. ASSUME NEW t \in Threads, DropFake(t) PROVE TypeOK'
    BY <1>1, <1>6 DEF DropFake, NoTask, streamVars
  <1>7. ASSUME NEW x \in Own, StartStream(x) PROVE TypeOK'
    <2>1. CASE entry[x] = "active"
      BY <1>1, <1>7, <2>1 DEF StartStream
    <2>2. CASE entry[x] # "active" /\ session /\ HasFake /\ Bypass(x)
      <3>1. entry' \in [Own \cup {Fake} -> {"out", "active", "pause", "hold"}] /\ entry'[Fake] # "hold"
        BY <1>7, <2>2 DEF StartStream, NoHold, NoHoldFor
      <3>2. halts' \in [Own -> Nat]
        BY <2>2, HaltCounts DEF Bypass
      <3> QED
        BY <1>1, <1>7, <2>2, <3>1, <3>2 DEF StartStream, Bypass
    <2>3. CASE entry[x] # "active" /\ ~(session /\ HasFake) /\ Ask(x)
      <3>1. entry' \in [Own \cup {Fake} -> {"out", "active", "pause", "hold"}] /\ entry'[Fake] # "hold"
        BY <1>7, <2>3 DEF StartStream, NoHold, NoHoldFor
      <3>2. halts' \in [Own -> Nat]
        BY <2>3, HaltCounts DEF Ask
      <3> QED
        BY <1>1, <1>7, <2>3, <3>1, <3>2 DEF StartStream, Ask, RivalStays
    <2> QED BY <1>7, <2>1, <2>2, <2>3 DEF StartStream
  <1>8. ASSUME NEW x \in Own, StopStream(x) PROVE TypeOK'
    BY <1>1, <1>8 DEF StopStream
  <1>9. ASSUME NEW x \in Own, OnInterrupt(x) PROVE TypeOK'
    BY <1>1, <1>9 DEF OnInterrupt
  <1>10. ASSUME NEW r \in Rivals[voip], RivalComes(r) PROVE TypeOK'
    <2>1. CASE r.hit = "stop" /\ RivalStops
      BY <1>1, <1>10, <2>1 DEF RivalComes, RivalStops, Halt, Listed
    <2>2. CASE r.hit = "pause" /\ RivalPauses
      BY <1>1, <1>10, <2>2 DEF RivalComes, RivalPauses, Halt, Listed
    <2>3. CASE UNCHANGED <<session, members, entry, halts>>
      BY <1>1, <1>10, <2>3 DEF RivalComes
    <2> QED BY <1>10, <2>1, <2>2, <2>3 DEF RivalComes
  <1>11. CASE RivalGoes
    BY <1>1, <1>11 DEF RivalGoes, streamVars
  <1>12. CASE ExcludedInterrupted
    BY <1>1, <1>12 DEF ExcludedInterrupted, NoHold, streamVars
  <1>13. CASE TimerEnds
    BY <1>1, <1>13 DEF TimerEnds, streamVars
  <1>14. CASE OnAudioSessionTimeOut
    BY <1>1, <1>14 DEF OnAudioSessionTimeOut, streamVars
  <1>15. CASE HandleSessionTimeOutEvent
    BY <1>1, <1>15 DEF HandleSessionTimeOutEvent, NoHold, streamVars
  <1> QED
    BY <1>1, <1>2, <1>3, <1>4, <1>5, <1>6, <1>7, <1>8, <1>9, <1>10, <1>11, <1>12, <1>13, <1>14, <1>15
       DEF NextButVoip

LEMMA PausedStep == ASSUME Inv, TypeOK', Next PROVE PausedWithSession'
  <1> SUFFICES ASSUME NEW y \in Own, entry'[Fake] = "pause", y \in members', y \in playing',
                      entry'[y] # "active"
               PROVE  halts'[y] > 0
    BY DEF PausedWithSession, TypeOK
  <1> USE FakeAssumption DEF Inv, TypeOK, PausedWithSession
  <1>1. voip' = voip /\ NextButVoip
    BY StepForm
  <1>2. CASE ActivateAudioSession
    <2> DEFINE S == IF session THEN members ELSE Listed(Own, {"active", "pause", "hold"})
    <2>1. CASE FakeGranted(S)
      BY <2>1 DEF FakeGranted
    <2>2. CASE FakeRefused(S)
      <3>1. y \in S
        BY <2>2 DEF FakeRefused
      <3> QED BY <2>2, <3>1, HaltCounts DEF FakeRefused
    <2> QED BY <1>2, <2>1, <2>2 DEF ActivateAudioSession
  <1>3. CASE DeactivateDelayed \/ DeactivateAtOnce \/ ExcludedInterrupted \/ OnAudioSessionTimeOut
    BY <1>3 DEF DeactivateDelayed, DeactivateAtOnce, ExcludedInterrupted, OnAudioSessionTimeOut
  <1>4. ASSUME NEW t \in Threads, StopCaptured(t) PROVE halts'[y] > 0
    <2>1. halts'[y] >= halts[y]
      BY <1>4, HaltCounts DEF StopCaptured
    <2> QED BY <1>4, <2>1 DEF StopCaptured
  <1>5. ASSUME NEW t \in Threads, DropFake(t) PROVE halts'[y] > 0
    BY <1>5 DEF DropFake
  <1>6. ASSUME NEW x \in Own, StartStream(x) PROVE halts'[y] > 0
    <2>1. CASE entry[x] = "active"
      BY <1>6, <2>1 DEF StartStream
    <2>2. CASE entry[x] # "active" /\ session /\ HasFake /\ Bypass(x)
      <3>1. entry[Fake] = "pause"
        BY <1>6, <2>2 DEF StartStream, NoHold, NoHoldFor
      <3>2. CASE y = x
        BY <2>2, <3>1, <3>2, HaltCounts DEF Bypass
      <3>3. CASE y # x
        <4>1. entry[y] # "active"
          BY <1>6, <2>2, <3>3 DEF StartStream, NoHold, NoHoldFor
        <4>2. halts'[y] >= halts[y]
          BY <2>2, HaltCounts DEF Bypass
        <4> QED BY <2>2, <3>1, <3>3, <4>1, <4>2 DEF Bypass
      <3> QED BY <3>2, <3>3
    <2>3. CASE entry[x] # "active" /\ ~(session /\ HasFake) /\ Ask(x)
      BY <1>6, <2>3 DEF StartStream, Ask, NoHold, NoHoldFor, HasFake
    <2> QED BY <1>6, <2>1, <2>2, <2>3 DEF StartStream
  <1>7. ASSUME NEW x \in Own, StopStream(x) PROVE halts'[y] > 0
    BY <1>7 DEF StopStream
  <1>8. ASSUME NEW x \in Own, OnInterrupt(x) PROVE halts'[y] > 0
    BY <1>8 DEF OnInterrupt
  <1>9. ASSUME NEW r \in Rivals[voip], RivalComes(r) PROVE halts'[y] > 0
    <2>1. CASE r.hit = "stop" /\ RivalStops
      BY <2>1 DEF RivalStops
    <2>2. CASE r.hit = "pause" /\ RivalPauses
      <3>1. entry[y] = "active" => y \in Listed(Own, {"active"})
        BY DEF Listed
      <3>2. halts'[y] >= halts[y]
        BY <2>2, HaltCounts DEF RivalPauses
      <3>3. entry[y] = "active" \/ entry[Fake] = "active" => halts'[y] > 0
        BY <2>2, <3>1, HaltCounts DEF RivalPauses
      <3> QED BY <1>9, <2>2, <3>2, <3>3 DEF RivalPauses, RivalComes
    <2>3. CASE UNCHANGED <<session, members, entry, halts>>
      BY <1>9, <2>3 DEF RivalComes
    <2> QED BY <1>9, <2>1, <2>2, <2>3 DEF RivalComes
  <1>10. CASE RivalGoes
    BY <1>10 DEF RivalGoes
  <1>11. CASE TimerEnds
    BY <1>11 DEF TimerEnds, streamVars
  <1>12. CASE HandleSessionTimeOutEvent
    BY <1>12 DEF HandleSessionTimeOutEvent
  <1> QED
    BY <1>1, <1>2, <1>3, <1>4, <1>5, <1>6, <1>7, <1>8, <1>9, <1>10, <1>11, <1>12 DEF NextButVoip

LEMMA InvStep == Inv /\ [Next]_vars => Inv'
  <1> SUFFICES ASSUME Inv, [Next]_vars PROVE Inv'
    OBVIOUS
  <1>1. CASE Next
    BY <1>1, TypeStep, PausedStep DEF Inv
  <1>2. CASE UNCHANGED vars
    BY <1>2 DEF Inv, TypeOK, PausedWithSession, vars
  <1> QED BY <1>1, <1>2

LEMMA InvHolds == Spec => []Inv
  BY TypeInit, InvStep, PTL DEF Spec

\* Types, for any streams, rivals and number of threads.
THEOREM TypeCorrect == Spec => []TypeOK
  <1>1. Inv => TypeOK
    BY DEF Inv
  <1> QED BY <1>1, InvHolds, PTL

\* A paused session is silent, or about to be (SendAudioSessionInterruptEventCallback
\* and TryHandleStreamCallbackInSession between them tell every stream).
THEOREM PausedSessionIsSilent == Spec => []PausedWithSession
  <1>1. Inv => PausedWithSession
    BY DEF Inv
  <1> QED BY <1>1, InvHolds, PTL

LateCleanUp == session /\ (timer # "none" \/ \E t \in Threads : task[t].at # "none")

LEMMA CoverStep ==
  ASSUME Inv, TypeOK', Next, NEW y \in Own, Uncovered(y)', ~Uncovered(y) PROVE LateCleanUp
  <1> USE FakeAssumption DEF Inv, TypeOK
  <1>1. voip' = voip /\ NextButVoip
    BY StepForm
  <1>0. /\ y \in playing' /\ halts'[y] = 0 /\ entry'[y] # "active"
        /\ ~(y \in members' /\ HasFake') /\ ~Captured(y)'
    BY DEF Uncovered
  <1>2. CASE ActivateAudioSession
    <2> DEFINE S == IF session THEN members ELSE Listed(Own, {"active", "pause", "hold"})
    <2>0. y \in playing /\ UNCHANGED task
      BY <1>0, <1>2 DEF ActivateAudioSession
    <2>1. ~Captured(y)
      BY <1>0, <2>0 DEF Captured
    <2>2. CASE FakeGranted(S)
      BY <1>0, <2>0, <2>1, <2>2 DEF FakeGranted, HasFake, NoHold, NoHoldFor, Uncovered
    <2>3. CASE FakeRefused(S)
      <3>1. halts'[y] >= halts[y] /\ y \notin S
        BY <1>0, <2>3, HaltCounts DEF FakeRefused
      <3>2. entry[y] # "active"
        BY <1>0, <2>3 DEF FakeRefused, NoHold, NoHoldFor
      <3> QED BY <1>0, <2>0, <2>1, <3>1, <3>2 DEF Uncovered
    <2> QED BY <1>2, <2>2, <2>3 DEF ActivateAudioSession
  <1>3. CASE DeactivateDelayed
    <2>1. PICK t \in Threads : task[t] = NoTask /\ task' = [task EXCEPT ![t] = [at |-> "waiting", streams |-> members]]
      BY <1>3 DEF DeactivateDelayed
    <2>2. y \notin members
      BY <1>0, <2>1 DEF Captured
    <2>3. ~Captured(y)
      BY <1>0, <2>1 DEF Captured, NoTask
    <2> QED BY <1>0, <1>3, <2>2, <2>3 DEF DeactivateDelayed, NoHold, streamVars, Uncovered
  <1>4. CASE DeactivateAtOnce
    BY <1>0, <1>4 DEF DeactivateAtOnce, NoHold, streamVars, Uncovered, Captured
  <1>5. ASSUME NEW t \in Threads, StopCaptured(t) PROVE LateCleanUp
    <2>1. CASE session
      BY <1>5, <2>1 DEF StopCaptured, LateCleanUp
    <2>2. CASE ~session
      <3>1. halts'[y] >= halts[y] /\ y \notin task[t].streams
        BY <1>0, <1>5, <2>2, HaltCounts DEF StopCaptured
      <3>2. ~Captured(y)
        BY <1>0, <1>5, <2>2, <3>1 DEF StopCaptured, Captured
      <3> QED BY <1>0, <1>5, <3>1, <3>2 DEF StopCaptured, HasFake, Uncovered
    <2> QED BY <2>1, <2>2
  <1>6. ASSUME NEW t \in Threads, DropFake(t) PROVE LateCleanUp
    <2>1. ~Captured(y)
      BY <1>0, <1>6 DEF DropFake, Captured, NoTask
    <2> QED BY <1>0, <1>6, <2>1 DEF DropFake, streamVars, Uncovered, LateCleanUp
  <1>7. ASSUME NEW x \in Own, StartStream(x) PROVE FALSE
    <2>0. ~Captured(y)
      BY <1>0, <1>7 DEF StartStream, Captured
    <2>1. CASE entry[x] = "active"
      BY <1>0, <1>7, <2>0, <2>1 DEF StartStream, HasFake, Uncovered
    <2>2. CASE entry[x] # "active" /\ session /\ HasFake /\ Bypass(x)
      <3>1. HasFake'
        BY <1>7, <2>2 DEF StartStream, HasFake, NoHold, NoHoldFor
      <3>2. y # x /\ y \in playing
        BY <1>0, <2>2, <3>1 DEF Bypass
      <3>3. halts'[y] >= halts[y]
        BY <2>2, HaltCounts DEF Bypass
      <3>4. entry[y] # "active" /\ y \notin members
        BY <1>0, <1>7, <2>2, <3>1, <3>2 DEF StartStream, Bypass, NoHold, NoHoldFor
      <3> QED BY <1>0, <2>0, <3>2, <3>3, <3>4 DEF Uncovered
    <2>3. CASE entry[x] # "active" /\ ~(session /\ HasFake) /\ Ask(x)
      <3>1. y # x
        BY <1>0, <1>7, <2>3 DEF StartStream, Ask
      <3>2. y \in playing /\ entry[y] # "active"
        BY <1>0, <1>7, <2>3, <3>1 DEF StartStream, Ask, NoHold, NoHoldFor
      <3>3. halts'[y] >= halts[y]
        BY <2>3, HaltCounts DEF Ask
      <3>4. ~(y \in members /\ HasFake)
        BY <2>3
      <3> QED BY <1>0, <2>0, <3>2, <3>3, <3>4 DEF Uncovered
    <2> QED BY <1>7, <2>1, <2>2, <2>3 DEF StartStream
  <1>8. ASSUME NEW x \in Own, StopStream(x) PROVE FALSE
    BY <1>0, <1>8 DEF StopStream, HasFake, Captured, Uncovered
  <1>9. ASSUME NEW x \in Own, OnInterrupt(x) PROVE FALSE
    BY <1>0, <1>9 DEF OnInterrupt, HasFake, Captured, Uncovered
  <1>10. ASSUME NEW r \in Rivals[voip], RivalComes(r) PROVE FALSE
    <2>0. ~Captured(y) /\ y \in playing
      BY <1>0, <1>10 DEF RivalComes, Captured
    <2>1. CASE r.hit = "stop" /\ RivalStops
      <3> DEFINE hit == Listed(Own, {"active", "pause"})
      <3>1. halts'[y] >= halts[y] /\ y \notin hit /\ ~(HasFake /\ y \in members)
        BY <1>0, <2>1, HaltCounts DEF RivalStops
      <3> QED BY <1>0, <2>0, <3>1 DEF Listed, Uncovered
    <2>2. CASE r.hit = "pause" /\ RivalPauses
      <3>1. halts'[y] >= halts[y] /\ y \notin Listed(Own, {"active"})
        BY <1>0, <2>2, HaltCounts DEF RivalPauses
      <3>2. HasFake => HasFake'
        BY <2>2 DEF RivalPauses, HasFake
      <3> QED BY <1>0, <2>0, <2>2, <3>1, <3>2 DEF RivalPauses, Listed, Uncovered
    <2>3. CASE UNCHANGED <<session, members, entry, halts>>
      BY <1>0, <2>0, <2>3 DEF HasFake, Uncovered
    <2> QED BY <1>10, <2>1, <2>2, <2>3 DEF RivalComes
  <1>11. CASE RivalGoes
    BY <1>0, <1>11 DEF RivalGoes, streamVars, HasFake, Captured, Uncovered, PausedWithSession
  <1>12. CASE ExcludedInterrupted
    BY <1>0, <1>12 DEF ExcludedInterrupted, NoHold, streamVars, Captured, Uncovered
  <1>13. CASE TimerEnds
    BY <1>0, <1>13 DEF TimerEnds, streamVars, HasFake, Captured, Uncovered
  <1>14. CASE OnAudioSessionTimeOut
    BY <1>0, <1>14 DEF OnAudioSessionTimeOut, streamVars, HasFake, Captured, Uncovered, LateCleanUp
  <1>15. CASE HandleSessionTimeOutEvent
    BY <1>0, <1>15 DEF HandleSessionTimeOutEvent, NoHold, streamVars, Captured, Uncovered, LateCleanUp
  <1> QED
    BY <1>1, <1>2, <1>3, <1>4, <1>5, <1>6, <1>7, <1>8, <1>9, <1>10, <1>11, <1>12, <1>13, <1>14, <1>15
       DEF NextButVoip

\* No step but a late clean-up of a session that is active again leaves a stream
\* playing that no entry of the focus list stands for.
THEOREM OnlyLateCleanUpUncovers == Spec => OnlyLateCleanUp
  <1>1. Inv /\ Inv' /\ [Next]_vars =>
          [\A x \in Own : Uncovered(x)' =>
             \/ Uncovered(x)
             \/ session /\ (timer # "none" \/ \E t \in Threads : task[t].at # "none")]_vars
    <2> SUFFICES ASSUME Inv, Inv', Next, NEW y \in Own, Uncovered(y)', ~Uncovered(y)
                 PROVE  LateCleanUp
      BY DEF LateCleanUp
    <2> QED BY CoverStep DEF Inv
  <1> QED BY <1>1, InvHolds, PTL DEF Spec, OnlyLateCleanUp

=============================================================================
