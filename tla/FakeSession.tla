---------------------------- MODULE FakeSession ----------------------------
(***************************************************************************)
(* An audio session with a scene asks for the focus in the name of all     *)
(* streams of its application: one fake entry stands in the focus list,    *)
(* the streams are members of the session and have no entries of their     *)
(* own.  AudioInterruptService holds mutex_ throughout each handler, but   *)
(* what a deactivation cleans up is cleaned up later, by a thread that     *)
(* takes mutex_ anew a second after and once more 50 ms later; and a       *)
(* session that times out is erased under another mutex before its focus   *)
(* is.  The model has one application and one rival for the focus, whose   *)
(* effect on an entry is all that is said of it; ducking is left out, and  *)
(* so is the window between the grant of a start and the start, which is   *)
(* RendererFocus's subject.                                                *)
(***************************************************************************)
EXTENDS Naturals, FiniteSetsExt

CONSTANTS
    Own,      \* playback streams of the application
    Fake,     \* the entry of the session
    Rivals,   \* of music and of internet calls, as [hit, bar]: what one does to an
              \* entry, and to an incoming stream
    NoRival,
    Threads,  \* bound: delayed deactivations under way at a time
    MaxQueued \* bound: events on their way when a call is made

ASSUME FakeAssumption ==
    /\ Fake \notin Own
    /\ Rivals \in [BOOLEAN -> SUBSET [hit : {"none", "pause", "stop"},
                                      bar : {"none", "give", "pause", "stop"}]]
    /\ \A v \in BOOLEAN : NoRival \notin Rivals[v]
    /\ MaxQueued \in Nat

\* A rival that is there is never paused, and leaves no entry paused behind when an
\* incoming one stops it: the states of the other entries need no second look.
ASSUME RivalAssumption == 
    \A v \in BOOLEAN : \A r \in Rivals[v] : r.bar = "give" => r.hit # "pause"

VARIABLES
    voip,    \* the streams and the session are internet calls, or they are music
    session, \* IsAudioSessionActivated
    members, \* streamsInSession_
    entry,   \* state of an entry of the list; "hold" is PLACEHOLDER
    rival,
    playing, \* streams that play
    halts,   \* how many events that pause or stop a stream it has not been handed
    task,    \* a delayed deactivation: how far it is, and the streams it holds
    timer    \* the session's time-out: firing, then late for the focus list

vars == <<voip, session, members, entry, rival, playing, halts, task, timer>>
streamVars == <<playing, halts>>
NoTask == [at |-> "none", streams |-> {}]

Init ==
    /\ voip \in BOOLEAN
    /\ session = FALSE /\ members = {}
    /\ entry = [e \in Own \cup {Fake} |-> "out"] /\ rival = NoRival
    /\ playing = {} /\ halts = [x \in Own |-> 0]
    /\ task = [t \in Threads |-> NoTask] /\ timer = "none"

Halt(S) == halts' = [x \in Own |-> IF x \in S THEN halts[x] + 1 ELSE halts[x]]
FewQueued == MapThenSumSet(LAMBDA x : halts[x], Own) <= MaxQueued

HasFake == entry[Fake] # "out"
Listed(S, levels) == {e \in S : entry[e] \in levels}

\* What the list gives an incoming entry of the application, and what is left of
\* a rival that has to stop for it.
Level == IF rival = NoRival \/ rival.bar = "give" THEN "none" ELSE rival.bar
RivalStays == rival' = IF rival # NoRival /\ rival.bar = "give" THEN NoRival ELSE rival

\* RemovePlaceholderInterruptForSession, of an entry; and what a new entry of the
\* application removes, which is a placeholder that is no call.
NoHold(level) == IF level = "hold" THEN "out" ELSE level
NoHoldFor(level) == IF voip THEN level ELSE NoHold(level)

-----------------------------------------------------------------------------
(* The application: its session, then its streams.                          *)

\* The fake entry is refused: the session's streams are told, and the session
\* ends or is kept with a paused entry.
FakeRefused(S) ==
    /\ Halt(S)
    /\ session' = (Level = "pause")
    /\ members' = IF Level = "pause" THEN S ELSE {}
    /\ entry' = [e \in Own \cup {Fake} |->
                   IF e = Fake THEN (IF Level = "pause" THEN "pause" ELSE "out")
                   ELSE IF Level = "pause" THEN NoHoldFor(entry[e]) ELSE NoHold(entry[e])]
    /\ UNCHANGED rival

\* It is granted: if there was none, the session's streams are forgotten and
\* those listed leave the list for the session, a call's placeholder with them.
FakeGranted(S) ==
    /\ RivalStays
    /\ session' = TRUE
    /\ members' = IF HasFake THEN S ELSE {x \in Own : NoHoldFor(entry[x]) # "out"}
    /\ entry' = [e \in Own \cup {Fake} |->
                   IF e = Fake THEN "active" ELSE IF HasFake THEN NoHoldFor(entry[e]) ELSE "out"]
    /\ UNCHANGED halts

\* SetAudioSessionScene and ActivateAudioSession.  The fake entry is taken out
\* and asks anew, as the last of the list.
ActivateAudioSession ==
    /\ FewQueued
    /\ LET S == IF session THEN members ELSE Listed(Own, {"active", "pause", "hold"})
       IN IF Level = "none" THEN FakeGranted(S) ELSE FakeRefused(S)
    /\ UNCHANGED <<playing, task, timer>>

\* Mutant: the delayed task is started with no streams.
DeactivateForgetsStreams ==
    /\ HasFake /\ members # {}
    /\ \E t \in Threads : task[t] = NoTask /\ task' = [task EXCEPT ![t] = [at |-> "waiting", streams |-> {}]]
    /\ session' = FALSE /\ members' = {}
    /\ entry' = [e \in Own \cup {Fake} |-> NoHold(entry[e])]
    /\ UNCHANGED <<rival, streamVars, timer>>

\* DeactivateAudioSession with streams: they and the fake entry have a second more.
DeactivateDelayed ==
    /\ HasFake /\ members # {}
    /\ \E t \in Threads :
          /\ task[t] = NoTask
          /\ task' = [task EXCEPT ![t] = [at |-> "waiting", streams |-> members]]
    /\ session' = FALSE /\ members' = {}
    /\ entry' = [e \in Own \cup {Fake} |-> NoHold(entry[e])]
    /\ UNCHANGED <<rival, streamVars, timer>>

\* With none, among them a second call while the first is still waiting, the
\* entry goes at once.
DeactivateAtOnce ==
    /\ ~(HasFake /\ members # {})
    /\ session \/ HasFake
    /\ session' = FALSE /\ members' = {}
    /\ entry' = [e \in Own \cup {Fake} |->
                   IF e = Fake THEN "out" ELSE IF session THEN NoHold(entry[e]) ELSE entry[e]]
    /\ UNCHANGED <<rival, streamVars, task, timer>>

\* Mutant: the rest of the task does not follow.
StopCapturedOnly(t) ==
    /\ task[t].at = "waiting"
    /\ Halt(IF session THEN {} ELSE task[t].streams)
    /\ task' = [task EXCEPT ![t] = NoTask]
    /\ UNCHANGED <<session, members, entry, rival, playing, timer>>

\* Mutant: the streams are not told.
StopCapturedUntold(t) ==
    /\ task[t].at = "waiting"
    /\ task' = [task EXCEPT ![t] = IF session THEN NoTask ELSE [at |-> "stopped", streams |-> {}]]
    /\ UNCHANGED <<session, members, entry, rival, streamVars, timer>>

\* DeactivateStreamsInAudioSession: not if the session is active again ...
StopCaptured(t) ==
    /\ task[t].at = "waiting"
    /\ IF session
       THEN /\ task' = [task EXCEPT ![t] = NoTask]
            /\ UNCHANGED halts
       ELSE /\ task' = [task EXCEPT ![t] = [at |-> "stopped", streams |-> {}]]
            /\ Halt(task[t].streams)
    /\ UNCHANGED <<session, members, entry, rival, playing, timer>>

\* ... and DeactivateAudioSessionFakeInterrupt, whether it is or not.
DropFake(t) ==
    /\ task[t].at = "stopped"
    /\ task' = [task EXCEPT ![t] = NoTask]
    /\ entry' = [entry EXCEPT ![Fake] = "out"]
    /\ UNCHANGED <<session, members, rival, streamVars, timer>>

\* Mutant: a stream that joins a paused session is not told.
BypassUntold(x) ==
    /\ members' = members \cup {x}
    /\ playing' = playing \cup {x}
    /\ UNCHANGED <<halts, rival>>

\* A stream of a session with a fake entry needs no focus of its own: it is
\* granted, and told to pause if the session is paused.
Bypass(x) ==
    /\ members' = members \cup {x}
    /\ playing' = playing \cup {x}
    /\ Halt(IF entry[Fake] = "pause" THEN {x} ELSE {})
    /\ UNCHANGED rival

\* Otherwise it asks for itself; a stream that must pause is listed all the same.
Ask(x) ==
    /\ RivalStays
    /\ members' = IF ~session THEN {} ELSE IF Level = "stop" THEN members \ {x} ELSE members \cup {x}
    /\ playing' = IF Level = "none" THEN playing \cup {x} ELSE playing
    /\ Halt(IF Level = "none" THEN {} ELSE {x})

\* ActivateAudioInterrupt of a stream, and its start when it is granted: its own
\* old entry and the placeholders of the application are taken out first.
StartStream(x) ==
    /\ x \notin playing /\ FewQueued
    /\ \/ /\ entry[x] = "active"
          /\ playing' = playing \cup {x}
          /\ UNCHANGED <<session, members, entry, rival, halts>>
       \/ /\ entry[x] # "active"
          /\ \/ session /\ HasFake /\ Bypass(x)
             \/ ~(session /\ HasFake) /\ Ask(x)
          /\ entry' = [e \in Own \cup {Fake} |->
                         IF e # x THEN NoHoldFor(entry[e])
                         ELSE IF (session /\ HasFake) \/ Level = "stop" THEN "out"
                         ELSE IF Level = "pause" THEN "pause" ELSE "active"]
          /\ UNCHANGED session
    /\ UNCHANGED <<task, timer>>

\* Pause, Stop or Release of a stream with DeactivateAudioInterrupt; the entry of
\* the last one stays as a placeholder, unless a call has left one (HadVoipStatus).
StopStream(x) ==
    /\ x \in playing \cup members \/ entry[x] \in {"active", "pause"}
    /\ FewQueued
    /\ playing' = playing \ {x}
    /\ members' = members \ {x}
    /\ entry' = [entry EXCEPT ![x] = IF /\ @ # "out" /\ session /\ members \subseteq {x}
                                        /\ voip => Listed(Own \ {x}, {"hold"}) = {}
                                     THEN "hold" ELSE "out"]
    /\ UNCHANGED <<session, rival, halts, task, timer>>

\* Forced events, on the handler's thread.
OnInterrupt(x) ==
    /\ halts[x] > 0
    /\ halts' = [halts EXCEPT ![x] = @ - 1]
    /\ playing' = playing \ {x}
    /\ UNCHANGED <<session, members, entry, rival, task, timer>>

-----------------------------------------------------------------------------
(* Other applications.                                                      *)

\* The rival pauses what plays.
RivalPauses ==
    /\ entry' = [e \in Own \cup {Fake} |-> IF entry[e] = "active" THEN "pause" ELSE entry[e]]
    /\ Halt(Listed(Own, {"active"}) \cup (IF entry[Fake] = "active" THEN members ELSE {}))
    /\ UNCHANGED <<session, members>>

\* It stops what is listed; the session ends with its fake entry, or with its last
\* stream (RemoveFocusInfo, HandleLowPriorityEvent), and so do its placeholders in
\* the second case only.
RivalStops ==
    LET hit == Listed(Own, {"active", "pause"})
        ended == session /\ (HasFake \/ (hit # {} /\ members \subseteq hit))
    IN /\ session' = (session /\ ~ended)
       /\ members' = IF ended THEN {} ELSE members \ hit
       /\ entry' = [e \in Own \cup {Fake} |->
                      IF e = Fake \/ e \in hit \/ (ended /\ members \subseteq hit) THEN "out" ELSE entry[e]]
       /\ Halt(hit \cup (IF HasFake THEN members ELSE {}))

RivalComes(r) ==
    /\ rival = NoRival /\ FewQueued
    /\ rival' = r
    /\ CASE r.hit = "stop" -> RivalStops
         [] r.hit = "pause" -> RivalPauses
         [] OTHER -> UNCHANGED <<session, members, entry, halts>>
    /\ UNCHANGED <<playing, task, timer>>

\* A paused entry is resumed and leaves the list; the session of a fake one ends,
\* its streams are told nothing.  Placeholders stay: the outer list overwrites.
RivalGoes ==
    /\ rival # NoRival /\ FewQueued
    /\ rival' = NoRival
    /\ entry' = [e \in Own \cup {Fake} |-> IF entry[e] = "pause" THEN "out" ELSE entry[e]]
    /\ IF entry[Fake] = "pause" THEN session' = FALSE /\ members' = {}
                                ELSE UNCHANGED <<session, members>>
    /\ UNCHANGED <<streamVars, task, timer>>

\* A stream of the application that a session does not manage (a recording, an
\* alarm) loses its own entry: a session without streams ends, its fake entry stays.
ExcludedInterrupted ==
    /\ session /\ members = {}
    /\ session' = FALSE
    /\ entry' = [e \in Own \cup {Fake} |-> NoHold(entry[e])]
    /\ UNCHANGED <<members, rival, streamVars, task, timer>>

\* The timer of an empty session whose application is in the background ends; its
\* thread erases the session and then has the focus list cleaned up.
TimerEnds ==
    /\ timer = "none" /\ session /\ members = {}
    /\ timer' = "firing"
    /\ UNCHANGED <<session, members, entry, rival, streamVars, task>>

OnAudioSessionTimeOut ==
    /\ timer = "firing"
    /\ timer' = "late"
    /\ session' = FALSE /\ members' = {}
    /\ UNCHANGED <<entry, rival, streamVars, task>>

HandleSessionTimeOutEvent ==
    /\ timer = "late"
    /\ timer' = "none"
    /\ entry' = [e \in Own \cup {Fake} |->
                   IF e = Fake THEN "out" ELSE IF session THEN entry[e] ELSE NoHold(entry[e])]
    /\ UNCHANGED <<session, members, rival, streamVars, task>>

Next ==
    /\ \/ ActivateAudioSession
       \/ FewQueued /\ (DeactivateDelayed \/ DeactivateAtOnce)
       \/ \E t \in Threads : StopCaptured(t) \/ DropFake(t)
       \/ \E x \in Own : StartStream(x) \/ StopStream(x) \/ OnInterrupt(x)
       \/ \E r \in Rivals[voip] : RivalComes(r)
       \/ RivalGoes \/ ExcludedInterrupted
       \/ TimerEnds \/ OnAudioSessionTimeOut \/ HandleSessionTimeOutEvent
    /\ UNCHANGED voip

\* The threads run and the handler hands over; applications and rivals need not.
Fairness ==
    /\ \A t \in Threads : WF_vars((StopCaptured(t) \/ DropFake(t)) /\ UNCHANGED voip)
    /\ \A x \in Own : WF_vars(OnInterrupt(x) /\ UNCHANGED voip)
    /\ WF_vars((OnAudioSessionTimeOut \/ HandleSessionTimeOutEvent) /\ UNCHANGED voip)

Spec == Init /\ [][Next]_vars /\ Fairness

-----------------------------------------------------------------------------
\* Everything has its type, and only an active session has streams.
TypeOK ==
    /\ voip \in BOOLEAN /\ session \in BOOLEAN /\ members \in SUBSET Own
    /\ ~session => members = {}
    /\ entry \in [Own \cup {Fake} -> {"out", "active", "pause", "hold"}]
    /\ entry[Fake] # "hold"
    /\ rival \in Rivals[voip] \cup {NoRival}
    /\ playing \in SUBSET Own /\ halts \in [Own -> Nat]
    /\ task \in [Threads -> [at : {"none", "waiting", "stopped"}, streams : SUBSET Own]]
    /\ timer \in {"none", "firing", "late"}

\* While the entry of a session is paused no stream it stands for plays on,
\* whether it was there, joined since or asked again: an event that stops it is
\* on its way (SendAudioSessionInterruptEventCallback,
\* TryHandleStreamCallbackInSession).
PausedWithSession ==
    entry[Fake] = "pause" =>
        \A x \in members \cap playing : entry[x] # "active" => halts[x] > 0

Captured(x) == \E t \in Threads : task[t].at = "waiting" /\ x \in task[t].streams

\* Does it play for no entry of the list, with nothing to stop it under way?
Uncovered(x) ==
    /\ x \in playing /\ halts[x] = 0
    /\ entry[x] # "active" /\ ~(x \in members /\ HasFake) /\ ~Captured(x)

\* A stream comes to play without the focus in one way only: a late clean-up, of
\* a deactivation or a time-out, meets a session that was activated again or got
\* a stream since.  No other step leaves a stream without an entry that stands
\* for it, its own or its session's.
OnlyLateCleanUp ==
    [][\A x \in Own : Uncovered(x)' =>
          \/ Uncovered(x)
          \/ session /\ (timer # "none" \/ \E t \in Threads : task[t].at # "none")]_vars

\* What an application gave up is given back: its fake entry leaves the list,
\* unless the session comes back, by the task or the late time-out.
FocusGivenUp ==
    ~session /\ HasFake /\ (timer = "late" \/ \E t \in Threads : task[t].at # "none")
        ~> session \/ ~HasFake

\* And the streams that played for it stop, unless the session comes back.
CapturedStop == \A x \in Own : Captured(x) ~> session \/ x \notin playing
=============================================================================
