---------------------------- MODULE RendererFocus ----------------------------
(***************************************************************************)
(* Renderers that ask AudioInterruptService for the focus, and obey the    *)
(* events it sends.  Start asks first and starts the stream after; Pause   *)
(* and Stop stop the stream first and give the focus back after; an event  *)
(* comes on another thread and takes another lock, so it may be handled    *)
(* between the two.  The calls to the audio server that pause or stop a    *)
(* stream are taken to succeed, the one that starts it may fail.           *)
(* What the application does on a resume is its own affair, so             *)
(* isForcePaused_, which decides whether it hears of one, is left out.     *)
(***************************************************************************)
EXTENDS AudioInterruptService, FiniteSets

CONSTANTS
    Strategy,   \* originalStrategy_ of each stream
    Silenceable \* streams whose application uses SetSilentModeAndMixWithOthers

ASSUME RendererAssumption ==
    /\ Strategy \in [Streams -> Strategies]
    /\ Silenceable \subseteq Listeners

\* HintFor softens a hint for a strategy only if CanMixInterrupt, SimHint always:
\* they agree as long as no recording, and no call beside a recording, has a
\* strategy that softens.
ASSUME SoftenAssumption ==
    \A e, i \in Streams : CanMixInterrupt(e, i) \/ Strategy[i] \in {"default", "mix"}

\* A cellular call, or a caller of AudioInterruptClientManager: the focus is all
\* it has, there is no stream to start and stop beside it.
FocusOnly == Streams \ Listeners

VARIABLES
    state,         \* state_ of the inner stream
    pc,            \* where the call under rendererMutex_ is
    ducked,        \* is the duck volume below 1?
    silent         \* GetSilentModeAndMixWithOthers() of the stream

clientVars == <<state, pc, ducked, silent>>
vars == <<focusVars, clientVars>>

Init ==
    /\ FocusInit
    /\ state = [s \in Streams |-> "prepared"]
    /\ pc = [s \in Streams |-> "idle"]
    /\ ducked = [s \in Streams |-> FALSE]
    /\ silent = [s \in Streams |-> FALSE]

\* Bound: no application makes a call while more events are on their way.
FewQueued == Cardinality(UNION {{s} \X DOMAIN queue[s] : s \in Streams}) <= MaxQueued

Mode(s) == IF silent[s] THEN "mix" ELSE Strategy[s]

\* Start, up to the answer of the policy server ...
Start(s) ==
    /\ pc[s] = "idle" /\ state[s] \in {"prepared", "paused", "stopped"} /\ FewQueued
    /\ ActivateAudioInterrupt(s, Mode(s), FALSE)
    /\ pc' = [pc EXCEPT ![s] = IF s \notin FocusOnly /\ Granted(s, Mode(s), FALSE)
                               THEN "starting" ELSE "idle"]
    /\ UNCHANGED <<state, ducked, silent>>

\* ... and GetStartStreamResult, which gives the focus back when the stream
\* does not start, unless it is silent.
StartStream(s) ==
    /\ pc[s] = "starting"
    /\ pc' = [pc EXCEPT ![s] = "idle"]
    /\ \/ /\ state' = [state EXCEPT ![s] = "running"]
          /\ UNCHANGED focusVars
       \/ /\ IF silent[s] THEN UNCHANGED focusVars ELSE DeactivateAudioInterrupt(s)
          /\ UNCHANGED state
    /\ UNCHANGED <<ducked, silent>>

\* Pause and Stop of a cellular call (IsNoStreamRenderer), or the end of a focus
\* asked for through AudioInterruptClientManager.
GiveBack(s) ==
    /\ s \in FocusOnly /\ FewQueued
    /\ DeactivateAudioInterrupt(s)
    /\ UNCHANGED clientVars

PauseStream(s) ==
    /\ pc[s] = "idle" /\ state[s] = "running" /\ FewQueued
    /\ state' = [state EXCEPT ![s] = "paused"]
    /\ pc' = [pc EXCEPT ![s] = "leaving"]
    /\ UNCHANGED <<focusVars, ducked, silent>>

StopStream(s) ==
    /\ pc[s] = "idle" /\ state[s] \in {"running", "paused"} /\ FewQueued
    /\ state' = [state EXCEPT ![s] = "stopped"]
    /\ pc' = [pc EXCEPT ![s] = "leaving"]
    /\ UNCHANGED <<focusVars, ducked, silent>>

\* The rest of Pause and of Stop.
Leave(s) ==
    /\ pc[s] = "leaving"
    /\ DeactivateAudioInterrupt(s)
    /\ pc' = [pc EXCEPT ![s] = "idle"]
    /\ ducked' = [ducked EXCEPT ![s] = FALSE]
    /\ UNCHANGED <<state, silent>>

\* A stream that is running asks again at once, with the new strategy; when it
\* may not play without the silent mode, the mode stays.
SetSilentModeAndMixWithOthers(s) ==
    /\ s \in Silenceable /\ pc[s] = "idle" /\ state[s] # "released" /\ FewQueued
    /\ LET mode == IF silent[s] THEN Strategy[s] ELSE "mix" IN
       IF state[s] = "running"
       THEN /\ ActivateAudioInterrupt(s, mode, TRUE)
            /\ silent' = [silent EXCEPT ![s] = ~@ \/ ~Granted(s, mode, TRUE)]
       ELSE /\ silent' = [silent EXCEPT ![s] = ~@]
            /\ UNCHANGED focusVars
    /\ UNCHANGED <<state, pc, ducked>>

\* Release, or the death of the application: what is still on its way finds no
\* client.
Release(s) ==
    /\ pc[s] = "idle" /\ state[s] # "released" /\ FewQueued
    /\ DeactivateAudioInterrupt(s)
    /\ state' = [state EXCEPT ![s] = "released"]
    /\ ducked' = [ducked EXCEPT ![s] = FALSE]
    /\ silent' = [silent EXCEPT ![s] = FALSE]
    /\ UNCHANGED pc

\* A new renderer; events for the old one do not reach it.
Create(s) ==
    /\ state[s] = "released" /\ queue[s] = <<>>
    /\ state' = [state EXCEPT ![s] = "prepared"]
    /\ UNCHANGED <<focusVars, pc, ducked, silent>>

\* HandleAndNotifyForcedEvent: a pause finds no stream to pause when the stream
\* is paused, stopped or not started yet; nothing remembers it.
OnInterrupt(s) ==
    LET hint == Head(queue[s])
        live == state[s] # "released"
        pausable == state[s] \in {"running", "prepared"}
    IN
    /\ Dispatch(s)
    /\ state' = [state EXCEPT ![s] =
                   IF hint = "pause" /\ @ = "running" THEN "paused"
                   ELSE IF hint = "stop" /\ @ \in {"running", "paused"} THEN "stopped" ELSE @]
    /\ ducked' = [ducked EXCEPT ![s] =
                   IF hint = "duck" THEN live
                   ELSE @ /\ ~(hint \in {"unduck", "stop"} \/ (hint = "pause" /\ pausable))]
    /\ UNCHANGED <<pc, silent>>

Next ==
    \/ \E s \in Streams : Start(s) \/ StartStream(s) \/ PauseStream(s) \/ StopStream(s)
                          \/ Leave(s) \/ GiveBack(s) \/ Release(s) \/ Create(s)
                          \/ SetSilentModeAndMixWithOthers(s) \/ OnInterrupt(s)
    \/ FewQueued /\ (ActivatePreemptMode \/ DeactivatePreemptMode) /\ UNCHANGED clientVars

Spec == Init /\ [][Next]_vars

-----------------------------------------------------------------------------
\* The list, its order, the events and the clients have their types; only
\* entries of the list have an order.
TypeOK ==
    /\ st \in [Streams -> States]
    /\ strategy \in [Streams -> Strategies]
    /\ older \subseteq Listed \X Listed
    /\ preempt \in BOOLEAN
    /\ queue \in [Streams -> Seq(Hints)]
    /\ state \in [Streams -> {"prepared", "running", "paused", "stopped", "released"}]
    /\ pc \in [Streams -> {"idle", "starting", "leaving"}]
    /\ ducked \in [Streams -> BOOLEAN]
    /\ silent \in [Streams -> BOOLEAN]

\* Whatever came and went since, in whatever order, an entry is kept as quiet as
\* the table wants it to be beside every younger entry that does not pause itself:
\* two ways compute the states, ProcessActiveInterrupt one arrival at a time and
\* SimulateFocusEntry the whole list over again.
NoConflict ==
    \A e, i \in Streams : <<e, i>> \in older /\ st[i] # PAUSE =>
        st[e] >= HintFor(e, i, strategy[i])

\* In preempt mode nobody has the focus (ActivateAudioInterruptCoreProcedure
\* refuses whoever asks, ActivatePreemptMode takes it from those who have it).
PreemptSilence == preempt => Listed = {}

\* Does it play without the focus, with nothing on its way that would stop it?
RunsWithoutFocus(s) ==
    /\ state[s] = "running" /\ pc[s] = "idle" /\ st[s] \notin {ACTIVE, DUCK}
    /\ \A k \in DOMAIN queue[s] : queue[s][k] \notin {"pause", "stop"}

\* A stream comes to play without the focus in one way only: the event that took
\* it was handled between the grant and the start of the stream.  No call of
\* another stream, no event, no Pause, Stop or change of mode leaves it so.
OnlyStartLosesFocus ==
    [][\A s \in Streams : RunsWithoutFocus(s)' => RunsWithoutFocus(s) \/ pc[s] = "starting"]_vars

\* A running stream that is ducked in the list, with no event on its way, plays
\* at the lower volume, however ducking, pausing, resuming and its own calls mix.
DuckedIsQuiet ==
    \A s \in Streams :
        state[s] = "running" /\ pc[s] = "idle" /\ queue[s] = <<>> /\ st[s] = DUCK => ducked[s]

KeepsDown(u, t) ==
    \/ <<t, u>> \in older /\ Rule(t, u).on = "existing" /\ Rule(t, u).hint # ACTIVE
    \/ <<u, t>> \in older /\ Rule(u, t).on = "incoming" /\ Rule(u, t).hint # ACTIVE

\* When a stream gives the focus back, every stream that stays ducked or paused
\* does so for another one that is still in the list: ResumeAudioFocusList
\* leaves nobody down for the one that has gone.
ResumeSettles ==
    [][\A s, t \in Streams :
         /\ st[s] # OUT /\ st'[s] = OUT /\ st'[t] \in {DUCK, PAUSE}
         /\ DeactivateAudioInterrupt(s)
         => \E u \in Listed \ {s, t} : KeepsDown(u, t)]_vars
=============================================================================
