------------------------ MODULE AudioInterruptService ------------------------
(***************************************************************************)
(* The focus arbitration of the audio policy server: which streams may     *)
(* play, which are ducked, paused or stopped.  Every handler holds         *)
(* mutex_ from its first line to its last, so each is one action.  The     *)
(* default zone is modelled, for applications that have activated no audio *)
(* session: there are no placeholders and no fake interrupts (FakeSession  *)
(* has them).                                                              *)
(*                                                                         *)
(* audioFocusInfoList is a list of streams in the order of their           *)
(* activation, each with a state.  A stream is in it at most once (its old *)
(* entry goes before the new one comes), so the list is given by the state *)
(* of each stream and the order of each two.                               *)
(***************************************************************************)
EXTENDS Integers, Sequences

CONSTANTS
    Streams,      \* stream ids
    App,          \* the application (pid) of a stream
    Kind,         \* its audioFocusType
    Kinds,        \* the stream and source types in the table
    SourceKinds,  \* those of recording streams
    VoiceKinds,   \* STREAM_VOICE_CALL and STREAM_VOICE_COMMUNICATION
    VoipKinds,    \* those of internet calls, the recording side included
    Shared,       \* streams in SHARE_MODE; the others are INDEPENDENT_MODE
    Policy,       \* focusCfgMap_: existing kind, incoming kind |-> on, hint
    Listeners,    \* streams with a callback in interruptClients_
    MaxQueued     \* bound: events on their way when a call is made

\* AudioFocuState, and the hint that leads to it; STOP is never in the list.
OUT == -1
ACTIVE == 0
DUCK == 2
PAUSE == 3
STOP == 4
States == {OUT, ACTIVE, DUCK, PAUSE}
Hints == {"duck", "unduck", "pause", "resume", "stop"}
\* AudioConcurrencyMode, MIX_WITH_OTHERS and SILENT being treated alike.
Strategies == {"default", "mix", "duck", "pause"}

ASSUME FocusAssumption ==
    /\ App \in [Streams -> Nat]
    /\ Kind \in [Streams -> Kinds]
    /\ SourceKinds \subseteq Kinds /\ VoiceKinds \subseteq Kinds \ SourceKinds
    /\ VoipKinds \subseteq Kinds
    /\ Shared \subseteq Streams /\ Listeners \subseteq Streams
    /\ Policy \in [Kinds \X Kinds -> [on : {"existing", "incoming"},
                                      hint : {ACTIVE, DUCK, PAUSE, STOP}]]
    /\ MaxQueued \in Nat

VARIABLES
    st,        \* a stream's state in the list, OUT when it is not there
    strategy,  \* the strategy its entry was added with
    older,     \* which of two entries was added first
    preempt,   \* isPreemptMode_
    queue      \* events for a stream that the handler thread has not handed over

focusVars == <<st, strategy, older, preempt, queue>>

Listed == {s \in Streams : st[s] # OUT}

FocusInit ==
    /\ st = [s \in Streams |-> OUT]
    /\ strategy = [s \in Streams |-> "default"]
    /\ older = {}
    /\ preempt = FALSE
    /\ queue = [s \in Streams |-> <<>>]

-----------------------------------------------------------------------------
(* The policy for an existing entry e and an incoming entry i; se and si are *)
(* their strategies.                                                         *)

Rule(e, i) == Policy[Kind[e], Kind[i]]

SameAppInShareMode(e, i) == App[e] = App[i] /\ e \in Shared /\ i \in Shared

\* IsCanMixInterrupt: recordings do not mix with each other or with calls.
CanMixInterrupt(e, i) ==
    LET Source(s) == Kind[s] \in SourceKinds
        Voice(s) == Kind[s] \in VoiceKinds
    IN ~( \/ Source(i) /\ (Voice(e) \/ Source(e))
          \/ Voice(i) /\ Source(e) )

CanMix(e, se, i, si) ==
    /\ ~(Rule(e, i) = [on |-> "incoming", hint |-> STOP] /\ Kind[i] \in SourceKinds)
    /\ CanMixInterrupt(e, i)
    /\ "mix" \in {se, si}

\* Do the two concern each other, and which of them gives way?
Yields(who, e, se, i, si) ==
    /\ Rule(e, i).on = who
    /\ ~SameAppInShareMode(e, i)
    /\ ~CanMix(e, se, i, si)

\* UpdateHintTypeForExistingSession: a strategy softens the hint.
Soften(si, hint) ==
    IF si = "duck" /\ hint >= DUCK THEN DUCK
    ELSE IF si = "pause" /\ hint >= PAUSE THEN PAUSE ELSE hint

Worst(S) == IF STOP \in S THEN STOP
            ELSE IF PAUSE \in S THEN PAUSE
            ELSE IF DUCK \in S THEN DUCK ELSE ACTIVE

\* ProcessActiveStreamFocus: what the entries R make of the incoming one.
IncomingState(R, i, si) ==
    Worst({Rule(e, i).hint : e \in {x \in R : Yields("incoming", x, strategy[x], i, si)}})

\* ProcessActiveInterrupt: what the incoming one does to an entry e.
HintFor(e, i, si) ==
    IF ~Yields("existing", e, strategy[e], i, si) THEN ACTIVE
    ELSE IF CanMixInterrupt(e, i) THEN Soften(si, Rule(e, i).hint) ELSE Rule(e, i).hint

\* Mutant: the last hint counts, not the strongest.
AffectedLatest(e, i, si) ==
    LET h == HintFor(e, i, si) IN
    IF h = STOP THEN OUT ELSE IF h = ACTIVE THEN st[e] ELSE h

Affected(e, i, si) ==
    LET h == HintFor(e, i, si) IN IF h = STOP THEN OUT ELSE Worst({st[e], h})

\* SimulateFocusEntry: the states the entries L would have had, had they come
\* one after the other.  STOP has no state to lead to and is passed over; an
\* entry that has to pause affects no one.
SimHint(who, e, i) ==
    LET h == Soften(strategy[i], Rule(e, i).hint) IN
    IF Yields(who, e, strategy[e], i, strategy[i]) /\ h # STOP THEN h ELSE ACTIVE

SimIncoming(L, i) ==
    Worst({SimHint("incoming", e, i) : e \in {x \in L : <<x, i>> \in older}})

\* Mutant: only the older ones count.
SimStateOldOnly(L, e) == SimIncoming(L, e)

SimState(L, e) ==
    Worst({SimIncoming(L, e)} \cup
          {SimHint("existing", e, i) :
             i \in {x \in L : <<e, x>> \in older /\ SimIncoming(L, x) # PAUSE}})

-----------------------------------------------------------------------------
(* The events a change of state is told with, and the operations.           *)

\* Mutant: nobody is told to be quieter.
HintOfNoDuck(to) == CASE to = PAUSE -> <<"pause">>
                      [] to \in {OUT, STOP} -> <<"stop">>
                      [] OTHER -> <<>>

HintOf(to) == CASE to = PAUSE -> <<"pause">>
                [] to = DUCK -> <<"duck">>
                [] to \in {OUT, STOP} -> <<"stop">>
                [] OTHER -> <<>>

\* SendInterruptEvent, for a change that the resumption makes.
ResumeHints(old, new) ==
    CASE old = new -> <<>>
      [] old = PAUSE -> <<"resume">>
      [] old = DUCK /\ new = ACTIVE -> <<"unduck">>
      [] old = DUCK /\ new = PAUSE -> <<"unduck", "pause">>
      [] OTHER -> HintOf(new)

\* An event for a stream without a callback is dropped when its turn comes.
Tell(hints) ==
    queue' = [s \in Streams |-> IF s \in Listeners THEN queue[s] \o hints[s] ELSE queue[s]]

\* AudioInterruptIsActiveInFocusList
AlreadyActive(s, updated) == st[s] \in {ACTIVE, DUCK} /\ ~updated

\* What ActivateAudioInterrupt returns.
Granted(s, mode, updated) ==
    /\ ~preempt
    /\ AlreadyActive(s, updated) \/ IncomingState(Listed \ {s}, s, mode) < PAUSE

\* ProcessAudioScene takes the stream's own entry out before the others are
\* looked at; a stream that has to pause is added all the same, and the others
\* give way to it.
ProcessFocusEntry(s, mode) ==
    LET rest == Listed \ {s}
        in == IncomingState(rest, s, mode)
    IN /\ st' = [e \in Streams |->
                   IF e = s THEN (IF in = STOP THEN OUT ELSE in)
                   ELSE IF e \in rest /\ in # STOP THEN Affected(e, s, mode) ELSE st[e]]
       /\ strategy' = [strategy EXCEPT ![s] = mode]
       /\ older' = {p \in (older \ ({s} \X Streams)) \cup (rest \X {s}) :
                      st'[p[1]] # OUT /\ st'[p[2]] # OUT}
       /\ Tell([e \in Streams |-> IF e = s THEN HintOf(in)
                                  ELSE IF st'[e] # st[e] THEN HintOf(st'[e]) ELSE <<>>])

\* Mutant: preempt mode is not looked at.
ActivateAnyhow(s, mode, updated) ==
    /\ IF AlreadyActive(s, updated) THEN UNCHANGED <<st, strategy, older, queue>>
       ELSE ProcessFocusEntry(s, mode)
    /\ UNCHANGED preempt

ActivateAudioInterrupt(s, mode, updated) ==
    /\ \/ /\ preempt
          /\ Tell([e \in Streams |-> IF e = s THEN <<"stop">> ELSE <<>>])
          /\ UNCHANGED <<st, strategy, older>>
       \/ /\ ~preempt /\ AlreadyActive(s, updated)
          /\ UNCHANGED <<st, strategy, older, queue>>
       \/ /\ ~preempt /\ ~AlreadyActive(s, updated)
          /\ ProcessFocusEntry(s, mode)
    /\ UNCHANGED preempt

\* Mutant: nobody is resumed.
DeactivateOnly(s) ==
    /\ st' = [st EXCEPT ![s] = OUT]
    /\ older' = {p \in older : s \notin {p[1], p[2]}}
    /\ UNCHANGED <<strategy, preempt, queue>>

\* DeactivateAudioInterruptInternal with ResumeAudioFocusList: a stream that is
\* not in the list changes nothing; a paused one that may play again is told so
\* and leaves the list.
DeactivateAudioInterrupt(s) ==
    LET L == Listed \ {s} IN
    /\ \/ /\ s \notin Listed
          /\ UNCHANGED <<st, older, queue>>
       \/ /\ s \in Listed
          /\ st' = [e \in Streams |->
                      IF e \notin L \/ (st[e] = PAUSE /\ SimState(L, e) # PAUSE) THEN OUT
                      ELSE SimState(L, e)]
          /\ older' = {p \in older : st'[p[1]] # OUT /\ st'[p[2]] # OUT}
          /\ Tell([e \in Streams |->
                     IF e \in L THEN ResumeHints(st[e], SimState(L, e)) ELSE <<>>])
    /\ UNCHANGED <<strategy, preempt>>

\* Mutant: only internet calls are told.
PreemptTellsCalls ==
    /\ preempt' = TRUE
    /\ st' = [s \in Streams |-> OUT]
    /\ older' = {}
    /\ Tell([s \in Streams |-> IF s \in Listed /\ Kind[s] \in VoipKinds THEN <<"pause">> ELSE <<>>])
    /\ UNCHANGED strategy

\* Every entry is cleared: an internet call is told to pause, anything else to stop.
\* What is kept for the return of a user is left out.
ActivatePreemptMode ==
    /\ preempt' = TRUE
    /\ st' = [s \in Streams |-> OUT]
    /\ older' = {}
    /\ Tell([s \in Streams |-> IF s \notin Listed THEN <<>>
                               ELSE IF Kind[s] \in VoipKinds THEN <<"pause">> ELSE <<"stop">>])
    /\ UNCHANGED strategy

DeactivatePreemptMode ==
    /\ preempt' = FALSE
    /\ UNCHANGED <<st, strategy, older, queue>>

\* DispatchInterruptEventWithStreamId, on the handler's thread.
Dispatch(s) ==
    /\ queue[s] # <<>>
    /\ queue' = [queue EXCEPT ![s] = Tail(@)]
    /\ UNCHANGED <<st, strategy, older, preempt>>

=============================================================================
