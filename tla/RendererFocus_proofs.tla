------------------------ MODULE RendererFocus_proofs ------------------------
(***************************************************************************)
(* Proofs about RendererFocus, for all streams, strategies and policy      *)
(* tables that satisfy the assumptions.                                    *)
(***************************************************************************)
EXTENDS RendererFocus, SequenceTheorems, TLAPS

Levels == {ACTIVE, DUCK, PAUSE, STOP}

-----------------------------------------------------------------------------
(* The operators the arbitration is made of.                                *)

\* Worst returns a level that is at least every level of the set, and one of
\* them unless it is ACTIVE.
LEMMA WorstIsWorst ==
    ASSUME NEW S \in SUBSET Levels
    PROVE /\ Worst(S) \in Levels
          /\ \A x \in S : x <= Worst(S)
          /\ Worst(S) # ACTIVE => Worst(S) \in S
          /\ STOP \notin S => Worst(S) # STOP
  BY DEF Worst, Levels, ACTIVE, DUCK, PAUSE, STOP

\* The table has a level for every two streams.
LEMMA RuleType ==
    ASSUME NEW e \in Streams, NEW i \in Streams
    PROVE Rule(e, i).hint \in Levels
  BY FocusAssumption DEF FocusAssumption, Rule, Levels

LEMMA SoftenType ==
    ASSUME NEW si, NEW h \in Levels
    PROVE /\ Soften(si, h) \in Levels
          /\ Soften(si, h) # ACTIVE => h # ACTIVE
          /\ si \in {"default", "mix"} => Soften(si, h) = h
  BY DEF Soften, Levels, ACTIVE, DUCK, PAUSE, STOP

LEMMA HintForType ==
    ASSUME NEW e \in Streams, NEW i \in Streams, NEW si
    PROVE HintFor(e, i, si) \in Levels
  <1>1. ACTIVE \in Levels
    BY DEF Levels
  <1> QED
    BY <1>1, RuleType, SoftenType DEF HintFor

LEMMA SimHintType ==
    ASSUME NEW e \in Streams, NEW i \in Streams, NEW who
    PROVE SimHint(who, e, i) \in Levels \ {STOP}
  <1>1. ACTIVE \in Levels \ {STOP}
    BY DEF Levels, ACTIVE, DUCK, PAUSE, STOP
  <1>2. Soften(strategy[i], Rule(e, i).hint) \in Levels
    BY RuleType, SoftenType
  <1> QED
    BY <1>1, <1>2 DEF SimHint

LEMMA IncomingStateType ==
    ASSUME NEW R \in SUBSET Streams, NEW i \in Streams, NEW si
    PROVE IncomingState(R, i, si) \in Levels
  <1>1. {Rule(e, i).hint : e \in {x \in R : Yields("incoming", x, strategy[x], i, si)}} \in SUBSET Levels
    BY RuleType
  <1> QED
    BY <1>1, WorstIsWorst DEF IncomingState

\* An entry that is affected is at least as quiet as it was and as the hint says,
\* or it is out.
LEMMA AffectedType ==
    ASSUME NEW e \in Streams, NEW i \in Streams, NEW si, st[e] \in States \ {OUT}
    PROVE /\ Affected(e, i, si) \in States
          /\ Affected(e, i, si) # OUT =>
                /\ Affected(e, i, si) >= st[e]
                /\ Affected(e, i, si) >= HintFor(e, i, si)
                /\ HintFor(e, i, si) # STOP
  <1>1. HintFor(e, i, si) \in Levels
    BY HintForType
  <1>2. st[e] \in Levels /\ st[e] # STOP
    BY DEF States, Levels, OUT, ACTIVE, DUCK, PAUSE, STOP
  <1>3. {st[e], HintFor(e, i, si)} \in SUBSET Levels
    BY <1>1, <1>2
  <1>4. CASE HintFor(e, i, si) = STOP
    BY <1>4 DEF Affected, States
  <1>5. CASE HintFor(e, i, si) # STOP
    <2> DEFINE w == Worst({st[e], HintFor(e, i, si)})
    <2>1. /\ w \in Levels /\ w # STOP
          /\ st[e] <= w /\ HintFor(e, i, si) <= w
      BY <1>2, <1>3, <1>5, WorstIsWorst
    <2>2. Affected(e, i, si) = w
      BY <1>5 DEF Affected
    <2>3. w \in States /\ w \in Int /\ st[e] \in Int /\ HintFor(e, i, si) \in Int
      BY <2>1, <1>1, <1>2 DEF Levels, States, OUT, ACTIVE, DUCK, PAUSE, STOP
    <2> QED
      BY <1>5, <2>1, <2>2, <2>3
  <1> QED
    BY <1>4, <1>5

LEMMA SimIncomingType ==
    ASSUME NEW L \in SUBSET Streams, NEW i \in Streams
    PROVE /\ SimIncoming(L, i) \in Levels \ {STOP}
          /\ SimIncoming(L, i) # ACTIVE =>
                \E e \in L : <<e, i>> \in older /\ SimHint("incoming", e, i) # ACTIVE
  <1> DEFINE S == {SimHint("incoming", e, i) : e \in {x \in L : <<x, i>> \in older}}
  <1>1. S \in SUBSET Levels /\ STOP \notin S
    BY SimHintType
  <1>2. SimIncoming(L, i) = Worst(S)
    BY DEF SimIncoming
  <1>3. Worst(S) \in Levels \ {STOP} /\ (Worst(S) # ACTIVE => Worst(S) \in S)
    BY <1>1, WorstIsWorst
  <1> QED
    BY <1>2, <1>3

\* What the simulation makes of an entry: at least what it got on arrival and at
\* least what every younger entry that does not pause wants of it, and nothing else.
LEMMA SimStateType ==
    ASSUME NEW L \in SUBSET Streams, NEW e \in Streams
    PROVE /\ SimState(L, e) \in Levels \ {STOP}
          /\ SimIncoming(L, e) <= SimState(L, e)
          /\ \A i \in L : <<e, i>> \in older /\ SimIncoming(L, i) # PAUSE =>
                SimHint("existing", e, i) <= SimState(L, e)
          /\ SimState(L, e) # ACTIVE =>
                \/ SimIncoming(L, e) # ACTIVE
                \/ \E i \in L : <<e, i>> \in older /\ SimHint("existing", e, i) # ACTIVE
  <1> DEFINE X == {i \in L : <<e, i>> \in older /\ SimIncoming(L, i) # PAUSE}
             H == {SimHint("existing", e, i) : i \in X}
             S == {SimIncoming(L, e)} \cup H
  <1>1. SimState(L, e) = Worst(S)
    BY DEF SimState
  <1>2. H \in SUBSET (Levels \ {STOP}) /\ SimIncoming(L, e) \in Levels \ {STOP}
    BY SimHintType, SimIncomingType
  <1>3. S \in SUBSET Levels /\ STOP \notin S
    BY <1>2
  <1>4. /\ Worst(S) \in Levels \ {STOP}
        /\ \A x \in S : x <= Worst(S)
        /\ Worst(S) # ACTIVE => Worst(S) \in S
    BY <1>3, WorstIsWorst
  <1> QED
    BY <1>1, <1>4

-----------------------------------------------------------------------------
(* The invariant of the arbitration.                                        *)

FocusType ==
    /\ st \in [Streams -> States]
    /\ strategy \in [Streams -> Strategies]
    /\ older \subseteq Listed \X Listed
    /\ preempt \in BOOLEAN
    /\ queue \in [Streams -> Seq(Hints)]

\* No entry is older than itself.
Irreflexive == \A s \in Streams : <<s, s>> \notin older

\* An entry that a younger one would have stopped is gone.
NoStopped == \A e, i \in Streams : <<e, i>> \in older => HintFor(e, i, strategy[i]) # STOP

\* An entry has its stream's strategy, or the one of the silent mode.
OwnStrategy == \A s \in Streams : strategy[s] \in {"default", "mix", Strategy[s]}

FocusInv ==
    /\ FocusType
    /\ Irreflexive
    /\ NoStopped
    /\ OwnStrategy
    /\ NoConflict
    /\ PreemptSilence

LEMMA TellType ==
    ASSUME queue \in [Streams -> Seq(Hints)],
           NEW hints, \A s \in Streams : hints[s] \in Seq(Hints),
           Tell(hints)
    PROVE queue' \in [Streams -> Seq(Hints)]
  <1>1. \A s \in Streams : queue[s] \o hints[s] \in Seq(Hints)
    BY ConcatProperties
  <1> QED
    BY <1>1 DEF Tell

LEMMA HintOfType ==
    ASSUME NEW x
    PROVE HintOf(x) \in Seq(Hints)
  <1>1. /\ <<>> \in Seq(Hints) /\ <<"pause">> \in Seq(Hints)
        /\ <<"duck">> \in Seq(Hints) /\ <<"stop">> \in Seq(Hints)
    BY DEF Hints
  <1>2. /\ HintOf(PAUSE) = <<"pause">> /\ HintOf(DUCK) = <<"duck">>
        /\ HintOf(OUT) = <<"stop">> /\ HintOf(STOP) = <<"stop">>
        /\ x \notin {PAUSE, DUCK, OUT, STOP} => HintOf(x) = <<>>
    BY DEF HintOf, OUT, DUCK, PAUSE, STOP
  <1> QED
    BY <1>1, <1>2

LEMMA ResumeHintsType ==
    ASSUME NEW x, NEW y
    PROVE ResumeHints(x, y) \in Seq(Hints)
  <1>1. /\ <<>> \in Seq(Hints) /\ <<"resume">> \in Seq(Hints)
        /\ <<"unduck">> \in Seq(Hints) /\ <<"unduck", "pause">> \in Seq(Hints)
    BY DEF Hints
  <1> QED
    BY <1>1, HintOfType DEF ResumeHints

\* The hint for an entry depends on the strategies of the two entries only.
LEMMA HintForFrame ==
    ASSUME NEW e \in Streams, NEW i \in Streams,
           strategy'[e] = strategy[e], strategy'[i] = strategy[i]
    PROVE HintFor(e, i, strategy[i])' = HintFor(e, i, strategy[i])
  BY DEF HintFor, Yields, CanMix, Rule

\* The arrival of a stream that is neither refused in preempt mode nor active already.
LEMMA ProcessKeeps ==
    ASSUME FocusInv, ~preempt, UNCHANGED preempt,
           NEW s \in Streams, NEW mode \in {Strategy[s], "mix"},
           ProcessFocusEntry(s, mode)
    PROVE FocusInv'
  <1> DEFINE rest == Listed \ {s}
             in == IncomingState(rest, s, mode)
  <1>0. FocusType /\ Irreflexive /\ NoStopped /\ OwnStrategy /\ NoConflict /\ PreemptSilence
    BY DEF FocusInv
  <1>1. rest \in SUBSET Streams /\ \A e \in rest : e # s /\ st[e] \in States \ {OUT}
    BY <1>0 DEF FocusType, Listed
  <1>2. in \in Levels
    BY <1>1, IncomingStateType
  <1>3. /\ st' = [e \in Streams |->
                   IF e = s THEN (IF in = STOP THEN OUT ELSE in)
                   ELSE IF e \in rest /\ in # STOP THEN Affected(e, s, mode) ELSE st[e]]
        /\ strategy' = [strategy EXCEPT ![s] = mode]
        /\ older' = {p \in (older \ ({s} \X Streams)) \cup (rest \X {s}) :
                       st'[p[1]] # OUT /\ st'[p[2]] # OUT}
        /\ Tell([e \in Streams |-> IF e = s THEN HintOf(in)
                                   ELSE IF st'[e] # st[e] THEN HintOf(st'[e]) ELSE <<>>])
    BY DEF ProcessFocusEntry
  <1> HIDE DEF in
  <1>4. \A e \in rest : /\ Affected(e, s, mode) \in States
                        /\ Affected(e, s, mode) # OUT =>
                              /\ Affected(e, s, mode) >= st[e]
                              /\ Affected(e, s, mode) >= HintFor(e, s, mode)
                              /\ HintFor(e, s, mode) # STOP
    BY <1>1, AffectedType
  <1>5. st' \in [Streams -> States]
    BY <1>0, <1>1, <1>2, <1>3, <1>4 DEF FocusType, Levels, States
  <1>6. mode \in Strategies /\ strategy' \in [Streams -> Strategies]
    BY <1>0, <1>3, RendererAssumption DEF FocusType, RendererAssumption, Strategies
  <1>7. queue' \in [Streams -> Seq(Hints)]
    <2> DEFINE hints == [e \in Streams |-> IF e = s THEN HintOf(in)
                            ELSE IF st'[e] # st[e] THEN HintOf(st'[e]) ELSE <<>>]
    <2>1. \A e \in Streams : hints[e] \in Seq(Hints)
      BY HintOfType
    <2> HIDE DEF hints
    <2> QED
      BY <1>0, <1>3, <2>1, TellType DEF FocusType, hints
  <1>8. FocusType'
    BY <1>0, <1>1, <1>3, <1>5, <1>6, <1>7 DEF FocusType, Listed
  <1>9. OwnStrategy'
    BY <1>0, <1>3 DEF OwnStrategy, FocusType
  <1>10. \A e, i \in Streams : <<e, i>> \in older' =>
            /\ e # s /\ e \in rest /\ st'[e] # OUT /\ st'[i] # OUT
            /\ i = s \/ <<e, i>> \in older
            /\ strategy'[e] = strategy[e]
    BY <1>0, <1>3 DEF FocusType, Listed
  <1>11. Irreflexive'
    BY <1>0, <1>10 DEF Irreflexive
  \* The younger one of a pair that has stayed is as it was.
  <1>12. ASSUME NEW e \in Streams, NEW i \in Streams, <<e, i>> \in older', i # s
         PROVE /\ <<e, i>> \in older
               /\ HintFor(e, i, strategy[i])' = HintFor(e, i, strategy[i])
               /\ st'[e] >= st[e]
               /\ st'[i] # PAUSE => st[i] # PAUSE
    <2>1. <<e, i>> \in older /\ strategy'[e] = strategy[e] /\ strategy'[i] = strategy[i]
      BY <1>0, <1>3, <1>10, <1>12 DEF FocusType
    <2>2. e \in rest /\ i \in rest /\ st'[e] # OUT /\ st'[i] # OUT
      BY <1>0, <1>10, <1>12, <2>1 DEF FocusType
    <2>3. \A x \in {e, i} : st'[x] >= st[x] /\ st'[x] \in States /\ st[x] \in States
      BY <1>0, <1>1, <1>3, <1>4, <1>5, <2>2 DEF FocusType, States, OUT, ACTIVE, DUCK, PAUSE
    <2>4. st'[i] # PAUSE => st[i] # PAUSE
      BY <2>3, <2>2 DEF States, OUT, ACTIVE, DUCK, PAUSE
    <2> QED
      BY <2>1, <2>3, <2>4, HintForFrame
  \* The new one has affected those it came to.
  <1>13. ASSUME NEW e \in Streams, <<e, s>> \in older'
         PROVE /\ HintFor(e, s, strategy[s])' # STOP
               /\ st'[e] >= HintFor(e, s, strategy[s])'
    <2>1. e \in rest /\ st'[e] # OUT /\ st'[s] # OUT /\ strategy'[e] = strategy[e]
      BY <1>10, <1>13
    <2>2. strategy'[s] = mode /\ in # STOP /\ st'[e] = Affected(e, s, mode)
      BY <1>0, <1>1, <1>3, <2>1 DEF FocusType
    <2>3. HintFor(e, s, strategy[s])' = HintFor(e, s, mode)
      BY <2>1, <2>2 DEF HintFor, Yields, CanMix, Rule
    <2> QED
      BY <1>4, <2>1, <2>2, <2>3
  <1>14. NoStopped'
    BY <1>0, <1>12, <1>13 DEF NoStopped
  <1>15. NoConflict'
    <2>1. ASSUME NEW e \in Streams, NEW i \in Streams, <<e, i>> \in older', st'[i] # PAUSE, i # s
          PROVE st'[e] >= HintFor(e, i, strategy[i])'
      <3>1. st[e] >= HintFor(e, i, strategy[i]) /\ st'[e] >= st[e]
        BY <1>0, <1>12, <2>1 DEF NoConflict
      <3>2. st[e] \in States /\ st'[e] \in States /\ HintFor(e, i, strategy[i]) \in Levels
        BY <1>0, <1>5, HintForType DEF FocusType
      <3>3. st[e] \in Int /\ st'[e] \in Int /\ HintFor(e, i, strategy[i]) \in Int
        BY <3>2 DEF States, Levels, OUT, ACTIVE, DUCK, PAUSE, STOP
      <3> QED
        BY <1>12, <2>1, <3>1, <3>3
    <2> QED
      BY <1>13, <2>1 DEF NoConflict
  <1>16. PreemptSilence'
    BY DEF PreemptSilence
  <1> QED
    BY <1>8, <1>9, <1>11, <1>14, <1>15, <1>16 DEF FocusInv

LEMMA FrameKeeps ==
    ASSUME FocusInv, UNCHANGED <<st, strategy, older, preempt>>, queue' \in [Streams -> Seq(Hints)]
    PROVE FocusInv'
  <1>1. \A e, i \in Streams : HintFor(e, i, strategy[i])' = HintFor(e, i, strategy[i])
    BY HintForFrame
  <1>2. NoStopped' /\ NoConflict'
    BY <1>1 DEF FocusInv, NoStopped, NoConflict
  <1> QED
    BY <1>2 DEF FocusInv, FocusType, Listed, Irreflexive, OwnStrategy, PreemptSilence

LEMMA ActivateKeeps ==
    ASSUME FocusInv, NEW s \in Streams, NEW mode \in {Strategy[s], "mix"}, NEW updated \in BOOLEAN,
           ActivateAudioInterrupt(s, mode, updated)
    PROVE FocusInv'
  <1>1. CASE preempt
    <2> DEFINE hints == [e \in Streams |-> IF e = s THEN <<"stop">> ELSE <<>>]
    <2>1. UNCHANGED <<st, strategy, older, preempt>> /\ Tell(hints)
      BY <1>1 DEF ActivateAudioInterrupt
    <2>2. \A e \in Streams : hints[e] \in Seq(Hints)
      <3>1. <<>> \in Seq(Hints) /\ <<"stop">> \in Seq(Hints)
        BY DEF Hints
      <3> QED
        BY <3>1
    <2> HIDE DEF hints
    <2>3. queue' \in [Streams -> Seq(Hints)]
      BY <2>1, <2>2, TellType DEF FocusInv, FocusType
    <2> QED
      BY <2>1, <2>3, FrameKeeps
  <1>2. CASE UNCHANGED focusVars
    BY <1>2, FrameKeeps DEF focusVars, FocusInv, FocusType
  <1>3. CASE ~preempt /\ ProcessFocusEntry(s, mode) /\ UNCHANGED preempt
    BY <1>3, ProcessKeeps
  <1> QED
    BY <1>1, <1>2, <1>3 DEF ActivateAudioInterrupt, focusVars

\* The simulation gives an entry at least what the policy asks of it, as long as
\* the younger one was there when the older one would have been stopped.
LEMMA SimHintAtLeast ==
    ASSUME NEW e \in Streams, NEW i \in Streams,
           strategy[i] \in {"default", "mix", Strategy[i]}, HintFor(e, i, strategy[i]) # STOP
    PROVE SimHint("existing", e, i) = HintFor(e, i, strategy[i])
  <1>1. CASE ~Yields("existing", e, strategy[e], i, strategy[i])
    BY <1>1 DEF SimHint, HintFor
  <1>2. CASE Yields("existing", e, strategy[e], i, strategy[i])
    <2>1. CanMixInterrupt(e, i) \/ strategy[i] \in {"default", "mix"}
      BY SoftenAssumption DEF SoftenAssumption
    <2>2. HintFor(e, i, strategy[i]) = Soften(strategy[i], Rule(e, i).hint)
      BY <1>2, <2>1, SoftenType, RuleType DEF HintFor
    <2> QED
      BY <1>2, <2>2 DEF SimHint
  <1> QED
    BY <1>1, <1>2

LEMMA DeactivateKeeps ==
    ASSUME FocusInv, NEW s \in Streams, DeactivateAudioInterrupt(s)
    PROVE FocusInv'
  <1> DEFINE L == Listed \ {s}
  <1>0. FocusType /\ Irreflexive /\ NoStopped /\ OwnStrategy /\ NoConflict /\ PreemptSilence
    BY DEF FocusInv
  <1>1. CASE s \notin Listed
    <2>1. UNCHANGED focusVars
      BY <1>1 DEF DeactivateAudioInterrupt, focusVars
    <2> QED
      BY <2>1, FrameKeeps DEF focusVars, FocusInv, FocusType
  <1>2. CASE s \in Listed
    <2>1. /\ st' = [e \in Streams |->
                      IF e \notin L \/ (st[e] = PAUSE /\ SimState(L, e) # PAUSE) THEN OUT
                      ELSE SimState(L, e)]
          /\ older' = {p \in older : st'[p[1]] # OUT /\ st'[p[2]] # OUT}
          /\ Tell([e \in Streams |->
                     IF e \in L THEN ResumeHints(st[e], SimState(L, e)) ELSE <<>>])
          /\ UNCHANGED <<strategy, preempt>>
      BY <1>2 DEF DeactivateAudioInterrupt
    <2>2. L \in SUBSET Streams
      BY DEF Listed
    <2>3. \A e \in Streams : SimState(L, e) \in Levels \ {STOP}
      BY <2>2, SimStateType
    <2> HIDE DEF L
    <2>4. st' \in [Streams -> States]
      BY <2>1, <2>3 DEF Levels, States
    <2>5. queue' \in [Streams -> Seq(Hints)]
      <3> DEFINE hints == [e \in Streams |->
                             IF e \in L THEN ResumeHints(st[e], SimState(L, e)) ELSE <<>>]
      <3>1. \A e \in Streams : hints[e] \in Seq(Hints)
        BY ResumeHintsType
      <3> HIDE DEF hints
      <3> QED
        BY <1>0, <2>1, <3>1, TellType DEF FocusType, hints
    <2>6. FocusType'
      BY <1>0, <2>1, <2>4, <2>5 DEF FocusType, Listed
    <2>7. Irreflexive' /\ OwnStrategy' /\ NoStopped'
      BY <1>0, <2>1, HintForFrame DEF Irreflexive, OwnStrategy, NoStopped
    <2>8. PreemptSilence'
      BY <1>0, <1>2, <2>1 DEF PreemptSilence
    <2>9. ASSUME NEW e \in Streams, NEW i \in Streams, <<e, i>> \in older', st'[i] # PAUSE
          PROVE st'[e] >= HintFor(e, i, strategy[i])'
      <3>1. /\ <<e, i>> \in older
            /\ e \in L /\ st'[e] = SimState(L, e)
            /\ i \in L /\ st'[i] = SimState(L, i)
        BY <2>1, <2>9
      <3>2. SimIncoming(L, i) # PAUSE
        <4>1. SimState(L, i) \in Levels \ {STOP} /\ SimIncoming(L, i) <= SimState(L, i)
          BY <2>2, SimStateType
        <4>2. SimState(L, i) # PAUSE
          BY <2>9, <3>1
        <4> QED
          BY <4>1, <4>2 DEF Levels, ACTIVE, DUCK, PAUSE, STOP
      <3>3. SimHint("existing", e, i) <= SimState(L, e)
        BY <2>2, <3>1, <3>2, SimStateType
      <3>4. HintFor(e, i, strategy[i]) # STOP
        BY <1>0, <3>1 DEF NoStopped
      <3>5. SimHint("existing", e, i) = HintFor(e, i, strategy[i])
        BY <1>0, <3>4, SimHintAtLeast DEF OwnStrategy
      <3>6. HintFor(e, i, strategy[i])' = HintFor(e, i, strategy[i])
        BY <2>1, HintForFrame
      <3>7. HintFor(e, i, strategy[i]) \in Levels /\ SimState(L, e) \in Levels
        BY <2>3, HintForType
      <3> QED
        BY <3>1, <3>3, <3>5, <3>6, <3>7 DEF Levels, ACTIVE, DUCK, PAUSE, STOP
    <2>10. NoConflict'
      BY <2>9 DEF NoConflict
    <2> QED
      BY <2>6, <2>7, <2>8, <2>10 DEF FocusInv
  <1> QED
    BY <1>1, <1>2

LEMMA PreemptKeeps ==
    ASSUME FocusInv, ActivatePreemptMode
    PROVE FocusInv'
  <1> DEFINE hints == [s \in Streams |-> IF s \notin Listed THEN <<>>
                               ELSE IF Kind[s] \in VoipKinds THEN <<"pause">> ELSE <<"stop">>]
  <1>1. \A s \in Streams : hints[s] \in Seq(Hints)
    <2>1. <<>> \in Seq(Hints) /\ <<"pause">> \in Seq(Hints) /\ <<"stop">> \in Seq(Hints)
      BY DEF Hints
    <2> QED
      BY <2>1
  <1>2. Tell(hints) /\ st' = [s \in Streams |-> OUT] /\ older' = {} /\ preempt' = TRUE /\ strategy' = strategy
    BY DEF ActivatePreemptMode
  <1> HIDE DEF hints
  <1>3. queue' \in [Streams -> Seq(Hints)]
    BY <1>1, <1>2, TellType DEF FocusInv, FocusType
  <1>4. FocusType'
    BY <1>2, <1>3 DEF FocusInv, FocusType, States
  <1> QED
    BY <1>2, <1>4 DEF FocusInv, Irreflexive, NoStopped, OwnStrategy, NoConflict, PreemptSilence, Listed

LEMMA DispatchKeeps ==
    ASSUME FocusInv, NEW s \in Streams, Dispatch(s)
    PROVE FocusInv'
  <1>0. queue[s] \in Seq(Hints) /\ queue[s] # <<>>
    BY DEF FocusInv, FocusType, Dispatch
  <1>1. Tail(queue[s]) \in Seq(Hints)
    BY <1>0, HeadTailProperties
  <1>2. queue' \in [Streams -> Seq(Hints)]
    BY <1>1 DEF FocusInv, FocusType, Dispatch
  <1> QED
    BY <1>2, FrameKeeps DEF Dispatch

-----------------------------------------------------------------------------
(* The renderers beside it.                                                 *)

ClientType ==
    /\ state \in [Streams -> {"prepared", "running", "paused", "stopped", "released"}]
    /\ pc \in [Streams -> {"idle", "starting", "leaving"}]
    /\ ducked \in [Streams -> BOOLEAN]
    /\ silent \in [Streams -> BOOLEAN]

\* A stream that gives the focus back has been paused or stopped, and a client
\* that has only the focus never plays.
CallOrder ==
    \A s \in Streams :
        /\ pc[s] = "leaving" => state[s] \in {"paused", "stopped"}
        /\ s \in FocusOnly => pc[s] = "idle" /\ state[s] \in {"prepared", "released"}

Inv == FocusInv /\ ClientType /\ CallOrder

LEMMA ModeIsOwn ==
    ASSUME NEW s \in Streams
    PROVE Mode(s) \in {Strategy[s], "mix"}
  BY DEF Mode

LEMMA InitInv == Init => Inv
  <1> SUFFICES ASSUME Init PROVE Inv
    OBVIOUS
  <1>1. queue \in [Streams -> Seq(Hints)]
    <2>1. <<>> \in Seq(Hints)
      OBVIOUS
    <2> QED
      BY <2>1 DEF Init, FocusInit
  <1>2. FocusType
    BY <1>1 DEF Init, FocusInit, FocusType, States, Strategies
  <1>3. FocusInv
    BY <1>2 DEF Init, FocusInit, FocusInv, Irreflexive, NoStopped, OwnStrategy, NoConflict, PreemptSilence
  <1>4. ClientType /\ CallOrder
    BY DEF Init, ClientType, CallOrder
  <1> QED
    BY <1>3, <1>4 DEF Inv

\* What a step does to the focus is one of the operations, or nothing.
LEMMA StepOnFocus ==
    ASSUME Inv, [Next]_vars
    PROVE \/ UNCHANGED focusVars
          \/ \E s \in Streams : \E mode \in {Strategy[s], "mix"}, updated \in BOOLEAN :
                ActivateAudioInterrupt(s, mode, updated)
          \/ \E s \in Streams : DeactivateAudioInterrupt(s) \/ Dispatch(s)
          \/ ActivatePreemptMode
          \/ DeactivatePreemptMode
  <1>1. ASSUME NEW s \in Streams, Start(s)
        PROVE ActivateAudioInterrupt(s, Mode(s), FALSE)
    BY <1>1 DEF Start
  <1>2. ASSUME NEW s \in Streams, StartStream(s)
        PROVE UNCHANGED focusVars \/ DeactivateAudioInterrupt(s)
    BY <1>2 DEF StartStream
  <1>3. ASSUME NEW s \in Streams, SetSilentModeAndMixWithOthers(s)
        PROVE UNCHANGED focusVars \/ \E mode \in {Strategy[s], "mix"} : ActivateAudioInterrupt(s, mode, TRUE)
    BY <1>3 DEF SetSilentModeAndMixWithOthers
  <1>4. ASSUME NEW s \in Streams, GiveBack(s) \/ Leave(s) \/ Release(s)
        PROVE DeactivateAudioInterrupt(s)
    BY <1>4 DEF GiveBack, Leave, Release
  <1>5. ASSUME NEW s \in Streams, PauseStream(s) \/ StopStream(s) \/ Create(s)
        PROVE UNCHANGED focusVars
    BY <1>5 DEF PauseStream, StopStream, Create
  <1>6. ASSUME NEW s \in Streams, OnInterrupt(s)
        PROVE Dispatch(s)
    BY <1>6 DEF OnInterrupt
  <1>7. \A s \in Streams : Mode(s) \in {Strategy[s], "mix"}
    BY ModeIsOwn
  <1>8. UNCHANGED vars => UNCHANGED focusVars
    BY DEF vars
  <1> QED
    BY <1>1, <1>2, <1>3, <1>4, <1>5, <1>6, <1>7, <1>8 DEF Next

LEMMA FocusStep ==
    ASSUME Inv, [Next]_vars
    PROVE FocusInv'
  <1>1. FocusInv
    BY DEF Inv
  <1>2. CASE UNCHANGED focusVars
    BY <1>1, <1>2, FrameKeeps DEF focusVars, FocusInv, FocusType
  <1>3. CASE DeactivatePreemptMode
    <2>1. UNCHANGED <<st, strategy, older, queue>> /\ preempt' = FALSE
      BY <1>3 DEF DeactivatePreemptMode
    <2>2. \A e, i \in Streams : HintFor(e, i, strategy[i])' = HintFor(e, i, strategy[i])
      BY <2>1, HintForFrame
    <2>3. NoStopped' /\ NoConflict'
      BY <1>1, <2>1, <2>2 DEF FocusInv, NoStopped, NoConflict
    <2> QED
      BY <1>1, <2>1, <2>3 DEF FocusInv, FocusType, Listed, Irreflexive, OwnStrategy, PreemptSilence
  <1> QED
    BY <1>1, <1>2, <1>3, StepOnFocus, ActivateKeeps, DeactivateKeeps, DispatchKeeps, PreemptKeeps

LEMMA ClientStep ==
    ASSUME Inv, [Next]_vars
    PROVE ClientType' /\ CallOrder'
  <1>0. ClientType /\ CallOrder
    BY DEF Inv
  <1>1. ASSUME NEW s \in Streams, Start(s) PROVE ClientType' /\ CallOrder'
    BY <1>0, <1>1 DEF Start, ClientType, CallOrder
  <1>2. ASSUME NEW s \in Streams, StartStream(s) PROVE ClientType' /\ CallOrder'
    BY <1>0, <1>2 DEF StartStream, ClientType, CallOrder
  <1>3. ASSUME NEW s \in Streams, GiveBack(s) PROVE ClientType' /\ CallOrder'
    BY <1>0, <1>3 DEF GiveBack, clientVars, ClientType, CallOrder
  <1>4. ASSUME NEW s \in Streams, PauseStream(s) PROVE ClientType' /\ CallOrder'
    BY <1>0, <1>4 DEF PauseStream, ClientType, CallOrder
  <1>5. ASSUME NEW s \in Streams, StopStream(s) PROVE ClientType' /\ CallOrder'
    BY <1>0, <1>5 DEF StopStream, ClientType, CallOrder
  <1>6. ASSUME NEW s \in Streams, Leave(s) PROVE ClientType' /\ CallOrder'
    BY <1>0, <1>6 DEF Leave, ClientType, CallOrder
  <1>7. ASSUME NEW s \in Streams, SetSilentModeAndMixWithOthers(s) PROVE ClientType' /\ CallOrder'
    BY <1>0, <1>7 DEF SetSilentModeAndMixWithOthers, ClientType, CallOrder
  <1>8. ASSUME NEW s \in Streams, Release(s) PROVE ClientType' /\ CallOrder'
    BY <1>0, <1>8 DEF Release, ClientType, CallOrder
  <1>9. ASSUME NEW s \in Streams, Create(s) PROVE ClientType' /\ CallOrder'
    BY <1>0, <1>9 DEF Create, ClientType, CallOrder
  <1>10. ASSUME NEW s \in Streams, OnInterrupt(s) PROVE ClientType' /\ CallOrder'
    BY <1>0, <1>10 DEF OnInterrupt, ClientType, CallOrder
  <1>11. ASSUME UNCHANGED clientVars PROVE ClientType' /\ CallOrder'
    BY <1>0, <1>11 DEF clientVars, ClientType, CallOrder
  <1> QED
    BY <1>1, <1>2, <1>3, <1>4, <1>5, <1>6, <1>7, <1>8, <1>9, <1>10, <1>11 DEF Next, vars

LEMMA InvStep == Inv /\ [Next]_vars => Inv'
  BY FocusStep, ClientStep DEF Inv

LEMMA InvHolds == Spec => []Inv
  <1> QED
    BY InitInv, InvStep, PTL DEF Spec

\* The list, its order and strategies, the events and the clients keep their
\* types, for every policy table and every set of streams.
THEOREM TypeCorrect == Spec => []TypeOK
  <1>1. Inv => TypeOK
    BY DEF Inv, FocusInv, FocusType, ClientType, TypeOK
  <1> QED
    BY InvHolds, <1>1, PTL

\* Every entry is kept as quiet as the table wants it to be beside each younger
\* one, whichever of the two computations made the states.
THEOREM NobodyDisturbs == Spec => []NoConflict
  <1>1. Inv => NoConflict
    BY DEF Inv, FocusInv
  <1> QED
    BY InvHolds, <1>1, PTL

\* Preempt mode leaves nobody the focus and lets nobody take it.
THEOREM PreemptModeIsSilent == Spec => []PreemptSilence
  <1>1. Inv => PreemptSilence
    BY DEF Inv, FocusInv
  <1> QED
    BY InvHolds, <1>1, PTL

-----------------------------------------------------------------------------
(* What giving the focus back does.                                         *)

\* An entry that gives way in the simulation does so for what the table says.
LEMMA SimHintHasRule ==
    ASSUME NEW e \in Streams, NEW i \in Streams, NEW who, SimHint(who, e, i) # ACTIVE
    PROVE Rule(e, i).on = who /\ Rule(e, i).hint # ACTIVE
  BY RuleType, SoftenType DEF SimHint, Yields

LEMMA SettlesStep ==
    ASSUME Inv, NEW s \in Streams, NEW t \in Streams,
           st[s] # OUT, st'[s] = OUT, st'[t] \in {DUCK, PAUSE},
           DeactivateAudioInterrupt(s)
    PROVE \E u \in Listed \ {s, t} : KeepsDown(u, t)
  <1> DEFINE L == Listed \ {s}
  <1>1. s \in Listed /\ Irreflexive
    BY DEF Inv, FocusInv, Listed
  <1>2. L \in SUBSET Streams
    BY DEF Listed
  <1>3. st' = [e \in Streams |->
                 IF e \notin L \/ (st[e] = PAUSE /\ SimState(L, e) # PAUSE) THEN OUT
                 ELSE SimState(L, e)]
    BY <1>1 DEF DeactivateAudioInterrupt
  <1> HIDE DEF L
  <1>4. SimState(L, t) # ACTIVE
    BY <1>3 DEF OUT, ACTIVE, DUCK, PAUSE
  <1>5. CASE SimIncoming(L, t) # ACTIVE
    <2>1. PICK u \in L : <<u, t>> \in older /\ SimHint("incoming", u, t) # ACTIVE
      BY <1>2, <1>5, SimIncomingType
    <2>2. u # t /\ u \in Streams
      BY <1>1, <1>2, <2>1 DEF Irreflexive
    <2>3. Rule(u, t).on = "incoming" /\ Rule(u, t).hint # ACTIVE
      BY <2>1, <2>2, SimHintHasRule
    <2> QED
      BY <2>1, <2>2, <2>3 DEF KeepsDown, L
  <1>6. CASE \E u \in L : <<t, u>> \in older /\ SimHint("existing", t, u) # ACTIVE
    <2>1. PICK u \in L : <<t, u>> \in older /\ SimHint("existing", t, u) # ACTIVE
      BY <1>6
    <2>2. u # t /\ u \in Streams
      BY <1>1, <1>2, <2>1 DEF Irreflexive
    <2>3. Rule(t, u).on = "existing" /\ Rule(t, u).hint # ACTIVE
      BY <2>1, <2>2, SimHintHasRule
    <2> QED
      BY <2>1, <2>2, <2>3 DEF KeepsDown, L
  <1> QED
    BY <1>2, <1>4, <1>5, <1>6, SimStateType

\* Nobody stays ducked or paused for a stream that has given the focus back.
THEOREM GivingBackSettles == Spec => ResumeSettles
  <1> DEFINE A == \A s, t \in Streams :
                    /\ st[s] # OUT /\ st'[s] = OUT /\ st'[t] \in {DUCK, PAUSE}
                    /\ DeactivateAudioInterrupt(s)
                    => \E u \in Listed \ {s, t} : KeepsDown(u, t)
  <1>1. Inv => A
    BY SettlesStep
  <1>2. ResumeSettles <=> [][A]_vars
    BY DEF ResumeSettles
  <1> HIDE DEF A
  <1>3. Spec => [][A]_vars
    BY InvHolds, <1>1, PTL
  <1> QED
    BY <1>2, <1>3

-----------------------------------------------------------------------------
(* How a stream comes to play without the focus.                            *)

Halts(q) == \E k \in DOMAIN q : q[k] \in {"pause", "stop"}

LEMMA HaltsConcat ==
    ASSUME NEW q \in Seq(Hints), NEW h \in Seq(Hints), Halts(q) \/ Halts(h)
    PROVE Halts(q \o h)
  <1>1. /\ DOMAIN q = 1 .. Len(q) /\ DOMAIN h = 1 .. Len(h) /\ DOMAIN (q \o h) = 1 .. Len(q) + Len(h)
        /\ Len(q) \in Nat /\ Len(h) \in Nat
    BY LenProperties, ConcatProperties
  <1>2. CASE Halts(q)
    <2>1. PICK k \in DOMAIN q : q[k] \in {"pause", "stop"}
      BY <1>2 DEF Halts
    <2>2. k \in DOMAIN (q \o h) /\ (q \o h)[k] = q[k]
      BY <1>1, ConcatProperties
    <2> QED
      BY <2>1, <2>2 DEF Halts
  <1>3. CASE Halts(h)
    <2>1. PICK k \in DOMAIN h : h[k] \in {"pause", "stop"}
      BY <1>3 DEF Halts
    <2>2. Len(q) + k \in DOMAIN (q \o h) /\ (q \o h)[Len(q) + k] = h[k]
      BY <1>1, ConcatProperties
    <2> QED
      BY <2>1, <2>2 DEF Halts
  <1> QED
    BY <1>2, <1>3

LEMMA HaltsTail ==
    ASSUME NEW q \in Seq(Hints), q # <<>>, Halts(q)
    PROVE Head(q) \in {"pause", "stop"} \/ Halts(Tail(q))
  <1>1. PICK k \in DOMAIN q : q[k] \in {"pause", "stop"}
    BY DEF Halts
  <1>2. k \in 1 .. Len(q) /\ Len(q) \in Nat
    BY <1>1, LenProperties
  <1>3. CASE k = 1
    BY <1>1, <1>3, HeadTailProperties
  <1>4. CASE k # 1
    <2>1. k - 1 \in DOMAIN Tail(q) /\ Tail(q)[k - 1] = q[k]
      BY <1>2, <1>4, HeadTailProperties, LenProperties
    <2> QED
      BY <1>1, <2>1 DEF Halts
  <1> QED
    BY <1>3, <1>4

LEMMA HintsThatHalt ==
    /\ Halts(HintOf(PAUSE)) /\ Halts(HintOf(OUT)) /\ Halts(HintOf(STOP))
    /\ Halts(ResumeHints(ACTIVE, PAUSE)) /\ Halts(ResumeHints(DUCK, PAUSE))
  <1>1. HintOf(PAUSE) = <<"pause">> /\ HintOf(OUT) = <<"stop">> /\ HintOf(STOP) = <<"stop">>
    BY DEF HintOf, OUT, DUCK, PAUSE, STOP
  <1>2. ResumeHints(ACTIVE, PAUSE) = <<"pause">> /\ ResumeHints(DUCK, PAUSE) = <<"unduck", "pause">>
    BY <1>1 DEF ResumeHints, ACTIVE, DUCK, PAUSE
  <1>3. Halts(<<"pause">>) /\ Halts(<<"stop">>) /\ Halts(<<"unduck", "pause">>)
    BY DEF Halts
  <1> QED
    BY <1>1, <1>2, <1>3

LEMMA TellHalts ==
    ASSUME FocusType, NEW hints, Tell(hints), NEW s \in Listeners, hints[s] \in Seq(Hints),
           Halts(queue[s]) \/ Halts(hints[s])
    PROVE Halts(queue'[s])
  <1>1. s \in Streams /\ queue[s] \in Seq(Hints)
    BY FocusAssumption DEF FocusAssumption, FocusType
  <1>2. queue'[s] = queue[s] \o hints[s]
    BY <1>1 DEF Tell
  <1> QED
    BY <1>1, <1>2, HaltsConcat

\* It has the focus, or an event is on its way that halts it.
HasOrHalts(s) == st[s] \in {ACTIVE, DUCK} \/ Halts(queue[s])

LEMMA ActivateTells ==
    ASSUME FocusInv, NEW s \in Listeners, HasOrHalts(s),
           NEW x \in Streams, NEW mode \in {Strategy[x], "mix"}, NEW updated \in BOOLEAN,
           ActivateAudioInterrupt(x, mode, updated)
    PROVE HasOrHalts(s)'
  <1>0. s \in Streams /\ FocusType /\ PreemptSilence
    BY FocusAssumption DEF FocusAssumption, FocusInv
  <1>1. CASE preempt
    <2> DEFINE hints == [e \in Streams |-> IF e = x THEN <<"stop">> ELSE <<>>]
    <2>1. st' = st /\ Tell(hints)
      BY <1>1 DEF ActivateAudioInterrupt
    <2>2. hints[s] \in Seq(Hints)
      <3>1. <<>> \in Seq(Hints) /\ <<"stop">> \in Seq(Hints)
        BY DEF Hints
      <3> QED
        BY <1>0, <3>1
    <2> HIDE DEF hints
    <2> QED
      BY <1>0, <2>1, <2>2, TellHalts DEF HasOrHalts
  <1>2. CASE UNCHANGED <<st, strategy, older, queue>>
    BY <1>2 DEF HasOrHalts
  <1>3. CASE ProcessFocusEntry(x, mode)
    <2> DEFINE rest == Listed \ {x}
               in == IncomingState(rest, x, mode)
               hints == [e \in Streams |-> IF e = x THEN HintOf(in)
                           ELSE IF st'[e] # st[e] THEN HintOf(st'[e]) ELSE <<>>]
    <2>1. rest \in SUBSET Streams /\ \A e \in rest : st[e] \in States \ {OUT}
      BY <1>0 DEF FocusType, Listed
    <2>2. in \in Levels
      BY <2>1, IncomingStateType
    <2>3. Tell(hints)
      BY <1>3 DEF ProcessFocusEntry
    <2>4. st'[s] = IF s = x THEN (IF in = STOP THEN OUT ELSE in)
                   ELSE IF s \in rest /\ in # STOP THEN Affected(s, x, mode) ELSE st[s]
      BY <1>0, <1>3 DEF ProcessFocusEntry
    <2>5. hints[s] = IF s = x THEN HintOf(in) ELSE IF st'[s] # st[s] THEN HintOf(st'[s]) ELSE <<>>
      BY <1>0
    <2> HIDE DEF in, hints
    <2>6. hints[s] \in Seq(Hints)
      BY <2>5, HintOfType
    <2>7. st[s] \in States /\ st'[s] \in States
      BY <1>0, <2>1, <2>2, <2>4, AffectedType DEF FocusType, Levels, States
    <2>8. CASE st'[s] \in {ACTIVE, DUCK}
      BY <2>8 DEF HasOrHalts
    <2>9. CASE Halts(queue[s])
      BY <1>0, <2>3, <2>6, <2>9, TellHalts DEF HasOrHalts
    <2>10. CASE st'[s] \notin {ACTIVE, DUCK} /\ st[s] \in {ACTIVE, DUCK}
      <3>1. hints[s] = HintOf(PAUSE) \/ hints[s] = HintOf(OUT) \/ hints[s] = HintOf(STOP)
        <4>1. CASE s = x
          BY <2>2, <2>4, <2>5, <2>10, <4>1 DEF Levels, OUT, ACTIVE, DUCK, PAUSE, STOP
        <4>2. CASE s # x
          BY <2>5, <2>7, <2>10, <4>2 DEF States
        <4> QED
          BY <4>1, <4>2
      <3> QED
        BY <1>0, <2>3, <2>6, <3>1, HintsThatHalt, TellHalts DEF HasOrHalts
    <2> QED
      BY <2>8, <2>9, <2>10 DEF HasOrHalts
  <1> QED
    BY <1>1, <1>2, <1>3 DEF ActivateAudioInterrupt

LEMMA DeactivateTells ==
    ASSUME FocusInv, NEW s \in Listeners, HasOrHalts(s),
           NEW x \in Streams, x # s, DeactivateAudioInterrupt(x)
    PROVE HasOrHalts(s)'
  <1> DEFINE L == Listed \ {x}
  <1>0. s \in Streams /\ FocusType
    BY FocusAssumption DEF FocusAssumption, FocusInv
  <1>1. CASE x \notin Listed
    BY <1>1 DEF DeactivateAudioInterrupt, HasOrHalts
  <1>2. CASE x \in Listed
    <2> DEFINE hints == [e \in Streams |-> IF e \in L THEN ResumeHints(st[e], SimState(L, e)) ELSE <<>>]
    <2>1. Tell(hints)
      BY <1>2 DEF DeactivateAudioInterrupt
    <2>2. st'[s] = IF s \notin L \/ (st[s] = PAUSE /\ SimState(L, s) # PAUSE) THEN OUT ELSE SimState(L, s)
      BY <1>0, <1>2 DEF DeactivateAudioInterrupt
    <2>3. hints[s] = IF s \in L THEN ResumeHints(st[s], SimState(L, s)) ELSE <<>>
      BY <1>0
    <2> HIDE DEF hints
    <2>4. hints[s] \in Seq(Hints)
      BY <2>3, ResumeHintsType
    <2>5. CASE Halts(queue[s])
      BY <1>0, <2>1, <2>4, <2>5, TellHalts DEF HasOrHalts
    <2>6. CASE st[s] \in {ACTIVE, DUCK}
      <3>1. s \in L /\ L \in SUBSET Streams
        BY <1>0, <2>6 DEF Listed, OUT, ACTIVE, DUCK
      <3>2. SimState(L, s) \in Levels \ {STOP}
        BY <3>1, SimStateType
      <3>3. CASE SimState(L, s) = PAUSE
        <4>1. hints[s] = ResumeHints(ACTIVE, PAUSE) \/ hints[s] = ResumeHints(DUCK, PAUSE)
          BY <2>3, <2>6, <3>1, <3>3
        <4> QED
          BY <1>0, <2>1, <2>4, <4>1, HintsThatHalt, TellHalts DEF HasOrHalts
      <3>4. CASE SimState(L, s) # PAUSE
        <4>1. st[s] # PAUSE
          BY <2>6 DEF ACTIVE, DUCK, PAUSE
        <4> QED
          BY <2>2, <3>1, <3>2, <3>4, <4>1 DEF HasOrHalts, Levels
      <3> QED
        BY <3>3, <3>4
    <2> QED
      BY <2>5, <2>6 DEF HasOrHalts
  <1> QED
    BY <1>1, <1>2

LEMMA PreemptTells ==
    ASSUME FocusInv, NEW s \in Listeners, HasOrHalts(s), ActivatePreemptMode
    PROVE HasOrHalts(s)'
  <1> DEFINE hints == [e \in Streams |-> IF e \notin Listed THEN <<>>
                         ELSE IF Kind[e] \in VoipKinds THEN <<"pause">> ELSE <<"stop">>]
  <1>0. s \in Streams /\ FocusType /\ Tell(hints)
    BY FocusAssumption DEF FocusAssumption, FocusInv, ActivatePreemptMode
  <1>1. <<>> \in Seq(Hints) /\ <<"pause">> \in Seq(Hints) /\ <<"stop">> \in Seq(Hints)
    BY DEF Hints
  <1>2. hints[s] = IF s \notin Listed THEN <<>>
                   ELSE IF Kind[s] \in VoipKinds THEN <<"pause">> ELSE <<"stop">>
    BY <1>0
  <1> HIDE DEF hints
  <1>3. hints[s] \in Seq(Hints)
    BY <1>1, <1>2
  <1>4. Halts(<<"pause">>) /\ Halts(<<"stop">>)
    BY DEF Halts
  <1>5. CASE Halts(queue[s])
    BY <1>0, <1>3, <1>5, TellHalts DEF HasOrHalts
  <1>6. CASE st[s] \in {ACTIVE, DUCK}
    <2>1. s \in Listed
      BY <1>0, <1>6 DEF Listed, OUT, ACTIVE, DUCK
    <2>2. Halts(hints[s])
      BY <1>2, <1>4, <2>1
    <2> QED
      BY <1>0, <1>3, <2>2, TellHalts DEF HasOrHalts
  <1> QED
    BY <1>5, <1>6 DEF HasOrHalts

LEMMA KeepsFocusOrHalts ==
    ASSUME Inv, NEW s \in Streams, state[s] = "running", pc[s] = "idle", state'[s] = "running",
           HasOrHalts(s), [Next]_vars
    PROVE HasOrHalts(s)'
  <1>0. /\ FocusInv /\ FocusType /\ s \in Listeners
        /\ queue[s] \in Seq(Hints)
    BY DEF Inv, FocusInv, FocusType, CallOrder, FocusOnly
  <1>1. ASSUME NEW x \in Streams, Start(x) PROVE HasOrHalts(s)'
    BY <1>0, <1>1, ModeIsOwn, ActivateTells DEF Start
  <1>2. ASSUME NEW x \in Streams, StartStream(x) PROVE HasOrHalts(s)'
    <2>1. x # s
      BY <1>2 DEF StartStream
    <2>2. UNCHANGED focusVars \/ DeactivateAudioInterrupt(x)
      BY <1>2 DEF StartStream
    <2> QED
      BY <1>0, <2>1, <2>2, DeactivateTells DEF focusVars, HasOrHalts
  <1>3. ASSUME NEW x \in Streams, GiveBack(x) \/ Leave(x) \/ Release(x) PROVE HasOrHalts(s)'
    <2>1. x # s /\ DeactivateAudioInterrupt(x)
      BY <1>0, <1>3 DEF GiveBack, Leave, Release, FocusOnly, Inv, ClientType
    <2> QED
      BY <1>0, <2>1, DeactivateTells
  <1>4. ASSUME NEW x \in Streams, PauseStream(x) \/ StopStream(x) \/ Create(x) PROVE HasOrHalts(s)'
    BY <1>4 DEF PauseStream, StopStream, Create, focusVars, HasOrHalts
  <1>5. ASSUME NEW x \in Streams, SetSilentModeAndMixWithOthers(x) PROVE HasOrHalts(s)'
    <2>1. \/ UNCHANGED focusVars
          \/ \E mode \in {Strategy[x], "mix"} : ActivateAudioInterrupt(x, mode, TRUE)
      BY <1>5 DEF SetSilentModeAndMixWithOthers
    <2> QED
      BY <1>0, <2>1, ActivateTells DEF focusVars, HasOrHalts
  <1>6. ASSUME NEW x \in Streams, OnInterrupt(x) PROVE HasOrHalts(s)'
    <2>1. st' = st /\ queue[x] # <<>> /\ queue' = [queue EXCEPT ![x] = Tail(queue[x])]
      BY <1>6 DEF OnInterrupt, Dispatch
    <2>2. CASE x # s
      <3>1. queue'[s] = queue[s]
        BY <1>0, <2>1, <2>2 DEF FocusType
      <3> QED
        BY <2>1, <3>1 DEF HasOrHalts
    <2>3. CASE x = s
      <3>1. queue'[s] = Tail(queue[s]) /\ queue[s] # <<>>
        BY <1>0, <2>1, <2>3 DEF FocusType
      <3>2. Head(queue[s]) \notin {"pause", "stop"}
        BY <1>6, <2>3 DEF OnInterrupt, Inv, ClientType
      <3> QED
        BY <1>0, <2>1, <3>1, <3>2, HaltsTail DEF HasOrHalts
    <2> QED
      BY <2>2, <2>3
  <1>7. CASE ActivatePreemptMode
    BY <1>0, <1>7, PreemptTells
  <1>8. CASE DeactivatePreemptMode
    BY <1>8 DEF DeactivatePreemptMode, HasOrHalts
  <1>9. CASE UNCHANGED vars
    BY <1>9 DEF vars, focusVars, HasOrHalts
  <1> QED
    BY <1>1, <1>2, <1>3, <1>4, <1>5, <1>6, <1>7, <1>8, <1>9 DEF Next

LEMMA OnlyStartingBecomesRunning ==
    ASSUME Inv, NEW s \in Streams, [Next]_vars,
           state'[s] = "running", pc'[s] = "idle", pc[s] # "starting"
    PROVE state[s] = "running" /\ pc[s] = "idle"
  <1>0. ClientType /\ CallOrder
    BY DEF Inv
  <1>1. ASSUME NEW x \in Streams, Start(x) \/ PauseStream(x) \/ StopStream(x) \/ Leave(x)
        PROVE state[s] = "running" /\ pc[s] = "idle"
    BY <1>0, <1>1 DEF Start, PauseStream, StopStream, Leave, ClientType, CallOrder
  <1>2. ASSUME NEW x \in Streams, StartStream(x)
        PROVE state[s] = "running" /\ pc[s] = "idle"
    BY <1>0, <1>2 DEF StartStream, ClientType, CallOrder
  <1>3. ASSUME NEW x \in Streams, GiveBack(x) \/ Release(x) \/ Create(x)
                                  \/ SetSilentModeAndMixWithOthers(x) \/ OnInterrupt(x)
        PROVE state[s] = "running" /\ pc[s] = "idle"
    BY <1>0, <1>3 DEF GiveBack, Release, Create, SetSilentModeAndMixWithOthers, OnInterrupt,
                      clientVars, ClientType, CallOrder
  <1>4. UNCHANGED clientVars => state[s] = "running" /\ pc[s] = "idle"
    BY DEF clientVars
  <1> QED
    BY <1>1, <1>2, <1>3, <1>4 DEF Next, vars

\* No step of any client makes a stream play without the focus, except that a
\* stream about to be started may be started without it.
THEOREM FocusIsLostInStartOnly == Spec => OnlyStartLosesFocus
  <1> DEFINE A == \A s \in Streams : RunsWithoutFocus(s)' => RunsWithoutFocus(s) \/ pc[s] = "starting"
  <1>1. \A s \in Streams : RunsWithoutFocus(s) <=> state[s] = "running" /\ pc[s] = "idle" /\ ~HasOrHalts(s)
    BY DEF RunsWithoutFocus, HasOrHalts, Halts
  <1>2. \A s \in Streams : RunsWithoutFocus(s)' <=>
            state'[s] = "running" /\ pc'[s] = "idle" /\ ~HasOrHalts(s)'
    BY DEF RunsWithoutFocus, HasOrHalts, Halts
  <1>3. Inv /\ [Next]_vars => A
    BY <1>1, <1>2, OnlyStartingBecomesRunning, KeepsFocusOrHalts
  <1>4. OnlyStartLosesFocus <=> [][A]_vars
    BY DEF OnlyStartLosesFocus
  <1> HIDE DEF A
  <1>5. Spec => [][A]_vars
    BY InvHolds, <1>3, PTL DEF Spec
  <1> QED
    BY <1>4, <1>5

-----------------------------------------------------------------------------
(* A ducked stream knows it, or the last event on its way will tell it.     *)

TellsDuck(q) == q # <<>> /\ q[Len(q)] = "duck"

KnowsDuck(s) == IF queue[s] = <<>> THEN ducked[s] ELSE TellsDuck(queue[s])

\* A stream that has been released has left the list, and no call is under way
\* that could bring it back.
DuckInv ==
    \A s \in Listeners :
        /\ st[s] = DUCK => KnowsDuck(s)
        /\ state[s] = "released" => st[s] = OUT /\ pc[s] = "idle"

LEMMA LenZero ==
    ASSUME NEW q \in Seq(Hints)
    PROVE q = <<>> <=> Len(q) = 0
  BY EmptySeq

LEMMA TellLast ==
    ASSUME FocusType, NEW hints, Tell(hints), NEW s \in Listeners
    PROVE /\ hints[s] = <<>> => queue'[s] = queue[s]
          /\ hints[s] = <<"duck">> => TellsDuck(queue'[s])
  <1>1. s \in Streams /\ queue[s] \in Seq(Hints)
    BY FocusAssumption DEF FocusAssumption, FocusType
  <1>2. queue'[s] = queue[s] \o hints[s]
    BY <1>1 DEF Tell
  <1>3. hints[s] = <<>> => queue'[s] = queue[s]
    BY <1>1, <1>2, ConcatEmptySeq
  <1>4. ASSUME hints[s] = <<"duck">> PROVE TellsDuck(queue'[s])
    <2>1. <<"duck">> \in Seq(Hints) /\ Len(<<"duck">>) = 1 /\ <<"duck">>[1] = "duck"
      BY DEF Hints
    <2>2. /\ Len(queue'[s]) = Len(queue[s]) + 1 /\ Len(queue[s]) \in Nat
          /\ queue'[s][Len(queue[s]) + 1] = "duck"
          /\ queue'[s] \in Seq(Hints)
      BY <1>1, <1>2, <1>4, <2>1, ConcatProperties, LenProperties
    <2>3. queue'[s] # <<>>
      BY <2>2, LenZero
    <2> QED
      BY <2>2, <2>3 DEF TellsDuck
  <1> QED
    BY <1>3, <1>4

\* The arrival of a stream leaves another one ducked as it was, or tells it so.
LEMMA ActivateDucks ==
    ASSUME FocusInv, NEW s \in Listeners,
           NEW x \in Streams, NEW mode, NEW updated,
           ActivateAudioInterrupt(x, mode, updated)
    PROVE /\ st'[s] = DUCK => (st[s] = DUCK /\ queue'[s] = queue[s]) \/ TellsDuck(queue'[s])
          /\ st[s] = OUT /\ x # s => st'[s] = OUT
  <1>0. s \in Streams /\ FocusType /\ PreemptSilence
    BY FocusAssumption DEF FocusAssumption, FocusInv
  <1>1. CASE preempt
    <2>1. st' = st
      BY <1>1 DEF ActivateAudioInterrupt
    <2>2. st[s] = OUT
      BY <1>0, <1>1 DEF PreemptSilence, Listed
    <2> QED
      BY <2>1, <2>2 DEF OUT, DUCK
  <1>2. CASE UNCHANGED <<st, strategy, older, queue>>
    BY <1>2
  <1>3. CASE ProcessFocusEntry(x, mode)
    <2> DEFINE rest == Listed \ {x}
               in == IncomingState(rest, x, mode)
               hints == [e \in Streams |-> IF e = x THEN HintOf(in)
                           ELSE IF st'[e] # st[e] THEN HintOf(st'[e]) ELSE <<>>]
    <2>1. Tell(hints)
      BY <1>3 DEF ProcessFocusEntry
    <2>2. st'[s] = IF s = x THEN (IF in = STOP THEN OUT ELSE in)
                   ELSE IF s \in rest /\ in # STOP THEN Affected(s, x, mode) ELSE st[s]
      BY <1>0, <1>3 DEF ProcessFocusEntry
    <2>3. hints[s] = IF s = x THEN HintOf(in) ELSE IF st'[s] # st[s] THEN HintOf(st'[s]) ELSE <<>>
      BY <1>0
    <2>4. st[s] = OUT => s \notin rest
      BY DEF Listed
    <2> HIDE DEF in, hints, rest
    <2>5. HintOf(DUCK) = <<"duck">>
      BY DEF HintOf, OUT, DUCK, PAUSE, STOP
    <2>6. CASE st'[s] = DUCK /\ s = x
      <3>1. hints[s] = <<"duck">>
        BY <2>2, <2>3, <2>5, <2>6 DEF OUT, DUCK
      <3> QED
        BY <1>0, <2>1, <2>6, <3>1, TellLast
    <2>7. CASE st'[s] = DUCK /\ s # x
      <3>1. hints[s] = <<"duck">> \/ (hints[s] = <<>> /\ st[s] = DUCK)
        BY <2>3, <2>5, <2>7
      <3>2. st[s] # OUT
        BY <2>2, <2>4, <2>7 DEF OUT, DUCK
      <3> QED
        BY <1>0, <2>1, <2>7, <3>1, <3>2, TellLast
    <2>8. CASE st'[s] # DUCK
      BY <2>2, <2>4, <2>8
    <2> QED
      BY <2>6, <2>7, <2>8
  <1> QED
    BY <1>1, <1>2, <1>3 DEF ActivateAudioInterrupt

LEMMA DeactivateDucks ==
    ASSUME FocusInv, NEW s \in Listeners, NEW x \in Streams, DeactivateAudioInterrupt(x)
    PROVE /\ st'[s] = DUCK => (st[s] = DUCK /\ queue'[s] = queue[s]) \/ TellsDuck(queue'[s])
          /\ st[s] = OUT \/ x = s => st'[s] = OUT
  <1> DEFINE L == Listed \ {x}
  <1>0. s \in Streams /\ FocusType
    BY FocusAssumption DEF FocusAssumption, FocusInv
  <1>1. CASE x \notin Listed
    BY <1>0, <1>1 DEF DeactivateAudioInterrupt, Listed
  <1>2. CASE x \in Listed
    <2> DEFINE hints == [e \in Streams |-> IF e \in L THEN ResumeHints(st[e], SimState(L, e)) ELSE <<>>]
    <2>1. Tell(hints)
      BY <1>2 DEF DeactivateAudioInterrupt
    <2>2. st'[s] = IF s \notin L \/ (st[s] = PAUSE /\ SimState(L, s) # PAUSE) THEN OUT ELSE SimState(L, s)
      BY <1>0, <1>2 DEF DeactivateAudioInterrupt
    <2>3. hints[s] = IF s \in L THEN ResumeHints(st[s], SimState(L, s)) ELSE <<>>
      BY <1>0
    <2>4. st[s] = OUT \/ x = s => s \notin L
      BY DEF Listed
    <2> HIDE DEF hints, L
    <2>5. CASE st'[s] = DUCK
      <3>1. s \in L /\ SimState(L, s) = DUCK /\ st[s] # PAUSE
        BY <2>2, <2>5 DEF OUT, DUCK, PAUSE
      <3>2. ResumeHints(DUCK, DUCK) = <<>>
        BY DEF ResumeHints, ACTIVE, DUCK, PAUSE
      <3>3. st[s] # DUCK => ResumeHints(st[s], DUCK) = <<"duck">>
        BY <3>1 DEF ResumeHints, HintOf, OUT, ACTIVE, DUCK, PAUSE, STOP
      <3>4. (st[s] = DUCK /\ hints[s] = <<>>) \/ hints[s] = <<"duck">>
        BY <2>3, <3>1, <3>2, <3>3
      <3> QED
        BY <1>0, <2>1, <2>4, <3>1, <3>4, TellLast
    <2>6. CASE st'[s] # DUCK
      BY <2>2, <2>4, <2>6
    <2> QED
      BY <2>5, <2>6
  <1> QED
    BY <1>1, <1>2

\* Only the events' own thread takes one off the queue.
LEMMA FocusDucks ==
    ASSUME FocusInv, NEW s \in Listeners, KnowsDuck(s) \/ st[s] # DUCK,
           \/ (st[s] = DUCK /\ queue'[s] = queue[s]) \/ TellsDuck(queue'[s]),
           ducked'[s] = ducked[s]
    PROVE KnowsDuck(s)'
  BY DEF KnowsDuck, TellsDuck

LEMMA DispatchDucks ==
    ASSUME FocusInv, ClientType, NEW s \in Listeners, st[s] = DUCK, KnowsDuck(s), state[s] # "released",
           OnInterrupt(s)
    PROVE KnowsDuck(s)'
  <1>0. /\ s \in Streams /\ queue[s] \in Seq(Hints) /\ queue[s] # <<>>
        /\ queue' = [queue EXCEPT ![s] = Tail(queue[s])] /\ queue \in [Streams -> Seq(Hints)]
    BY FocusAssumption DEF FocusAssumption, FocusInv, FocusType, OnInterrupt, Dispatch
  <1>1. queue'[s] = Tail(queue[s]) /\ TellsDuck(queue[s])
    BY <1>0 DEF KnowsDuck
  <1>2. /\ Len(queue[s]) \in Nat /\ Len(queue[s]) >= 1
        /\ Len(Tail(queue[s])) = Len(queue[s]) - 1 /\ Tail(queue[s]) \in Seq(Hints)
    BY <1>0, HeadTailProperties, LenProperties, LenZero
  <1> DEFINE rest == Tail(queue[s])
  <1>5. rest = <<>> <=> Len(rest) = 0
    BY <1>2, LenZero
  <1>3. CASE Len(queue[s]) = 1
    <2>1. Head(queue[s]) = "duck"
      BY <1>0, <1>1, <1>3, HeadTailProperties DEF TellsDuck
    <2>2. ducked'[s]
      BY <1>0, <2>1 DEF OnInterrupt, ClientType
    <2>3. queue'[s] = <<>>
      <3>1. Len(rest) = 0
        BY <1>2, <1>3
      <3> QED
        BY <1>1, <1>5, <3>1
    <2> QED
      BY <2>2, <2>3 DEF KnowsDuck
  <1>4. CASE Len(queue[s]) # 1
    <2>1. Len(Tail(queue[s])) >= 1 /\ Len(queue[s]) - 1 \in 1 .. Len(Tail(queue[s]))
      <3> DEFINE n == Len(queue[s])
      <3>1. n \in Nat /\ n >= 1 /\ n # 1 /\ Len(Tail(queue[s])) = n - 1
        BY <1>2, <1>4
      <3> HIDE DEF n
      <3>2. n - 1 \in Nat /\ n - 1 >= 1
        BY <3>1
      <3>3. n - 1 \in 1 .. n - 1
        BY <3>2
      <3> QED
        BY <3>1, <3>2, <3>3 DEF n
    <2>2. Tail(queue[s])[Len(queue[s]) - 1] = queue[s][Len(queue[s])]
      BY <1>0, <1>2, <2>1, HeadTailProperties
    <2>3. queue'[s] # <<>>
      <3>1. ASSUME Len(rest) = 0 PROVE FALSE
        <4> HIDE DEF rest
        <4> QED
          BY <2>1, <3>1, ~(0 >= 1) DEF rest
      <3> QED
        BY <1>1, <1>5, <3>1
    <2> QED
      BY <1>1, <1>2, <2>2, <2>3 DEF TellsDuck, KnowsDuck
  <1> QED
    BY <1>3, <1>4

LEMMA DuckInvInit == Init => DuckInv
  <1>1. ASSUME Init, NEW s \in Listeners
        PROVE s \in Streams /\ st[s] = OUT /\ state[s] = "prepared"
    BY <1>1, FocusAssumption DEF FocusAssumption, Init, FocusInit
  <1>2. OUT # DUCK
    BY DEF OUT, DUCK
  <1> QED
    BY <1>1, <1>2 DEF DuckInv

LEMMA DuckInvStep ==
    ASSUME Inv, DuckInv, [Next]_vars
    PROVE DuckInv'
  <1> SUFFICES ASSUME NEW s \in Listeners
               PROVE /\ st'[s] = DUCK => KnowsDuck(s)'
                     /\ state'[s] = "released" => st'[s] = OUT /\ pc'[s] = "idle"
    BY DEF DuckInv, KnowsDuck
  <1>0. /\ s \in Streams /\ FocusInv /\ ClientType /\ FocusType
        /\ st[s] = DUCK => KnowsDuck(s)
        /\ state[s] = "released" => st[s] = OUT /\ pc[s] = "idle"
    BY FocusAssumption DEF FocusAssumption, Inv, FocusInv, DuckInv
  \* The focus operations alone.
  <1>1. ASSUME ducked'[s] = ducked[s],
               \/ UNCHANGED focusVars
               \/ \E x \in Streams : DeactivateAudioInterrupt(x)
               \/ \E x \in Streams, mode \in Strategies, updated \in BOOLEAN :
                     ActivateAudioInterrupt(x, mode, updated)
        PROVE st'[s] = DUCK => KnowsDuck(s)'
    <2>1. CASE UNCHANGED focusVars
      BY <1>0, <1>1, <2>1 DEF focusVars, KnowsDuck
    <2>2. CASE \E x \in Streams : DeactivateAudioInterrupt(x)
      BY <1>0, <1>1, <2>2, DeactivateDucks, FocusDucks
    <2>3. CASE \E x \in Streams, mode \in Strategies, updated \in BOOLEAN :
                     ActivateAudioInterrupt(x, mode, updated)
      BY <1>0, <1>1, <2>3, ActivateDucks, FocusDucks
    <2> QED
      BY <1>1, <2>1, <2>2, <2>3
  <1>2. \A x \in Streams : Strategy[x] \in Strategies /\ Mode(x) \in Strategies /\ "mix" \in Strategies
    BY RendererAssumption DEF RendererAssumption, Mode, Strategies
  <1>3. ASSUME NEW x \in Streams, Start(x)
        PROVE /\ st'[s] = DUCK => KnowsDuck(s)'
              /\ state'[s] = "released" => st'[s] = OUT /\ pc'[s] = "idle"
    <2>1. ActivateAudioInterrupt(x, Mode(x), FALSE) /\ UNCHANGED <<state, ducked>>
      BY <1>3 DEF Start
    <2>2. state[s] = "released" => x # s /\ pc'[s] = pc[s]
      BY <1>0, <1>3 DEF Start, ClientType
    <2>3. x # s /\ st[s] = OUT => st'[s] = OUT
      BY <1>0, <2>1, ActivateDucks
    <2> QED
      BY <1>0, <1>1, <1>2, <2>1, <2>2, <2>3
  <1>4. ASSUME NEW x \in Streams, StartStream(x)
        PROVE /\ st'[s] = DUCK => KnowsDuck(s)'
              /\ state'[s] = "released" => st'[s] = OUT /\ pc'[s] = "idle"
    <2>1. (UNCHANGED focusVars \/ DeactivateAudioInterrupt(x)) /\ UNCHANGED ducked
      BY <1>4 DEF StartStream
    <2>2. state'[s] = "released" => state[s] = "released" /\ pc'[s] = pc[s]
      BY <1>0, <1>4 DEF StartStream, ClientType
    <2>3. st[s] = OUT => st'[s] = OUT
      BY <1>0, <2>1, DeactivateDucks DEF focusVars
    <2> QED
      BY <1>0, <1>1, <2>1, <2>2, <2>3
  <1>5. ASSUME NEW x \in Streams, GiveBack(x) \/ Leave(x) \/ Release(x)
        PROVE /\ st'[s] = DUCK => KnowsDuck(s)'
              /\ state'[s] = "released" => st'[s] = OUT /\ pc'[s] = "idle"
    <2>1. DeactivateAudioInterrupt(x) /\ (x # s => ducked'[s] = ducked[s])
      BY <1>0, <1>5 DEF GiveBack, Leave, Release, clientVars, ClientType
    <2>2. st[s] = OUT \/ x = s => st'[s] = OUT
      BY <1>0, <2>1, DeactivateDucks
    <2>3. state'[s] = "released" => (state[s] = "released" \/ x = s) /\ pc'[s] = "idle"
      BY <1>0, <1>5 DEF GiveBack, Leave, Release, clientVars, ClientType, Inv, CallOrder
    <2>4. st'[s] = DUCK => x # s
      BY <2>2 DEF OUT, DUCK
    <2> QED
      BY <1>0, <1>1, <2>1, <2>2, <2>3, <2>4
  <1>6. ASSUME NEW x \in Streams, PauseStream(x) \/ StopStream(x) \/ Create(x)
        PROVE /\ st'[s] = DUCK => KnowsDuck(s)'
              /\ state'[s] = "released" => st'[s] = OUT /\ pc'[s] = "idle"
    <2>1. UNCHANGED focusVars /\ UNCHANGED ducked
      BY <1>6 DEF PauseStream, StopStream, Create
    <2>2. state'[s] = "released" => state[s] = "released" /\ pc'[s] = pc[s]
      BY <1>0, <1>6 DEF PauseStream, StopStream, Create, ClientType
    <2> QED
      BY <1>0, <1>1, <2>1, <2>2 DEF focusVars
  <1>7. ASSUME NEW x \in Streams, SetSilentModeAndMixWithOthers(x)
        PROVE /\ st'[s] = DUCK => KnowsDuck(s)'
              /\ state'[s] = "released" => st'[s] = OUT /\ pc'[s] = "idle"
    <2>1. /\ UNCHANGED <<state, pc, ducked>>
          /\ \/ UNCHANGED focusVars
             \/ \E mode \in {Strategy[x], "mix"} : ActivateAudioInterrupt(x, mode, TRUE)
      BY <1>7 DEF SetSilentModeAndMixWithOthers
    <2>2. state[s] = "released" => x # s
      BY <1>7 DEF SetSilentModeAndMixWithOthers
    <2>3. x # s /\ st[s] = OUT => st'[s] = OUT
      BY <1>0, <2>1, ActivateDucks DEF focusVars
    <2>4. {Strategy[x], "mix"} \subseteq Strategies
      BY <1>2
    <2> QED
      BY <1>0, <1>1, <2>1, <2>2, <2>3, <2>4
  <1>8. ASSUME NEW x \in Streams, OnInterrupt(x)
        PROVE /\ st'[s] = DUCK => KnowsDuck(s)'
              /\ state'[s] = "released" => st'[s] = OUT /\ pc'[s] = "idle"
    <2>1. /\ UNCHANGED <<st, pc>>
          /\ queue' = [queue EXCEPT ![x] = Tail(queue[x])]
      BY <1>8 DEF OnInterrupt, Dispatch
    <2>2. state'[s] = "released" => state[s] = "released"
      BY <1>0, <1>8 DEF OnInterrupt, ClientType
    <2>3. CASE x # s
      <3>1. queue'[s] = queue[s] /\ ducked'[s] = ducked[s]
        BY <1>0, <1>8, <2>1, <2>3 DEF OnInterrupt, FocusType, ClientType
      <3> QED
        BY <1>0, <2>1, <2>2, <3>1 DEF KnowsDuck
    <2>4. CASE x = s
      <3>1. st[s] = DUCK => state[s] # "released"
        BY <1>0 DEF OUT, DUCK
      <3> QED
        BY <1>0, <1>8, <2>1, <2>2, <2>4, <3>1, DispatchDucks
    <2> QED
      BY <2>3, <2>4
  <1>9. ASSUME ActivatePreemptMode, UNCHANGED clientVars
        PROVE /\ st'[s] = DUCK => KnowsDuck(s)'
              /\ state'[s] = "released" => st'[s] = OUT /\ pc'[s] = "idle"
    BY <1>0, <1>9 DEF ActivatePreemptMode, clientVars, OUT, DUCK
  <1>10. ASSUME UNCHANGED <<st, queue>>, UNCHANGED clientVars
        PROVE /\ st'[s] = DUCK => KnowsDuck(s)'
              /\ state'[s] = "released" => st'[s] = OUT /\ pc'[s] = "idle"
    BY <1>0, <1>10 DEF clientVars, KnowsDuck
  <1>11. DeactivatePreemptMode => UNCHANGED <<st, queue>>
    BY DEF DeactivatePreemptMode
  <1>12. UNCHANGED vars => UNCHANGED <<st, queue>> /\ UNCHANGED clientVars
    BY DEF vars, focusVars
  <1> QED
    BY <1>3, <1>4, <1>5, <1>6, <1>7, <1>8, <1>9, <1>10, <1>11, <1>12 DEF Next

\* A stream that plays with a ducked entry plays at the lower volume as soon as
\* no event is on its way to it.
THEOREM DuckedPlaysQuietly == Spec => []DuckedIsQuiet
  <1>1. Inv /\ DuckInv => DuckedIsQuiet
    BY DEF Inv, ClientType, CallOrder, FocusOnly, DuckInv, KnowsDuck, DuckedIsQuiet
  <1>2. Spec => []DuckInv
    BY InvHolds, DuckInvInit, DuckInvStep, PTL DEF Spec
  <1> QED
    BY <1>1, <1>2, InvHolds, PTL
=============================================================================
