--------------------------- MODULE MCRendererFocus ---------------------------
EXTENDS RendererFocus

\* The rows of audio_interrupt_policy_config.xml for these kinds.
Table(e, i) ==
    LET On(who, hint) == [on |-> who, hint |-> hint]
        Play == On("incoming", ACTIVE)
    IN CASE e = "music" /\ i = "music" -> On("existing", STOP)
         [] e = "music" /\ i = "navigation" -> On("existing", DUCK)
         [] e = "music" /\ i \in {"voip", "call"} -> On("existing", PAUSE)
         [] e = "navigation" /\ i = "music" -> On("incoming", DUCK)
         [] e = "navigation" /\ i \in {"navigation", "voip", "call"} -> On("existing", STOP)
         [] e = "voip" /\ i \in {"voip", "call"} -> On("existing", PAUSE)
         [] e = "call" /\ i \in {"navigation", "call"} -> On("incoming", STOP)
         [] e = "call" /\ i = "voip" -> On("incoming", PAUSE)
         [] OTHER -> Play
MCKinds == {"music", "navigation", "voip", "call"}
MCPolicy == [p \in MCKinds \X MCKinds |-> Table(p[1], p[2])]
MCKind == [s \in Streams |-> CASE s = "m" -> "music" [] s = "n" -> "navigation" [] s = "v" -> "voip" [] OTHER -> "call"]
MCApp == [s \in Streams |-> CASE s = "m" -> 1 [] s = "n" -> 2 [] s = "v" -> 3 [] OTHER -> 4]
MCStrategy == [s \in Streams |-> IF s = "v" THEN "duck" ELSE "default"]
=============================================================================
