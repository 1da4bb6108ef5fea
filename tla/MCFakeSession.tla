---------------------------- MODULE MCFakeSession ----------------------------
EXTENDS FakeSession

\* Of music: a call, other music, a forced stop.  Of an internet call: a cellular
\* call, a ring tone, navigation (audio_interrupt_policy_config.xml).
MCRivals == [v \in BOOLEAN |->
    IF v THEN {[hit |-> "pause", bar |-> "pause"], [hit |-> "none", bar |-> "pause"],
               [hit |-> "none", bar |-> "give"]}
    ELSE {[hit |-> "pause", bar |-> "none"], [hit |-> "stop", bar |-> "give"],
          [hit |-> "stop", bar |-> "stop"]}]
=============================================================================
