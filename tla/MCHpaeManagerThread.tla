------------------------ MODULE MCHpaeManagerThread ------------------------
(* HpaeManagerThread with two nodes and two threads that send requests, one *)
(* of them twice: enough for a node to be used again while the other thread *)
(* is about to take it.                                                     *)
EXTENDS HpaeManagerThread

Pushes == [p \in Producers |-> IF p = "often" THEN 2 ELSE 1]
=============================================================================
