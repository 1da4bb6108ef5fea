---------------------------- MODULE RequestQueue ----------------------------
(***************************************************************************)
(* What HpaeNoLockQueue promises its callers: requests published by any    *)
(* thread are taken in one batch and executed in the order in which they   *)
(* were published, each once; the requests of one thread are published in  *)
(* the order of its calls.                                                 *)
(***************************************************************************)
EXTENDS Naturals, Sequences

CONSTANT Producers

VARIABLES
    waiting,  \* requests published and not taken, oldest first
    batch,    \* requests taken and not executed, oldest first
    ran       \* number of the last request executed, per producer

vars == <<waiting, batch, ran>>

(* The n-th request of producer p.                                          *)
IsRequest(r) == r \in Producers \X (Nat \ {0})

Init == waiting = <<>> /\ batch = <<>> /\ ran = [p \in Producers |-> 0]

Publish(r) ==
    /\ r[2] > ran[r[1]]
    /\ LET all == batch \o waiting
       IN  \A i \in 1 .. Len(all) : all[i][1] = r[1] => all[i][2] < r[2]
    /\ waiting' = Append(waiting, r)
    /\ UNCHANGED <<batch, ran>>

TakeAll ==
    /\ batch = <<>>
    /\ batch' = waiting /\ waiting' = <<>>
    /\ UNCHANGED ran

Execute ==
    /\ batch # <<>>
    /\ ran' = [ran EXCEPT ![Head(batch)[1]] = Head(batch)[2]]
    /\ batch' = Tail(batch)
    /\ UNCHANGED waiting

(* The request published is the last of waiting'.                           *)
Next ==
    \/ waiting' # <<>> /\ IsRequest(waiting'[Len(waiting')]) /\ Publish(waiting'[Len(waiting')])
    \/ TakeAll \/ Execute

Spec == Init /\ [][Next]_vars
=============================================================================
