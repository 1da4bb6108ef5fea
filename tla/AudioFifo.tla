----------------------------- MODULE AudioFifo -----------------------------
(***************************************************************************)
(* What a shared audio buffer promises its two sides, without base         *)
(* position, slots or method steps: frames pass from one writer to one     *)
(* reader in order, each once, and the writer is never more than Total     *)
(* frames ahead.                                                           *)
(***************************************************************************)
EXTENDS Integers

CONSTANT Total

VARIABLES written, read

Init == written = 0 /\ read = 0

Write(n) == /\ written + n - read <= Total
            /\ written' = written + n
            /\ UNCHANGED read

Read(n) == /\ read + n <= written
           /\ read' = read + n
           /\ UNCHANGED written

Next == \E n \in 1 .. Total : Write(n) \/ Read(n)

Spec == Init /\ [][Next]_<<written, read>>
=============================================================================
