----------------------------- MODULE RoundRobin -----------------------------
(***************************************************************************)
(* What a scheduling domain promises: its contexts form a ring that only   *)
(* grows at its end, and the picks go round the ring one by one, so no     *)
(* context is picked twice before every other was picked.                  *)
(***************************************************************************)
EXTENDS Naturals, Sequences

CONSTANT Ctxs

VARIABLES ring,  \* the contexts in the order they are picked
          at,    \* the next one
          out    \* the last pick

vars == <<ring, at, out>>

Init == ring = <<>> /\ at = 1 /\ out \notin Ctxs

Extend == /\ \E n \in 1 .. Len(ring') : ring = SubSeq(ring', 1, n - 1)
          /\ UNCHANGED <<at, out>>

Pick == /\ at \in 1 .. Len(ring)
        /\ out' = ring[at]
        /\ at' = (at % Len(ring)) + 1
        /\ UNCHANGED ring

Next == Extend \/ Pick

Spec == Init /\ [][Next]_vars
=============================================================================
