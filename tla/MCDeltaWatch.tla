---------------------------- MODULE MCDeltaWatch ----------------------------
(***************************************************************************)
(* Two names, each published or not, and three responses.                  *)
(***************************************************************************)
EXTENDS DeltaWatch, TLC

\* Clients that change their subscriptions have most in flight.
Requests == [k \in Kind |-> IF k = "named" THEN 2 ELSE 1]
Symmetry == Permutations(Name)
=============================================================================
