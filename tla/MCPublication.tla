--------------------------- MODULE MCPublication ---------------------------
(***************************************************************************)
(* A resource k1 that may refer to k2.                                     *)
(***************************************************************************)
EXTENDS Publication

CONSTANTS k1, k2

Pair == [k \in {k1, k2} |-> IF k = k1 THEN {k2} ELSE {}]
=============================================================================
