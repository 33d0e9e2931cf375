---------------------------- MODULE MCStreamFlow ----------------------------
(***************************************************************************)
(* Instances of StreamFlow: few streams that share one slot of each pool.  *)
(***************************************************************************)
EXTENDS StreamFlow

CONSTANTS s1, s2

\* Two responses overlap on one stream; or one response for each.
TwoOnOne == [s \in Stream |-> IF s = s1 THEN 2 ELSE 1]
OneEach == [s \in Stream |-> 1]
=============================================================================
