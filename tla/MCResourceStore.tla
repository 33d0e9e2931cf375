-------------------------- MODULE MCResourceStore --------------------------
(***************************************************************************)
(* Three resources in a chain of references: k1 to k2 and k3, k2 to k3.    *)
(***************************************************************************)
EXTENDS ResourceStore

CONSTANTS k1, k2, k3

Chain == [k \in {k1, k2, k3} |-> CASE k = k1 -> {k2, k3} [] k = k2 -> {k3} [] OTHER -> {}]
=============================================================================
