---------------------------- MODULE MCMailboxes ----------------------------
(***************************************************************************)
(* A broad and a dedicated subscriber; an Address and a Sandbox.           *)
(***************************************************************************)
EXTENDS Mailboxes

CONSTANTS s1, s2, w1

OneDedicated == [s \in {s1, s2} |-> IF s = s1 THEN w1 ELSE Broad]
=============================================================================
