---------------------------- MODULE MCCertIssuer ----------------------------
(***************************************************************************)
(* Two callers whose domains compete for one signing slot and one cache    *)
(* entry.                                                                  *)
(***************************************************************************)
EXTENDS CertIssuer

CONSTANTS c1, c2, d1, d2, r1, r2
=============================================================================
