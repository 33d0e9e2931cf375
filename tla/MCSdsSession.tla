---------------------------- MODULE MCSdsSession ----------------------------
(***************************************************************************)
(* One name whose jobs take turns on one worker, and two revisions.        *)
(***************************************************************************)
EXTENDS SdsSession

CONSTANTS n1, r1, r2
=============================================================================
