---------------------------- MODULE MCXdsClient ----------------------------
(***************************************************************************)
(* Instances of XdsClient.  r1 is known by its instance and its address,   *)
(* r2 takes the same address, so that the address is ambiguous while both  *)
(* exist.                                                                  *)
(***************************************************************************)
EXTENDS XdsClient, TLC

CONSTANTS r1, r2, instance, address, c1, c2

MCAliasSets == [r \in Resource |-> IF r = r1 THEN {{instance, address}, {instance}}
                                           ELSE {{address}}]
MCInitially == {[Nothing EXCEPT ![r1] = [version |-> 1, aliases |-> {instance, address}]]}
MCDemands == (c1 :> {instance, address}) @@ (c2 :> {address})
=============================================================================
