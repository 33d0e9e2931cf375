----------------------------- MODULE AckLedger -----------------------------
(***************************************************************************)
(* What acknowledgement tracking means for one resource type of one Delta  *)
(* stream.  For every name the ledger knows the nonce of the latest        *)
(* delivery the client has not accepted (0 when there is none), and        *)
(* whether the client rejected one of them since the ledger was last clear.*)
(* event is the operation that was performed last.                         *)
(***************************************************************************)
EXTENDS Naturals

CONSTANTS Name,         \* resource names
          Nonce         \* response nonces; 0 stands for the empty string

VARIABLES outstanding,  \* outstanding[n]: nonce of the latest unaccepted delivery
          rejected,     \* an outstanding delivery was rejected
          event         \* [kind, nonce, names]

lvars == <<outstanding, rejected, event>>

Event(kind, nonce, names) == [kind |-> kind, nonce |-> nonce, names |-> names]

LInit == /\ outstanding = [n \in Name |-> 0]
         /\ rejected = FALSE
         /\ event = Event("none", 0, {})

Clear == \A n \in Name : outstanding'[n] = 0

\* A delivery of S makes the earlier deliveries of these names irrelevant.
Deliver(S, nonce) ==
    /\ event' = Event("send", nonce, S)
    /\ outstanding' = [n \in Name |-> IF n \in S THEN nonce ELSE outstanding[n]]
    /\ UNCHANGED rejected

\* Only names whose latest delivery is the accepted one are settled.
Accept(nonce) ==
    /\ event' = Event("ack", nonce, {})
    /\ outstanding' = [n \in Name |-> IF outstanding[n] = nonce THEN 0 ELSE outstanding[n]]
    /\ rejected' = (rejected /\ ~Clear)

Reject(nonce) ==
    /\ event' = Event("nack", nonce, {})
    /\ UNCHANGED outstanding
    /\ rejected' = (rejected \/ \E n \in Name : outstanding[n] = nonce)

Forget(S) ==
    /\ event' = Event("forget", 0, S)
    /\ outstanding' = [n \in Name |-> IF n \in S THEN 0 ELSE outstanding[n]]
    /\ rejected' = (rejected /\ ~Clear)

LNext == \/ \E S \in SUBSET Name, nonce \in Nonce : Deliver(S, nonce)
         \/ \E nonce \in Nonce : Accept(nonce) \/ Reject(nonce)
         \/ \E S \in SUBSET Name : Forget(S)

LSpec == LInit /\ [][LNext]_lvars
=============================================================================
