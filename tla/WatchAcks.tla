----------------------------- MODULE WatchAcks -----------------------------
(***************************************************************************)
(* The acknowledgement state of one watch of a Delta stream                *)
(* (pkg/xds/subscription.go, the end of sendGeneratedDelta in delta.go).   *)
(* While a single response is outstanding the watch keeps the response     *)
(* itself (pendingResponse); overlapping responses and rejections turn it  *)
(* into a nonce per name (pendingAcks).  The operators take and return     *)
(* that state, because one handler may change it several times.            *)
(* 0 stands for the empty nonce and for a missing entry.                   *)
(***************************************************************************)
EXTENDS Naturals

CONSTANTS Name, Nonce

ASSUME NonceAssumption == Nonce \subseteq Nat \ {0}

Response == [nonce : {0} \cup Nonce, resources : SUBSET Name, removed : SUBSET Name]
NoResponse == [nonce |-> 0, resources |-> {}, removed |-> {}]
AckState == [response : Response, pending : [Name -> {0} \cup Nonce],
             recovering : BOOLEAN]

\* pendingResponse, pendingAcks and recovering.
Acks(response, pending, recovering) ==
    [response |-> response, pending |-> pending, recovering |-> recovering]

NoAcks == Acks(NoResponse, [n \in Name |-> 0], FALSE)

Named(r) == r.resources \cup r.removed
Empty(pending) == \A n \in Name : pending[n] = 0
Overlay(pending, S, nonce) == [n \in Name |-> IF n \in S THEN nonce ELSE pending[n]]
Without(pending, nonce) == [n \in Name |-> IF pending[n] = nonce THEN 0 ELSE pending[n]]

\* recovering lasts while a name is pending.
Settle(a) == Acks(a.response, a.pending, a.recovering /\ ~Empty(a.pending))

\* indexPendingResponse
Indexed(a) == Acks(NoResponse, Overlay(a.pending, Named(a.response), a.response.nonce),
                   a.recovering)

\* Mutant: names are deleted from the index only, not from the response.
ForgottenUnindexed(a, S) == Settle(Acks(a.response, Overlay(a.pending, S, 0), a.recovering))

\* Names the client unsubscribed, or extensions that cannot be withdrawn.
Forgotten(a, S) ==
    LET b == IF S = {} THEN a ELSE Indexed(a)
    IN  Settle(Acks(b.response, Overlay(b.pending, S, 0), b.recovering))

\* Mutant: a response always replaces the one before it.
DeliveredAlone(a, nonce, R, D) ==
    Acks([nonce |-> nonce, resources |-> R, removed |-> D], a.pending, a.recovering)

\* A response with the names of the outstanding one takes its place; any other
\* response next to pending names needs the index.
Delivered(a, nonce, R, D) ==
    LET superseded == /\ a.response # NoResponse
                      /\ a.response.resources = R
                      /\ a.response.removed = D
        b == IF superseded THEN Acks(NoResponse, a.pending, a.recovering) ELSE Indexed(a)
    IN  IF Empty(b.pending)
        THEN Acks([nonce |-> nonce, resources |-> R, removed |-> D], b.pending, b.recovering)
        ELSE Acks(b.response, Overlay(b.pending, R \cup D, nonce), b.recovering)

\* An ACK of the outstanding response drops it; a NACK spells out its names.
Resolved(a, nonce, nack) ==
    IF a.response.nonce # nonce THEN a
    ELSE IF nack THEN Indexed(a) ELSE Acks(NoResponse, a.pending, a.recovering)

\* Mutant: a NACK is recorded, but does not start recovery.
AnsweredQuietly(a, nonce, nack) ==
    LET b == Resolved(a, nonce, nack)
    IN  IF nack THEN b ELSE Settle(Acks(b.response, Without(b.pending, nonce), b.recovering))

\* recordAcknowledgement: a NACK of a pending name starts recovery; an ACK
\* settles the names whose latest delivery it answers.
Answered(a, nonce, nack) ==
    LET b == Resolved(a, nonce, nack)
    IN  Settle(IF nack
               THEN Acks(b.response, b.pending,
                         b.recovering \/ \E n \in Name : b.pending[n] = nonce)
               ELSE Acks(b.response, Without(b.pending, nonce), b.recovering))
=============================================================================
