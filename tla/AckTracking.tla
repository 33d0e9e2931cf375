---------------------------- MODULE AckTracking ----------------------------
(***************************************************************************)
(* The acknowledgement part of a watch as a state machine of its own.      *)
(* Responses and replies may come in any order: nonces are taken from a    *)
(* counter all streams share, so that a watch sees an increasing sequence  *)
(* with gaps, and a reply may answer any response, or none.                *)
(***************************************************************************)
EXTENDS WatchAcks, Sequences

VARIABLES
    acks,                      \* [response, pending, recovering]
    nonceSent, nonceAcked, nonceNacked,
    unacknowledged,            \* nonces flow control waits for, oldest first
    receivedAcknowledgement,
    event                      \* history: the last operation, as AckLedger has it

diagnostics == <<nonceAcked, nonceNacked>>
avars == <<acks, nonceSent, nonceAcked, nonceNacked, unacknowledged,
           receivedAcknowledgement, event>>

\* The fields of a watchState keep their types: sendGeneratedDelta and
\* recordAcknowledgement only store names and nonces the stream has used.
TypeOK ==
    /\ acks \in AckState
    /\ nonceSent \in {0} \cup Nonce
    /\ nonceAcked \in {0} \cup Nonce
    /\ nonceNacked \in {0} \cup Nonce
    /\ unacknowledged \in Seq(Nonce)
    /\ receivedAcknowledgement \in BOOLEAN
    /\ event \in [kind : {"none", "send", "ack", "nack", "forget"},
                  nonce : {0} \cup Nonce, names : SUBSET Name]

Init ==
    /\ acks = NoAcks
    /\ nonceSent = 0
    /\ nonceAcked = 0
    /\ nonceNacked = 0
    /\ unacknowledged = << >>
    /\ receivedAcknowledgement = FALSE
    /\ event = [kind |-> "none", nonce |-> 0, names |-> {}]

-----------------------------------------------------------------------------

Positions(nonce) == {i \in DOMAIN unacknowledged : unacknowledged[i] = nonce}

\* Mutant: only the answered response is taken off the list.
AcknowledgedOne(nonce) ==
    /\ receivedAcknowledgement' = (receivedAcknowledgement \/ Positions(nonce) # {})
    /\ unacknowledged' = SelectSeq(unacknowledged, LAMBDA m : m # nonce)

\* Flow control counts a reply to a response for all earlier ones, too.
Acknowledged(nonce) ==
    /\ receivedAcknowledgement' = (receivedAcknowledgement \/ Positions(nonce) # {})
    /\ IF Positions(nonce) = {} THEN UNCHANGED unacknowledged
       ELSE \E i \in Positions(nonce) :
               /\ \A j \in Positions(nonce) : i <= j
               /\ unacknowledged' = SubSeq(unacknowledged, i + 1, Len(unacknowledged))

\* Only a reply to the latest response reaches the diagnostics.
Diagnosed(nonce, nack) ==
    IF nonce # nonceSent THEN UNCHANGED diagnostics
    ELSE IF nack
    THEN /\ nonceNacked' = nonce
         /\ nonceAcked' = IF nonceAcked = nonce THEN 0 ELSE nonceAcked
    ELSE nonceAcked' = nonce /\ nonceNacked' = 0

-----------------------------------------------------------------------------

\* The bookkeeping after a successful Send.
Send(nonce, R, D) ==
    /\ nonce > nonceSent
    /\ acks' = Delivered(acks, nonce, R, D)
    /\ nonceSent' = nonce
    /\ unacknowledged' = Append(unacknowledged, nonce)
    /\ event' = [kind |-> "send", nonce |-> nonce, names |-> R \cup D]
    /\ UNCHANGED <<diagnostics, receivedAcknowledgement>>

Record(nonce, nack) ==
    /\ acks' = Answered(acks, nonce, nack)
    /\ Acknowledged(nonce)
    /\ Diagnosed(nonce, nack)
    /\ event' = [kind |-> IF nack THEN "nack" ELSE "ack", nonce |-> nonce, names |-> {}]
    /\ UNCHANGED nonceSent

Unsubscribe(S) ==
    /\ acks' = Forgotten(acks, S)
    /\ event' = [kind |-> "forget", nonce |-> 0, names |-> S]
    /\ UNCHANGED <<nonceSent, diagnostics, unacknowledged, receivedAcknowledgement>>

Next == \/ \E nonce \in Nonce, R \in SUBSET Name, D \in SUBSET Name :
              R \cap D = {} /\ Send(nonce, R, D)
        \/ \E nonce \in Nonce, nack \in BOOLEAN : Record(nonce, nack)
        \/ \E S \in SUBSET Name : Unsubscribe(S)

Spec == Init /\ [][Next]_avars

-----------------------------------------------------------------------------

Exclusive(a) == /\ a.response # NoResponse => Empty(a.pending)
                /\ a.recovering => ~Empty(a.pending)

\* The two representations exclude each other, and a watch recovers only while
\* an indexed name is pending: the optimisation for the single outstanding
\* response never hides a name from recovery.
RecoveryHasNames == Exclusive(acks)

\* The list flow control waits on is in sending order and ends with the latest
\* response, and the answer to the latest response empties it: a client that
\* keeps up with the newest response never runs into the ACK timeout.
UnacknowledgedIsRecent ==
    /\ \A i, j \in DOMAIN unacknowledged : i < j => unacknowledged[i] < unacknowledged[j]
    /\ unacknowledged # << >> => unacknowledged[Len(unacknowledged)] = nonceSent
    /\ nonceSent # 0 /\ nonceSent \in {nonceAcked, nonceNacked} => unacknowledged = << >>

\* nonceNacked = nonceSent identifies a rejection of the latest response: the
\* two diagnostics never name the same response, and a recorded ACK is not
\* older than a recorded NACK.
DiagnosticsAreOrdered ==
    /\ nonceAcked # 0 => nonceAcked # nonceNacked
    /\ nonceNacked # 0 => nonceAcked < nonceNacked
    /\ nonceAcked <= nonceSent /\ nonceNacked <= nonceSent

\* What the ledger sees of the two representations.
Deliveries(a) == [n \in Name |-> IF n \in Named(a.response)
                                 THEN a.response.nonce ELSE a.pending[n]]

Ledger == INSTANCE AckLedger WITH
    outstanding <- Deliveries(acks), rejected <- acks.recovering

\* pendingResponse and pendingAcks together are the per-name ledger: late,
\* duplicate and overlapping replies settle exactly the deliveries they answer.
ImplementsAckLedger == Ledger!LSpec
=============================================================================
