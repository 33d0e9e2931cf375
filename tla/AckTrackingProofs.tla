------------------------- MODULE AckTrackingProofs -------------------------
(***************************************************************************)
(* Proofs about AckTracking for any set of names and any nonces.           *)
(***************************************************************************)
EXTENDS AckTracking, SequenceTheorems, TLAPS

\* An acknowledgement state is the record of its three fields.
LEMMA AckFields ==
    ASSUME NEW a \in AckState
    PROVE  /\ a.response \in Response
           /\ a.pending \in [Name -> {0} \cup Nonce]
           /\ a.recovering \in BOOLEAN
           /\ a = [response |-> a.response, pending |-> a.pending,
                   recovering |-> a.recovering]
  <1>1. a.response \in Response
    BY DEF AckState
  <1>2. a.pending \in [Name -> {0} \cup Nonce]
    BY DEF AckState
  <1>3. a.recovering \in BOOLEAN
    BY DEF AckState
  <1>4. a = [response |-> a.response, pending |-> a.pending,
             recovering |-> a.recovering]
    BY DEF AckState
  <1> QED
    BY <1>1, <1>2, <1>3, <1>4

\* indexPendingResponse keeps the deliveries and leaves no response behind.
LEMMA IndexedLedger ==
    ASSUME NEW a \in AckState, Exclusive(a)
    PROVE  /\ Indexed(a) \in AckState
           /\ Indexed(a).response = NoResponse
           /\ Indexed(a).pending = Deliveries(a)
           /\ Indexed(a).recovering = a.recovering
           /\ Exclusive(Indexed(a))
           /\ Deliveries(Indexed(a)) = Deliveries(a)
  <1>1. /\ a.response \in Response /\ a.pending \in [Name -> {0} \cup Nonce]
        /\ a.recovering \in BOOLEAN
        /\ a = [response |-> a.response, pending |-> a.pending,
                recovering |-> a.recovering]
    BY AckFields, Zenon
  <1>2. Indexed(a) = [response |-> NoResponse, recovering |-> a.recovering,
                      pending |-> Overlay(a.pending, Named(a.response), a.response.nonce)]
    BY DEF Indexed, Acks
  <1>3. Overlay(a.pending, Named(a.response), a.response.nonce) = Deliveries(a)
    BY <1>1 DEF Overlay, Deliveries
  <1>4. Deliveries(a) \in [Name -> {0} \cup Nonce] /\ NoResponse \in Response
    BY <1>1 DEF Deliveries, Response, NoResponse
  <1>5. Indexed(a) \in AckState
    BY <1>1, <1>2, <1>3, <1>4 DEF AckState
  <1>6. a.recovering => a.response = NoResponse /\ Deliveries(a) = a.pending
    BY <1>1 DEF Exclusive, Deliveries, Named, NoResponse
  <1>7. Deliveries(Indexed(a)) = Deliveries(a)
    BY <1>2, <1>3, <1>4 DEF Deliveries, Named, NoResponse
  <1> QED
    BY <1>2, <1>3, <1>5, <1>6, <1>7 DEF Exclusive


\* A state built from its parts.
LEMMA BuiltFields ==
    ASSUME NEW r, NEW p, NEW v
    PROVE  /\ Acks(r, p, v).response = r
           /\ Acks(r, p, v).pending = p
           /\ Acks(r, p, v).recovering = v
           /\ Deliveries(Acks(r, p, v)) = Overlay(p, Named(r), r.nonce)
  <1>1. /\ Acks(r, p, v).response = r
        /\ Acks(r, p, v).pending = p
        /\ Acks(r, p, v).recovering = v
    BY Zenon DEF Acks
  <1>2. Deliveries(Acks(r, p, v)) = Overlay(p, Named(r), r.nonce)
    BY <1>1, Zenon DEF Deliveries, Overlay
  <1> QED
    BY <1>1, <1>2, Zenon

\* Settling a state clears recovering when nothing is pending.
LEMMA SettledFields ==
    ASSUME NEW r, NEW p, NEW v
    PROVE  /\ Settle(Acks(r, p, v)).response = r
           /\ Settle(Acks(r, p, v)).pending = p
           /\ Settle(Acks(r, p, v)).recovering = (v /\ ~Empty(p))
           /\ Deliveries(Settle(Acks(r, p, v))) = Overlay(p, Named(r), r.nonce)
  <1> DEFINE w == v /\ ~Empty(p)
  <1>1. Settle(Acks(r, p, v)) = Acks(r, p, w)
    BY BuiltFields DEF Settle
  <1>2. w = (v /\ ~Empty(p))
    OBVIOUS
  <1> HIDE DEF w
  <1> QED
    BY <1>1, <1>2, BuiltFields

\* Building and settling stay within AckState.
LEMMA BuiltType ==
    ASSUME NEW r \in Response, NEW p \in [Name -> {0} \cup Nonce], NEW v \in BOOLEAN
    PROVE  Acks(r, p, v) \in AckState /\ Settle(Acks(r, p, v)) \in AckState
  <1>1. Acks(r, p, v) \in AckState
    BY DEF Acks, AckState
  <1>2. Settle(Acks(r, p, v)) \in AckState
    BY DEF Acks, AckState, Settle
  <1> QED
    BY <1>1, <1>2

\* Unsubscribing names removes their deliveries and no others.
LEMMA ForgottenLedger ==
    ASSUME NEW a \in AckState, Exclusive(a), NEW S \in SUBSET Name
    PROVE  /\ Forgotten(a, S) \in AckState
           /\ Exclusive(Forgotten(a, S))
           /\ Deliveries(Forgotten(a, S)) = Overlay(Deliveries(a), S, 0)
           /\ Forgotten(a, S).recovering
                 = (a.recovering /\ ~Empty(Overlay(Deliveries(a), S, 0)))
  <1> DEFINE b == IF S = {} THEN a ELSE Indexed(a)
             q == Overlay(b.pending, S, 0)
             f == Settle(Acks(b.response, q, b.recovering))
  <1>1. /\ b \in AckState /\ Exclusive(b)
        /\ Deliveries(b) = Deliveries(a)
        /\ b.recovering = a.recovering
        /\ S # {} => b.response = NoResponse
    BY IndexedLedger, Zenon
  <1>2. b.response \in Response /\ b.pending \in [Name -> {0} \cup Nonce] /\ b.recovering \in BOOLEAN
    BY <1>1, AckFields, Zenon
  <1>3. q \in [Name -> {0} \cup Nonce]
    BY <1>2 DEF Overlay
  <1>4. Forgotten(a, S) = f
    BY Zenon DEF Forgotten
  <1> HIDE DEF b
  <1>7. Overlay(q, Named(b.response), b.response.nonce) = Overlay(Deliveries(b), S, 0)
    <2>1. CASE S = {}
      BY <2>1, <1>2 DEF Overlay, Deliveries
    <2>2. CASE S # {}
      BY <2>2, <1>1, <1>2 DEF Overlay, Deliveries, Named, NoResponse
    <2> QED
      BY <2>1, <2>2
  <1>8. b.response # NoResponse => Empty(q)
    BY <1>1, <1>2 DEF Exclusive, Empty, Overlay
  <1>9. b.recovering => q = Overlay(Deliveries(b), S, 0)
    BY <1>1, <1>2 DEF Exclusive, Overlay, Deliveries, Named, NoResponse
  <1> HIDE DEF q
  <1>5. /\ f.response = b.response /\ f.pending = q
        /\ f.recovering = (b.recovering /\ ~Empty(q))
        /\ Deliveries(f) = Overlay(q, Named(b.response), b.response.nonce)
    BY SettledFields
  <1>6. f \in AckState
    BY <1>2, <1>3, BuiltType
  <1> HIDE DEF f
  <1>10. Exclusive(f)
    BY <1>5, <1>8, Zenon DEF Exclusive
  <1> QED
    BY <1>1, <1>4, <1>5, <1>6, <1>7, <1>9, <1>10, Zenon

\* A delivery takes over the names it carries, in either representation.
LEMMA DeliveredLedger ==
    ASSUME NEW a \in AckState, Exclusive(a), NEW nonce \in Nonce,
           NEW R \in SUBSET Name, NEW D \in SUBSET Name
    PROVE  /\ Delivered(a, nonce, R, D) \in AckState
           /\ Exclusive(Delivered(a, nonce, R, D))
           /\ Deliveries(Delivered(a, nonce, R, D)) = Overlay(Deliveries(a), R \cup D, nonce)
           /\ Delivered(a, nonce, R, D).recovering = a.recovering
  <1> DEFINE superseded == /\ a.response # NoResponse
                           /\ a.response.resources = R
                           /\ a.response.removed = D
             p == IF superseded THEN a.pending ELSE Indexed(a).pending
             r == [nonce |-> nonce, resources |-> R, removed |-> D]
             q == Overlay(p, R \cup D, nonce)
             d == Delivered(a, nonce, R, D)
  <1>1. a.response \in Response /\ a.pending \in [Name -> {0} \cup Nonce] /\ a.recovering \in BOOLEAN
    BY AckFields, Zenon
  <1>2. NoResponse \in Response /\ r \in Response /\ r # NoResponse /\ nonce # 0
    BY NonceAssumption DEF Response, NoResponse
  <1>3. p \in [Name -> {0} \cup Nonce]
    BY <1>1, IndexedLedger, AckFields, Zenon
  <1>4. q \in [Name -> {0} \cup Nonce]
    BY <1>3 DEF Overlay
  <1>5. a.recovering => ~Empty(p)
    <2>1. CASE superseded
      BY <2>1, Zenon DEF Exclusive
    <2>2. CASE ~superseded
      BY <2>2, IndexedLedger, Zenon DEF Exclusive
    <2> QED
      BY <2>1, <2>2
  <1>6. q = Overlay(Deliveries(a), R \cup D, nonce)
    <2>1. CASE superseded
      <3>1. Named(a.response) = R \cup D
        BY <2>1 DEF Named
      <3> QED
        BY <2>1, <3>1, <1>1 DEF Overlay, Deliveries
    <2>2. CASE ~superseded
      BY <2>2, IndexedLedger, Zenon
    <2> QED
      BY <2>1, <2>2
  <1>7. d = IF Empty(p) THEN Acks(r, p, a.recovering) ELSE Acks(NoResponse, q, a.recovering)
    <2>1. CASE superseded
      <3>1. /\ Acks(NoResponse, a.pending, a.recovering).response = NoResponse
            /\ Acks(NoResponse, a.pending, a.recovering).pending = a.pending
            /\ Acks(NoResponse, a.pending, a.recovering).recovering = a.recovering
        BY DEF Acks
      <3> QED
        BY <2>1, <3>1, Zenon DEF Delivered
    <2>2. CASE ~superseded
      <3>1. Indexed(a).response = NoResponse /\ Indexed(a).recovering = a.recovering
        BY IndexedLedger, Zenon
      <3> QED
        BY <2>2, <3>1, Zenon DEF Delivered
    <2> QED
      BY <2>1, <2>2
  <1> HIDE DEF p, r, d, superseded
  <1>8. CASE Empty(p)
    <2>1. /\ d.response = r /\ d.pending = p /\ d.recovering = a.recovering
          /\ Deliveries(d) = Overlay(p, Named(r), r.nonce)
      BY <1>8, <1>7, BuiltFields
    <2>0. d \in AckState
      BY <1>8, <1>7, <1>1, <1>2, <1>3, BuiltType
    <2>2. Named(r) = R \cup D /\ r.nonce = nonce
      BY DEF Named, r
    <2>3. Exclusive(d)
      BY <1>8, <1>5, <2>1, Zenon DEF Exclusive
    <2> QED
      BY <2>0, <2>1, <2>2, <2>3, <1>6, Zenon DEF d
  <1>9. CASE ~Empty(p)
    <2>1. ~Empty(q)
      BY <1>9, <1>2, <1>3 DEF Empty, Overlay
    <2>2. Overlay(q, Named(NoResponse), NoResponse.nonce) = q
      BY <1>4 DEF Overlay, Named, NoResponse
    <2> HIDE DEF q
    <2>0. d \in AckState
      BY <1>9, <1>7, <1>1, <1>2, <1>4, BuiltType
    <2>3. /\ d.response = NoResponse /\ d.pending = q /\ d.recovering = a.recovering
          /\ Deliveries(d) = Overlay(q, Named(NoResponse), NoResponse.nonce)
      BY <1>9, <1>7, BuiltFields
    <2>4. Exclusive(d)
      BY <2>1, <2>3, Zenon DEF Exclusive
    <2> QED
      BY <2>0, <2>2, <2>3, <2>4, <1>6, Zenon DEF d
  <1> QED
    BY <1>8, <1>9

\* A reply first drops or indexes the single outstanding response.
LEMMA ResolvedLedger ==
    ASSUME NEW a \in AckState, Exclusive(a), NEW nonce \in Nonce, NEW nack \in BOOLEAN
    PROVE  /\ Resolved(a, nonce, nack) \in AckState
           /\ Resolved(a, nonce, nack).recovering = a.recovering
           /\ Resolved(a, nonce, nack).response # NoResponse =>
                 Empty(Resolved(a, nonce, nack).pending)
           /\ a.recovering => Resolved(a, nonce, nack) = a
           /\ Resolved(a, nonce, nack).response.nonce # nonce
           /\ nack => Deliveries(Resolved(a, nonce, nack)) = Deliveries(a)
           /\ ~nack => Without(Deliveries(Resolved(a, nonce, nack)), nonce)
                          = Without(Deliveries(a), nonce)
  <1> DEFINE b == Resolved(a, nonce, nack)
             c == Acks(NoResponse, a.pending, a.recovering)
  <1>1. a.response \in Response /\ a.pending \in [Name -> {0} \cup Nonce] /\ a.recovering \in BOOLEAN
    BY AckFields, Zenon
  <1>2. NoResponse \in Response /\ NoResponse.nonce = 0 /\ Named(NoResponse) = {} /\ nonce # 0
    BY NonceAssumption DEF Response, NoResponse, Named
  <1>3. a.response.nonce = nonce => a.response # NoResponse /\ Empty(a.pending) /\ ~a.recovering
    BY <1>2, Zenon DEF Exclusive
  <1>4. CASE a.response.nonce # nonce
    <2>1. b = a
      BY <1>4 DEF Resolved
    <2> HIDE DEF b
    <2> QED
      BY <1>4, <2>1, Zenon DEF b, Exclusive
  <1>5. CASE a.response.nonce = nonce /\ nack
    <2>1. b = Indexed(a)
      BY <1>5 DEF Resolved
    <2> HIDE DEF b
    <2> QED
      BY <1>2, <1>3, <1>5, <2>1, IndexedLedger, Zenon DEF b
  <1>6. CASE a.response.nonce = nonce /\ ~nack
    <2>1. b = c
      BY <1>6 DEF Resolved
    <2>2. c.response = NoResponse /\ c.pending = a.pending /\ c.recovering = a.recovering
      BY DEF Acks
    <2>3. c \in AckState
      BY <1>1, <1>2, BuiltType
    <2>4. Without(Deliveries(c), nonce) = Without(Deliveries(a), nonce)
      <3>1. Deliveries(c) = a.pending
        BY <1>1, <1>2, <2>2 DEF Deliveries
      <3>2. ASSUME NEW n \in Name
            PROVE  Without(a.pending, nonce)[n] = Without(Deliveries(a), nonce)[n]
        BY <1>1, <1>2, <1>3, <1>6 DEF Without, Deliveries, Empty
      <3> QED
        BY <3>1, <3>2 DEF Without
    <2> HIDE DEF b, c
    <2> QED
      BY <1>2, <1>3, <1>6, <2>1, <2>2, <2>3, <2>4, Zenon DEF b
  <1> QED
    BY <1>4, <1>5, <1>6

\* An ACK settles the deliveries it answers and a NACK of an outstanding
\* delivery starts recovery.
LEMMA AnsweredLedger ==
    ASSUME NEW a \in AckState, Exclusive(a), NEW nonce \in Nonce, NEW nack \in BOOLEAN
    PROVE  /\ Answered(a, nonce, nack) \in AckState
           /\ Exclusive(Answered(a, nonce, nack))
           /\ nack => /\ Deliveries(Answered(a, nonce, nack)) = Deliveries(a)
                      /\ Answered(a, nonce, nack).recovering
                            = (a.recovering \/ \E n \in Name : Deliveries(a)[n] = nonce)
           /\ ~nack => /\ Deliveries(Answered(a, nonce, nack)) = Without(Deliveries(a), nonce)
                       /\ Answered(a, nonce, nack).recovering
                            = (a.recovering /\ ~Empty(Without(Deliveries(a), nonce)))
  <1> DEFINE b == Resolved(a, nonce, nack)
             named == \E n \in Name : b.pending[n] = nonce
  <1>1. /\ b \in AckState
        /\ b.recovering = a.recovering
        /\ b.response # NoResponse => Empty(b.pending)
        /\ a.recovering => b = a
        /\ b.response.nonce # nonce
        /\ nack => Deliveries(b) = Deliveries(a)
        /\ ~nack => Without(Deliveries(b), nonce) = Without(Deliveries(a), nonce)
    BY ResolvedLedger
  <1>2. nonce # 0
    BY NonceAssumption
  <1>3. Answered(a, nonce, nack) =
          IF nack THEN Settle(Acks(b.response, b.pending, b.recovering \/ named))
          ELSE Settle(Acks(b.response, Without(b.pending, nonce), b.recovering))
    BY DEF Answered
  <1> HIDE DEF b
  <1>4. b.response \in Response /\ b.pending \in [Name -> {0} \cup Nonce] /\ b.recovering \in BOOLEAN
    BY <1>1, AckFields, Zenon
  <1>5. a.recovering => ~Empty(b.pending)
    BY <1>1, Zenon DEF Exclusive
  <1>6. Overlay(b.pending, Named(b.response), b.response.nonce) = Deliveries(b)
    BY DEF Overlay, Deliveries
  <1>7. CASE nack
    <2> DEFINE v == b.recovering \/ named
               f == Settle(Acks(b.response, b.pending, v))
    <2>1. v \in BOOLEAN
      BY <1>4
    <2>2. v => ~Empty(b.pending)
      BY <1>1, <1>2, <1>5 DEF Empty
    <2>3. named = (\E n \in Name : Deliveries(b)[n] = nonce)
      BY <1>1, <1>2, <1>4 DEF Deliveries, Empty, Named, NoResponse
    <2>4. v = (a.recovering \/ \E n \in Name : Deliveries(a)[n] = nonce)
      BY <1>1, <1>7, <2>3
    <2>5. Answered(a, nonce, nack) = f
      BY <1>3, <1>7
    <2> HIDE DEF v, named
    <2>6. /\ f.response = b.response /\ f.pending = b.pending
          /\ f.recovering = (v /\ ~Empty(b.pending))
          /\ Deliveries(f) = Deliveries(b)
      BY <1>6, SettledFields
    <2>7. f \in AckState
      BY <1>4, <2>1, BuiltType
    <2> HIDE DEF f
    <2>8. f.recovering = v
      BY <2>1, <2>2, <2>6
    <2>9. Exclusive(f)
      BY <1>1, <2>2, <2>6, <2>8 DEF Exclusive
    <2> QED
      BY <1>1, <1>7, <2>4, <2>5, <2>6, <2>7, <2>8, <2>9, Zenon
  <1>8. CASE ~nack
    <2> DEFINE q == Without(b.pending, nonce)
               f == Settle(Acks(b.response, q, b.recovering))
    <2>1. q \in [Name -> {0} \cup Nonce]
      BY <1>4 DEF Without
    <2>2. b.response # NoResponse => Empty(q)
      BY <1>1, <1>4 DEF Empty, Without
    <2>3. Overlay(q, Named(b.response), b.response.nonce) = Without(Deliveries(b), nonce)
      BY <1>1, <1>4 DEF Overlay, Without, Deliveries
    <2>4. a.recovering => q = Without(Deliveries(b), nonce)
      BY <1>1, <1>4, <1>5 DEF Without, Deliveries, Named, NoResponse
    <2>5. Answered(a, nonce, nack) = f
      BY <1>3, <1>8
    <2> HIDE DEF q
    <2>6. /\ f.response = b.response /\ f.pending = q
          /\ f.recovering = (b.recovering /\ ~Empty(q))
          /\ Deliveries(f) = Overlay(q, Named(b.response), b.response.nonce)
      BY SettledFields
    <2>7. f \in AckState
      BY <1>4, <2>1, BuiltType
    <2> HIDE DEF f
    <2>8. Exclusive(f)
      BY <2>2, <2>6, Zenon DEF Exclusive
    <2>9. f.recovering = (a.recovering /\ ~Empty(Without(Deliveries(a), nonce)))
      BY <1>1, <1>8, <2>4, <2>6, Zenon
    <2> QED
      BY <1>1, <1>8, <2>3, <2>5, <2>6, <2>7, <2>8, <2>9, Zenon
  <1> QED
    BY <1>7, <1>8

-----------------------------------------------------------------------------

\* The inductive invariant is the conjunction of the four properties.
AckInv == TypeOK /\ RecoveryHasNames /\ UnacknowledgedIsRecent /\ DiagnosticsAreOrdered

\* A fresh watch satisfies the invariant and is a clear ledger.
LEMMA InitialAcks ==
    Init => AckInv /\ Ledger!LInit
  <1> SUFFICES ASSUME Init PROVE AckInv /\ Ledger!LInit
    OBVIOUS
  <1>1. /\ acks = Acks(NoResponse, [n \in Name |-> 0], FALSE)
        /\ acks.response = NoResponse /\ acks.pending = [n \in Name |-> 0]
        /\ acks.recovering = FALSE
        /\ Deliveries(acks) = [n \in Name |-> 0]
    BY DEF Init, NoAcks, Acks, Deliveries, Named, NoResponse
  <1>2. acks \in AckState
    <2>1. NoResponse \in Response /\ [n \in Name |-> 0] \in [Name -> {0} \cup Nonce]
      BY DEF Response, NoResponse
    <2> QED
      BY <1>1, <2>1, BuiltType
  <1>3. TypeOK
    <2>1. /\ nonceSent = 0 /\ nonceAcked = 0 /\ nonceNacked = 0
          /\ unacknowledged = << >> /\ receivedAcknowledgement = FALSE
          /\ event = [kind |-> "none", nonce |-> 0, names |-> {}]
      BY DEF Init
    <2>2. unacknowledged \in Seq(Nonce)
      BY <2>1
    <2>3. event \in [kind : {"none", "send", "ack", "nack", "forget"},
                    nonce : {0} \cup Nonce, names : SUBSET Name]
      BY <2>1
    <2>4. receivedAcknowledgement \in BOOLEAN
      BY <2>1
    <2> QED
      BY <1>2, <2>1, <2>2, <2>3, <2>4, Zenon DEF TypeOK
  <1>4. RecoveryHasNames
    BY <1>1 DEF RecoveryHasNames, Exclusive
  <1>5. UnacknowledgedIsRecent /\ DiagnosticsAreOrdered
    BY DEF Init, UnacknowledgedIsRecent, DiagnosticsAreOrdered
  <1>6. Ledger!LInit
    BY <1>1 DEF Init, Ledger!LInit, Ledger!Event
  <1> QED
    BY <1>3, <1>4, <1>5, <1>6 DEF AckInv

\* Sending keeps the list ordered: the new nonce exceeds nonceSent, the last
\* and largest of the list.
LEMMA SendKeeps ==
    ASSUME AckInv, NEW nonce \in Nonce, NEW R \in SUBSET Name, NEW D \in SUBSET Name,
           Send(nonce, R, D)
    PROVE  AckInv' /\ Ledger!LNext
  <1>1. /\ TypeOK /\ Exclusive(acks) /\ acks \in AckState
        /\ UnacknowledgedIsRecent /\ DiagnosticsAreOrdered
    BY DEF AckInv, RecoveryHasNames, TypeOK
  <1>2. /\ nonce > nonceSent /\ acks' = Delivered(acks, nonce, R, D) /\ nonceSent' = nonce
        /\ unacknowledged' = Append(unacknowledged, nonce)
        /\ event' = [kind |-> "send", nonce |-> nonce, names |-> R \cup D]
        /\ nonceAcked' = nonceAcked /\ nonceNacked' = nonceNacked
        /\ receivedAcknowledgement' = receivedAcknowledgement
    BY Zenon DEF Send, diagnostics
  <1>3. /\ acks' \in AckState /\ Exclusive(acks')
        /\ Deliveries(acks') = Overlay(Deliveries(acks), R \cup D, nonce)
        /\ acks'.recovering = acks.recovering
    BY <1>1, <1>2, DeliveredLedger, Zenon
  <1>4. TypeOK'
    BY <1>1, <1>2, <1>3 DEF TypeOK
  <1>5. UnacknowledgedIsRecent'
    <2>1. /\ unacknowledged \in Seq(Nonce) /\ Nonce \subseteq Nat \ {0}
          /\ nonceSent \in Nat /\ nonce \in Nat
          /\ nonceAcked \in Nat /\ nonceNacked \in Nat
      BY <1>1, NonceAssumption DEF TypeOK
    <2>2. \A i \in DOMAIN unacknowledged : unacknowledged[i] \in Nat /\ unacknowledged[i] < nonce
      <3> TAKE i \in DOMAIN unacknowledged
      <3>0. /\ Len(unacknowledged) \in Nat /\ DOMAIN unacknowledged = 1 .. Len(unacknowledged)
            /\ \A k \in 1 .. Len(unacknowledged) : unacknowledged[k] \in Nonce
        BY <2>1, LenProperties, ElementOfSeq
      <3>1. /\ Len(unacknowledged) \in Nat /\ DOMAIN unacknowledged = 1 .. Len(unacknowledged)
            /\ i \in 1 .. Len(unacknowledged) /\ unacknowledged[i] \in Nat
            /\ Len(unacknowledged) \in DOMAIN unacknowledged
        <4>1. i \in 1 .. Len(unacknowledged)
          BY <3>0
        <4>2. unacknowledged[i] \in Nonce
          BY <3>0, <4>1
        <4>3. Len(unacknowledged) \in 1 .. Len(unacknowledged)
          BY <3>0, <4>1
        <4> QED
          BY <3>0, <4>1, <4>2, <4>3, NonceAssumption
      <3>2. unacknowledged[Len(unacknowledged)] = nonceSent
        <4>1. unacknowledged # << >>
          BY <3>1
        <4> QED
          BY <1>1, <4>1, Zenon DEF UnacknowledgedIsRecent
      <3>3. i < Len(unacknowledged) => unacknowledged[i] < unacknowledged[Len(unacknowledged)]
        BY <1>1, <3>1 DEF UnacknowledgedIsRecent
      <3> QED
        BY <1>2, <2>1, <3>1, <3>2, <3>3
    <2>3. \A i, j \in DOMAIN unacknowledged' : i < j => unacknowledged'[i] < unacknowledged'[j]
      <3> DEFINE u == unacknowledged
      <3>1. /\ u' = Append(u, nonce) /\ Len(u') = Len(u) + 1 /\ Len(u) \in Nat
            /\ DOMAIN u = 1 .. Len(u) /\ DOMAIN u' = 1 .. (Len(u) + 1)
            /\ \A i \in 1 .. Len(u) : u'[i] = u[i]
            /\ u'[Len(u) + 1] = nonce
        BY <1>2, <2>1
      <3>2. \A i, j \in 1 .. Len(u) : i < j => u[i] < u[j]
        BY <1>1, <3>1 DEF UnacknowledgedIsRecent
      <3> HIDE DEF u
      <3>3. \A i, j \in 1 .. (Len(u) + 1) : i < j => u'[i] < u'[j]
        <4> TAKE i, j \in 1 .. (Len(u) + 1)
        <4> HAVE i < j
        <4>1. i \in 1 .. Len(u)
          BY <3>1
        <4>2. CASE j \in 1 .. Len(u)
          BY <3>1, <3>2, <4>1, <4>2
        <4>3. CASE j = Len(u) + 1
          BY <3>1, <2>2, <4>1, <4>3 DEF u
        <4> QED
          BY <3>1, <4>2, <4>3
      <3> QED
        BY <3>1, <3>3 DEF u
    <2>4. unacknowledged'[Len(unacknowledged')] = nonceSent'
      BY <1>2, <2>1
    <2>5. nonceSent' \notin {nonceAcked', nonceNacked'}
      BY <1>1, <1>2, <2>1 DEF DiagnosticsAreOrdered
    <2> QED
      BY <2>3, <2>4, <2>5 DEF UnacknowledgedIsRecent
  <1>6. DiagnosticsAreOrdered'
    BY <1>1, <1>2, NonceAssumption DEF DiagnosticsAreOrdered, TypeOK
  <1>7. Ledger!Deliver(R \cup D, nonce)
    BY <1>2, <1>3, Zenon DEF Ledger!Deliver, Ledger!Event, Overlay
  <1> QED
    BY <1>3, <1>4, <1>5, <1>6, <1>7 DEF AckInv, RecoveryHasNames, Ledger!LNext

\* Unsubscribing touches the ledger only.
LEMMA UnsubscribeKeeps ==
    ASSUME AckInv, NEW S \in SUBSET Name, Unsubscribe(S)
    PROVE  AckInv' /\ Ledger!LNext
  <1>1. TypeOK /\ Exclusive(acks) /\ acks \in AckState
    BY DEF AckInv, RecoveryHasNames, TypeOK
  <1>2. /\ acks' = Forgotten(acks, S) /\ nonceSent' = nonceSent
        /\ unacknowledged' = unacknowledged
        /\ event' = [kind |-> "forget", nonce |-> 0, names |-> S]
        /\ nonceAcked' = nonceAcked /\ nonceNacked' = nonceNacked
        /\ receivedAcknowledgement' = receivedAcknowledgement
    BY Zenon DEF Unsubscribe, diagnostics
  <1>3. /\ acks' \in AckState /\ Exclusive(acks')
        /\ Deliveries(acks') = Overlay(Deliveries(acks), S, 0)
        /\ acks'.recovering = (acks.recovering /\ ~Empty(Deliveries(acks')))
    BY <1>1, <1>2, ForgottenLedger, Zenon
  <1>4. TypeOK'
    BY <1>1, <1>2, <1>3 DEF TypeOK
  <1>5. UnacknowledgedIsRecent' /\ DiagnosticsAreOrdered'
    BY <1>2 DEF AckInv, UnacknowledgedIsRecent, DiagnosticsAreOrdered
  <1>6. Ledger!Forget(S)
    BY <1>2, <1>3, Zenon DEF Ledger!Forget, Ledger!Clear, Ledger!Event, Overlay, Empty
  <1> QED
    BY <1>3, <1>4, <1>5, <1>6 DEF AckInv, RecoveryHasNames, Ledger!LNext

\* A suffix of an ordered list is ordered, and the reply to its last element
\* empties it.
LEMMA AcknowledgedSuffix ==
    ASSUME TypeOK, UnacknowledgedIsRecent, NEW nonce \in Nonce, Acknowledged(nonce)
    PROVE  /\ unacknowledged' \in Seq(Nonce)
           /\ receivedAcknowledgement' \in BOOLEAN
           /\ \A i, j \in DOMAIN unacknowledged' :
                 i < j => unacknowledged'[i] < unacknowledged'[j]
           /\ unacknowledged' # << >> => unacknowledged'[Len(unacknowledged')] = nonceSent
           /\ unacknowledged = << >> => unacknowledged' = << >>
           /\ nonce = nonceSent => unacknowledged' = << >>
  <1> DEFINE u == unacknowledged
  <1>1. u \in Seq(Nonce) /\ receivedAcknowledgement \in BOOLEAN
    BY DEF TypeOK
  <1>2. /\ Len(u) \in Nat /\ DOMAIN u = 1 .. Len(u)
        /\ \A k \in 1 .. Len(u) : u[k] \in Nonce
    BY <1>1, LenProperties, ElementOfSeq
  <1>3. \A i, j \in 1 .. Len(u) : i < j => u[i] < u[j]
    BY <1>2 DEF UnacknowledgedIsRecent
  <1>4. u # << >> => u[Len(u)] = nonceSent
    BY DEF UnacknowledgedIsRecent
  <1>5. u # << >> => Len(u) \in 1 .. Len(u)
    <2>1. u # << >> => Len(u) # 0
      BY <1>1, EmptySeq
    <2> QED
      BY <1>2, <2>1
  <1>6. receivedAcknowledgement' \in BOOLEAN
    <2>1. receivedAcknowledgement' = (receivedAcknowledgement \/ Positions(nonce) # {})
      BY DEF Acknowledged
    <2> QED
      BY <1>1, <2>1
  <1>7. CASE Positions(nonce) = {}
    <2>1. u' = u
      BY <1>7 DEF Acknowledged
    <2>2. nonce = nonceSent => u = << >>
      BY <1>2, <1>4, <1>5, <1>7 DEF Positions
    <2> QED
      BY <1>1, <1>6, <2>1, <2>2 DEF UnacknowledgedIsRecent
  <1>8. CASE Positions(nonce) # {}
    <2>1. PICK i \in Positions(nonce) :
             /\ \A j \in Positions(nonce) : i <= j
             /\ u' = SubSeq(u, i + 1, Len(u))
      BY <1>8 DEF Acknowledged
    <2>2. i \in 1 .. Len(u) /\ u[i] = nonce
      BY <1>2, <2>1 DEF Positions
    <2>3. /\ Len(u') = Len(u) - i /\ Len(u') \in Nat /\ u' \in Seq(Nonce)
          /\ DOMAIN u' = 1 .. Len(u')
          /\ \A k \in 1 .. Len(u') : u'[k] = u[i + k]
      <3>1. u' = [k \in 1 .. (Len(u) - i) |-> u[i + k]]
        BY <1>1, <1>2, <2>1, <2>2
      <3>2. \A k \in 1 .. (Len(u) - i) : i + k \in 1 .. Len(u)
        BY <1>2, <2>2
      <3>3. Len(u) - i \in Nat
        BY <1>2, <2>2
      <3>4. u' \in Seq(Nonce) /\ Len(u') = Len(u) - i
        BY <3>1, <3>2, <3>3, <1>2
      <3> QED
        BY <3>1, <3>3, <3>4
    <2>4. \A j, k \in 1 .. Len(u') : j < k => u'[j] < u'[k]
      <3> TAKE j, k \in 1 .. Len(u')
      <3> HAVE j < k
      <3>1. i + j \in 1 .. Len(u) /\ i + k \in 1 .. Len(u) /\ i + j < i + k
        BY <1>2, <2>2, <2>3
      <3> QED
        BY <1>3, <2>3, <3>1
    <2>5. u' # << >> => u'[Len(u')] = nonceSent
      <3> HAVE u' # << >>
      <3>1. Len(u') # 0
        BY <2>3, EmptySeq
      <3>2. Len(u') \in 1 .. Len(u') /\ i + Len(u') = Len(u)
        <4>1. Len(u') = Len(u) - i /\ Len(u') \in Nat /\ Len(u) \in Nat /\ i \in Nat
          BY <1>2, <2>2, <2>3
        <4> HIDE DEF u
        <4> QED
          BY <3>1, <4>1
      <3>3. u # << >>
        BY <1>2, <2>2
      <3> QED
        BY <1>4, <2>3, <3>2, <3>3
    <2>6. u # << >>
      BY <1>2, <2>2
    <2>7. nonce = nonceSent => i = Len(u)
      <3>1. i < Len(u) => u[i] < u[Len(u)]
        BY <1>3, <1>5, <2>2, <2>6
      <3>2. u[Len(u)] = nonceSent /\ u[i] = nonce /\ nonce \in Nat
        BY <1>4, <2>2, <2>6, NonceAssumption
      <3>3. nonce = nonceSent => ~(i < Len(u))
        BY <3>1, <3>2
      <3>4. i \in Nat /\ i <= Len(u) /\ Len(u) \in Nat
        BY <1>2, <2>2
      <3> HIDE DEF u
      <3> QED
        BY <3>3, <3>4
    <2>8. nonce = nonceSent => u' = << >>
      <3>1. nonce = nonceSent => Len(u') = 0
        BY <1>2, <2>3, <2>7
      <3> QED
        BY <2>3, <3>1, EmptySeq
    <2> QED
      BY <1>6, <2>3, <2>4, <2>5, <2>6, <2>8
  <1> QED
    BY <1>7, <1>8

\* A reply settles what it answers, and its diagnostics stay ordered.
LEMMA RecordKeeps ==
    ASSUME AckInv, NEW nonce \in Nonce, NEW nack \in BOOLEAN, Record(nonce, nack)
    PROVE  AckInv' /\ Ledger!LNext
  <1>1. /\ TypeOK /\ Exclusive(acks) /\ acks \in AckState
        /\ UnacknowledgedIsRecent /\ DiagnosticsAreOrdered
    BY DEF AckInv, RecoveryHasNames, TypeOK
  <1>2. /\ acks' = Answered(acks, nonce, nack) /\ nonceSent' = nonceSent
        /\ Acknowledged(nonce) /\ Diagnosed(nonce, nack)
        /\ event' = [kind |-> IF nack THEN "nack" ELSE "ack", nonce |-> nonce, names |-> {}]
    BY Zenon DEF Record
  <1>3. /\ acks' \in AckState /\ Exclusive(acks')
        /\ nack => /\ Deliveries(acks') = Deliveries(acks)
                   /\ acks'.recovering
                         = (acks.recovering \/ \E n \in Name : Deliveries(acks)[n] = nonce)
        /\ ~nack => /\ Deliveries(acks') = Without(Deliveries(acks), nonce)
                    /\ acks'.recovering = (acks.recovering /\ ~Empty(Deliveries(acks')))
    <2>1. nack => /\ Deliveries(acks') = Deliveries(acks)
                  /\ acks'.recovering
                        = (acks.recovering \/ \E n \in Name : Deliveries(acks)[n] = nonce)
      BY <1>1, <1>2, AnsweredLedger
    <2>2. ~nack => /\ Deliveries(acks') = Without(Deliveries(acks), nonce)
                   /\ acks'.recovering = (acks.recovering /\ ~Empty(Deliveries(acks')))
      BY <1>1, <1>2, AnsweredLedger
    <2>3. acks' \in AckState /\ Exclusive(acks')
      BY <1>1, <1>2, AnsweredLedger
    <2> QED
      BY <2>1, <2>2, <2>3, Zenon
  <1>4. /\ unacknowledged' \in Seq(Nonce)
        /\ receivedAcknowledgement' \in BOOLEAN
        /\ \A i, j \in DOMAIN unacknowledged' :
              i < j => unacknowledged'[i] < unacknowledged'[j]
        /\ unacknowledged' # << >> => unacknowledged'[Len(unacknowledged')] = nonceSent
        /\ unacknowledged = << >> => unacknowledged' = << >>
        /\ nonce = nonceSent => unacknowledged' = << >>
    BY <1>1, <1>2, AcknowledgedSuffix
  <1>5. /\ nonceSent \in {0} \cup Nonce /\ nonceAcked \in {0} \cup Nonce
        /\ nonceNacked \in {0} \cup Nonce
    BY <1>1 DEF TypeOK
  <1>6. /\ nonceAcked' \in {0} \cup Nonce /\ nonceNacked' \in {0} \cup Nonce
        /\ nonce # nonceSent => nonceAcked' = nonceAcked /\ nonceNacked' = nonceNacked
    BY <1>2, <1>5 DEF Diagnosed, diagnostics
  <1>7. TypeOK'
    <2>1. event' \in [kind : {"none", "send", "ack", "nack", "forget"},
                      nonce : {0} \cup Nonce, names : SUBSET Name]
      BY <1>2
    <2> QED
      BY <1>2, <1>3, <1>4, <1>5, <1>6, <2>1, Zenon DEF TypeOK
  <1>8. UnacknowledgedIsRecent'
    <2>1. nonceSent # 0 /\ nonceSent \in {nonceAcked', nonceNacked'} => unacknowledged' = << >>
      BY <1>1, <1>4, <1>6 DEF UnacknowledgedIsRecent
    <2> QED
      BY <1>2, <1>4, <2>1, Zenon DEF UnacknowledgedIsRecent
  <1>9. DiagnosticsAreOrdered'
    BY <1>1, <1>2, <1>5, NonceAssumption DEF DiagnosticsAreOrdered, Diagnosed, diagnostics
  <1>10. CASE nack
    <2>1. Ledger!Reject(nonce)
      BY <1>2, <1>3, <1>10, Zenon DEF Ledger!Reject, Ledger!Event
    <2> QED
      BY <1>3, <1>7, <1>8, <1>9, <2>1 DEF AckInv, RecoveryHasNames, Ledger!LNext
  <1>11. CASE ~nack
    <2>1. Ledger!Accept(nonce)
      BY <1>2, <1>3, <1>11, Zenon DEF Ledger!Accept, Ledger!Clear, Ledger!Event, Without, Empty
    <2> QED
      BY <1>3, <1>7, <1>8, <1>9, <2>1 DEF AckInv, RecoveryHasNames, Ledger!LNext
  <1> QED
    BY <1>10, <1>11

\* Every step keeps the invariant and is a step of the ledger.
LEMMA StepKeeps ==
    AckInv /\ [Next]_avars => AckInv' /\ [Ledger!LNext]_(Ledger!lvars)
  <1> SUFFICES ASSUME AckInv, [Next]_avars
               PROVE  AckInv' /\ [Ledger!LNext]_(Ledger!lvars)
    OBVIOUS
  <1>1. CASE \E nonce \in Nonce, R \in SUBSET Name, D \in SUBSET Name :
                R \cap D = {} /\ Send(nonce, R, D)
    BY <1>1, SendKeeps, Zenon
  <1>2. CASE \E nonce \in Nonce, nack \in BOOLEAN : Record(nonce, nack)
    BY <1>2, RecordKeeps, Zenon
  <1>3. CASE \E S \in SUBSET Name : Unsubscribe(S)
    BY <1>3, UnsubscribeKeeps, Zenon
  <1>4. CASE UNCHANGED avars
    <2>1. /\ acks' = acks /\ nonceSent' = nonceSent /\ nonceAcked' = nonceAcked
          /\ nonceNacked' = nonceNacked /\ unacknowledged' = unacknowledged
          /\ receivedAcknowledgement' = receivedAcknowledgement /\ event' = event
      BY <1>4 DEF avars
    <2>2. TypeOK' /\ RecoveryHasNames'
      BY <2>1, Zenon DEF AckInv, TypeOK, RecoveryHasNames
    <2>3. UnacknowledgedIsRecent' /\ DiagnosticsAreOrdered'
      BY <2>1, Zenon DEF AckInv, UnacknowledgedIsRecent, DiagnosticsAreOrdered
    <2>4. UNCHANGED Ledger!lvars
      BY <2>1, Zenon DEF Ledger!lvars
    <2> QED
      BY <2>2, <2>3, <2>4, Zenon DEF AckInv
  <1> QED
    BY <1>1, <1>2, <1>3, <1>4 DEF Next

\* The acknowledgement invariant holds in every state.
THEOREM AckInvariance == Spec => []AckInv
  <1>1. Init => AckInv
    BY InitialAcks
  <1>2. AckInv /\ [Next]_avars => AckInv'
    BY StepKeeps
  <1> QED
    BY <1>1, <1>2, PTL DEF Spec

\* recordAcknowledgement, applySubscription and sendGeneratedDelta keep the
\* types of the watch.
THEOREM AckTypeCorrect == Spec => []TypeOK
  <1>1. AckInv => TypeOK
    BY DEF AckInv
  <1> QED
    BY <1>1, AckInvariance, PTL

\* A recovering watch always has an indexed name to send again, and a single
\* outstanding response never coexists with indexed names.
THEOREM RecoveryKeepsNames == Spec => []RecoveryHasNames
  <1>1. AckInv => RecoveryHasNames
    BY DEF AckInv
  <1> QED
    BY <1>1, AckInvariance, PTL

\* The list releaseAcknowledged and expired read is in sending order, and the
\* answer to the newest response empties it.
THEOREM UnacknowledgedStaysRecent == Spec => []UnacknowledgedIsRecent
  <1>1. AckInv => UnacknowledgedIsRecent
    BY DEF AckInv
  <1> QED
    BY <1>1, AckInvariance, PTL

\* nonceAcked and nonceNacked never name the same response.
THEOREM DiagnosticsStayOrdered == Spec => []DiagnosticsAreOrdered
  <1>1. AckInv => DiagnosticsAreOrdered
    BY DEF AckInv
  <1> QED
    BY <1>1, AckInvariance, PTL

\* pendingResponse and pendingAcks together implement the per-name ledger.
THEOREM LedgerRefinement == Spec => ImplementsAckLedger
  <1>1. Init => AckInv /\ Ledger!LInit
    BY InitialAcks
  <1>2. AckInv /\ [Next]_avars => AckInv' /\ [Ledger!LNext]_(Ledger!lvars)
    BY StepKeeps
  <1> QED
    BY <1>1, <1>2, PTL DEF Spec, ImplementsAckLedger, Ledger!LSpec
=============================================================================
