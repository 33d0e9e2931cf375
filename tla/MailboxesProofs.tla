-------------------------- MODULE MailboxesProofs --------------------------
(***************************************************************************)
(* Proofs about Mailboxes, for any set of subscribers and any resources:  *)
(* the indexes are exact, mailboxes with one ID hold one        *)
(* notice, and no subscriber misses a change of what it watches.           *)
(***************************************************************************)
EXTENDS Mailboxes, FiniteSetTheorems, TLAPS

-----------------------------------------------------------------------------
(* The inductive invariant *)

\* A mailbox is empty or holds one notice.
OneNotice(m) == m = {} \/ \E u \in Update : m = {u}

Typed ==
    /\ owner \in [SandboxKey -> Owner \cup {Broad}]
    /\ subscribers \subseteq Sub
    /\ types \in [Sub -> SUBSET Type]
    /\ names \in [Sub -> SUBSET SandboxKey]
    /\ updates \in [Sub -> SUBSET Update]
    /\ \A s \in Sub : OneNotice(updates[s])
    /\ nextMailboxID \in Nat
    /\ mailboxID \in [Sub -> Nat]
    /\ \A s \in Sub : mailboxID[s] <= nextMailboxID
    /\ byType \in [Type -> SUBSET Sub]
    /\ byWorkload \in [Owner \cup {Broad} -> SUBSET Sub]
    /\ byName \in [SandboxKey -> SUBSET Sub]
    /\ DOMAIN due = Sub

\* Who is not registered has nothing: a later subscriber starts afresh.
FreshAreEmpty ==
    \A s \in Sub \ subscribers : types[s] = {} /\ names[s] = {} /\ updates[s] = {} /\ due[s] = {}

IInv == /\ Typed /\ FreshAreEmpty /\ IndexesMatch
        /\ SharedNoticesAreEqual /\ NoticesAreComplete

\* An empty store has the invariant.
LEMMA InitIInv == Init => IInv
  <1> SUFFICES ASSUME Init PROVE IInv
    OBVIOUS
  <1>1. Typed
    BY DEF Init, Typed, OneNotice
  <1>2. FreshAreEmpty
    BY DEF Init, FreshAreEmpty
  <1>3. IndexesMatch
    BY MailboxAssumption DEF Init, IndexesMatch
  <1>4. SharedNoticesAreEqual
    BY DEF Init, SharedNoticesAreEqual
  <1>5. NoticesAreComplete
    BY DEF Init, NoticesAreComplete
  <1> QED
    BY <1>1, <1>2, <1>3, <1>4, <1>5 DEF IInv

-----------------------------------------------------------------------------
(* Notices *)

\* Merge loses nothing of either notice.
LEMMA MergeCovers ==
  ASSUME NEW u \in Update, NEW v \in Update
  PROVE  /\ Merge(u, v) \in Update
         /\ \A d : Covers(u, d) \/ Covers(v, d) => Covers(Merge(u, v), d)
  <1>1. Merge(u, v) \in Update
    BY DEF Merge, Update
  <1>2. ASSUME NEW t, FullFor(u, t) \/ FullFor(v, t)
        PROVE  FullFor(Merge(u, v), t)
    BY <1>2 DEF Merge, Update, FullFor
  <1>3. ASSUME NEW d, Covers(u, d) \/ Covers(v, d)
        PROVE  Covers(Merge(u, v), d)
    <2>1. CASE FullFor(u, d[1]) \/ FullFor(v, d[1])
      BY <1>2, <2>1 DEF Covers
    <2>2. CASE ~(FullFor(u, d[1]) \/ FullFor(v, d[1]))
      <3>1. d[2] # All /\ \/ d[1] \in u.affected /\ d[2] \in u.candidates
                          \/ d[1] \in v.affected /\ d[2] \in v.candidates
        BY <1>3, <2>2 DEF Covers
      <3>2. d[1] \in Merge(u, v).affected /\ d[2] \in Merge(u, v).candidates
        BY <3>1 DEF Merge
      <3> QED
        BY <3>1, <3>2 DEF Covers
    <2> QED
      BY <2>1, <2>2
  <1> QED
    BY <1>1, <1>3

\* affectedSubscribersLocked reaches registered subscribers only.
LEMMA AffectedAreSubscribers ==
  ASSUME IInv, NEW u \in Update, NEW W \in SUBSET (Owner \cup {Broad})
  PROVE  Affected(u, W) \subseteq subscribers
  <1>1. \A t \in Type : byType[t] \subseteq subscribers
    BY DEF IInv, IndexesMatch
  <1>2. SandboxSubscribers(u.candidates, W) \subseteq subscribers
    BY DEF IInv, IndexesMatch, SandboxSubscribers
  <1>3. u.fullTypes \cup u.affected \subseteq Type
    BY DEF Update
  <1> QED
    BY <1>1, <1>2, <1>3 DEF Affected

Rank(N, m) == Cardinality({n \in N : n <= m})

\* The numbers notifyLocked gives to merged notices differ from each other.
LEMMA RankIsInjective ==
  ASSUME NEW N, IsFiniteSet(N), N \subseteq Nat, NEW m \in N, NEW n \in N,
         Rank(N, m) = Rank(N, n)
  PROVE  m = n
  <1> DEFINE below(k) == {i \in N : i <= k}
  <1>1. ASSUME NEW a \in N, NEW b \in N, a < b
        PROVE  Cardinality(below(a)) # Cardinality(below(b))
    <2>0. a \in Nat /\ b \in Nat
      BY <1>1
    <2>a. ASSUME NEW i \in N, i <= a PROVE i <= b
      <3>1. i \in Nat
        OBVIOUS
      <3> QED
        BY <1>1, <2>0, <2>a, <3>1
    <2>1. below(a) \subseteq below(b) /\ b \in below(b) /\ b \notin below(a)
      <3>1. below(a) \subseteq below(b)
        BY <2>a, Zenon
      <3>2. b <= b /\ ~(b <= a)
        BY <1>1, <2>0
      <3> QED
        BY <3>1, <3>2, Zenon
    <2>2. IsFiniteSet(below(b)) /\ below(a) \in SUBSET below(b)
      BY <2>1, FS_Subset, below(b) \in SUBSET N
    <2> HIDE DEF below
    <2> QED
      BY <2>1, <2>2, FS_Subset
  <1>2. Cardinality(below(m)) = Cardinality(below(n))
    BY Zenon DEF Rank
  <1>3. m \in Nat /\ n \in Nat
    OBVIOUS
  <1> HIDE DEF below
  <1> QED
    BY <1>1, <1>2, <1>3

\* notifyLocked fills or extends the mailbox of every subscriber the notice is
\* for, touches no other one, and numbers the mailboxes anew by what they hold.
LEMMA NotifyKeeps ==
  ASSUME IInv, NEW u \in Update, NEW W \in SUBSET (Owner \cup {Broad}), Notify(u, W)
  PROVE  /\ updates' \in [Sub -> SUBSET Update]
         /\ \A s \in Sub : OneNotice(updates'[s])
         /\ nextMailboxID' \in Nat
         /\ mailboxID' \in [Sub -> Nat]
         /\ \A s \in Sub : mailboxID'[s] <= nextMailboxID'
         /\ SharedNoticesAreEqual'
         /\ \A s \in Sub \ Affected(u, W) : updates'[s] = updates[s]
         /\ \A s \in Affected(u, W) :
               \E v \in updates'[s] : \A d : \/ Covers(u, d)
                                             \/ \E w \in updates[s] : Covers(w, d)
                                             => Covers(v, d)
  <1> DEFINE S == Affected(u, W)
             id == nextMailboxID + 1
             N == NoticesOf(S)
             rank(m) == Cardinality({n \in N : n <= m})
             sample(m) == Pending(CHOOSE s \in Occupied(S) : mailboxID[s] = m)
  <1>1. /\ Typed /\ SharedNoticesAreEqual
        /\ S \subseteq Sub
    BY AffectedAreSubscribers, Zenon DEF IInv, Typed
  <1>2. /\ nextMailboxID \in Nat /\ mailboxID \in [Sub -> Nat]
        /\ \A s \in Sub : mailboxID[s] \in Nat /\ mailboxID[s] <= nextMailboxID
        /\ \A s \in Sub : OneNotice(updates[s])
        /\ updates \in [Sub -> SUBSET Update]
    BY <1>1 DEF Typed
  <1>3. /\ updates' = [s \in Sub |-> IF s \notin S THEN updates[s]
                                     ELSE IF updates[s] = {} THEN {u}
                                     ELSE {Merge(sample(mailboxID[s]), u)}]
        /\ mailboxID' = [s \in Sub |-> IF s \notin S THEN mailboxID[s]
                                       ELSE IF updates[s] = {} THEN id
                                       ELSE id + rank(mailboxID[s])]
        /\ nextMailboxID' = id + Cardinality(N)
    BY Zenon DEF Notify
  <1>4. /\ N \in SUBSET Nat /\ IsFiniteSet(N) /\ Cardinality(N) \in Nat
        /\ \A s \in S : updates[s] # {} => mailboxID[s] \in N
    <2>1. N \in SUBSET Nat /\ \A n \in N : n <= nextMailboxID
      BY <1>1, <1>2 DEF NoticesOf, Occupied
    <2>2. \A s \in S : updates[s] # {} => mailboxID[s] \in N
      BY Zenon DEF NoticesOf, Occupied
    <2> HIDE DEF N
    <2>3. IsFiniteSet(N)
      BY <1>2, <2>1, FS_BoundedSetOfNaturals
    <2> QED
      BY <2>1, <2>2, <2>3, FS_CardinalityType
  <1>5. ASSUME NEW m \in N
        PROVE  rank(m) \in Nat /\ 1 <= rank(m) /\ rank(m) <= Cardinality(N)
    <2> DEFINE B == {n \in N : n <= m}
    <2> HIDE DEF N
    <2>0. m \in Nat
      BY <1>4
    <2>1. B \in SUBSET N /\ m \in B
      BY <2>0
    <2>2. rank(m) = Cardinality(B)
      OBVIOUS
    <2> HIDE DEF B, rank
    <2>3. IsFiniteSet(B) /\ Cardinality(B) <= Cardinality(N)
      BY <1>4, <2>1, FS_Subset
    <2>4. Cardinality(B) \in Nat /\ Cardinality(B) # 0
      BY <2>1, <2>3, FS_CardinalityType, FS_EmptySet
    <2> QED
      BY <2>2, <2>3, <2>4
  <1>6. ASSUME NEW s \in S, updates[s] # {}
        PROVE  \E w \in Update : updates[s] = {w} /\ sample(mailboxID[s]) = w
    <2>1. PICK w \in Update : updates[s] = {w}
      BY <1>1, <1>2, <1>6 DEF OneNotice
    <2> DEFINE r == CHOOSE q \in Occupied(S) : mailboxID[q] = mailboxID[s]
    <2>2. r \in Occupied(S) /\ mailboxID[r] = mailboxID[s]
      BY <1>6, Zenon DEF Occupied
    <2>3. updates[r] = {w}
      BY <1>1, <1>6, <2>1, <2>2 DEF Occupied, SharedNoticesAreEqual
    <2>4. Pending(r) = w
      BY <2>3 DEF Pending
    <2> QED
      BY <2>1, <2>4, Zenon
  <1>a. ASSUME NEW m \in N, NEW n \in N, rank(m) = rank(n)
        PROVE  m = n
    <2> HIDE DEF N
    <2>1. N \subseteq Nat /\ IsFiniteSet(N)
      BY <1>4
    <2>2. Rank(N, m) = Rank(N, n)
      BY <1>a, Zenon DEF Rank
    <2> HIDE DEF rank
    <2> QED
      BY <2>1, <2>2, RankIsInjective
  <1> HIDE DEF N, rank, sample
  <1>7. ASSUME NEW s \in S
        PROVE  \E v \in Update :
                  /\ updates'[s] = {v}
                  /\ updates[s] = {} => v = u
                  /\ updates[s] # {} => v = Merge(sample(mailboxID[s]), u)
                  /\ \A d : \/ Covers(u, d) \/ \E w \in updates[s] : Covers(w, d)
                            => Covers(v, d)
    <2>1. CASE updates[s] = {}
      BY <1>1, <1>3, <1>7, <2>1, Zenon
    <2>2. CASE updates[s] # {}
      <3>1. PICK w \in Update : updates[s] = {w} /\ sample(mailboxID[s]) = w
        BY <1>6, <1>7, <2>2, Zenon
      <3>2. updates'[s] = {Merge(w, u)}
        BY <1>1, <1>3, <1>7, <2>2, <3>1, Zenon
      <3>3. Merge(w, u) \in Update
        BY MergeCovers, Zenon
      <3>4. \A d : Covers(u, d) \/ Covers(w, d) => Covers(Merge(w, u), d)
        BY MergeCovers, Zenon
      <3>5. \A x \in updates[s] : x = w
        BY <3>1
      <3>6. \A d : Covers(u, d) \/ (\E x \in updates[s] : Covers(x, d)) => Covers(Merge(w, u), d)
        BY <3>4, <3>5, Zenon
      <3>7. Merge(w, u) = Merge(sample(mailboxID[s]), u)
        BY <3>1, Zenon
      <3> HIDE DEF S
      <3> QED
        BY <2>2, <3>2, <3>3, <3>6, <3>7, Zenon
    <2> QED
      BY <2>1, <2>2
  <1>b. ASSUME NEW s \in S
        PROVE  /\ updates[s] = {} => updates'[s] = {u}
               /\ updates[s] # {} => updates'[s] = {Merge(sample(mailboxID[s]), u)}
    <2>1. PICK v : /\ updates'[s] = {v} /\ (updates[s] = {} => v = u)
                   /\ updates[s] # {} => v = Merge(sample(mailboxID[s]), u)
      BY <1>7, <1>b, Zenon
    <2> QED
      BY <2>1, Zenon
  <1>8. ASSUME NEW s \in Sub \ S PROVE updates'[s] = updates[s] /\ mailboxID'[s] = mailboxID[s]
    BY <1>3, <1>8, Zenon
  <1>9. ASSUME NEW s \in S
        PROVE  /\ mailboxID'[s] \in Nat
               /\ updates[s] = {} => mailboxID'[s] = id
               /\ updates[s] # {} => mailboxID'[s] = id + rank(mailboxID[s]) /\ id < mailboxID'[s]
               /\ nextMailboxID < mailboxID'[s] /\ mailboxID'[s] <= nextMailboxID'
    <2>1. CASE updates[s] = {}
      <3>1. mailboxID'[s] = id
        BY <1>1, <1>3, <1>9, <2>1, Zenon
      <3> QED
        BY <1>2, <1>3, <1>4, <2>1, <3>1
    <2>2. CASE updates[s] # {}
      <3>1. mailboxID'[s] = id + rank(mailboxID[s])
        BY <1>1, <1>3, <1>9, <2>2, Zenon
      <3>2. mailboxID[s] \in N
        BY <1>4, <1>9, <2>2
      <3>3. rank(mailboxID[s]) \in Nat /\ 1 <= rank(mailboxID[s]) /\ rank(mailboxID[s]) <= Cardinality(N)
        BY <1>5, <3>2
      <3> QED
        BY <1>2, <1>3, <1>4, <2>2, <3>1, <3>3
    <2> QED
      BY <2>1, <2>2
  <1> HIDE DEF S, id
  <1>10. ASSUME NEW s \in Sub, NEW r \in Sub, mailboxID'[s] = mailboxID'[r],
                updates'[s] # {}, updates'[r] # {}
         PROVE  updates'[s] = updates'[r]
    <2>1. CASE s \notin S /\ r \notin S
      BY <1>1, <1>8, <1>10, <2>1, Zenon DEF SharedNoticesAreEqual
    <2>2. CASE s \in S /\ r \notin S
      BY <1>2, <1>8, <1>9, <1>10, <2>2
    <2>3. CASE s \notin S /\ r \in S
      BY <1>2, <1>8, <1>9, <1>10, <2>3
    <2>4. CASE s \in S /\ r \in S
      <3>1. CASE updates[s] = {} /\ updates[r] = {}
        BY <1>b, <2>4, <3>1, Zenon
      <3>2. CASE ~(updates[s] = {} <=> updates[r] = {})
        <4>1. id \in Nat
          BY <1>2 DEF id
        <4> QED
          BY <1>9, <1>10, <2>4, <3>2, <4>1
      <3>3. CASE updates[s] # {} /\ updates[r] # {}
        <4>1. mailboxID[s] \in N /\ mailboxID[r] \in N /\ id \in Nat
          BY <1>2, <1>4, <2>4, <3>3 DEF id
        <4>2. rank(mailboxID[s]) \in Nat /\ rank(mailboxID[r]) \in Nat
          BY <1>5, <4>1
        <4>3. rank(mailboxID[s]) = rank(mailboxID[r])
          BY <1>9, <1>10, <2>4, <3>3, <4>1, <4>2
        <4>4. mailboxID[s] = mailboxID[r]
          BY <4>1, <4>3, <1>a, Zenon
        <4>5. /\ updates'[s] = {Merge(sample(mailboxID[s]), u)}
              /\ updates'[r] = {Merge(sample(mailboxID[r]), u)}
          BY <1>b, <2>4, <3>3, Zenon
        <4> QED
          BY <4>4, <4>5, Zenon
      <3> QED
        BY <3>1, <3>2, <3>3
    <2> QED
      BY <2>1, <2>2, <2>3, <2>4
  <1>11. nextMailboxID' \in Nat /\ nextMailboxID <= nextMailboxID'
    BY <1>2, <1>3, <1>4 DEF id
  <1>12. \A s \in Sub : mailboxID'[s] \in Nat /\ mailboxID'[s] <= nextMailboxID'
    <2> SUFFICES ASSUME NEW s \in Sub PROVE mailboxID'[s] \in Nat /\ mailboxID'[s] <= nextMailboxID'
      OBVIOUS
    <2>1. CASE s \in S
      BY <1>9, <2>1
    <2>2. CASE s \notin S
      BY <1>2, <1>8, <1>11, <2>2
    <2> QED
      BY <2>1, <2>2
  <1>13. \A s \in Sub : OneNotice(updates'[s])
    BY <1>2, <1>7, <1>8 DEF OneNotice
  <1>14. updates' \in [Sub -> SUBSET Update]
    BY <1>3, <1>13 DEF OneNotice
  <1>15. mailboxID' \in [Sub -> Nat]
    BY <1>3, <1>12
  <1>16. SharedNoticesAreEqual'
    BY <1>10, Zenon DEF SharedNoticesAreEqual
  <1>17. ASSUME NEW s \in S
         PROVE  \E v \in updates'[s] : \A d : \/ Covers(u, d) \/ \E w \in updates[s] : Covers(w, d)
                                              => Covers(v, d)
    BY <1>7, <1>17
  <1>18. \A s \in Sub \ S : updates'[s] = updates[s]
    BY <1>8
  <1> QED
    BY <1>11, <1>12, <1>13, <1>14, <1>15, <1>16, <1>17, <1>18, Zenon DEF S

-----------------------------------------------------------------------------
(* One lemma per operation *)

\* A notice that reaches and covers whatever becomes due keeps the invariant.
LEMMA NoticeKeeps ==
  ASSUME IInv, NEW u \in Update, NEW W \in SUBSET (Owner \cup {Broad}), NEW more, Notify(u, W),
         due' = Owed(more), UNCHANGED <<subscribers, types, names, index>>,
         owner' \in [SandboxKey -> Owner \cup {Broad}],
         \A s \in subscribers : \A d \in more[s] : s \in Affected(u, W) /\ Covers(u, d),
         \A s \in Sub \ subscribers : more[s] = {}
  PROVE  IInv'
  <1>1. Typed /\ FreshAreEmpty /\ IndexesMatch /\ NoticesAreComplete
    BY DEF IInv
  <1>2. /\ subscribers' = subscribers /\ types' = types /\ names' = names
        /\ byType' = byType /\ byWorkload' = byWorkload /\ byName' = byName
    BY DEF index
  <1>3. Affected(u, W) \subseteq subscribers /\ subscribers \subseteq Sub
    BY AffectedAreSubscribers, <1>1, Zenon DEF Typed
  <1>4. DOMAIN due' = Sub /\ \A s \in Sub : due'[s] = due[s] \cup more[s]
    BY DEF Owed
  <1>5. Typed'
    BY NotifyKeeps, <1>1, <1>2, <1>4 DEF Typed
  <1>6. FreshAreEmpty'
    <2> SUFFICES ASSUME NEW s \in Sub \ subscribers
                 PROVE  types[s] = {} /\ names[s] = {} /\ updates'[s] = {} /\ due'[s] = {}
      BY <1>2, Zenon DEF FreshAreEmpty
    <2>1. updates'[s] = updates[s]
      BY NotifyKeeps, <1>3, Zenon
    <2> QED
      BY <1>1, <1>4, <2>1 DEF FreshAreEmpty
  <1>7. IndexesMatch'
    BY <1>1, <1>2, Zenon DEF IndexesMatch
  <1>8. SharedNoticesAreEqual'
    BY NotifyKeeps, Zenon
  <1>9. NoticesAreComplete'
    <2> SUFFICES ASSUME NEW s \in subscribers, NEW d \in due'[s]
                 PROVE  \E v \in updates'[s] : Covers(v, d)
      BY <1>2, Zenon DEF NoticesAreComplete
    <2>1. d \in due[s] \/ d \in more[s]
      BY <1>3, <1>4
    <2>2. CASE s \in Affected(u, W)
      <3>1. PICK v \in updates'[s] : \A e : \/ Covers(u, e)
                                            \/ \E w \in updates[s] : Covers(w, e)
                                            => Covers(v, e)
        BY NotifyKeeps, <2>2, Zenon
      <3>2. Covers(u, d) \/ \E w \in updates[s] : Covers(w, d)
        BY <1>1, <2>1, Zenon DEF NoticesAreComplete
      <3> QED
        BY <3>1, <3>2, Zenon
    <2>3. CASE s \notin Affected(u, W)
      <3>1. updates'[s] = updates[s]
        BY NotifyKeeps, <1>3, <2>3, Zenon
      <3> QED
        BY <1>1, <2>1, <2>3, <3>1, Zenon DEF NoticesAreComplete
    <2> QED
      BY <2>2, <2>3
  <1> QED
    BY <1>5, <1>6, <1>7, <1>8, <1>9, Zenon DEF IInv

\* Apply, Replace and NotifyKeys reach every watcher of a changed resource.
LEMMA PublishKeeps ==
  ASSUME IInv, NEW S \in SUBSET Key, NEW after \in [SandboxKey -> Owner \cup {Broad}],
         Publish(S, after)
  PROVE  IInv'
  <1> DEFINE owners == [k \in S |-> IF k \in SandboxKey THEN {owner[k], after[k]} ELSE {}]
             W == UNION {owners[k] : k \in S}
             u == Indexed(S)
             more == Concerns(S, owners)
  <1>1. /\ Notify(u, W) /\ due' = Owed(more) /\ owner' = after
        /\ UNCHANGED <<subscribers, types, names, index>>
    BY Zenon DEF Publish
  <1>2. Typed /\ IndexesMatch
    BY DEF IInv
  <1>3. u \in Update
    BY DEF Indexed, Update, TypeOf, Type
  <1>4. W \in SUBSET (Owner \cup {Broad})
    <2> SUFFICES ASSUME NEW k \in S PROVE owners[k] \subseteq Owner \cup {Broad}
      BY Zenon
    <2> QED
      BY <1>2 DEF Typed
  <1>5. \A s \in Sub \ subscribers : more[s] = {}
    BY Zenon DEF Concerns
  <1>6. ASSUME NEW s \in subscribers, NEW d \in more[s]
        PROVE  s \in Affected(u, W) /\ Covers(u, d)
    <2>1. s \in Sub
      BY <1>2 DEF Typed
    <2>2. /\ d[1] \in types[s] /\ d[2] \in S /\ d[1] \in Type
          /\ \/ d[2] \in AddressKey /\ d[1] \in {"Address", "Workload"}
             \/ /\ d[2] \in SandboxKey /\ d[1] = "Sandbox"
                /\ \/ WorkloadOf[s] = Broad \/ d[2] \in names[s]
                   \/ WorkloadOf[s] \in owners[d[2]]
      <3>1. more[s] = {e \in types[s] \X S :
                \/ e[2] \in AddressKey /\ e[1] \in {"Address", "Workload"}
                \/ /\ e[2] \in SandboxKey /\ e[1] = "Sandbox"
                   /\ \/ WorkloadOf[s] = Broad \/ e[2] \in names[s]
                      \/ WorkloadOf[s] \in owners[e[2]]}
        BY <2>1, Zenon DEF Concerns
      <3>2. types[s] \subseteq Type
        BY <1>2, <2>1 DEF Typed
      <3> HIDE DEF more, owners
      <3> QED
        BY <1>6, <3>1, <3>2
    <2>3. /\ u.full = FALSE /\ u.fullTypes = {} /\ u.candidates = S
          /\ u.affected = {TypeOf(k) : k \in S} \cup
                          (IF S \cap AddressKey # {} THEN {"Workload"} ELSE {})
      BY DEF Indexed
    <2>4. d[2] # All
      BY <2>2, MailboxAssumption DEF All, Key
    <2> HIDE DEF u, owners, W, more
    <2>5. d[1] \in u.affected
      <3>1. CASE d[2] \in AddressKey
        BY <2>2, <2>3, <3>1, MailboxAssumption DEF TypeOf
      <3>2. CASE d[2] \notin AddressKey
        BY <2>2, <2>3, <3>2 DEF TypeOf
      <3> QED
        BY <3>1, <3>2
    <2>6. Covers(u, d)
      BY <2>2, <2>3, <2>4, <2>5 DEF Covers
    <2>7. ~FullFor(u, d[1]) /\ ~(u.full /\ u.fullTypes = {})
      BY <2>3 DEF FullFor
    <2>8. s \in IF d[1] = "Sandbox" /\ ~FullFor(u, d[1])
                THEN SandboxSubscribers(u.candidates, W) ELSE byType[d[1]]
      <3>1. CASE d[1] # "Sandbox"
        BY <1>2, <2>2, <3>1 DEF IndexesMatch
      <3>2. CASE d[1] = "Sandbox"
        <4>1. WorkloadOf[s] \in Owner \cup {Broad} /\ s \in byWorkload[WorkloadOf[s]]
          BY <1>2, <2>1, <2>2, <3>2, MailboxAssumption, SMTT(40) DEF IndexesMatch
        <4>2. d[2] \in S \cap SandboxKey
          BY <2>2, <3>2
        <4>3. CASE WorkloadOf[s] = Broad
          BY <2>3, <2>7, <3>2, <4>1, <4>3 DEF SandboxSubscribers
        <4>4. CASE d[2] \in names[s]
          <5>1. s \in byName[d[2]]
            BY <1>2, <4>2, <4>4 DEF IndexesMatch
          <5> QED
            BY <2>3, <2>7, <3>2, <4>2, <5>1 DEF SandboxSubscribers
        <4>5. CASE WorkloadOf[s] # Broad /\ WorkloadOf[s] \in owners[d[2]]
          <5>1. WorkloadOf[s] \in W
            BY <4>2, <4>5 DEF W
          <5> QED
            BY <2>3, <2>7, <3>2, <4>1, <4>5, <5>1 DEF SandboxSubscribers
        <4> QED
          BY <2>2, <3>2, <4>3, <4>4, <4>5
      <3> QED
        BY <3>1, <3>2
    <2>9. s \in Affected(u, W)
      BY <2>5, <2>7, <2>8 DEF Affected
    <2> QED
      BY <2>6, <2>9
  <1> HIDE DEF u, W, more, owners
  <1> QED
    BY <1>1, <1>3, <1>4, <1>5, <1>6, NoticeKeeps, Zenon

\* Notify and NotifyType reach every watcher of a refreshed type.
LEMMA NotifyTypeKeeps ==
  ASSUME IInv, NEW T \in SUBSET Type, NotifyType(T)
  PROVE  IInv'
  <1> DEFINE u == [candidates |-> {}, affected |-> {}, full |-> TRUE, fullTypes |-> T]
             more == [s \in Sub |-> IF s \notin subscribers THEN {}
                                    ELSE {<<t, All>> : t \in IF T = {} THEN types[s]
                                                             ELSE types[s] \cap T}]
  <1>1. /\ Notify(u, {}) /\ due' = Owed(more)
        /\ UNCHANGED <<owner, subscribers, types, names, index>>
    BY Zenon DEF NotifyType
  <1>2. Typed /\ IndexesMatch
    BY DEF IInv
  <1>3. u \in Update /\ u.full = TRUE /\ u.fullTypes = T
    BY DEF Update
  <1>4. \A s \in Sub \ subscribers : more[s] = {}
    BY Zenon
  <1>5. ASSUME NEW s \in subscribers, NEW d \in more[s]
        PROVE  s \in Affected(u, {}) /\ Covers(u, d)
    <2>1. s \in Sub
      BY <1>2 DEF Typed
    <2>2. PICK t \in types[s] : d = <<t, All>> /\ (T = {} \/ t \in T)
      BY <1>5, <2>1
    <2>3. d[1] = t
      BY <2>2
    <2> HIDE DEF u, more
    <2>4. FullFor(u, t)
      BY <1>3, <2>2 DEF FullFor
    <2>7. Covers(u, d)
      BY <2>3, <2>4 DEF Covers
    <2>5. CASE T = {}
      BY <1>3, <2>5, <2>7 DEF Affected
    <2>6. CASE T # {}
      <3>1. t \in T /\ s \in byType[t]
        BY <1>2, <2>2, <2>6 DEF IndexesMatch
      <3> QED
        BY <1>3, <2>4, <2>6, <2>7, <3>1 DEF Affected
    <2> QED
      BY <2>5, <2>6
  <1>6. owner' \in [SandboxKey -> Owner \cup {Broad}]
    BY <1>1, <1>2 DEF Typed
  <1> HIDE DEF u, more
  <1> QED
    BY <1>1, <1>3, <1>4, <1>5, <1>6, NoticeKeeps

\* A new subscriber has an empty mailbox and watches nothing.
LEMMA SubscribeKeeps ==
  ASSUME IInv, NEW s \in Sub, Subscribe(s)
  PROVE  IInv'
  <1>1. Typed /\ FreshAreEmpty /\ IndexesMatch /\ SharedNoticesAreEqual /\ NoticesAreComplete
    BY DEF IInv
  <1>2. /\ s \notin subscribers /\ subscribers' = subscribers \cup {s}
        /\ owner' = owner /\ types' = types /\ names' = names /\ updates' = updates
        /\ mailboxID' = mailboxID /\ nextMailboxID' = nextMailboxID /\ due' = due
        /\ byType' = byType /\ byWorkload' = byWorkload /\ byName' = byName
    BY DEF Subscribe, index
  <1>3. types[s] = {} /\ names[s] = {} /\ due[s] = {}
    BY <1>1, <1>2 DEF FreshAreEmpty
  <1>4. Typed'
    BY <1>1, <1>2 DEF Typed
  <1>5. FreshAreEmpty'
    BY <1>1, <1>2 DEF FreshAreEmpty
  <1>6. IndexesMatch'
    BY <1>1, <1>2, <1>3 DEF IndexesMatch
  <1>7. SharedNoticesAreEqual'
    BY <1>1, <1>2, Zenon DEF SharedNoticesAreEqual
  <1>8. NoticesAreComplete'
    BY <1>1, <1>2, <1>3 DEF NoticesAreComplete
  <1> QED
    BY <1>4, <1>5, <1>6, <1>7, <1>8, Zenon DEF IInv

\* Watch moves the subscriber in the indexes as it changes what it asks for.
LEMMA WatchKeeps ==
  ASSUME IInv, NEW s \in Sub, NEW t \in Type, NEW N \in SUBSET SandboxKey, Watch(s, t, N)
  PROVE  IInv'
  <1> DEFINE named == t = "Sandbox" /\ WorkloadOf[s] # Broad /\ (N # {} \/ names[s] # {})
  <1>1. Typed /\ FreshAreEmpty /\ IndexesMatch /\ SharedNoticesAreEqual /\ NoticesAreComplete
    BY DEF IInv
  <1>2. /\ s \in subscribers /\ subscribers' = subscribers
        /\ owner' = owner /\ updates' = updates
        /\ mailboxID' = mailboxID /\ nextMailboxID' = nextMailboxID /\ due' = due
    BY DEF Watch
  <1>3. /\ names' = IF named THEN [names EXCEPT ![s] = N] ELSE names
        /\ byName' = [k \in SandboxKey |-> IF ~named THEN byName[k]
                                           ELSE IF k \in N THEN byName[k] \cup {s}
                                           ELSE byName[k] \ {s}]
        /\ types' = [types EXCEPT ![s] = @ \cup {t}]
        /\ byType' = [byType EXCEPT ![t] = @ \cup {s}]
        /\ byWorkload' = IF t # "Sandbox" \/ t \in types[s] THEN byWorkload
                         ELSE [byWorkload EXCEPT ![WorkloadOf[s]] = @ \cup {s}]
    BY Zenon DEF Watch
  <1> HIDE DEF named
  <1>4. Typed'
    <2>1. types' \in [Sub -> SUBSET Type] /\ byType' \in [Type -> SUBSET Sub]
      BY <1>1, <1>3 DEF Typed
    <2>2. names' \in [Sub -> SUBSET SandboxKey] /\ byName' \in [SandboxKey -> SUBSET Sub]
      BY <1>1, <1>3 DEF Typed
    <2>3. byWorkload' \in [Owner \cup {Broad} -> SUBSET Sub]
      BY <1>1, <1>3, ZenonT(40) DEF Typed
    <2> QED
      BY <1>1, <1>2, <2>1, <2>2, <2>3 DEF Typed
  <1>5. FreshAreEmpty'
    BY <1>1, <1>2, <1>3 DEF FreshAreEmpty, Typed
  <1>6. IndexesMatch'
    <2>1. \A q \in Sub : types'[q] = IF q = s THEN types[s] \cup {t} ELSE types[q]
      BY <1>1, <1>3 DEF Typed
    <2>2. ASSUME NEW r \in Type PROVE byType'[r] = {q \in subscribers' : r \in types'[q]}
      <3>1. byType'[r] = IF r = t THEN byType[t] \cup {s} ELSE byType[r]
        BY <1>1, <1>3 DEF Typed
      <3>2. byType[r] = {q \in subscribers : r \in types[q]} /\ subscribers \subseteq Sub
        BY <1>1 DEF IndexesMatch, Typed
      <3> QED
        BY <1>2, <2>1, <3>1, <3>2
    <2>3. ASSUME NEW w \in Owner \cup {Broad}
          PROVE  byWorkload'[w] = {q \in subscribers' : "Sandbox" \in types'[q] /\ WorkloadOf[q] = w}
      <3>1. /\ byWorkload[w] = {q \in subscribers : "Sandbox" \in types[q] /\ WorkloadOf[q] = w}
            /\ subscribers \subseteq Sub
        BY <1>1 DEF IndexesMatch, Typed
      <3>2. CASE t # "Sandbox" \/ t \in types[s]
        BY <1>2, <1>3, <2>1, <3>1, <3>2
      <3>3. CASE ~(t # "Sandbox" \/ t \in types[s])
        <4>1. byWorkload'[w] = IF w = WorkloadOf[s] THEN byWorkload[w] \cup {s} ELSE byWorkload[w]
          BY <1>1, <1>3, <3>3 DEF Typed
        <4> QED
          BY <1>2, <2>1, <3>1, <3>3, <4>1
      <3> QED
        BY <3>2, <3>3
    <2>4. ASSUME NEW k \in SandboxKey PROVE byName'[k] = {q \in subscribers' : k \in names'[q]}
      <3>1. byName[k] = {q \in subscribers : k \in names[q]} /\ subscribers \subseteq Sub
        BY <1>1 DEF IndexesMatch, Typed
      <3>2. CASE named
        <4>1. \A q \in Sub : names'[q] = IF q = s THEN N ELSE names[q]
          BY <1>1, <1>3, <3>2 DEF Typed
        <4>2. byName'[k] = IF k \in N THEN byName[k] \cup {s} ELSE byName[k] \ {s}
          BY <1>3, <3>2
        <4> QED
          BY <1>2, <3>1, <4>1, <4>2
      <3>3. CASE ~named
        BY <1>2, <1>3, <3>1, <3>3
      <3> QED
        BY <3>2, <3>3
    <2> QED
      BY <2>2, <2>3, <2>4, Zenon DEF IndexesMatch
  <1>7. SharedNoticesAreEqual'
    BY <1>1, <1>2, Zenon DEF SharedNoticesAreEqual
  <1>8. NoticesAreComplete'
    BY <1>1, <1>2, Zenon DEF NoticesAreComplete
  <1> QED
    BY <1>4, <1>5, <1>6, <1>7, <1>8, Zenon DEF IInv

\* Unsubscribe leaves nothing of the subscriber behind.
LEMMA UnsubscribeKeeps ==
  ASSUME IInv, NEW s \in Sub, Unsubscribe(s)
  PROVE  IInv'
  <1>1. Typed /\ FreshAreEmpty /\ IndexesMatch /\ SharedNoticesAreEqual /\ NoticesAreComplete
    BY DEF IInv
  <1>2. /\ s \in subscribers /\ subscribers' = subscribers \ {s}
        /\ owner' = owner /\ nextMailboxID' = nextMailboxID
        /\ byType' = [t \in Type |-> byType[t] \ {s}]
        /\ byWorkload' = [byWorkload EXCEPT ![WorkloadOf[s]] = @ \ {s}]
        /\ byName' = [k \in SandboxKey |-> byName[k] \ {s}]
        /\ types' = [types EXCEPT ![s] = {}]
        /\ names' = [names EXCEPT ![s] = {}]
        /\ updates' = [updates EXCEPT ![s] = {}]
        /\ mailboxID' = [mailboxID EXCEPT ![s] = 0]
        /\ due' = [due EXCEPT ![s] = {}]
    BY Zenon DEF Unsubscribe
  <1>3. \A q \in Sub : /\ types'[q] = IF q = s THEN {} ELSE types[q]
                       /\ names'[q] = IF q = s THEN {} ELSE names[q]
                       /\ updates'[q] = IF q = s THEN {} ELSE updates[q]
                       /\ mailboxID'[q] = IF q = s THEN 0 ELSE mailboxID[q]
                       /\ due'[q] = IF q = s THEN {} ELSE due[q]
    BY <1>1, <1>2 DEF Typed
  <1>4. Typed'
    <2>1. /\ types' \in [Sub -> SUBSET Type] /\ names' \in [Sub -> SUBSET SandboxKey]
          /\ updates' \in [Sub -> SUBSET Update] /\ mailboxID' \in [Sub -> Nat]
          /\ DOMAIN due' = Sub
      BY <1>1, <1>2 DEF Typed
    <2>2. /\ byType' \in [Type -> SUBSET Sub] /\ byName' \in [SandboxKey -> SUBSET Sub]
          /\ byWorkload' \in [Owner \cup {Broad} -> SUBSET Sub]
      BY <1>1, <1>2 DEF Typed
    <2>3. \A q \in Sub : OneNotice(updates'[q]) /\ mailboxID'[q] <= nextMailboxID'
      BY <1>1, <1>2, <1>3 DEF Typed, OneNotice
    <2> QED
      BY <1>1, <1>2, <2>1, <2>2, <2>3 DEF Typed
  <1>5. FreshAreEmpty'
    BY <1>1, <1>2, <1>3, SMTT(40) DEF FreshAreEmpty
  <1>6. IndexesMatch'
    <2>0. subscribers \subseteq Sub /\ WorkloadOf \in [Sub -> Owner \cup {Broad}]
      BY <1>1, MailboxAssumption DEF Typed
    <2>1. \A t \in Type : byType'[t] = {q \in subscribers' : t \in types'[q]}
      BY <1>1, <1>2, <1>3, <2>0, SMTT(40) DEF IndexesMatch
    <2>2. ASSUME NEW w \in Owner \cup {Broad}
          PROVE  byWorkload'[w] = {q \in subscribers' : "Sandbox" \in types'[q] /\ WorkloadOf[q] = w}
      <3>1. byWorkload'[w] = IF w = WorkloadOf[s] THEN byWorkload[w] \ {s} ELSE byWorkload[w]
        BY <1>1, <1>2 DEF Typed
      <3>2. byWorkload[w] = {q \in subscribers : "Sandbox" \in types[q] /\ WorkloadOf[q] = w}
        BY <1>1 DEF IndexesMatch
      <3> QED
        BY <1>2, <1>3, <2>0, <3>1, <3>2, SMTT(40)
    <2>3. \A k \in SandboxKey : byName'[k] = {q \in subscribers' : k \in names'[q]}
      BY <1>1, <1>2, <1>3, <2>0, SMTT(40) DEF IndexesMatch
    <2> QED
      BY <2>1, <2>2, <2>3, Zenon DEF IndexesMatch
  <1>7. SharedNoticesAreEqual'
    BY <1>1, <1>3 DEF SharedNoticesAreEqual
  <1>8. NoticesAreComplete'
    BY <1>1, <1>2, <1>3 DEF NoticesAreComplete, Typed
  <1> QED
    BY <1>4, <1>5, <1>6, <1>7, <1>8, Zenon DEF IInv

\* Reading a mailbox empties it, and nothing is due before the next notice.
LEMMA ReceiveKeeps ==
  ASSUME IInv, NEW s \in Sub, Receive(s)
  PROVE  IInv'
  <1>1. Typed /\ FreshAreEmpty /\ IndexesMatch /\ SharedNoticesAreEqual /\ NoticesAreComplete
    BY DEF IInv
  <1>2. /\ subscribers' = subscribers /\ owner' = owner /\ types' = types /\ names' = names
        /\ mailboxID' = mailboxID /\ nextMailboxID' = nextMailboxID
        /\ byType' = byType /\ byWorkload' = byWorkload /\ byName' = byName
        /\ updates' = [updates EXCEPT ![s] = {}]
        /\ due' = [due EXCEPT ![s] = {}]
    BY DEF Receive, index
  <1>3. \A q \in Sub : /\ updates'[q] = IF q = s THEN {} ELSE updates[q]
                       /\ due'[q] = IF q = s THEN {} ELSE due[q]
    BY <1>1, <1>2 DEF Typed
  <1>4. Typed'
    BY <1>1, <1>2, <1>3 DEF Typed, OneNotice
  <1>5. FreshAreEmpty'
    BY <1>1, <1>2, <1>3 DEF FreshAreEmpty
  <1>6. IndexesMatch'
    BY <1>1, <1>2, Zenon DEF IndexesMatch
  <1>7. SharedNoticesAreEqual'
    BY <1>1, <1>2, <1>3 DEF SharedNoticesAreEqual
  <1>8. NoticesAreComplete'
    BY <1>1, <1>2, <1>3 DEF NoticesAreComplete, Typed
  <1> QED
    BY <1>4, <1>5, <1>6, <1>7, <1>8, Zenon DEF IInv

-----------------------------------------------------------------------------
(* The theorems *)

\* Every step keeps the invariant.
LEMMA NextKeeps == IInv /\ [Next]_vars => IInv'
  <1> SUFFICES ASSUME IInv, [Next]_vars PROVE IInv'
    OBVIOUS
  <1>1. CASE UNCHANGED vars
    <2>1. Typed' /\ FreshAreEmpty'
      BY <1>1 DEF vars, index, IInv, Typed, FreshAreEmpty
    <2>2. IndexesMatch'
      BY <1>1, Zenon DEF vars, index, IInv, IndexesMatch
    <2>3. SharedNoticesAreEqual'
      BY <1>1 DEF vars, index, IInv, SharedNoticesAreEqual
    <2>4. NoticesAreComplete'
      BY <1>1 DEF vars, index, IInv, NoticesAreComplete
    <2> QED
      BY <2>1, <2>2, <2>3, <2>4, Zenon DEF IInv
  <1>2. ASSUME NEW S \in SUBSET Key, NEW after \in [SandboxKey -> Owner \cup {Broad}],
               Publish(S, after)
        PROVE  IInv'
    BY <1>2, PublishKeeps, Zenon
  <1>3. ASSUME NEW T \in {{}, {"Secret"}}, NotifyType(T) PROVE IInv'
    <2>1. T \in SUBSET Type
      BY DEF Type
    <2> QED
      BY <1>3, <2>1, NotifyTypeKeeps, Zenon
  <1>4. ASSUME NEW s \in Sub, NEW t \in Watchable, Watch(s, t, {}) PROVE IInv'
    <2>1. t \in Type /\ {} \in SUBSET SandboxKey
      BY MailboxAssumption DEF Type
    <2> QED
      BY <1>4, <2>1, WatchKeeps, Zenon
  <1>5. ASSUME NEW s \in Sub, NEW N \in SUBSET SandboxKey, Watch(s, "Sandbox", N) PROVE IInv'
    <2>1. "Sandbox" \in Type
      BY DEF Type
    <2> QED
      BY <1>5, <2>1, WatchKeeps, Zenon
  <1>6. ASSUME NEW s \in Sub, Subscribe(s) \/ Unsubscribe(s) \/ Receive(s) PROVE IInv'
    BY <1>6, SubscribeKeeps, UnsubscribeKeeps, ReceiveKeeps, Zenon
  <1> QED
    BY <1>1, <1>2, <1>3, <1>4, <1>5, <1>6, Zenon DEF Next

\* The invariant holds in every state of every behaviour.
LEMMA Invariance == Spec => []IInv
  BY InitIInv, NextKeeps, PTL DEF Spec

\* However subscribers come, watch, ask for other names and go, the indexes by
\* type, workload and name hold exactly the registered subscribers they should.
THEOREM IndexesAreExact == Spec => []IndexesMatch
  <1>1. IInv => IndexesMatch
    BY DEF IInv
  <1> QED
    BY <1>1, Invariance, PTL

\* notifyLocked may merge a notice once for all mailboxes with the same ID.
THEOREM SharingIsSound == Spec => []SharedNoticesAreEqual
  <1>1. IInv => SharedNoticesAreEqual
    BY DEF IInv
  <1> QED
    BY <1>1, Invariance, PTL

\* A mailbox of one notice is enough: whatever was published or refreshed and
\* not read yet is covered by it, for any number of subscribers and resources.
THEOREM NoChangeIsMissed == Spec => []NoticesAreComplete
  <1>1. IInv => NoticesAreComplete
    BY DEF IInv
  <1> QED
    BY <1>1, Invariance, PTL
=============================================================================
