------------------------ MODULE PorterDiscoveryProofs ------------------------
(*****************************************************************************)
(* Proofs about PorterDiscovery, for any callers, names, limits and responses: *)
(* the LRU list; the operations on the state under the mutex as one value;   *)
(* the inductive invariant, kept by one lemma per action; the theorems.      *)
(*****************************************************************************)
EXTENDS PorterDiscovery, SetFacts, TLAPS

-----------------------------------------------------------------------------
(* The LRU list *)

\* q lists the names of A, each once.
List(q, A) == q \in Seq(Demanded) /\ Range(q) = A /\ IsInjective(q)

LEMMA ListIntro ==
  ASSUME NEW n \in Nat, NEW q, NEW A, q \in [1 .. n -> Demanded],
         \A i \in 1 .. n : q[i] \in A,
         \A a \in A : \E i \in 1 .. n : q[i] = a,
         \A i, j \in 1 .. n : q[i] = q[j] => i = j
  PROVE  List(q, A) /\ Len(q) = n
  <1>1. q \in Seq(Demanded) /\ DOMAIN q = 1 .. n
    OBVIOUS
  <1>2. Len(q) = n
    BY <1>1
  <1>3. Range(q) = A
    BY <1>1 DEF Range
  <1>4. IsInjective(q)
    BY <1>1 DEF IsInjective
  <1> QED
    BY <1>1, <1>2, <1>3, <1>4 DEF List

LEMMA ListElim ==
  ASSUME NEW q, NEW A, List(q, A)
  PROVE  /\ q \in Seq(Demanded) /\ Len(q) \in Nat /\ DOMAIN q = 1 .. Len(q) /\ q \in [1 .. Len(q) -> Demanded]
         /\ \A i \in 1 .. Len(q) : q[i] \in A
         /\ \A a \in A : a \in Demanded /\ \E i \in 1 .. Len(q) : q[i] = a
         /\ \A i, j \in 1 .. Len(q) : q[i] = q[j] => i = j
  <1>1. q \in Seq(Demanded) /\ Len(q) \in Nat /\ DOMAIN q = 1 .. Len(q) /\ q \in [1 .. Len(q) -> Demanded]
    BY DEF List
  <1>2. /\ \A i \in 1 .. Len(q) : q[i] \in A
        /\ \A a \in A : a \in Demanded /\ \E i \in 1 .. Len(q) : q[i] = a
    BY <1>1 DEF List, Range
  <1>3. \A i, j \in 1 .. Len(q) : q[i] = q[j] => i = j
    BY <1>1 DEF List, IsInjective
  <1> QED
    BY <1>1, <1>2, <1>3

\* The place of an element among the kept ones.
Place(K, i) == Cardinality({h \in K : h < i})

LEMMA Onto ==
  ASSUME SetFacts, NEW S, NEW T, NEW f \in [S -> T], IsFiniteSet(T),
         \A s, t \in S : f[s] = f[t] => s = t, Cardinality(S) = Cardinality(T)
  PROVE  \A t \in T : \E s \in S : f[s] = t
  BY DEF SetFacts, InjectionsCount

LEMMA Places ==
  ASSUME SetFacts, NEW K, IsFiniteSet(K), K \subseteq Nat
  PROVE  /\ \A i \in K : Place(K, i) \in 0 .. Cardinality(K) - 1
         /\ \A i, j \in K : Place(K, i) = Place(K, j) => i = j
         /\ \A p \in 0 .. Cardinality(K) - 1 : \E i \in K : Place(K, i) = p
  <1> DEFINE below(i) == {h \in K : h < i}
             N == Cardinality(K)
  <1>1. N \in Nat
    BY DEF SetFacts, CardinalityIsNatural
  <1>2. ASSUME NEW i \in K PROVE Cardinality(below(i)) \in 0 .. N - 1
    <2>1. i \in Nat /\ ~(i < i)
      OBVIOUS
    <2>2. below(i) \in SUBSET K /\ i \notin below(i)
      BY <2>1
    <2> HIDE DEF below
    <2>3. IsFiniteSet(below(i)) /\ Cardinality(below(i)) <= N /\ Cardinality(below(i)) # N
      BY <2>2 DEF SetFacts, SubsetsCount
    <2>4. Cardinality(below(i)) \in Nat
      BY <2>3 DEF SetFacts, CardinalityIsNatural
    <2> HIDE DEF N
    <2> QED
      BY <1>1, <2>3, <2>4
  <1>3. ASSUME NEW a \in K, NEW b \in K, a < b PROVE Cardinality(below(a)) # Cardinality(below(b))
    <2>0. a \in Nat /\ b \in Nat
      BY <1>3
    <2>1. ASSUME NEW i \in K, i < a PROVE i < b
      <3>1. i \in Nat
        OBVIOUS
      <3> QED
        BY <1>3, <2>0, <2>1, <3>1
    <2>2. a \in below(b) /\ ~(a < a)
      BY <1>3, <2>0
    <2>3. below(a) \subseteq below(b) /\ a \notin below(a)
      BY <2>1, <2>2, Zenon
    <2>4. IsFiniteSet(below(b)) /\ below(a) \in SUBSET below(b)
      BY <2>3, below(b) \in SUBSET K DEF SetFacts, SubsetsCount
    <2> HIDE DEF below
    <2> QED
      BY <2>2, <2>3, <2>4 DEF SetFacts, SubsetsCount
  <1>4. \A i, j \in K : i \in Nat /\ j \in Nat
    OBVIOUS
  <1> DEFINE f == [i \in K |-> Cardinality(below(i))]
  <1> HIDE DEF below
  <1>5. ASSUME NEW i \in K, NEW j \in K, Cardinality(below(i)) = Cardinality(below(j)) PROVE i = j
    BY <1>3, <1>4, <1>5
  <1>6. f \in [K -> 0 .. N - 1] /\ \A i, j \in K : f[i] = f[j] => i = j
    BY <1>2, <1>5
  <1>7. IsFiniteSet(0 .. N - 1) /\ Cardinality(0 .. N - 1) = N
    <2> HIDE DEF N
    <2> QED
      BY <1>1 DEF SetFacts, IntervalsCount
  <1>8. \A p \in 0 .. N - 1 : \E i \in K : f[i] = p
    <2> DEFINE M == 0 .. N - 1
    <2>1. f \in [K -> M] /\ (\A i, j \in K : f[i] = f[j] => i = j)
      BY <1>6, Zenon
    <2>2. IsFiniteSet(M) /\ Cardinality(K) = Cardinality(M)
      BY <1>7 DEF N
    <2> HIDE DEF M, N
    <2>3. ASSUME NEW g \in [K -> M], \A i, j \in K : g[i] = g[j] => i = j
          PROVE  \A p \in M : \E i \in K : g[i] = p
      <3> HIDE DEF f
      <3> QED
        BY ONLY SetFacts, <2>2, <2>3, Onto
    <2>4. \A p \in M : \E i \in K : f[i] = p
      BY <2>1, <2>3, Zenon
    <2> QED
      BY <2>4 DEF M
  <1>9. \A p \in 0 .. N - 1 : \E i \in K : Cardinality(below(i)) = p
    BY <1>8, Zenon
  <1> QED
    BY <1>2, <1>5, <1>9 DEF below, Place

\* Without drops the names of ns.
LEMMA WithoutList ==
  ASSUME SetFacts, NEW q, NEW A, List(q, A), NEW G
  PROVE  List(Without(q, G), A \ G)
  <1> DEFINE K == {i \in DOMAIN q : q[i] \notin G}
             N == Cardinality(K)
             at(k) == CHOOSE i \in K : Place(K, i) = k - 1
             w == [k \in 1 .. N |-> q[at(k)]]
  <1>1. Without(q, G) = w
    BY DEF Without, Place
  <1>2. /\ Len(q) \in Nat /\ DOMAIN q = 1 .. Len(q)
        /\ \A i \in 1 .. Len(q) : q[i] \in A /\ q[i] \in Demanded
        /\ \A a \in A : a \in Demanded /\ \E i \in 1 .. Len(q) : q[i] = a
        /\ \A i, j \in 1 .. Len(q) : q[i] = q[j] => i = j
    BY ListElim
  <1>3. K \subseteq Nat /\ K \in SUBSET (1 .. Len(q)) /\ IsFiniteSet(K)
    <2>1. K \in SUBSET (1 .. Len(q))
      BY <1>2
    <2>2. IsFiniteSet(1 .. Len(q))
      BY <1>2 DEF SetFacts, IntervalsCount
    <2>3. K \subseteq Nat
      BY <1>2, <2>1
    <2> QED
      BY <2>1, <2>2, <2>3 DEF SetFacts, SubsetsCount
  <1>4. N \in Nat
    BY <1>3 DEF SetFacts, CardinalityIsNatural
  <1>5. \A i \in 1 .. Len(q) : i \in K <=> q[i] \notin G
    BY <1>2
  <1> HIDE DEF K, N
  <1>6. /\ \A i \in K : Place(K, i) \in 0 .. N - 1
        /\ \A i, j \in K : Place(K, i) = Place(K, j) => i = j
        /\ \A p \in 0 .. N - 1 : \E i \in K : Place(K, i) = p
    BY <1>3, Places, Zenon DEF N
  <1>7. ASSUME NEW k \in 1 .. N PROVE at(k) \in K /\ Place(K, at(k)) = k - 1
    <2>1. k - 1 \in 0 .. N - 1
      BY <1>4
    <2>2. \E i \in K : Place(K, i) = k - 1
      BY <1>6, <2>1
    <2> QED
      BY <2>2
  <1>8. ASSUME NEW i \in K PROVE \E k \in 1 .. N : at(k) = i
    <2> DEFINE k == Place(K, i) + 1
    <2>1. k \in 1 .. N /\ k - 1 = Place(K, i)
      BY <1>4, <1>6
    <2> HIDE DEF k
    <2> QED
      BY <1>6, <1>7, <2>1
  <1> HIDE DEF at
  <1>9. w \in [1 .. N -> Demanded] /\ \A k \in 1 .. N : w[k] = q[at(k)]
    BY <1>2, <1>3, <1>7, Zenon
  <1> HIDE DEF w
  <1>10. \A k \in 1 .. N : w[k] \in A \ G
    BY <1>2, <1>3, <1>5, <1>7, <1>9, Zenon
  <1>11. ASSUME NEW a \in A \ G PROVE \E k \in 1 .. N : w[k] = a
    <2>1. PICK i \in 1 .. Len(q) : q[i] = a
      BY <1>2
    <2>2. i \in K
      BY <1>5, <2>1
    <2> QED
      BY <1>8, <1>9, <2>1, <2>2
  <1>12. ASSUME NEW k \in 1 .. N, NEW l \in 1 .. N, w[k] = w[l] PROVE k = l
    <2>1. at(k) = at(l)
      <3>1. at(k) \in 1 .. Len(q) /\ at(l) \in 1 .. Len(q) /\ q[at(k)] = q[at(l)]
        BY <1>3, <1>7, <1>9, <1>12, Zenon
      <3> QED
        BY <1>2, <3>1
    <2>2. k - 1 = l - 1 /\ k \in Int /\ l \in Int
      BY <1>4, <1>7, <2>1
    <2> QED
      BY <2>2
  <1> QED
    BY <1>1, <1>4, <1>9, <1>10, <1>11, <1>12, ListIntro

LEMMA AppendList ==
    ASSUME NEW q, NEW A, List(q, A), NEW n \in Demanded, n \notin A
    PROVE  List(Append(q, n), A \cup {n})
  <1> DEFINE w == Append(q, n)
             L == Len(q)
             B == A \cup {n}
  <1>1. /\ L \in Nat
        /\ \A i \in 1 .. L : q[i] \in Demanded /\ q[i] \in A
        /\ \A a \in A : \E i \in 1 .. L : q[i] = a
        /\ \A i, j \in 1 .. L : q[i] = q[j] => i = j
    BY ListElim
  <1>2. /\ w = [i \in 1 .. L + 1 |-> w[i]] /\ w[L + 1] = n
        /\ \A i \in 1 .. L : w[i] = q[i]
    <2>1. q \in Seq(Demanded)
      BY DEF List
    <2>2. w \in Seq(Demanded) /\ Len(w) = L + 1
      BY <2>1
    <2>3. w[L + 1] = n /\ \A i \in 1 .. L : w[i] = q[i]
      BY <2>1
    <2> HIDE DEF w
    <2> QED
      BY <2>2, <2>3
  <1> HIDE DEF w, L
  <1>3. /\ L + 1 \in Nat /\ L + 1 \in 1 .. L + 1
        /\ \A i \in 1 .. L + 1 : i \in 1 .. L \/ i = L + 1
        /\ \A i \in 1 .. L : i \in 1 .. L + 1
    BY <1>1
  <1>4. \A i \in 1 .. L + 1 : w[i] \in Demanded /\ w[i] \in B
    BY <1>1, <1>2, <1>3, Zenon
  <1>5. \A a \in B : \E i \in 1 .. L + 1 : w[i] = a
    BY <1>1, <1>2, <1>3, Zenon
  <1>6. \A i, j \in 1 .. L + 1 : w[i] = w[j] => i = j
    BY <1>1, <1>2, <1>3, Zenon
  <1> HIDE DEF B
  <1>7. List(w, B)
    BY <1>2, <1>3, <1>4, <1>5, <1>6, ListIntro
  <1> QED
    BY <1>7 DEF w, B

-----------------------------------------------------------------------------
(* The state under the mutex, as a value *)

\* Its shape; an entry that is not held is NoEntry.
IsCache(s) == s = [entries |-> s.entries, resources |-> s.resources, dirty |-> s.dirty,
                   idle |-> s.idle, wake |-> s.wake, sent |-> s.sent,
                   passed |-> s.passed]
IsEntry(e) == /\ e = [held |-> e.held, users |-> e.users, outcome |-> e.outcome]
              /\ e.held \in BOOLEAN /\ e.users \in Int /\ (~e.held => e = NoEntry)
FunctionOn(S, f) == f = [x \in S |-> f[x]]
Typed(s) ==
    /\ IsCache(s)
    /\ FunctionOn(Demanded, s.entries) /\ (\A n \in Demanded : IsEntry(s.entries[n]))
    /\ FunctionOn(Resource, s.resources) /\ FunctionOn(Demanded, s.sent)
    /\ s.wake \in BOOLEAN

\* The interests the LRU list has, and what the invariants say of a value.
IdleNames(s) == {n \in Demanded : retained /\ s.entries[n].held /\ s.entries[n].users = 0}
Wanted(s) == \A r \in Resource : s.resources[r] # Absent => Interested(s, r, s.resources[r])
Carried(s) == \A n \in Held(s) :
    s.sent[n] = "this" \/ (n \in s.dirty /\ s.wake) \/ n \in s.passed
Fresh(s) == s.resources = Nothing /\ (\A n \in Held(s) : s.entries[n].outcome = Pending)

\* A step from s to t that loses none of these.
Keeps(s, t) == /\ Typed(t) /\ (Wanted(s) => Wanted(t)) /\ (Carried(s) => Carried(t))
               /\ (Fresh(s) => Fresh(t))

LEMMA KeepsTransitive ==
    ASSUME NEW s, NEW t, NEW u, Keeps(s, t), Keeps(t, u)
    PROVE  Keeps(s, u)
  BY Zenon DEF Keeps

LEMMA NoEntryFields ==
    /\ NoEntry.held = FALSE /\ NoEntry.users = 0 /\ NoEntry.outcome = Pending
    /\ Pending.is = "pending" /\ IsEntry(NoEntry)
  BY DEF NoEntry, IsEntry, Pending, Outcome

\* An entry that is held, with another outcome.
LEMMA OutcomeChanged ==
    ASSUME NEW f, IsEntry(f), f.held, NEW x
    PROVE  LET e == [f EXCEPT !.outcome = x]
           IN  e.held = f.held /\ e.users = f.users /\ e.outcome = x /\ IsEntry(e)
  <1> DEFINE e == [f EXCEPT !.outcome = x]
  <1>1. f = [held |-> f.held, users |-> f.users, outcome |-> f.outcome]
    BY DEF IsEntry
  <1>2. e = [held |-> f.held, users |-> f.users, outcome |-> x]
    <2>1. ASSUME NEW a, NEW b, NEW o, f = [held |-> a, users |-> b, outcome |-> o],
                 NEW g, g = [f EXCEPT !.outcome = x]
          PROVE  g = [held |-> a, users |-> b, outcome |-> x]
      BY ONLY <2>1
    <2> QED
      BY <1>1, <2>1, Zenon
  <1> HIDE DEF e
  <1>3. e.held = f.held /\ e.users = f.users /\ e.outcome = x
    BY <1>2
  <1>4. IsEntry(e)
    BY <1>2, <1>3, Zenon DEF IsEntry
  <1> QED
    BY <1>3, <1>4, Zenon DEF e

\* The fields of Retired and of RemoveEntries.
RetiredEntries(s, ns) == [n \in Demanded |-> IF n \in ns THEN NoEntry ELSE s.entries[n]]
RetiredSent(s, ns) ==
    [n \in Demanded |-> IF n \in ns /\ s.sent[n] = "this" THEN "older" ELSE s.sent[n]]

LEMMA RetiredFields ==
    ASSUME NEW s, IsCache(s), NEW ns
    PROVE  LET t == Retired(s, ns)
           IN  /\ IsCache(t) /\ t.entries = RetiredEntries(s, ns) /\ t.sent = RetiredSent(s, ns)
               /\ t.passed = s.passed \ ns
               /\ t.idle = Without(s.idle, ns) /\ t.resources = s.resources
               /\ t.dirty = s.dirty /\ t.wake = s.wake
  <1> DEFINE e == RetiredEntries(s, ns)
             q == Without(s.idle, ns)
             g == RetiredSent(s, ns)
             p == s.passed \ ns
  <1>1. Retired(s, ns) = [s EXCEPT !.entries = e, !.idle = q, !.sent = g, !.passed = p]
    BY Zenon DEF Retired, RetiredEntries, RetiredSent
  <1> HIDE DEF e, q, g, p
  <1>2. LET t == Retired(s, ns)
        IN  /\ IsCache(t) /\ t.entries = e /\ t.sent = g /\ t.idle = q /\ t.passed = p
            /\ t.resources = s.resources /\ t.dirty = s.dirty /\ t.wake = s.wake
    BY <1>1, Zenon DEF IsCache
  <1> QED
    BY <1>2, Zenon DEF e, q, g, p

LEMMA RemoveFields ==
    ASSUME NEW s, IsCache(s), NEW ns
    PROVE  LET t == RemoveEntries(s, ns)
           IN  /\ IsCache(t) /\ t.entries = RetiredEntries(s, ns) /\ t.sent = RetiredSent(s, ns)
               /\ t.passed = s.passed \ ns
               /\ t.idle = Without(s.idle, ns) /\ t.dirty = s.dirty \cup ns
               /\ t.wake = (s.wake \/ ns # {}) /\ FunctionOn(Resource, t.resources)
               /\ \A r \in Resource :
                     t.resources[r] = IF NamesOf(r, s.resources[r]) \cap ns # {}
                                         /\ ~Interested(t, r, s.resources[r])
                                      THEN Absent ELSE s.resources[r]
  <1> DEFINE kept == Retired(s, ns)
             res == [r \in Resource |->
                        IF NamesOf(r, kept.resources[r]) \cap ns # {}
                           /\ ~Interested(kept, r, kept.resources[r])
                        THEN Absent ELSE kept.resources[r]]
             t == RemoveEntries(s, ns)
             w == kept.wake \/ ns # {}
             d == kept.dirty \cup ns
  <1>1. /\ IsCache(kept) /\ kept.entries = RetiredEntries(s, ns) /\ kept.sent = RetiredSent(s, ns)
        /\ kept.passed = s.passed \ ns
        /\ kept.idle = Without(s.idle, ns) /\ kept.resources = s.resources
        /\ kept.dirty = s.dirty /\ kept.wake = s.wake
    BY RetiredFields, Zenon
  <1>2. t = [kept EXCEPT !.dirty = d, !.wake = w, !.resources = res]
    BY Zenon DEF RemoveEntries
  <1> HIDE DEF kept, res, w, d, t
  <1>3. /\ IsCache(t) /\ t.entries = kept.entries /\ t.sent = kept.sent /\ t.idle = kept.idle
        /\ t.dirty = d /\ t.wake = w /\ t.resources = res /\ t.passed = kept.passed
    BY <1>1, <1>2, Zenon DEF IsCache
  <1>4. \A r \in Resource : Interested(t, r, s.resources[r]) <=> Interested(kept, r, s.resources[r])
    BY <1>3, Zenon DEF Interested, Held
  <1>5. FunctionOn(Resource, res) /\ \A r \in Resource :
           res[r] = IF NamesOf(r, s.resources[r]) \cap ns # {} /\ ~Interested(t, r, s.resources[r])
                    THEN Absent ELSE s.resources[r]
    BY <1>1, <1>4, Zenon DEF res, FunctionOn
  <1> QED
    BY <1>1, <1>3, <1>5, Zenon DEF w, d, t

\* RemoveEntries ends the interests of ns and touches no other.
LEMMA RemoveKeeps ==
    ASSUME NEW s, Typed(s), NEW ns
    PROVE  LET t == RemoveEntries(s, ns)
           IN  /\ Keeps(s, t) /\ t.idle = Without(s.idle, ns)
               /\ \A n \in Demanded : /\ n \notin ns => t.entries[n] = s.entries[n]
                                      /\ n \in ns => t.entries[n] = NoEntry
  <1> DEFINE t == RemoveEntries(s, ns)
  <1>0. IsCache(s)
    BY DEF Typed
  <1>1. /\ IsCache(t) /\ t.entries = RetiredEntries(s, ns) /\ t.sent = RetiredSent(s, ns)
        /\ t.passed = s.passed \ ns
        /\ t.idle = Without(s.idle, ns) /\ t.dirty = s.dirty \cup ns
        /\ t.wake = (s.wake \/ ns # {}) /\ FunctionOn(Resource, t.resources)
    BY <1>0, RemoveFields
  <1>2. \A r \in Resource :
           t.resources[r] = IF NamesOf(r, s.resources[r]) \cap ns # {}
                               /\ ~Interested(t, r, s.resources[r])
                            THEN Absent ELSE s.resources[r]
    BY <1>0, RemoveFields, Zenon
  <1> HIDE DEF t
  <1>3. \A n \in Demanded : /\ n \notin ns => t.entries[n] = s.entries[n]
                            /\ n \in ns => t.entries[n] = NoEntry
    BY <1>1, Zenon DEF RetiredEntries
  <1>4. Typed(t)
    <2>1. FunctionOn(Demanded, t.entries) /\ FunctionOn(Demanded, t.sent)
      BY <1>1, Zenon DEF FunctionOn, RetiredEntries, RetiredSent
    <2>2. \A n \in Demanded : IsEntry(t.entries[n])
      BY <1>3, NoEntryFields, Zenon DEF Typed
    <2>3. t.wake \in BOOLEAN
      BY <1>1 DEF Typed
    <2> QED
      BY <1>1, <2>1, <2>2, <2>3, Zenon DEF Typed
  <1>5. Held(t) = Held(s) \ ns
    <2>1. \A n \in Demanded : t.entries[n].held <=> n \notin ns /\ s.entries[n].held
      BY <1>3, NoEntryFields, Zenon
    <2> QED
      BY <2>1, Zenon DEF Held
  <1>6. ASSUME Wanted(s) PROVE Wanted(t)
    <2> SUFFICES ASSUME NEW r \in Resource, t.resources[r] # Absent
                 PROVE  Interested(t, r, t.resources[r])
      BY DEF Wanted
    <2>1. t.resources[r] = s.resources[r]
      BY <1>2, Zenon
    <2>2. CASE NamesOf(r, s.resources[r]) \cap ns # {}
      BY <1>2, <2>1, <2>2, Zenon
    <2>3. CASE NamesOf(r, s.resources[r]) \cap ns = {}
      <3>1. Interested(s, r, s.resources[r])
        BY <1>6, <2>1, Zenon DEF Wanted
      <3> QED
        BY <1>5, <2>1, <2>3, <3>1, Zenon DEF Interested
    <2> QED
      BY <2>2, <2>3, Zenon
  <1>7. ASSUME Carried(s) PROVE Carried(t)
    <2> SUFFICES ASSUME NEW n \in Held(t)
                 PROVE  t.sent[n] = "this" \/ (n \in t.dirty /\ t.wake) \/ n \in t.passed
      BY Zenon DEF Carried
    <2>1. n \in Held(s) /\ n \notin ns /\ n \in Demanded
      BY <1>5, Zenon DEF Held
    <2>2. t.sent[n] = s.sent[n]
      BY <1>1, <2>1, Zenon DEF RetiredSent
    <2>3. s.sent[n] = "this" \/ (n \in s.dirty /\ s.wake) \/ n \in s.passed
      BY <1>7, <2>1, Zenon DEF Carried
    <2> QED
      BY <1>1, <2>1, <2>2, <2>3, Zenon
  <1>8. ASSUME Fresh(s) PROVE Fresh(t)
    <2>1. \A r \in Resource : t.resources[r] = Absent
      BY <1>2, <1>8, Zenon DEF Fresh, Nothing
    <2>2. t.resources = Nothing
      BY <1>1, <2>1, Zenon DEF FunctionOn, Nothing
    <2>3. \A n \in Held(t) : n \in Held(s) /\ t.entries[n] = s.entries[n]
      BY <1>3, <1>5, Zenon DEF Held
    <2> QED
      BY <1>8, <2>2, <2>3, Zenon DEF Fresh
  <1> QED
    BY <1>1, <1>3, <1>4, <1>6, <1>7, <1>8, Zenon DEF Keeps, t

\* The LRU list after RemoveEntries, when it was right but for names of ns.
LEMMA RemoveLists ==
    ASSUME SetFacts, NEW s, Typed(s), NEW ns, NEW A, List(s.idle, A), A \ ns = IdleNames(s) \ ns
    PROVE  LET t == RemoveEntries(s, ns) IN List(t.idle, IdleNames(t))
  <1> DEFINE t == RemoveEntries(s, ns)
  <1>1. /\ t.idle = Without(s.idle, ns)
        /\ \A n \in Demanded : /\ n \notin ns => t.entries[n] = s.entries[n]
                               /\ n \in ns => t.entries[n] = NoEntry
    BY RemoveKeeps
  <1> HIDE DEF t
  <1>2. IdleNames(t) = IdleNames(s) \ ns
    <2>1. \A n \in Demanded : n \in IdleNames(t) <=> n \in IdleNames(s) \ ns
      BY <1>1, NoEntryFields, Zenon DEF IdleNames
    <2>2. IdleNames(t) \subseteq Demanded /\ IdleNames(s) \subseteq Demanded
      BY Zenon DEF IdleNames
    <2> QED
      BY <2>1, <2>2, Zenon
  <1>3. List(Without(s.idle, ns), A \ ns)
    BY WithoutList, Zenon
  <1> QED
    BY <1>1, <1>2, <1>3, Zenon DEF t

\* prune ends interests without users only: those of the LRU list.
LEMMA PruneKeeps ==
    ASSUME SetFacts, NEW s, Typed(s), List(s.idle, IdleNames(s)), NEW k
    PROVE  LET t == Prune(s, k)
           IN  /\ Keeps(s, t) /\ List(t.idle, IdleNames(t))
               /\ \A n \in Demanded : t.entries[n] = s.entries[n]
                                         \/ (t.entries[n] = NoEntry /\ s.entries[n].users = 0)
  <1>1. PICK N : Prune(s, k) =
                    RemoveEntries(s, {s.idle[i] : i \in {j \in DOMAIN s.idle : j <= N}})
    BY Zenon DEF Prune
  <1> DEFINE ns == {s.idle[i] : i \in {j \in DOMAIN s.idle : j <= N}}
             t == RemoveEntries(s, ns)
  <1>2. ns \subseteq IdleNames(s)
    BY Zenon DEF List, Range
  <1> HIDE DEF ns
  <1>3. /\ Keeps(s, t) /\ t.idle = Without(s.idle, ns)
        /\ \A n \in Demanded : /\ n \notin ns => t.entries[n] = s.entries[n]
                               /\ n \in ns => t.entries[n] = NoEntry
    BY RemoveKeeps
  <1>4. \A n \in Demanded : t.entries[n] = s.entries[n]
                               \/ (t.entries[n] = NoEntry /\ s.entries[n].users = 0)
    BY <1>2, <1>3, Zenon DEF IdleNames
  <1>5. List(t.idle, IdleNames(t))
    BY RemoveLists, Zenon
  <1>6. t = Prune(s, k)
    BY <1>1, Zenon DEF ns
  <1> HIDE DEF t
  <1> QED
    BY <1>3, <1>4, <1>5, <1>6, Zenon

\* The end of acquire: one more user of n, which leaves the LRU list and, when it
\* is new, is marked for the body.
WithLease(s, n, o) ==
    [s EXCEPT !.entries[n] = [held |-> TRUE, users |-> @.users + 1,
                              outcome |-> IF s.entries[n].held THEN @.outcome ELSE o],
              !.idle = Without(@, {n}),
              !.dirty = IF s.entries[n].held THEN @ ELSE @ \cup {n},
              !.wake = @ \/ ~s.entries[n].held]

LEMMA LeaseKeeps ==
    ASSUME SetFacts, NEW s, Typed(s), List(s.idle, IdleNames(s)), NEW n \in Demanded,
           s.entries[n].users \in Nat, NEW o, NEW t, t = WithLease(s, n, o)
    PROVE  /\ Typed(t) /\ List(t.idle, IdleNames(t))
           /\ Wanted(s) => Wanted(t)
           /\ Carried(s) => Carried(t)
           /\ o = Pending /\ Fresh(s) => Fresh(t)
           /\ t.entries[n].users = s.entries[n].users + 1
           /\ \A m \in Demanded : m # n => t.entries[m] = s.entries[m]
  <1> DEFINE e == [held |-> TRUE, users |-> s.entries[n].users + 1,
                   outcome |-> IF s.entries[n].held THEN s.entries[n].outcome ELSE o]
             E == [s.entries EXCEPT ![n] = e]
             q == Without(s.idle, {n})
             d == IF s.entries[n].held THEN s.dirty ELSE s.dirty \cup {n}
             w == s.wake \/ ~s.entries[n].held
  <1>1. t = [s EXCEPT !.entries = E, !.idle = q, !.dirty = d, !.wake = w]
    BY DEF Typed, IsCache, WithLease
  <1>2. E[n] = e /\ FunctionOn(Demanded, E) /\ \A m \in Demanded : m # n => E[m] = s.entries[m]
    <2> HIDE DEF e
    <2> QED
      BY Zenon DEF Typed, FunctionOn
  <1>3. /\ e.held = TRUE /\ e.users = s.entries[n].users + 1 /\ e.users # 0
        /\ s.entries[n].held => e.outcome = s.entries[n].outcome
        /\ ~s.entries[n].held => e.outcome = o
        /\ IsEntry(e)
    BY DEF IsEntry
  <1>4. /\ w \in BOOLEAN /\ (s.wake => w) /\ (\A m \in s.dirty : m \in d)
        /\ ~s.entries[n].held => n \in d /\ w
    BY Zenon
  <1> HIDE DEF e, E, q, d, w
  <1>5. IsCache(t) /\ t.entries = E /\ t.idle = q /\ t.dirty = d /\ t.wake = w
        /\ t.resources = s.resources /\ t.sent = s.sent /\ t.passed = s.passed
    BY <1>1, Zenon DEF Typed, IsCache
  <1>6. Typed(t)
    BY <1>2, <1>3, <1>4, <1>5, Zenon DEF Typed
  <1>7. Held(t) = Held(s) \cup {n}
    <2>1. \A m \in Demanded : t.entries[m].held <=> m = n \/ s.entries[m].held
      BY <1>2, <1>3, <1>5, Zenon
    <2> QED
      BY <2>1, Zenon DEF Held
  <1>8. ASSUME Wanted(s) PROVE Wanted(t)
    BY <1>5, <1>7, <1>8, Zenon DEF Wanted, Interested
  <1>9. ASSUME Carried(s) PROVE Carried(t)
    <2> SUFFICES ASSUME NEW m \in Held(t)
                 PROVE  t.sent[m] = "this" \/ (m \in t.dirty /\ t.wake) \/ m \in t.passed
      BY Zenon DEF Carried
    <2>1. CASE m \in Held(s)
      <3>1. s.sent[m] = "this" \/ (m \in s.dirty /\ s.wake) \/ m \in s.passed
        BY <1>9, <2>1, Zenon DEF Carried
      <3> QED
        BY <1>4, <1>5, <3>1, Zenon
    <2>2. CASE m \notin Held(s)
      BY <1>4, <1>5, <1>7, <2>2, Zenon DEF Held
    <2> QED
      BY <2>1, <2>2, Zenon
  <1>10. ASSUME o = Pending, Fresh(s) PROVE Fresh(t)
    <2>1. \A m \in Held(t) : t.entries[m].outcome = Pending
      <3> SUFFICES ASSUME NEW m \in Held(t) PROVE t.entries[m].outcome = Pending
        OBVIOUS
      <3>1. m \in Held(s) => s.entries[m].outcome = Pending
        BY <1>10, Zenon DEF Fresh
      <3> QED
        BY <1>2, <1>3, <1>5, <1>7, <1>10, <3>1, Zenon DEF Held
    <2> QED
      BY <1>5, <1>10, <2>1, Zenon DEF Fresh
  <1>11. List(t.idle, IdleNames(t))
    <2>1. IdleNames(t) = IdleNames(s) \ {n}
      <3>1. \A m \in Demanded : m \in IdleNames(t) <=> m \in IdleNames(s) \ {n}
        BY <1>2, <1>3, <1>5, Zenon DEF IdleNames
      <3>2. IdleNames(t) \subseteq Demanded /\ IdleNames(s) \subseteq Demanded
        BY Zenon DEF IdleNames
      <3> QED
        BY <3>1, <3>2, Zenon
    <2>2. List(Without(s.idle, {n}), IdleNames(s) \ {n})
      BY WithoutList, Zenon
    <2> QED
      BY <1>5, <2>1, <2>2, Zenon DEF q
  <1> QED
    BY <1>2, <1>3, <1>5, <1>6, <1>8, <1>9, <1>10, <1>11, Zenon

\* An idle interest becomes the most recently used.
LEMMA UsedKeeps ==
    ASSUME SetFacts, NEW s, Typed(s), NEW n \in IdleNames(s), NEW A, List(s.idle, A),
           A \ {n} = IdleNames(s) \ {n}
    PROVE  LET t == Used(s, n)
           IN  Keeps(s, t) /\ t.entries = s.entries /\ List(t.idle, IdleNames(t))
  <1> DEFINE t == Used(s, n)
             q == Append(Without(s.idle, {n}), n)
  <1>1. t = [s EXCEPT !.idle = q]
    BY Zenon DEF Used
  <1>2. List(q, (A \ {n}) \cup {n})
    <2>1. List(Without(s.idle, {n}), A \ {n}) /\ n \in Demanded /\ n \notin A \ {n}
      BY WithoutList, Zenon DEF IdleNames
    <2> QED
      BY <2>1, AppendList, Zenon
  <1> HIDE DEF t, q
  <1>3. /\ IsCache(t) /\ t.idle = q /\ t.entries = s.entries /\ t.resources = s.resources
        /\ t.dirty = s.dirty /\ t.wake = s.wake /\ t.sent = s.sent /\ t.passed = s.passed
    BY <1>1, Zenon DEF Typed, IsCache
  <1>4. Held(t) = Held(s) /\ IdleNames(t) = IdleNames(s)
    BY <1>3, Zenon DEF Held, IdleNames
  <1>5. Typed(t)
    BY <1>3, Zenon DEF Typed
  <1>6. /\ Wanted(s) => Wanted(t)
        /\ Carried(s) => Carried(t)
        /\ Fresh(s) => Fresh(t)
    BY <1>3, <1>4, Zenon DEF Wanted, Interested, Carried, Fresh
  <1>7. (A \ {n}) \cup {n} = IdleNames(s)
    OBVIOUS
  <1> QED
    BY <1>2, <1>3, <1>4, <1>5, <1>6, <1>7, Zenon DEF Keeps, t

\* A user of n goes.
WithoutLease(s, n) == [s EXCEPT !.entries[n].users = @ - 1]

LEMMA ReleaseKeeps ==
    ASSUME NEW s, Typed(s), NEW n \in Demanded, s.entries[n].held, NEW t,
           t = WithoutLease(s, n)
    PROVE  /\ Keeps(s, t) /\ t.idle = s.idle /\ t.entries[n].held
           /\ t.entries[n].users = s.entries[n].users - 1
           /\ \A m \in Demanded : m # n => t.entries[m] = s.entries[m]
  <1> DEFINE f == s.entries[n]
             e == [f EXCEPT !.users = f.users - 1]
             E == [s.entries EXCEPT ![n] = e]
  <1>1. t = [s EXCEPT !.entries = E]
    BY DEF Typed, IsCache, WithoutLease
  <1>2. E[n] = e /\ FunctionOn(Demanded, E) /\ \A m \in Demanded : m # n => E[m] = s.entries[m]
    <2> HIDE DEF e
    <2> QED
      BY Zenon DEF Typed, FunctionOn
  <1>3. e.held = f.held /\ e.users = f.users - 1 /\ e.outcome = f.outcome /\ IsEntry(e)
    <2>1. IsEntry(f) /\ f.held
      BY Zenon DEF Typed
    <2> DEFINE u == f.users - 1
    <2>2. u \in Int /\ f = [held |-> f.held, users |-> f.users, outcome |-> f.outcome]
      BY <2>1 DEF IsEntry
    <2>3. e = [f EXCEPT !.users = u]
      OBVIOUS
    <2> HIDE DEF f, u, e
    <2>4. e = [held |-> f.held, users |-> u, outcome |-> f.outcome]
      BY <2>2, <2>3
    <2>5. e.held = f.held /\ e.users = u /\ e.outcome = f.outcome
      BY <2>4
    <2>6. IsEntry(e)
      BY <2>1, <2>2, <2>4, <2>5, Zenon DEF IsEntry
    <2> QED
      BY <2>5, <2>6, Zenon DEF u
  <1> HIDE DEF e, E
  <1>4. /\ IsCache(t) /\ t.entries = E /\ t.idle = s.idle /\ t.dirty = s.dirty /\ t.wake = s.wake
        /\ t.resources = s.resources /\ t.sent = s.sent /\ t.passed = s.passed
    BY <1>1, Zenon DEF Typed, IsCache
  <1>5. Typed(t)
    BY <1>2, <1>3, <1>4, Zenon DEF Typed
  <1>6. /\ \A m \in Demanded : /\ t.entries[m].held <=> s.entries[m].held
                               /\ t.entries[m].outcome = s.entries[m].outcome
        /\ Held(t) = Held(s)
    <2>1. \A m \in Demanded : /\ t.entries[m].held <=> s.entries[m].held
                              /\ t.entries[m].outcome = s.entries[m].outcome
      BY <1>2, <1>3, <1>4, Zenon
    <2> QED
      BY <2>1, Zenon DEF Held
  <1>7. \A m \in Held(t) : t.entries[m].outcome = s.entries[m].outcome
    BY <1>6, Zenon DEF Held
  <1>8. /\ Wanted(s) => Wanted(t)
        /\ Carried(s) => Carried(t)
        /\ Fresh(s) => Fresh(t)
    BY <1>4, <1>6, <1>7, Zenon DEF Wanted, Interested, Carried, Fresh
  <1> QED
    BY <1>2, <1>3, <1>4, <1>5, <1>6, <1>8, Zenon DEF Keeps

\* The same with a name for what it says.
Drops(s, n, t) == /\ Keeps(s, t) /\ t.idle = s.idle /\ t.entries[n].held
                  /\ t.entries[n].users = s.entries[n].users - 1
                  /\ \A m \in Demanded : m # n => t.entries[m] = s.entries[m]

LEMMA ReleaseDrops ==
    ASSUME NEW s, Typed(s), NEW n \in Demanded, s.entries[n].held
    PROVE  Drops(s, n, WithoutLease(s, n))
  <1>1. ASSUME NEW t, t = WithoutLease(s, n)
        PROVE  Drops(s, n, t)
    BY <1>1, ReleaseKeeps DEF Drops
  <1> QED
    BY <1>1, Zenon

-----------------------------------------------------------------------------
(* Leases *)

\* The callers that count as users of n, of callers k.
Leasing(k) == k.pc \in {"waiting", "holding"}
Leases(k, n) == {c \in Caller : k[c].name = n /\ Leasing(k[c])}
CallerState == [pc : {"idle", "waiting", "holding", "missing"}, name : Demanded]

LEMMA LeasesCount ==
    ASSUME SetFacts, NEW k, NEW n
    PROVE  IsFiniteSet(Leases(k, n)) /\ Cardinality(Leases(k, n)) \in Nat
  <1>1. Leases(k, n) \in SUBSET Caller
    BY DEF Leases
  <1>2. IsFiniteSet(Caller)
    BY PorterAssumption
  <1> QED
    BY <1>1, <1>2 DEF SetFacts, SubsetsCount, CardinalityIsNatural

\* One caller takes a lease on n, or gives one up.
LeasesBy(k, l, n, d) == /\ Cardinality(Leases(l, n)) = Cardinality(Leases(k, n)) + d
                        /\ \A m : m # n => Leases(l, m) = Leases(k, m)

LEMMA LeaseTaken ==
    ASSUME SetFacts, NEW k, NEW l, NEW c \in Caller, NEW n, ~Leasing(k[c]), Leasing(l[c]),
           l[c].name = n, \A d \in Caller : d # c => l[d] = k[d]
    PROVE  LeasesBy(k, l, n, 1)
  <1>1. Leases(l, n) = Leases(k, n) \cup {c} /\ c \notin Leases(k, n)
    BY DEF Leases
  <1>2. \A m : m # n => Leases(l, m) = Leases(k, m)
    BY DEF Leases
  <1>3. IsFiniteSet(Leases(k, n))
    BY LeasesCount
  <1> QED
    BY <1>1, <1>2, <1>3, Zenon DEF SetFacts, AddingCounts, LeasesBy

LEMMA LeaseDropped ==
    ASSUME SetFacts, NEW k, NEW l, NEW c \in Caller, NEW n, Leasing(k[c]), k[c].name = n,
           ~Leasing(l[c]), \A d \in Caller : d # c => l[d] = k[d]
    PROVE  LeasesBy(k, l, n, -1) /\ Cardinality(Leases(k, n)) # 0
  <1>1. Leases(l, n) = Leases(k, n) \ {c} /\ c \in Leases(k, n)
    BY DEF Leases
  <1>2. \A m : m # n => Leases(l, m) = Leases(k, m)
    BY DEF Leases
  <1>3. IsFiniteSet(Leases(k, n)) /\ Cardinality(Leases(k, n)) \in Nat
    BY LeasesCount
  <1>4. Cardinality(Leases(k, n) \ {c}) = Cardinality(Leases(k, n)) - 1
    BY <1>1, <1>3, Zenon DEF SetFacts, RemovingCounts
  <1>5. Cardinality(Leases(l, n)) \in Nat
    BY LeasesCount
  <1> QED
    BY <1>1, <1>2, <1>3, <1>4, <1>5 DEF LeasesBy

\* Callers that move on without taking a lease or giving one up.
LEMMA LeasesStay ==
    ASSUME NEW k, NEW l, \A c \in Caller : /\ Leasing(l[c]) <=> Leasing(k[c])
                                           /\ Leasing(k[c]) => l[c].name = k[c].name
    PROVE  \A n : Leases(l, n) = Leases(k, n)
  BY DEF Leases

-----------------------------------------------------------------------------
(* The inductive invariant *)

\* Users are counted; values of an earlier stream are gone until a response is
\* applied; from the reset at its establishment on the stream carries what is
\* held, or has passed it over.
Counted(s, k) == \A n \in Demanded : s.entries[n].users = Cardinality(Leases(k, n))
Sound(s, k) == /\ Typed(s) /\ Wanted(s) /\ List(s.idle, IdleNames(s))
               /\ k \in [Caller -> CallerState] /\ Counted(s, k)
IInv ==
    /\ Sound(Cache, callers)
    /\ ~synced => Fresh(Cache)
    /\ phase \in {"reset", "up"} => Carried(Cache)
    /\ phase = "up" => ~disconnected

LEMMA CacheFields ==
    /\ IsCache(Cache) /\ Cache.entries = entries /\ Cache.resources = resources
    /\ Cache.dirty = dirty /\ Cache.idle = idle /\ Cache.wake = wake
    /\ Cache.sent = sentGenerations /\ Cache.passed = passed
  BY Zenon DEF Cache, IsCache

LEMMA CommittedCache ==
    ASSUME NEW s, IsCache(s), Commit(s)
    PROVE  Cache' = s
  BY Zenon DEF Cache, Commit, IsCache

\* Counts are natural numbers.
LEMMA UsersCount ==
    ASSUME SetFacts, NEW s, NEW k, Sound(s, k), NEW n \in Demanded
    PROVE  s.entries[n].users \in Nat /\ s.entries[n].users = Cardinality(Leases(k, n))
  BY LeasesCount, Zenon DEF Sound, Counted

\* A step on the state under the mutex, the stream left alone.
LEMMA StepKeeps ==
    ASSUME IInv, NEW s, Commit(s), Sound(s, callers'), Fresh(Cache) /\ ~synced => Fresh(s),
           Carried(Cache) => Carried(s), UNCHANGED <<synced, link, stream>>
    PROVE  IInv'
  <1>1. Cache' = s
    BY CommittedCache, Zenon DEF Sound, Typed
  <1>2. /\ synced' = synced /\ disconnected' = disconnected /\ phase' = phase
    BY Zenon DEF link, stream
  <1>3. phase' \in {"reset", "up"} => Carried(s)
    BY <1>2, Zenon DEF IInv
  <1>4. ~synced' => Fresh(s)
    <2>1. ~synced => Fresh(Cache)
      BY DEF IInv
    <2>2. ~synced => Fresh(s)
      BY <2>1, Zenon
    <2> QED
      BY <1>2, <2>2
  <1>5. phase' = "up" => ~disconnected'
    BY <1>2, Zenon DEF IInv
  <1> QED
    BY <1>1, <1>3, <1>4, <1>5, Zenon DEF IInv

LEMMA SameCache ==
    ASSUME IInv, UNCHANGED cache, callers' \in [Caller -> CallerState],
           \A n : Leases(callers', n) = Leases(callers, n),
           UNCHANGED synced,
           phase' \in {"reset", "up"} => phase \in {"reset", "up"},
           phase' = "up" => ~disconnected'
    PROVE  IInv'
  <1>1. Cache' = Cache
    BY Zenon DEF Cache, cache
  <1>2. Sound(Cache, callers')
    BY Zenon DEF IInv, Sound, Counted
  <1>3. phase' \in {"reset", "up"} => Carried(Cache)
    BY Zenon DEF IInv
  <1>4. ~synced' => Fresh(Cache)
    BY Zenon DEF IInv
  <1> QED
    BY <1>1, <1>2, <1>3, <1>4, Zenon DEF IInv

LEMMA ServerKeeps ==
    ASSUME IInv, UNCHANGED clientVars
    PROVE  IInv'
  <1>1. /\ UNCHANGED cache /\ callers' = callers /\ synced' = synced /\ phase' = phase
        /\ disconnected' = disconnected
    BY Zenon DEF clientVars, link, stream
  <1> QED
    BY <1>1, SameCache, Zenon DEF IInv, Sound

LEMMA InitIInv ==
    ASSUME SetFacts, Init
    PROVE  IInv
  <1>1. Typed(Cache)
    <2>1. FunctionOn(Demanded, entries) /\ \A n \in Demanded : entries[n] = NoEntry
      BY Zenon DEF Init, FunctionOn
    <2>2. FunctionOn(Resource, resources) /\ FunctionOn(Demanded, sentGenerations)
      BY Zenon DEF Init, Nothing, NothingSubscribed, FunctionOn
    <2> QED
      BY <2>1, <2>2, CacheFields, NoEntryFields, Zenon DEF Init, Typed
  <1>2. \A n \in Demanded : entries[n] = NoEntry
    BY Zenon DEF Init
  <1>3. Held(Cache) = {} /\ IdleNames(Cache) = {}
    BY <1>2, CacheFields, NoEntryFields, Zenon DEF Held, IdleNames
  <1>4. Wanted(Cache)
    BY CacheFields, Zenon DEF Init, Wanted, Nothing
  <1>5. List(Cache.idle, IdleNames(Cache))
    <2>1. List(<< >>, {})
      BY DEF List, Range, IsInjective
    <2> QED
      BY <1>3, <2>1, CacheFields, Zenon DEF Init
  <1>6. callers \in [Caller -> CallerState] /\ \A c \in Caller : ~Leasing(callers[c])
    <2>1. Demanded # {}
      BY PorterAssumption
    <2>2. NoCaller \in CallerState /\ NoCaller.pc = "idle"
      BY <2>1 DEF NoCaller, CallerState
    <2> QED
      BY <2>2 DEF Init, Leasing
  <1>7. Counted(Cache, callers)
    <2>1. \A n : Leases(callers, n) = {}
      BY <1>6, Zenon DEF Leases
    <2>2. Cardinality({}) = 0
      BY DEF SetFacts, EmptySetCounts
    <2> QED
      BY <1>2, <2>1, <2>2, CacheFields, NoEntryFields, Zenon DEF Counted
  <1>8. Fresh(Cache)
    BY <1>3, CacheFields, Zenon DEF Fresh, Init
  <1>9. phase = "down"
    BY DEF Init
  <1> QED
    BY <1>1, <1>4, <1>5, <1>6, <1>7, <1>8, <1>9 DEF IInv, Sound

-----------------------------------------------------------------------------
(* Callers *)

\* A prune of a sound value.
LEMMA PruneSound ==
    ASSUME SetFacts, NEW s, NEW k, Sound(s, k), NEW j
    PROVE  Sound(Prune(s, j), k) /\ Keeps(s, Prune(s, j))
  <1> DEFINE t == Prune(s, j)
  <1>1. /\ Keeps(s, t) /\ List(t.idle, IdleNames(t))
        /\ \A n \in Demanded : t.entries[n] = s.entries[n]
                                  \/ (t.entries[n] = NoEntry /\ s.entries[n].users = 0)
    BY PruneKeeps DEF Sound
  <1> HIDE DEF t
  <1>2. \A n \in Demanded : t.entries[n].users = s.entries[n].users
    BY <1>1, NoEntryFields, Zenon
  <1>3. Counted(t, k)
    BY <1>2, Zenon DEF Sound, Counted
  <1> QED
    BY <1>1, <1>3, Zenon DEF Sound, Keeps, t

LEMMA AcquireKeeps ==
    ASSUME SetFacts, IInv, NEW c \in Caller, NEW n \in Demands[c], NEW j, Acquire(c, n, j)
    PROVE  IInv'
  <1> DEFINE s == Prune(Cache, j)
             o == Resolve(s.resources, synced, n)
             l == WithLease(s, n, o)
             t == Prune(l, 0)
  <1>0. n \in Demanded
    BY Zenon DEF Demanded
  <1>1. /\ Commit(t) /\ callers[c].pc = "idle"
        /\ callers' = [callers EXCEPT ![c] = [pc |-> "waiting", name |-> n]]
        /\ UNCHANGED <<synced, link, stream>>
    BY Zenon DEF Acquire, WithLease
  <1>2. Sound(s, callers) /\ Keeps(Cache, s)
    BY PruneSound, Zenon DEF IInv
  <1>3. ~synced => o = Pending
    BY DEF Resolve
  <1> HIDE DEF s, o
  <1>4. /\ s.entries[n].users \in Nat /\ Typed(s) /\ List(s.idle, IdleNames(s))
    BY <1>0, <1>2, UsersCount, Zenon DEF Sound
  <1>5. /\ Typed(l) /\ List(l.idle, IdleNames(l))
        /\ Wanted(s) => Wanted(l)
        /\ Carried(s) => Carried(l)
        /\ o = Pending /\ Fresh(s) => Fresh(l)
        /\ l.entries[n].users = s.entries[n].users + 1
        /\ \A m \in Demanded : m # n => l.entries[m] = s.entries[m]
    <2>1. l = WithLease(s, n, o)
      BY Zenon
    <2> HIDE DEF l
    <2> QED
      BY ONLY SetFacts, <1>0, <1>4, <2>1, LeaseKeeps, SMTT(30)
  <1> HIDE DEF l
  <1>6. callers' \in [Caller -> CallerState] /\ Counted(l, callers')
    <2> DEFINE k == [pc |-> "waiting", name |-> n]
    <2>1. k \in CallerState /\ Leasing(k) /\ k.name = n /\ ~Leasing(callers[c])
      BY <1>0, <1>1 DEF CallerState, Leasing
    <2> HIDE DEF k
    <2>2. /\ callers' \in [Caller -> CallerState] /\ callers'[c] = k
          /\ \A d \in Caller : d # c => callers'[d] = callers[d]
      BY <1>1, <2>1 DEF IInv, Sound, k
    <2>3. LeasesBy(callers, callers', n, 1)
      BY <2>1, <2>2, LeaseTaken
    <2>4. \A m \in Demanded : s.entries[m].users = Cardinality(Leases(callers, m))
      BY <1>2, Zenon DEF Sound, Counted
    <2>5. l.entries[n].users = Cardinality(Leases(callers', n))
      BY <1>0, <1>5, <2>3, <2>4, Zenon DEF LeasesBy
    <2>6. \A m \in Demanded : m # n => l.entries[m].users = Cardinality(Leases(callers', m))
      BY <1>5, <2>3, <2>4, Zenon DEF LeasesBy
    <2> QED
      BY <2>2, <2>5, <2>6, Zenon DEF Counted
  <1>7. Sound(l, callers')
    BY <1>2, <1>5, <1>6, Zenon DEF Sound
  <1>8. Sound(t, callers') /\ Keeps(l, t)
    BY <1>7, PruneSound
  <1> HIDE DEF t
  <1>9. /\ Fresh(Cache) /\ ~synced => Fresh(t)
        /\ Carried(Cache) => Carried(t)
    BY <1>2, <1>3, <1>5, <1>8, Zenon DEF Keeps
  <1> QED
    BY <1>1, <1>8, <1>9, StepKeeps

LEMMA ObserveKeeps ==
    ASSUME IInv, NEW c \in Caller, Observe(c)
    PROVE  IInv'
  <1>1. /\ UNCHANGED cache /\ synced' = synced /\ phase' = phase /\ disconnected' = disconnected
        /\ callers[c].pc = "waiting" /\ callers' = [callers EXCEPT ![c].pc = "holding"]
    BY Zenon DEF Observe, link, stream
  <1>2. callers \in [Caller -> CallerState]
    BY Zenon DEF IInv, Sound
  <1> DEFINE k == [callers[c] EXCEPT !.pc = "holding"]
  <1>3. k \in CallerState /\ k.pc = "holding" /\ k.name = callers[c].name
    BY <1>2 DEF CallerState
  <1> HIDE DEF k
  <1>4. /\ callers' \in [Caller -> CallerState] /\ callers'[c] = k
        /\ \A d \in Caller : d # c => callers'[d] = callers[d]
    BY <1>1, <1>2, <1>3 DEF k
  <1>5. \A d \in Caller : /\ Leasing(callers'[d]) <=> Leasing(callers[d])
                          /\ Leasing(callers[d]) => callers'[d].name = callers[d].name
    BY <1>1, <1>3, <1>4 DEF Leasing
  <1>6. \A n : Leases(callers', n) = Leases(callers, n)
    BY <1>5, LeasesStay
  <1> QED
    BY <1>1, <1>4, <1>6, SameCache DEF IInv

\* Lease::drop of a lease that counts, in its three outcomes.
LEMMA DropKeeps ==
    ASSUME SetFacts, IInv, NEW c \in Caller, NEW j, DropLease(c, j), callers[c].pc # "missing"
    PROVE  IInv'
  <1> DEFINE n == callers[c].name
             l == WithoutLease(Cache, n)
             t == IF l.entries[n].users > 0 \/ ~retained THEN l
                  ELSE IF callers[c].pc # "holding" THEN RemoveEntries(l, {n})
                  ELSE Prune(Used(l, n), j)
  <1>1. /\ Commit(t) /\ callers[c].pc # "idle" /\ callers' = [callers EXCEPT ![c] = NoCaller]
        /\ UNCHANGED <<synced, link, stream>>
    BY Zenon DEF DropLease, WithoutLease
  <1>2. callers \in [Caller -> CallerState] /\ Typed(Cache) /\ Wanted(Cache)
        /\ List(Cache.idle, IdleNames(Cache)) /\ Counted(Cache, callers)
    BY Zenon DEF IInv, Sound
  <1>3. n \in Demanded /\ Leasing(callers[c])
    BY <1>1, <1>2 DEF CallerState, Leasing
  <1>4. callers' \in [Caller -> CallerState] /\ LeasesBy(callers, callers', n, -1)
        /\ Cardinality(Leases(callers, n)) # 0
    <2>1. NoCaller \in CallerState /\ ~Leasing(NoCaller)
      BY <1>3 DEF NoCaller, CallerState, Leasing
    <2> HIDE DEF n
    <2>2. /\ callers' \in [Caller -> CallerState] /\ callers'[c] = NoCaller
          /\ \A d \in Caller : d # c => callers'[d] = callers[d]
      BY <1>1, <1>2, <2>1
    <2>3. LeasesBy(callers, callers', n, -1) /\ Cardinality(Leases(callers, n)) # 0
      BY <1>3, <2>1, <2>2, LeaseDropped DEF n
    <2> QED
      BY <2>2, <2>3
  <1> HIDE DEF n
  <1>5. /\ Cache.entries[n].users \in Nat /\ Cache.entries[n].users # 0 /\ Cache.entries[n].held
    <2>1. Cache.entries[n].users \in Nat /\ Cache.entries[n].users = Cardinality(Leases(callers, n))
      BY <1>3, UsersCount DEF IInv
    <2>2. IsEntry(Cache.entries[n])
      BY <1>2, <1>3, Zenon DEF Typed
    <2> QED
      BY <1>4, <2>1, <2>2, NoEntryFields, Zenon DEF IsEntry
  <1>6. /\ Keeps(Cache, l) /\ l.idle = Cache.idle /\ l.entries[n].held
        /\ l.entries[n].users = Cache.entries[n].users - 1
        /\ \A m \in Demanded : m # n => l.entries[m] = Cache.entries[m]
    <2>1. Drops(Cache, n, l)
      BY <1>2, <1>3, <1>5, ReleaseDrops, Zenon
    <2> HIDE DEF l
    <2> QED
      BY <2>1, Zenon DEF Drops
  <1> HIDE DEF l
  <1>7. Counted(l, callers')
    <2>1. l.entries[n].users = Cardinality(Leases(callers', n))
      <3>1. Cache.entries[n].users = Cardinality(Leases(callers, n))
        BY <1>2, <1>3 DEF Counted
      <3> QED
        BY <1>4, <1>5, <1>6, <3>1 DEF LeasesBy
    <2>2. \A m \in Demanded : m # n => l.entries[m].users = Cardinality(Leases(callers', m))
      BY <1>2, <1>4, <1>6, Zenon DEF LeasesBy, Counted
    <2> QED
      BY <2>1, <2>2, Zenon DEF Counted
  <1>8. /\ n \notin IdleNames(Cache) /\ IdleNames(l) \ {n} = IdleNames(Cache) \ {n}
        /\ IdleNames(Cache) \ {n} = IdleNames(Cache)
    <2>1. n \notin IdleNames(Cache)
      BY <1>5, Zenon DEF IdleNames
    <2>2. \A m \in Demanded : m # n => (m \in IdleNames(l) <=> m \in IdleNames(Cache))
      BY <1>6, Zenon DEF IdleNames
    <2>3. IdleNames(l) \subseteq Demanded /\ IdleNames(Cache) \subseteq Demanded
      BY Zenon DEF IdleNames
    <2> QED
      BY <2>1, <2>2, <2>3, Zenon
  <1>9. l.entries[n].users \in Nat
    BY <1>5, <1>6
  <1>10. Typed(l) /\ Wanted(l)
    BY <1>2, <1>6, Zenon DEF Keeps
  <1>11. CASE l.entries[n].users > 0 \/ ~retained
    <2>1. t = l
      BY <1>11
    <2>2. n \notin IdleNames(l)
      BY <1>9, <1>11 DEF IdleNames
    <2>3. List(l.idle, IdleNames(l))
      BY <1>2, <1>6, <1>8, <2>2, Zenon
    <2>4. Sound(l, callers')
      BY <1>4, <1>7, <1>10, <2>3, Zenon DEF Sound
    <2> QED
      BY <1>1, <1>6, <2>1, <2>4, StepKeeps DEF Keeps
  <1>12. CASE ~(l.entries[n].users > 0 \/ ~retained) /\ callers[c].pc # "holding"
    <2> DEFINE r == RemoveEntries(l, {n})
    <2>1. t = r
      BY <1>12
    <2>2. /\ Keeps(l, r)
          /\ \A m \in Demanded : /\ m \notin {n} => r.entries[m] = l.entries[m]
                                 /\ m \in {n} => r.entries[m] = NoEntry
      BY <1>10, RemoveKeeps
    <2>3. List(r.idle, IdleNames(r))
      BY <1>2, <1>6, <1>8, <1>10, RemoveLists
    <2> HIDE DEF r
    <2>4. l.entries[n].users = 0
      BY <1>9, <1>12
    <2>5. \A m \in Demanded : r.entries[m].users = l.entries[m].users
      BY <2>2, <2>4, NoEntryFields, Zenon
    <2>6. Sound(r, callers')
      BY <1>4, <1>7, <1>10, <2>2, <2>3, <2>5, Zenon DEF Sound, Keeps, Counted
    <2>7. Keeps(Cache, r)
      BY <1>6, <2>2, KeepsTransitive
    <2> QED
      BY <1>1, <2>1, <2>6, <2>7, StepKeeps DEF Keeps
  <1>13. CASE ~(l.entries[n].users > 0 \/ ~retained) /\ callers[c].pc = "holding"
    <2> DEFINE u == Used(l, n)
    <2>1. t = Prune(u, j)
      BY <1>13
    <2>2. n \in IdleNames(l)
      BY <1>3, <1>6, <1>9, <1>13 DEF IdleNames
    <2>3. Keeps(l, u) /\ u.entries = l.entries /\ List(u.idle, IdleNames(u))
      BY <1>2, <1>6, <1>8, <1>10, <2>2, UsedKeeps
    <2> HIDE DEF u
    <2>4. Sound(u, callers')
      BY <1>4, <1>7, <1>10, <2>3, Zenon DEF Sound, Keeps, Counted
    <2>5. Sound(Prune(u, j), callers') /\ Keeps(u, Prune(u, j))
      BY <2>4, PruneSound
    <2>6. Keeps(Cache, Prune(u, j))
      BY <1>6, <2>3, <2>5, KeepsTransitive
    <2> QED
      BY <1>1, <2>1, <2>5, <2>6, StepKeeps DEF Keeps
  <1> QED
    BY <1>11, <1>12, <1>13, Zenon

\* A lease on a generation that ended drops nothing.
LEMMA DropMissingKeeps ==
    ASSUME IInv, NEW c \in Caller, NEW j, DropLease(c, j), callers[c].pc = "missing"
    PROVE  IInv'
  <1>1. /\ Commit(Cache) /\ callers' = [callers EXCEPT ![c] = NoCaller]
        /\ synced' = synced /\ phase' = phase /\ disconnected' = disconnected
    BY Zenon DEF DropLease, link, stream
  <1>2. UNCHANGED cache
    BY <1>1, CacheFields, Zenon DEF Commit, cache
  <1>3. callers \in [Caller -> CallerState]
    BY Zenon DEF IInv, Sound
  <1>4. callers[c].name \in Demanded /\ ~Leasing(callers[c])
    BY <1>3 DEF CallerState, Leasing
  <1>5. NoCaller \in CallerState /\ ~Leasing(NoCaller)
    BY <1>4 DEF NoCaller, CallerState, Leasing
  <1>6. /\ callers' \in [Caller -> CallerState] /\ callers'[c] = NoCaller
        /\ \A d \in Caller : d # c => callers'[d] = callers[d]
    BY <1>1, <1>3, <1>5
  <1>7. \A d \in Caller : /\ Leasing(callers'[d]) <=> Leasing(callers[d])
                          /\ Leasing(callers[d]) => callers'[d].name = callers[d].name
    BY <1>4, <1>5, <1>6, Zenon
  <1>8. \A n : Leases(callers', n) = Leases(callers, n)
    BY <1>7, LeasesStay
  <1> QED
    BY <1>1, <1>2, <1>6, <1>8, SameCache DEF IInv

LEMMA CachedHitKeeps ==
    ASSUME SetFacts, IInv, NEW n \in Demanded, NEW j, CachedHit(n, j)
    PROVE  IInv'
  <1> DEFINE s == Prune(Cache, j)
             u == Used(s, n)
             t == IF retained /\ s.entries[n].users = 0 THEN u ELSE s
  <1>1. /\ s.entries[n].outcome.is = "ready" /\ Commit(t) /\ callers' = callers
        /\ UNCHANGED <<synced, link, stream>>
    BY Zenon DEF CachedHit
  <1>2. Sound(s, callers) /\ Keeps(Cache, s)
    BY PruneSound, Zenon DEF IInv
  <1> HIDE DEF s
  <1>3. s.entries[n].held
    <2>1. IsEntry(s.entries[n])
      BY <1>2, Zenon DEF Sound, Typed
    <2>2. s.entries[n] # NoEntry
      BY <1>1, NoEntryFields, "ready" # "pending"
    <2> QED
      BY <2>1, <2>2, Zenon DEF IsEntry
  <1>4. CASE retained /\ s.entries[n].users = 0
    <2>1. n \in IdleNames(s)
      BY <1>3, <1>4, Zenon DEF IdleNames
    <2>2. Typed(s) /\ List(s.idle, IdleNames(s))
      BY <1>2, Zenon DEF Sound
    <2>3. Keeps(s, u) /\ u.entries = s.entries /\ List(u.idle, IdleNames(u))
      BY <2>1, <2>2, UsedKeeps
    <2>4. t = u
      BY <1>4
    <2> HIDE DEF u
    <2>5. Sound(u, callers')
      BY <1>1, <1>2, <2>3, Zenon DEF Sound, Keeps, Counted
    <2>6. Keeps(Cache, u)
      BY <1>2, <2>3, KeepsTransitive
    <2> QED
      BY <1>1, <2>4, <2>5, <2>6, StepKeeps DEF Keeps
  <1>5. CASE ~(retained /\ s.entries[n].users = 0)
    <2>1. t = s
      BY <1>5
    <2> QED
      BY <1>1, <1>2, <2>1, StepKeeps DEF Keeps
  <1> QED
    BY <1>4, <1>5, Zenon

LEMMA ExpireKeeps ==
    ASSUME SetFacts, IInv, NEW j, Expire(j)
    PROVE  IInv'
  <1>1. Commit(Prune(Cache, j)) /\ callers' = callers /\ UNCHANGED <<synced, link, stream>>
    BY Zenon DEF Expire
  <1>2. Sound(Prune(Cache, j), callers) /\ Keeps(Cache, Prune(Cache, j))
    BY PruneSound, Zenon DEF IInv
  <1> QED
    BY <1>1, <1>2, StepKeeps DEF Keeps

-----------------------------------------------------------------------------
(* Disconnection and the stream *)

\* reset_locked leaves the interests in use, pending and marked for the body.
ResetValue(used) ==
    LET kept == Retired(Cache, Demanded \ used)
    IN  [kept EXCEPT
           !.entries = [n \in Demanded |->
                           IF n \in used THEN [@[n] EXCEPT !.outcome = Pending] ELSE @[n]],
           !.resources = Nothing, !.dirty = used, !.wake = TRUE, !.passed = {}]

LEMMA ResetSound ==
    ASSUME SetFacts, IInv, ResetLocked
    PROVE  /\ Sound(Cache', callers') /\ Fresh(Cache') /\ Carried(Cache')
           /\ ~synced' /\ ~grace'
  <1> DEFINE used == {n \in Demanded : entries[n].users > 0}
             gone == Demanded \ used
             kept == Retired(Cache, gone)
             E == [n \in Demanded |-> IF n \in used THEN [kept.entries[n] EXCEPT !.outcome = Pending]
                                                    ELSE kept.entries[n]]
             t == ResetValue(used)
  <1>1. Commit(t) /\ callers' = callers /\ synced' = FALSE /\ grace' = FALSE
    BY Zenon DEF ResetLocked, ResetValue
  <1>2. t = [kept EXCEPT !.entries = E, !.resources = Nothing, !.dirty = used, !.wake = TRUE,
                         !.passed = {}]
    BY Zenon DEF ResetValue
  <1>3. /\ IsCache(kept) /\ kept.entries = RetiredEntries(Cache, gone)
        /\ kept.sent = RetiredSent(Cache, gone) /\ kept.idle = Without(Cache.idle, gone)
    BY CacheFields, RetiredFields
  <1>4. /\ Typed(Cache) /\ List(Cache.idle, IdleNames(Cache)) /\ Cache.entries = entries
        /\ callers \in [Caller -> CallerState]
        /\ \A n \in Demanded : /\ entries[n].users \in Nat /\ IsEntry(entries[n])
                               /\ entries[n].users = Cardinality(Leases(callers, n))
    BY CacheFields, UsersCount, Zenon DEF IInv, Sound, Typed
  <1>5. \A n \in Demanded : n \in used <=> entries[n].users # 0
    <2>1. \A x \in Nat : x > 0 <=> x # 0
      BY ONLY TRUE
    <2> QED
      BY <1>4, <2>1, Zenon
  <1> HIDE DEF kept, E, t, used
  <1>6. /\ IsCache(t) /\ t.entries = E /\ t.resources = Nothing /\ t.dirty = used /\ t.wake = TRUE
        /\ t.sent = kept.sent /\ t.idle = kept.idle
    BY <1>2, <1>3, Zenon DEF IsCache
  <1>7. \A n \in Demanded : n \notin used => t.entries[n] = NoEntry
    BY <1>3, <1>6, Zenon DEF E, RetiredEntries
  <1>8. ASSUME NEW n \in Demanded, n \in used
        PROVE  /\ t.entries[n].held = entries[n].held /\ t.entries[n].users = entries[n].users
               /\ t.entries[n].outcome = Pending /\ IsEntry(t.entries[n])
    <2> DEFINE f == entries[n]
               e == [f EXCEPT !.outcome = Pending]
    <2>1. t.entries[n] = e
      BY <1>3, <1>4, <1>6, <1>8, Zenon DEF E, RetiredEntries
    <2>2. IsEntry(f) /\ f # NoEntry
      BY <1>4, <1>5, <1>8, NoEntryFields, Zenon
    <2>3. e.held = f.held /\ e.users = f.users /\ e.outcome = Pending /\ IsEntry(e)
      <3> HIDE DEF f
      <3>1. f.held
        BY <2>2, Zenon DEF IsEntry
      <3> QED
        BY <2>2, <3>1, OutcomeChanged
    <2> QED
      BY <2>1, <2>3, Zenon
  <1>9. Held(t) \subseteq used
    BY <1>7, NoEntryFields, Zenon DEF Held
  <1>10. Typed(t)
    <2>1. FunctionOn(Demanded, t.entries) /\ FunctionOn(Demanded, t.sent)
          /\ FunctionOn(Resource, t.resources)
      BY <1>3, <1>6, Zenon DEF FunctionOn, E, RetiredSent, Nothing
    <2>2. \A n \in Demanded : IsEntry(t.entries[n])
      BY <1>7, <1>8, NoEntryFields, Zenon
    <2> QED
      BY <1>6, <2>1, <2>2, Zenon DEF Typed
  <1>11. Wanted(t) /\ Fresh(t) /\ Carried(t)
    <2>1. Wanted(t)
      BY <1>6, Zenon DEF Wanted, Nothing
    <2>2. \A n \in Held(t) : n \in Demanded /\ n \in used
      BY <1>9, Zenon DEF Held
    <2>3. Fresh(t)
      BY <1>6, <1>8, <2>2, Zenon DEF Fresh
    <2>4. Carried(t)
      BY <1>6, <2>2, Zenon DEF Carried
    <2> QED
      BY <2>1, <2>3, <2>4, Zenon
  <1>12. List(t.idle, IdleNames(t))
    <2>1. List(Without(Cache.idle, gone), IdleNames(Cache) \ gone)
      BY <1>4, WithoutList, Zenon
    <2>2. IdleNames(t) = {} /\ IdleNames(Cache) \ gone = {}
      <3>1. \A n \in Demanded : n \in used => n \notin IdleNames(t) /\ n \notin IdleNames(Cache)
        BY <1>4, <1>5, <1>8, Zenon DEF IdleNames
      <3>2. \A n \in Demanded : n \notin used => n \notin IdleNames(t)
        BY <1>7, NoEntryFields, Zenon DEF IdleNames
      <3>3. IdleNames(t) \subseteq Demanded /\ IdleNames(Cache) \subseteq Demanded
        BY Zenon DEF IdleNames
      <3> QED
        BY <3>1, <3>2, <3>3, Zenon
    <2> QED
      BY <1>3, <1>6, <2>1, <2>2, Zenon
  <1>13. Counted(t, callers)
    <2>1. \A n \in Demanded : t.entries[n].users = entries[n].users
      BY <1>5, <1>7, <1>8, NoEntryFields, Zenon
    <2> QED
      BY <1>4, <2>1, Zenon DEF Counted
  <1>14. Cache' = t
    BY <1>1, <1>6, CommittedCache, Zenon
  <1> QED
    BY <1>1, <1>4, <1>10, <1>11, <1>12, <1>13, <1>14 DEF Sound

\* The grace elapses, or the stream is established: with the first the stream
\* stays what it was.
LEMMA ResetKeeps ==
    ASSUME SetFacts, IInv, ExpireDisconnected \/ Establish
    PROVE  IInv'
  <1>1. ResetLocked /\ disconnected' = disconnected /\ (phase' = phase \/ phase' = "reset")
    BY Zenon DEF ExpireDisconnected, Establish, stream
  <1>2. Sound(Cache', callers') /\ Fresh(Cache') /\ Carried(Cache')
    BY <1>1, ResetSound
  <1>3. phase' = "up" => ~disconnected'
    BY <1>1, "reset" # "up" DEF IInv
  <1> QED
    BY <1>2, <1>3, Zenon DEF IInv

LEMMA LoseKeeps ==
    ASSUME IInv, Lose
    PROVE  IInv'
  <1>1. /\ phase' = "down" /\ sentGenerations' = NothingSubscribed
        /\ UNCHANGED <<entries, resources, dirty, idle, wake, callers, synced>>
    BY Zenon DEF Lose
  <1>2. /\ IsCache(Cache') /\ Cache'.entries = Cache.entries /\ Cache'.resources = Cache.resources
        /\ Cache'.idle = Cache.idle /\ Cache'.wake = Cache.wake
        /\ Cache'.sent = NothingSubscribed
    BY <1>1, Zenon DEF Cache, IsCache
  <1>3. Held(Cache') = Held(Cache) /\ IdleNames(Cache') = IdleNames(Cache)
    BY <1>2, Zenon DEF Held, IdleNames
  <1>4. FunctionOn(Demanded, NothingSubscribed)
    BY Zenon DEF NothingSubscribed, FunctionOn
  <1>5. Typed(Cache')
    BY <1>2, <1>4, Zenon DEF IInv, Sound, Typed
  <1>6. Wanted(Cache') /\ (~synced => Fresh(Cache'))
    BY <1>2, <1>3, Zenon DEF IInv, Sound, Wanted, Interested, Fresh
  <1>7. Sound(Cache', callers)
    BY <1>2, <1>3, <1>5, <1>6, Zenon DEF IInv, Sound, Counted
  <1> QED
    BY <1>1, <1>6, <1>7 DEF IInv

\* The steps of the stream that leave the entries and the cached resources alone.
LEMMA StreamKeeps ==
    ASSUME IInv, UNCHANGED <<entries, resources, idle, callers, synced>>, wake' \in BOOLEAN,
           FunctionOn(Demanded, sentGenerations'),
           phase' \in {"reset", "up"} => Carried(Cache'),
           phase' = "up" => ~disconnected'
    PROVE  IInv'
  <1>1. /\ IsCache(Cache') /\ Cache'.entries = Cache.entries /\ Cache'.resources = Cache.resources
        /\ Cache'.idle = Cache.idle /\ Cache'.wake = wake' /\ Cache'.sent = sentGenerations'
    BY Zenon DEF Cache, IsCache
  <1>2. Held(Cache') = Held(Cache) /\ IdleNames(Cache') = IdleNames(Cache)
    BY <1>1, Zenon DEF Held, IdleNames
  <1>3. Typed(Cache')
    BY <1>1, Zenon DEF IInv, Sound, Typed
  <1>4. Wanted(Cache') /\ (~synced => Fresh(Cache'))
    BY <1>1, <1>2, Zenon DEF IInv, Sound, Wanted, Interested, Fresh
  <1>5. Sound(Cache', callers)
    BY <1>1, <1>2, <1>3, <1>4, Zenon DEF IInv, Sound, Counted
  <1> QED
    BY <1>4, <1>5 DEF IInv

LEMMA DialKeeps ==
    ASSUME IInv, Dial
    PROVE  IInv'
  <1>1. /\ UNCHANGED <<entries, resources, idle, wake, callers, synced>> /\ phase' = "dialing"
        /\ sentGenerations' = [n \in Demanded |-> IF Waits(n) THEN "this" ELSE "none"]
    BY Zenon DEF Dial
  <1>2. wake \in BOOLEAN
    BY CacheFields, Zenon DEF IInv, Sound, Typed
  <1>3. FunctionOn(Demanded, sentGenerations')
    BY <1>1, Zenon DEF FunctionOn
  <1> QED
    BY <1>1, <1>2, <1>3, StreamKeeps

LEMMA EstablishedKeeps ==
    ASSUME IInv, Established
    PROVE  IInv'
  <1>1. /\ UNCHANGED <<cache, callers, synced>> /\ phase = "reset" /\ phase' = "up"
        /\ disconnected' = FALSE
    BY Zenon DEF Established
  <1>2. callers \in [Caller -> CallerState]
    BY Zenon DEF IInv, Sound
  <1> QED
    BY <1>1, <1>2, SameCache

\* outgoing subscribes to every interest that is marked, or passes it over when
\* disconnected is still set; an interest that is not marked is subscribed to
\* already, or was passed over.
LEMMA OutgoingKeeps ==
    ASSUME IInv, Outgoing
    PROVE  IInv'
  <1> DEFINE subscribe == {n \in dirty : /\ entries[n].held /\ sentGenerations[n] # "this"
                                         /\ disconnected => Waits(n)}
             unsubscribe == {n \in dirty : ~entries[n].held /\ sentGenerations[n] # "none"}
             over == {n \in dirty \ subscribe : entries[n].held /\ sentGenerations[n] # "this"}
  <1>1. /\ UNCHANGED <<entries, resources, idle, callers, synced>> /\ wake' = FALSE
        /\ phase' = phase /\ disconnected' = disconnected /\ dirty' = {}
        /\ passed' = IF phase # "reset" THEN passed ELSE passed \cup over
        /\ sentGenerations' = [n \in Demanded |->
               IF n \in subscribe THEN "this" ELSE IF n \in unsubscribe THEN "none"
               ELSE sentGenerations[n]]
    BY Zenon DEF Outgoing, link
  <1>2. FunctionOn(Demanded, sentGenerations')
    BY <1>1, Zenon DEF FunctionOn
  <1>3. ASSUME phase \in {"reset", "up"} PROVE Carried(Cache')
    <2>1. /\ Cache'.entries = entries /\ Cache'.sent = sentGenerations' /\ Cache'.passed = passed'
      BY <1>1, Zenon DEF Cache
    <2> SUFFICES ASSUME NEW n \in Held(Cache')
                 PROVE  sentGenerations'[n] = "this" \/ n \in passed'
      BY <2>1, Zenon DEF Carried
    <2>2. n \in Demanded /\ entries[n].held /\ n \in Held(Cache)
      BY <2>1, CacheFields, Zenon DEF Held
    <2>3. Carried(Cache) /\ (phase = "reset" \/ ~disconnected)
      BY <1>3 DEF IInv
    <2>4. sentGenerations[n] = "this" \/ n \in dirty \/ n \in passed
      BY <2>2, <2>3, CacheFields, Zenon DEF Carried
    <2>5. \/ n \in subscribe
          \/ n \notin unsubscribe /\ sentGenerations[n] = "this"
          \/ n \in passed
          \/ n \in over /\ phase = "reset"
      BY <2>2, <2>3, <2>4, Zenon
    <2>6. n \in subscribe => sentGenerations'[n] = "this"
      BY <1>1, <2>2, Zenon
    <2>7. n \notin unsubscribe /\ sentGenerations[n] = "this" => sentGenerations'[n] = "this"
      BY <1>1, <2>2, Zenon
    <2>8. n \in passed \/ (n \in over /\ phase = "reset") => n \in passed'
      BY <1>1, Zenon
    <2> QED
      BY <2>5, <2>6, <2>7, <2>8, Zenon
  <1>4. phase' \in {"reset", "up"} => Carried(Cache')
    BY <1>1, <1>3
  <1>5. phase' = "up" => ~disconnected'
    BY <1>1 DEF IInv
  <1> QED
    BY <1>1, <1>2, <1>4, <1>5, StreamKeeps

LEMMA LingeringKeeps ==
    ASSUME IInv, LingeringBody
    PROVE  IInv'
  <1>1. /\ UNCHANGED <<entries, resources, idle, sentGenerations, callers, synced>>
        /\ wake' = FALSE /\ phase' = phase /\ phase \in {"down", "dialing"}
    BY Zenon DEF LingeringBody
  <1>2. FunctionOn(Demanded, sentGenerations)
    BY CacheFields, Zenon DEF IInv, Sound, Typed
  <1> QED
    BY <1>1, <1>2, StreamKeeps

LEMMA ReceiveKeeps ==
    ASSUME IInv, Receive
    PROVE  IInv'
  <1>1. UNCHANGED <<cache, callers, synced, link, phase>>
    BY Zenon DEF Receive
  <1>2. callers \in [Caller -> CallerState] /\ (phase = "up" => ~disconnected)
    BY Zenon DEF IInv, Sound
  <1> QED
    BY <1>1, <1>2, SameCache DEF link

LEMMA RejectKeeps ==
    ASSUME IInv, Reject
    PROVE  IInv'
  <1>1. /\ UNCHANGED <<entries, resources, dirty, idle, sentGenerations, passed, callers, synced>>
        /\ wake' = TRUE /\ phase' = phase /\ disconnected' = disconnected
    BY Zenon DEF Reject, link
  <1>2. FunctionOn(Demanded, sentGenerations)
    BY CacheFields, Zenon DEF IInv, Sound, Typed
  <1>3. Carried(Cache) => Carried(Cache')
    <2>1. /\ Cache'.entries = Cache.entries /\ Cache'.sent = Cache.sent
          /\ Cache'.dirty = Cache.dirty /\ Cache'.wake = TRUE /\ Cache'.passed = Cache.passed
      BY <1>1, Zenon DEF Cache
    <2>2. Held(Cache') = Held(Cache)
      BY <2>1, Zenon DEF Held
    <2> QED
      BY <2>1, <2>2, Zenon DEF Carried
  <1>4. phase \in {"reset", "up"} => Carried(Cache)
    BY Zenon DEF IInv
  <1>5. phase = "up" => ~disconnected
    BY Zenon DEF IInv
  <1> QED
    BY <1>1, <1>2, <1>3, <1>4, <1>5, StreamKeeps

\* The value apply publishes before it ends the deleted interests.
Published(updated, told) == [Cache EXCEPT !.resources = updated, !.entries = told]

\* apply: what is cached stays of interest to a name that is held, the deleted
\* interests end for every caller, and no other loses its users or its mark.
LEMMA ApplyKeeps ==
    ASSUME SetFacts, IInv, Apply
    PROVE  IInv'
  <1> DEFINE content == decoding.resources
             received == {r \in Resource : content[r] # Absent}
             gone == decoding.removed \cap Resource
             known == IF synced THEN resources ELSE Nothing
             updated == [r \in Resource |->
                 IF r \in decoding.selected /\ Interested(Cache, r, content[r]) THEN content[r]
                 ELSE IF r \in received \cup gone THEN Absent ELSE known[r]]
             vanished == decoding.removed \cup (UNION {resources[r].aliases : r \in gone})
                                          \cup (UNION {known[r].aliases : r \in received})
             touched == Held(Cache) \cap
                           (vanished \cup (UNION {NamesOf(r, content[r]) : r \in received}))
             deleted == {n \in touched \cap vanished : Resolve(updated, TRUE, n) = Pending}
             told == [n \in Demanded |->
                 IF n \in touched THEN [entries[n] EXCEPT !.outcome = Resolve(updated, TRUE, n)]
                                  ELSE entries[n]]
             m == Published(updated, told)
             s == RemoveEntries(m, deleted)
             t == [s EXCEPT !.wake = TRUE]
             missing(k) == [k EXCEPT !.pc = "missing"]
  <1>1. /\ Commit(t) /\ synced' = TRUE /\ phase' = phase /\ disconnected' = disconnected
        /\ callers' = [c \in Caller |->
               IF callers[c].pc # "idle" /\ callers[c].name \in deleted
               THEN missing(callers[c]) ELSE callers[c]]
    BY Zenon DEF Apply, Published, link
  <1>2. touched \subseteq Held(Cache) /\ deleted \subseteq Demanded
    BY Zenon DEF Held
  <1>3. m = [Cache EXCEPT !.resources = updated, !.entries = told]
    BY Zenon DEF Published
  <1>4. \A n \in Demanded : \/ n \notin touched /\ told[n] = entries[n]
                            \/ n \in touched /\ \E x : told[n] = [entries[n] EXCEPT !.outcome = x]
    BY Zenon
  <1>5. FunctionOn(Resource, updated) /\ FunctionOn(Demanded, told)
    BY Zenon DEF FunctionOn
  <1>6. \A r \in Resource : updated[r] # Absent =>
           Interested(Cache, r, updated[r]) \/ updated[r] = known[r]
    BY Zenon
  <1> HIDE DEF content, received, gone, updated, vanished, touched, deleted, told, m, s, t, missing
  <1>7. /\ Typed(Cache) /\ Wanted(Cache) /\ List(Cache.idle, IdleNames(Cache))
        /\ callers \in [Caller -> CallerState] /\ Counted(Cache, callers)
        /\ \A n \in Demanded : IsEntry(entries[n])
    BY CacheFields, Zenon DEF IInv, Sound, Typed
  <1>8. /\ IsCache(m) /\ m.entries = told /\ m.resources = updated /\ m.dirty = Cache.dirty
        /\ m.idle = Cache.idle /\ m.wake = Cache.wake /\ m.sent = Cache.sent
        /\ m.passed = Cache.passed
    BY <1>3, CacheFields, Zenon DEF IsCache
  <1>9. ASSUME NEW n \in Demanded
        PROVE  /\ m.entries[n].held = entries[n].held /\ m.entries[n].users = entries[n].users
               /\ IsEntry(m.entries[n])
    <2>1. CASE n \in touched
      <3>1. entries[n].held /\ IsEntry(entries[n])
        BY <1>2, <1>7, <2>1, CacheFields, Zenon DEF Held
      <3>2. PICK x : told[n] = [entries[n] EXCEPT !.outcome = x]
        BY <1>4, <2>1, Zenon
      <3>3. /\ [entries[n] EXCEPT !.outcome = x].held = entries[n].held
            /\ [entries[n] EXCEPT !.outcome = x].users = entries[n].users
            /\ IsEntry([entries[n] EXCEPT !.outcome = x])
        BY <3>1, OutcomeChanged, Zenon
      <3> QED
        BY <1>8, <3>2, <3>3, Zenon
    <2>2. CASE n \notin touched
      BY <1>4, <1>7, <1>8, <2>2, Zenon
    <2> QED
      BY <2>1, <2>2, Zenon
  <1>10. Typed(m)
    BY <1>5, <1>7, <1>8, <1>9, Zenon DEF Typed
  <1>11. Held(m) = Held(Cache) /\ IdleNames(m) = IdleNames(Cache)
    <2>1. \A n \in Demanded : /\ n \in Held(m) <=> n \in Held(Cache)
                              /\ n \in IdleNames(m) <=> n \in IdleNames(Cache)
      BY <1>9, CacheFields, Zenon DEF Held, IdleNames
    <2>2. /\ Held(m) \subseteq Demanded /\ Held(Cache) \subseteq Demanded
          /\ IdleNames(m) \subseteq Demanded /\ IdleNames(Cache) \subseteq Demanded
      BY Zenon DEF Held, IdleNames
    <2> QED
      BY <2>1, <2>2, Zenon
  <1>12. Wanted(m)
    <2> SUFFICES ASSUME NEW r \in Resource, updated[r] # Absent
                 PROVE  Interested(m, r, updated[r])
      BY <1>8, Zenon DEF Wanted
    <2>1. Interested(Cache, r, updated[r])
      <3>1. CASE updated[r] = known[r]
        <4>1. known = resources
          BY <3>1, Zenon DEF Nothing
        <4> QED
          BY <1>7, <3>1, <4>1, CacheFields, Zenon DEF Wanted
      <3> QED
        BY <1>6, <3>1, Zenon
    <2> QED
      BY <1>11, <2>1, Zenon DEF Interested
  <1>13. Carried(Cache) => Carried(m)
    BY <1>8, <1>11, Zenon DEF Carried
  <1>14. /\ Keeps(m, s)
         /\ \A n \in Demanded : /\ n \notin deleted => s.entries[n] = m.entries[n]
                                /\ n \in deleted => s.entries[n] = NoEntry
    BY <1>10, RemoveKeeps DEF s
  <1>15. List(s.idle, IdleNames(s))
    BY <1>7, <1>8, <1>10, <1>11, RemoveLists DEF s
  <1>16. /\ IsCache(t) /\ t.entries = s.entries /\ t.resources = s.resources /\ t.idle = s.idle
         /\ t.dirty = s.dirty /\ t.sent = s.sent /\ t.wake = TRUE /\ t.passed = s.passed
    <2>1. IsCache(s)
      BY <1>14, Zenon DEF Keeps, Typed
    <2>2. t = [s EXCEPT !.wake = TRUE]
      BY Zenon DEF t
    <2> QED
      BY ONLY <2>1, <2>2 DEF IsCache
  <1>17. Held(t) = Held(s) /\ IdleNames(t) = IdleNames(s)
    BY <1>16, Zenon DEF Held, IdleNames
  <1>18. /\ Typed(t) /\ Wanted(t) /\ List(t.idle, IdleNames(t))
         /\ Carried(Cache) => Carried(t)
    <2>1. Typed(t)
      BY <1>14, <1>16, Zenon DEF Keeps, Typed
    <2>2. Wanted(t)
      BY <1>12, <1>14, <1>16, <1>17, Zenon DEF Keeps, Wanted, Interested
    <2>3. List(t.idle, IdleNames(t))
      BY <1>15, <1>16, <1>17, Zenon
    <2>4. Carried(Cache) => Carried(t)
      BY <1>13, <1>14, <1>16, <1>17, Zenon DEF Keeps, Carried
    <2> QED
      BY <2>1, <2>2, <2>3, <2>4, Zenon
  <1>19. \A k \in CallerState : /\ missing(k) \in CallerState /\ missing(k).name = k.name
                                /\ ~Leasing(missing(k))
    BY DEF CallerState, Leasing, missing
  <1>20. callers' \in [Caller -> CallerState] /\ Counted(t, callers')
    <2>1. callers' \in [Caller -> CallerState]
      BY <1>1, <1>7, <1>19, Zenon
    <2>2. ASSUME NEW n \in Demanded, n \notin deleted
          PROVE  Leases(callers', n) = Leases(callers, n)
      <3>1. \A c \in Caller : c \in Leases(callers', n) <=> c \in Leases(callers, n)
        BY <1>1, <1>7, <1>19, <2>2, Zenon DEF Leases
      <3> QED
        BY <3>1, Zenon DEF Leases
    <2>3. ASSUME NEW n \in Demanded, n \in deleted
          PROVE  Leases(callers', n) = {}
      <3>1. \A k \in CallerState : Leasing(k) => k.pc # "idle"
        BY DEF Leasing
      <3>2. \A c \in Caller : c \notin Leases(callers', n)
        BY <1>1, <1>7, <1>19, <2>3, <3>1, Zenon DEF Leases
      <3> QED
        BY <3>2, Zenon DEF Leases
    <2>4. Cardinality({}) = 0
      BY DEF SetFacts, EmptySetCounts
    <2>5. \A n \in Demanded : n \notin deleted => t.entries[n].users = Cardinality(Leases(callers', n))
      <3> SUFFICES ASSUME NEW n \in Demanded, n \notin deleted
                   PROVE  t.entries[n].users = Cardinality(Leases(callers', n))
        BY Zenon
      <3>1. t.entries[n].users = entries[n].users
        BY <1>9, <1>14, <1>16, Zenon
      <3>2. entries[n].users = Cardinality(Leases(callers, n))
        BY <1>7, CacheFields, Zenon DEF Counted
      <3> QED
        BY <2>2, <3>1, <3>2, Zenon
    <2>6. \A n \in Demanded : n \in deleted => t.entries[n].users = Cardinality(Leases(callers', n))
      BY <1>14, <1>16, <2>3, <2>4, NoEntryFields, Zenon
    <2> QED
      BY <2>1, <2>5, <2>6, Zenon DEF Counted
  <1>21. Cache' = t
    BY <1>1, <1>16, CommittedCache, Zenon
  <1>22. Sound(t, callers')
    BY <1>18, <1>20, Zenon DEF Sound
  <1>23. phase' \in {"reset", "up"} => Carried(t)
    BY <1>1, <1>18, Zenon DEF IInv
  <1>24. phase' = "up" => ~disconnected'
    BY <1>1 DEF IInv
  <1> QED
    BY <1>1, <1>21, <1>22, <1>23, <1>24 DEF IInv

LEMMA NextIInv ==
    ASSUME SetFacts, IInv, [Next]_vars
    PROVE  IInv'
  <1>1. CASE Server \/ UNCHANGED vars
    BY <1>1, ServerKeeps, Zenon DEF Server, vars
  <1>2. CASE \E c \in Caller : \/ \E n \in Demands[c], k \in Expired : Acquire(c, n, k)
                               \/ Observe(c)
                               \/ \E k \in Expired : DropLease(c, k)
    <2>1. PICK c \in Caller : \/ \E n \in Demands[c], k \in Expired : Acquire(c, n, k)
                              \/ Observe(c)
                              \/ \E k \in Expired : DropLease(c, k)
      BY <1>2
    <2>2. CASE \E n \in Demands[c], k \in Expired : Acquire(c, n, k)
      BY <2>2, AcquireKeeps
    <2>3. CASE Observe(c)
      BY <2>3, ObserveKeeps
    <2>4. CASE \E k \in Expired : DropLease(c, k)
      BY <2>4, DropKeeps, DropMissingKeeps
    <2> QED
      BY <2>1, <2>2, <2>3, <2>4, Zenon
  <1>3. CASE \E k \in Expired : (\E n \in Demanded : CachedHit(n, k)) \/ Expire(k)
    BY <1>3, CachedHitKeeps, ExpireKeeps
  <1>4. CASE ExpireDisconnected \/ Establish
    BY <1>4, ResetKeeps
  <1>5. CASE Lose \/ Dial \/ Established
    BY <1>5, LoseKeeps, DialKeeps, EstablishedKeeps
  <1>6. CASE Outgoing \/ LingeringBody
    BY <1>6, OutgoingKeeps, LingeringKeeps
  <1>7. CASE Receive \/ Reject \/ Apply
    BY <1>7, ReceiveKeeps, RejectKeeps, ApplyKeeps
  <1> QED
    BY <1>1, <1>2, <1>3, <1>4, <1>5, <1>6, <1>7, Zenon DEF Next

\* What the properties say follows.
LEMMA InvariantMeaning ==
    ASSUME IInv
    PROVE  LeasesAreCounted /\ CacheIsWanted /\ NothingIsCarriedOver /\ DemandsAreCarried
  <1>1. LeasesAreCounted
    <2>1. \A n \in Demanded : entries[n].users = Cardinality(Leases(callers, n))
      BY CacheFields, Zenon DEF IInv, Sound, Counted
    <2>2. \A n : Leases(callers, n) =
             {c \in Caller : callers[c].name = n /\ callers[c].pc \in {"waiting", "holding"}}
      BY Zenon DEF Leases, Leasing
    <2>3. List(idle, IdleNames(Cache))
      BY CacheFields, Zenon DEF IInv, Sound
    <2>4. retained => IdleNames(Cache) = {n \in Held(Cache) : entries[n].users = 0}
      BY CacheFields, Zenon DEF IdleNames, Held
    <2> QED
      BY <2>1, <2>2, <2>3, <2>4, Zenon DEF LeasesAreCounted, List
  <1>2. CacheIsWanted
    BY CacheFields, Zenon DEF IInv, Sound, Wanted, CacheIsWanted
  <1>3. NothingIsCarriedOver
    BY CacheFields, Zenon DEF IInv, Fresh, NothingIsCarriedOver
  <1>4. DemandsAreCarried
    BY CacheFields, Zenon DEF IInv, Carried, DemandsAreCarried
  <1> QED
    BY <1>1, <1>2, <1>3, <1>4

LEMMA FiniteSetsMeaning ==
  (\A S : IsFiniteSet(S) <=> Enumerable(S)) /\ \A S : Cardinality(S) = CountOf(S)
  BY Zenon DEF IsFiniteSet, Enumerable, Cardinality, CountOf

LOCAL INSTANCE FiniteSetTheorems

LEMMA InstanceMeaning ==
  (\A S : IsFiniteSet(S) <=> Enumerable(S)) /\ \A S : Cardinality(S) = CountOf(S)
  BY Zenon DEF IsFiniteSet, Enumerable, Cardinality, CountOf

LEMMA SetFactsHold == SetFacts
  <1>1. CardinalityIsNatural
    <2>1. \A S : IsFiniteSet(S) => Cardinality(S) \in Nat
      BY FS_CardinalityType
    <2> QED
      BY <2>1, FiniteSetsMeaning, InstanceMeaning DEF CardinalityIsNatural
  <1>2. EmptySetCounts
    BY FS_EmptySet, FiniteSetsMeaning, InstanceMeaning DEF EmptySetCounts
  <1>3. SubsetsCount
    <2>1. \A S, T : IsFiniteSet(S) /\ T \subseteq S =>
             /\ IsFiniteSet(T) /\ Cardinality(T) <= Cardinality(S)
             /\ Cardinality(T) = Cardinality(S) => T = S
      BY FS_Subset
    <2> QED
      BY <2>1, FiniteSetsMeaning, InstanceMeaning DEF SubsetsCount
  <1>4. AddingCounts
    <2>1. \A S, x : IsFiniteSet(S) /\ x \notin S =>
             IsFiniteSet(S \cup {x}) /\ Cardinality(S \cup {x}) = Cardinality(S) + 1
      BY FS_AddElement
    <2> QED
      BY <2>1, FiniteSetsMeaning, InstanceMeaning DEF AddingCounts
  <1>5. RemovingCounts
    <2>1. \A S, x : IsFiniteSet(S) /\ x \in S =>
             IsFiniteSet(S \ {x}) /\ Cardinality(S \ {x}) = Cardinality(S) - 1
      BY FS_RemoveElement
    <2> QED
      BY <2>1, FiniteSetsMeaning, InstanceMeaning DEF RemovingCounts
  <1>6. UnionsCount
    <2>1. \A S, T : IsFiniteSet(S) /\ IsFiniteSet(T) /\ S \cap T = {} =>
             IsFiniteSet(S \cup T) /\ Cardinality(S \cup T) = Cardinality(S) + Cardinality(T)
      <3> SUFFICES ASSUME NEW S, NEW T, IsFiniteSet(S), IsFiniteSet(T), S \cap T = {}
                   PROVE  IsFiniteSet(S \cup T) /\ Cardinality(S \cup T) = Cardinality(S) + Cardinality(T)
        OBVIOUS
      <3>1. /\ IsFiniteSet(S \cup T) /\ Cardinality({}) = 0
            /\ Cardinality(S \cup T) = Cardinality(S) + Cardinality(T) - Cardinality({})
        BY FS_Union, FS_EmptySet
      <3>2. Cardinality(S) \in Nat /\ Cardinality(T) \in Nat
        BY FS_CardinalityType
      <3> QED
        BY <3>1, <3>2
    <2> QED
      BY <2>1, FiniteSetsMeaning, InstanceMeaning DEF UnionsCount
  <1>7. IntervalsCount
    <2>1. \A m \in Nat : /\ IsFiniteSet(1 .. m) /\ Cardinality(1 .. m) = m
                         /\ IsFiniteSet(0 .. m - 1) /\ Cardinality(0 .. m - 1) = m
      BY FS_Interval
    <2> QED
      BY <2>1, FiniteSetsMeaning, InstanceMeaning DEF IntervalsCount
  <1>8. InjectionsCount
    <2>1. ASSUME NEW S, NEW T, NEW f \in [S -> T], IsFiniteSet(T),
                 \A s, t \in S : f[s] = f[t] => s = t
          PROVE  /\ IsFiniteSet(S) /\ Cardinality(S) <= Cardinality(T)
                 /\ Cardinality(S) = Cardinality(T) <=> \A t \in T : \E s \in S : f[s] = t
      <3>1. f \in Injection(S, T)
        BY <2>1 DEF Injection, IsInjective
      <3>2. f \in Surjection(S, T) <=> \A t \in T : \E s \in S : f[s] = t
        BY <3>1 DEF Surjection, Injection
      <3> QED
        BY <2>1, <3>1, <3>2, FS_Injection
    <2> QED
      BY <2>1, FiniteSetsMeaning, InstanceMeaning DEF InjectionsCount
  <1> QED
    BY <1>1, <1>2, <1>3, <1>4, <1>5, <1>6, <1>7, <1>8 DEF SetFacts

LEMMA Invariance == Spec => []IInv
  <1>1. Init => IInv
    BY InitIInv, SetFactsHold
  <1>2. IInv /\ [Next]_vars => IInv'
    BY NextIInv, SetFactsHold
  <1> QED
    BY <1>1, <1>2, PTL DEF Spec

\* A name's users are the leases that wait or hold it, at every moment and for
\* any number of callers, and the LRU list of idle interests has each of them
\* once: acquire, touch, Drop for a lease, prune and the removal of an interest
\* by a response between them neither lose a count nor keep one for a lease of
\* an interest that ended.
THEOREM LeasesStayCounted == Spec => []LeasesAreCounted
  <1>1. IInv => LeasesAreCounted
    BY InvariantMeaning
  <1> QED
    BY <1>1, Invariance, PTL

\* Every resource in the cache has an interest that wants it, by one of its
\* names: apply keeps no resource nobody asked for, and remove_entries, whoever
\* calls it, drops the ones that lose their last interest.
THEOREM CacheStaysWanted == Spec => []CacheIsWanted
  <1>1. IInv => CacheIsWanted
    BY InvariantMeaning
  <1> QED
    BY <1>1, Invariance, PTL

\* A stream starts from nothing: after reset_locked, and until a first response
\* is applied, neither a resource nor an outcome of an earlier stream is left,
\* whatever callers, expiries and cached hits came during the handshake.
THEOREM NothingStaysCarriedOver == Spec => []NothingIsCarriedOver
  <1>1. IInv => NothingIsCarriedOver
    BY InvariantMeaning
  <1> QED
    BY <1>1, Invariance, PTL

\* On an established stream every interest held is subscribed to, or marked and
\* the body has a wakeup for it, whatever callers did and the body wrote during
\* the handshake, and between and after the two halves of established.  Only an
\* interest nobody waited for, whose mark outgoing used up between those halves,
\* is not, and that until it is released or the stream is lost.
THEOREM DemandsStayCarried == Spec => []DemandsAreCarried
  <1>1. IInv => DemandsAreCarried
    BY InvariantMeaning
  <1> QED
    BY <1>1, Invariance, PTL
=============================================================================
