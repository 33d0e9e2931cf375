-------------------------- MODULE SdsSessionProofs --------------------------
(***************************************************************************)
(* Proofs about SdsSession, for any names, revisions and concurrency: lists*)
(* without duplicates, the books of the session's queue, and the operations*)
(* on them; the inductive invariant, one lemma per handler; the theorems.  *)
(***************************************************************************)
EXTENDS SdsSession, SetFacts, TLAPS

-----------------------------------------------------------------------------
(* Lists of jobs without duplicates *)

\* q lists the jobs of A, each once.
List(q, A) == q \in Seq(Job) /\ Range(q) = A /\ IsInjective(q)

LEMMA ListIntro ==
  ASSUME NEW n \in Nat, NEW q, NEW A, q \in [1 .. n -> Job],
         \A i \in 1 .. n : q[i] \in A,
         \A a \in A : \E i \in 1 .. n : q[i] = a,
         \A i, j \in 1 .. n : q[i] = q[j] => i = j
  PROVE  List(q, A) /\ Len(q) = n
  <1>1. q \in Seq(Job) /\ DOMAIN q = 1 .. n
    OBVIOUS
  <1>2. Len(q) = n
    BY <1>1
  <1>3. Range(q) = A
    BY <1>1 DEF Range
  <1>4. IsInjective(q)
    BY <1>1 DEF IsInjective
  <1> QED
    BY <1>1, <1>2, <1>3, <1>4 DEF List

LEMMA ListElim ==
  ASSUME NEW q, NEW A, List(q, A)
  PROVE  /\ q \in Seq(Job) /\ Len(q) \in Nat /\ DOMAIN q = 1 .. Len(q) /\ q \in [1 .. Len(q) -> Job]
         /\ \A i \in 1 .. Len(q) : q[i] \in A
         /\ \A a \in A : a \in Job /\ \E i \in 1 .. Len(q) : q[i] = a
         /\ \A i, j \in 1 .. Len(q) : q[i] = q[j] => i = j
  <1>1. q \in Seq(Job) /\ Len(q) \in Nat /\ DOMAIN q = 1 .. Len(q) /\ q \in [1 .. Len(q) -> Job]
    BY DEF List
  <1>2. /\ \A i \in 1 .. Len(q) : q[i] \in A
        /\ \A a \in A : a \in Job /\ \E i \in 1 .. Len(q) : q[i] = a
    BY <1>1 DEF List, Range
  <1>3. \A i, j \in 1 .. Len(q) : q[i] = q[j] => i = j
    BY <1>1 DEF List, IsInjective
  <1> QED
    BY <1>1, <1>2, <1>3

\* A list is as long as it has elements.
LEMMA ListLength ==
  ASSUME SetFacts, NEW q, NEW A, List(q, A)
  PROVE  IsFiniteSet(A) /\ Cardinality(A) = Len(q)
  <1> DEFINE n == Len(q)
             place == [a \in A |-> CHOOSE i \in 1 .. n : q[i] = a]
  <1>1. /\ n \in Nat /\ \A i \in 1 .. n : q[i] \in A
        /\ \A a \in A : \E i \in 1 .. n : q[i] = a
        /\ \A i, j \in 1 .. n : q[i] = q[j] => i = j
    BY ListElim
  <1>2. \A a \in A : place[a] \in 1 .. n /\ q[place[a]] = a
    BY <1>1
  <1>3. place \in [A -> 1 .. n]
    BY <1>2
  <1> HIDE DEF place, n
  <1>4. /\ \A a, b \in A : place[a] = place[b] => a = b
        /\ \A i \in 1 .. n : \E a \in A : place[a] = i
    BY <1>1, <1>2
  <1>5. IsFiniteSet(1 .. n) /\ Cardinality(1 .. n) = n
    BY <1>1 DEF SetFacts, IntervalsCount
  <1>6. IsFiniteSet(A) /\ Cardinality(A) = Cardinality(1 .. n)
    BY <1>3, <1>4, <1>5 DEF SetFacts, InjectionsCount
  <1> QED
    BY <1>5, <1>6 DEF n

\* The place of an element among the kept ones.
Place(K, i) == Cardinality({h \in K : h < i})

LEMMA Onto ==
  ASSUME SetFacts, NEW S, NEW T, NEW f \in [S -> T], IsFiniteSet(T),
         \A s, t \in S : f[s] = f[t] => s = t, Cardinality(S) = Cardinality(T)
  PROVE  \A t \in T : \E s \in S : f[s] = t
  BY DEF SetFacts, InjectionsCount

LEMMA Places ==
  ASSUME SetFacts, NEW K, IsFiniteSet(K), K \subseteq Nat
  PROVE  /\ \A i \in K : Place(K, i) \in 0 .. Cardinality(K) - 1
         /\ \A i, j \in K : Place(K, i) = Place(K, j) => i = j
         /\ \A p \in 0 .. Cardinality(K) - 1 : \E i \in K : Place(K, i) = p
  <1> DEFINE below(i) == {h \in K : h < i}
             N == Cardinality(K)
  <1>1. N \in Nat
    BY DEF SetFacts, CardinalityIsNatural
  <1>2. ASSUME NEW i \in K PROVE Cardinality(below(i)) \in 0 .. N - 1
    <2>1. i \in Nat /\ ~(i < i)
      OBVIOUS
    <2>2. below(i) \in SUBSET K /\ i \notin below(i)
      BY <2>1
    <2> HIDE DEF below
    <2>3. IsFiniteSet(below(i)) /\ Cardinality(below(i)) <= N /\ Cardinality(below(i)) # N
      BY <2>2 DEF SetFacts, SubsetsCount
    <2>4. Cardinality(below(i)) \in Nat
      BY <2>3 DEF SetFacts, CardinalityIsNatural
    <2> HIDE DEF N
    <2> QED
      BY <1>1, <2>3, <2>4
  <1>3. ASSUME NEW a \in K, NEW b \in K, a < b PROVE Cardinality(below(a)) # Cardinality(below(b))
    <2>0. a \in Nat /\ b \in Nat
      BY <1>3
    <2>1. ASSUME NEW i \in K, i < a PROVE i < b
      <3>1. i \in Nat
        OBVIOUS
      <3> QED
        BY <1>3, <2>0, <2>1, <3>1
    <2>2. a \in below(b) /\ ~(a < a)
      BY <1>3, <2>0
    <2>3. below(a) \subseteq below(b) /\ a \notin below(a)
      BY <2>1, <2>2, Zenon
    <2>4. IsFiniteSet(below(b)) /\ below(a) \in SUBSET below(b)
      BY <2>3, below(b) \in SUBSET K DEF SetFacts, SubsetsCount
    <2> HIDE DEF below
    <2> QED
      BY <2>2, <2>3, <2>4 DEF SetFacts, SubsetsCount
  <1>4. \A i, j \in K : i \in Nat /\ j \in Nat
    OBVIOUS
  <1> DEFINE f == [i \in K |-> Cardinality(below(i))]
  <1> HIDE DEF below
  <1>5. ASSUME NEW i \in K, NEW j \in K, Cardinality(below(i)) = Cardinality(below(j)) PROVE i = j
    BY <1>3, <1>4, <1>5
  <1>6. f \in [K -> 0 .. N - 1] /\ \A i, j \in K : f[i] = f[j] => i = j
    BY <1>2, <1>5
  <1>7. IsFiniteSet(0 .. N - 1) /\ Cardinality(0 .. N - 1) = N
    <2> HIDE DEF N
    <2> QED
      BY <1>1 DEF SetFacts, IntervalsCount
  <1>8. \A p \in 0 .. N - 1 : \E i \in K : f[i] = p
    <2> DEFINE M == 0 .. N - 1
    <2>1. f \in [K -> M] /\ (\A i, j \in K : f[i] = f[j] => i = j)
      BY <1>6, Zenon
    <2>2. IsFiniteSet(M) /\ Cardinality(K) = Cardinality(M)
      BY <1>7 DEF N
    <2> HIDE DEF M, N
    <2>3. ASSUME NEW g \in [K -> M], \A i, j \in K : g[i] = g[j] => i = j
          PROVE  \A p \in M : \E i \in K : g[i] = p
      <3> HIDE DEF f
      <3> QED
        BY ONLY SetFacts, <2>2, <2>3, Onto
    <2>4. \A p \in M : \E i \in K : f[i] = p
      BY <2>1, <2>3, Zenon
    <2> QED
      BY <2>4 DEF M
  <1>9. \A p \in 0 .. N - 1 : \E i \in K : Cardinality(below(i)) = p
    BY <1>8, Zenon
  <1> QED
    BY <1>2, <1>5, <1>9 DEF below, Place

\* Without drops the elements of G.
LEMMA WithoutList ==
  ASSUME SetFacts, NEW q, NEW A, List(q, A), NEW G
  PROVE  List(Without(q, G), A \ G)
  <1> DEFINE K == {i \in DOMAIN q : q[i] \notin G}
             N == Cardinality(K)
             at(k) == CHOOSE i \in K : Place(K, i) = k - 1
             w == [k \in 1 .. N |-> q[at(k)]]
  <1>1. Without(q, G) = w
    BY DEF Without, Place
  <1>2. /\ Len(q) \in Nat /\ DOMAIN q = 1 .. Len(q)
        /\ \A i \in 1 .. Len(q) : q[i] \in A /\ q[i] \in Job
        /\ \A a \in A : a \in Job /\ \E i \in 1 .. Len(q) : q[i] = a
        /\ \A i, j \in 1 .. Len(q) : q[i] = q[j] => i = j
    BY ListElim
  <1>3. K \subseteq Nat /\ K \in SUBSET (1 .. Len(q)) /\ IsFiniteSet(K)
    <2>1. K \in SUBSET (1 .. Len(q))
      BY <1>2
    <2>2. IsFiniteSet(1 .. Len(q))
      BY <1>2 DEF SetFacts, IntervalsCount
    <2>3. K \subseteq Nat
      BY <1>2, <2>1
    <2> QED
      BY <2>1, <2>2, <2>3 DEF SetFacts, SubsetsCount
  <1>4. N \in Nat
    BY <1>3 DEF SetFacts, CardinalityIsNatural
  <1>5. \A i \in 1 .. Len(q) : i \in K <=> q[i] \notin G
    BY <1>2
  <1> HIDE DEF K, N
  <1>6. /\ \A i \in K : Place(K, i) \in 0 .. N - 1
        /\ \A i, j \in K : Place(K, i) = Place(K, j) => i = j
        /\ \A p \in 0 .. N - 1 : \E i \in K : Place(K, i) = p
    BY <1>3, Places, Zenon DEF N
  <1>7. ASSUME NEW k \in 1 .. N PROVE at(k) \in K /\ Place(K, at(k)) = k - 1
    <2>1. k - 1 \in 0 .. N - 1
      BY <1>4
    <2>2. \E i \in K : Place(K, i) = k - 1
      BY <1>6, <2>1
    <2> QED
      BY <2>2
  <1>8. ASSUME NEW i \in K PROVE \E k \in 1 .. N : at(k) = i
    <2> DEFINE k == Place(K, i) + 1
    <2>1. k \in 1 .. N /\ k - 1 = Place(K, i)
      BY <1>4, <1>6
    <2> HIDE DEF k
    <2> QED
      BY <1>6, <1>7, <2>1
  <1> HIDE DEF at
  <1>9. w \in [1 .. N -> Job] /\ \A k \in 1 .. N : w[k] = q[at(k)]
    BY <1>2, <1>3, <1>7, Zenon
  <1> HIDE DEF w
  <1>10. \A k \in 1 .. N : w[k] \in A \ G
    BY <1>2, <1>3, <1>5, <1>7, <1>9, Zenon
  <1>11. ASSUME NEW a \in A \ G PROVE \E k \in 1 .. N : w[k] = a
    <2>1. PICK i \in 1 .. Len(q) : q[i] = a
      BY <1>2
    <2>2. i \in K
      BY <1>5, <2>1
    <2> QED
      BY <1>8, <1>9, <2>1, <2>2
  <1>12. ASSUME NEW k \in 1 .. N, NEW l \in 1 .. N, w[k] = w[l] PROVE k = l
    <2>1. at(k) = at(l)
      <3>1. at(k) \in 1 .. Len(q) /\ at(l) \in 1 .. Len(q) /\ q[at(k)] = q[at(l)]
        BY <1>3, <1>7, <1>9, <1>12, Zenon
      <3> QED
        BY <1>2, <3>1
    <2>2. k - 1 = l - 1 /\ k \in Int /\ l \in Int
      BY <1>4, <1>7, <2>1
    <2> QED
      BY <2>2
  <1> QED
    BY <1>1, <1>4, <1>9, <1>10, <1>11, <1>12, ListIntro

LEMMA ReversedList ==
  ASSUME NEW q, NEW A, List(q, A)
  PROVE  List(Reversed(q), A)
  <1> DEFINE n == Len(q)
             w == [i \in 1 .. n |-> q[n - i + 1]]
  <1>1. Reversed(q) = w
    BY DEF Reversed
  <1>2. /\ n \in Nat
        /\ \A i \in 1 .. n : q[i] \in A /\ q[i] \in Job
        /\ \A a \in A : \E i \in 1 .. n : q[i] = a
        /\ \A i, j \in 1 .. n : q[i] = q[j] => i = j
    BY ListElim
  <1> HIDE DEF n
  <1>3. \A i \in 1 .. n : n - i + 1 \in 1 .. n /\ n - (n - i + 1) + 1 = i
    BY <1>2
  <1>4. w \in [1 .. n -> Job] /\ \A i \in 1 .. n : w[i] = q[n - i + 1]
    BY <1>2, <1>3
  <1> HIDE DEF w
  <1>5. \A i \in 1 .. n : w[i] \in A
    BY <1>2, <1>3, <1>4
  <1>6. ASSUME NEW a \in A PROVE \E i \in 1 .. n : w[i] = a
    <2>1. PICK i \in 1 .. n : q[i] = a
      BY <1>2
    <2>2. n - i + 1 \in 1 .. n /\ w[n - i + 1] = q[i]
      BY <1>3, <1>4
    <2> QED
      BY <2>1, <2>2
  <1>7. ASSUME NEW i \in 1 .. n, NEW j \in 1 .. n, w[i] = w[j] PROVE i = j
    <2>1. n - i + 1 = n - j + 1
      BY <1>2, <1>3, <1>4, <1>7
    <2> QED
      BY <1>2, <2>1
  <1> QED
    BY <1>1, <1>2, <1>4, <1>5, <1>6, <1>7, ListIntro, ZenonT(40)

LEMMA ConcatList ==
  ASSUME NEW p, NEW A, List(p, A), NEW q, NEW B, List(q, B), A \cap B = {}
  PROVE  List(p \o q, A \cup B)
  <1> DEFINE m == Len(p)
             n == Len(q)
             w == p \o q
  <1>1. /\ m \in Nat /\ p \in Seq(Job)
        /\ \A i \in 1 .. m : p[i] \in A
        /\ \A a \in A : a \in Job /\ \E i \in 1 .. m : p[i] = a
        /\ \A i, j \in 1 .. m : p[i] = p[j] => i = j
    BY ListElim
  <1>2. /\ n \in Nat /\ q \in Seq(Job)
        /\ \A i \in 1 .. n : q[i] \in B
        /\ \A a \in B : a \in Job /\ \E i \in 1 .. n : q[i] = a
        /\ \A i, j \in 1 .. n : q[i] = q[j] => i = j
    BY ListElim
  <1>3. /\ w \in Seq(Job) /\ Len(w) = m + n /\ w \in [1 .. m + n -> Job]
        /\ \A i \in 1 .. m + n : w[i] = IF i <= m THEN p[i] ELSE q[i - m]
    <2>1. /\ w \in Seq(Job) /\ Len(w) = m + n
          /\ \A i \in 1 .. m + n : w[i] = IF i <= m THEN p[i] ELSE q[i - m]
      BY <1>1, <1>2
    <2> HIDE DEF w, m, n
    <2>2. w \in [1 .. Len(w) -> Job]
      BY <2>1
    <2> QED
      BY <2>1, <2>2
  <1> HIDE DEF w, m, n
  <1>4. ASSUME NEW i \in 1 .. m + n
        PROVE  \/ i \in 1 .. m /\ w[i] = p[i] /\ w[i] \in A
               \/ i - m \in 1 .. n /\ w[i] = q[i - m] /\ w[i] \in B
    <2>1. CASE i <= m
      BY <1>1, <1>2, <1>3, <2>1
    <2>2. CASE ~(i <= m)
      <3>1. i - m \in 1 .. n
        BY <1>1, <1>2, <2>2
      <3> QED
        BY <1>2, <1>3, <2>2, <3>1
    <2> QED
      BY <2>1, <2>2
  <1>5. ASSUME NEW a \in A \cup B PROVE \E i \in 1 .. m + n : w[i] = a
    <2>1. CASE a \in A
      <3>1. PICK i \in 1 .. m : p[i] = a
        BY <1>1, <2>1
      <3>2. i \in 1 .. m + n /\ i <= m
        BY <1>1, <1>2
      <3> QED
        BY <1>3, <3>1, <3>2
    <2>2. CASE a \in B
      <3>1. PICK i \in 1 .. n : q[i] = a
        BY <1>2, <2>2
      <3>2. m + i \in 1 .. m + n /\ ~(m + i <= m) /\ (m + i) - m = i
        BY <1>1, <1>2
      <3> QED
        BY <1>3, <3>1, <3>2
    <2> QED
      BY <2>1, <2>2
  <1>6. ASSUME NEW i \in 1 .. m + n, NEW j \in 1 .. m + n, w[i] = w[j] PROVE i = j
    <2>1. CASE w[i] \in A
      <3>1. i \in 1 .. m /\ j \in 1 .. m /\ p[i] = p[j]
        BY <1>4, <1>6, <2>1
      <3> QED
        BY <1>1, <3>1
    <2>2. CASE w[i] \in B
      <3>1. i - m \in 1 .. n /\ j - m \in 1 .. n /\ q[i - m] = q[j - m]
        BY <1>4, <1>6, <2>2
      <3>2. i - m = j - m
        BY <1>2, <3>1
      <3> QED
        BY <1>1, <1>2, <3>2
    <2> QED
      BY <1>4, <2>1, <2>2
  <1>7. \A i \in 1 .. m + n : w[i] \in A \cup B
    BY <1>4
  <1>8. m + n \in Nat
    BY <1>1, <1>2
  <1> QED
    BY <1>3, <1>5, <1>6, <1>7, <1>8, ListIntro, Zenon DEF w

LEMMA SingletonList ==
  ASSUME NEW j \in Job
  PROVE  List(<<j>>, {j})
  <1>1. <<j>> \in [1 .. 1 -> Job] /\ <<j>>[1] = j
    OBVIOUS
  <1>2. \A i \in 1 .. 1 : i = 1
    OBVIOUS
  <1>3. 1 \in Nat /\ 1 \in 1 .. 1
    OBVIOUS
  <1> QED
    BY <1>1, <1>2, <1>3, ListIntro, Zenon

LEMMA EmptyList == List(<<>>, {})
  BY DEF List, Range, IsInjective

LEMMA AppendList ==
  ASSUME NEW q, NEW A, List(q, A), NEW j \in Job, j \notin A
  PROVE  List(Append(q, j), A \cup {j})
  <1>1. Append(q, j) = q \o <<j>>
    BY ListElim
  <1>2. A \cap {j} = {}
    OBVIOUS
  <1> QED
    <2>1. List(<<j>>, {j})
      BY SingletonList
    <2>2. List(q \o <<j>>, A \cup {j})
      BY <1>2, <2>1, ConcatList
    <2> QED
      BY <1>1, <2>2

\* The front of a list and the rest.
Front(q, k) == {q[i] : i \in 1 .. k}

LEMMA SplitList ==
  ASSUME SetFacts, NEW q, NEW A, List(q, A), NEW k \in 0 .. Len(q)
  PROVE  /\ Front(q, k) \subseteq A /\ IsFiniteSet(Front(q, k)) /\ Cardinality(Front(q, k)) = k
         /\ List(SubSeq(q, k + 1, Len(q)), A \ Front(q, k))
  <1> DEFINE n == Len(q)
             first == {q[i] : i \in 1 .. k}
             w == SubSeq(q, k + 1, n)
  <1>1. /\ n \in Nat /\ q \in Seq(Job)
        /\ \A i \in 1 .. n : q[i] \in A /\ q[i] \in Job
        /\ \A a \in A : a \in Job /\ \E i \in 1 .. n : q[i] = a
        /\ \A i, j \in 1 .. n : q[i] = q[j] => i = j
    BY ListElim
  <1>2. k \in Nat /\ k <= n
    BY <1>1
  <1> HIDE DEF n
  <1>3. \A i \in 1 .. k : i \in 1 .. n
    BY <1>1, <1>2
  <1>4. List([i \in 1 .. k |-> q[i]], first) /\ Len([i \in 1 .. k |-> q[i]]) = k
    <2> DEFINE f == [i \in 1 .. k |-> q[i]]
    <2>1. f \in [1 .. k -> Job] /\ \A i \in 1 .. k : f[i] = q[i]
      BY <1>1, <1>3
    <2>2. \A i \in 1 .. k : f[i] \in first
      BY <2>1
    <2>3. \A a \in first : \E i \in 1 .. k : f[i] = a
      BY <2>1
    <2>4. \A i, j \in 1 .. k : f[i] = f[j] => i = j
      BY <1>1, <1>3, <2>1
    <2> HIDE DEF f, first
    <2> QED
      BY <1>2, <2>1, <2>2, <2>3, <2>4, ListIntro DEF f
  <1>5. IsFiniteSet(first) /\ Cardinality(first) = k
    BY <1>4, ListLength
  <1>6. first \subseteq A
    BY <1>1, <1>3
  <1>7. \A i \in 1 .. n : q[i] \in first <=> i <= k
    <2> TAKE i \in 1 .. n
    <2>1. CASE i <= k
      BY <1>1, <1>2, <2>1
    <2>2. CASE ~(i <= k)
      <3>1. ASSUME NEW j \in 1 .. k PROVE q[j] # q[i]
        BY <1>1, <1>2, <1>3, <2>2
      <3> QED
        BY <2>2, <3>1
    <2> QED
      BY <2>1, <2>2
  <1> HIDE DEF first
  <1>8. /\ Len(w) = n - k /\ w \in [1 .. n - k -> Job] /\ n - k \in Nat
        /\ \A i \in 1 .. n - k : w[i] = q[k + i] /\ k + i \in 1 .. n
    <2>1. \A i \in k + 1 .. n : q[i] \in Job
      BY <1>1, <1>2
    <2>2. k + 1 \in Int /\ n \in Int
      BY <1>1, <1>2
    <2>3. /\ w \in Seq(Job) /\ Len(w) = IF k + 1 <= n THEN n - (k + 1) + 1 ELSE 0
          /\ \A i \in 1 .. n - (k + 1) + 1 : w[i] = q[(k + 1) + i - 1]
      BY <1>1, <2>1, <2>2
    <2> HIDE DEF w
    <2>4. w \in [1 .. Len(w) -> Job]
      BY <2>3
    <2>5. Len(w) = n - k /\ n - (k + 1) + 1 = n - k /\ n - k \in Nat
      BY <1>1, <1>2, <2>3
    <2>6. \A i \in 1 .. n - k : (k + 1) + i - 1 = k + i /\ k + i \in 1 .. n
      BY <1>1, <1>2
    <2> QED
      BY <2>3, <2>4, <2>5, <2>6
  <1> HIDE DEF w
  <1>9. \A i \in 1 .. n - k : w[i] \in A \ first
    <2> TAKE i \in 1 .. n - k
    <2>1. w[i] = q[k + i] /\ k + i \in 1 .. n /\ ~(k + i <= k)
      BY <1>1, <1>2, <1>8
    <2> QED
      BY <1>1, <1>7, <2>1
  <1>10. ASSUME NEW a \in A \ first PROVE \E i \in 1 .. n - k : w[i] = a
    <2>1. PICK i \in 1 .. n : q[i] = a
      BY <1>1
    <2>2. ~(i <= k)
      BY <1>7, <2>1
    <2>3. i - k \in 1 .. n - k /\ k + (i - k) = i
      BY <1>1, <1>2, <2>2
    <2> QED
      BY <1>8, <2>1, <2>3
  <1>11. ASSUME NEW i \in 1 .. n - k, NEW j \in 1 .. n - k, w[i] = w[j] PROVE i = j
    <2>1. q[k + i] = q[k + j] /\ k + i \in 1 .. n /\ k + j \in 1 .. n
      BY <1>8, <1>11
    <2>2. k + i = k + j
      BY <1>1, <2>1
    <2> QED
      BY <1>1, <1>2, <2>2
  <1>12. List(w, A \ first)
    BY <1>8, <1>9, <1>10, <1>11, ListIntro, Zenon
  <1> QED
    BY <1>5, <1>6, <1>12 DEF Front, first, w, n

-----------------------------------------------------------------------------
(* The queue *)

Working == {"started", "issuing", "ready"}
In(q, P) == {j \in Job : q.job[j].phase \in P}

QueueState == [jobs : [Name -> Job \cup {NoJob}], job : [Job -> JobState],
               pending : Seq(Job), ready : Seq(Job), active : Nat]

\* A job is the one of its name until it is canceled.
JobFit(q, j) ==
    /\ q.job[j].phase # "free" =>
          q.job[j].name \in Name /\ (q.job[j].canceled \/ q.jobs[q.job[j].name] = j)
    /\ q.job[j].phase = "queued" => ~q.job[j].canceled
    /\ q.job[j].phase = "ready" /\ q.job[j].result = Canceled => q.job[j].canceled
NameFit(q, n) == q.jobs[n] # NoJob =>
    LET state == q.job[q.jobs[n]]
    IN  state.phase # "free" /\ state.name = n /\ ~state.canceled

LEMMA JobFitKept ==
    ASSUME NEW q, NEW v, NEW j, JobFit(q, j), v.job[j] = q.job[j],
           q.job[j].name \in Name /\ q.jobs[q.job[j].name] = j => v.jobs[q.job[j].name] = j
    PROVE  JobFit(v, j)
  <1>1. /\ v.job[j].phase # "free" =>
              v.job[j].name \in Name /\ (v.job[j].canceled \/ q.jobs[v.job[j].name] = j)
        /\ v.job[j].phase = "queued" => ~v.job[j].canceled
        /\ v.job[j].phase = "ready" /\ v.job[j].result = Canceled => v.job[j].canceled
    BY SMTT(40) DEF JobFit
  <1>2. v.job[j].name \in Name /\ q.jobs[v.job[j].name] = j => v.jobs[v.job[j].name] = j
    OBVIOUS
  <1> QED
    BY ONLY <1>1, <1>2 DEF JobFit

LEMMA NameFitKept ==
    ASSUME NEW q, NEW v, NEW n, NEW j, NameFit(q, n), v.jobs[n] = q.jobs[n], q.jobs[n] = j,
           j # NoJob => v.job[j].phase # "free" /\ v.job[j].name = q.job[j].name
                           /\ v.job[j].canceled = q.job[j].canceled
    PROVE  NameFit(v, n)
  BY Zenon DEF NameFit

\* What every operation of the session keeps.
Fit(q) ==
    /\ q \in QueueState
    /\ \A j \in Job : JobFit(q, j)
    /\ \A n \in Name : NameFit(q, n)
    /\ List(q.pending, In(q, {"queued"}))
    /\ List(q.ready, In(q, {"ready"}))
    /\ q.active = Cardinality(In(q, Working)) /\ q.active <= Concurrency

LEMMA Bounds ==
  /\ Concurrency \in Nat /\ Concurrency # 0 /\ MaxRotations \in Nat /\ MaxRequests \in Nat
  /\ 0 \in 0 .. MaxRotations /\ IsFiniteSet(Name)
  <1>1. /\ {MaxRotations, MaxRequests} \subseteq Nat /\ Concurrency \in Nat \ {0}
        /\ IsFiniteSet(Name)
    BY SdsAssumption, Zenon
  <1> QED
    BY <1>1

LEMMA Limits ==
  ASSUME SetFacts
  PROVE  /\ Concurrency \in Nat /\ Concurrency # 0 /\ MaxRotations \in Nat /\ MaxRequests \in Nat
         /\ 0 \in 0 .. MaxRotations /\ IsFiniteSet(Name) /\ Cardinality(Name) \in Nat
         /\ Job \subseteq Nat /\ NoJob \notin Job /\ IsFiniteSet(Job)
         /\ Cardinality(Job) = Cardinality(Name) + Concurrency
  <1> DEFINE N == Cardinality(Name) + Concurrency
  <1>1. Cardinality(Name) \in Nat
    BY Bounds DEF SetFacts, CardinalityIsNatural
  <1>2. N \in Nat /\ N >= 1
    BY <1>1, Bounds
  <1>3. Job = 1 .. N
    BY DEF Job
  <1> HIDE DEF N
  <1>4. Job \subseteq Nat /\ 0 \notin Job
    BY <1>2, <1>3
  <1>5. IsFiniteSet(Job) /\ Cardinality(Job) = N
    BY <1>2, <1>3 DEF SetFacts, IntervalsCount
  <1> QED
    BY <1>1, <1>4, <1>5, Bounds DEF N, NoJob

\* The states of a job.
LEMMA JobFields ==
  ASSUME NEW s \in JobState
  PROVE  /\ LET c == [s EXCEPT !.canceled = TRUE]
            IN  /\ c \in JobState /\ c.phase = s.phase /\ c.name = s.name /\ c.result = s.result
                /\ c.canceled = TRUE
         /\ LET b == [s EXCEPT !.phase = "started"]
            IN  /\ b \in JobState /\ b.phase = "started" /\ b.name = s.name /\ b.result = s.result
                /\ b.canceled = s.canceled
  BY Zenon DEF JobState

LEMMA NewJobs ==
  /\ Free \in JobState /\ Free.phase = "free"
  /\ \A n \in Name : /\ Queued(n) \in JobState /\ Queued(n).phase = "queued"
                     /\ Queued(n).name = n /\ Queued(n).canceled = FALSE
  <1>1. Free \in JobState /\ Free.phase = "free" /\ Free.canceled = FALSE
    BY Bounds DEF Free, JobState
  <1>2. ASSUME NEW n \in Name
        PROVE  /\ Queued(n) \in JobState /\ Queued(n).phase = "queued"
               /\ Queued(n).name = n /\ Queued(n).canceled = FALSE
    <2>1. Queued(n) = [Free EXCEPT !.phase = "queued", !.name = n]
      BY DEF Queued
    <2> QED
      BY <1>1, <2>1, Zenon DEF JobState
  <1> QED
    BY <1>1, <1>2, Zenon

\* The jobs of the names N.
JobsOf(q, N) == {q.jobs[n] : n \in N} \ {NoJob}

LEMMA UnsubscribeFields ==
  ASSUME SetFacts, NEW q \in QueueState, NEW N
  PROVE  LET u == Unsubscribe(q, N)
             G == JobsOf(q, N)
         IN  /\ u = [jobs |-> u.jobs, job |-> u.job, pending |-> Without(q.pending, G),
                     ready |-> q.ready, active |-> q.active]
             /\ u.jobs \in [Name -> Job \cup {NoJob}] /\ u.job \in [Job -> JobState]
             /\ \A n \in Name : u.jobs[n] = IF n \in N THEN NoJob ELSE q.jobs[n]
             /\ \A j \in Job : /\ j \notin G => u.job[j] = q.job[j]
                               /\ j \in G /\ q.job[j].phase = "queued" => u.job[j] = Free
                               /\ j \in G /\ q.job[j].phase # "queued" =>
                                     u.job[j] = [q.job[j] EXCEPT !.canceled = TRUE]
  <1> DEFINE u == Unsubscribe(q, N)
             G == JobsOf(q, N)
             newJobs == [n \in Name |-> IF n \in N THEN NoJob ELSE q.jobs[n]]
             newJob == [j \in Job |-> CASE j \notin G -> q.job[j]
                                        [] j \in G /\ q.job[j].phase = "queued" -> Free
                                        [] OTHER -> [q.job[j] EXCEPT !.canceled = TRUE]]
             newPending == Without(q.pending, G)
  <1>1. u = [q EXCEPT !.jobs = newJobs, !.pending = newPending, !.job = newJob]
    BY Zenon DEF Unsubscribe, JobsOf
  <1>2. newJobs \in [Name -> Job \cup {NoJob}] /\ \A n \in Name : newJobs[n] = IF n \in N THEN NoJob ELSE q.jobs[n]
    BY DEF QueueState
  <1>3. \A j \in Job : q.job[j] \in JobState
    BY DEF QueueState
  <1> HIDE DEF G
  <1>4. ASSUME NEW j \in Job
        PROVE  /\ newJob[j] \in JobState
               /\ j \notin G => newJob[j] = q.job[j]
               /\ j \in G /\ q.job[j].phase = "queued" => newJob[j] = Free
               /\ j \in G /\ q.job[j].phase # "queued" =>
                     newJob[j] = [q.job[j] EXCEPT !.canceled = TRUE]
    <2> DEFINE c == [q.job[j] EXCEPT !.canceled = TRUE]
    <2>1. c \in JobState /\ Free \in JobState /\ q.job[j] \in JobState
      BY <1>3, JobFields, NewJobs, Zenon
    <2>2. newJob[j] = CASE j \notin G -> q.job[j]
                        [] j \in G /\ q.job[j].phase = "queued" -> Free
                        [] OTHER -> c
      OBVIOUS
    <2> HIDE DEF c, newJob
    <2>3. /\ newJob[j] \in JobState
          /\ j \notin G => newJob[j] = q.job[j]
          /\ j \in G /\ q.job[j].phase = "queued" => newJob[j] = Free
          /\ j \in G /\ q.job[j].phase # "queued" => newJob[j] = c
      BY <2>1, <2>2
    <2> QED
      BY <2>3 DEF c
  <1>5. newJob = [j \in Job |-> newJob[j]]
    OBVIOUS
  <1> HIDE DEF newJobs, newJob, newPending
  <1>6. newJob \in [Job -> JobState]
    BY <1>4, <1>5
  <1>7. /\ u.jobs = newJobs /\ u.job = newJob
        /\ u = [jobs |-> u.jobs, job |-> u.job, pending |-> newPending,
                ready |-> q.ready, active |-> q.active]
    BY <1>1, Zenon DEF QueueState
  <1> QED
    BY <1>2, <1>4, <1>6, <1>7 DEF newPending, G

\* unsubscribe keeps the books of the session.
LEMMA UnsubscribeFit ==
  ASSUME SetFacts, NEW q, Fit(q), NEW N \in SUBSET Name
  PROVE  /\ Fit(Unsubscribe(q, N))
         /\ \A n \in Name : Unsubscribe(q, N).jobs[n] = IF n \in N THEN NoJob ELSE q.jobs[n]
  <1> DEFINE u == Unsubscribe(q, N)
             G == JobsOf(q, N)
  <1>1. /\ q \in QueueState
        /\ \A j \in Job : JobFit(q, j)
        /\ \A n \in Name : NameFit(q, n)
        /\ List(q.pending, In(q, {"queued"}))
        /\ List(q.ready, In(q, {"ready"}))
        /\ q.active = Cardinality(In(q, Working)) /\ q.active <= Concurrency
    BY DEF Fit
  <1>2. /\ u = [jobs |-> u.jobs, job |-> u.job, pending |-> Without(q.pending, G),
                ready |-> q.ready, active |-> q.active]
        /\ u.jobs \in [Name -> Job \cup {NoJob}] /\ u.job \in [Job -> JobState]
        /\ \A n \in Name : u.jobs[n] = IF n \in N THEN NoJob ELSE q.jobs[n]
        /\ \A j \in Job : /\ j \notin G => u.job[j] = q.job[j]
                          /\ j \in G /\ q.job[j].phase = "queued" => u.job[j] = Free
                          /\ j \in G /\ q.job[j].phase # "queued" =>
                                u.job[j] = [q.job[j] EXCEPT !.canceled = TRUE]
    BY <1>1, UnsubscribeFields
  <1>3. G \in SUBSET Job /\ \A j \in Job : j \in G <=> \E n \in N : q.jobs[n] = j
    BY <1>1, Limits DEF JobsOf, QueueState
  <1>4. /\ q.jobs \in [Name -> Job \cup {NoJob}] /\ \A j \in Job : q.job[j] \in JobState
        /\ q.ready \in Seq(Job) /\ q.active \in Nat
    BY <1>1 DEF QueueState
  <1> HIDE DEF u, G
  <1>5. ASSUME NEW j \in Job
        PROVE  \/ j \notin G /\ u.job[j] = q.job[j]
               \/ j \in G /\ q.job[j].phase = "queued" /\ u.job[j].phase = "free"
               \/ /\ j \in G /\ q.job[j].phase # "queued" /\ u.job[j].phase = q.job[j].phase
                  /\ u.job[j].name = q.job[j].name /\ u.job[j].canceled = TRUE
                  /\ u.job[j].result = q.job[j].result
    <2>1. CASE j \notin G
      BY <1>2, <2>1, Zenon
    <2>2. CASE j \in G /\ q.job[j].phase = "queued"
      BY <1>2, <2>2, NewJobs, Zenon
    <2>3. CASE j \in G /\ q.job[j].phase # "queued"
      <3>1. q.job[j] \in JobState /\ u.job[j] = [q.job[j] EXCEPT !.canceled = TRUE]
        BY <1>2, <1>4, <2>3
      <3>2. /\ u.job[j].phase = q.job[j].phase /\ u.job[j].name = q.job[j].name
            /\ u.job[j].result = q.job[j].result /\ u.job[j].canceled = TRUE
        BY <3>1, JobFields
      <3> QED
        BY <2>3, <3>2
    <2> QED
      BY <2>1, <2>2, <2>3, Zenon
  <1>6. ASSUME NEW j \in Job PROVE JobFit(u, j)
    <2>1. JobFit(q, j)
      BY <1>1
    <2>2. CASE j \notin G
      <3>1. ASSUME q.job[j].phase # "free", ~q.job[j].canceled PROVE u.jobs[q.job[j].name] = j
        <4>1. q.job[j].name \in Name /\ q.jobs[q.job[j].name] = j
          BY <2>1, <3>1 DEF JobFit
        <4>2. q.job[j].name \notin N
          BY <1>3, <2>2, <4>1
        <4> QED
          BY <1>2, <4>1, <4>2
      <3> QED
        BY <1>5, <2>1, <2>2, <3>1, Zenon DEF JobFit
    <2>3. CASE j \in G
      BY <1>5, <2>1, <2>3, Zenon DEF JobFit
    <2> QED
      BY <2>2, <2>3
  <1>7. ASSUME NEW n \in Name PROVE NameFit(u, n)
    <2> SUFFICES ASSUME u.jobs[n] # NoJob PROVE NameFit(u, n)
      BY DEF NameFit
    <2>1. n \notin N /\ u.jobs[n] = q.jobs[n] /\ q.jobs[n] \in Job
      BY <1>2, <1>4
    <2>2. q.jobs[n] \notin G
      <3>1. ASSUME NEW m \in N, q.jobs[m] = q.jobs[n] PROVE FALSE
        <4>1. q.job[q.jobs[n]].name = n /\ q.job[q.jobs[n]].name = m
          BY <1>1, <2>1, <3>1, Limits DEF NameFit
        <4> QED
          BY <2>1, <4>1
      <3> QED
        BY <1>3, <2>1, <3>1
    <2>3. u.job[q.jobs[n]] = q.job[q.jobs[n]]
      BY <1>5, <2>1, <2>2, Zenon
    <2>4. NameFit(q, n) /\ q.jobs[n] # NoJob
      BY <1>1, <2>1, Limits
    <2> QED
      BY <2>1, <2>3, <2>4 DEF NameFit
  <1>8. In(u, {"queued"}) = In(q, {"queued"}) \ G
    BY <1>5, Zenon DEF In
  <1>9. In(u, {"ready"}) = In(q, {"ready"}) /\ In(u, Working) = In(q, Working)
    BY <1>5, Zenon DEF In, Working
  <1>10. /\ List(u.pending, In(u, {"queued"})) /\ List(u.ready, In(u, {"ready"}))
         /\ u.active = q.active /\ u.ready = q.ready
    <2>1. u.pending = Without(q.pending, G) /\ u.ready = q.ready /\ u.active = q.active
      BY <1>2
    <2> QED
      BY <1>1, <1>8, <1>9, <2>1, WithoutList
  <1>11. u \in QueueState
    <2>1. u.pending \in Seq(Job)
      BY <1>10 DEF List
    <2>2. u = [jobs |-> u.jobs, job |-> u.job, pending |-> u.pending,
               ready |-> q.ready, active |-> q.active]
      BY <1>2
    <2> QED
      BY <1>2, <1>4, <2>1, <2>2 DEF QueueState
  <1> QED
    BY <1>1, <1>2, <1>6, <1>7, <1>9, <1>10, <1>11 DEF Fit, u

\* The workers that start may take.
Taken(u) ==
    LET k == IF Len(u.pending) < Concurrency - u.active
             THEN Len(u.pending) ELSE Concurrency - u.active
        first == {u.pending[i] : i \in 1 .. k}
    IN  [u EXCEPT !.pending = SubSeq(@, k + 1, Len(@)), !.active = @ + k,
                  !.job = [j \in Job |-> IF j \in first
                                         THEN [@[j] EXCEPT !.phase = "started"] ELSE @[j]]]

LEMMA TakenFit ==
  ASSUME SetFacts, NEW u, Fit(u)
  PROVE  Fit(Taken(u)) /\ Taken(u).jobs = u.jobs
  <1> DEFINE P == u.pending
             k == IF Len(P) < Concurrency - u.active THEN Len(P) ELSE Concurrency - u.active
             first == Front(P, k)
             rest == SubSeq(P, k + 1, Len(P))
             newJob == [j \in Job |-> IF j \in first THEN [u.job[j] EXCEPT !.phase = "started"]
                                      ELSE u.job[j]]
             v == Taken(u)
  <1>1. /\ u \in QueueState
        /\ \A j \in Job : JobFit(u, j)
        /\ \A n \in Name : NameFit(u, n)
        /\ List(P, In(u, {"queued"}))
        /\ List(u.ready, In(u, {"ready"}))
        /\ u.active = Cardinality(In(u, Working)) /\ u.active <= Concurrency
    BY DEF Fit
  <1>2. /\ u.jobs \in [Name -> Job \cup {NoJob}] /\ \A j \in Job : u.job[j] \in JobState
        /\ u.ready \in Seq(Job) /\ u.active \in Nat
    BY <1>1 DEF QueueState
  <1>3. v = [u EXCEPT !.pending = rest, !.active = u.active + k, !.job = newJob]
    BY DEF Taken, Front
  <1>4. Len(P) \in Nat /\ k \in 0 .. Len(P) /\ k \in Nat /\ u.active + k <= Concurrency
    <2>1. Len(P) \in Nat
      BY <1>1, ListElim
    <2> HIDE DEF P
    <2> QED
      BY <1>1, <1>2, <2>1, Limits
  <1> HIDE DEF P, k
  <1>5. /\ first \subseteq In(u, {"queued"}) /\ IsFiniteSet(first) /\ Cardinality(first) = k
        /\ List(rest, In(u, {"queued"}) \ first)
    BY <1>1, <1>4, SplitList, Zenon
  <1> HIDE DEF first, rest
  <1>6. ASSUME NEW j \in Job
        PROVE  /\ newJob[j] \in JobState
               /\ \/ j \notin first /\ newJob[j] = u.job[j]
                  \/ /\ j \in first /\ u.job[j].phase = "queued" /\ newJob[j].phase = "started"
                     /\ newJob[j].name = u.job[j].name /\ newJob[j].canceled = u.job[j].canceled
    <2>1. CASE j \notin first
      BY <1>2, <2>1
    <2>2. CASE j \in first
      <3>1. newJob[j] = [u.job[j] EXCEPT !.phase = "started"] /\ u.job[j] \in JobState
        BY <1>2, <2>2
      <3>2. u.job[j].phase = "queued"
        BY <1>5, <2>2 DEF In
      <3> HIDE DEF newJob
      <3> QED
        <4> DEFINE b == [u.job[j] EXCEPT !.phase = "started"]
        <4>1. /\ b \in JobState /\ b.phase = "started" /\ b.name = u.job[j].name
              /\ b.canceled = u.job[j].canceled
          BY <3>1, JobFields, Zenon
        <4>2. newJob[j] = b
          BY <3>1
        <4> HIDE DEF b
        <4> QED
          BY <2>2, <3>2, <4>1, <4>2, Zenon
    <2> QED
      BY <2>1, <2>2
  <1>7. newJob = [j \in Job |-> newJob[j]]
    OBVIOUS
  <1> HIDE DEF newJob, v
  <1>8. /\ v.jobs = u.jobs /\ v.job = newJob /\ v.pending = rest /\ v.ready = u.ready
        /\ v.active = u.active + k
        /\ v = [jobs |-> u.jobs, job |-> newJob, pending |-> rest, ready |-> u.ready,
                active |-> u.active + k]
    BY <1>1, <1>3, Zenon DEF QueueState
  <1>9. v \in QueueState
    <2>1. rest \in Seq(Job) /\ u.active + k \in Nat /\ newJob \in [Job -> JobState]
      BY <1>2, <1>4, <1>5, <1>6, <1>7 DEF List
    <2> QED
      BY <1>2, <1>8, <2>1 DEF QueueState
  <1>10. ASSUME NEW j \in Job PROVE JobFit(v, j)
    <2>1. JobFit(u, j)
      BY <1>1
    <2> QED
      BY <1>6, <1>8, <2>1 DEF JobFit
  <1>11. ASSUME NEW n \in Name PROVE NameFit(v, n)
    <2> SUFFICES ASSUME u.jobs[n] # NoJob PROVE NameFit(v, n)
      BY <1>8 DEF NameFit
    <2>1. NameFit(u, n) /\ u.jobs[n] \in Job
      BY <1>1, <1>2
    <2> QED
      <3>1. v.jobs[n] = u.jobs[n] /\ v.job[u.jobs[n]] = newJob[u.jobs[n]]
        BY <1>8
      <3>2. u.job[u.jobs[n]].name = n /\ ~u.job[u.jobs[n]].canceled /\ u.job[u.jobs[n]].phase # "free"
        BY <2>1 DEF NameFit
      <3>3. /\ newJob[u.jobs[n]].name = n /\ ~newJob[u.jobs[n]].canceled
            /\ newJob[u.jobs[n]].phase # "free"
        BY <1>6, <2>1, <3>2
      <3> QED
        BY <3>1, <3>3, Zenon DEF NameFit
  <1>12. In(v, {"queued"}) = In(u, {"queued"}) \ first
    BY <1>6, <1>8 DEF In
  <1>13. In(v, {"ready"}) = In(u, {"ready"})
    BY <1>6, <1>8 DEF In
  <1>14. In(v, Working) = In(u, Working) \cup first /\ In(u, Working) \cap first = {}
    BY <1>5, <1>6, <1>8 DEF In, Working
  <1>15. v.active = Cardinality(In(v, Working))
    <2>1. IsFiniteSet(In(u, Working))
      <3>1. In(u, Working) \in SUBSET Job
        BY DEF In
      <3> QED
        BY <3>1, Limits DEF SetFacts, SubsetsCount
    <2>2. Cardinality(In(v, Working)) = Cardinality(In(u, Working)) + Cardinality(first)
      BY <1>5, <1>14, <2>1 DEF SetFacts, UnionsCount
    <2> QED
      BY <1>1, <1>2, <1>4, <1>5, <1>8, <2>2
  <1> QED
    BY <1>1, <1>4, <1>5, <1>8, <1>9, <1>10, <1>11, <1>12, <1>13, <1>15, Zenon DEF Fit, v

\* start keeps the books, and the names that are not static keep their jobs.
LEMMA StartFit ==
  ASSUME SetFacts, NEW q, Fit(q), secrets \in SUBSET Name
  PROVE  /\ Fit(Start(q))
         /\ \A n \in Name : Start(q).jobs[n] = IF n \in secrets THEN NoJob ELSE q.jobs[n]
  <1>1. Start(q) = Taken(Unsubscribe(q, secrets))
    BY DEF Start, Taken
  <1>2. /\ Fit(Unsubscribe(q, secrets))
        /\ \A n \in Name : Unsubscribe(q, secrets).jobs[n] = IF n \in secrets THEN NoJob ELSE q.jobs[n]
    BY UnsubscribeFit
  <1>3. /\ Fit(Taken(Unsubscribe(q, secrets)))
        /\ Taken(Unsubscribe(q, secrets)).jobs = Unsubscribe(q, secrets).jobs
    BY <1>2, TakenFit
  <1> QED
    BY <1>1, <1>2, <1>3

\* There is a free job for a name that has none.
LEMMA FreeJob ==
  ASSUME SetFacts, NEW q, Fit(q), NEW n \in Name, q.jobs[n] = NoJob
  PROVE  \E j \in Job : q.job[j].phase = "free"
  <1> SUFFICES ASSUME \A j \in Job : q.job[j].phase # "free" PROVE FALSE
    OBVIOUS
  <1> DEFINE Q == In(q, {"queued"})
             W == In(q, Working)
             f == [j \in Q |-> q.job[j].name]
             N == Name \ {n}
  <1>1. /\ q \in QueueState
        /\ \A j \in Job : JobFit(q, j)
        /\ q.active = Cardinality(W) /\ q.active <= Concurrency
    BY DEF Fit
  <1>2. Q \in SUBSET Job /\ W \in SUBSET Job /\ Q \cap W = {}
    BY DEF In, Working
  <1>3. Q \cup W = Job
    <2>1. \A j \in Job : q.job[j].phase \in {"free", "queued", "started", "issuing", "ready"}
      BY <1>1 DEF QueueState, JobState
    <2> QED
      BY <2>1 DEF In, Working
  <1>4. \A j \in Q : q.job[j].name \in Name /\ q.jobs[q.job[j].name] = j
    BY <1>1 DEF In, JobFit
  <1>5. f \in [Q -> N] /\ \A i, j \in Q : f[i] = f[j] => i = j
    <2>1. \A j \in Q : q.job[j].name \in N
      BY <1>2, <1>4, Limits
    <2> QED
      BY <1>4, <2>1
  <1> HIDE DEF f, Q, W
  <1>6. IsFiniteSet(Q) /\ IsFiniteSet(W) /\ Cardinality(Q) \in Nat /\ Cardinality(W) \in Nat
    BY <1>2, Limits, Zenon DEF SetFacts, SubsetsCount, CardinalityIsNatural
  <1>7. IsFiniteSet(N) /\ Cardinality(N) = Cardinality(Name) - 1
    BY Limits DEF SetFacts, RemovingCounts
  <1>8. Cardinality(Q) <= Cardinality(Name) - 1
    <2> HIDE DEF N
    <2> QED
      BY <1>5, <1>7 DEF SetFacts, InjectionsCount
  <1>9. Cardinality(Job) = Cardinality(Q) + Cardinality(W)
    <2>1. Cardinality(Q \cup W) = Cardinality(Q) + Cardinality(W)
      BY <1>2, <1>6 DEF SetFacts, UnionsCount
    <2> QED
      BY <1>3, <2>1
  <1> QED
    BY <1>1, <1>6, <1>8, <1>9, Limits

\* subscribe keeps the books: the name has a job, and no other job changes.
LEMMA SubscribeFit ==
  ASSUME SetFacts, NEW q, Fit(q), NEW n \in Name
  PROVE  /\ Fit(Subscribe(q, n)) /\ Subscribe(q, n).jobs[n] # NoJob
         /\ \A m \in Name \ {n} : Subscribe(q, n).jobs[m] = q.jobs[m]
  <1> DEFINE v == Subscribe(q, n)
             j == q.jobs[n]
             new == CHOOSE i \in Job : q.job[i].phase = "free"
  <1>1. /\ q \in QueueState
        /\ \A i \in Job : JobFit(q, i)
        /\ \A m \in Name : NameFit(q, m)
        /\ List(q.pending, In(q, {"queued"}))
        /\ List(q.ready, In(q, {"ready"}))
        /\ q.active = Cardinality(In(q, Working)) /\ q.active <= Concurrency
    BY DEF Fit
  <1>2. /\ q.jobs \in [Name -> Job \cup {NoJob}] /\ q.job \in [Job -> JobState]
        /\ q.ready \in Seq(Job) /\ q.active \in Nat
    BY <1>1 DEF QueueState
  <1>3. CASE j = NoJob
    <2> DEFINE P == <<new>> \o q.pending
               J == [q.jobs EXCEPT ![n] = new]
               K == [q.job EXCEPT ![new] = Queued(n)]
    <2>1. new \in Job /\ q.job[new].phase = "free"
      <3>1. \E i \in Job : q.job[i].phase = "free"
        BY <1>3, FreeJob
      <3> QED
        BY <3>1
    <2> HIDE DEF new
    <2>2. v = [q EXCEPT !.jobs = J, !.job = K, !.pending = P]
      <3>1. v = [q EXCEPT !.jobs[n] = new, !.job[new] = Queued(n), !.pending = <<new>> \o @]
        BY <1>3 DEF Subscribe, new
      <3> QED
        BY <1>1, <3>1 DEF QueueState
    <2>3. /\ J \in [Name -> Job \cup {NoJob}] /\ J[n] = new /\ \A m \in Name \ {n} : J[m] = q.jobs[m]
      BY <1>2, <2>1
    <2>4. /\ K \in [Job -> JobState] /\ K[new] = Queued(n) /\ \A i \in Job \ {new} : K[i] = q.job[i]
      BY <1>2, <2>1, NewJobs
    <2>5. /\ Queued(n).phase = "queued" /\ Queued(n).name = n /\ Queued(n).canceled = FALSE
      BY NewJobs
    <2> HIDE DEF J, K, P, v
    <2>6. /\ v.jobs = J /\ v.job = K /\ v.pending = P /\ v.ready = q.ready /\ v.active = q.active
          /\ v = [jobs |-> J, job |-> K, pending |-> P, ready |-> q.ready, active |-> q.active]
      BY <1>1, <2>2, Zenon DEF QueueState
    <2>7. In(v, {"queued"}) = {new} \cup In(q, {"queued"}) /\ {new} \cap In(q, {"queued"}) = {}
      BY <2>1, <2>4, <2>5, <2>6 DEF In
    <2>8. In(v, {"ready"}) = In(q, {"ready"}) /\ In(v, Working) = In(q, Working)
      BY <2>1, <2>4, <2>5, <2>6 DEF In, Working
    <2>9. List(P, In(v, {"queued"}))
      <3>1. List(<<new>>, {new})
        BY <2>1, SingletonList
      <3>2. List(<<new>> \o q.pending, {new} \cup In(q, {"queued"}))
        BY <1>1, <2>7, <3>1, ConcatList
      <3> QED
        BY <2>7, <3>2 DEF P
    <2>10. v \in QueueState
      <3>1. P \in Seq(Job)
        BY <2>9 DEF List
      <3> QED
        BY <1>2, <2>3, <2>4, <2>6, <3>1 DEF QueueState
    <2>11. ASSUME NEW i \in Job PROVE JobFit(v, i)
      <3>1. CASE i = new
        BY <2>3, <2>4, <2>5, <2>6, <3>1 DEF JobFit
      <3>2. CASE i # new
        <4>1. JobFit(q, i) /\ v.job[i] = q.job[i]
          BY <1>1, <2>4, <2>6, <3>2
        <4>2. ASSUME q.job[i].name = n, q.jobs[n] = i PROVE FALSE
          BY <1>3, <4>2, Limits
        <4>3. ASSUME q.job[i].name \in Name, q.jobs[q.job[i].name] = i PROVE v.jobs[q.job[i].name] = i
          BY <2>3, <2>6, <4>2, <4>3
        <4> QED
          BY <4>1, <4>3, JobFitKept, Zenon
      <3> QED
        BY <3>1, <3>2
    <2>12. ASSUME NEW m \in Name PROVE NameFit(v, m)
      <3>1. CASE m = n
        BY <2>3, <2>4, <2>5, <2>6, <3>1 DEF NameFit
      <3>2. CASE m # n
        <4>1. NameFit(q, m) /\ v.jobs[m] = q.jobs[m] /\ q.jobs[m] \in Job \cup {NoJob}
          BY <1>1, <1>2, <2>3, <2>6, <3>2
        <4>2. CASE q.jobs[m] = NoJob
          BY <4>1, <4>2 DEF NameFit
        <4>3. CASE q.jobs[m] # NoJob
          <5>1. q.jobs[m] \in Job /\ q.jobs[m] # new
            BY <2>1, <4>1, <4>3 DEF NameFit
          <5>2. v.job[q.jobs[m]] = q.job[q.jobs[m]]
            BY <2>4, <2>6, <5>1
          <5> QED
            BY <4>1, <4>3, <5>2 DEF NameFit
        <4> QED
          BY <4>2, <4>3
      <3> QED
        BY <3>1, <3>2
    <2>13. Fit(v)
      BY <1>1, <2>6, <2>8, <2>9, <2>10, <2>11, <2>12 DEF Fit
    <2> QED
      BY <2>1, <2>3, <2>6, <2>13, Limits DEF v
  <1>4. CASE j # NoJob /\ q.job[j].phase = "queued"
    <2> DEFINE P == <<j>> \o Without(q.pending, {j})
    <2>1. j \in Job
      BY <1>2, <1>4
    <2>2. v = [q EXCEPT !.pending = P]
      BY <1>4 DEF Subscribe
    <2>3. List(P, In(q, {"queued"}))
      <3> DEFINE Q == In(q, {"queued"})
      <3>1. j \in Q
        BY <1>4, <2>1 DEF In
      <3> HIDE DEF Q, j
      <3>2. List(Without(q.pending, {j}), Q \ {j})
        BY <1>1, WithoutList DEF Q
      <3>3. List(<<j>>, {j}) /\ {j} \cap (Q \ {j}) = {}
        BY <2>1, SingletonList
      <3>4. List(P, {j} \cup (Q \ {j}))
        BY <3>2, <3>3, ConcatList
      <3>5. {j} \cup (Q \ {j}) = Q
        BY <3>1
      <3> QED
        BY <3>4, <3>5 DEF Q
    <2> HIDE DEF P, v
    <2>4. /\ v.jobs = q.jobs /\ v.job = q.job /\ v.pending = P /\ v.ready = q.ready
          /\ v.active = q.active
          /\ v = [jobs |-> q.jobs, job |-> q.job, pending |-> P, ready |-> q.ready,
                  active |-> q.active]
      BY <1>1, <2>2 DEF QueueState
    <2>5. v \in QueueState
      <3>1. P \in Seq(Job)
        BY <2>3 DEF List
      <3> QED
        BY <1>2, <2>4, <3>1 DEF QueueState
    <2>6. /\ \A i \in Job : JobFit(v, i)
          /\ \A m \in Name : NameFit(v, m)
      <3>1. v.job = q.job /\ v.jobs = q.jobs
        BY <2>4
      <3>2. \A i \in Job : JobFit(v, i)
        BY <1>1, <3>1, Zenon DEF JobFit
      <3>3. \A m \in Name : NameFit(v, m)
        BY <1>1, <3>1, Zenon DEF NameFit
      <3> QED
        BY <3>2, <3>3
    <2>7. In(v, {"queued"}) = In(q, {"queued"}) /\ In(v, {"ready"}) = In(q, {"ready"})
          /\ In(v, Working) = In(q, Working)
      BY <2>4 DEF In
    <2>8. Fit(v)
      BY <1>1, <2>3, <2>4, <2>5, <2>6, <2>7 DEF Fit
    <2> QED
      BY <1>4, <2>4, <2>8 DEF v
  <1>5. CASE j # NoJob /\ q.job[j].phase # "queued"
    <2>1. v = q
      BY <1>5 DEF Subscribe
    <2> QED
      BY <1>5, <2>1
  <1> QED
    BY <1>3, <1>4, <1>5

-----------------------------------------------------------------------------
(* Workers and completions *)

\* The jobs that are ready, those that are live, and those issued again.
LEMMA ReadyJobs ==
  ASSUME SetFacts, NEW q, Fit(q)
  PROVE  /\ Range(q.ready) = In(q, {"ready"}) /\ Range(q.ready) \in SUBSET Job
         /\ Live(q) \in SUBSET Range(q.ready) /\ Again(q) \in SUBSET Live(q)
         /\ \A j \in Live(q) : /\ q.job[j].name \in Name /\ q.jobs[q.job[j].name] = j
                               /\ ~q.job[j].canceled /\ q.job[j].result # Canceled
  <1>1. Range(q.ready) = In(q, {"ready"})
    BY DEF Fit, List
  <1>2. Live(q) \in SUBSET Range(q.ready) /\ Again(q) \in SUBSET Live(q)
    BY DEF Live, Again
  <1>3. Range(q.ready) \in SUBSET Job
    BY <1>1 DEF In
  <1>4. ASSUME NEW j \in Live(q)
        PROVE  /\ q.job[j].name \in Name /\ q.jobs[q.job[j].name] = j
               /\ ~q.job[j].canceled /\ q.job[j].result # Canceled
    <2>1. j \in Job /\ q.job[j].phase = "ready"
      BY <1>1, <1>2 DEF In
    <2>2. JobFit(q, j) /\ q.jobs[q.job[j].name] = j
      BY <2>1 DEF Fit, Live, Current
    <2>3. q.job[j].name \in Name
      BY <2>1, <2>2 DEF JobFit
    <2>4. ~q.job[j].canceled
      BY <2>1, <2>2, <2>3, Limits DEF Fit, NameFit
    <2> QED
      BY <2>1, <2>2, <2>3, <2>4 DEF JobFit
  <1> QED
    BY <1>1, <1>2, <1>3, <1>4

\* The names whose jobs are done.
Done(q) == NamesOf(q, Live(q) \ Again(q))

LEMMA SettledFields ==
  ASSUME SetFacts, NEW q, Fit(q)
  PROVE  LET s == Settled(q)
             R == Range(q.ready)
         IN  /\ s = [jobs |-> s.jobs, job |-> s.job,
                     pending |-> Reversed(Without(q.ready, Job \ Again(q))) \o q.pending,
                     ready |-> <<>>, active |-> q.active - Len(q.ready)]
             /\ s.jobs \in [Name -> Job \cup {NoJob}] /\ s.job \in [Job -> JobState]
             /\ \A n \in Name : s.jobs[n] = IF n \in Done(q) THEN NoJob ELSE q.jobs[n]
             /\ \A j \in Job : /\ j \in Again(q) => s.job[j] = Queued(q.job[j].name)
                               /\ j \in R \ Again(q) => s.job[j] = Free
                               /\ j \notin R => s.job[j] = q.job[j]
  <1> DEFINE s == Settled(q)
             R == Range(q.ready)
             A == Again(q)
             D == Done(q)
             newJobs == [n \in Name |-> IF n \in D THEN NoJob ELSE q.jobs[n]]
             newJob == [j \in Job |-> CASE j \in A -> Queued(q.job[j].name)
                                        [] j \in R \ A -> Free
                                        [] OTHER -> q.job[j]]
             newPending == Reversed(Without(q.ready, Job \ A)) \o q.pending
             left == q.active - Len(q.ready)
  <1>0. q \in QueueState
    BY DEF Fit
  <1>1. s = [q EXCEPT !.ready = <<>>, !.active = left, !.jobs = newJobs, !.job = newJob,
                      !.pending = newPending]
    BY Zenon DEF Settled, Done
  <1>2. newJobs \in [Name -> Job \cup {NoJob}] /\ \A n \in Name : newJobs[n] = IF n \in D THEN NoJob ELSE q.jobs[n]
    BY <1>0 DEF QueueState
  <1>3. \A j \in Job : q.job[j] \in JobState
    BY <1>0 DEF QueueState
  <1>4. A \subseteq R /\ \A j \in A : Queued(q.job[j].name) \in JobState
    <2>1. A \subseteq R /\ A \subseteq Live(q)
      BY ReadyJobs
    <2>2. \A j \in A : q.job[j].name \in Name
      BY <2>1, ReadyJobs
    <2> QED
      BY <2>1, <2>2, NewJobs
  <1> HIDE DEF A, R, D
  <1>5. ASSUME NEW j \in Job
        PROVE  /\ newJob[j] \in JobState
               /\ j \in A => newJob[j] = Queued(q.job[j].name)
               /\ j \in R \ A => newJob[j] = Free
               /\ j \notin R => newJob[j] = q.job[j]
    <2>1. newJob[j] = CASE j \in A -> Queued(q.job[j].name)
                        [] j \in R \ A -> Free
                        [] OTHER -> q.job[j]
      OBVIOUS
    <2> HIDE DEF newJob
    <2>2. CASE j \in A
      BY <1>4, <2>1, <2>2
    <2>3. CASE j \in R \ A
      <3>1. newJob[j] = Free
        BY <2>1, <2>3
      <3> QED
        BY <2>3, <3>1, NewJobs
    <2>4. CASE j \notin R
      <3>1. newJob[j] = q.job[j]
        BY <1>4, <2>1, <2>4
      <3> QED
        BY <1>3, <1>4, <2>4, <3>1
    <2> QED
      BY <2>2, <2>3, <2>4
  <1>6. newJob = [j \in Job |-> newJob[j]]
    OBVIOUS
  <1> HIDE DEF newJobs, newJob, newPending, left
  <1>7. newJob \in [Job -> JobState]
    BY <1>5, <1>6
  <1>8. /\ s.jobs = newJobs /\ s.job = newJob
        /\ s = [jobs |-> s.jobs, job |-> s.job, pending |-> newPending, ready |-> <<>>,
                active |-> left]
    BY <1>0, <1>1, Zenon DEF QueueState
  <1> QED
    BY <1>2, <1>5, <1>7, <1>8, Zenon DEF newPending, left, A, R, D

\* Handling a batch keeps the books: its jobs are queued again or gone.
LEMMA SettledFit ==
  ASSUME SetFacts, NEW q, Fit(q)
  PROVE  /\ Fit(Settled(q))
         /\ \A n \in Name : Settled(q).jobs[n] = IF n \in Done(q) THEN NoJob ELSE q.jobs[n]
  <1> DEFINE s == Settled(q)
             R == Range(q.ready)
             A == Again(q)
             D == Done(q)
             W == In(q, Working)
  <1>1. /\ q \in QueueState
        /\ \A j \in Job : JobFit(q, j)
        /\ \A n \in Name : NameFit(q, n)
        /\ List(q.pending, In(q, {"queued"}))
        /\ List(q.ready, R) /\ R = In(q, {"ready"})
        /\ q.active = Cardinality(W) /\ q.active <= Concurrency
    BY ReadyJobs DEF Fit
  <1>2. /\ q.jobs \in [Name -> Job \cup {NoJob}] /\ q.active \in Nat
    BY <1>1 DEF QueueState
  <1>3. /\ s = [jobs |-> s.jobs, job |-> s.job,
                pending |-> Reversed(Without(q.ready, Job \ A)) \o q.pending,
                ready |-> <<>>, active |-> q.active - Len(q.ready)]
        /\ s.jobs \in [Name -> Job \cup {NoJob}] /\ s.job \in [Job -> JobState]
        /\ \A n \in Name : s.jobs[n] = IF n \in D THEN NoJob ELSE q.jobs[n]
        /\ \A j \in Job : /\ j \in A => s.job[j] = Queued(q.job[j].name)
                          /\ j \in R \ A => s.job[j] = Free
                          /\ j \notin R => s.job[j] = q.job[j]
    BY SettledFields, Zenon
  <1>4. /\ A \subseteq R /\ R \subseteq Job
        /\ \A j \in A : q.job[j].name \in Name /\ q.jobs[q.job[j].name] = j
    BY ReadyJobs
  <1>5. \A n \in Name : n \in D <=> q.jobs[n] \in Live(q) \ A
    <2>1. ASSUME NEW n \in Name, n \in D PROVE q.jobs[n] \in Live(q) \ A
      <3>1. PICK j \in Live(q) \ A : n = q.job[j].name
        BY <2>1 DEF Done, NamesOf
      <3> QED
        <4>1. q.jobs[q.job[j].name] = j
          BY ReadyJobs, Zenon
        <4> QED
          BY <3>1, <4>1, Zenon
    <2>2. ASSUME NEW n \in Name, q.jobs[n] \in Live(q) \ A PROVE n \in D
      <3>1. q.jobs[n] \in Job
        BY <2>2, ReadyJobs
      <3>2. q.job[q.jobs[n]].name = n
        BY <1>1, <3>1, Limits DEF NameFit
      <3> QED
        BY <2>2, <3>2 DEF Done, NamesOf
    <2> QED
      BY <2>1, <2>2
  <1>6. Live(q) \subseteq R /\ \A j \in R : j \in Live(q) <=> q.jobs[q.job[j].name] = j
    BY DEF Live, Current
  <1> HIDE DEF s, A, D, R
  <1>7. ASSUME NEW j \in Job
        PROVE  \/ /\ j \in A /\ j \in R /\ s.job[j].phase = "queued" /\ s.job[j].canceled = FALSE
                  /\ s.job[j].name = q.job[j].name /\ q.job[j].name \in Name
               \/ j \notin A /\ j \in R /\ s.job[j].phase = "free"
               \/ j \notin A /\ j \notin R /\ s.job[j] = q.job[j]
    <2>1. CASE j \in A
      <3>1. q.job[j].name \in Name /\ s.job[j] = Queued(q.job[j].name) /\ j \in R
        BY <1>3, <1>4, <2>1
      <3> QED
        <4>1. s.job[j].phase = "queued" /\ s.job[j].name = q.job[j].name /\ s.job[j].canceled = FALSE
          BY <3>1, NewJobs, Zenon
        <4> QED
          BY <2>1, <3>1, <4>1, Zenon
    <2>2. CASE j \in R \ A
      BY <1>3, <2>2, NewJobs
    <2>3. CASE j \notin R
      BY <1>3, <1>4, <2>3
    <2> QED
      BY <2>1, <2>2, <2>3, Zenon
  <1>8. ASSUME NEW j \in Job PROVE JobFit(s, j)
    <2>1. JobFit(q, j)
      BY <1>1
    <2>2. ASSUME q.job[j].name \in Name, q.jobs[q.job[j].name] = j, j \notin Live(q) \ A
          PROVE  s.jobs[q.job[j].name] = j
      BY <1>3, <1>5, <2>2
    <2>3. CASE j \in A
      <3>1. s.jobs[q.job[j].name] = j
        BY <1>4, <2>2, <2>3
      <3> QED
        BY <1>7, <2>3, <3>1, Zenon DEF JobFit
    <2>4. CASE j \in R /\ j \notin A
      BY <1>7, <2>4, Zenon DEF JobFit
    <2>5. CASE j \notin R /\ j \notin A
      <3>1. j \notin Live(q)
        BY <1>6, <2>5
      <3>2. s.job[j] = q.job[j]
        BY <1>7, <2>5, Zenon
      <3> QED
        BY <2>1, <2>2, <3>1, <3>2, JobFitKept, Zenon
    <2> QED
      BY <1>4, <2>3, <2>4, <2>5
  <1>9. ASSUME NEW n \in Name PROVE NameFit(s, n)
    <2> SUFFICES ASSUME s.jobs[n] # NoJob PROVE NameFit(s, n)
      BY DEF NameFit
    <2> DEFINE j == q.jobs[n]
    <2>1. n \notin D /\ s.jobs[n] = j /\ j \in Job /\ j # NoJob
      BY <1>2, <1>3
    <2>2. q.job[j].phase # "free" /\ q.job[j].name = n /\ ~q.job[j].canceled
      BY <1>1, <2>1 DEF NameFit
    <2>3. CASE j \in R
      <3>1. j \in Live(q)
        BY <1>6, <2>2, <2>3
      <3>2. j \in A
        BY <1>5, <2>1, <3>1
      <3> QED
        BY <1>7, <2>1, <2>2, <3>2, Zenon DEF NameFit
    <2>4. CASE j \notin R
      <3>1. s.job[j] = q.job[j]
        BY <1>7, <2>1, <2>4, Zenon
      <3> QED
        BY <2>1, <2>2, <3>1 DEF NameFit
    <2> QED
      BY <2>3, <2>4
  <1>10. In(s, {"queued"}) = A \cup In(q, {"queued"}) /\ A \cap In(q, {"queued"}) = {}
    <2>1. ASSUME NEW j \in Job
          PROVE  /\ j \in In(s, {"queued"}) <=> j \in A \/ j \in In(q, {"queued"})
                 /\ ~(j \in A /\ j \in In(q, {"queued"}))
      <3>1. j \in R <=> q.job[j].phase = "ready"
        BY <1>1 DEF In
      <3> QED
        BY <1>7, <3>1, Zenon DEF In
    <2>2. In(s, {"queued"}) \subseteq Job /\ In(q, {"queued"}) \subseteq Job /\ A \subseteq Job
      BY <1>4 DEF In
    <2> QED
      BY <2>1, <2>2
  <1>11. In(s, {"ready"}) = {} /\ In(s, Working) = W \ R /\ R \subseteq W
    BY <1>1, <1>7, Zenon DEF In, Working
  <1>12. List(s.pending, In(s, {"queued"})) /\ List(s.ready, In(s, {"ready"}))
    <2>1. List(Without(q.ready, Job \ A), R \ (Job \ A))
      BY <1>1, WithoutList
    <2>2. R \ (Job \ A) = A
      BY <1>4
    <2>3. List(Reversed(Without(q.ready, Job \ A)), A)
      BY <2>1, <2>2, ReversedList
    <2>4. List(Reversed(Without(q.ready, Job \ A)) \o q.pending, A \cup In(q, {"queued"}))
      BY <1>1, <1>10, <2>3, ConcatList
    <2>5. s.pending = Reversed(Without(q.ready, Job \ A)) \o q.pending /\ s.ready = <<>>
      <3> DEFINE p == Reversed(Without(q.ready, Job \ A)) \o q.pending
                 e == <<>>
                 a == q.active - Len(q.ready)
      <3>1. s = [jobs |-> s.jobs, job |-> s.job, pending |-> p, ready |-> e, active |-> a]
        BY <1>3, Zenon
      <3> HIDE DEF p, e, a
      <3>2. s.pending = p /\ s.ready = e
        BY <3>1
      <3> QED
        BY <3>2 DEF p, e
    <2> QED
      BY <1>10, <1>11, <2>4, <2>5, EmptyList, Zenon
  <1>13. /\ s.active \in Nat /\ s.active = Cardinality(In(s, Working)) /\ s.active <= Concurrency
    <2> HIDE DEF W
    <2>1. IsFiniteSet(W) /\ IsFiniteSet(R) /\ Cardinality(R) = Len(q.ready)
      <3>1. W \in SUBSET Job
        BY DEF In, W
      <3> QED
        BY <1>1, <3>1, Limits, ListLength, Zenon DEF SetFacts, SubsetsCount
    <2> DEFINE V == W \ R
    <2>2. IsFiniteSet(V)
      BY <2>1 DEF SetFacts, SubsetsCount
    <2>3. V \cap R = {} /\ V \cup R = W
      BY <1>11
    <2> HIDE DEF V
    <2>4. Cardinality(W) = Cardinality(V) + Cardinality(R)
      BY <2>1, <2>2, <2>3 DEF SetFacts, UnionsCount
    <2>5. Cardinality(V) \in Nat /\ Cardinality(R) \in Nat /\ Cardinality(W) \in Nat
      BY <2>1, <2>2 DEF SetFacts, CardinalityIsNatural
    <2>6. s.active = Cardinality(V)
      BY <1>1, <1>3, <2>1, <2>4, <2>5
    <2>7. s.active \in Nat /\ s.active <= Concurrency
      BY <1>1, <2>1, <2>4, <2>5, <2>6, Limits, SMTT(40)
    <2> QED
      BY <1>11, <2>6, <2>7 DEF V
  <1>14. s \in QueueState
    <2>1. s.pending \in Seq(Job) /\ s.ready \in Seq(Job)
      BY <1>12 DEF List
    <2>2. s = [jobs |-> s.jobs, job |-> s.job, pending |-> s.pending, ready |-> s.ready,
               active |-> s.active]
      BY <1>3
    <2> QED
      BY <1>3, <1>13, <2>1, <2>2 DEF QueueState
  <1> QED
    BY <1>3, <1>8, <1>9, <1>12, <1>13, <1>14 DEF Fit, s, D

\* A worker moves on: a job in another state of the same name and outcome, and
\* perhaps appended to ready.
LEMMA ReadGenerationFit ==
  ASSUME NEW q, Fit(q), NEW j \in Job, q.job[j].phase = "started", NEW g \in 0 .. MaxRotations
  PROVE  LET t == [q EXCEPT !.job[j].phase = "issuing", !.job[j].generation = g]
         IN  Fit(t) /\ t.jobs = q.jobs
  <1> DEFINE b == [q.job[j] EXCEPT !.phase = "issuing", !.generation = g]
             newJob == [q.job EXCEPT ![j] = b]
             t == [q EXCEPT !.job = newJob]
  <1>0. q \in QueueState /\ q.job \in [Job -> JobState]
    BY DEF Fit, QueueState
  <1>1. [q EXCEPT !.job[j].phase = "issuing", !.job[j].generation = g] = t
    BY <1>0, Zenon DEF QueueState, JobState
  <1>2. /\ b \in JobState /\ b.phase = "issuing" /\ b.name = q.job[j].name
        /\ b.canceled = q.job[j].canceled
    BY <1>0, Zenon DEF JobState
  <1> HIDE DEF b
  <1>3. newJob \in [Job -> JobState] /\ \A i \in Job : newJob[i] = IF i = j THEN b ELSE q.job[i]
    BY <1>0, <1>2
  <1> HIDE DEF newJob
  <1>4. /\ t \in QueueState /\ t.job = newJob /\ t.jobs = q.jobs /\ t.pending = q.pending
        /\ t.ready = q.ready /\ t.active = q.active
    BY <1>0, <1>3 DEF QueueState
  <1> HIDE DEF t
  <1>5. ASSUME NEW i \in Job PROVE JobFit(t, i)
    <2>1. JobFit(q, i)
      BY DEF Fit
    <2>2. CASE i = j
      BY <1>2, <1>3, <1>4, <2>1, <2>2 DEF JobFit
    <2>3. CASE i # j
      <3>1. t.job[i] = q.job[i]
        BY <1>3, <1>4, <2>3
      <3> QED
        BY <1>4, <2>1, <3>1 DEF JobFit
    <2> QED
      BY <2>2, <2>3
  <1>6. ASSUME NEW n \in Name PROVE NameFit(t, n)
    <2>1. NameFit(q, n)
      BY DEF Fit
    <2>2. q.jobs[n] # NoJob => q.jobs[n] \in Job
      BY <1>0 DEF QueueState
    <2>3. CASE q.jobs[n] = j
      <3>1. j # NoJob => t.job[j] = b
        BY <1>3, <1>4, <2>2, <2>3, Zenon
      <3> QED
        BY <1>2, <1>4, <2>1, <2>3, <3>1, NameFitKept
    <2>4. CASE q.jobs[n] # j
      <3>1. q.jobs[n] # NoJob => t.job[q.jobs[n]] = q.job[q.jobs[n]]
        BY <1>3, <1>4, <2>2, <2>4
      <3> QED
        BY <1>4, <2>1, <3>1 DEF NameFit
    <2> QED
      BY <2>3, <2>4
  <1>7. /\ In(t, {"queued"}) = In(q, {"queued"}) /\ In(t, {"ready"}) = In(q, {"ready"})
        /\ In(t, Working) = In(q, Working)
    BY <1>2, <1>3, <1>4 DEF In, Working
  <1> QED
    BY <1>1, <1>4, <1>5, <1>6, <1>7 DEF Fit

LEMMA IssueFit ==
  ASSUME NEW q, Fit(q), NEW j \in Job, q.job[j].phase = "issuing",
         NEW result \in Revision \cup {Failed, Canceled, Expired},
         result = Canceled => q.job[j].canceled
  PROVE  LET t == [q EXCEPT !.job[j].phase = "ready", !.job[j].result = result,
                            !.ready = Append(q.ready, j)]
         IN  Fit(t) /\ t.jobs = q.jobs
  <1> DEFINE b == [q.job[j] EXCEPT !.phase = "ready", !.result = result]
             newJob == [q.job EXCEPT ![j] = b]
             newReady == Append(q.ready, j)
             t == [q EXCEPT !.job = newJob, !.ready = newReady]
  <1>0. q \in QueueState /\ q.job \in [Job -> JobState] /\ List(q.ready, In(q, {"ready"}))
    BY DEF Fit, QueueState
  <1>1. [q EXCEPT !.job[j].phase = "ready", !.job[j].result = result, !.ready = Append(q.ready, j)] = t
    BY <1>0, Zenon DEF QueueState, JobState
  <1>2. /\ b \in JobState /\ b.phase = "ready" /\ b.name = q.job[j].name
        /\ b.canceled = q.job[j].canceled /\ b.result = result
    BY <1>0, Zenon DEF JobState
  <1> HIDE DEF b
  <1>3. newJob \in [Job -> JobState] /\ \A i \in Job : newJob[i] = IF i = j THEN b ELSE q.job[i]
    BY <1>0, <1>2
  <1>4. List(newReady, In(q, {"ready"}) \cup {j}) /\ newReady \in Seq(Job)
    <2>1. j \notin In(q, {"ready"})
      BY DEF In
    <2>2. List(newReady, In(q, {"ready"}) \cup {j})
      BY <1>0, <2>1, AppendList
    <2> QED
      BY <2>2 DEF List
  <1> HIDE DEF newJob, newReady
  <1>5. /\ t \in QueueState /\ t.job = newJob /\ t.jobs = q.jobs /\ t.pending = q.pending
        /\ t.ready = newReady /\ t.active = q.active
    BY <1>0, <1>3, <1>4, Zenon DEF QueueState
  <1> HIDE DEF t
  <1>6. ASSUME NEW i \in Job PROVE JobFit(t, i)
    <2>1. JobFit(q, i)
      BY DEF Fit
    <2>2. CASE i = j
      BY <1>2, <1>3, <1>5, <2>1, <2>2 DEF JobFit
    <2>3. CASE i # j
      <3>1. t.job[i] = q.job[i]
        BY <1>3, <1>5, <2>3
      <3> QED
        BY <1>5, <2>1, <3>1 DEF JobFit
    <2> QED
      BY <2>2, <2>3
  <1>7. ASSUME NEW n \in Name PROVE NameFit(t, n)
    <2>1. NameFit(q, n)
      BY DEF Fit
    <2>2. q.jobs[n] # NoJob => q.jobs[n] \in Job
      BY <1>0 DEF QueueState
    <2>3. CASE q.jobs[n] = j
      <3>1. j # NoJob => t.job[j] = b
        BY <1>3, <1>5, <2>2, <2>3, Zenon
      <3> QED
        BY <1>2, <1>5, <2>1, <2>3, <3>1, NameFitKept
    <2>4. CASE q.jobs[n] # j
      <3>1. q.jobs[n] # NoJob => t.job[q.jobs[n]] = q.job[q.jobs[n]]
        BY <1>3, <1>5, <2>2, <2>4
      <3> QED
        BY <1>5, <2>1, <3>1 DEF NameFit
    <2> QED
      BY <2>3, <2>4
  <1>8. /\ In(t, {"queued"}) = In(q, {"queued"}) /\ In(t, {"ready"}) = In(q, {"ready"}) \cup {j}
        /\ In(t, Working) = In(q, Working)
    BY <1>2, <1>3, <1>5 DEF In, Working
  <1> QED
    BY <1>1, <1>4, <1>5, <1>6, <1>7, <1>8, Zenon DEF Fit

-----------------------------------------------------------------------------
(* What the client has *)

Version == Revision \cup {Absent, Static, Legacy}
Signed == Revision \cup {Legacy}

Typed ==
    /\ revision \in Revision \cup {""} /\ known \in SUBSET Revision
    /\ rotation \in {"settled", "stored", "counted"}
    /\ generation \in Nat /\ generation <= MaxRotations
    /\ rotation = "stored" => generation < MaxRotations
    /\ authorized \in BOOLEAN /\ started \in BOOLEAN
    /\ secrets \in SUBSET Name /\ names \in SUBSET Name
    /\ update \in [full : BOOLEAN, keys : SUBSET Name]
    /\ sent \in [Name -> Version]
    /\ requests \in Nat /\ requests <= MaxRequests

\* The inductive invariant: a push or a job is due to every name that needs one,
\* which rests on the queue's being fit.
IInv == Typed /\ Fit(queue) /\ StaleIsRevisited /\ SecretsAreServed

\* Version v of name n, for a client that watches N: a job replaces one that is
\* stale, and static Secrets are exactly the current ones, or about to be.
Renewed(q, n, v) == v \in Signed \ {revision} => HasJob(q, n) /\ revision # ""
Served(q, n, N, v) ==
    /\ n \in secrets \cap N => v = Static
    /\ n \in secrets => ~HasJob(q, n)
    /\ v = Static => n \in secrets \cap N \/ HasJob(q, n)

LEMMA Counted ==
  ASSUME NEW a \in Nat, NEW m \in Nat, a < m
  PROVE  a + 1 \in Nat /\ a + 1 <= m
  OBVIOUS

LEMMA InRange ==
  ASSUME NEW a \in Nat, NEW m \in Nat, a <= m
  PROVE  a \in 0 .. m
  OBVIOUS

LEMMA Tags ==
  /\ Static \notin Signed /\ Absent \notin Signed /\ Static # Absent
  /\ \A r \in Revision \cup {""} : r # Static /\ r # Absent /\ r # Failed /\ r # Canceled
  /\ \A r \in Revision : r # ""
  BY SdsAssumption, Zenon DEF Static, Absent, Signed, Legacy, Failed, Canceled

\* A regeneration in full leaves nothing stale without a job.
LEMMA SendFullServes ==
  ASSUME Typed, NEW q, \A n \in secrets : ~HasJob(q, n), NEW N \in SUBSET Name,
         NEW v \in [Name -> Version], NEW X,
         SendFull(q, [names |-> N, sent |-> v], X)
  PROVE  /\ sent' \in [Name -> Version]
         /\ \A n \in Name : Renewed(q, n, sent'[n]) /\ Served(q, n, N, sent'[n])
  <1> DEFINE view == [n \in Name |-> IF n \in Exempt(q) THEN Absent ELSE v[n]]
             selected == secrets \cap N
             resources == {n \in selected : n \in X \/ view[n] # Static}
             removed == {n \in Name \ selected :
                           view[n] # Absent /\ (~authorized \/ view[n] # revision)}
  <1>1. sent' = [n \in Name |-> IF n \in resources THEN Static
                                ELSE IF n \in removed THEN Absent ELSE v[n]]
    BY DEF SendFull
  <1>2. ASSUME NEW n \in Name
        PROVE  /\ n \in resources => sent'[n] = Static
               /\ n \in removed /\ n \notin resources => sent'[n] = Absent
               /\ n \notin removed /\ n \notin resources => sent'[n] = v[n]
               /\ view[n] = IF n \in Exempt(q) THEN Absent ELSE v[n]
    <2> HIDE DEF resources, removed
    <2> QED
      BY <1>1
  <1>3. \A n \in Name : v[n] \in Version /\ Static \in Version /\ Absent \in Version
    BY DEF Version
  <1>4. sent' \in [Name -> Version]
    <2> HIDE DEF resources, removed
    <2>1. \A n \in Name : sent'[n] \in Version
      BY <1>2, <1>3
    <2>2. sent' = [n \in Name |-> sent'[n]]
      BY <1>1
    <2> QED
      BY <2>1, <2>2
  <1>5. /\ revision # Static /\ revision # Absent
        /\ secrets \subseteq Name
    BY Tags, Zenon DEF Typed
  <1>6. \A n \in Exempt(q) : HasJob(q, n) /\ revision # "" /\ n \notin secrets
    BY Zenon DEF Exempt
  <1> HIDE DEF view
  <1>7. ASSUME NEW n \in Name PROVE Renewed(q, n, sent'[n]) /\ Served(q, n, N, sent'[n])
    <2>1. CASE n \in resources
      <3>1. sent'[n] = Static /\ n \in secrets \cap N
        BY <1>2, <2>1
      <3> QED
        BY <3>1, Tags, Zenon DEF Renewed, Served
    <2>2. CASE n \in removed
      <3>1. n \notin selected /\ n \notin resources
        BY <2>2
      <3>2. sent'[n] = Absent
        BY <1>2, <2>2, <3>1
      <3> QED
        BY <3>1, <3>2, Tags, Zenon DEF Renewed, Served
    <2>3. CASE n \notin resources /\ n \in selected
      <3>1. view[n] = Static /\ n \notin removed /\ n \notin Exempt(q)
        BY <1>6, <2>3, Zenon
      <3>2. sent'[n] = Static
        BY <1>2, <2>3, <3>1
      <3> QED
        BY <2>3, <3>2, Tags, Zenon DEF Renewed, Served
    <2>4. CASE n \notin removed /\ n \notin selected
      <3>1. n \notin resources /\ (view[n] = Absent \/ view[n] = revision)
        BY <2>4
      <3>2. sent'[n] = v[n]
        BY <1>2, <2>4, <3>1
      <3>3. CASE n \in Exempt(q)
        BY <1>6, <2>4, <3>3, Zenon DEF Renewed, Served
      <3>4. CASE n \notin Exempt(q)
        <4>1. sent'[n] = Absent \/ sent'[n] = revision
          BY <1>2, <3>1, <3>2, <3>4
        <4> QED
          BY <1>5, <2>4, <4>1, Tags, Zenon DEF Renewed, Served
      <3> QED
        BY <3>3, <3>4
    <2> QED
      BY <2>1, <2>2, <2>3, <2>4
  <1> QED
    BY <1>4, <1>7

\* The properties, name by name.
LEMMA ByName ==
  /\ (\A n \in Name : Renewed(queue, n, sent[n]) \/ rotation # "settled" \/ update.full
                      \/ n \in update.keys) => StaleIsRevisited
  /\ (\A n \in Name : Served(queue, n, names, sent[n]) \/ update.full \/ n \in update.keys)
        => SecretsAreServed
  /\ StaleIsRevisited /\ started =>
        \A n \in Name : Renewed(queue, n, sent[n]) \/ rotation # "settled" \/ update.full
                        \/ n \in update.keys
  /\ SecretsAreServed /\ started =>
        \A n \in Name : Served(queue, n, names, sent[n]) \/ update.full \/ n \in update.keys
  BY Zenon DEF StaleIsRevisited, SecretsAreServed, Renewed, Served, Signed

LEMMA Conclude ==
  ASSUME revision' = revision, secrets' = secrets,
         \A n \in Name : \/ Renewed(queue', n, sent'[n]) \/ rotation' # "settled"
                         \/ update'.full \/ n \in update'.keys,
         \A n \in Name : Served(queue', n, names', sent'[n]) \/ update'.full \/ n \in update'.keys
  PROVE  StaleIsRevisited' /\ SecretsAreServed'
  BY Zenon DEF StaleIsRevisited, SecretsAreServed, Renewed, Served, Signed, HasJob

\* What holds of every name once the client has asked.
Settling(n) ==
    /\ \/ Renewed(queue, n, sent[n]) \/ rotation # "settled" \/ update.full \/ n \in update.keys
    /\ Served(queue, n, names, sent[n]) \/ update.full \/ n \in update.keys

\* A handler's effect on one name whose version it leaves: the name keeps its
\* job unless it became static, and stays watched where its Secret is.
LEMMA LeftAlone ==
  ASSUME NEW n \in Name, Settling(n), NEW q, NEW N,
         q.jobs[n] = NoJob \/ n \notin secrets,
         n \in secrets \/ (HasJob(queue, n) => HasJob(q, n)),
         n \in secrets => (n \in N <=> n \in names)
  PROVE  /\ Renewed(q, n, sent[n]) \/ rotation # "settled" \/ update.full \/ n \in update.keys
         /\ Served(q, n, N, sent[n]) \/ update.full \/ n \in update.keys
  BY Zenon DEF Settling, Renewed, Served, HasJob

-----------------------------------------------------------------------------
(* The handlers of the stream *)

LEMMA PushKeeps ==
  ASSUME SetFacts, IInv, Push
  PROVE  IInv'
  <1> DEFINE q == Unsubscribe(queue, secrets)
  <1>1. /\ started /\ update' = [full |-> FALSE, keys |-> {}] /\ queue' = q
        /\ IF update.full THEN SendFull(q, [names |-> names, sent |-> sent], {})
           ELSE SendIncremental(update.keys)
        /\ revision' = revision /\ rotation' = rotation /\ generation' = generation
        /\ known' = known /\ authorized' = authorized /\ secrets' = secrets
        /\ started' = started /\ names' = names /\ requests' = requests
    BY Zenon DEF Push, signer
  <1>2. Typed /\ secrets \in SUBSET Name /\ names \in SUBSET Name /\ sent \in [Name -> Version]
    BY Zenon DEF IInv, Typed
  <1>3. Fit(q) /\ \A n \in Name : q.jobs[n] = IF n \in secrets THEN NoJob ELSE queue.jobs[n]
    BY <1>2, UnsubscribeFit DEF IInv
  <1> HIDE DEF q
  <1>4. \A n \in secrets : ~HasJob(q, n)
    BY <1>2, <1>3 DEF HasJob
  <1>5. /\ sent' \in [Name -> Version]
        /\ \A n \in Name : Renewed(q, n, sent'[n]) \/ rotation # "settled"
        /\ \A n \in Name : Served(q, n, names, sent'[n])
    <2>1. CASE update.full
      <3>1. SendFull(q, [names |-> names, sent |-> sent], {})
        BY <1>1, <2>1
      <3> QED
        BY <1>2, <1>4, <3>1, SendFullServes
    <2>2. CASE ~update.full
      <3> DEFINE K == update.keys
                 selected == K \cap secrets \cap names
                 static == [n \in Name |-> Static]
      <3>1. sent' = [n \in Name |-> IF n \in selected THEN static[n]
                                    ELSE IF n \in K \ selected THEN Absent ELSE sent[n]]
        BY <1>1, <2>2, Zenon DEF SendIncremental, Sent
      <3>2. \A n \in Name : static[n] = Static
        OBVIOUS
      <3> HIDE DEF static
      <3>3. \A n \in Name : sent'[n] = IF n \in selected THEN Static
                                       ELSE IF n \in K \ selected THEN Absent ELSE sent[n]
        BY <3>1, <3>2
      <3>4. sent' \in [Name -> Version]
        <4>1. \A n \in Name : sent'[n] \in Version
          BY <1>2, <3>3 DEF Version
        <4>2. sent' = [n \in Name |-> sent'[n]]
          BY <3>1
        <4> QED
          BY <4>1, <4>2
      <3>5. ASSUME NEW n \in Name
            PROVE  /\ Renewed(q, n, sent'[n]) \/ rotation # "settled"
                   /\ Served(q, n, names, sent'[n])
        <4>1. CASE n \in selected
          <5>1. sent'[n] = Static /\ n \in secrets \cap names
            BY <3>3, <4>1
          <5> QED
            BY <1>4, <5>1, Tags, Zenon DEF Renewed, Served
        <4>2. CASE n \in K \ selected
          <5>1. sent'[n] = Absent /\ n \notin secrets \cap names
            BY <3>3, <4>2
          <5> QED
            BY <1>4, <5>1, Tags, Zenon DEF Renewed, Served
        <4>3. CASE n \notin K
          <5>1. sent'[n] = sent[n]
            BY <3>3, <4>3
          <5>2. Settling(n)
            BY <1>1, ByName, Zenon DEF IInv, Settling
          <5>3. /\ q.jobs[n] = NoJob \/ n \notin secrets
                /\ n \in secrets \/ (HasJob(queue, n) => HasJob(q, n))
            BY <1>3 DEF HasJob
          <5>4. /\ Renewed(q, n, sent[n]) \/ rotation # "settled" \/ update.full \/ n \in K
                /\ Served(q, n, names, sent[n]) \/ update.full \/ n \in K
            BY <5>2, <5>3, LeftAlone
          <5> QED
            BY <2>2, <4>3, <5>1, <5>4, Zenon
        <4> QED
          BY <4>1, <4>2, <4>3
      <3> QED
        BY <3>4, <3>5
    <2> QED
      BY <2>1, <2>2
  <1>6. StaleIsRevisited' /\ SecretsAreServed'
    BY <1>1, <1>5, Conclude
  <1>7. Typed'
    <2>1. update' \in [full : BOOLEAN, keys : SUBSET Name]
      BY <1>1
    <2> QED
      BY <1>1, <1>2, <1>5, <2>1, Zenon DEF Typed
  <1> QED
    BY <1>1, <1>3, <1>6, <1>7 DEF IInv

LEMMA FirstRequestKeeps ==
  ASSUME SetFacts, IInv, NEW held \in Held, NEW n \in Name, FirstRequest(held, n)
  PROVE  IInv'
  <1> DEFINE restored == {m \in Name : held[m] # Absent}
             N == restored \cup {n}
             p == IF n \in secrets \cup restored THEN queue ELSE Subscribe(queue, n)
             q == Start(p)
  <1>1. /\ started' = TRUE /\ names' = N /\ queue' = q
        /\ SendFull(q, [names |-> N, sent |-> held], secrets \cap {n})
        /\ revision' = revision /\ rotation' = rotation /\ generation' = generation
        /\ known' = known /\ authorized' = authorized /\ secrets' = secrets
        /\ update' = update /\ requests' = requests
    <2>1. [names |-> N, sent |-> held].names = N
      OBVIOUS
    <2> QED
      BY <2>1, Zenon DEF FirstRequest, signer
  <1>2. Typed /\ secrets \in SUBSET Name /\ N \in SUBSET Name /\ held \in [Name -> Version]
    BY Zenon DEF IInv, Typed, Held, Version
  <1>3. Fit(p)
    BY SubscribeFit DEF IInv
  <1> HIDE DEF p
  <1>4. Fit(q) /\ \A m \in secrets : ~HasJob(q, m)
    BY <1>2, <1>3, StartFit DEF HasJob
  <1> HIDE DEF q, N
  <1>5. /\ sent' \in [Name -> Version]
        /\ \A m \in Name : Renewed(q, m, sent'[m]) /\ Served(q, m, N, sent'[m])
    BY <1>1, <1>2, <1>4, SendFullServes
  <1>6. StaleIsRevisited' /\ SecretsAreServed'
    BY <1>1, <1>5, Conclude
  <1>7. Typed'
    BY <1>1, <1>2, <1>5, Zenon DEF Typed
  <1> QED
    BY <1>1, <1>4, <1>6, <1>7 DEF IInv

LEMMA HandleRequestKeeps ==
  ASSUME SetFacts, IInv, NEW sub \in {{}} \cup {{n} : n \in Name}, NEW unsub \in {{}} \cup {{n} : n \in Name},
         HandleRequest(sub, unsub)
  PROVE  IInv'
  <1> DEFINE N == (names \cup sub) \ unsub
             v == [n \in Name |-> IF n \in unsub THEN Absent ELSE sent[n]]
             wanted == sub \ unsub
             static == wanted \cap secrets
             one == CHOOSE n \in wanted : TRUE
             p == IF wanted \subseteq secrets THEN queue ELSE Subscribe(queue, one)
             u == Unsubscribe(p, unsub)
             q == Start(u)
  <1>1. /\ started /\ requests < MaxRequests /\ requests' = requests + 1
        /\ names' = N /\ queue' = q
        /\ IF static # {} THEN SendFull(q, [names |-> N, sent |-> v], static) ELSE sent' = v
        /\ revision' = revision /\ rotation' = rotation /\ generation' = generation
        /\ known' = known /\ authorized' = authorized /\ secrets' = secrets
        /\ update' = update /\ started' = started
    <2>1. [names |-> N, sent |-> v].names = N /\ [names |-> N, sent |-> v].sent = v
      OBVIOUS
    <2> QED
      BY <2>1, Zenon DEF HandleRequest, signer
  <1>2. /\ Typed /\ secrets \in SUBSET Name /\ N \in SUBSET Name /\ v \in [Name -> Version]
        /\ sub \in SUBSET Name /\ unsub \in SUBSET Name
        /\ \A n \in Name : v[n] = IF n \in unsub THEN Absent ELSE sent[n]
    <2>1. sub \in SUBSET Name /\ unsub \in SUBSET Name
      OBVIOUS
    <2> QED
      BY <2>1, Zenon DEF IInv, Typed, Version
  <1>3. Fit(p) /\ \A n \in Name : HasJob(queue, n) => HasJob(p, n)
    <2>1. CASE wanted \subseteq secrets
      BY <2>1 DEF IInv
    <2>2. CASE ~(wanted \subseteq secrets)
      <3>1. one \in Name
        BY <1>2, <2>2
      <3> HIDE DEF one
      <3>2. p = Subscribe(queue, one)
        BY <2>2
      <3>3. /\ Fit(Subscribe(queue, one)) /\ Subscribe(queue, one).jobs[one] # NoJob
            /\ \A m \in Name \ {one} : Subscribe(queue, one).jobs[m] = queue.jobs[m]
        BY <3>1, SubscribeFit DEF IInv
      <3> QED
        BY <3>2, <3>3 DEF HasJob
    <2> QED
      BY <2>1, <2>2
  <1> HIDE DEF p
  <1>4. /\ Fit(u) /\ \A n \in Name : u.jobs[n] = IF n \in unsub THEN NoJob ELSE p.jobs[n]
    BY <1>2, <1>3, UnsubscribeFit
  <1> HIDE DEF u
  <1>5. /\ Fit(q) /\ \A n \in Name : q.jobs[n] = IF n \in secrets THEN NoJob ELSE u.jobs[n]
    BY <1>2, <1>4, StartFit
  <1> HIDE DEF q, N, v
  <1>6. \A n \in secrets : ~HasJob(q, n)
    BY <1>2, <1>5 DEF HasJob
  <1>7. /\ sent' \in [Name -> Version]
        /\ \A n \in Name : \/ Renewed(q, n, sent'[n]) \/ rotation # "settled" \/ update.full
                           \/ n \in update.keys
        /\ \A n \in Name : Served(q, n, N, sent'[n]) \/ update.full \/ n \in update.keys
    <2>1. CASE static # {}
      <3>1. SendFull(q, [names |-> N, sent |-> v], static)
        BY <1>1, <2>1
      <3> QED
        BY <1>2, <1>6, <3>1, SendFullServes
    <2>2. CASE static = {}
      <3>1. sent' = v
        BY <1>1, <2>2
      <3>2. ASSUME NEW n \in Name
            PROVE  /\ \/ Renewed(q, n, v[n]) \/ rotation # "settled" \/ update.full
                      \/ n \in update.keys
                   /\ Served(q, n, N, v[n]) \/ update.full \/ n \in update.keys
        <4>1. CASE n \in unsub
          <5>1. v[n] = Absent /\ n \notin N
            BY <1>2, <4>1 DEF N
          <5> QED
            BY <1>6, <5>1, Tags, Zenon DEF Renewed, Served
        <4>2. CASE n \notin unsub
          <5>1. v[n] = sent[n]
            BY <1>2, <4>2
          <5>2. Settling(n)
            BY <1>1, ByName, Zenon DEF IInv, Settling
          <5>3. /\ q.jobs[n] = NoJob \/ n \notin secrets
                /\ n \in secrets \/ (HasJob(queue, n) => HasJob(q, n))
            BY <1>3, <1>4, <1>5, <4>2 DEF HasJob
          <5>4. n \in secrets => (n \in N <=> n \in names)
            BY <2>2, <4>2 DEF N
          <5> QED
            BY <5>1, <5>2, <5>3, <5>4, LeftAlone, Zenon
        <4> QED
          BY <4>1, <4>2
      <3> QED
        BY <1>2, <3>1, <3>2
    <2> QED
      BY <2>1, <2>2
  <1>8. StaleIsRevisited' /\ SecretsAreServed'
    BY <1>1, <1>7, Conclude, Zenon
  <1>9. Typed'
    <2>1. requests' \in Nat /\ requests' <= MaxRequests
      <3>1. requests \in Nat /\ MaxRequests \in Nat
        BY <1>2, Limits, Zenon DEF Typed
      <3>2. requests + 1 \in Nat /\ requests + 1 <= MaxRequests
        BY <1>1, <3>1, Counted, Zenon
      <3> QED
        BY <1>1, <3>2, Zenon
    <2> QED
      BY <1>1, <1>2, <1>7, <2>1, Zenon DEF Typed
  <1> QED
    BY <1>1, <1>5, <1>8, <1>9, Zenon DEF IInv

\* Of the results in a batch, those that are sent are certificates of the
\* current signer.
LEMMA CompletionsSent ==
  ASSUME SetFacts, Typed, NEW q, Fit(q),
         Sent(NamesOf(q, Certified(q)), [n \in Name |-> q.job[q.jobs[n]].result],
              NamesOf(q, (Live(q) \ Again(q)) \ Certified(q)))
  PROVE  /\ sent' \in [Name -> Version]
         /\ \A n \in Name : /\ n \in Done(q) => sent'[n] = Absent \/ sent'[n] = revision
                            /\ n \in Done(q) => q.jobs[n] # NoJob
                            /\ n \notin Done(q) => sent'[n] = sent[n]
  <1> DEFINE C == NamesOf(q, Certified(q))
             R == NamesOf(q, (Live(q) \ Again(q)) \ Certified(q))
             result == [n \in Name |-> q.job[q.jobs[n]].result]
  <1>1. sent' = [n \in Name |-> IF n \in C THEN result[n]
                                ELSE IF n \in R THEN Absent ELSE sent[n]]
    BY Zenon DEF Sent
  <1>2. \A n \in Name : result[n] = q.job[q.jobs[n]].result
    OBVIOUS
  <1>3. Done(q) = C \cup R
    BY DEF Done, NamesOf, Certified
  <1>4. ASSUME NEW n \in Name, n \in C
        PROVE  result[n] = revision /\ revision \in Revision
    <2>1. PICK j \in Certified(q) : n = q.job[j].name
      BY <1>4 DEF NamesOf
    <2>2. j \in Live(q) /\ j \notin Again(q) /\ authorized /\ q.job[j].result # Failed
      BY <2>1 DEF Certified
    <2>3. q.jobs[n] = j /\ j \in Job
      BY <2>1, <2>2, ReadyJobs
    <2>4. q.job[j].result = revision
      BY <2>2, Zenon DEF Again, Outdated
    <2>5. q.job[j].result \in Revision \cup {Failed, Canceled, Expired, Absent}
      BY <2>3 DEF Fit, QueueState, JobState
    <2>6. revision \in Revision
      BY <2>4, <2>5, SdsAssumption, Zenon DEF Typed, Failed, Canceled, Expired, Absent
    <2> QED
      BY <1>2, <2>3, <2>4, <2>6
  <1>5. ASSUME NEW n \in Name, n \in Done(q) PROVE q.jobs[n] # NoJob
    <2>1. PICK j \in Live(q) : n = q.job[j].name
      BY <1>5 DEF Done, NamesOf
    <2> QED
      <3>1. q.jobs[q.job[j].name] = j /\ j \in Job
        BY ReadyJobs, Zenon
      <3> QED
        BY <2>1, <3>1, Limits, Zenon
  <1> HIDE DEF C, R, result
  <1>6. \A n \in Name : sent'[n] = IF n \in C THEN result[n] ELSE IF n \in R THEN Absent ELSE sent[n]
    BY <1>1
  <1>7. sent' \in [Name -> Version]
    <2>1. \A n \in Name : sent[n] \in Version
      BY Zenon DEF Typed
    <2>2. \A n \in Name : sent'[n] \in Version
      BY <1>4, <1>6, <2>1 DEF Version
    <2>3. sent' = [n \in Name |-> sent'[n]]
      BY <1>1
    <2> QED
      BY <2>2, <2>3
  <1> QED
    BY <1>3, <1>4, <1>5, <1>6, <1>7

LEMMA HandleCompletionsKeeps ==
  ASSUME SetFacts, IInv, HandleCompletions
  PROVE  IInv'
  <1> DEFINE q == Unsubscribe(queue, secrets)
             s == Settled(q)
             t == Start(s)
  <1>1. /\ queue' = t
        /\ Sent(NamesOf(q, Certified(q)), [n \in Name |-> q.job[q.jobs[n]].result],
                NamesOf(q, (Live(q) \ Again(q)) \ Certified(q)))
        /\ revision' = revision /\ rotation' = rotation /\ generation' = generation
        /\ known' = known /\ authorized' = authorized /\ secrets' = secrets
        /\ update' = update /\ started' = started /\ names' = names /\ requests' = requests
    BY Zenon DEF HandleCompletions, signer
  <1>2. Typed /\ secrets \in SUBSET Name
    BY Zenon DEF IInv, Typed
  <1>3. Fit(q) /\ \A n \in Name : q.jobs[n] = IF n \in secrets THEN NoJob ELSE queue.jobs[n]
    BY <1>2, UnsubscribeFit DEF IInv
  <1> HIDE DEF q
  <1>4. Fit(s) /\ \A n \in Name : s.jobs[n] = IF n \in Done(q) THEN NoJob ELSE q.jobs[n]
    BY <1>3, SettledFit
  <1> HIDE DEF s
  <1>5. Fit(t) /\ \A n \in Name : t.jobs[n] = IF n \in secrets THEN NoJob ELSE s.jobs[n]
    BY <1>2, <1>4, StartFit
  <1> HIDE DEF t
  <1>6. /\ sent' \in [Name -> Version]
        /\ \A n \in Name : /\ n \in Done(q) => sent'[n] = Absent \/ sent'[n] = revision
                           /\ n \in Done(q) => q.jobs[n] # NoJob
                           /\ n \notin Done(q) => sent'[n] = sent[n]
    BY <1>1, <1>2, <1>3, CompletionsSent, Zenon
  <1>7. Typed'
    BY <1>1, <1>2, <1>6, Zenon DEF Typed
  <1>8. CASE started
    <2>1. ASSUME NEW n \in Name
          PROVE  /\ \/ Renewed(t, n, sent'[n]) \/ rotation # "settled" \/ update.full
                    \/ n \in update.keys
                 /\ Served(t, n, names, sent'[n]) \/ update.full \/ n \in update.keys
      <3>1. CASE n \in Done(q)
        <4>1. n \notin secrets /\ (sent'[n] = Absent \/ sent'[n] = revision)
          BY <1>3, <1>6, <3>1
        <4>2. revision # Static
          BY <1>2, Tags, Zenon DEF Typed
        <4> QED
          BY <4>1, <4>2, Tags, Zenon DEF Renewed, Served
      <3>2. CASE n \notin Done(q)
        <4>1. sent'[n] = sent[n]
          BY <1>6, <3>2
        <4>2. Settling(n)
          BY <1>8, ByName DEF IInv, Settling
        <4>3. /\ t.jobs[n] = NoJob \/ n \notin secrets
              /\ n \in secrets \/ (HasJob(queue, n) => HasJob(t, n))
          BY <1>3, <1>4, <1>5, <3>2 DEF HasJob
        <4> QED
          BY <4>1, <4>2, <4>3, LeftAlone, Zenon
      <3> QED
        BY <3>1, <3>2
    <2>2. StaleIsRevisited' /\ SecretsAreServed'
      BY <1>1, <2>1, Conclude, Zenon
    <2> QED
      BY <1>1, <1>5, <1>7, <2>2, Zenon DEF IInv
  <1>9. CASE ~started
    <2>1. StaleIsRevisited' /\ SecretsAreServed'
      BY <1>1, <1>9, Zenon DEF StaleIsRevisited, SecretsAreServed
    <2> QED
      BY <1>1, <1>5, <1>7, <2>1, Zenon DEF IInv
  <1> QED
    BY <1>8, <1>9

-----------------------------------------------------------------------------
(* Workers, the signer and publications *)

LEMMA WorkerKeeps ==
  ASSUME SetFacts, IInv, NEW j \in Job,
         \/ ReadGeneration(j)
         \/ \E result \in Revision \cup {Failed, Canceled, Expired} : Issue(j, result)
  PROVE  IInv'
  <1>1. /\ revision' = revision /\ rotation' = rotation /\ generation' = generation
        /\ known' = known /\ authorized' = authorized /\ secrets' = secrets
        /\ update' = update /\ started' = started /\ names' = names /\ sent' = sent
        /\ requests' = requests
    BY Zenon DEF ReadGeneration, Issue, signer, watch
  <1>2. Typed /\ Fit(queue)
    BY DEF IInv
  <1>3. Fit(queue') /\ queue'.jobs = queue.jobs
    <2>1. CASE ReadGeneration(j)
      <3>1. queue.job[j].phase = "started" /\ generation \in 0 .. MaxRotations
        <4>1. generation \in Nat /\ MaxRotations \in Nat /\ generation <= MaxRotations
          BY <1>2, Limits, Zenon DEF Typed
        <4>2. generation \in 0 .. MaxRotations
          BY <4>1, InRange, Zenon
        <4> QED
          BY <2>1, <4>2, Zenon DEF ReadGeneration
      <3>2. queue' = [queue EXCEPT !.job[j].phase = "issuing", !.job[j].generation = generation]
        BY <2>1 DEF ReadGeneration
      <3> QED
        BY <1>2, <3>1, <3>2, ReadGenerationFit, Zenon
    <2>2. ASSUME NEW result \in Revision \cup {Failed, Canceled, Expired}, Issue(j, result)
          PROVE  Fit(queue') /\ queue'.jobs = queue.jobs
      <3>1. /\ queue.job[j].phase = "issuing"
            /\ queue' = [queue EXCEPT !.job[j].phase = "ready", !.job[j].result = result,
                                      !.ready = Append(queue.ready, j)]
        BY <2>2, Zenon DEF Issue
      <3>2. result = Canceled => queue.job[j].canceled
        <4>1. revision # Canceled /\ Canceled \notin known /\ Canceled # Expired /\ Failed # Canceled
          BY <1>2, Tags, Zenon DEF Typed, Canceled, Expired, Failed
        <4> QED
          BY <2>2, <4>1, Zenon DEF Issue
      <3> QED
        BY <1>2, <3>1, <3>2, IssueFit, Zenon
    <2> QED
      BY <2>1, <2>2
  <1>4. Typed'
    BY <1>1, <1>2, Zenon DEF Typed
  <1>5. StaleIsRevisited' /\ SecretsAreServed'
    <2>1. \A n : HasJob(queue', n) <=> HasJob(queue, n)
      BY <1>3, Zenon DEF HasJob
    <2>2. StaleIsRevisited'
      BY <1>1, <2>1, Zenon DEF IInv, StaleIsRevisited
    <2>3. SecretsAreServed'
      BY <1>1, <2>1, Zenon DEF IInv, SecretsAreServed
    <2> QED
      BY <2>2, <2>3
  <1> QED
    BY <1>3, <1>4, <1>5 DEF IInv

LEMMA SignerKeeps ==
  ASSUME SetFacts, IInv, \/ \E r \in Revision \cup {""} : Rotate(r)
               \/ CountRotation \/ NotifyRotation \/ ChangeAuthorization
               \/ \E n \in Name : Publish(n)
  PROVE  IInv'
  <1>1. Typed /\ Fit(queue) /\ update \in [full : BOOLEAN, keys : SUBSET Name]
    BY Zenon DEF IInv, Typed
  <1>2. queue' = queue /\ started' = started /\ names' = names /\ sent' = sent /\ requests' = requests
    BY Zenon DEF Rotate, CountRotation, NotifyRotation, ChangeAuthorization, Publish, watch
  <1>3. Fit(queue')
    BY <1>1, <1>2, Zenon
  <1>4. ASSUME NEW r \in Revision \cup {""}, Rotate(r) PROVE IInv'
    <2>1. Typed'
      BY <1>1, <1>2, <1>4, Zenon DEF Rotate, Typed
    <2>2. StaleIsRevisited' /\ SecretsAreServed'
      BY <1>2, <1>4, Zenon DEF Rotate, IInv, StaleIsRevisited, SecretsAreServed
    <2> QED
      BY <1>3, <2>1, <2>2, Zenon DEF IInv
  <1>5. CASE CountRotation
    <2>0. generation' \in Nat /\ generation' <= MaxRotations
      <3>1. generation \in Nat /\ MaxRotations \in Nat /\ generation < MaxRotations
        BY <1>1, <1>5, Limits, Zenon DEF CountRotation, Typed
      <3>2. generation + 1 \in Nat /\ generation + 1 <= MaxRotations
        BY <3>1, Counted, Zenon
      <3> QED
        BY <1>5, <3>2, Zenon DEF CountRotation
    <2>1. Typed'
      BY <1>1, <1>2, <1>5, <2>0, Zenon DEF CountRotation, Typed
    <2>2. StaleIsRevisited' /\ SecretsAreServed'
      BY <1>2, <1>5 DEF CountRotation, IInv, StaleIsRevisited, SecretsAreServed
    <2> QED
      BY <1>3, <2>1, <2>2, Zenon DEF IInv
  <1>6. CASE NotifyRotation
    <2>0. /\ update' \in [full : BOOLEAN, keys : SUBSET Name]
          /\ started => update'.full
          /\ ~started => update' = update
      BY <1>1, <1>6, Zenon DEF NotifyRotation
    <2>1. Typed'
      BY <1>1, <1>2, <1>6, <2>0, Zenon DEF NotifyRotation, Typed
    <2>2. StaleIsRevisited' /\ SecretsAreServed'
      BY <1>2, <2>0, Zenon DEF StaleIsRevisited, SecretsAreServed
    <2> QED
      BY <1>3, <2>1, <2>2, Zenon DEF IInv
  <1>7. CASE ChangeAuthorization
    <2>1. Typed'
      BY <1>1, <1>2, <1>7, Zenon DEF ChangeAuthorization, Typed, signer
    <2>2. StaleIsRevisited' /\ SecretsAreServed'
      BY <1>2, <1>7, Zenon DEF ChangeAuthorization, IInv, StaleIsRevisited, SecretsAreServed, signer
    <2> QED
      BY <1>3, <2>1, <2>2, Zenon DEF IInv
  <1>8. ASSUME NEW n \in Name, Publish(n) PROVE IInv'
    <2>0. /\ update' \in [full : BOOLEAN, keys : SUBSET Name]
          /\ started => update'.full = update.full /\ update'.keys = update.keys \cup {n}
      BY <1>1, <1>8, Zenon DEF Publish
    <2>1. Typed'
      BY <1>1, <1>2, <1>8, <2>0, Zenon DEF Publish, Typed, signer
    <2>2. \A m \in Name : m # n => (m \in secrets' <=> m \in secrets)
      BY <1>8, Zenon DEF Publish
    <2>3. revision' = revision /\ rotation' = rotation
      BY <1>8, Zenon DEF Publish, signer
    <2>4. StaleIsRevisited' /\ SecretsAreServed'
      BY <1>2, <2>0, <2>2, <2>3, Zenon DEF IInv, StaleIsRevisited, SecretsAreServed
    <2> QED
      BY <1>3, <2>1, <2>4, Zenon DEF IInv
  <1> QED
    BY <1>4, <1>5, <1>6, <1>7, <1>8, Zenon

-----------------------------------------------------------------------------
(* The theorems *)

LEMMA InitHolds ==
  ASSUME SetFacts, Init
  PROVE  IInv
  <1> DEFINE noJobs == [n \in Name |-> NoJob]
             free == [j \in Job |-> Free]
  <1>1. queue = [jobs |-> noJobs, job |-> free, pending |-> <<>>, ready |-> <<>>, active |-> 0]
    BY Zenon DEF Init
  <1>2. noJobs \in [Name -> Job \cup {NoJob}] /\ \A n \in Name : noJobs[n] = NoJob
    OBVIOUS
  <1>3. free \in [Job -> JobState] /\ \A j \in Job : free[j].phase = "free"
    BY NewJobs
  <1>4. List(<<>>, {}) /\ <<>> \in Seq(Job) /\ Cardinality({}) = 0 /\ 0 <= Concurrency
    BY EmptyList, Limits DEF SetFacts, List, EmptySetCounts
  <1> HIDE DEF noJobs, free
  <1>5. /\ queue \in QueueState /\ queue.jobs = noJobs /\ queue.job = free
        /\ queue.pending = <<>> /\ queue.ready = <<>> /\ queue.active = 0
    BY <1>1, <1>2, <1>3, <1>4, Zenon DEF QueueState
  <1>6. In(queue, {"queued"}) = {} /\ In(queue, {"ready"}) = {} /\ In(queue, Working) = {}
    BY <1>3, <1>5 DEF In, Working
  <1>7. \A j \in Job : JobFit(queue, j)
    BY <1>3, <1>5 DEF JobFit
  <1>8. \A n \in Name : NameFit(queue, n)
    BY <1>2, <1>5 DEF NameFit
  <1>9. Fit(queue)
    BY <1>4, <1>5, <1>6, <1>7, <1>8, Zenon DEF Fit
  <1>10. Typed
    <2>1. /\ generation \in Nat /\ generation <= MaxRotations
          /\ requests \in Nat /\ requests <= MaxRequests
      <3>1. generation = 0 /\ requests = 0
        BY Zenon DEF Init
      <3> QED
        BY <3>1, Limits
    <2>2. sent \in [Name -> Version] /\ known \in SUBSET Revision
      BY Zenon DEF Init, Version
    <2> QED
      BY <2>1, <2>2, Zenon DEF Init, Typed
  <1>11. StaleIsRevisited /\ SecretsAreServed
    BY Zenon DEF Init, StaleIsRevisited, SecretsAreServed
  <1> QED
    BY <1>9, <1>10, <1>11 DEF IInv

\* Every step keeps the invariant.
LEMMA NextKeeps ==
  ASSUME SetFacts, IInv, [Next]_vars
  PROVE  IInv'
  <1>1. CASE UNCHANGED vars
    <2>1. /\ revision' = revision /\ rotation' = rotation /\ generation' = generation
          /\ known' = known /\ authorized' = authorized /\ secrets' = secrets
          /\ update' = update /\ started' = started /\ names' = names /\ sent' = sent
          /\ requests' = requests /\ queue' = queue
      BY <1>1 DEF vars, signer, watch
    <2>2. Typed' /\ Fit(queue')
      BY <2>1, Zenon DEF IInv, Typed
    <2>3. StaleIsRevisited'
      BY <2>1, Zenon DEF IInv, StaleIsRevisited
    <2>4. SecretsAreServed'
      BY <2>1, Zenon DEF IInv, SecretsAreServed
    <2> QED
      BY <2>2, <2>3, <2>4 DEF IInv
  <1>2. CASE \/ \E r \in Revision \cup {""} : Rotate(r)
             \/ CountRotation \/ NotifyRotation \/ ChangeAuthorization
             \/ \E n \in Name : Publish(n)
    BY <1>2, SignerKeeps, Zenon
  <1>3. ASSUME NEW j \in Job,
               \/ ReadGeneration(j)
               \/ \E result \in Revision \cup {Failed, Canceled, Expired} : Issue(j, result)
        PROVE  IInv'
    BY <1>3, WorkerKeeps, Zenon
  <1>4. CASE Push
    BY <1>4, PushKeeps, Zenon
  <1>5. CASE HandleCompletions
    BY <1>5, HandleCompletionsKeeps, Zenon
  <1>6. ASSUME NEW held \in Held, NEW n \in Name, FirstRequest(held, n) PROVE IInv'
    BY <1>6, FirstRequestKeeps, Zenon
  <1>7. ASSUME NEW sub \in {{}} \cup {{n} : n \in Name}, NEW unsub \in {{}} \cup {{n} : n \in Name},
               HandleRequest(sub, unsub)
        PROVE  IInv'
    BY <1>7, HandleRequestKeeps, Zenon
  <1> QED
    BY <1>1, <1>2, <1>3, <1>4, <1>5, <1>6, <1>7, Zenon DEF Next

\* What the inductive invariant says of the session's books.
LEMMA Types ==
  ASSUME SetFacts, IInv
  PROVE  TypeOK
  <1>1. /\ queue.jobs \in [Name -> Job \cup {NoJob}] /\ queue.job \in [Job -> JobState]
        /\ queue.pending \in Seq(Job) /\ queue.ready \in Seq(Job) /\ queue.active \in Nat
        /\ queue.active <= Concurrency
    BY DEF IInv, Fit, QueueState
  <1>2. /\ generation \in 0 .. MaxRotations /\ requests \in 0 .. MaxRequests
        /\ queue.active \in 0 .. Concurrency
    <2>1. /\ generation \in Nat /\ generation <= MaxRotations
          /\ requests \in Nat /\ requests <= MaxRequests
      BY Zenon DEF IInv, Typed
    <2> QED
      BY <1>1, <2>1, Limits, InRange, Zenon
  <1> QED
    BY <1>1, <1>2, Zenon DEF IInv, Typed, TypeOK, Version

LEMMA Workers ==
  ASSUME IInv
  PROVE  ActiveMatchesWorkers
  <1>1. Occupying = In(queue, Working)
    BY DEF Occupying, In, Working
  <1>2. /\ queue.active = Cardinality(In(queue, Working)) /\ queue.active <= Concurrency
        /\ Range(queue.ready) = In(queue, {"ready"}) /\ IsInjective(queue.ready)
    BY Zenon DEF IInv, Fit, List
  <1>3. \A j \in Job : (queue.job[j].phase = "ready") = (j \in Range(queue.ready))
    BY <1>2 DEF In
  <1> QED
    BY <1>1, <1>2, <1>3, Zenon DEF ActiveMatchesWorkers

LEMMA Tracked ==
  ASSUME SetFacts, IInv
  PROVE  JobsAreTracked /\ CancellationIsPrivate
  <1>1. /\ \A j \in Job : JobFit(queue, j)
        /\ \A n \in Name : NameFit(queue, n)
        /\ Range(queue.pending) = In(queue, {"queued"}) /\ IsInjective(queue.pending)
    BY DEF IInv, Fit, List
  <1>2. \A n \in Name : HasJob(queue, n) =>
           LET state == queue.job[queue.jobs[n]] IN
           state.phase # "free" /\ state.name = n /\ ~state.canceled
    BY <1>1, Zenon DEF HasJob, NameFit
  <1>3. \A j \in Job : queue.job[j].phase \in {"queued", "started", "issuing", "ready"} =>
           queue.job[j].canceled \/ queue.jobs[queue.job[j].name] = j
    BY <1>1 DEF JobFit
  <1>4. \A j \in Job : (queue.job[j].phase = "queued") = (j \in Range(queue.pending))
    <2>1. \A j \in Job : j \in In(queue, {"queued"}) <=> queue.job[j].phase = "queued"
      BY DEF In
    <2>2. \A j \in Job : j \in Range(queue.pending) <=> queue.job[j].phase = "queued"
      BY <1>1, <2>1, Zenon
    <2> QED
      BY ONLY <2>2
  <1>5. CancellationIsPrivate
    <2> SUFFICES ASSUME NEW j \in Job, queue.job[j].phase = "ready",
                        queue.job[j].result = Canceled, Current(queue, j)
                 PROVE  FALSE
      BY DEF CancellationIsPrivate
    <2>1. queue.job[j].canceled /\ queue.job[j].name \in Name
      BY <1>1, Zenon DEF JobFit
    <2>2. NameFit(queue, queue.job[j].name) /\ queue.jobs[queue.job[j].name] = j /\ j # NoJob
      BY <1>1, <2>1, Limits DEF Current
    <2> QED
      BY <2>1, <2>2 DEF NameFit
  <1> QED
    BY <1>1, <1>2, <1>3, <1>4, <1>5, Zenon DEF JobsAreTracked

\* The facts on finite sets that the lemmas assume, from the library's theorems.
LEMMA FiniteSetsMeaning ==
  (\A S : IsFiniteSet(S) <=> Enumerable(S)) /\ \A S : Cardinality(S) = CountOf(S)
  BY Zenon DEF IsFiniteSet, Enumerable, Cardinality, CountOf

LOCAL INSTANCE FiniteSetTheorems

LEMMA InstanceMeaning ==
  (\A S : IsFiniteSet(S) <=> Enumerable(S)) /\ \A S : Cardinality(S) = CountOf(S)
  BY Zenon DEF IsFiniteSet, Enumerable, Cardinality, CountOf

LEMMA SetFactsHold == SetFacts
  <1>1. CardinalityIsNatural
    <2>1. \A S : IsFiniteSet(S) => Cardinality(S) \in Nat
      BY FS_CardinalityType
    <2> QED
      BY <2>1, FiniteSetsMeaning, InstanceMeaning DEF CardinalityIsNatural
  <1>2. EmptySetCounts
    BY FS_EmptySet, FiniteSetsMeaning, InstanceMeaning DEF EmptySetCounts
  <1>3. SubsetsCount
    <2>1. \A S, T : IsFiniteSet(S) /\ T \subseteq S =>
             /\ IsFiniteSet(T) /\ Cardinality(T) <= Cardinality(S)
             /\ Cardinality(T) = Cardinality(S) => T = S
      BY FS_Subset
    <2> QED
      BY <2>1, FiniteSetsMeaning, InstanceMeaning DEF SubsetsCount
  <1>4. AddingCounts
    <2>1. \A S, x : IsFiniteSet(S) /\ x \notin S =>
             IsFiniteSet(S \cup {x}) /\ Cardinality(S \cup {x}) = Cardinality(S) + 1
      BY FS_AddElement
    <2> QED
      BY <2>1, FiniteSetsMeaning, InstanceMeaning DEF AddingCounts
  <1>5. RemovingCounts
    <2>1. \A S, x : IsFiniteSet(S) /\ x \in S =>
             IsFiniteSet(S \ {x}) /\ Cardinality(S \ {x}) = Cardinality(S) - 1
      BY FS_RemoveElement
    <2> QED
      BY <2>1, FiniteSetsMeaning, InstanceMeaning DEF RemovingCounts
  <1>6. UnionsCount
    <2>1. \A S, T : IsFiniteSet(S) /\ IsFiniteSet(T) /\ S \cap T = {} =>
             IsFiniteSet(S \cup T) /\ Cardinality(S \cup T) = Cardinality(S) + Cardinality(T)
      <3> SUFFICES ASSUME NEW S, NEW T, IsFiniteSet(S), IsFiniteSet(T), S \cap T = {}
                   PROVE  IsFiniteSet(S \cup T) /\ Cardinality(S \cup T) = Cardinality(S) + Cardinality(T)
        OBVIOUS
      <3>1. /\ IsFiniteSet(S \cup T) /\ Cardinality({}) = 0
            /\ Cardinality(S \cup T) = Cardinality(S) + Cardinality(T) - Cardinality({})
        BY FS_Union, FS_EmptySet
      <3>2. Cardinality(S) \in Nat /\ Cardinality(T) \in Nat
        BY FS_CardinalityType
      <3> QED
        BY <3>1, <3>2
    <2> QED
      BY <2>1, FiniteSetsMeaning, InstanceMeaning DEF UnionsCount
  <1>7. IntervalsCount
    <2>1. \A m \in Nat : /\ IsFiniteSet(1 .. m) /\ Cardinality(1 .. m) = m
                         /\ IsFiniteSet(0 .. m - 1) /\ Cardinality(0 .. m - 1) = m
      BY FS_Interval
    <2> QED
      BY <2>1, FiniteSetsMeaning, InstanceMeaning DEF IntervalsCount
  <1>8. InjectionsCount
    <2>1. ASSUME NEW S, NEW T, NEW f \in [S -> T], IsFiniteSet(T),
                 \A s, t \in S : f[s] = f[t] => s = t
          PROVE  /\ IsFiniteSet(S) /\ Cardinality(S) <= Cardinality(T)
                 /\ Cardinality(S) = Cardinality(T) <=> \A t \in T : \E s \in S : f[s] = t
      <3>1. f \in Injection(S, T)
        BY <2>1 DEF Injection, IsInjective
      <3>2. f \in Surjection(S, T) <=> \A t \in T : \E s \in S : f[s] = t
        BY <3>1 DEF Surjection, Injection
      <3> QED
        BY <2>1, <3>1, <3>2, FS_Injection
    <2> QED
      BY <2>1, FiniteSetsMeaning, InstanceMeaning DEF InjectionsCount
  <1> QED
    BY <1>1, <1>2, <1>3, <1>4, <1>5, <1>6, <1>7, <1>8 DEF SetFacts

LEMMA Invariance == Spec => []IInv
  <1>1. Init => IInv
    BY InitHolds, SetFactsHold
  <1>2. IInv /\ [Next]_vars => IInv'
    BY NextKeeps, SetFactsHold
  <1> QED
    BY <1>1, <1>2, PTL DEF Spec

\* The books of sdsSession add up: active counts the workers whose completion
\* has not been handled and never exceeds sdsStreamConcurrency, so that ready,
\* made with that capacity, never blocks a worker, and holds each finished job
\* once.
THEOREM SessionIsConsistent == Spec => [](TypeOK /\ ActiveMatchesWorkers)
  <1>1. IInv => TypeOK /\ ActiveMatchesWorkers
    BY Types, Workers, SetFactsHold
  <1> QED
    BY <1>1, Invariance, PTL

\* Every job of an on-demand certificate is where its phase says, in pending,
\* with a worker or in ready, and in the map of names unless it was canceled:
\* ensureJob, startJobs, cancelJob and the workers between them lose no job,
\* start none twice and never keep two for a name.
THEOREM JobsStayTracked == Spec => []JobsAreTracked
  <1>1. IInv => JobsAreTracked
    BY Tracked, SetFactsHold
  <1> QED
    BY <1>1, Invariance, PTL

\* A job whose context was canceled is never the current job of a name when its
\* result is handled, so that the cancellation of an unsubscribed name neither
\* ends the stream nor is taken for the result of a later subscription.
THEOREM CancellationStaysPrivate == Spec => []CancellationIsPrivate
  <1>1. IInv => CancellationIsPrivate
    BY Tracked, SetFactsHold
  <1> QED
    BY <1>1, Invariance, PTL

\* A certificate of a signer that is no longer current is always due to be
\* revisited: whatever the order of the rotation's handlers, of notices, of
\* requests and of the workers' completions, generateOnDemandSecrets removes it
\* or a job replaces it.
THEOREM StaleCertificatesAreRevisited == Spec => []StaleIsRevisited
  BY Invariance, PTL DEF IInv

\* Static Secrets take precedence: between pushes the client has the ones it
\* watches, and no certificate is being issued for a name that has one.
THEOREM StaticSecretsAreServed == Spec => []SecretsAreServed
  BY Invariance, PTL DEF IInv
=============================================================================
