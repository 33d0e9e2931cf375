-------------------------- MODULE StreamFlowProofs --------------------------
(***************************************************************************)
(* Proofs about StreamFlow, for any finite set of streams and any sizes of *)
(* the pools: no pool is taken beyond its capacity, every slot in use has  *)
(* one owner, and responses without a reply are covered by a lease.        *)
(***************************************************************************)
EXTENDS StreamFlow, FiniteSetTheorems, SequenceTheorems, TLAPS

-----------------------------------------------------------------------------
(* The inductive invariant *)

\* A lease is of one of the pools for responses.
Lease == {Idle, "initial", "request", "push"}

\* The state of one stream: it works only once it is open, a push is handled
\* in the loop only, and responses and lease go together.
Fit(st) ==
    /\ st \in State /\ st.lease \in Lease
    /\ st.phase \in {"gone", "opening"} => st.work = NoRequest /\ st.lease = Idle
    /\ st.handling => st.phase = "loop"
    /\ st.unacknowledged # {} => st.lease # Idle
    /\ st.phase = "loop" /\ st.work = NoRequest /\ ~st.handling /\ st.lease # Idle
          => st.unacknowledged # {}

\* The scheduler queues a stream once and not while it has a push.
SchedulerOK ==
    /\ queue \in Seq(Stream) /\ assigned \subseteq Stream /\ later \subseteq assigned
    /\ \A i \in DOMAIN queue : queue[i] \notin assigned
    /\ \A i, j \in DOMAIN queue : queue[i] = queue[j] => i = j

IInv ==
    /\ used \in [Pool -> Nat] /\ \A p \in Pool : used[p] <= Capacity(p)
    /\ stream \in [Stream -> State]
    /\ \A s \in Stream : Fit(stream[s]) /\ (stream[s].handling => s \in assigned)
    /\ SchedulerOK
    /\ SlotsMatchHolders

\* Stream s, in state st and with the streams A assigned, holds a slot of p.
Holds(st, A, s, p) ==
    \/ p = st.lease
    \/ p = "admissions" /\ st.phase \in {"opening", "first"}
    \/ p = "streams" /\ Limited(s) /\ st.phase \in {"first", "loop"}
    \/ p = "scheduler" /\ s \in A

-----------------------------------------------------------------------------
(* Counting slots *)

\* Held lists the pools of which the stream holds a slot.
LEMMA HeldIsHolds ==
  ASSUME NEW s, NEW p
  PROVE  p \in Held(s) <=> Holds(stream[s], assigned, s, p)
  BY DEF Held, Holds

\* One stream more or less among the holders is one slot more or less.
LEMMA CountStep ==
  ASSUME NEW A \in SUBSET Stream, NEW B \in SUBSET Stream, NEW s \in Stream,
         \A q \in Stream \ {s} : q \in A <=> q \in B
  PROVE  /\ Cardinality(A) \in Nat /\ Cardinality(B) \in Nat
         /\ s \in A /\ s \notin B => Cardinality(B) = Cardinality(A) - 1
         /\ s \notin A /\ s \in B => Cardinality(B) = Cardinality(A) + 1
         /\ (s \in A <=> s \in B) => Cardinality(B) = Cardinality(A)
  <1>1. IsFiniteSet(A) /\ IsFiniteSet(B)
    BY FlowAssumption, FS_Subset
  <1>2. Cardinality(A) \in Nat /\ Cardinality(B) \in Nat
    BY <1>1, FS_CardinalityType
  <1>3. ASSUME s \in A, s \notin B PROVE Cardinality(B) = Cardinality(A) - 1
    <2>1. B = A \ {s}
      BY <1>3
    <2> QED
      BY <1>1, <1>3, <2>1, FS_RemoveElement
  <1>4. ASSUME s \notin A, s \in B PROVE Cardinality(B) = Cardinality(A) + 1
    <2>1. B = A \cup {s}
      BY <1>4
    <2> QED
      BY <1>1, <1>4, <2>1, FS_AddElement
  <1>5. ASSUME s \in A <=> s \in B PROVE Cardinality(B) = Cardinality(A)
    <2>1. B = A
      BY <1>5
    <2> QED
      BY <2>1
  <1> QED
    BY <1>2, <1>3, <1>4, <1>5

\* A step of one stream keeps the invariant when its new state is fit and the
\* pools change by what it takes and gives back.
LEMMA StepKeeps ==
  ASSUME IInv, NEW s \in Stream, NEW st, Fit(st), stream' = [stream EXCEPT ![s] = st],
         st.handling => s \in assigned',
         \A q \in Stream \ {s} : q \in assigned' <=> q \in assigned,
         SchedulerOK', DOMAIN used' = Pool, used' = [p \in Pool |-> used'[p]],
         \A p \in Pool :
            \/ /\ Holds(stream[s], assigned, s, p) /\ ~Holds(st, assigned', s, p)
               /\ used'[p] = used[p] - 1
            \/ /\ ~Holds(stream[s], assigned, s, p) /\ Holds(st, assigned', s, p)
               /\ used'[p] = used[p] + 1 /\ used[p] < Capacity(p)
            \/ /\ Holds(stream[s], assigned, s, p) <=> Holds(st, assigned', s, p)
               /\ used'[p] = used[p]
  PROVE  IInv'
  <1>1. stream \in [Stream -> State] /\ st \in State
    BY DEF IInv, Fit
  <1>2. stream' \in [Stream -> State] /\ stream'[s] = st
    BY <1>1
  <1>3. ASSUME NEW q \in Stream \ {s} PROVE stream'[q] = stream[q]
    BY <1>1
  <1>4. ASSUME NEW q \in Stream PROVE Fit(stream'[q]) /\ (stream'[q].handling => q \in assigned')
    <2>1. CASE q = s
      BY <1>2, <2>1, Zenon
    <2>2. CASE q # s
      BY <1>3, <2>2 DEF IInv
    <2> QED
      BY <2>1, <2>2
  <1>5. ASSUME NEW p \in Pool
        PROVE  /\ used'[p] = Cardinality({q \in Stream : p \in Held(q)'})
               /\ used'[p] \in Nat /\ used'[p] <= Capacity(p)
    <2> DEFINE A == {q \in Stream : p \in Held(q)}
               B == {q \in Stream : p \in Held(q)'}
    <2>1. \A q \in Stream : q \in A <=> Holds(stream[q], assigned, q, p)
      BY HeldIsHolds
    <2>2. \A q \in Stream : q \in B <=> Holds(stream'[q], assigned', q, p)
      BY DEF Held, Holds, Limited
    <2>3. \A q \in Stream \ {s} : q \in A <=> q \in B
      BY <1>3, <2>1, <2>2 DEF Holds
    <2>4. (s \in A <=> Holds(stream[s], assigned, s, p)) /\ (s \in B <=> Holds(st, assigned', s, p))
      BY <1>2, <2>1, <2>2, Zenon
    <2>5. used[p] = Cardinality(A) /\ used[p] <= Capacity(p)
      BY DEF IInv, SlotsMatchHolders
    <2>6. A \in SUBSET Stream /\ B \in SUBSET Stream
      OBVIOUS
    <2>7. Capacity(p) \in Nat
      BY FlowAssumption DEF Capacity
    <2> HIDE DEF A, B
    <2>8. /\ Cardinality(A) \in Nat /\ Cardinality(B) \in Nat
          /\ s \in A /\ s \notin B => Cardinality(B) = Cardinality(A) - 1
          /\ s \notin A /\ s \in B => Cardinality(B) = Cardinality(A) + 1
          /\ (s \in A <=> s \in B) => Cardinality(B) = Cardinality(A)
      BY <2>3, <2>6, CountStep
    <2>9. used'[p] = Cardinality(B) /\ used'[p] <= Capacity(p)
      BY <2>4, <2>5, <2>7, <2>8
    <2> QED
      BY <2>8, <2>9 DEF B
  <1>6. SlotsMatchHolders'
    BY <1>5 DEF SlotsMatchHolders
  <1>7. used' \in [Pool -> Nat]
    BY <1>5
  <1> QED
    BY <1>2, <1>4, <1>5, <1>6, <1>7, Zenon DEF IInv, Capacity

\* A step that takes and gives back nothing.
LEMMA QuietKeeps ==
  ASSUME IInv, NEW s \in Stream, NEW st, Fit(st), stream' = [stream EXCEPT ![s] = st],
         st.lease = stream[s].lease, st.phase = stream[s].phase,
         st.handling => s \in assigned, UNCHANGED <<used, scheduler>>
  PROVE  IInv'
  <1>1. used' = used /\ queue' = queue /\ assigned' = assigned /\ later' = later
    BY DEF scheduler
  <1>2. used \in [Pool -> Nat] /\ SchedulerOK
    BY DEF IInv
  <1>3. SchedulerOK'
    BY <1>1, <1>2 DEF SchedulerOK
  <1>4. DOMAIN used' = Pool /\ used' = [p \in Pool |-> used'[p]]
    BY <1>1, <1>2
  <1>5. \A p \in Pool : /\ Holds(stream[s], assigned, s, p) <=> Holds(st, assigned', s, p)
                        /\ used'[p] = used[p]
    BY <1>1 DEF Holds
  <1> QED
    BY <1>1, <1>3, <1>4, <1>5, StepKeeps

\* A stream that is not there is fit and holds nothing.
LEMMA GoneIsFit ==
  /\ Fit(Gone) /\ Gone.lease = Idle /\ Gone.phase = "gone" /\ Gone.handling = FALSE
  /\ Gone.work = NoRequest /\ Gone.unacknowledged = {} /\ Gone \in State
  <1>1. Gone \in State /\ Gone.lease = Idle /\ Gone.phase = "gone" /\ Gone.unacknowledged = {}
        /\ Gone.work = NoRequest /\ Gone.handling = FALSE
    BY EmptySeq DEF Gone, State, NoRequest, Request, Idle
  <1> QED
    BY <1>1 DEF Fit, Lease

\* No stream, no slot in use.
LEMMA InitIInv == Init => IInv
  <1> SUFFICES ASSUME Init PROVE IInv
    OBVIOUS
  <1>1. Gone \in State /\ Gone.lease = Idle /\ Gone.phase = "gone" /\ Gone.handling = FALSE
    BY GoneIsFit
  <1>2. Fit(Gone)
    BY GoneIsFit
  <1>3. \A s \in Stream : stream[s] = Gone
    BY DEF Init
  <1>4. /\ used \in [Pool -> Nat] /\ \A p \in Pool : used[p] = 0 /\ used[p] <= Capacity(p)
        /\ stream \in [Stream -> State]
    BY <1>1, FlowAssumption DEF Init, Capacity
  <1>5. SchedulerOK
    BY EmptySeq DEF Init, SchedulerOK
  <1>6. SlotsMatchHolders
    <2> SUFFICES ASSUME NEW p \in Pool PROVE {s \in Stream : p \in Held(s)} = {}
      BY <1>4, FS_EmptySet DEF SlotsMatchHolders
    <2>1. \A s \in Stream : ~Holds(stream[s], assigned, s, p)
      BY <1>1, <1>3 DEF Holds, Init, Pool, Idle
    <2> QED
      BY <2>1, HeldIsHolds
  <1> QED
    BY <1>1, <1>2, <1>3, <1>4, <1>5, <1>6 DEF IInv

-----------------------------------------------------------------------------
(* The scheduler *)

\* Taking a stream off the queue leaves every other one in it, once.
LEMMA WithoutOnce ==
  ASSUME NEW q \in Seq(Stream), NEW s, \A i, j \in DOMAIN q : q[i] = q[j] => i = j
  PROVE  /\ Without(q, s) \in Seq(Stream)
         /\ \A i, j \in DOMAIN Without(q, s) : Without(q, s)[i] = Without(q, s)[j] => i = j
         /\ \A i \in DOMAIN Without(q, s) : \E j \in DOMAIN q : Without(q, s)[i] = q[j]
  <1>1. CASE s \notin Range(q)
    BY <1>1 DEF Without
  <1>2. CASE s \in Range(q)
    <2> DEFINE k == CHOOSE i \in DOMAIN q : q[i] = s
               n == Len(q)
               w == [j \in 1 .. n - 1 |-> IF j < k THEN q[j] ELSE q[j + 1]]
    <2>1. Without(q, s) = w
      BY <1>2, Zenon DEF Without
    <2>2. n \in Nat /\ DOMAIN q = 1 .. n /\ \A i \in 1 .. n : q[i] \in Stream
      BY LenProperties, ElementOfSeq
    <2>3. k \in 1 .. n
      BY <1>2, <2>2 DEF Range
    <2> HIDE DEF k, n
    <2>4. n - 1 \in Nat
      BY <2>2, <2>3
    <2>5. ASSUME NEW j \in 1 .. n - 1
          PROVE  /\ j < k => w[j] = q[j] /\ j \in 1 .. n
                 /\ ~(j < k) => w[j] = q[j + 1] /\ j + 1 \in 1 .. n
      BY <2>2
    <2>6. DOMAIN w = 1 .. n - 1
      OBVIOUS
    <2> HIDE DEF w
    <2>7. \A j \in 1 .. n - 1 : w[j] \in Stream /\ \E i \in DOMAIN q : w[j] = q[i]
      BY <2>2, <2>5
    <2>8. w \in Seq(Stream)
      BY <2>4, <2>6, <2>7, IsASeq DEF w
    <2>9. ASSUME NEW i \in 1 .. n - 1, NEW j \in 1 .. n - 1, w[i] = w[j] PROVE i = j
      <3>1. i \in Int /\ j \in Int /\ k \in Int
        BY <2>2, <2>3
      <3>2. CASE i < k /\ j < k
        BY <2>2, <2>5, <2>9, <3>2
      <3>3. CASE i < k /\ ~(j < k)
        <4>1. i = j + 1
          BY <2>2, <2>5, <2>9, <3>3
        <4> QED
          BY <3>1, <3>3, <4>1
      <3>4. CASE ~(i < k) /\ j < k
        <4>1. i + 1 = j
          BY <2>2, <2>5, <2>9, <3>4
        <4> QED
          BY <3>1, <3>4, <4>1
      <3>5. CASE ~(i < k) /\ ~(j < k)
        <4>1. i + 1 = j + 1
          BY <2>2, <2>5, <2>9, <3>5
        <4> QED
          BY <3>1, <4>1
      <3> QED
        BY <3>2, <3>3, <3>4, <3>5
    <2> QED
      BY <2>1, <2>6, <2>7, <2>8, <2>9
  <1> QED
    BY <1>1, <1>2

\* Appending a stream that the queue does not hold.
LEMMA AppendOnce ==
  ASSUME NEW q \in Seq(Stream), NEW s \in Stream,
         \A i, j \in DOMAIN q : q[i] = q[j] => i = j, \A i \in DOMAIN q : q[i] # s
  PROVE  /\ Append(q, s) \in Seq(Stream)
         /\ \A i, j \in DOMAIN Append(q, s) : Append(q, s)[i] = Append(q, s)[j] => i = j
         /\ \A i \in DOMAIN Append(q, s) :
               Append(q, s)[i] = s \/ \E j \in DOMAIN q : Append(q, s)[i] = q[j]
  <1> DEFINE a == Append(q, s)
             n == Len(q)
  <1>1. /\ n \in Nat /\ DOMAIN q = 1 .. n /\ a \in Seq(Stream) /\ DOMAIN a = 1 .. n + 1
        /\ \A i \in 1 .. n : a[i] = q[i]
        /\ a[n + 1] = s
    BY AppendProperties, LenProperties
  <1> HIDE DEF a, n
  <1>2. \A i \in 1 .. n + 1 : i \in 1 .. n \/ i = n + 1
    BY <1>1
  <1>3. \A i, j \in 1 .. n + 1 : a[i] = a[j] => i = j
    BY <1>1, <1>2
  <1>4. \A i \in 1 .. n + 1 : a[i] = s \/ \E j \in 1 .. n : a[i] = q[j]
    BY <1>1, <1>2
  <1> QED
    BY <1>1, <1>3, <1>4 DEF a

\* PushScheduler.Done on an assigned push
LEMMA DoneKeeps ==
  ASSUME SchedulerOK, NEW s \in Stream, s \in assigned, Done(s)
  PROVE  /\ SchedulerOK' /\ s \notin assigned'
         /\ \A q \in Stream \ {s} : q \in assigned' <=> q \in assigned
  <1>1. /\ assigned' = assigned \ {s} /\ later' = later \ {s}
        /\ queue' = IF s \in later THEN Append(queue, s) ELSE queue
    BY DEF Done
  <1>2. CASE s \in later
    <2>1. \A i \in DOMAIN queue : queue[i] # s
      BY DEF SchedulerOK
    <2>2. /\ queue' \in Seq(Stream)
          /\ \A i, j \in DOMAIN queue' : queue'[i] = queue'[j] => i = j
          /\ \A i \in DOMAIN queue' : queue'[i] = s \/ \E j \in DOMAIN queue : queue'[i] = queue[j]
      BY <1>1, <1>2, <2>1, AppendOnce DEF SchedulerOK
    <2> QED
      BY <1>1, <2>2 DEF SchedulerOK
  <1>3. CASE s \notin later
    BY <1>1, <1>3 DEF SchedulerOK
  <1> QED
    BY <1>2, <1>3

-----------------------------------------------------------------------------
(* One lemma per step of a stream *)

\* The parts of the invariant that the steps of stream s use.
LEMMA Parts ==
  ASSUME IInv, NEW s \in Stream
  PROVE  /\ Fit(stream[s]) /\ stream[s] \in State /\ stream[s].lease \in Lease
         /\ stream[s].handling => s \in assigned
         /\ used \in [Pool -> Nat] /\ DOMAIN used = Pool /\ used = [p \in Pool |-> used[p]]
         /\ SchedulerOK
  <1>1. used \in [Pool -> Nat] /\ SchedulerOK /\ Fit(stream[s]) /\ (stream[s].handling => s \in assigned)
    BY DEF IInv
  <1> QED
    BY <1>1 DEF Fit

\* The end of a stream at any point gives back exactly what it holds.
LEMMA EndKeeps ==
  ASSUME IInv, NEW s \in Stream, End(s)
  PROVE  IInv'
  <1>1. /\ stream' = [stream EXCEPT ![s] = Gone] /\ used' = Returned(Held(s))
        /\ queue' = Without(queue, s) /\ assigned' = assigned \ {s} /\ later' = later \ {s}
    BY DEF End, Become
  <1>2. SchedulerOK
    BY Parts
  <1>3. SchedulerOK'
    <2>1. /\ queue' \in Seq(Stream)
          /\ \A i, j \in DOMAIN queue' : queue'[i] = queue'[j] => i = j
          /\ \A i \in DOMAIN queue' : \E j \in DOMAIN queue : queue'[i] = queue[j]
      BY <1>1, <1>2, WithoutOnce DEF SchedulerOK
    <2> QED
      BY <1>1, <1>2, <2>1 DEF SchedulerOK
  <1>4. DOMAIN used' = Pool /\ used' = [p \in Pool |-> used'[p]]
    BY <1>1 DEF Returned
  <1>5. ASSUME NEW p \in Pool
        PROVE  \/ Holds(stream[s], assigned, s, p) /\ ~Holds(Gone, assigned', s, p) /\ used'[p] = used[p] - 1
               \/ (Holds(stream[s], assigned, s, p) <=> Holds(Gone, assigned', s, p)) /\ used'[p] = used[p]
    <2>1. used'[p] = IF p \in Held(s) THEN used[p] - 1 ELSE used[p]
      BY <1>1 DEF Returned
    <2>2. ~Holds(Gone, assigned', s, p)
      BY <1>1, GoneIsFit DEF Holds, Pool, Idle
    <2>3. p \in Held(s) <=> Holds(stream[s], assigned, s, p)
      BY HeldIsHolds
    <2> QED
      BY <2>1, <2>2, <2>3, Zenon
  <1>6. \A q \in Stream \ {s} : q \in assigned' <=> q \in assigned
    BY <1>1
  <1> QED
    BY <1>1, <1>3, <1>4, <1>5, <1>6, GoneIsFit, StepKeeps

\* admitInitial takes the admission.
LEMMA AdmitInitialKeeps ==
  ASSUME IInv, NEW s \in Stream, AdmitInitial(s)
  PROVE  IInv'
  <1> DEFINE st == [Gone EXCEPT !.phase = "opening"]
  <1>1. /\ stream[s].phase = "gone" /\ used["admissions"] < Capacity("admissions")
        /\ stream' = [stream EXCEPT ![s] = st] /\ used' = Taken("admissions")
        /\ queue' = queue /\ assigned' = assigned /\ later' = later
    BY DEF AdmitInitial, Become, Free, scheduler
  <1>2. /\ st \in State /\ st.lease = Idle /\ st.phase = "opening" /\ st.handling = FALSE
        /\ st.work = NoRequest /\ st.unacknowledged = {}
    BY GoneIsFit DEF State
  <1> HIDE DEF st
  <1>3. Fit(st)
    BY <1>2 DEF Fit, Lease
  <1>4. stream[s].lease = Idle
    BY <1>1, Parts DEF Fit
  <1>5. SchedulerOK'
    BY <1>1, Parts DEF SchedulerOK
  <1>6. DOMAIN used' = Pool /\ used' = [p \in Pool |-> used'[p]]
    BY <1>1, Parts DEF Taken
  <1>7. ASSUME NEW p \in Pool
        PROVE  \/ /\ ~Holds(stream[s], assigned, s, p) /\ Holds(st, assigned', s, p)
                  /\ used'[p] = used[p] + 1 /\ used[p] < Capacity(p)
               \/ (Holds(stream[s], assigned, s, p) <=> Holds(st, assigned', s, p)) /\ used'[p] = used[p]
    <2>1. used'[p] = IF p = "admissions" THEN used[p] + 1 ELSE used[p]
      BY <1>1, Parts DEF Taken
    <2> QED
      BY <1>1, <1>2, <1>4, <2>1 DEF Holds, Pool, Idle
  <1> QED
    BY <1>1, <1>2, <1>3, <1>5, <1>6, <1>7, StepKeeps, ZenonT(40)

\* admitPodStream takes a slot of the Pod streams, if these are limited.
LEMMA OpenKeeps ==
  ASSUME IInv, NEW s \in Stream, Open(s)
  PROVE  IInv'
  <1> DEFINE st == [stream[s] EXCEPT !.phase = "first", !.work = Demand]
  <1>1. /\ stream[s].phase = "opening"
        /\ IF Limited(s) THEN used["streams"] < Capacity("streams") /\ used' = Taken("streams")
           ELSE used' = used
        /\ stream' = [stream EXCEPT ![s] = st]
        /\ queue' = queue /\ assigned' = assigned /\ later' = later
    BY DEF Open, Become, Free, scheduler
  <1>a. stream[s] \in State
    BY Parts
  <1>2. /\ st \in State /\ st.lease = stream[s].lease /\ st.phase = "first"
        /\ st.handling = stream[s].handling /\ st.unacknowledged = stream[s].unacknowledged
    BY <1>a DEF State, Request, Demand
  <1> HIDE DEF st
  <1>3. Fit(st) /\ ~st.handling
    BY <1>1, <1>2, Parts DEF Fit
  <1>4. stream[s].lease \in Lease
    BY Parts
  <1>5. SchedulerOK'
    BY <1>1, Parts DEF SchedulerOK
  <1>6. DOMAIN used' = Pool /\ used' = [p \in Pool |-> used'[p]]
    BY <1>1, Parts DEF Taken
  <1>7. ASSUME NEW p \in Pool
        PROVE  \/ /\ ~Holds(stream[s], assigned, s, p) /\ Holds(st, assigned', s, p)
                  /\ used'[p] = used[p] + 1 /\ used[p] < Capacity(p)
               \/ (Holds(stream[s], assigned, s, p) <=> Holds(st, assigned', s, p)) /\ used'[p] = used[p]
    <2>1. used'[p] = IF p = "streams" /\ Limited(s) THEN used[p] + 1 ELSE used[p]
      BY <1>1, Parts DEF Taken
    <2> QED
      BY <1>1, <1>2, <1>4, <2>1 DEF Holds, Pool, Idle, Lease
  <1>8. \A p \in Pool :
           \/ /\ Holds(stream[s], assigned, s, p) /\ ~Holds(st, assigned', s, p)
              /\ used'[p] = used[p] - 1
           \/ /\ ~Holds(stream[s], assigned, s, p) /\ Holds(st, assigned', s, p)
              /\ used'[p] = used[p] + 1 /\ used[p] < Capacity(p)
           \/ /\ Holds(stream[s], assigned, s, p) <=> Holds(st, assigned', s, p)
              /\ used'[p] = used[p]
    BY <1>7, Zenon
  <1>9. (st.handling => s \in assigned') /\ \A q \in Stream \ {s} : q \in assigned' <=> q \in assigned
    BY <1>1, <1>3
  <1>10. stream' = [stream EXCEPT ![s] = st] /\ Fit(st)
    BY <1>1, <1>3
  <1> QED
    BY <1>5, <1>6, <1>8, <1>9, <1>10, StepKeeps

\* Taking a lease from a pool for responses.
LEMMA LeaseKeeps ==
  ASSUME IInv, NEW s \in Stream, NEW pool \in Lease \ {Idle},
         stream[s].lease = Idle, stream[s].work # NoRequest \/ stream[s].handling,
         used[pool] < Capacity(pool), used' = Taken(pool),
         stream' = [stream EXCEPT ![s] = [stream[s] EXCEPT !.lease = pool]],
         UNCHANGED scheduler
  PROVE  IInv'
  <1> DEFINE st == [stream[s] EXCEPT !.lease = pool]
  <1>1. queue' = queue /\ assigned' = assigned /\ later' = later
    BY DEF scheduler
  <1>a. stream[s] \in State
    BY Parts
  <1>2. /\ st \in State /\ st.lease = pool /\ st.phase = stream[s].phase
        /\ st.handling = stream[s].handling /\ st.unacknowledged = stream[s].unacknowledged
        /\ st.work = stream[s].work
    BY <1>a DEF State, Lease, Pool, Idle
  <1>b. stream' = [stream EXCEPT ![s] = st]
    OBVIOUS
  <1> HIDE DEF st
  <1>3. Fit(st) /\ (st.handling => s \in assigned)
    BY <1>2, Parts DEF Fit, Idle
  <1>5. SchedulerOK'
    BY <1>1, Parts DEF SchedulerOK
  <1>6. DOMAIN used' = Pool /\ used' = [p \in Pool |-> used'[p]]
    BY Parts DEF Taken
  <1>7. ASSUME NEW p \in Pool
        PROVE  \/ /\ ~Holds(stream[s], assigned, s, p) /\ Holds(st, assigned', s, p)
                  /\ used'[p] = used[p] + 1 /\ used[p] < Capacity(p)
               \/ (Holds(stream[s], assigned, s, p) <=> Holds(st, assigned', s, p)) /\ used'[p] = used[p]
    <2>1. used'[p] = IF p = pool THEN used[p] + 1 ELSE used[p]
      BY Parts DEF Taken
    <2> QED
      BY <1>1, <1>2, <2>1 DEF Holds, Pool, Idle, Lease
  <1>8. \A p \in Pool :
           \/ /\ Holds(stream[s], assigned, s, p) /\ ~Holds(st, assigned', s, p)
              /\ used'[p] = used[p] - 1
           \/ /\ ~Holds(stream[s], assigned, s, p) /\ Holds(st, assigned', s, p)
              /\ used'[p] = used[p] + 1 /\ used[p] < Capacity(p)
           \/ /\ Holds(stream[s], assigned, s, p) <=> Holds(st, assigned', s, p)
              /\ used'[p] = used[p]
    BY <1>7, Zenon
  <1>9. (st.handling => s \in assigned') /\ \A q \in Stream \ {s} : q \in assigned' <=> q \in assigned
    BY <1>1, <1>3
  <1>10. stream' = [stream EXCEPT ![s] = st] /\ Fit(st)
    BY <1>1, <1>3, <1>b
  <1> QED
    BY <1>5, <1>6, <1>8, <1>9, <1>10, StepKeeps

\* handleRequest waits for a slot of requestSlots or initialSlots.
LEMMA AcquireKeeps ==
  ASSUME IInv, NEW s \in Stream, Acquire(s)
  PROVE  IInv'
  <1>1. /\ stream[s].work # NoRequest /\ stream[s].lease = Idle
        /\ used[RequestPool(s)] < Capacity(RequestPool(s)) /\ used' = Taken(RequestPool(s))
        /\ stream' = [stream EXCEPT ![s] = [stream[s] EXCEPT !.lease = RequestPool(s)]]
        /\ UNCHANGED scheduler
    BY Zenon DEF Acquire, Busy, Free, Become
  <1>2. RequestPool(s) \in Lease \ {Idle}
    BY DEF RequestPool, Lease, Idle
  <1> QED
    BY <1>1, <1>2, LeaseKeeps

\* handlePush takes a slot of pushSlots.
LEMMA StartLeaseKeeps ==
  ASSUME IInv, NEW s \in Stream, StartLease(s)
  PROVE  IInv'
  <1>1. /\ stream[s].handling /\ stream[s].lease = Idle
        /\ used["push"] < Capacity("push") /\ used' = Taken("push")
        /\ stream' = [stream EXCEPT ![s] = [stream[s] EXCEPT !.lease = "push"]]
        /\ UNCHANGED scheduler
    BY Zenon DEF StartLease, Ready, Free, Become
  <1>2. "push" \in Lease \ {Idle}
    BY DEF Lease, Idle
  <1> QED
    BY <1>1, <1>2, LeaseKeeps

\* releaseAcknowledged ends the lease when no response waits for a reply.
LEMMA ReleaseFields ==
  ASSUME NEW b \in State
  PROVE  /\ ReleaseAcknowledged(b) \in State
         /\ ReleaseAcknowledged(b).lease = (IF b.unacknowledged = {} THEN Idle ELSE b.lease)
         /\ ReleaseAcknowledged(b).phase = b.phase
         /\ ReleaseAcknowledged(b).work = b.work
         /\ ReleaseAcknowledged(b).handling = b.handling
         /\ ReleaseAcknowledged(b).unacknowledged = b.unacknowledged
  <1>1. CASE b.unacknowledged = {}
    BY <1>1 DEF ReleaseAcknowledged, State
  <1>2. CASE b.unacknowledged # {}
    BY <1>2 DEF ReleaseAcknowledged
  <1> QED
    BY <1>1, <1>2

\* handleRequest sends responses only under a lease and ends the lease with the
\* last reply; after the first request the admission is given back.
LEMMA HandleRequestKeeps ==
  ASSUME IInv, NEW s \in Stream, HandleRequest(s)
  PROVE  IInv'
  <1> DEFINE st == stream[s]
             r == st.work
  <1>1. /\ r # NoRequest /\ (NeedsLease(r) => st.lease # Idle)
        /\ queue' = queue /\ assigned' = assigned /\ later' = later
    BY DEF HandleRequest, Busy, scheduler
  <1>2. PICK D \in Answers(r, st.unacknowledged),
             k \in IF r.more THEN {i \in 0 .. 2 : st.sent + i <= MaxResponses[s]} ELSE {0},
             c \in IF s \in Issuing /\ r.more /\ st.certificate = Idle THEN {Idle, "issuing"}
                   ELSE {st.certificate} :
             LET new == ReleaseAcknowledged(
                          [st EXCEPT !.phase = "loop", !.work = NoRequest,
                             !.sent = @ + k, !.certificate = c,
                             !.acknowledged = @ \/ D # {},
                             !.unacknowledged = (@ \ D) \cup (st.sent + 1 .. st.sent + k)])
             IN  /\ Become(s, new)
                 /\ used' = Returned((IF new.lease = Idle THEN {st.lease} ELSE {})
                              \cup (IF st.phase = "first" THEN {"admissions"} ELSE {}))
    BY Zenon DEF HandleRequest
  <1> DEFINE base == [st EXCEPT !.phase = "loop", !.work = NoRequest,
                        !.sent = @ + k, !.certificate = c,
                        !.acknowledged = @ \/ D # {},
                        !.unacknowledged = (@ \ D) \cup (st.sent + 1 .. st.sent + k)]
             new == ReleaseAcknowledged(base)
  <1>3. /\ stream' = [stream EXCEPT ![s] = new]
        /\ used' = Returned((IF new.lease = Idle THEN {st.lease} ELSE {})
                            \cup (IF st.phase = "first" THEN {"admissions"} ELSE {}))
    BY <1>2, Zenon DEF Become
  <1>4. /\ Fit(st) /\ st \in State /\ st.lease \in Lease /\ (st.handling => s \in assigned)
        /\ st.phase \in {"first", "loop"}
    <2>1. Fit(st) /\ st \in State /\ st.lease \in Lease /\ (st.handling => s \in assigned)
      BY Parts
    <2>2. st.phase \in {"gone", "opening", "first", "loop"}
      BY <2>1 DEF State
    <2> QED
      BY <1>1, <2>1, <2>2 DEF Fit
  <1>5. /\ st.sent \in Nat /\ k \in 0 .. 2 /\ st.unacknowledged \subseteq Nat
        /\ k # 0 => r.more
        /\ c \in {Idle, "issuing", "ready", "done"}
        /\ DOMAIN st = {"phase", "lease", "work", "handling", "sent", "unacknowledged",
                        "acknowledged", "input", "ended", "inputClosed", "certificate"}
    BY <1>4 DEF State
  <1>6. /\ base \in State /\ base.lease = st.lease /\ base.phase = "loop" /\ base.work = NoRequest
        /\ base.handling = st.handling
        /\ base.unacknowledged = (st.unacknowledged \ D) \cup (st.sent + 1 .. st.sent + k)
    <2> DEFINE u2 == (st.unacknowledged \ D) \cup (st.sent + 1 .. st.sent + k)
               a2 == st.acknowledged \/ D # {}
               n2 == st.sent + k
    <2>1. u2 \in SUBSET Nat /\ n2 \in Nat
      BY <1>5
    <2>2. a2 \in BOOLEAN
      BY Zenon
    <2>3. base = [st EXCEPT !.phase = "loop", !.work = NoRequest, !.sent = n2, !.certificate = c,
                            !.acknowledged = a2, !.unacknowledged = u2]
      BY Zenon
    <2> HIDE DEF u2, a2, n2, base
    <2>4. base \in State /\ base.lease = st.lease /\ base.phase = "loop" /\ base.work = NoRequest
          /\ base.handling = st.handling /\ base.unacknowledged = u2
      BY <1>4, <1>5, <2>1, <2>2, <2>3 DEF State, NoRequest, Request
    <2> QED
      BY <2>4 DEF u2
  <1> HIDE DEF base
  <1>7. /\ new \in State /\ new.phase = "loop" /\ new.work = NoRequest /\ new.handling = st.handling
        /\ new.unacknowledged = base.unacknowledged
        /\ new.lease = (IF base.unacknowledged = {} THEN Idle ELSE st.lease)
    BY <1>6, ReleaseFields
  <1> HIDE DEF new
  <1>8. base.unacknowledged # {} => st.lease # Idle
    <2>1. CASE k # 0
      BY <1>1, <1>5, <2>1 DEF NeedsLease
    <2>2. CASE k = 0
      <3>1. base.unacknowledged \subseteq st.unacknowledged
        BY <1>5, <1>6, <2>2
      <3> QED
        BY <1>4, <3>1 DEF Fit
    <2> QED
      BY <1>5, <2>1, <2>2
  <1>9. Fit(new)
    BY <1>4, <1>7, <1>8 DEF Fit, Lease
  <1>10. SchedulerOK'
    BY <1>1, Parts DEF SchedulerOK
  <1>11. DOMAIN used' = Pool /\ used' = [p \in Pool |-> used'[p]]
    BY <1>3 DEF Returned
  <1>12. \A p \in Pool :
           \/ /\ Holds(stream[s], assigned, s, p) /\ ~Holds(new, assigned', s, p)
              /\ used'[p] = used[p] - 1
           \/ /\ ~Holds(stream[s], assigned, s, p) /\ Holds(new, assigned', s, p)
              /\ used'[p] = used[p] + 1 /\ used[p] < Capacity(p)
           \/ /\ Holds(stream[s], assigned, s, p) <=> Holds(new, assigned', s, p)
              /\ used'[p] = used[p]
    <2> SUFFICES ASSUME NEW p \in Pool
                 PROVE  \/ /\ Holds(st, assigned, s, p) /\ ~Holds(new, assigned, s, p)
                           /\ used'[p] = used[p] - 1
                        \/ /\ Holds(st, assigned, s, p) <=> Holds(new, assigned, s, p)
                           /\ used'[p] = used[p]
      BY <1>1, Zenon
    <2>1. used'[p] = IF \/ new.lease = Idle /\ p = st.lease
                        \/ st.phase = "first" /\ p = "admissions" THEN used[p] - 1 ELSE used[p]
      BY <1>3 DEF Returned
    <2> HIDE DEF st
    <2>2. CASE p = st.lease
      BY <1>4, <1>7, <2>1, <2>2 DEF Holds, Pool, Idle, Lease
    <2>3. CASE p = "admissions"
      BY <1>4, <1>7, <2>1, <2>3 DEF Holds, Pool, Idle, Lease
    <2>4. CASE p # st.lease /\ p # "admissions"
      BY <1>4, <1>7, <2>1, <2>4 DEF Holds, Pool, Idle, Lease
    <2> QED
      BY <2>2, <2>3, <2>4
  <1>13. (new.handling => s \in assigned') /\ \A q \in Stream \ {s} : q \in assigned' <=> q \in assigned
    BY <1>1, <1>4, <1>7
  <1>14. stream' = [stream EXCEPT ![s] = new]
    BY <1>3
  <1> QED
    BY <1>9, <1>10, <1>11, <1>12, <1>13, <1>14, StepKeeps

\* handlePush gives its push up when the client has closed its side.
LEMMA GiveUpPushKeeps ==
  ASSUME IInv, NEW s \in Stream, GiveUpPush(s)
  PROVE  IInv'
  <1> DEFINE new == [stream[s] EXCEPT !.handling = FALSE]
  <1>1. /\ stream[s].handling /\ stream[s].lease = Idle
        /\ stream' = [stream EXCEPT ![s] = new] /\ used' = Returned({"scheduler"}) /\ Done(s)
    BY DEF GiveUpPush, Ready, Become
  <1>2. /\ Fit(stream[s]) /\ stream[s] \in State /\ s \in assigned /\ SchedulerOK
    BY <1>1, Parts
  <1>3. /\ new \in State /\ new.lease = stream[s].lease /\ new.phase = stream[s].phase
        /\ new.handling = FALSE /\ new.work = stream[s].work
        /\ new.unacknowledged = stream[s].unacknowledged
    BY <1>2 DEF State
  <1> HIDE DEF new
  <1>4. Fit(new)
    BY <1>1, <1>2, <1>3 DEF Fit
  <1>5. /\ SchedulerOK' /\ s \notin assigned'
        /\ \A q \in Stream \ {s} : q \in assigned' <=> q \in assigned
    BY <1>1, <1>2, DoneKeeps
  <1>6. DOMAIN used' = Pool /\ used' = [p \in Pool |-> used'[p]]
    BY <1>1 DEF Returned
  <1>7. \A p \in Pool :
           \/ /\ Holds(stream[s], assigned, s, p) /\ ~Holds(new, assigned', s, p)
              /\ used'[p] = used[p] - 1
           \/ /\ ~Holds(stream[s], assigned, s, p) /\ Holds(new, assigned', s, p)
              /\ used'[p] = used[p] + 1 /\ used[p] < Capacity(p)
           \/ /\ Holds(stream[s], assigned, s, p) <=> Holds(new, assigned', s, p)
              /\ used'[p] = used[p]
    <2> SUFFICES ASSUME NEW p \in Pool
                 PROVE  \/ /\ Holds(stream[s], assigned, s, p) /\ ~Holds(new, assigned', s, p)
                           /\ used'[p] = used[p] - 1
                        \/ /\ Holds(stream[s], assigned, s, p) <=> Holds(new, assigned', s, p)
                           /\ used'[p] = used[p]
      BY Zenon
    <2>1. used'[p] = IF p = "scheduler" THEN used[p] - 1 ELSE used[p]
      BY <1>1 DEF Returned
    <2>2. "scheduler" # Idle
      BY DEF Idle
    <2>3. CASE p = "scheduler"
      BY <1>1, <1>2, <1>3, <1>5, <2>1, <2>2, <2>3 DEF Holds
    <2>4. CASE p # "scheduler"
      BY <1>3, <2>1, <2>4 DEF Holds
    <2> QED
      BY <2>3, <2>4
  <1> QED
    BY <1>1, <1>3, <1>4, <1>5, <1>6, <1>7, StepKeeps

\* handlePush sends under its lease, which ends at once when nothing was sent
\* that waits for a reply, and returns the scheduler's slot.
LEMMA PushKeeps ==
  ASSUME IInv, NEW s \in Stream, Push(s)
  PROVE  IInv'
  <1> DEFINE st == stream[s]
  <1>1. st.handling /\ st.work = NoRequest /\ st.lease # Idle /\ Done(s)
    BY DEF Push, Busy
  <1>2. PICK k \in 0 .. MaxResponses[s] - st.sent :
          LET new == ReleaseAcknowledged(
                       [st EXCEPT !.handling = FALSE, !.sent = @ + k,
                          !.unacknowledged = @ \cup (st.sent + 1 .. st.sent + k)])
          IN  /\ Become(s, new)
              /\ used' = Returned({"scheduler"} \cup
                                  (IF new.lease = Idle THEN {st.lease} ELSE {}))
    BY Zenon DEF Push
  <1> DEFINE base == [st EXCEPT !.handling = FALSE, !.sent = @ + k,
                        !.unacknowledged = @ \cup (st.sent + 1 .. st.sent + k)]
             new == ReleaseAcknowledged(base)
  <1>3. /\ stream' = [stream EXCEPT ![s] = new]
        /\ used' = Returned({"scheduler"} \cup (IF new.lease = Idle THEN {st.lease} ELSE {}))
    BY <1>2, Zenon DEF Become
  <1>4. /\ Fit(st) /\ st \in State /\ st.lease \in Lease /\ s \in assigned /\ SchedulerOK
        /\ st.phase = "loop"
    BY <1>1, Parts DEF Fit
  <1>5. st.sent \in Nat /\ k \in Nat /\ st.unacknowledged \subseteq Nat
    <2>1. st.sent \in Nat /\ st.unacknowledged \subseteq Nat
      BY <1>4 DEF State
    <2>2. MaxResponses[s] \in Nat
      BY FlowAssumption
    <2> QED
      BY <2>1, <2>2
  <1>6. /\ base \in State /\ base.lease = st.lease /\ base.phase = "loop" /\ base.work = NoRequest
        /\ base.handling = FALSE
    <2> DEFINE u2 == st.unacknowledged \cup (st.sent + 1 .. st.sent + k)
               n2 == st.sent + k
    <2>1. u2 \in SUBSET Nat /\ n2 \in Nat
      BY <1>5
    <2>2. base = [st EXCEPT !.handling = FALSE, !.sent = n2, !.unacknowledged = u2]
      BY Zenon
    <2> HIDE DEF u2, n2, base
    <2> QED
      BY <1>1, <1>4, <2>1, <2>2 DEF State
  <1> HIDE DEF base
  <1>7. /\ new \in State /\ new.phase = "loop" /\ new.work = NoRequest /\ new.handling = FALSE
        /\ new.unacknowledged = base.unacknowledged
        /\ new.lease = (IF base.unacknowledged = {} THEN Idle ELSE st.lease)
    BY <1>6, ReleaseFields
  <1> HIDE DEF new
  <1>8. Fit(new)
    BY <1>1, <1>4, <1>7 DEF Fit, Lease
  <1>9. /\ SchedulerOK' /\ s \notin assigned'
        /\ \A q \in Stream \ {s} : q \in assigned' <=> q \in assigned
    BY <1>1, <1>4, DoneKeeps
  <1>10. DOMAIN used' = Pool /\ used' = [p \in Pool |-> used'[p]]
    BY <1>3 DEF Returned
  <1>11. \A p \in Pool :
           \/ /\ Holds(stream[s], assigned, s, p) /\ ~Holds(new, assigned', s, p)
              /\ used'[p] = used[p] - 1
           \/ /\ ~Holds(stream[s], assigned, s, p) /\ Holds(new, assigned', s, p)
              /\ used'[p] = used[p] + 1 /\ used[p] < Capacity(p)
           \/ /\ Holds(stream[s], assigned, s, p) <=> Holds(new, assigned', s, p)
              /\ used'[p] = used[p]
    <2> SUFFICES ASSUME NEW p \in Pool
                 PROVE  \/ /\ Holds(st, assigned, s, p) /\ ~Holds(new, assigned', s, p)
                           /\ used'[p] = used[p] - 1
                        \/ /\ Holds(st, assigned, s, p) <=> Holds(new, assigned', s, p)
                           /\ used'[p] = used[p]
      BY Zenon
    <2>1. used'[p] = IF p = "scheduler" \/ (new.lease = Idle /\ p = st.lease)
                     THEN used[p] - 1 ELSE used[p]
      BY <1>3 DEF Returned
    <2> HIDE DEF st
    <2>2. CASE p = st.lease
      BY <1>1, <1>4, <1>7, <2>1, <2>2 DEF Holds, Idle, Lease
    <2>3. CASE p = "scheduler"
      BY <1>1, <1>4, <1>7, <1>9, <2>1, <2>3 DEF Holds, Idle, Lease
    <2>4. CASE p # st.lease /\ p # "scheduler"
      BY <1>4, <1>7, <2>1, <2>4 DEF Holds, Pool, Idle
    <2> QED
      BY <2>2, <2>3, <2>4
  <1>12. stream' = [stream EXCEPT ![s] = new] /\ (new.handling => s \in assigned')
    BY <1>3, <1>7
  <1> QED
    BY <1>8, <1>9, <1>10, <1>11, <1>12, StepKeeps

\* The events of the loop and of the client that move no slot.
LEMMA QuietStepKeeps ==
  ASSUME IInv, NEW s \in Stream,
         \/ Take(s) \/ CloseInput(s) \/ TakeCertificate(s) \/ TakePush(s)
         \/ Ask(s) \/ Reply(s) \/ CloseSend(s) \/ Issue(s)
  PROVE  IInv'
  <1> DEFINE st == stream[s]
             Quiet(new) == /\ new \in State /\ new.lease = st.lease /\ new.phase = st.phase
                           /\ new.unacknowledged = st.unacknowledged
  <1>1. /\ Fit(st) /\ st \in State /\ (st.handling => s \in assigned)
    BY Parts
  <1>2. st.input \in Seq(Request) /\ st.unacknowledged \subseteq Nat /\ st.sent \in Nat
    BY <1>1 DEF State
  <1>3. ASSUME NEW new, Quiet(new), Become(s, new), UNCHANGED <<used, scheduler>>,
               new.work = st.work \/ (st.phase = "loop" /\ st.work = NoRequest),
               new.handling = st.handling \/ (new.handling = TRUE /\ Ready(s) /\ s \in assigned)
        PROVE  IInv'
    <2>1. st.phase = "loop" /\ st.work = NoRequest /\ ~st.handling /\ st.lease # Idle
             => st.unacknowledged # {}
      BY <1>1 DEF Fit
    <2>2. Fit(new)
      BY <1>1, <1>3, <2>1 DEF Fit, Ready, Busy
    <2>3. new.handling => s \in assigned
      BY <1>1, <1>3
    <2> QED
      BY <1>3, <2>2, <2>3, QuietKeeps DEF Become
  <1>4. CASE Take(s)
    <2> DEFINE new == [st EXCEPT !.work = Head(st.input), !.input = Tail(st.input)]
    <2>1. st.input # <<>> /\ Become(s, new) /\ UNCHANGED <<used, scheduler>>
          /\ st.phase = "loop" /\ st.work = NoRequest
      BY <1>4, Zenon DEF Take, Ready, Busy
    <2>2. Head(st.input) \in Request /\ Tail(st.input) \in Seq(Request)
      BY <1>2, <2>1, HeadTailProperties
    <2>3. Quiet(new) /\ new.handling = st.handling
      BY <1>1, <2>2 DEF State
    <2> HIDE DEF new
    <2> QED
      BY <1>3, <2>1, <2>3
  <1>5. CASE CloseInput(s)
    <2> DEFINE new == [st EXCEPT !.inputClosed = TRUE]
    <2>1. Become(s, new) /\ UNCHANGED <<used, scheduler>>
      BY <1>5 DEF CloseInput
    <2>2. Quiet(new) /\ new.handling = st.handling /\ new.work = st.work
      BY <1>1 DEF State
    <2> HIDE DEF new
    <2> QED
      BY <1>3, <2>1, <2>2
  <1>6. CASE TakeCertificate(s)
    <2> DEFINE new == [st EXCEPT !.work = Demand, !.certificate = "done"]
    <2>1. Become(s, new) /\ UNCHANGED <<used, scheduler>> /\ st.phase = "loop" /\ st.work = NoRequest
      BY <1>6 DEF TakeCertificate, Ready, Busy
    <2>2. Quiet(new) /\ new.handling = st.handling
      BY <1>1 DEF State, Demand, Request
    <2> HIDE DEF new
    <2> QED
      BY <1>3, <2>1, <2>2
  <1>7. CASE TakePush(s)
    <2> DEFINE new == [st EXCEPT !.handling = TRUE]
    <2>1. Become(s, new) /\ UNCHANGED <<used, scheduler>> /\ Ready(s) /\ s \in assigned
      BY <1>7 DEF TakePush
    <2>2. Quiet(new) /\ new.handling = TRUE /\ new.work = st.work
      BY <1>1 DEF State
    <2> HIDE DEF new
    <2> QED
      BY <1>3, <2>1, <2>2
  <1>8. CASE Ask(s) \/ Reply(s)
    <2>1. PICK n \in Nat, b \in BOOLEAN :
             Become(s, [st EXCEPT !.input = Append(st.input, [nonce |-> n, more |-> b])])
      <3>1. CASE Ask(s)
        <4>1. PICK n \in 0 .. st.sent :
                 Become(s, [st EXCEPT !.input = Append(st.input, [nonce |-> n, more |-> TRUE])])
          BY <3>1, Zenon DEF Ask
        <4>2. n \in Nat
          BY <1>2
        <4> QED
          BY <4>1, <4>2, Zenon
      <3>2. CASE Reply(s)
        <4>1. PICK n \in Unanswered(s) :
                 Become(s, [st EXCEPT !.input = Append(st.input, [nonce |-> n, more |-> FALSE])])
          BY <3>2, Zenon DEF Reply
        <4>2. n \in Nat
          BY <1>2 DEF Unanswered
        <4> QED
          BY <4>1, <4>2, Zenon
      <3> QED
        BY <1>8, <3>1, <3>2
    <2> DEFINE req == [nonce |-> n, more |-> b]
               new == [st EXCEPT !.input = Append(st.input, req)]
    <2>2. Become(s, new) /\ UNCHANGED <<used, scheduler>>
      BY <1>8, <2>1 DEF Ask, Reply
    <2>3. Append(st.input, req) \in Seq(Request)
      BY <1>2, AppendProperties DEF Request
    <2>4. Quiet(new) /\ new.handling = st.handling /\ new.work = st.work
      BY <1>1, <2>3 DEF State
    <2> HIDE DEF new
    <2> QED
      BY <1>3, <2>2, <2>4
  <1>9. CASE CloseSend(s)
    <2> DEFINE new == [st EXCEPT !.ended = TRUE]
    <2>1. Become(s, new) /\ UNCHANGED <<used, scheduler>>
      BY <1>9 DEF CloseSend
    <2>2. Quiet(new) /\ new.handling = st.handling /\ new.work = st.work
      BY <1>1 DEF State
    <2> HIDE DEF new
    <2> QED
      BY <1>3, <2>1, <2>2
  <1>10. CASE Issue(s)
    <2> DEFINE new == [st EXCEPT !.certificate = "ready"]
    <2>1. Become(s, new) /\ UNCHANGED <<used, scheduler>>
      BY <1>10 DEF Issue
    <2>2. Quiet(new) /\ new.handling = st.handling /\ new.work = st.work
      BY <1>1 DEF State
    <2> HIDE DEF new
    <2> QED
      BY <1>3, <2>1, <2>2
  <1> QED
    BY <1>4, <1>5, <1>6, <1>7, <1>8, <1>9, <1>10

\* enqueueUpdate queues the stream unless it is queued or has a push.
LEMMA EnqueueUpdateKeeps ==
  ASSUME IInv, NEW s \in Stream, EnqueueUpdate(s)
  PROVE  IInv'
  <1>1. /\ used' = used /\ stream' = stream /\ assigned' = assigned
        /\ IF s \in assigned THEN later' = later \cup {s} /\ queue' = queue
           ELSE /\ queue' = IF s \in Range(queue) THEN queue ELSE Append(queue, s)
                /\ later' = later
    BY DEF EnqueueUpdate
  <1>2. SchedulerOK
    BY DEF IInv
  <1>3. SchedulerOK'
    <2>1. CASE s \in assigned \/ s \in Range(queue)
      BY <1>1, <1>2, <2>1 DEF SchedulerOK
    <2>2. CASE s \notin assigned /\ s \notin Range(queue)
      <3>1. \A i \in DOMAIN queue : queue[i] # s
        BY <2>2 DEF Range
      <3>2. /\ queue' \in Seq(Stream)
            /\ \A i, j \in DOMAIN queue' : queue'[i] = queue'[j] => i = j
            /\ \A i \in DOMAIN queue' : queue'[i] = s \/ \E j \in DOMAIN queue : queue'[i] = queue[j]
        BY <1>1, <1>2, <2>2, <3>1, AppendOnce DEF SchedulerOK
      <3> QED
        BY <1>1, <1>2, <2>2, <3>2 DEF SchedulerOK
    <2> QED
      BY <2>1, <2>2
  <1>4. SlotsMatchHolders'
    BY <1>1 DEF IInv, SlotsMatchHolders, Held
  <1> QED
    BY <1>1, <1>3, <1>4 DEF IInv

\* dispatchPushes assigns the head of the queue, which has no push yet.
LEMMA AssignKeeps ==
  ASSUME IInv, Assign
  PROVE  IInv'
  <1> DEFINE s == Head(queue)
  <1>1. /\ queue # <<>> /\ used["scheduler"] < Capacity("scheduler")
        /\ used' = Taken("scheduler") /\ queue' = Tail(queue)
        /\ assigned' = assigned \cup {s} /\ stream' = stream /\ later' = later
    BY DEF Assign, Free
  <1>2. SchedulerOK /\ stream \in [Stream -> State]
    BY DEF IInv
  <1>3. /\ s \in Stream /\ s = queue[1] /\ 1 \in DOMAIN queue /\ s \notin assigned
        /\ Tail(queue) \in Seq(Stream)
        /\ \A i \in DOMAIN Tail(queue) : /\ i + 1 \in DOMAIN queue /\ Tail(queue)[i] = queue[i + 1]
                                         /\ i \in Nat /\ i # 0
    <2>1. queue \in Seq(Stream) /\ queue # <<>>
      BY <1>1, <1>2 DEF SchedulerOK
    <2>2. Len(queue) \in Nat /\ DOMAIN queue = 1 .. Len(queue) /\ Len(queue) # 0
      BY <2>1, LenProperties, EmptySeq
    <2>3. /\ s \in Stream /\ s = queue[1] /\ 1 \in DOMAIN queue /\ Tail(queue) \in Seq(Stream)
          /\ DOMAIN Tail(queue) = 1 .. Len(queue) - 1
          /\ \A i \in 1 .. Len(queue) - 1 : Tail(queue)[i] = queue[i + 1]
      BY <2>1, <2>2, HeadTailProperties, ElementOfSeq, LenProperties
    <2> HIDE DEF s
    <2> QED
      BY <1>2, <2>2, <2>3 DEF SchedulerOK
  <1> HIDE DEF s
  <1>4. SchedulerOK'
    <2>1. queue' \in Seq(Stream) /\ assigned' \subseteq Stream /\ later' \subseteq assigned'
      BY <1>1, <1>2, <1>3 DEF SchedulerOK
    <2>2. ASSUME NEW i \in DOMAIN queue' PROVE queue'[i] \notin assigned'
      <3>1. queue'[i] = queue[i + 1] /\ i + 1 \in DOMAIN queue /\ i + 1 # 1
        BY <1>1, <1>3
      <3>2. queue[i + 1] # queue[1]
        BY <1>2, <1>3, <3>1 DEF SchedulerOK
      <3> QED
        BY <1>1, <1>2, <1>3, <3>1, <3>2 DEF SchedulerOK
    <2>3. ASSUME NEW i \in DOMAIN queue', NEW j \in DOMAIN queue', queue'[i] = queue'[j] PROVE i = j
      <3>1. i + 1 = j + 1 /\ i \in Nat /\ j \in Nat
        BY <1>1, <1>2, <1>3, <2>3 DEF SchedulerOK
      <3> QED
        BY <3>1
    <2> QED
      BY <2>1, <2>2, <2>3 DEF SchedulerOK
  <1> DEFINE new == stream[s]
  <1>5. stream' = [stream EXCEPT ![s] = new] /\ Fit(new) /\ (new.handling => s \in assigned')
    BY <1>1, <1>2, <1>3 DEF IInv
  <1>6. DOMAIN used' = Pool /\ used' = [p \in Pool |-> used'[p]]
    BY <1>1, <1>3, Parts DEF Taken
  <1>7. \A p \in Pool :
           \/ /\ Holds(stream[s], assigned, s, p) /\ ~Holds(new, assigned', s, p)
              /\ used'[p] = used[p] - 1
           \/ /\ ~Holds(stream[s], assigned, s, p) /\ Holds(new, assigned', s, p)
              /\ used'[p] = used[p] + 1 /\ used[p] < Capacity(p)
           \/ /\ Holds(stream[s], assigned, s, p) <=> Holds(new, assigned', s, p)
              /\ used'[p] = used[p]
    <2> SUFFICES ASSUME NEW p \in Pool
                 PROVE  \/ /\ ~Holds(stream[s], assigned, s, p) /\ Holds(new, assigned', s, p)
                           /\ used'[p] = used[p] + 1 /\ used[p] < Capacity(p)
                        \/ /\ Holds(stream[s], assigned, s, p) <=> Holds(new, assigned', s, p)
                           /\ used'[p] = used[p]
      BY Zenon
    <2>1. used'[p] = IF p = "scheduler" THEN used[p] + 1 ELSE used[p]
      BY <1>1, <1>3, Parts DEF Taken
    <2>2. stream[s].lease # "scheduler"
      BY <1>3, Parts DEF Lease, Idle
    <2>3. CASE p = "scheduler"
      BY <1>1, <1>3, <2>1, <2>2, <2>3 DEF Holds
    <2>4. CASE p # "scheduler"
      BY <2>1, <2>4 DEF Holds
    <2> QED
      BY <2>3, <2>4
  <1>8. \A q \in Stream \ {s} : q \in assigned' <=> q \in assigned
    BY <1>1
  <1> HIDE DEF new
  <1> QED
    BY <1>3, <1>4, <1>5, <1>6, <1>7, <1>8, StepKeeps

-----------------------------------------------------------------------------
(* The theorems *)

\* Every step keeps the invariant.
LEMMA NextKeeps == IInv /\ [Next]_vars => IInv'
  <1> SUFFICES ASSUME IInv, [Next]_vars PROVE IInv'
    OBVIOUS
  <1>1. CASE UNCHANGED vars
    BY <1>1, SMTT(40) DEF vars, scheduler, IInv, SchedulerOK, SlotsMatchHolders, Held
  <1>2. CASE Assign
    BY <1>2, AssignKeeps
  <1>3. ASSUME NEW s \in Stream, Fail(s) \/ Finish(s) \/ Expire(s) PROVE IInv'
    BY <1>3, EndKeeps, Zenon DEF Fail, Finish, Expire
  <1>4. ASSUME NEW s \in Stream, AdmitInitial(s) \/ Open(s) \/ Acquire(s) \/ StartLease(s)
        PROVE  IInv'
    BY <1>4, AdmitInitialKeeps, OpenKeeps, AcquireKeeps, StartLeaseKeeps, Zenon
  <1>5. ASSUME NEW s \in Stream, HandleRequest(s) \/ GiveUpPush(s) \/ Push(s) \/ EnqueueUpdate(s)
        PROVE  IInv'
    BY <1>5, HandleRequestKeeps, GiveUpPushKeeps, PushKeeps, EnqueueUpdateKeeps, Zenon
  <1>6. ASSUME NEW s \in Stream, \/ Take(s) \/ CloseInput(s) \/ TakeCertificate(s) \/ TakePush(s)
                                 \/ Ask(s) \/ Reply(s) \/ CloseSend(s) \/ Issue(s)
        PROVE  IInv'
    BY <1>6, QuietStepKeeps, Zenon
  <1> QED
    BY <1>1, <1>2, <1>3, <1>4, <1>5, <1>6, Zenon DEF Next, Loop

\* The invariant holds in every state of every behaviour.
LEMMA Invariance == Spec => []IInv
  BY InitIInv, NextKeeps, PTL DEF Spec

\* No pool of the flow controller or the scheduler is taken beyond its capacity
\* or given back twice, and only a stream with a push has an update for later.
THEOREM CapacityIsKept == Spec => []TypeOK
  <1>1. IInv => TypeOK
    <2>1. ASSUME IInv, NEW p \in Pool PROVE used[p] \in 0 .. Capacity(p)
      <3>1. used[p] \in Nat /\ used[p] <= Capacity(p)
        BY <2>1 DEF IInv
      <3>2. Capacity(p) \in Nat
        BY FlowAssumption DEF Capacity
      <3> QED
        BY <3>1, <3>2
    <2> QED
      BY <2>1 DEF IInv, SchedulerOK, TypeOK
  <1> QED
    BY <1>1, Invariance, PTL

\* Every slot in use has one owner that gives it back, wherever serveDelta, run
\* or handlePush stop, for any number of streams and any capacities.
THEOREM SlotsHaveOwners == Spec => []SlotsMatchHolders
  <1>1. IInv => SlotsMatchHolders
    BY DEF IInv
  <1> QED
    BY <1>1, Invariance, PTL

\* A stream has responses without a reply only under a lease, and between two
\* events it has a lease only for such responses.
THEOREM ResponsesAreLeased == Spec => []LeaseCoversResponses
  <1>1. IInv => LeaseCoversResponses
    BY DEF IInv, Fit, LeaseCoversResponses, Busy
  <1> QED
    BY <1>1, Invariance, PTL
=============================================================================
