------------------------ MODULE PushSchedulerProofs ------------------------
(***************************************************************************)
(* Proofs about PushScheduler for any finite set of streams, any set of    *)
(* keys and any positive concurrency.                                      *)
(***************************************************************************)
EXTENDS PushScheduler, FiniteSetTheorems, SequenceTheorems, TLAPS

\* The set of assigned connections is finite, so that it can be counted.
LEMMA ProcessingFinite ==
    ASSUME NEW S \in SUBSET Conn
    PROVE  IsFiniteSet(S) /\ Cardinality(S) \in Nat
  BY ConstantsAssumption, FS_Subset, FS_CardinalityType

\* Adding a connection to the assigned ones, or taking one away, counts it once.
LEMMA ProcessingCount ==
    ASSUME NEW S \in SUBSET Conn, NEW c \in Conn
    PROVE  /\ Cardinality(S \cup {c}) =
                IF c \in S THEN Cardinality(S) ELSE Cardinality(S) + 1
           /\ Cardinality(S \ {c}) =
                IF c \in S THEN Cardinality(S) - 1 ELSE Cardinality(S)
           /\ c \in S => Cardinality(S) > 0
  <1>1. IsFiniteSet(S) /\ Cardinality(S) \in Nat
    BY ProcessingFinite
  <1>2. c \in S => Cardinality(S) # 0
    BY <1>1, FS_EmptySet
  <1>3. Cardinality(S \cup {c}) =
           IF c \in S THEN Cardinality(S) ELSE Cardinality(S) + 1
    BY <1>1, FS_AddElement, Zenon
  <1>4. Cardinality(S \ {c}) =
           IF c \in S THEN Cardinality(S) - 1 ELSE Cardinality(S)
    BY <1>1, FS_RemoveElement, Zenon
  <1> QED
    BY <1>1, <1>2, <1>3, <1>4

\* The inductive invariant.  The slot count needs to know that a connection
\* Next assigns was not assigned before, and the merge that an entry changes
\* only by being consumed; EntriesAreConsistent says both.
IInv == /\ TypeOK
        /\ SlotAccounting
        /\ slots <= Concurrency
        /\ EntriesAreConsistent
        /\ MergeIsCurrent

\* A new scheduler is empty and holds no slot.
LEMMA InitIInv == Init => IInv
  <1> SUFFICES ASSUME Init PROVE IInv
    OBVIOUS
  <1>1. TypeOK
    <2>1. wake \in BOOLEAN /\ closing \in BOOLEAN
      BY DEF Init
    <2>2. queue \in Seq(Conn)
      BY DEF Init
    <2> QED
      BY <2>1, <2>2 DEF Init, TypeOK
  <1>2. SlotAccounting /\ slots <= Concurrency
    BY FS_EmptySet, ConstantsAssumption DEF Init, SlotAccounting
  <1>3. EntriesAreConsistent /\ MergeIsCurrent
    BY DEF Init, EntriesAreConsistent, MergeIsCurrent
  <1> QED
    BY <1>1, <1>2, <1>3 DEF IInv

\* What Next pops is a connection, and what remains of the queue is a queue.
LEMMA QueueTail ==
    ASSUME queue \in Seq(Conn), NEW i \in DOMAIN queue
    PROVE  /\ i \in Nat
           /\ queue[i] \in Conn
           /\ SubSeq(queue, i + 1, Len(queue)) \in Seq(Conn)
  <1>1. /\ DOMAIN queue = 1 .. Len(queue)
        /\ Len(queue) \in Nat
        /\ \A j \in 1 .. Len(queue) : queue[j] \in Conn
    OBVIOUS
  <1>2. i + 1 \in Int /\ Len(queue) \in Int
    BY <1>1
  <1>3. \A j \in i + 1 .. Len(queue) : queue[j] \in Conn
    BY <1>1
  <1>4. SubSeq(queue, i + 1, Len(queue)) \in Seq(Conn)
    BY <1>2, <1>3, SubSeqProperties
  <1> QED
    BY <1>1, <1>4

\* Every action keeps the variables typed; the slot count stays a natural
\* number because a token is only taken out for an accounted holder.
LEMMA TypeStep ==
    ASSUME TypeOK, SlotAccounting, Next
    PROVE  TypeOK'
  <1> USE DEF TypeOK, Updates
  <1>1. ASSUME NEW c \in Conn, NEW u \in Updates, Enqueue(c, u)
        PROVE  TypeOK'
    <2>1. Append(queue, c) \in Seq(Conn)
      OBVIOUS
    <2>2. wake' \in BOOLEAN
      BY <1>1 DEF Enqueue, Insert
    <2>3. CASE Queued(c) = None
      <3>1. closing' \in BOOLEAN
        BY <1>1 DEF Enqueue
      <3>2. CASE c \in processing
        BY <1>1, <2>2, <2>3, <3>1, <3>2 DEF Enqueue, Insert
      <3>3. CASE c \notin processing
        <4>1. /\ pending' \in [Conn -> {None} \cup Updates]
              /\ queue' \in Seq(Conn)
              /\ later' = later
              /\ merging' = merging
          <5>1. /\ pending' = [pending EXCEPT ![c] = u]
                /\ queue' = Append(queue, c)
                /\ later' = later
                /\ merging' = merging
            BY <1>1, <2>3, <3>3, Zenon DEF Enqueue, Insert
          <5> QED
            BY <2>1, <5>1
        <4>2. /\ cancellations' \in SUBSET Conn
              /\ UNCHANGED <<processing, slots, releasing, dispatcher, push,
                             at, cancelled, exited>>
          BY <1>1 DEF Enqueue
        <4> QED
          BY <2>2, <3>1, <4>1, <4>2
      <3> QED
        BY <3>2, <3>3
    <2>4. CASE Queued(c) # None
      <3>1. Queued(c) \in Updates
        BY <2>4 DEF Queued
      <3>2. [old |-> Queued(c), new |-> u] \in [old : Updates, new : Updates]
        BY <3>1
      <3> QED
        BY <1>1, <2>2, <2>4, <3>2 DEF Enqueue
    <2> QED
      BY <2>3, <2>4
  <1>2. ASSUME NEW c \in Conn, EnqueueMerged(c)
        PROVE  TypeOK'
    <2>1. Append(queue, c) \in Seq(Conn)
      OBVIOUS
    <2>2. wake' \in BOOLEAN
      BY <1>2 DEF EnqueueMerged, StoreMerged, Insert
    <2>3. merging[c] \in [old : Updates, new : Updates]
      BY <1>2 DEF EnqueueMerged
    <2>4. /\ merging[c].new \in Updates
          /\ merging[c].old \cup merging[c].new \in Updates
      BY <2>3
    <2>5. CASE closing \/ c \in cancelled
      BY <1>2, <2>2, <2>5 DEF EnqueueMerged
    <2>6. CASE ~(closing \/ c \in cancelled) /\ Queued(c) # None
      BY <1>2, <2>2, <2>4, <2>6 DEF EnqueueMerged, StoreMerged
    <2>7. CASE ~(closing \/ c \in cancelled) /\ Queued(c) = None
      BY <1>2, <2>1, <2>2, <2>4, <2>7 DEF EnqueueMerged, Insert
    <2> QED
      BY <2>5, <2>6, <2>7
  <1>3. CASE WaitForPending \/ Wake \/ StopWaiting
    BY <1>3 DEF WaitForPending, Wake, StopWaiting, goto, schedulerVars
  <1>4. CASE AcquireSlot
    BY <1>4 DEF AcquireSlot, goto
  <1>5. CASE AssignHead
    <2>1. PICK i \in DOMAIN queue : AssignHead!3!(i)
      BY <1>5 DEF AssignHead
    <2>2. /\ queue[i] \in Conn
          /\ SubSeq(queue, i + 1, Len(queue)) \in Seq(Conn)
      BY QueueTail
    <2>3. /\ queue' \in Seq(Conn)
          /\ processing' \in SUBSET Conn
      BY <2>1, <2>2
    <2>4. /\ pending' \in [Conn -> {None} \cup Updates]
          /\ later' \in [Conn -> {None} \cup Updates]
      BY <2>1, <2>2
    <2>5. /\ push' \in [Conn -> {None} \cup Updates]
          /\ at' \in [Conn -> {"none", "dispatcher", "channel", "session", "dropped"}]
      BY <2>1, <2>2
    <2>6. wake' \in BOOLEAN /\ closing' \in BOOLEAN
      BY <1>5 DEF AssignHead
    <2>7. /\ dispatcher' = "send"
          /\ UNCHANGED <<cancellations, slots, releasing, merging, cancelled, exited>>
      BY <1>5 DEF AssignHead, goto
    <2> QED
      BY <2>3, <2>4, <2>5, <2>6, <2>7
  <1>6. CASE AssignNothing
    BY <1>6 DEF AssignNothing, goto
  <1>7. CASE ReturnSlot
    <2>1. Cardinality(processing) \in Nat
      BY ProcessingFinite
    <2>2. slots = Cardinality(processing) + releasing + 1
      BY <1>7 DEF ReturnSlot, goto, SlotAccounting
    <2>3. slots - 1 \in Nat
      BY <2>1, <2>2
    <2> QED
      BY <1>7, <2>3 DEF ReturnSlot, goto
  <1>8. ASSUME NEW c \in Conn, SendPush(c)
        PROVE  TypeOK'
    BY <1>8 DEF SendPush, goto, schedulerVars
  <1>9. ASSUME NEW c \in Conn, Done(c), UNCHANGED <<merging, cancelled, exited>>,
               push' \in [Conn -> {None} \cup Updates],
               at' \in [Conn -> {"none", "dispatcher", "channel", "session", "dropped"}],
               dispatcher' \in {"check", "blocked", "acquire", "assign",
                                "release", "send", "stopped"}
        PROVE  TypeOK'
    <2>1. Append(queue, c) \in Seq(Conn)
      OBVIOUS
    <2>2. wake' \in BOOLEAN
      BY <1>9 DEF Done, schedulerVars
    <2>3. CASE c \notin processing
      BY <1>9, <2>3 DEF Done, schedulerVars
    <2>4. CASE c \in processing
      <3>1. closing' \in BOOLEAN
        BY <1>9, <2>4 DEF Done
      <3>2. /\ processing' \in SUBSET Conn
            /\ later' \in [Conn -> {None} \cup Updates]
            /\ cancellations' \in SUBSET Conn
            /\ slots' \in Nat
            /\ releasing' \in Nat
        BY <1>9, <2>4 DEF Done
      <3>3. /\ pending' \in [Conn -> {None} \cup Updates]
            /\ queue' \in Seq(Conn)
        <4>1. CASE later[c] # None /\ ~closing /\ c \notin cancelled
          <5>1. pending' = [pending EXCEPT ![c] = later[c]] /\ queue' = Append(queue, c)
            BY <1>9, <2>4, <4>1, Zenon DEF Done
          <5>2. later[c] \in {None} \cup Updates
            OBVIOUS
          <5> QED
            BY <2>1, <5>1, <5>2
        <4>2. CASE ~(later[c] # None /\ ~closing /\ c \notin cancelled)
          <5>1. pending' = pending /\ queue' = queue
            BY <1>9, <2>4, <4>2, Zenon DEF Done
          <5> QED
            BY <5>1
        <4> QED
          BY <4>1, <4>2
      <3> QED
        BY <1>9, <2>2, <3>1, <3>2, <3>3
    <2> QED
      BY <2>3, <2>4
  <1>10. ASSUME NEW c \in Conn, DropPush(c)
         PROVE  TypeOK'
    BY <1>9, <1>10 DEF DropPush, goto
  <1>11. ASSUME NEW c \in Conn, TakePush(c)
         PROVE  TypeOK'
    BY <1>11 DEF TakePush, schedulerVars
  <1>12. ASSUME NEW c \in Conn, FinishPush(c)
         PROVE  TypeOK'
    BY <1>9, <1>12 DEF FinishPush
  <1>13. ASSUME NEW c \in Conn, ContextCancel(c)
         PROVE  TypeOK'
    BY <1>13 DEF ContextCancel, Cancel, callerVars
  <1>14. CASE ReleaseSlot
    BY <1>14 DEF ReleaseSlot, callerVars
  <1>15. CASE Close
    BY <1>15, ProcessingFinite DEF Close, callerVars
  <1>16. ASSUME NEW c \in Conn, EndContext(c) \/ ExitSession(c)
         PROVE  TypeOK'
    BY <1>16 DEF EndContext, ExitSession, Cancel, schedulerVars
  <1> QED
    BY <1>1, <1>2, <1>3, <1>4, <1>5, <1>6, <1>7, <1>8, <1>10, <1>11, <1>12,
       <1>13, <1>14, <1>15, <1>16 DEF Next, Dispatcher

\* No step gives a slot back twice, keeps one, or takes one too many.
LEMMA SlotStep ==
    ASSUME IInv, Next
    PROVE  SlotAccounting' /\ slots' <= Concurrency
  <1> USE DEF SlotAccounting
  <1>0. /\ TypeOK
        /\ SlotAccounting
        /\ slots <= Concurrency
        /\ slots \in Nat
        /\ releasing \in Nat
        /\ Cardinality(processing) \in Nat
        /\ Concurrency \in Nat
    BY ProcessingFinite, ConstantsAssumption DEF IInv, TypeOK
  <1>1. ASSUME NEW c \in Conn, NEW u \in Updates, Enqueue(c, u)
        PROVE  SlotAccounting' /\ slots' <= Concurrency
    BY <1>0, <1>1 DEF Enqueue
  <1>2. ASSUME NEW c \in Conn, EnqueueMerged(c)
        PROVE  SlotAccounting' /\ slots' <= Concurrency
    BY <1>0, <1>2 DEF EnqueueMerged
  <1>3. CASE WaitForPending \/ Wake \/ StopWaiting
    BY <1>0, <1>3 DEF WaitForPending, Wake, StopWaiting, goto, schedulerVars
  <1>4. CASE AcquireSlot
    BY <1>0, <1>4 DEF AcquireSlot, goto
  <1>5. CASE AssignHead
    <2>1. PICK i \in DOMAIN queue : AssignHead!3!(i)
      BY <1>5 DEF AssignHead
    <2>2. /\ queue[i] \in Conn
          /\ queue[i] \notin processing
          /\ processing' = processing \cup {queue[i]}
      BY <2>1, QueueTail DEF FirstAssignable, Assignable, IInv, TypeOK, EntriesAreConsistent
    <2>3. Cardinality(processing') = Cardinality(processing) + 1
      BY <1>0, <2>2, ProcessingCount DEF TypeOK
    <2> QED
      BY <1>0, <1>5, <2>3 DEF AssignHead, goto
  <1>6. CASE AssignNothing
    BY <1>0, <1>6 DEF AssignNothing, goto
  <1>7. CASE ReturnSlot
    BY <1>0, <1>7 DEF ReturnSlot, goto
  <1>8. ASSUME NEW c \in Conn, SendPush(c)
        PROVE  SlotAccounting' /\ slots' <= Concurrency
    BY <1>0, <1>8 DEF SendPush, goto, schedulerVars
  <1>9. ASSUME NEW c \in Conn, Done(c)
        PROVE  /\ slots' = slots
               /\ Cardinality(processing') + releasing'
                     = Cardinality(processing) + releasing
    <2>1. /\ c \in processing =>
                Cardinality(processing \ {c}) = Cardinality(processing) - 1
      BY <1>0, ProcessingCount DEF TypeOK
    <2>2. CASE c \notin processing
      BY <1>9, <2>2 DEF Done, schedulerVars
    <2>3. CASE c \in processing
      <3>1. /\ processing' = processing \ {c}
            /\ releasing' = releasing + 1
            /\ slots' = slots
        BY <1>9, <2>3, Zenon DEF Done
      <3> QED
        BY <1>0, <2>1, <2>3, <3>1
    <2> QED
      BY <2>2, <2>3
  <1>10. ASSUME NEW c \in Conn, DropPush(c)
         PROVE  SlotAccounting' /\ slots' <= Concurrency
    BY <1>0, <1>9, <1>10 DEF DropPush, goto
  <1>11. ASSUME NEW c \in Conn, TakePush(c)
         PROVE  SlotAccounting' /\ slots' <= Concurrency
    BY <1>0, <1>11 DEF TakePush, schedulerVars
  <1>12. ASSUME NEW c \in Conn, FinishPush(c)
         PROVE  SlotAccounting' /\ slots' <= Concurrency
    BY <1>0, <1>9, <1>12 DEF FinishPush
  <1>13. ASSUME NEW c \in Conn, Cancel(c)
         PROVE  /\ slots' = slots
                /\ Cardinality(processing') + releasing'
                      = Cardinality(processing) + releasing
    <2>1. Cardinality(processing \ {c}) = IF c \in processing
             THEN Cardinality(processing) - 1 ELSE Cardinality(processing)
      BY <1>0, ProcessingCount DEF TypeOK
    <2> QED
      BY <1>0, <1>13, <2>1 DEF Cancel
  <1>14. ASSUME NEW c \in Conn, ContextCancel(c)
         PROVE  SlotAccounting' /\ slots' <= Concurrency
    BY <1>0, <1>13, <1>14 DEF ContextCancel, callerVars
  <1>15. CASE ReleaseSlot
    BY <1>0, <1>15 DEF ReleaseSlot, callerVars
  <1>16. CASE Close
    BY <1>0, <1>16, FS_EmptySet DEF Close, callerVars
  <1>17. ASSUME NEW c \in Conn, EndContext(c)
         PROVE  SlotAccounting' /\ slots' <= Concurrency
    BY <1>0, <1>17 DEF EndContext, schedulerVars
  <1>18. ASSUME NEW c \in Conn, ExitSession(c)
         PROVE  SlotAccounting' /\ slots' <= Concurrency
    BY <1>0, <1>13, <1>18 DEF ExitSession
  <1> QED
    BY <1>1, <1>2, <1>3, <1>4, <1>5, <1>6, <1>7, <1>8, <1>10, <1>11, <1>12,
       <1>14, <1>15, <1>16, <1>17, <1>18 DEF Next, Dispatcher

\* The consistency of one connection's entries, the body of the invariant.
Consistent(c) ==
    /\ pending[c] # None => c \notin processing
    /\ later[c] # None => c \in processing
    /\ c \in processing => /\ push[c] # None
                           /\ at[c] \in {"dispatcher", "channel", "session"}
    /\ at[c] \in {"dispatcher", "channel", "session"} =>
          c \in processing \/ Ended(c)
    /\ closing => pending[c] = None /\ c \notin processing
    /\ c \in exited => /\ pending[c] = None
                       /\ merging[c] = None
                       /\ c \notin processing

\* No step leaves a connection with work in two places, with two pushes, or
\* with an entry that outlives its session.
LEMMA ConsistentStep ==
    ASSUME IInv, Next
    PROVE  EntriesAreConsistent'
  <1> SUFFICES ASSUME NEW d \in Conn PROVE Consistent(d)'
    BY DEF EntriesAreConsistent, Consistent
  <1>0. TypeOK /\ Consistent(d)
    BY DEF IInv, EntriesAreConsistent, Consistent
  <1> USE DEF Consistent, Ended, TypeOK
  <1>1. ASSUME NEW c \in Conn, NEW u \in Updates, Enqueue(c, u)
        PROVE  Consistent(d)'
    BY <1>0, <1>1 DEF Enqueue, Insert, Queued
  <1>2. ASSUME NEW c \in Conn, EnqueueMerged(c)
        PROVE  Consistent(d)'
    BY <1>0, <1>2 DEF EnqueueMerged, StoreMerged, Insert, Queued
  <1>3. CASE WaitForPending \/ Wake \/ StopWaiting
    BY <1>0, <1>3 DEF WaitForPending, Wake, StopWaiting, goto, schedulerVars
  <1>4. CASE AcquireSlot
    BY <1>0, <1>4 DEF AcquireSlot, goto
  <1>5. CASE AssignHead
    <2>1. PICK i \in DOMAIN queue : AssignHead!3!(i)
      BY <1>5 DEF AssignHead
    <2>2. queue[i] \in Conn /\ i \in 1 .. i
      BY <1>0, <2>1, QueueTail
    <2>3. pending[queue[i]] # None
      BY <2>1 DEF FirstAssignable, Assignable
    <2> QED
      BY <1>0, <1>5, <2>1, <2>2, <2>3 DEF AssignHead, goto
  <1>6. CASE AssignNothing
    BY <1>0, <1>6 DEF AssignNothing, goto
  <1>7. CASE ReturnSlot
    BY <1>0, <1>7 DEF ReturnSlot, goto
  <1>8. ASSUME NEW c \in Conn, SendPush(c)
        PROVE  Consistent(d)'
    BY <1>0, <1>8 DEF SendPush, goto, schedulerVars
  <1>9. ASSUME NEW c \in Conn, Done(c)
        PROVE  /\ pending'[d] # None => d \notin processing'
               /\ later'[d] # None => d \in processing'
               /\ d \in processing' <=> d \in processing /\ d # c
               /\ pending'[d] # None => \/ pending[d] # None
                                        \/ d = c /\ ~closing /\ d \in processing
               /\ closing' = closing
    <2>1. CASE c \notin processing
      BY <1>0, <1>9, <2>1 DEF Done, schedulerVars
    <2>2. CASE c \in processing /\ later[c] # None /\ ~closing /\ c \notin cancelled
      BY <1>0, <1>9, <2>2 DEF Done
    <2>3. CASE c \in processing /\ ~(later[c] # None /\ ~closing /\ c \notin cancelled)
      BY <1>0, <1>9, <2>3 DEF Done
    <2> QED
      BY <2>1, <2>2, <2>3
  <1>10. ASSUME NEW c \in Conn, DropPush(c)
         PROVE  Consistent(d)'
    BY <1>0, <1>9, <1>10 DEF DropPush
  <1>11. ASSUME NEW c \in Conn, TakePush(c)
         PROVE  Consistent(d)'
    BY <1>0, <1>11 DEF TakePush, schedulerVars
  <1>12. ASSUME NEW c \in Conn, FinishPush(c)
         PROVE  Consistent(d)'
    BY <1>0, <1>9, <1>12 DEF FinishPush
  <1>13. ASSUME NEW c \in Conn, ContextCancel(c)
         PROVE  Consistent(d)'
    BY <1>0, <1>13 DEF ContextCancel, Cancel, callerVars
  <1>14. CASE ReleaseSlot
    BY <1>0, <1>14 DEF ReleaseSlot, callerVars
  <1>15. CASE Close
    BY <1>0, <1>15 DEF Close, callerVars
  <1>16. ASSUME NEW c \in Conn, EndContext(c)
         PROVE  Consistent(d)'
    BY <1>0, <1>16 DEF EndContext, schedulerVars
  <1>17. ASSUME NEW c \in Conn, ExitSession(c)
         PROVE  Consistent(d)'
    BY <1>0, <1>17 DEF ExitSession, Cancel
  <1> QED
    BY <1>1, <1>2, <1>3, <1>4, <1>5, <1>6, <1>7, <1>8, <1>10, <1>11, <1>12,
       <1>13, <1>14, <1>15, <1>16, <1>17 DEF Next, Dispatcher

\* The claim of the comment in enqueue: between the two critical sections an
\* entry is consumed or moved, and never replaced.
LEMMA MergeStep ==
    ASSUME IInv, Next
    PROVE  MergeIsCurrent'
  <1> SUFFICES ASSUME NEW d \in Conn, merging'[d] # None, Queued(d)' # None
               PROVE  Queued(d)' = merging'[d].old
    BY DEF MergeIsCurrent
  <1>0. /\ TypeOK
        /\ Consistent(d)
        /\ (merging[d] # None /\ Queued(d) # None) => Queued(d) = merging[d].old
    BY DEF IInv, EntriesAreConsistent, Consistent, MergeIsCurrent
  <1> USE DEF Queued, TypeOK, Consistent, Ended
  <1>1. ASSUME NEW c \in Conn, NEW u \in Updates, Enqueue(c, u)
        PROVE  Queued(d)' = merging'[d].old
    BY <1>0, <1>1 DEF Enqueue, Insert
  <1>2. ASSUME NEW c \in Conn, EnqueueMerged(c)
        PROVE  Queued(d)' = merging'[d].old
    BY <1>0, <1>2 DEF EnqueueMerged, StoreMerged, Insert
  <1>3. CASE WaitForPending \/ Wake \/ StopWaiting \/ AcquireSlot \/ ReturnSlot
    BY <1>0, <1>3 DEF WaitForPending, Wake, StopWaiting, AcquireSlot, ReturnSlot,
                      schedulerVars
  <1>4. CASE AssignHead
    <2>1. PICK i \in DOMAIN queue : AssignHead!3!(i)
      BY <1>4 DEF AssignHead
    <2>2. queue[i] \in Conn
      BY <1>0, <2>1, QueueTail
    <2> QED
      BY <1>0, <1>4, <2>1, <2>2 DEF AssignHead
  <1>5. CASE AssignNothing
    BY <1>0, <1>5 DEF AssignNothing
  <1>6. ASSUME NEW c \in Conn, SendPush(c) \/ TakePush(c) \/ EndContext(c)
        PROVE  Queued(d)' = merging'[d].old
    BY <1>0, <1>6 DEF SendPush, TakePush, EndContext, schedulerVars
  <1>7. ASSUME NEW c \in Conn, Done(c), merging' = merging
        PROVE  Queued(d)' = merging'[d].old
    <2>1. CASE c \notin processing
      BY <1>0, <1>7, <2>1 DEF Done, schedulerVars
    <2>2. CASE c \in processing /\ later[c] # None /\ ~closing /\ c \notin cancelled
      BY <1>0, <1>7, <2>2 DEF Done
    <2>3. CASE c \in processing /\ ~(later[c] # None /\ ~closing /\ c \notin cancelled)
      BY <1>0, <1>7, <2>3 DEF Done
    <2> QED
      BY <2>1, <2>2, <2>3
  <1>8. ASSUME NEW c \in Conn, DropPush(c) \/ FinishPush(c)
        PROVE  Queued(d)' = merging'[d].old
    BY <1>7, <1>8 DEF DropPush, FinishPush
  <1>9. ASSUME NEW c \in Conn, ContextCancel(c) \/ ExitSession(c)
        PROVE  Queued(d)' = merging'[d].old
    BY <1>0, <1>9 DEF ContextCancel, ExitSession, Cancel, callerVars
  <1>10. CASE ReleaseSlot
    BY <1>0, <1>10 DEF ReleaseSlot, callerVars
  <1>11. CASE Close
    BY <1>0, <1>11 DEF Close, callerVars
  <1> QED
    BY <1>1, <1>2, <1>3, <1>4, <1>5, <1>6, <1>8, <1>9, <1>10, <1>11
       DEF Next, Dispatcher

\* The inductive step, put together from the four conjuncts.
LEMMA IInvStep == IInv /\ [Next]_vars => IInv'
  <1>1. ASSUME IInv, Next PROVE IInv'
    <2>1. TypeOK'
      BY <1>1, TypeStep DEF IInv
    <2>2. SlotAccounting' /\ slots' <= Concurrency
      BY <1>1, SlotStep
    <2>3. EntriesAreConsistent' /\ MergeIsCurrent'
      BY <1>1, ConsistentStep, MergeStep
    <2>4. Concurrency' = Concurrency
      OBVIOUS
    <2> QED
      BY <2>1, <2>2, <2>3, <2>4 DEF IInv
  <1>2. ASSUME IInv, UNCHANGED vars PROVE IInv'
    BY <1>2 DEF IInv, TypeOK, SlotAccounting, EntriesAreConsistent, Ended,
                MergeIsCurrent, Queued, vars, schedulerVars, callerVars
  <1> QED
    BY <1>1, <1>2

\* The inductive invariant holds in every state the scheduler reaches.
THEOREM Invariance == Spec => []IInv
  BY InitIInv, IInvStep, PTL DEF Spec

\* Every variable keeps the type its Go declaration gives it; in particular
\* releaseSlot never takes a token from an empty slots channel.
THEOREM TypeCorrect == Spec => []TypeOK
  <1>1. IInv => TypeOK
    BY DEF IInv
  <1> QED
    BY <1>1, Invariance, PTL

\* Done, cancel, Close and Next together neither leak a slot nor free one twice.
THEOREM SlotsAccounted == Spec => []SlotAccounting
  <1>1. IInv => SlotAccounting
    BY DEF IInv
  <1> QED
    BY <1>1, Invariance, PTL

\* At most Concurrency pushes are assigned at any time (PUSH_CONCURRENCY).
THEOREM PushesBounded == Spec => []BoundedPushes
  <1>1. IInv => BoundedPushes
    <2> SUFFICES ASSUME IInv PROVE BoundedPushes
      OBVIOUS
    <2>1. /\ slots \in Nat /\ releasing \in Nat /\ Concurrency \in Nat
          /\ Cardinality(processing) \in Nat
      BY ProcessingFinite, ConstantsAssumption DEF IInv, TypeOK
    <2> QED
      BY <2>1 DEF IInv, SlotAccounting, BoundedPushes
  <1> QED
    BY <1>1, Invariance, PTL

\* A merge computed outside the lock never overwrites a newer update.
THEOREM MergesAreCurrent == Spec => []MergeIsCurrent
  <1>1. IInv => MergeIsCurrent
    BY DEF IInv
  <1> QED
    BY <1>1, Invariance, PTL

\* A connection's work is in one place and it never has a second push.
THEOREM EntriesStayConsistent == Spec => []EntriesAreConsistent
  <1>1. IInv => EntriesAreConsistent
    BY DEF IInv
  <1> QED
    BY <1>1, Invariance, PTL

-----------------------------------------------------------------------------
(* The scheduler implements PushQueue. *)

\* An empty scheduler is an empty PushQueue.
LEMMA InitRefines == Init => Contract!AInit
  <1> SUFFICES ASSUME Init PROVE Contract!AInit
    OBVIOUS
  <1>1. WaitingKeys = [c \in Conn |-> {}]
    BY DEF Init, WaitingKeys, Waiting, Queued
  <1>2. AssignedKeys = [c \in Conn |-> None]
    BY DEF Init, AssignedKeys
  <1>3. EndedStreams = {}
    BY DEF Init, EndedStreams
  <1> QED
    BY <1>1, <1>2, <1>3 DEF Contract!AInit

\* The mapped variables depend on these variables alone.
LEMMA MappedUnchanged ==
    ASSUME UNCHANGED <<pending, processing, later, merging, push, closing,
                       cancelled, exited>>
    PROVE  UNCHANGED Contract!avars
  BY DEF Contract!avars, WaitingKeys, Waiting, Queued, AssignedKeys, EndedStreams

\* A step that at most shrinks the work of ended streams is an End step.
LEMMA EndStep ==
    ASSUME EndedStreams \subseteq EndedStreams',
           \A c \in Conn : \/ Waiting(c)' = Waiting(c)
                           \/ c \in EndedStreams' /\ Waiting(c)' \subseteq Waiting(c),
           \A c \in Conn : \/ AssignedKeys'[c] = AssignedKeys[c]
                           \/ c \in EndedStreams' /\ AssignedKeys'[c] = None
    PROVE  Contract!ANext
  <1>1. \A c \in Conn : /\ WaitingKeys[c] = Waiting(c)
                        /\ WaitingKeys'[c] = Waiting(c)'
    BY DEF WaitingKeys
  <1>2. Contract!Waits(WaitingKeys)
    BY <1>1 DEF Contract!Waits
  <1>3. Contract!End
    BY <1>2 DEF Contract!End
  <1> QED
    BY <1>3 DEF Contract!ANext

\* Done takes the push from a stream that still has it, and moves later keys
\* without losing any, unless the stream or the scheduler is over.
LEMMA DoneRefines ==
    ASSUME IInv, NEW c \in Conn, Done(c), push' = [push EXCEPT ![c] = None],
           UNCHANGED <<merging, cancelled, exited>>
    PROVE  [Contract!ANext]_(Contract!avars)
  <1>0. TypeOK /\ EntriesAreConsistent
    BY DEF IInv
  <1> USE DEF TypeOK
  <1>1. CASE c \notin processing
    <2>1. UNCHANGED <<pending, processing, later, closing, merging, cancelled, exited>>
      BY <1>1, Zenon DEF Done, schedulerVars
    <2>2. AssignedKeys' = AssignedKeys
      BY <1>0, <1>1, <2>1 DEF AssignedKeys
    <2>3. WaitingKeys' = WaitingKeys /\ EndedStreams' = EndedStreams
      BY <2>1 DEF WaitingKeys, Waiting, Queued, EndedStreams
    <2> QED
      BY <2>2, <2>3 DEF Contract!avars
  <1>2. CASE c \in processing
    <2>1. /\ processing' = processing \ {c}
          /\ later' = [later EXCEPT ![c] = None]
          /\ closing' = closing
      BY <1>2, Zenon DEF Done
    <2>2. EndedStreams' = EndedStreams
      BY <2>1 DEF EndedStreams
    <2>3. AssignedKeys[c] # None /\ AssignedKeys' = [AssignedKeys EXCEPT ![c] = None]
      BY <1>0, <1>2, <2>1 DEF AssignedKeys, EntriesAreConsistent
    <2>4. /\ pending[c] = None
          /\ \/ pending' = [pending EXCEPT ![c] = later[c]]
             \/ pending' = pending /\ (later[c] = None \/ closing \/ c \in cancelled)
      BY <1>0, <1>2 DEF Done, EntriesAreConsistent
    <2>5. ASSUME NEW d \in Conn
          PROVE  \/ Waiting(d)' = Waiting(d)
                 \/ d \in EndedStreams' /\ Waiting(d)' \subseteq Waiting(d)
      BY <1>0, <1>2, <2>1, <2>2, <2>4 DEF Waiting, Queued, EndedStreams
    <2>6. Contract!Waits(WaitingKeys)
      BY <2>5 DEF Contract!Waits, WaitingKeys
    <2>7. Contract!Finish(c)
      BY <2>2, <2>3, <2>6 DEF Contract!Finish
    <2> QED
      BY <2>7 DEF Contract!ANext
  <1> QED
    BY <1>1, <1>2

\* The instance of FiniteSets that PushQueue brings along counts the same way.
LEMMA SameCount ==
    ASSUME NEW S
    PROVE  Contract!Cardinality(S) = Cardinality(S)
  BY Zenon DEF Contract!Cardinality, Contract!IsFiniteSet, Cardinality, IsFiniteSet

\* Next hands a connection everything stored for it; only keys of an enqueue
\* that is still merging stay behind.
LEMMA AssignRefines ==
    ASSUME IInv, AssignHead
    PROVE  Contract!ANext
  <1>0. /\ TypeOK /\ EntriesAreConsistent /\ SlotAccounting
        /\ slots <= Concurrency
    BY DEF IInv
  <1> USE DEF TypeOK
  <1>c. Cardinality(processing) \in Nat /\ Concurrency \in Nat
    BY <1>0, ProcessingFinite, ConstantsAssumption
  <1>1. PICK i \in DOMAIN queue : AssignHead!3!(i)
    BY Zenon DEF AssignHead
  <1>a. PICK c \in Conn : c = queue[i]
    BY <1>0, <1>1, QueueTail
  <1>b. PICK left \in SUBSET Key :
           left = IF merging[c] = None THEN {} ELSE merging[c].new
    BY <1>0 DEF Updates
  <1>2. /\ pending[c] # None /\ c \notin processing
        /\ c \notin cancelled /\ i \in 1 .. i
    BY <1>0, <1>1, <1>a, QueueTail DEF FirstAssignable, Assignable, EntriesAreConsistent
  <1>3. /\ ~closing
        /\ UNCHANGED <<closing, cancelled, exited, merging>>
        /\ processing' = processing \cup {c}
        /\ later' = [later EXCEPT ![c] = None]
        /\ push' = [push EXCEPT ![c] = pending[c]]
    BY <1>1, <1>a, Zenon DEF AssignHead
  <1>4. /\ pending'[c] = None
        /\ \A d \in Conn \ {c} : \/ pending'[d] = pending[d]
                                 \/ d \in cancelled /\ pending'[d] = None
    <2>1. \A j \in 1 .. i : j < i => ~(pending[queue[j]] # None /\ queue[j] \notin cancelled)
      <3> SUFFICES ASSUME NEW j \in 1 .. i, j < i,
                          pending[queue[j]] # None, queue[j] \notin cancelled
                   PROVE  FALSE
        OBVIOUS
      <3>1. j \in DOMAIN queue /\ i \in Nat
        BY <1>0, <1>1
      <3>2. j \in Assignable
        BY <3>1 DEF Assignable
      <3> QED
        BY <1>1, <3>1, <3>2 DEF FirstAssignable
    <2>2. \A d \in Conn : pending'[d] = IF \E j \in 1 .. i : queue[j] = d
                                        THEN None ELSE pending[d]
      BY <1>1
    <2>3. pending'[c] = None
      BY <1>2, <1>a, <2>2
    <2>4. ASSUME NEW d \in Conn \ {c}
          PROVE  \/ pending'[d] = pending[d]
                 \/ d \in cancelled /\ pending'[d] = None
      <3>1. CASE \E j \in 1 .. i : queue[j] = d
        <4>1. PICK j \in 1 .. i : queue[j] = d
          BY <3>1
        <4>2. j < i
          BY <1>0, <1>1, <1>a, <2>4, <4>1, SMTT(40)
        <4> QED
          BY <2>1, <2>2, <4>1, <4>2
      <3>2. CASE ~ \E j \in 1 .. i : queue[j] = d
        BY <2>2, <3>2
      <3> QED
        BY <3>1, <3>2
    <2> QED
      BY <2>3, <2>4
  <1>5. EndedStreams' = EndedStreams
    BY <1>3 DEF EndedStreams
  <1>6. /\ AssignedKeys[c] = None
        /\ AssignedKeys' = [AssignedKeys EXCEPT ![c] = pending[c]]
    BY <1>0, <1>2, <1>3 DEF AssignedKeys
  <1>7. /\ WaitingKeys[c] = pending[c] \cup left
        /\ WaitingKeys'[c] = left
    BY <1>0, <1>b, <1>2, <1>3, <1>4 DEF WaitingKeys, Waiting, Queued
  <1>8. \A d \in Conn \ {c} :
           \/ WaitingKeys'[d] = WaitingKeys[d]
           \/ d \in EndedStreams' /\ WaitingKeys'[d] \subseteq WaitingKeys[d]
    BY <1>0, <1>2, <1>3, <1>4, <1>5 DEF WaitingKeys, Waiting, Queued, EndedStreams
  <1>9. Cardinality({d \in Conn : AssignedKeys[d] # None}) < Concurrency
    <2>1. {d \in Conn : AssignedKeys[d] # None} = processing
      BY <1>0 DEF AssignedKeys, EntriesAreConsistent
    <2>2. slots = Cardinality(processing) + releasing + 1
      BY <1>0 DEF SlotAccounting, AssignHead, goto
    <2>3. Cardinality(processing) < Concurrency
      <3>1. releasing \in Nat /\ slots <= Concurrency /\ slots \in Nat
        BY <1>0
      <3> HIDE DEF TypeOK
      <3> QED
        BY <1>c, <2>2, <3>1
    <2> QED
      BY <2>1, <2>3
  <1>10. Contract!Waits([WaitingKeys EXCEPT ![c] = left])
    <2>1. DOMAIN WaitingKeys = Conn
      BY DEF WaitingKeys
    <2> QED
      BY <1>2, <1>7, <1>8, <2>1 DEF Contract!Waits
  <1>11. Contract!Assign(c)
    <2>1. /\ pending[c] \in SUBSET WaitingKeys[c] /\ left \in SUBSET WaitingKeys[c]
          /\ pending[c] \cup left = WaitingKeys[c]
      BY <1>7
    <2> HIDE DEF TypeOK
    <2>2. Contract!Cardinality({d \in Conn : AssignedKeys[d] # None}) < Concurrency
      BY <1>9, SameCount
    <2> QED
      BY <1>5, <1>6, <1>10, <2>1, <2>2, Zenon DEF Contract!Assign
  <1> QED
    BY <1>2, <1>11 DEF Contract!ANext

\* Every action of the scheduler is an action of PushQueue or leaves what
\* PushQueue sees unchanged.
LEMMA StepRefines ==
    ASSUME IInv, Next
    PROVE  [Contract!ANext]_(Contract!avars)
  <1>0. TypeOK /\ EntriesAreConsistent /\ MergeIsCurrent
    BY DEF IInv
  <1> USE DEF TypeOK
  <1>1. ASSUME NEW c \in Conn, NEW u \in Updates, Enqueue(c, u)
        PROVE  Contract!ANext
    <2>1. /\ UNCHANGED <<processing, push, closing, cancelled, exited>>
          /\ ~closing /\ c \notin cancelled \cup exited /\ merging[c] = None
      BY <1>1, Zenon DEF Enqueue
    <2>2. AssignedKeys' = AssignedKeys /\ EndedStreams' = EndedStreams
      BY <2>1 DEF AssignedKeys, EndedStreams
    <2>3. c \notin EndedStreams
      BY <2>1 DEF EndedStreams
    <2>4. ASSUME NEW d \in Conn
          PROVE  Waiting(d)' = IF d = c THEN Waiting(d) \cup u ELSE Waiting(d)
      <3>1. CASE Queued(c) = None
        <4>1. Insert(c, u) /\ UNCHANGED merging
          BY <1>1, <3>1, Zenon DEF Enqueue
        <4>2. u # None
          BY ConstantsAssumption DEF Updates
        <4>3. CASE c \in processing
          BY <1>0, <2>1, <3>1, <4>1, <4>2, <4>3 DEF Insert, Waiting, Queued
        <4>4. CASE c \notin processing
          BY <1>0, <2>1, <3>1, <4>1, <4>2, <4>4 DEF Insert, Waiting, Queued
        <4> QED
          BY <4>3, <4>4
      <3>2. CASE Queued(c) # None
        <4>1. /\ merging' = [merging EXCEPT ![c] = [old |-> Queued(c), new |-> u]]
              /\ UNCHANGED <<pending, later>>
          BY <1>1, <3>2, Zenon DEF Enqueue
        <4>2. merging'[c].new = u /\ merging'[c] # None
          <5>1. [old |-> Queued(c), new |-> u] \in [old : SUBSET Key, new : SUBSET Key]
            BY <1>0, <3>2 DEF Queued, Updates
          <5> QED
            BY <1>0, <4>1, <5>1, ConstantsAssumption
        <4> QED
          BY <1>0, <2>1, <3>2, <4>1, <4>2 DEF Waiting, Queued
      <3> QED
        BY <3>1, <3>2
    <2>5. WaitingKeys' = [WaitingKeys EXCEPT ![c] = @ \cup u]
      BY <2>4 DEF WaitingKeys
    <2> QED
      BY <2>2, <2>3, <2>5 DEF Contract!Accept, Contract!ANext, Updates
  <1>2. ASSUME NEW c \in Conn, EnqueueMerged(c)
        PROVE  [Contract!ANext]_(Contract!avars)
    <2>1. /\ UNCHANGED <<processing, push, closing, cancelled, exited>>
          /\ merging[c] # None
          /\ merging' = [merging EXCEPT ![c] = None]
      BY <1>2, Zenon DEF EnqueueMerged
    <2>2. AssignedKeys' = AssignedKeys /\ EndedStreams' = EndedStreams
      BY <2>1 DEF AssignedKeys, EndedStreams
    <2>3. CASE closing \/ c \in cancelled
      <3>1. UNCHANGED <<pending, later>>
        BY <1>2, <2>3, Zenon DEF EnqueueMerged
      <3>2. \A d \in Conn : \/ Waiting(d)' = Waiting(d)
                            \/ d \in EndedStreams' /\ Waiting(d)' \subseteq Waiting(d)
        BY <1>0, <2>1, <2>3, <3>1 DEF Waiting, Queued, EndedStreams
      <3> QED
        BY <2>2, <3>2, EndStep
    <2>4. CASE ~(closing \/ c \in cancelled)
      <3>1. ASSUME NEW d \in Conn PROVE Waiting(d)' = Waiting(d)
        <4>1. CASE Queued(c) # None
          <5>1. Queued(c) = merging[c].old
            BY <1>0, <2>1, <4>1 DEF MergeIsCurrent
          <5>2. StoreMerged(c, merging[c].old \cup merging[c].new)
            BY <1>2, <2>4, <4>1, Zenon DEF EnqueueMerged
          <5>3. merging[c].old \cup merging[c].new # None
            BY <1>0, <2>1, ConstantsAssumption DEF Updates
          <5>4. CASE c \in processing
            BY <1>0, <2>1, <4>1, <5>1, <5>2, <5>3, <5>4
               DEF StoreMerged, Waiting, Queued
          <5>5. CASE c \notin processing
            BY <1>0, <2>1, <4>1, <5>1, <5>2, <5>3, <5>5
               DEF StoreMerged, Waiting, Queued
          <5> QED
            BY <5>4, <5>5
        <4>2. CASE Queued(c) = None
          <5>1. Insert(c, merging[c].new)
            BY <1>2, <2>4, <4>2, Zenon DEF EnqueueMerged
          <5>2. merging[c].new # None
            BY <1>0, <2>1, ConstantsAssumption DEF Updates
          <5>3. CASE c \in processing
            BY <1>0, <2>1, <4>2, <5>1, <5>2, <5>3 DEF Insert, Waiting, Queued
          <5>4. CASE c \notin processing
            BY <1>0, <2>1, <4>2, <5>1, <5>2, <5>4 DEF Insert, Waiting, Queued
          <5> QED
            BY <5>3, <5>4
        <4> QED
          BY <4>1, <4>2
      <3>2. WaitingKeys' = WaitingKeys
        BY <3>1 DEF WaitingKeys
      <3> QED
        BY <2>2, <3>2 DEF Contract!avars
    <2> QED
      BY <2>3, <2>4
  <1>3. CASE WaitForPending \/ Wake \/ StopWaiting \/ AcquireSlot \/ ReturnSlot
             \/ ReleaseSlot
    BY <1>3, MappedUnchanged
       DEF WaitForPending, Wake, StopWaiting, AcquireSlot, ReturnSlot, ReleaseSlot,
           schedulerVars, callerVars
  <1>4. CASE AssignHead
    BY <1>4, AssignRefines
  <1>5. CASE AssignNothing
    <2>1. UNCHANGED <<processing, later, push, merging, closing, cancelled, exited>>
      BY <1>5, Zenon DEF AssignNothing
    <2>2. AssignedKeys' = AssignedKeys /\ EndedStreams' = EndedStreams
      BY <2>1 DEF AssignedKeys, EndedStreams
    <2>3. \A d \in Conn : \/ pending'[d] = pending[d]
                          \/ (closing \/ d \in cancelled) /\ pending'[d] = None
      BY <1>0, <1>5 DEF AssignNothing, Assignable
    <2>4. \A d \in Conn : \/ Waiting(d)' = Waiting(d)
                          \/ d \in EndedStreams' /\ Waiting(d)' \subseteq Waiting(d)
      BY <1>0, <2>1, <2>3 DEF Waiting, Queued, EndedStreams
    <2> QED
      BY <2>2, <2>4, EndStep
  <1>6. ASSUME NEW c \in Conn, SendPush(c) \/ TakePush(c)
        PROVE  UNCHANGED Contract!avars
    BY <1>6, MappedUnchanged DEF SendPush, TakePush, schedulerVars
  <1>7. ASSUME NEW c \in Conn, DropPush(c) \/ FinishPush(c)
        PROVE  [Contract!ANext]_(Contract!avars)
    BY <1>7, DoneRefines DEF DropPush, FinishPush
  <1>8. ASSUME NEW c \in Conn, Cancel(c), UNCHANGED <<merging, push>>,
               c \in EndedStreams', EndedStreams \subseteq EndedStreams'
        PROVE  Contract!ANext
    <2>1. \A d \in Conn : \/ Waiting(d)' = Waiting(d)
                          \/ d \in EndedStreams' /\ Waiting(d)' \subseteq Waiting(d)
      BY <1>0, <1>8 DEF Cancel, Waiting, Queued
    <2>2. \A d \in Conn : \/ AssignedKeys'[d] = AssignedKeys[d]
                          \/ d \in EndedStreams' /\ AssignedKeys'[d] = None
      BY <1>0, <1>8 DEF Cancel, AssignedKeys
    <2> QED
      BY <1>8, <2>1, <2>2, EndStep
  <1>9. ASSUME NEW c \in Conn, ContextCancel(c)
        PROVE  Contract!ANext
    <2>1. c \in EndedStreams' /\ EndedStreams \subseteq EndedStreams'
      BY <1>9 DEF ContextCancel, Cancel, callerVars, EndedStreams
    <2> QED
      BY <1>8, <1>9, <2>1 DEF ContextCancel, callerVars
  <1>10. ASSUME NEW c \in Conn, ExitSession(c)
         PROVE  Contract!ANext
    <2>1. c \in EndedStreams' /\ EndedStreams \subseteq EndedStreams'
      BY <1>10 DEF ExitSession, Cancel, EndedStreams
    <2> QED
      BY <1>8, <1>10, <2>1 DEF ExitSession
  <1>11. CASE Close
    <2>1. EndedStreams' = Conn /\ EndedStreams \subseteq Conn
      BY <1>0, <1>11 DEF Close, EndedStreams, callerVars
    <2>2. \A d \in Conn : Waiting(d)' \subseteq Waiting(d) /\ AssignedKeys'[d] = None
      BY <1>0, <1>11 DEF Close, callerVars, Waiting, Queued, AssignedKeys
    <2> QED
      BY <2>1, <2>2, EndStep
  <1>12. ASSUME NEW c \in Conn, EndContext(c)
         PROVE  Contract!ANext
    <2>1. UNCHANGED <<pending, processing, later, merging, push, closing, exited>>
      BY <1>12 DEF EndContext, schedulerVars
    <2>2. EndedStreams \subseteq EndedStreams'
      BY <1>12, <2>1 DEF EndContext, EndedStreams
    <2>3. WaitingKeys' = WaitingKeys /\ AssignedKeys' = AssignedKeys
      BY <2>1 DEF WaitingKeys, Waiting, Queued, AssignedKeys
    <2>4. \A d \in Conn : Waiting(d)' = Waiting(d)
      BY <2>1 DEF Waiting, Queued
    <2> QED
      BY <2>2, <2>3, <2>4, EndStep
  <1> QED
    BY <1>1, <1>2, <1>3, <1>4, <1>5, <1>6, <1>7, <1>9, <1>10, <1>11, <1>12
       DEF Next, Dispatcher

\* The refinement, for any number of streams: an accepted key reaches a push of
\* its stream, or the stream or the scheduler is over.
THEOREM Refinement == Spec => ImplementsPushQueue
  <1>1. IInv /\ [Next]_vars => [Contract!ANext]_(Contract!avars)
    <2>1. ASSUME IInv, UNCHANGED vars PROVE UNCHANGED Contract!avars
      BY <2>1, MappedUnchanged DEF vars, schedulerVars, callerVars
    <2> QED
      BY <2>1, StepRefines
  <1> QED
    BY <1>1, InitRefines, Invariance, PTL
       DEF Spec, ImplementsPushQueue, Contract!ASpec
=============================================================================
