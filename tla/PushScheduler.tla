--------------------------- MODULE PushScheduler ---------------------------
(***************************************************************************)
(* pkg/xds/scheduler.go, and the dispatcher goroutine of pkg/xds/server.go *)
(* that drives it.  An update is the set of keys it invalidates, which is  *)
(* all that xdsstore.Merge keeps: the merge of two updates is their union. *)
(*                                                                         *)
(* One step is what a goroutine does while it holds PushScheduler.mu.  The *)
(* code drops that lock in two places, and so does the model: while two    *)
(* updates are merged (merging), and before the slot of a finished push is *)
(* given back (releasing).  enqueueMu is held while merging[c] # None.     *)
(***************************************************************************)
EXTENDS Naturals, Sequences, FiniteSets

CONSTANTS Conn,          \* the Delta streams, one pushConnection each
          Key,           \* what an update can invalidate
          Concurrency,   \* capacity of the slots channel
          None           \* no queuedUpdate (present = false), or no push

ASSUME ConstantsAssumption ==
    /\ IsFiniteSet(Conn)
    /\ Concurrency \in Nat \ {0}
    /\ \A u \in SUBSET Key : None # u
    /\ \A m \in [old : SUBSET Key, new : SUBSET Key] : None # m

VARIABLES
    pending,        \* pending[c]: the queued update of c, or None
    queue,          \* connections in the order they became pending
    processing,     \* connections with an assigned push
    later,          \* later[c]: what arrived for c while it was assigned
    cancellations,  \* connections with a registered AfterFunc
    slots,          \* tokens in the slots channel
    wake,           \* the capacity-one wake channel holds a signal
    closing,        \* Close has run
    releasing,      \* goroutines between Unlock and releaseSlot
    merging,        \* merging[c]: the merge enqueue(c) is computing, or None
    dispatcher,     \* where Next and dispatchPushes are
    push,           \* push[c]: keys of the scheduledPush made for c, or None
    at,             \* where that scheduledPush is
    cancelled,      \* connections whose context is done
    exited          \* connections whose session has returned

schedulerVars == <<pending, queue, processing, later, cancellations, slots,
                   wake, closing, releasing>>
callerVars == <<merging, dispatcher, push, at, cancelled, exited>>
vars == <<schedulerVars, callerVars>>

Updates == SUBSET Key

\* The fields of the scheduler keep their types: Done and the dispatcher never
\* take the slots channel below empty.
TypeOK ==
    /\ pending \in [Conn -> {None} \cup Updates]
    /\ queue \in Seq(Conn)
    /\ processing \in SUBSET Conn
    /\ later \in [Conn -> {None} \cup Updates]
    /\ cancellations \in SUBSET Conn
    /\ slots \in Nat
    /\ wake \in BOOLEAN
    /\ closing \in BOOLEAN
    /\ releasing \in Nat
    /\ merging \in [Conn -> {None} \cup [old : Updates, new : Updates]]
    /\ dispatcher \in {"check", "blocked", "acquire", "assign", "release",
                       "send", "stopped"}
    /\ push \in [Conn -> {None} \cup Updates]
    /\ at \in [Conn -> {"none", "dispatcher", "channel", "session", "dropped"}]
    /\ cancelled \in SUBSET Conn
    /\ exited \in SUBSET Conn

\* NewPushScheduler, NewServer's goroutine, and streams that just opened.
Init ==
    /\ pending = [c \in Conn |-> None]
    /\ queue = << >>
    /\ processing = {}
    /\ later = [c \in Conn |-> None]
    /\ cancellations = {}
    /\ slots = 0
    /\ wake = FALSE
    /\ closing = FALSE
    /\ releasing = 0
    /\ merging = [c \in Conn |-> None]
    /\ dispatcher = "check"
    /\ push = [c \in Conn |-> None]
    /\ at = [c \in Conn |-> "none"]
    /\ cancelled = {}
    /\ exited = {}

-----------------------------------------------------------------------------
(* Enqueue *)

\* queuedLocked: the entry an enqueue has to merge with.
Queued(c) == IF c \in processing THEN later[c] ELSE pending[c]

\* Mutant: the new entry is queued without waking the dispatcher.
InsertUnsignalled(c, u) ==
    IF c \in processing
    THEN /\ later' = [later EXCEPT ![c] = u]
         /\ UNCHANGED <<pending, queue, wake>>
    ELSE /\ pending' = [pending EXCEPT ![c] = u]
         /\ queue' = Append(queue, c)
         /\ UNCHANGED <<wake, later>>

\* A connection with no entry gets one, in the map that fits its state.
Insert(c, u) ==
    IF c \in processing
    THEN /\ later' = [later EXCEPT ![c] = u]
         /\ UNCHANGED <<pending, queue, wake>>
    ELSE /\ pending' = [pending EXCEPT ![c] = u]
         /\ queue' = Append(queue, c)
         /\ wake' = TRUE
         /\ UNCHANGED later

\* Mutant: enqueue does not take enqueueMu.
EnqueueUnserialized(c, u) ==
    /\ c \notin cancelled \cup exited
    /\ ~closing
    /\ cancellations' = cancellations \cup {c}
    /\ IF Queued(c) = None
       THEN Insert(c, u) /\ UNCHANGED merging
       ELSE /\ merging' = [merging EXCEPT ![c] = [old |-> Queued(c), new |-> u]]
            /\ UNCHANGED <<pending, queue, wake, later>>
    /\ UNCHANGED <<processing, slots, closing, releasing, dispatcher, push, at,
                   cancelled, exited>>

\* enqueue up to the point where it returns or drops the lock to merge.
Enqueue(c, u) ==
    /\ c \notin cancelled \cup exited
    /\ ~closing
    /\ merging[c] = None
    /\ cancellations' = cancellations \cup {c}
    /\ IF Queued(c) = None
       THEN Insert(c, u) /\ UNCHANGED merging
       ELSE /\ merging' = [merging EXCEPT ![c] = [old |-> Queued(c), new |-> u]]
            /\ UNCHANGED <<pending, queue, wake, later>>
    /\ UNCHANGED <<processing, slots, closing, releasing, dispatcher, push, at,
                   cancelled, exited>>

StoreMerged(c, u) ==
    /\ IF c \in processing
       THEN later' = [later EXCEPT ![c] = u] /\ UNCHANGED pending
       ELSE pending' = [pending EXCEPT ![c] = u] /\ UNCHANGED later
    /\ UNCHANGED <<queue, wake>>

\* Mutant: an entry consumed during the merge is taken for success.
EnqueueMergedOnce(c) ==
    /\ merging[c] # None
    /\ merging' = [merging EXCEPT ![c] = None]
    /\ IF closing \/ c \in cancelled \/ Queued(c) = None
       THEN UNCHANGED <<pending, queue, wake, later>>
       ELSE StoreMerged(c, merging[c].old \cup merging[c].new)
    /\ UNCHANGED <<processing, cancellations, slots, closing, releasing,
                   dispatcher, push, at, cancelled, exited>>

\* enqueue after the merge, once it holds the lock again.  An entry that Next
\* consumed meanwhile sends the loop round again, which inserts the update.
EnqueueMerged(c) ==
    /\ merging[c] # None
    /\ merging' = [merging EXCEPT ![c] = None]
    /\ IF closing \/ c \in cancelled
       THEN UNCHANGED <<pending, queue, wake, later>>
       ELSE IF Queued(c) # None
            THEN StoreMerged(c, merging[c].old \cup merging[c].new)
            ELSE Insert(c, merging[c].new)
    /\ UNCHANGED <<processing, cancellations, slots, closing, releasing,
                   dispatcher, push, at, cancelled, exited>>

-----------------------------------------------------------------------------
(* Next and dispatchPushes *)

goto(from, to) == dispatcher = from /\ dispatcher' = to

\* waitForPending looks at the queue, and blocks when there is nothing in it.
WaitForPending ==
    /\ goto("check", IF closing THEN "stopped"
                     ELSE IF queue # << >> THEN "acquire" ELSE "blocked")
    /\ UNCHANGED <<schedulerVars, merging, push, at, cancelled, exited>>

Wake ==
    /\ goto("blocked", "check")
    /\ wake
    /\ wake' = FALSE
    /\ UNCHANGED <<pending, queue, processing, later, cancellations, slots,
                   closing, releasing, merging, push, at, cancelled, exited>>

\* The closed channel ends a wait for work and a wait for capacity.
StopWaiting ==
    /\ closing
    /\ dispatcher \in {"blocked", "acquire"}
    /\ dispatcher' = "stopped"
    /\ UNCHANGED <<schedulerVars, merging, push, at, cancelled, exited>>

\* Next sends its token into the slots channel.
AcquireSlot ==
    /\ goto("acquire", "assign")
    /\ slots < Concurrency
    /\ slots' = slots + 1
    /\ UNCHANGED <<pending, queue, processing, later, cancellations, wake,
                   closing, releasing, merging, push, at, cancelled, exited>>

\* Positions of the queue that Next would return; it skips the others.
Assignable == {i \in DOMAIN queue : /\ pending[queue[i]] # None
                                    /\ queue[i] \notin cancelled}

FirstAssignable(i) == i \in Assignable /\ \A j \in Assignable : i <= j

\* Next pops the queue up to the first connection it can assign.
AssignHead ==
    /\ goto("assign", "send")
    /\ ~closing
    /\ \E i \in DOMAIN queue :
          LET c == queue[i] IN
          /\ FirstAssignable(i)
          /\ queue' = SubSeq(queue, i + 1, Len(queue))
          /\ pending' = [d \in Conn |-> IF \E j \in 1 .. i : queue[j] = d
                                        THEN None ELSE pending[d]]
          /\ processing' = processing \cup {c}
          /\ later' = [later EXCEPT ![c] = None]
          /\ push' = [push EXCEPT ![c] = pending[c]]
          /\ at' = [at EXCEPT ![c] = "dispatcher"]
    /\ UNCHANGED <<cancellations, slots, wake, closing, releasing, merging,
                   cancelled, exited>>

\* Nothing in the queue was worth a push, or the scheduler closed meanwhile.
AssignNothing ==
    /\ goto("assign", "release")
    /\ closing \/ Assignable = {}
    /\ queue' = << >>
    /\ pending' = [d \in Conn |-> IF \E j \in DOMAIN queue : queue[j] = d
                                  THEN None ELSE pending[d]]
    /\ UNCHANGED <<processing, later, cancellations, slots, wake, closing,
                   releasing, merging, push, at, cancelled, exited>>

ReturnSlot ==
    /\ goto("release", "check")
    /\ slots' = slots - 1
    /\ UNCHANGED <<pending, queue, processing, later, cancellations, wake,
                   closing, releasing, merging, push, at, cancelled, exited>>

\* dispatchPushes: into the stream's pushes channel, whose capacity is one ...
SendPush(c) ==
    /\ goto("send", "check")
    /\ at[c] = "dispatcher"
    /\ at' = [at EXCEPT ![c] = "channel"]
    /\ UNCHANGED <<schedulerVars, merging, push, cancelled, exited>>

-----------------------------------------------------------------------------
(* Done, cancel and Close *)

\* The locked part of Done.  A push that cancel or Close already settled is
\* not found in processing, and then nothing happens.
Done(c) ==
    IF c \notin processing
    THEN UNCHANGED schedulerVars
    ELSE /\ processing' = processing \ {c}
         /\ later' = [later EXCEPT ![c] = None]
         /\ IF later[c] # None /\ ~closing /\ c \notin cancelled
            THEN /\ pending' = [pending EXCEPT ![c] = later[c]]
                 /\ queue' = Append(queue, c)
                 /\ wake' = TRUE
            ELSE UNCHANGED <<pending, queue, wake>>
         /\ releasing' = releasing + 1
         /\ UNCHANGED <<cancellations, slots, closing>>

\* ... or, when the stream ended or the scheduler closed first, straight to Done.
DropPush(c) ==
    /\ goto("send", "check")
    /\ at[c] = "dispatcher"
    /\ closing \/ c \in cancelled
    /\ at' = [at EXCEPT ![c] = "dropped"]
    /\ push' = [push EXCEPT ![c] = None]
    /\ Done(c)
    /\ UNCHANGED <<merging, cancelled, exited>>

\* deltaSession.run receives the push and enters handlePush ...
TakePush(c) ==
    /\ at[c] = "channel"
    /\ c \notin exited
    /\ at' = [at EXCEPT ![c] = "session"]
    /\ UNCHANGED <<schedulerVars, merging, dispatcher, push, cancelled, exited>>

\* ... which always ends in its deferred Done.
FinishPush(c) ==
    /\ at[c] = "session"
    /\ at' = [at EXCEPT ![c] = "none"]
    /\ push' = [push EXCEPT ![c] = None]
    /\ Done(c)
    /\ UNCHANGED <<merging, dispatcher, cancelled, exited>>

\* Mutant: cancel forgets the slot of an assigned push.
CancelKeepsSlot(c) ==
    /\ pending' = [pending EXCEPT ![c] = None]
    /\ processing' = processing \ {c}
    /\ later' = [later EXCEPT ![c] = None]
    /\ cancellations' = cancellations \ {c}
    /\ UNCHANGED <<queue, slots, wake, closing, releasing>>

\* The locked part of cancel.  The queue keeps its entry for c.
Cancel(c) ==
    /\ pending' = [pending EXCEPT ![c] = None]
    /\ processing' = processing \ {c}
    /\ later' = [later EXCEPT ![c] = None]
    /\ releasing' = IF c \in processing THEN releasing + 1 ELSE releasing
    /\ cancellations' = cancellations \ {c}
    /\ UNCHANGED <<queue, slots, wake, closing>>

\* The AfterFunc that enqueue registered runs once the context is done.
ContextCancel(c) ==
    /\ c \in cancelled \cap cancellations
    /\ Cancel(c)
    /\ UNCHANGED callerVars

\* releaseSlot, at the end of Done, cancel or Close.
ReleaseSlot ==
    /\ releasing > 0
    /\ releasing' = releasing - 1
    /\ slots > 0
    /\ slots' = slots - 1
    /\ UNCHANGED <<pending, queue, processing, later, cancellations, wake,
                   closing, callerVars>>

\* The locked part of Close, which then releases a slot per assigned push.
Close ==
    /\ ~closing
    /\ closing' = TRUE
    /\ queue' = << >>
    /\ pending' = [c \in Conn |-> None]
    /\ processing' = {}
    /\ later' = [c \in Conn |-> None]
    /\ cancellations' = {}
    /\ releasing' = releasing + Cardinality(processing)
    /\ UNCHANGED <<slots, wake, callerVars>>

-----------------------------------------------------------------------------
(* The streams *)

\* The client goes away, or gRPC ends the context of a returned handler.
EndContext(c) ==
    /\ c \notin cancelled
    /\ cancelled' = cancelled \cup {c}
    /\ UNCHANGED <<schedulerVars, merging, dispatcher, push, at, exited>>

\* deltaSession.run returns: its deferred cancel runs in the same goroutine
\* as its enqueues and its pushes, so neither is under way.
ExitSession(c) ==
    /\ c \notin exited
    /\ merging[c] = None
    /\ at[c] # "session"
    /\ exited' = exited \cup {c}
    /\ Cancel(c)
    /\ UNCHANGED <<merging, dispatcher, push, at, cancelled>>

Dispatcher ==
    \/ WaitForPending \/ Wake \/ StopWaiting \/ AcquireSlot
    \/ AssignHead \/ AssignNothing \/ ReturnSlot
    \/ \E c \in Conn : SendPush(c) \/ DropPush(c)

Next ==
    \/ Dispatcher
    \/ ReleaseSlot
    \/ Close
    \/ \E c \in Conn :
          \/ \E u \in Updates : Enqueue(c, u)
          \/ EnqueueMerged(c)
          \/ TakePush(c)
          \/ FinishPush(c)
          \/ ContextCancel(c)
          \/ EndContext(c)
          \/ ExitSession(c)

Spec == Init /\ [][Next]_vars

\* The dispatcher, every unlocked tail and every session make progress; a
\* handler that returned has its context ended by gRPC.  Clients, Close and
\* new updates may happen or not.
Fairness ==
    /\ WF_vars(Dispatcher)
    /\ WF_vars(ReleaseSlot)
    /\ \A c \in Conn :
          /\ WF_vars(EnqueueMerged(c))
          /\ WF_vars(TakePush(c))
          /\ WF_vars(FinishPush(c))
          /\ WF_vars(ContextCancel(c))
          /\ WF_vars(c \in exited /\ EndContext(c))

FairSpec == Spec /\ Fairness

-----------------------------------------------------------------------------
(* Properties *)

\* Every token in the slots channel belongs to one assigned push, to a
\* goroutine about to give it back, or to Next between taking it and using it:
\* no path of Done, cancel and Close gives a slot back twice or keeps it.
SlotAccounting ==
    slots = Cardinality(processing) + releasing
            + (IF dispatcher \in {"assign", "release"} THEN 1 ELSE 0)

\* PUSH_CONCURRENCY bounds the pushes that are assigned at any time, and the
\* channel never holds more tokens than it has room for.
BoundedPushes == Cardinality(processing) <= Concurrency /\ slots <= Concurrency

Ended(c) == closing \/ c \in cancelled \cup exited

\* A connection's work is in one place: the maps are exclusive, an assigned
\* connection has exactly the one push Next made for it, a second push is never
\* made while the first is under way, and a finished session or a closed
\* scheduler keeps no entry that a later Done could mistake for its own.
EntriesAreConsistent ==
    \A c \in Conn :
        /\ pending[c] # None => c \notin processing
        /\ later[c] # None => c \in processing
        /\ c \in processing => /\ push[c] # None
                               /\ at[c] \in {"dispatcher", "channel", "session"}
        /\ at[c] \in {"dispatcher", "channel", "session"} =>
              c \in processing \/ Ended(c)
        /\ closing => pending[c] = None /\ c \notin processing
        /\ c \in exited => /\ pending[c] = None
                           /\ merging[c] = None
                           /\ c \notin processing

\* The comment in enqueue: an entry found after the merge is the entry that
\* was merged, so that storing the result cannot overwrite a newer update.
MergeIsCurrent ==
    \A c \in Conn :
        (merging[c] # None /\ Queued(c) # None) => Queued(c) = merging[c].old

\* An update accepted for a stream reaches that stream's session as a push,
\* unless the stream or the scheduler ends first.
EveryUpdateIsPushed ==
    \A c \in Conn :
        (Queued(c) # None) ~> (at[c] = "session" \/ c \in cancelled \cup exited
                               \/ closing)

\* The keys enqueue has taken for c, stored already or still being merged.
Waiting(c) == (IF Queued(c) = None THEN {} ELSE Queued(c)) \cup
              (IF merging[c] = None THEN {} ELSE merging[c].new)

WaitingKeys == [c \in Conn |-> Waiting(c)]
AssignedKeys == [c \in Conn |-> IF c \in processing THEN push[c] ELSE None]
EndedStreams == IF closing THEN Conn ELSE cancelled \cup exited

\* The scheduler implements PushQueue: merging outside the lock, moving later
\* updates, stale queue entries and early cancellation lose no accepted key.
Contract == INSTANCE PushQueue WITH
    waiting <- WaitingKeys, assigned <- AssignedKeys, ended <- EndedStreams

ImplementsPushQueue == Contract!ASpec
=============================================================================
