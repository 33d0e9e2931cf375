---------------------------- MODULE Publication ----------------------------
(***************************************************************************)
(* From compiled resources to the published snapshot: the collection of    *)
(* compiled resources and its event stream, the Controller that coalesces  *)
(* and debounces changes (pkg/xds/controller.go), and the Store.           *)
(* Three goroutines take part: whoever changes the collection, the         *)
(* collection's listener, which calls Enqueue for each batch of events     *)
(* some time after the change, and Controller.Run.                         *)
(***************************************************************************)
EXTENDS ResourceStore, Sequences, SequencesExt

CONSTANTS Debounce,     \* quiet > 0
          Invalid,      \* contents NewResourceSet and Apply refuse
          MaxChanges    \* bound: changes of the collection after Init

VARIABLES
    source,             \* the compiled resources
    events,             \* batches of changes the listener has not handled
    pendingFull,        \* Controller.pendingFull
    changes,            \* Controller.changes: a set of changes, one per key
    triggers,           \* the capacity-one channel is full
    signalling,         \* Enqueue has unlocked and not signalled yet
    pending,            \* Run's pending
    taken,              \* what takePending returned: [full, changes]
    run,                \* where Run is
    stopping,           \* Run has seen ctx.Done
    cancelled,          \* its context is done
    budget,             \* changes left to the collection
    ahead,              \* history: keys a full publication read ahead of their events
    lost                \* history: keys of failed publications

cvars == <<pendingFull, changes, triggers, signalling, pending, taken, run, stopping>>
hvars == <<ahead, lost>>
vars == <<svars, source, events, cvars, cancelled, budget, hvars>>

Change == [key : Key, old : (UNION {Resource(k) : k \in Key}) \cup {Absent},
           new : (UNION {Resource(k) : k \in Key}) \cup {Absent}]
NothingTaken == [full |-> FALSE, changes |-> {}]

\* The types of the collection, the queue and the Run loop; the queue holds at
\* most one change per key.
TypeOK ==
    /\ StoreTypeOK
    /\ source \in Snapshot
    /\ events \in Seq(SUBSET Change)
    /\ changes \subseteq Change
    /\ \A c, d \in changes : c.key = d.key => c = d
    /\ taken.changes \subseteq Change
    /\ {pendingFull, triggers, signalling, pending, stopping, cancelled, taken.full} \subseteq BOOLEAN
    /\ run \in {"new", "idle", "take", "publish", "stopped"}
    /\ ahead \subseteq Key /\ lost \subseteq Key

Init ==
    /\ SInit
    /\ source \in Snapshot
    /\ events = << >>
    /\ pendingFull = FALSE /\ changes = {} /\ triggers = FALSE /\ signalling = FALSE
    /\ pending = FALSE /\ taken = NothingTaken /\ run = "new"
    /\ stopping = FALSE /\ cancelled = FALSE
    /\ budget = MaxChanges
    /\ ahead = {} /\ lost = {}

-----------------------------------------------------------------------------

\* The collection stores a new value, then hands the event to its listeners.
ChangeSource(k, v) ==
    /\ budget > 0 /\ source[k] # v
    /\ budget' = budget - 1
    /\ source' = [source EXCEPT ![k] = v]
    /\ events' = IF run = "new" THEN events
                 ELSE Append(events, {[key |-> k, old |-> source[k], new |-> v]})
    /\ UNCHANGED <<svars, cvars, cancelled, hvars>>

\* Run registers with the existing state as initial events, and triggers.
Start ==
    /\ run = "new"
    /\ run' = "idle"
    /\ events' = <<{[key |-> k, old |-> Absent, new |-> source[k]] : k \in Present(source)}>>
    /\ pendingFull' = TRUE /\ triggers' = TRUE
    /\ UNCHANGED <<svars, source, changes, signalling, pending, taken, stopping, cancelled, budget, hvars>>

\* The first old value is kept, so that the entry describes the net change.
Coalesced(c) ==
    LET earlier == {d \in changes : d.key = c.key}
    IN  [c EXCEPT !.old = IF earlier = {} THEN @ ELSE (CHOOSE d \in earlier : TRUE).old]

\* Mutant: a change that undoes the waiting one does not remove it.
EnqueueUncancelled ==
    /\ events # << >> /\ ~signalling
    /\ LET net == {c \in {Coalesced(d) : d \in Head(events)} : c.old # c.new}
       IN  changes' = {d \in changes : \A c \in net : c.key # d.key} \cup net
    /\ signalling' = (Head(events) # {})
    /\ events' = Tail(events)
    /\ UNCHANGED <<svars, source, pendingFull, triggers, pending, taken, run, stopping,
                   cancelled, budget, hvars>>

\* The listener hands a batch to Enqueue, which unlocks before it signals.
Enqueue ==
    /\ events # << >> /\ ~signalling
    /\ LET net == {Coalesced(c) : c \in Head(events)}
       IN  changes' = {d \in changes : \A c \in net : c.key # d.key}
                          \cup {c \in net : c.old # c.new}
    /\ signalling' = (Head(events) # {})
    /\ events' = Tail(events)
    /\ UNCHANGED <<svars, source, pendingFull, triggers, pending, taken, run, stopping,
                   cancelled, budget, hvars>>

\* Mutant: the signal of an unbuffered channel is lost while Run is busy.
SignalUnbuffered ==
    /\ signalling
    /\ signalling' = FALSE
    /\ triggers' = (triggers \/ run = "idle")
    /\ UNCHANGED <<svars, source, events, pendingFull, changes, pending, taken, run, stopping,
                   cancelled, budget, hvars>>

Signal ==
    /\ signalling
    /\ signalling' = FALSE
    /\ triggers' = TRUE
    /\ UNCHANGED <<svars, source, events, pendingFull, changes, pending, taken, run, stopping,
                   cancelled, budget, hvars>>

\* Without debouncing a trigger leads to the flush at once.
Wake ==
    /\ run = "idle" /\ triggers
    /\ triggers' = FALSE
    /\ pending' = TRUE
    /\ run' = IF Debounce THEN "idle" ELSE "take"
    /\ UNCHANGED <<svars, source, events, pendingFull, changes, signalling, taken, stopping,
                   cancelled, budget, hvars>>

\* The quiet or the maximum timer.  Both run while work is pending.
TimerFires ==
    /\ run = "idle" /\ Debounce /\ pending
    /\ run' = "take"
    /\ UNCHANGED <<svars, source, events, pendingFull, changes, triggers, signalling, pending,
                   taken, stopping, cancelled, budget, hvars>>

\* ctx.Done: an unread trigger is read before the last flush.
Stop ==
    /\ run = "idle" /\ cancelled
    /\ stopping' = TRUE
    /\ pending' = (pending \/ triggers)
    /\ triggers' = FALSE
    /\ run' = IF pending' THEN "take" ELSE "stopped"
    /\ UNCHANGED <<svars, source, events, pendingFull, changes, signalling, taken, cancelled,
                   budget, hvars>>

\* flush, up to takePending.
TakePending ==
    /\ run = "take"
    /\ run' = "publish"
    /\ pending' = FALSE
    /\ taken' = [full |-> pendingFull, changes |-> changes]
    /\ pendingFull' = FALSE /\ changes' = {}
    /\ UNCHANGED <<svars, source, events, triggers, signalling, stopping, cancelled, budget, hvars>>

Valid(s) == \A k \in Present(s) : s[k].content \notin Invalid
ValidChanges(C) == \A c \in C : c.new # Absent => c.new.content \notin Invalid
Function(C) == [k \in {c.key : c \in C} |-> (CHOOSE c \in C : c.key = k).new]
Announced == {c.key : c \in changes} \cup {c.key : c \in UNION Range(events)}

\* The rest of flush.  A failed publication keeps the last snapshot; what was
\* taken is not put back.
Publish ==
    /\ run = "publish"
    /\ run' = IF stopping THEN "stopped" ELSE "idle"
    /\ taken' = NothingTaken
    /\ IF taken.full
       THEN IF Valid(source) THEN /\ Replace(source)
                                  /\ ahead' = Announced
                                  /\ lost' = {}
            ELSE /\ UNCHANGED <<svars, ahead>>
                 /\ lost' = Key
       ELSE IF ValidChanges(taken.changes)
       THEN /\ Apply(Function(taken.changes))
            /\ ahead' = ahead \ {c.key : c \in taken.changes}
            /\ lost' = lost \ {c.key : c \in taken.changes}
       ELSE /\ UNCHANGED <<svars, ahead>>
            /\ lost' = lost \cup {c.key : c \in taken.changes}
    /\ UNCHANGED <<source, events, pendingFull, changes, triggers, signalling, pending,
                   stopping, cancelled, budget>>

Cancel ==
    /\ ~cancelled
    /\ cancelled' = TRUE
    /\ UNCHANGED <<svars, source, events, cvars, budget, hvars>>

RunStep == Start \/ Wake \/ TimerFires \/ Stop \/ TakePending
Listen == Enqueue \/ Signal
Next == \/ \E k \in Key : \E v \in Resource(k) \cup {Absent} : ChangeSource(k, v)
        \/ RunStep \/ Publish \/ Listen \/ Cancel

Spec == Init /\ [][Next]_vars

\* A step of Next that does this is a Publish step, and Publish is enabled
\* whenever this is.
PublishReturns == run = "publish" /\ run' \in {"idle", "stopped"}

\* Run and the listener keep going; nobody has to change the collection.
FairSpec == Spec /\ WF_vars(RunStep) /\ WF_run(PublishReturns) /\ WF_vars(Listen)

-----------------------------------------------------------------------------

Quiescent == run = "idle" /\ events = << >> /\ ~signalling /\ ~triggers /\ ~pending

IsPublished(k) == \/ current[k] = source[k]
                  \/ source[k] = Absent /\ HasReference(current, k)

\* With nothing under way the published snapshot holds the compiled resources,
\* and deleted ones that are still referred to, but for keys of failed
\* publications and keys a full publication read ahead of their events.
DeltasAddUp ==
    Quiescent => \A k \in Key \ (ahead \cup lost) : IsPublished(k)

\* The same for all keys, when no publication fails: what Enqueue collapses to
\* a net effect reaches the snapshot.
NetEffectIsPublished ==
    Quiescent /\ lost = {} => \A k \in Key : IsPublished(k)

\* Again and again, and so after the last change, the snapshot holds
\* what was compiled, unless Run is told to stop.
EventuallyPublished ==
    []<>(cancelled \/ \A k \in Key \ (ahead \cup lost) : IsPublished(k))
=============================================================================
