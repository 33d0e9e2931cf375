--------------------------- MODULE ResourceStore ---------------------------
(***************************************************************************)
(* The snapshot a Store publishes (pkg/xds/store/store.go): Replace and    *)
(* Apply, and retainReferencedResources, which puts a source deletion off  *)
(* while a published resource still refers to the deleted one.             *)
(* A resource is its content and the keys it refers to; two resources have *)
(* the same hash when both are equal.  Publications are serialised by      *)
(* Store.mu, so each is one step.                                          *)
(***************************************************************************)
EXTENDS Naturals, FiniteSets

CONSTANTS Key,          \* resource keys
          Content,      \* resource contents
          MayRefer,     \* MayRefer[k]: the keys a resource k can refer to
          Absent        \* no resource

ASSUME StoreAssumption ==
    /\ IsFiniteSet(Key)
    /\ MayRefer \in [Key -> SUBSET Key]
    /\ \A r \in [content : Content, refs : SUBSET Key] : Absent # r

Resource(k) == [content : Content, refs : SUBSET MayRefer[k]]
Snapshot == {s \in [Key -> (UNION {Resource(k) : k \in Key}) \cup {Absent}] :
                \A k \in Key : s[k] \in Resource(k) \cup {Absent}}
EmptySnapshot == [k \in Key |-> Absent]

VARIABLES current,          \* the published snapshot
          pendingRemovals,  \* deletions that wait for references to go
          requested         \* history: what the source asked to publish

svars == <<current, pendingRemovals, requested>>

-----------------------------------------------------------------------------

Present(s) == {k \in Key : s[k] # Absent}
References(s) == UNION {s[k].refs : k \in Present(s)}
HasReference(s, k) == k \in References(s)
Refs(r) == IF r = Absent THEN {} ELSE r.refs

\* ResourceSet.Apply: changes is a function from the changed keys.
Applied(s, changes) == [k \in Key |-> IF k \in DOMAIN changes THEN changes[k] ELSE s[k]]
Without(s, S) == [k \in Key |-> IF k \in S THEN Absent ELSE s[k]]

\* ResourceSet.Diff
Diff(s, next) == {k \in Key : s[k] # next[k]}

\* Deletions of this batch, and recreations of what waits for deletion ...
Requested(pending, next, changed) == {k \in changed : next[k] = Absent \/ k \in pending}

\* ... and waiting deletions some changed resource no longer refers to.
Withdrawn(s, pending, next, changed) ==
    {k \in pending : \E c \in changed : k \in Refs(s[c]) \ Refs(next[c])}

\* One round of the sweep: next loses the checked keys nothing refers to, and
\* the next round checks what these referred to.
Swept(r) ==
    LET due == r.checks \cap r.waiting
        gone == {k \in due : r.next[k] = Absent}
        removals == {k \in due \ gone : ~HasReference(r.next, k)}
    IN  [next |-> Without(r.next, removals),
         waiting |-> r.waiting \ (gone \cup removals),
         checks |-> UNION {r.next[k].refs : k \in removals}]

\* Every round but the last removes a key, so there are at most |Key| + 1.
Sweep(r) ==
    LET rounds[i \in 0 .. Cardinality(Key) + 1] == IF i = 0 THEN r ELSE Swept(rounds[i - 1])
    IN  rounds[Cardinality(Key) + 1]

\* Mutant: only references the new snapshot holds before restoring are seen.
RetainedUnlinked(s, pending, next, changed) ==
    LET own == Requested(pending, next, changed)
        candidates == own \cup Withdrawn(s, pending, next, changed)
        deleted == {k \in candidates : k \in own => next[k] = Absent}
        restored == {k \in deleted : s[k] # Absent /\ next[k] = Absent /\ HasReference(next, k)}
    IN  Sweep([next |-> [k \in Key |-> IF k \in restored THEN s[k] ELSE next[k]],
               waiting |-> (pending \ candidates) \cup deleted,
               checks |-> candidates])

\* retainReferencedResources: deleted resources something refers to, now or
\* before, come back together; then the sweep takes what nothing refers to.
Retained(s, pending, next, changed) ==
    LET own == Requested(pending, next, changed)
        candidates == own \cup Withdrawn(s, pending, next, changed)
        deleted == {k \in candidates : k \in own => next[k] = Absent}
        restored == {k \in deleted : s[k] # Absent /\ next[k] = Absent
                                     /\ (HasReference(s, k) \/ HasReference(next, k))}
    IN  Sweep([next |-> [k \in Key |-> IF k \in restored THEN s[k] ELSE next[k]],
               waiting |-> (pending \ candidates) \cup deleted,
               checks |-> candidates])

\* Mutant: a recreated resource keeps waiting for its deletion.
ReplacedWaiting(s, pending, snapshot) == Retained(s, pending, snapshot, Diff(s, snapshot))

\* Replace: what the new snapshot holds is not waiting any more.
Replaced(s, pending, snapshot) ==
    Retained(s, pending \ Present(snapshot), snapshot, Diff(s, snapshot))

\* Apply: a batch that changes nothing is dropped while nothing waits.
AppliedBatch(s, pending, changes) ==
    LET next == Applied(s, changes)
    IN  IF next = s /\ pending = {} THEN [next |-> s, waiting |-> pending, checks |-> {}]
        ELSE Retained(s, pending, next, DOMAIN changes)

-----------------------------------------------------------------------------

StoreTypeOK ==
    /\ current \in Snapshot
    /\ requested \in Snapshot
    /\ pendingRemovals \subseteq Key

SInit ==
    /\ current = EmptySnapshot
    /\ pendingRemovals = {}
    /\ requested = EmptySnapshot

Replace(snapshot) ==
    LET r == Replaced(current, pendingRemovals, snapshot)
    IN  /\ current' = r.next
        /\ pendingRemovals' = r.waiting
        /\ requested' = snapshot

Apply(changes) ==
    LET r == AppliedBatch(current, pendingRemovals, changes)
    IN  /\ current' = r.next
        /\ pendingRemovals' = r.waiting
        /\ requested' = Applied(requested, changes)

Batch == UNION {[S -> (UNION {Resource(k) : k \in Key}) \cup {Absent}] : S \in SUBSET Key}
ChangesOf(b) == \A k \in DOMAIN b : b[k] \in Resource(k) \cup {Absent}

SNext == \/ \E snapshot \in Snapshot : Replace(snapshot)
         \/ \E b \in Batch : ChangesOf(b) /\ Apply(b)

SSpec == SInit /\ [][SNext]_svars

-----------------------------------------------------------------------------

\* Published and requested state differ by the waiting deletions only, and each
\* of these is there because a published resource refers to it.
OnlyReferencedRemain ==
    /\ \A k \in Key \ pendingRemovals : current[k] = requested[k]
    /\ \A k \in pendingRemovals : /\ requested[k] = Absent
                                  /\ current[k] # Absent
                                  /\ HasReference(current, k)

\* A publication never withdraws a resource another published resource refers
\* to: clients see the referring resource change before its target goes.
NoDanglingWithdrawal ==
    [][\A k \in Key : current[k] # Absent /\ current'[k] = Absent
          => ~HasReference(current', k)]_svars
=============================================================================
