----------------------------- MODULE Mailboxes -----------------------------
(***************************************************************************)
(* How a Store tells its subscribers about publications                    *)
(* (pkg/xds/store: subscription.go, notifyLocked, Merge).  Each subscriber *)
(* has a mailbox of one notice, into which later notices are merged, and   *)
(* is reached through indexes by watched type and, for Sandboxes, by       *)
(* workload and by name.  Subscribers whose mailboxes hold the same notice *)
(* share one merged notice; mailboxID tells which do.                      *)
(* The streams' goroutines read their mailboxes without taking Store.mu.   *)
(***************************************************************************)
EXTENDS Naturals, FiniteSets

CONSTANTS
    Sub,                \* subscribers
    WorkloadOf,         \* scope.WorkloadUID of a dedicated subscriber, or Broad
    Broad,
    Owner,              \* workloads that own Sandboxes; Broad for none
    AddressKey,         \* resources of type Address
    SandboxKey,         \* resources of type Sandbox; names and keys agree
    Watchable,          \* types the clients ask for, next to Sandbox
    MaxNotices          \* bound: publications and notifications

ASSUME MailboxAssumption ==
    /\ WorkloadOf \in [Sub -> Owner \cup {Broad}]
    /\ AddressKey \cap SandboxKey = {} /\ "all" \notin AddressKey \cup SandboxKey
    /\ Watchable \subseteq {"Address", "Workload", "Secret"}

Key == AddressKey \cup SandboxKey
Type == {"Address", "Workload", "Sandbox", "Secret"}
TypeOf(k) == IF k \in AddressKey THEN "Address" ELSE "Sandbox"

\* A notice: candidate keys, the types they affect, and dynamic refreshes.
Update == [candidates : SUBSET Key, affected : SUBSET Type, full : BOOLEAN,
           fullTypes : SUBSET Type]

VARIABLES
    owner,              \* owner[k]: the workload of a published Sandbox
    subscribers,        \* registered subscribers
    types, names,       \* subscriber.types, subscriber.sandboxNames
    updates,            \* the mailbox: a set of at most one notice
    mailboxID,
    byType, byWorkload, byName,     \* the indexes
    nextMailboxID,
    notices,            \* publications and notifications so far
    due                 \* history: what a subscriber still has to hear of

index == <<byType, byWorkload, byName>>
vars == <<owner, subscribers, types, names, updates, mailboxID, index, nextMailboxID,
          notices, due>>

All == "all"

\* The types of the store's subscriptions and indexes; a mailbox holds at most
\* one notice.
TypeOK ==
    /\ owner \in [SandboxKey -> Owner \cup {Broad}]
    /\ subscribers \subseteq Sub
    /\ types \in [Sub -> SUBSET Type]
    /\ names \in [Sub -> SUBSET SandboxKey]
    /\ \A s \in Sub : updates[s] \subseteq Update /\ Cardinality(updates[s]) <= 1
    /\ mailboxID \in [Sub -> 0 .. nextMailboxID]
    /\ byType \in [Type -> SUBSET Sub]
    /\ byWorkload \in [Owner \cup {Broad} -> SUBSET Sub]
    /\ byName \in [SandboxKey -> SUBSET Sub]

Init ==
    /\ owner = [k \in SandboxKey |-> Broad]
    /\ subscribers = {}
    /\ types = [s \in Sub |-> {}]
    /\ names = [s \in Sub |-> {}]
    /\ updates = [s \in Sub |-> {}]
    /\ mailboxID = [s \in Sub |-> 0]
    /\ byType = [t \in Type |-> {}]
    /\ byWorkload = [w \in Owner \cup {Broad} |-> {}]
    /\ byName = [k \in SandboxKey |-> {}]
    /\ nextMailboxID = 0
    /\ notices = 0
    /\ due = [s \in Sub |-> {}]

-----------------------------------------------------------------------------

FullFor(u, t) == u.full /\ (u.fullTypes = {} \/ t \in u.fullTypes)

\* indexedUpdate: Address candidates also affect the Workload projection.
Indexed(S) ==
    [candidates |-> S, full |-> FALSE, fullTypes |-> {},
     affected |-> {TypeOf(k) : k \in S} \cup
                  (IF S \cap AddressKey # {} THEN {"Workload"} ELSE {})]

\* Mutant: a refresh of some types makes the merged notice a refresh of these
\* only, whatever the other notice was.
MergeTypes(older, newer) ==
    [candidates |-> older.candidates \cup newer.candidates,
     affected |-> older.affected \cup newer.affected,
     full |-> older.full \/ newer.full,
     fullTypes |-> older.fullTypes \cup newer.fullTypes]

\* Merge
Merge(older, newer) ==
    [candidates |-> older.candidates \cup newer.candidates,
     affected |-> older.affected \cup newer.affected,
     full |-> older.full \/ newer.full,
     fullTypes |-> IF \E u \in {older, newer} : u.full /\ u.fullTypes = {} THEN {}
                   ELSE older.fullTypes \cup newer.fullTypes]

\* sandboxSubscribersLocked: owners are the candidates' identities.
SandboxSubscribers(S, owners) ==
    byWorkload[Broad] \cup (UNION {byName[k] : k \in S \cap SandboxKey})
                      \cup (UNION {byWorkload[w] : w \in owners \ {Broad}})

\* affectedSubscribersLocked
Affected(u, owners) ==
    IF u.full /\ u.fullTypes = {} THEN subscribers
    ELSE UNION {IF t = "Sandbox" /\ ~FullFor(u, t)
                THEN SandboxSubscribers(u.candidates, owners) ELSE byType[t] :
                   t \in u.fullTypes \cup u.affected}

Occupied(S) == {s \in S : updates[s] # {}}
Pending(s) == CHOOSE u \in updates[s] : TRUE
NoticesOf(S) == {mailboxID[s] : s \in Occupied(S)}

\* Mutant: a merged notice keeps the ID of the publication.
NotifyUnnumbered(u, owners) ==
    LET S == Affected(u, owners)
        id == nextMailboxID + 1
    IN  /\ updates' = [s \in Sub |-> IF s \notin S THEN updates[s]
                                     ELSE IF updates[s] = {} THEN {u}
                                     ELSE {Merge(Pending(s), u)}]
        /\ mailboxID' = [s \in Sub |-> IF s \in S THEN id ELSE mailboxID[s]]
        /\ nextMailboxID' = id

\* notifyLocked: mailboxes that held the same notice get the same merged one,
\* computed from the mailbox of one of them.  A stream that reads its mailbox
\* during the loop reads it before or after its own turn, and the turns of two
\* subscribers are independent: each such read is a Receive before or after.
Notify(u, owners) ==
    LET S == Affected(u, owners)
        id == nextMailboxID + 1
        rank(m) == Cardinality({n \in NoticesOf(S) : n <= m})
        sample(m) == Pending(CHOOSE s \in Occupied(S) : mailboxID[s] = m)
    IN  /\ updates' = [s \in Sub |-> IF s \notin S THEN updates[s]
                                     ELSE IF updates[s] = {} THEN {u}
                                     ELSE {Merge(sample(mailboxID[s]), u)}]
        /\ mailboxID' = [s \in Sub |-> IF s \notin S THEN mailboxID[s]
                                       ELSE IF updates[s] = {} THEN id
                                       ELSE id + rank(mailboxID[s])]
        /\ nextMailboxID' = id + Cardinality(NoticesOf(S))

-----------------------------------------------------------------------------

\* What each subscriber must hear of when the keys S change, with the workloads
\* that owned or own the Sandboxes among them.
Concerns(S, owners) ==
    [s \in Sub |->
        IF s \notin subscribers THEN {} ELSE
        {d \in types[s] \X S :
            \/ d[2] \in AddressKey /\ d[1] \in {"Address", "Workload"}
            \/ /\ d[2] \in SandboxKey /\ d[1] = "Sandbox"
               /\ \/ WorkloadOf[s] = Broad \/ d[2] \in names[s]
                  \/ WorkloadOf[s] \in owners[d[2]]}]
Owed(more) == [s \in Sub |-> due[s] \cup more[s]]

\* Apply and Replace: S changes, and Sandboxes among S may move.  NotifyKeys
\* is the case in which none does.
Publish(S, after) ==
    LET owners == [k \in S |-> IF k \in SandboxKey THEN {owner[k], after[k]} ELSE {}]
    IN  /\ notices < MaxNotices
        /\ S # {} /\ \A k \in SandboxKey \ S : after[k] = owner[k]
        /\ owner' = after
        /\ Notify(Indexed(S), UNION {owners[k] : k \in S})
        /\ due' = Owed(Concerns(S, owners))
        /\ notices' = notices + 1
        /\ UNCHANGED <<subscribers, types, names, index>>

\* Notify (T = {}) and NotifyType
NotifyType(T) ==
    /\ notices < MaxNotices
    /\ Notify([candidates |-> {}, affected |-> {}, full |-> TRUE, fullTypes |-> T], {})
    /\ due' = Owed([s \in Sub |-> IF s \notin subscribers THEN {}
                                  ELSE {<<t, All>> : t \in IF T = {} THEN types[s]
                                                           ELSE types[s] \cap T}])
    /\ notices' = notices + 1
    /\ UNCHANGED <<owner, subscribers, types, names, index>>

Subscribe(s) ==
    /\ s \notin subscribers
    /\ subscribers' = subscribers \cup {s}
    /\ UNCHANGED <<owner, types, names, updates, mailboxID, index, nextMailboxID, notices, due>>

\* Mutant: names that are not asked for any more stay in the index.
WatchKeepingNames(s, t, N) ==
    /\ s \in subscribers
    /\ LET named == t = "Sandbox" /\ WorkloadOf[s] # Broad /\ (N # {} \/ names[s] # {})
       IN  /\ names' = IF named THEN [names EXCEPT ![s] = N] ELSE names
           /\ byName' = [k \in SandboxKey |-> IF named /\ k \in N THEN byName[k] \cup {s}
                                              ELSE byName[k]]
    /\ types' = [types EXCEPT ![s] = @ \cup {t}]
    /\ byType' = [byType EXCEPT ![t] = @ \cup {s}]
    /\ byWorkload' = IF t # "Sandbox" \/ t \in types[s] THEN byWorkload
                     ELSE [byWorkload EXCEPT ![WorkloadOf[s]] = @ \cup {s}]
    /\ UNCHANGED <<owner, subscribers, updates, mailboxID, nextMailboxID, notices, due>>

Watch(s, t, N) ==
    /\ s \in subscribers
    /\ LET named == t = "Sandbox" /\ WorkloadOf[s] # Broad /\ (N # {} \/ names[s] # {})
       IN  /\ names' = IF named THEN [names EXCEPT ![s] = N] ELSE names
           /\ byName' = [k \in SandboxKey |-> IF ~named THEN byName[k]
                                              ELSE IF k \in N THEN byName[k] \cup {s}
                                              ELSE byName[k] \ {s}]
    /\ types' = [types EXCEPT ![s] = @ \cup {t}]
    /\ byType' = [byType EXCEPT ![t] = @ \cup {s}]
    /\ byWorkload' = IF t # "Sandbox" \/ t \in types[s] THEN byWorkload
                     ELSE [byWorkload EXCEPT ![WorkloadOf[s]] = @ \cup {s}]
    /\ UNCHANGED <<owner, subscribers, updates, mailboxID, nextMailboxID, notices, due>>

\* The goroutine of Subscribe, after its context is done.  A later subscriber
\* has a new id, which Sub does not tell from the old one.
Unsubscribe(s) ==
    /\ s \in subscribers
    /\ subscribers' = subscribers \ {s}
    /\ byType' = [t \in Type |-> byType[t] \ {s}]
    /\ byWorkload' = [byWorkload EXCEPT ![WorkloadOf[s]] = @ \ {s}]
    /\ byName' = [k \in SandboxKey |-> byName[k] \ {s}]
    /\ types' = [types EXCEPT ![s] = {}]
    /\ names' = [names EXCEPT ![s] = {}]
    /\ updates' = [updates EXCEPT ![s] = {}]
    /\ mailboxID' = [mailboxID EXCEPT ![s] = 0]
    /\ due' = [due EXCEPT ![s] = {}]
    /\ UNCHANGED <<owner, nextMailboxID, notices>>

\* The stream reads its mailbox.
Receive(s) ==
    /\ updates[s] # {}
    /\ updates' = [updates EXCEPT ![s] = {}]
    /\ due' = [due EXCEPT ![s] = {}]
    /\ UNCHANGED <<owner, subscribers, types, names, mailboxID, index, nextMailboxID, notices>>

Next ==
    \/ \E S \in SUBSET Key, after \in [SandboxKey -> Owner \cup {Broad}] : Publish(S, after)
    \/ \E T \in {{}, {"Secret"}} : NotifyType(T)
    \/ \E s \in Sub : \/ Subscribe(s) \/ Unsubscribe(s) \/ Receive(s)
                      \/ \E t \in Watchable : Watch(s, t, {})
                      \/ \E N \in SUBSET SandboxKey : Watch(s, "Sandbox", N)

Spec == Init /\ [][Next]_vars

-----------------------------------------------------------------------------

Covers(u, d) == \/ FullFor(u, d[1])
                \/ d[2] # All /\ d[1] \in u.affected /\ d[2] \in u.candidates

\* Whatever changed in a type a subscriber watches, since it last read its
\* mailbox, is in the notice waiting there, however often notices were merged.
NoticesAreComplete ==
    \A s \in subscribers : \A d \in due[s] : \E u \in updates[s] : Covers(u, d)

\* A notice may be merged once for all mailboxes with its ID: they hold it.
SharedNoticesAreEqual ==
    \A s, r \in Sub : mailboxID[s] = mailboxID[r] /\ updates[s] # {} /\ updates[r] # {}
                         => updates[s] = updates[r]

\* The indexes name exactly the registered subscribers they should: a departed
\* stream or a name nobody asks for any more leaves nothing behind.
IndexesMatch ==
    /\ \A t \in Type : byType[t] = {s \in subscribers : t \in types[s]}
    /\ \A w \in Owner \cup {Broad} :
          byWorkload[w] = {s \in subscribers : "Sandbox" \in types[s] /\ WorkloadOf[s] = w}
    /\ \A k \in SandboxKey : byName[k] = {s \in subscribers : k \in names[s]}
=============================================================================
