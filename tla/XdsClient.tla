------------------------------ MODULE XdsClient ------------------------------
(***************************************************************************)
(* The Delta xDS client library (pkg/xdsclient) under the retention cache  *)
(* (pkg/demandcache), as the EPE composes them, against the watch of       *)
(* DemandWatch.  A caller pins a cache entry, whose lease is the one owner *)
(* of a subscription; a step is one critical section of the client's mutex,*)
(* with what the cache's mutex adds to it.                                 *)
(*                                                                         *)
(* A named-only watch with a reconnect grace that releases subscriptions on*)
(* deletion, as both watches of the EPE are.  Time is left out: idle       *)
(* entries and the grace may expire at any moment.  A subscription that is *)
(* not in the map has ended, and so has the lease of an entry that is not  *)
(* in the cache: neither needs a number.                                   *)
(***************************************************************************)
EXTENDS DemandWatch

CONSTANTS
    Caller,             \* goroutines that call Cache.Get
    Demands,            \* Demands[c]: the names c may demand
    MaxEntries,         \* Config.MaxEntries, 0 for no limit
    IdleTTL,            \* whether Config.IdleTTL is not zero
    Malformed           \* resources that may come in a form Transform refuses

Demanded == UNION {Demands[c] : c \in Caller}

ASSUME ClientAssumption ==
    /\ IsFiniteSet(Caller) /\ Demands \in [Caller -> SUBSET Name] /\ Demanded # {}
    /\ Malformed \subseteq Resource /\ MaxEntries \in Nat /\ IdleTTL \in BOOLEAN

VARIABLES
    subs,               \* typeState.names: is there a subscription, is it active
    pending,            \* names with a change for the writer
    resources,          \* the cached resources and their aliases
    retired,            \* those of an earlier epoch
    synced,
    grace,              \* whether graceUntil is set
    wake,               \* the wake channel
    phase,              \* of the stream: down, up
    sentSubs,           \* what the writer subscribed to: none, this subscription, an older one
    decoding,           \* is the first response being transformed, what was selected of it
    rejected,           \* whether a response on this stream was rejected
    entries,            \* the retention cache; ended: its lease's Done is closed
    idle,               \* its LRU list, oldest first
    pruning,            \* whether the cache's mutex is held to evict more
    callers

client == <<subs, pending, resources, retired, wake, sentSubs>>
retention == <<entries, idle, callers>>
stream == <<phase, decoding, rejected>>
epoch == <<synced, grace>>
clientVars == <<client, retention, pruning, stream, epoch>>
vars == <<serverVars, clientVars>>

NoSub == [held |-> FALSE, active |-> FALSE]
NoEntry == [held |-> FALSE, users |-> 0, ended |-> FALSE]
NoCaller == [pc |-> "idle", name |-> CHOOSE n \in Demanded : TRUE]
NotDecoding == [on |-> FALSE, selected |-> {}]
NothingSubscribed == [n \in Demanded |-> "none"]

Init ==
    /\ ServerInit
    /\ subs = [n \in Demanded |-> NoSub] /\ pending = {} /\ resources = Nothing
    /\ retired = {}
    /\ synced = FALSE /\ grace = FALSE /\ wake = FALSE
    /\ phase = "down" /\ sentSubs = NothingSubscribed /\ decoding = NotDecoding
    /\ rejected = FALSE
    /\ entries = [n \in Demanded |-> NoEntry] /\ idle = << >> /\ pruning = FALSE
    /\ callers = [c \in Caller |-> NoCaller]

-----------------------------------------------------------------------------
(* Client and cache as one value, and the operations on it *)

State == [subs |-> subs, pending |-> pending, resources |-> resources, retired |-> retired,
          wake |-> wake, sent |-> sentSubs, entries |-> entries, idle |-> idle, callers |-> callers]
Commit(s) ==
    /\ subs' = s.subs /\ pending' = s.pending /\ resources' = s.resources /\ wake' = s.wake
    /\ sentSubs' = s.sent /\ entries' = s.entries /\ idle' = s.idle /\ callers' = s.callers
    /\ retired' = {r \in s.retired : s.resources[r] # Absent}

Held(s) == {n \in Demanded : s.subs[n].held}
Interested(s, r, content) == NamesOf(r, content) \cap Held(s) # {}
Pins(s, n) == {c \in Caller : s.callers[c].name = n /\ s.callers[c].pc \notin {"idle", "old"}}
Waiters(s, n) == {c \in Pins(s, n) : s.callers[c].pc \in {"blocked", "woken"}}

Outcome(is, view) == [is |-> is, view |-> view]
Pending == Outcome("pending", << >>)
Ambiguous == Outcome("ambiguous", << >>)

\* The lookup of waitLocked.
Resolve(known, n) ==
    LET owners == {r \in Resource : n \in known[r].aliases}
        canonical == IF owners = {} THEN {n} \cap Resource ELSE owners
    IN  IF \E a, b \in owners : a # b THEN Ambiguous
        ELSE IF \E r \in canonical : known[r] # Absent
        THEN LET r == CHOOSE r \in canonical : TRUE IN Outcome("ready", <<r, known[r].version>>)
        ELSE Pending

Activate(s, n) ==
    IF s.subs[n].active THEN s
    ELSE [s EXCEPT !.subs[n] = [held |-> TRUE, active |-> TRUE],
                   !.pending = @ \cup {n}, !.wake = TRUE]

\* The subscriptions of ns end, by deletion or by release: what the writer
\* subscribed to was an older one.
EndSubscriptions(s, ns) ==
    [s EXCEPT !.subs = [n \in Demanded |-> IF n \in ns THEN NoSub ELSE @[n]],
              !.sent = [n \in Demanded |->
                            IF n \in ns /\ @[n] = "this" THEN "older" ELSE @[n]],
              !.pending = @ \cup ns,
              !.wake = @ \/ ns # {}]

\* Mutant: only those who asked by the wire name are notified.
NotifiedByName(s, ns) ==
    [s EXCEPT !.callers = [c \in Caller |->
        IF @[c].pc = "blocked" /\ @[c].name \in ns \cap Resource
        THEN [@[c] EXCEPT !.pc = "woken"] ELSE @[c]]]

\* subscription.notify for each of ns.
Notified(s, ns) ==
    [s EXCEPT !.callers = [c \in Caller |->
        IF @[c].pc = "blocked" /\ @[c].name \in ns THEN [@[c] EXCEPT !.pc = "woken"] ELSE @[c]]]

\* Subscription.Release by its one owner, with releaseResource.
Released(s, n) ==
    LET kept == EndSubscriptions(s, {n})
    IN  [kept EXCEPT !.resources = [r \in Resource |->
            IF n \in NamesOf(r, @[r]) /\ ~Interested(kept, r, @[r]) THEN Absent ELSE @[r]]]

\* The LRU list without n.
Without(list, n) ==
    IF n \in Range(list)
    THEN LET at == CHOOSE i \in DOMAIN list : list[i] = n
         IN  [i \in 1 .. Len(list) - 1 |-> IF i < at THEN list[i] ELSE list[i + 1]]
    ELSE list

\* Cache.remove.  Callers that still have the entry find its lease ended.
Evict(s, n) ==
    LET left == IF s.entries[n].ended THEN s ELSE Released(s, n)
    IN  [left EXCEPT !.entries[n] = NoEntry,
                     !.idle = Without(@, n),
                     !.callers = [c \in Caller |->
                         IF c \in Pins(s, n) THEN [@[c] EXCEPT !.pc = "old"] ELSE @[c]]]

OverCapacity(s) == /\ MaxEntries > 0 /\ s.idle # << >>
                   /\ Cardinality({n \in Demanded : s.entries[n].held}) > MaxEntries

-----------------------------------------------------------------------------
(* Callers of the cache.  "demanding" holds a pin and does not wait: it is  *)
(* about to look, or to give up.                                           *)

Unlocked == ~pruning
Unpin(s, c) == [s EXCEPT !.entries[s.callers[c].name].users = @ - 1, !.callers[c] = NoCaller]

\* Get, up to the demand.
Get(c, n) ==
    /\ callers[c].pc = "idle" /\ Unlocked
    /\ LET kept == IF entries[n].ended THEN Evict(State, n) ELSE State
           leased == IF kept.entries[n].held THEN kept ELSE Activate(kept, n)
           pinned == [leased EXCEPT
               !.entries[n] = [held |-> TRUE, users |-> @.users + 1, ended |-> FALSE],
               !.idle = Without(@, n),
               !.callers[c] = [pc |-> "demanding", name |-> n]]
       IN  /\ Commit(pinned)
           /\ pruning' = OverCapacity(pinned)
    /\ UNCHANGED <<serverVars, stream, epoch>>

\* waitLocked, one turn of its loop on a subscription that has not ended.
Check(c) ==
    /\ callers[c].pc \in {"demanding", "woken"} /\ ~entries[callers[c].name].ended
    /\ LET n == callers[c].name
           outcome == IF synced \/ grace THEN Resolve(resources, n) ELSE Pending
       IN  Commit([Activate(State, n) EXCEPT !.callers[c].pc =
                      IF outcome.is = "ready" THEN "using"
                      ELSE IF outcome = Pending THEN "blocked" ELSE "demanding"])
    /\ UNCHANGED <<serverVars, pruning, stream, epoch>>

\* The wait is over without a result: canceled, or the subscription ended.
StopWaiting(c) ==
    /\ callers[c].pc \in {"blocked", "woken"}
    /\ callers' = [callers EXCEPT ![c].pc = "demanding"]
    /\ UNCHANGED <<serverVars, client, entries, idle, pruning, stream, epoch>>

\* release after an error.
GiveUp(c) ==
    /\ callers[c].pc = "demanding" /\ Unlocked
    /\ LET n == callers[c].name
           left == Unpin(State, c)
       IN  Commit(IF left.entries[n].users = 0 THEN Evict(left, n) ELSE left)
    /\ UNCHANGED <<serverVars, pruning, stream, epoch>>

\* release after use.
Finish(c) ==
    /\ callers[c].pc = "using" /\ Unlocked
    /\ LET n == callers[c].name
           left == Unpin(State, c)
           kept == IF left.entries[n].users = 0 THEN [left EXCEPT !.idle = Append(@, n)] ELSE left
       IN  /\ Commit(kept)
           /\ pruning' = OverCapacity(kept)
    /\ UNCHANGED <<serverVars, stream, epoch>>

\* Mutant: the pin is taken off whatever entry has the key now.
LeaveByKey(c) ==
    /\ callers[c].pc = "old" /\ Unlocked
    /\ Commit(IF entries[callers[c].name].users > 0 THEN Unpin(State, c)
                                                   ELSE [State EXCEPT !.callers[c] = NoCaller])
    /\ UNCHANGED <<serverVars, pruning, stream, epoch>>

\* release of an entry the cache no longer has.
Leave(c) ==
    /\ callers[c].pc = "old" /\ Unlocked
    /\ callers' = [callers EXCEPT ![c] = NoCaller]
    /\ UNCHANGED <<serverVars, client, entries, idle, pruning, stream, epoch>>

\* prune: by the one that holds the mutex for capacity, by anyone for age.
Prune(n) ==
    /\ idle # << >> /\ n = Head(idle) /\ (pruning \/ IdleTTL)
    /\ LET kept == Evict(State, n)
       IN  /\ Commit(kept)
           /\ pruning' = (pruning /\ OverCapacity(kept))
    /\ UNCHANGED <<serverVars, stream, epoch>>

-----------------------------------------------------------------------------
(* Disconnection *)

\* Mutant: no subscription is carried over to the next stream.
LoseAll ==
    /\ ~decoding.on
    /\ phase' = "down" /\ rejected' = FALSE /\ sentSubs' = NothingSubscribed
    /\ subs' = [n \in Demanded |-> [subs[n] EXCEPT !.active = FALSE]]
    /\ pending' = {}
    /\ retired' = IF synced THEN {r \in Resource : resources[r] # Absent} ELSE retired
    /\ grace' = (grace \/ synced)
    /\ synced' = FALSE
    /\ StreamEnds
    /\ UNCHANGED <<resources, wake, retention, pruning, decoding>>

\* The stream fails, or the attempt to open one: reset.
Lose ==
    /\ ~decoding.on
    /\ phase' = "down" /\ rejected' = FALSE /\ sentSubs' = NothingSubscribed
    /\ subs' = [n \in Demanded |-> [subs[n] EXCEPT !.active = @ /\ Waiters(State, n) # {}
                                                                /\ ~entries[n].ended]]
    /\ pending' = {n \in Demanded : subs'[n].active}
    /\ retired' = IF synced THEN {r \in Resource : resources[r] # Absent} ELSE retired
    /\ grace' = (grace \/ synced)
    /\ synced' = FALSE
    /\ StreamEnds
    /\ UNCHANGED <<resources, wake, retention, pruning, decoding>>

\* Mutant: a type that is synchronized again keeps what it has.
ExpireGraceUnsynced ==
    /\ grace
    /\ grace' = FALSE
    /\ resources' = [r \in Resource |-> IF r \in retired /\ ~synced THEN Absent ELSE resources[r]]
    /\ retired' = IF synced THEN retired ELSE {}
    /\ UNCHANGED <<serverVars, subs, pending, wake, sentSubs, retention, pruning, stream, synced>>

\* expireGraceLocked, by the timer or by the first lookup past the deadline.
ExpireGrace ==
    /\ grace
    /\ grace' = FALSE
    /\ resources' = [r \in Resource |-> IF r \in retired THEN Absent ELSE resources[r]]
    /\ retired' = {}
    /\ UNCHANGED <<serverVars, subs, pending, wake, sentSubs, retention, pruning, stream, synced>>

-----------------------------------------------------------------------------
(* The stream *)

\* initialRequests: subscriptions nobody waits for are not replayed.
Open ==
    /\ phase = "down"
    /\ LET active == {n \in Demanded : subs[n].active}
       IN  /\ sentSubs' = [n \in Demanded |-> IF n \in active THEN "this" ELSE "none"]
           /\ up' = <<[sub |-> active, unsub |-> {}]>>
    /\ pending' = {}
    /\ phase' = "up"
    /\ UNCHANGED <<store, changed, watch, down, subs, resources, retired, wake, retention, pruning, decoding,
                   rejected, epoch>>

\* The writer is woken: pendingRequests.
Outgoing ==
    /\ phase = "up" /\ wake /\ Len(up) < MaxUp
    /\ LET subscribe == {n \in pending : subs[n].active /\ sentSubs[n] # "this"}
           unsubscribe == {n \in pending : ~subs[n].held /\ sentSubs[n] # "none"}
       IN  /\ sentSubs' = [n \in Demanded |->
                  IF n \in subscribe THEN "this" ELSE IF n \in unsubscribe THEN "none"
                  ELSE sentSubs[n]]
           /\ up' = IF subscribe \cup unsubscribe = {} THEN up
                    ELSE Append(up, [sub |-> subscribe, unsub |-> unsubscribe])
    /\ pending' = {} /\ wake' = FALSE
    /\ UNCHANGED <<store, changed, watch, down, subs, resources, retired, retention, pruning, stream,
                   epoch>>

\* apply, up to the transformation: which resources are of interest.
Receive ==
    /\ phase = "up" /\ ~decoding.on /\ down # << >>
    /\ LET content == Head(down).resources
       IN  decoding' = [on |-> TRUE, selected |-> {r \in Resource :
                            content[r] # Absent /\ Interested(State, r, content[r])}]
    /\ UNCHANGED <<serverVars, client, retention, pruning, phase, rejected, epoch>>

\* A resource of interest is refused, and the response with it.
Reject ==
    /\ decoding.on /\ decoding.selected \cap Malformed # {}
    /\ rejected' = TRUE /\ decoding' = NotDecoding /\ down' = Tail(down) /\ wake' = TRUE
    /\ UNCHANGED <<store, changed, watch, up, subs, pending, resources, retired, sentSubs, retention, pruning, phase,
                   epoch>>

\* apply, the publication, and the ACK that wakes the writer.
Apply ==
    /\ decoding.on
    /\ LET content == Head(down).resources
           removed == Head(down).removed
           replaced == {r \in Resource : content[r] # Absent} \cup (removed \cap Resource)
           put == {r \in decoding.selected : Interested(State, r, content[r])}
           updated == [r \in Resource |-> IF r \in put THEN content[r]
                                          ELSE IF r \in replaced THEN Absent ELSE resources[r]]
           touched == (UNION {resources[r].aliases : r \in replaced})
                         \cup (UNION {content[r].aliases : r \in put})
           owned == UNION {updated[r].aliases : r \in Resource}
           deleted == Held(State) \cap ((touched \ owned) \cup removed)
           told == Notified([State EXCEPT !.resources = updated], touched \cup put \cup deleted)
           ended == [told EXCEPT !.entries = [n \in Demanded |->
                                     IF n \in deleted THEN [@[n] EXCEPT !.ended = TRUE] ELSE @[n]]]
       IN  Commit([EndSubscriptions(ended, deleted) EXCEPT !.wake = TRUE, !.retired = @ \ replaced])
    /\ synced' = TRUE
    /\ decoding' = NotDecoding /\ down' = Tail(down)
    /\ UNCHANGED <<store, changed, watch, up, pruning, phase, rejected, grace>>

-----------------------------------------------------------------------------
Server == /\ \/ \E r \in Resource : Publish(r) \/ Withdraw(r)
             \/ HandleRequest
             \/ PushUpdate
          /\ UNCHANGED clientVars

Next ==
    \/ Server
    \/ \E c \in Caller :
          \/ \E n \in Demands[c] : Get(c, n)
          \/ Check(c) \/ StopWaiting(c) \/ GiveUp(c) \/ Finish(c) \/ Leave(c)
    \/ \E n \in Demanded : Prune(n)
    \/ Lose \/ ExpireGrace
    \/ Open \/ Outgoing
    \/ Receive \/ Reject \/ Apply

Spec == Init /\ [][Next]_vars

-----------------------------------------------------------------------------
\* There is a subscription for exactly the entries whose lease has not ended,
\* each entry counts its pins, and the LRU list holds each unpinned entry once:
\* no way out of a lookup leaks an interest or ends one in use.
RetentionIsExact ==
    /\ \A n \in Demanded : /\ subs[n].held <=> entries[n].held /\ ~entries[n].ended
                           /\ entries[n].users = Cardinality(Pins(State, n))
    /\ Range(idle) = {n \in Demanded : entries[n].held /\ entries[n].users = 0}
    /\ IsInjective(idle)

\* A caller that sleeps has nothing to wake up for: its subscription has not
\* ended, and no value it could return is in the cache.
WaitersAreWoken ==
    \A c \in Caller : callers[c].pc = "blocked" =>
        /\ subs[callers[c].name].held
        /\ synced \/ grace => Resolve(resources, callers[c].name) = Pending

\* A caller that sleeps has an active subscription, and on an open stream the
\* active ones have been sent or are pending with a wakeup for the writer.
WaitersAreCarried ==
    /\ \A c \in Caller : callers[c].pc = "blocked" => subs[callers[c].name].active
    /\ phase = "up" => \A n \in Demanded :
          subs[n].active => sentSubs[n] = "this" \/ (n \in pending /\ wake)

\* Values of an earlier stream are there only during the grace: the next stream,
\* or a part of its responses, does not keep them past its end.
GraceIsBounded == ~grace => /\ retired = {}
                            /\ synced \/ resources = Nothing

AtRest == /\ phase = "up" /\ up = << >> /\ down = << >> /\ changed = {} /\ ~decoding.on
          /\ ~wake

\* What the client was told on this stream: during the grace it also has values
\* of an earlier one.
Current == [r \in Resource |-> IF r \in retired THEN Absent ELSE resources[r]]

\* When nothing is under way every subscription requested on this stream has
\* the outcome the published snapshot gives its name, once the values of the
\* grace are gone: none waits for ever, and none is left with what a late or a
\* merged response said.  But a name can keep a resource whose loss of the name
\* is never heard: the client gave up the resource's other names, and the server
\* handled that before it had the name, or when the resource had lost it.  Not so
\* after a rejected response either, nor for subscriptions merely retained.
RestingCacheAgrees ==
    AtRest /\ ~rejected =>
       \A n \in {m \in Demanded : subs[m].active} :
          LET outcome == Resolve(Current, n)
          IN  /\ outcome # Pending
              /\ \/ outcome = Resolve(published, n)
                 \/ \E r \in Resource : n \in Current[r].aliases \cap lapsed[r]
=============================================================================
