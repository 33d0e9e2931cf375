-------------------------- MODULE PorterDiscovery --------------------------
(***************************************************************************)
(* Porter's on-demand discovery client (extensions/porter/src: discovery.rs*)
(* and discovery/transport.rs) against the watch of DemandWatch: callers   *)
(* that lease interests in names, the cache of resources and its LRU list  *)
(* of idle interests, the body that writes requests, the receiver that     *)
(* decodes outside the lock, losses of the stream and the grace after them.*)
(* A step is one critical section of the state mutex.                      *)
(*                                                                         *)
(* One resource type: types share only the LRU list and the epoch.  Time is *)
(* left out: idle entries and the grace may expire at any moment.  So are   *)
(* the numbers of generations and epochs: every value in the map is of the *)
(* current epoch, and the only leases on a generation that has left the map*)
(* are those of callers to whom it ended as Missing.                       *)
(***************************************************************************)
EXTENDS DemandWatch

CONSTANTS
    Caller,             \* tasks that demand a resource
    Demands,            \* Demands[c]: the names c may demand
    MaxEntries,         \* CacheConfig.max_entries, 0 for no limit
    Malformed,          \* resources that may come in a form Porter cannot decode
    IdleTTL             \* whether CacheConfig.idle_ttl is not zero

Demanded == UNION {Demands[c] : c \in Caller}

ASSUME PorterAssumption ==
    /\ IsFiniteSet(Caller) /\ Demands \in [Caller -> SUBSET Name]
    /\ Demanded # {} /\ IdleTTL \in BOOLEAN
    /\ Malformed \subseteq Resource /\ MaxEntries \in Nat

Outcome(is, view) == [is |-> is, view |-> view]
Pending == Outcome("pending", << >>)
Ambiguous == Outcome("ambiguous", << >>)
NoEntry == [held |-> FALSE, users |-> 0, outcome |-> Pending]
retained == MaxEntries > 0 \/ IdleTTL

VARIABLES
    entries,            \* entries[n]: the interest in n: its users and its outcome
    resources,          \* the cached resources and their aliases
    synced, dirty, idle,
    disconnected,
    grace,              \* whether grace_deadline is set
    wake,               \* the permit of the Notify the body waits for
    phase,              \* of the stream: down, dialing, reset, up
    lingering,          \* whether the body of the last stream still runs
    sentGenerations,    \* what the body subscribed to: none, this entry, an older one
    passed,             \* history: idle interests whose mark the body used up between
                        \* the two halves of established
    decoding,           \* the response being decoded, and what was selected
    rejected,           \* whether a response on this stream was rejected
    callers

cache == <<entries, resources, dirty, idle, wake, sentGenerations, passed>>
stream == <<phase, lingering, decoding, rejected>>
link == <<disconnected, grace>>
clientVars == <<cache, callers, synced, link, stream>>
vars == <<serverVars, clientVars>>

NotDecoding == [on |-> FALSE, resources |-> Nothing, removed |-> {}, selected |-> {}]
NoCaller == [pc |-> "idle", name |-> CHOOSE n \in Demanded : TRUE]
NothingSubscribed == [n \in Demanded |-> "none"]

Init ==
    /\ ServerInit
    /\ entries = [n \in Demanded |-> NoEntry]
    /\ resources = Nothing /\ synced = FALSE /\ dirty = {} /\ idle = << >>
    /\ disconnected = FALSE /\ grace = FALSE
    /\ wake = FALSE /\ phase = "down" /\ lingering = FALSE
    /\ sentGenerations = NothingSubscribed /\ passed = {} /\ decoding = NotDecoding
    /\ callers = [c \in Caller |-> NoCaller]
    /\ rejected = FALSE

-----------------------------------------------------------------------------
(* The state under the mutex, as a value *)

Cache == [entries |-> entries, resources |-> resources, dirty |-> dirty, idle |-> idle,
          wake |-> wake, sent |-> sentGenerations, passed |-> passed]
Commit(s) == /\ entries' = s.entries /\ resources' = s.resources /\ dirty' = s.dirty
             /\ idle' = s.idle /\ wake' = s.wake /\ sentGenerations' = s.sent
             /\ passed' = s.passed

Held(s) == {n \in Demanded : s.entries[n].held}
Interested(s, r, content) == NamesOf(r, content) \cap Held(s) # {}

Resolve(known, isSynced, n) ==
    LET owners == {r \in Resource : n \in known[r].aliases}
        canonical == IF owners = {} THEN {n} \cap Resource ELSE owners
    IN  IF ~isSynced THEN Pending
        ELSE IF Cardinality(owners) > 1 THEN Ambiguous
        ELSE IF \E r \in canonical : known[r] # Absent
        THEN LET r == CHOOSE r \in canonical : TRUE IN Outcome("ready", <<r, known[r].version>>)
        ELSE Pending

\* The LRU list without the names of ns.
Without(list, ns) ==
    LET kept == {i \in DOMAIN list : list[i] \notin ns}
    IN  [k \in 1 .. Cardinality(kept) |->
            list[CHOOSE i \in kept : Cardinality({h \in kept : h < i}) = k - 1]]

\* The entries of ns go; what the body subscribed to was an older generation.
Retired(s, ns) ==
    [s EXCEPT !.entries = [n \in Demanded |-> IF n \in ns THEN NoEntry ELSE @[n]],
              !.idle = Without(@, ns),
              !.sent = [n \in Demanded |->
                            IF n \in ns /\ @[n] = "this" THEN "older" ELSE @[n]],
              !.passed = @ \ ns]

\* Mutant: what nobody is interested in any more stays.
RemoveEntriesOnly(s, ns) ==
    [Retired(s, ns) EXCEPT !.dirty = @ \cup ns, !.wake = @ \/ ns # {}]

\* remove, with TypeState::release, for each of ns.
RemoveEntries(s, ns) ==
    LET kept == Retired(s, ns)
    IN  [kept EXCEPT
           !.dirty = @ \cup ns,
           !.wake = @ \/ ns # {},
           !.resources = [r \in Resource |->
               IF NamesOf(r, @[r]) \cap ns # {} /\ ~Interested(kept, r, @[r])
               THEN Absent ELSE @[r]]]

\* prune: the least recently used k have expired, and capacity evicts more.
Prune(s, k) ==
    LET excess == IF MaxEntries = 0 \/ Cardinality(Held(s)) <= MaxEntries THEN 0
                  ELSE Cardinality(Held(s)) - MaxEntries
        n == IF k > excess THEN k ELSE excess
    IN  RemoveEntries(s, {s.idle[i] : i \in {j \in DOMAIN s.idle : j <= n}})

Expired == IF IdleTTL THEN 0 .. Len(idle) ELSE {0}
Used(s, n) == [s EXCEPT !.idle = Append(Without(@, {n}), n)]

-----------------------------------------------------------------------------
(* Callers *)

\* acquire.  Expiring the grace first, when it has elapsed, is a step of its own.
Acquire(c, n, k) ==
    /\ callers[c].pc = "idle"
    /\ LET pruned == Prune(Cache, k)
           found == pruned.entries[n].held
           leased == [pruned EXCEPT
               !.entries[n] = [held |-> TRUE, users |-> @.users + 1,
                               outcome |-> IF found THEN @.outcome
                                           ELSE Resolve(pruned.resources, synced, n)],
               !.idle = Without(@, {n}),
               !.dirty = IF found THEN @ ELSE @ \cup {n},
               !.wake = @ \/ ~found]
       IN  Commit(Prune(leased, 0))
    /\ callers' = [callers EXCEPT ![c] = [pc |-> "waiting", name |-> n]]
    /\ UNCHANGED <<serverVars, synced, link, stream>>

\* wait: the generation is ready.
Observe(c) ==
    /\ callers[c].pc = "waiting" /\ entries[callers[c].name].outcome.is = "ready"
    /\ callers' = [callers EXCEPT ![c].pc = "holding"]
    /\ UNCHANGED <<serverVars, cache, synced, link, stream>>

\* Mutant: a lease is dropped from the entry of its name, of whichever generation.
DropLeaseByName(c, k) ==
    /\ callers[c].pc # "idle"
    /\ LET n == callers[c].name
           left == [Cache EXCEPT !.entries[n].users = @ - 1]
       IN  Commit(IF ~entries[n].held THEN Cache
                  ELSE IF left.entries[n].users > 0 \/ ~retained THEN left
                  ELSE IF callers[c].pc # "holding" THEN RemoveEntries(left, {n})
                  ELSE Prune(Used(left, n), k))
    /\ callers' = [callers EXCEPT ![c] = NoCaller]
    /\ UNCHANGED <<serverVars, synced, link, stream>>

\* Lease::drop, after use or without success: the outcome was another one, or
\* the caller was canceled.  A lease on a generation that ended drops nothing.
DropLease(c, k) ==
    /\ callers[c].pc # "idle"
    /\ LET n == callers[c].name
           left == [Cache EXCEPT !.entries[n].users = @ - 1]
       IN  Commit(IF callers[c].pc = "missing" THEN Cache
                  ELSE IF left.entries[n].users > 0 \/ ~retained THEN left
                  ELSE IF callers[c].pc # "holding" THEN RemoveEntries(left, {n})
                  ELSE Prune(Used(left, n), k))
    /\ callers' = [callers EXCEPT ![c] = NoCaller]
    /\ UNCHANGED <<serverVars, synced, link, stream>>

\* cached_many: a hit needs no lease, and makes the interest recently used.
CachedHit(n, k) ==
    /\ LET pruned == Prune(Cache, k)
       IN  /\ pruned.entries[n].outcome.is = "ready"
           /\ Commit(IF retained /\ pruned.entries[n].users = 0 THEN Used(pruned, n)
                                                                ELSE pruned)
    /\ UNCHANGED <<serverVars, callers, synced, link, stream>>

\* expire: the timer prunes what has expired.
Expire(k) ==
    /\ k > 0
    /\ Commit(Prune(Cache, k))
    /\ UNCHANGED <<serverVars, callers, synced, link, stream>>

-----------------------------------------------------------------------------
(* Disconnection *)

\* Mutant: interests in use are expected in the first request already.
ResetLockedClean ==
    LET used == {n \in Demanded : entries[n].users > 0}
        kept == Retired(Cache, Demanded \ used)
    IN  /\ Commit([kept EXCEPT
              !.entries = [n \in Demanded |->
                              IF n \in used THEN [@[n] EXCEPT !.outcome = Pending] ELSE @[n]],
              !.resources = Nothing, !.dirty = {}, !.wake = TRUE, !.passed = {}])
        /\ grace' = FALSE
        /\ synced' = FALSE
        /\ UNCHANGED callers

\* Mutant: interests in use keep their outcome until a response replaces it.
ResetLockedKeeping ==
    LET used == {n \in Demanded : entries[n].users > 0}
    IN  /\ Commit([Retired(Cache, Demanded \ used) EXCEPT
                     !.resources = Nothing, !.dirty = used, !.wake = TRUE, !.passed = {}])
        /\ grace' = FALSE
        /\ synced' = FALSE
        /\ UNCHANGED callers

\* reset_locked: only interests in use survive, and they wait again.
ResetLocked ==
    LET used == {n \in Demanded : entries[n].users > 0}
        kept == Retired(Cache, Demanded \ used)
    IN  /\ Commit([kept EXCEPT
              !.entries = [n \in Demanded |->
                              IF n \in used THEN [@[n] EXCEPT !.outcome = Pending] ELSE @[n]],
              !.resources = Nothing, !.dirty = used, !.wake = TRUE, !.passed = {}])
        /\ grace' = FALSE
        /\ synced' = FALSE
        /\ UNCHANGED callers

\* expire_disconnected, by the timer or by the first lookup past the deadline.
ExpireDisconnected ==
    /\ grace
    /\ ResetLocked
    /\ UNCHANGED <<serverVars, disconnected, stream>>

\* The stream fails, or the attempt to open one: disconnected.
Lose ==
    /\ ~decoding.on
    /\ phase' = "down" /\ lingering' = (phase # "down" \/ lingering)
    /\ disconnected' = TRUE
    /\ grace' = (grace \/ ~disconnected)
    /\ sentGenerations' = NothingSubscribed /\ passed' = {} /\ rejected' = FALSE
    /\ StreamEnds
    /\ UNCHANGED <<entries, resources, dirty, idle, wake, callers, synced, decoding>>

-----------------------------------------------------------------------------
(* The stream *)

Waits(n) == entries[n].users > 0 /\ entries[n].outcome = Pending

\* initial: the body is polled before the server accepts the stream.
Dial ==
    /\ phase = "down"
    /\ sentGenerations' = [n \in Demanded |-> IF Waits(n) THEN "this" ELSE "none"]
    /\ up' = <<[sub |-> {n \in Demanded : Waits(n)}, unsub |-> {}]>>
    /\ dirty' = {}
    /\ phase' = "dialing"
    /\ UNCHANGED <<store, changed, watch, down, entries, resources, idle, wake, passed, callers,
                   synced, link, lingering, decoding, rejected>>

\* established: two critical sections.
Establish ==
    /\ phase = "dialing"
    /\ ResetLocked
    /\ phase' = "reset"
    /\ UNCHANGED <<serverVars, disconnected, lingering, decoding, rejected>>

Established ==
    /\ phase = "reset"
    /\ disconnected' = FALSE
    /\ phase' = "up" /\ lingering' = FALSE
    /\ UNCHANGED <<serverVars, cache, callers, synced, grace, decoding, rejected>>

\* outgoing, when the body is woken.  The body is a task of its own: the reset
\* wakes it while disconnected is still set, and it then leaves out what nobody
\* waits for, as during the handshake, although no reset follows.
Outgoing ==
    /\ phase # "down" /\ wake /\ Len(up) < MaxUp
    /\ LET subscribe == {n \in dirty : /\ entries[n].held /\ sentGenerations[n] # "this"
                                       /\ disconnected => Waits(n)}
           unsubscribe == {n \in dirty : ~entries[n].held /\ sentGenerations[n] # "none"}
       IN  /\ sentGenerations' = [n \in Demanded |->
                  IF n \in subscribe THEN "this" ELSE IF n \in unsubscribe THEN "none"
                  ELSE sentGenerations[n]]
           /\ up' = IF subscribe \cup unsubscribe = {} THEN up
                    ELSE Append(up, [sub |-> subscribe, unsub |-> unsubscribe])
           /\ passed' = IF phase # "reset" THEN passed
                        ELSE passed \cup {n \in dirty \ subscribe :
                                            entries[n].held /\ sentGenerations[n] # "this"}
    /\ dirty' = {} /\ wake' = FALSE
    /\ UNCHANGED <<store, changed, watch, down, entries, resources, idle, callers, synced, link,
                   phase, lingering, decoding, rejected>>

\* The body of a lost stream has been canceled, but may take a wakeup first.
\* It is gone when the next stream is established, a backoff later.
LingeringBody ==
    /\ lingering /\ wake /\ phase \in {"down", "dialing"}
    /\ lingering' = FALSE /\ dirty' = {} /\ wake' = FALSE
    /\ UNCHANGED <<serverVars, entries, resources, idle, sentGenerations, passed, callers, synced,
                   link, phase, decoding, rejected>>

\* apply, up to the decoding: which resources are of interest.
Receive ==
    /\ phase = "up" /\ ~decoding.on /\ down # << >>
    /\ LET response == Head(down)
           content == response.resources
       IN  decoding' = [on |-> TRUE, resources |-> content, removed |-> response.removed,
                        selected |-> {r \in Resource : /\ content[r] # Absent
                                                       /\ Interested(Cache, r, content[r])}]
    /\ down' = Tail(down)
    /\ UNCHANGED <<store, changed, watch, up, cache, callers, synced, link, phase, lingering,
                   rejected>>

\* A resource of interest does not decode: the response is rejected as a whole,
\* and the body is woken to say so, as it is to acknowledge one.
Reject ==
    /\ decoding.on /\ decoding.selected \cap Malformed # {}
    /\ rejected' = TRUE /\ decoding' = NotDecoding /\ wake' = TRUE
    /\ UNCHANGED <<serverVars, entries, resources, dirty, idle, sentGenerations, passed, callers,
                   synced, link, phase, lingering>>

\* apply, the publication.  A resource that became interesting while decoding
\* is left to the response to its own subscription.
Apply ==
    /\ decoding.on
    /\ LET content == decoding.resources
           received == {r \in Resource : content[r] # Absent}
           gone == decoding.removed \cap Resource
           known == IF synced THEN resources ELSE Nothing
           updated == [r \in Resource |->
               IF r \in decoding.selected /\ Interested(Cache, r, content[r]) THEN content[r]
               ELSE IF r \in received \cup gone THEN Absent ELSE known[r]]
           vanished == decoding.removed \cup (UNION {resources[r].aliases : r \in gone})
                                        \cup (UNION {known[r].aliases : r \in received})
           touched == Held(Cache) \cap
                         (vanished \cup (UNION {NamesOf(r, content[r]) : r \in received}))
           deleted == {n \in touched \cap vanished : Resolve(updated, TRUE, n) = Pending}
           told == [n \in Demanded |->
               IF n \in touched THEN [entries[n] EXCEPT !.outcome = Resolve(updated, TRUE, n)]
                                ELSE entries[n]]
           s == RemoveEntries([Cache EXCEPT !.resources = updated, !.entries = told], deleted)
       IN  /\ Commit([s EXCEPT !.wake = TRUE])
           /\ callers' = [c \in Caller |->
                 IF callers[c].pc # "idle" /\ callers[c].name \in deleted
                 THEN [callers[c] EXCEPT !.pc = "missing"] ELSE callers[c]]
    /\ synced' = TRUE
    /\ decoding' = NotDecoding
    /\ UNCHANGED <<serverVars, link, phase, lingering, rejected>>

-----------------------------------------------------------------------------
Server == /\ \/ \E r \in Resource : Publish(r) \/ Withdraw(r)
             \/ HandleRequest
             \/ PushUpdate
          /\ UNCHANGED clientVars

Next ==
    \/ Server
    \/ \E c \in Caller :
          \/ \E n \in Demands[c], k \in Expired : Acquire(c, n, k)
          \/ Observe(c)
          \/ \E k \in Expired : DropLease(c, k)
    \/ \E k \in Expired : (\E n \in Demanded : CachedHit(n, k)) \/ Expire(k)
    \/ ExpireDisconnected \/ Lose
    \/ Dial \/ Establish \/ Established
    \/ Outgoing \/ LingeringBody
    \/ Receive \/ Reject \/ Apply

Spec == Init /\ [][Next]_vars

-----------------------------------------------------------------------------
\* Every entry counts the leases its callers hold, an ended generation's lease
\* counts for nobody, and the LRU list holds each idle interest once: no
\* interest is evicted in use or forgotten by prune.
LeasesAreCounted ==
    /\ \A n \in Demanded : entries[n].users =
          Cardinality({c \in Caller : callers[c].name = n /\ callers[c].pc \in {"waiting", "holding"}})
    /\ retained => /\ Range(idle) = {n \in Held(Cache) : entries[n].users = 0}
                   /\ IsInjective(idle)

\* A resource is cached only while some interest, by any of its names, wants it:
\* the limit on interests also bounds the resources kept for them.
CacheIsWanted == \A r \in Resource : resources[r] # Absent => Interested(Cache, r, resources[r])

\* On an established stream every interest, whatever was demanded, dropped and
\* written during the handshake, has been subscribed to, or is marked and the
\* body has a wakeup for it.  There is one exception: an interest nobody waited
\* for when the body ran between the two halves of established is passed over.
DemandsAreCarried ==
    phase = "up" => \A n \in Held(Cache) :
        sentGenerations[n] = "this" \/ (n \in dirty /\ wake) \/ n \in passed

\* Until the first response of a stream is applied there is nothing of an
\* earlier stream left, although cached values were served during the handshake.
NothingIsCarriedOver ==
    phase = "up" /\ ~synced =>
       /\ resources = Nothing
       /\ \A n \in Held(Cache) : entries[n].outcome = Pending

AtRest == /\ phase = "up" /\ up = << >> /\ down = << >> /\ changed = {} /\ ~decoding.on
          /\ ~wake

\* When nothing is under way no interest waits, and each has the outcome the
\* published snapshot gives its name.  But a name can keep a resource whose loss
\* of the name is never heard: the client gave up the resource's other names, and
\* the server handled that before it had the name, or when the resource had lost
\* it.  Not so after a rejected response either, nor for an interest that was
\* passed over: nobody asked the server for it.
RestingCacheAgrees ==
    AtRest /\ ~rejected =>
       \A n \in Held(Cache) \ passed :
          /\ entries[n].outcome # Pending
          /\ \/ entries[n].outcome = Resolve(published, TRUE, n)
             \/ \E r \in Resource : n \in resources[r].aliases \cap lapsed[r]
=============================================================================
