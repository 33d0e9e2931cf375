# Verification of the agentio control plane

TLA+ models of the concurrent core of agentio, the TLC runs that check them on
small instances, and TLAPS proofs that hold for every instance. The models are
translated from the Go code of the server (`pkg/xds`, `pkg/security/mitm`), of
its client library (`pkg/xdsclient`, `pkg/demandcache`), and from the Rust code of
Porter's discovery client (`extensions/porter`).

    tlc -workers 2 -config PushScheduler.cfg MCPushScheduler     # one run
    tlapm PushSchedulerProofs.tla                                # its proofs

`PROJECT.json` lists components, runs, the source lines behind every
definition, a mutated definition for every property, hazards and theorems.

## 1. The system

`agentiod` watches Kubernetes objects, compiles them into xDS resources and
serves them over Delta ADS to gateways, ztunnels and the agentio extensions. The
path of a change, and the module that models each part of it:

    Kubernetes -> registry, krt -> compiler, networking        (not modelled)
       | events of the compiled collection
       v
    Controller: coalesce, debounce, publish                    Publication
       v
    Store: snapshot, deferred deletions                        ResourceStore
       | notices, merged in a mailbox per stream
       v
    subscriptions and indexes                                  Mailboxes
       v
    push scheduler: merge per stream, bounded slots            PushScheduler
       v
    deltaSession.run: requests, pushes, leases, admission      StreamFlow
       |                                   \
       v                                    v
    watch, generator, ACK / NACK            SDS jobs           SdsSession
    DeltaWatch, AckTracking                    v
    DemandWatch (Workloads on demand)       on-demand issuer   CertIssuer
       v
    clients: gateways and ztunnels as any Delta client, in DeltaWatch
             xdsclient + demandcache, used by the EPE          XdsClient
             Porter discovery                                  PorterDiscovery

The other parts of the repository, with their state:

| part | source | here |
| --- | --- | --- |
| KRT collections, debouncer | `pkg/krt` | event order only; planned |
| Kubernetes registry, informers, task queue | `pkg/registry`, `pkg/kube`, `pkg/queue` | queue planned |
| compiler, policies, validation | `pkg/compiler`, `pkg/networking`, `pkg/policy`, `pkg/validation` | pure translation, not modelled |
| FQDN resolution | `pkg/dns` | planned |
| policy status writer | `pkg/policystatus` | not modelled: leader election and conflict checks are client-go's |
| gateway agent, deployer, injection, client trust | `pkg/gatewayagent`, `pkg/gatewaydeployer`, `pkg/inject`, `pkg/clienttrust` | process supervision, rendering; not modelled |
| CA files, attestation, signing | `pkg/security` | cryptography and I/O, not modelled |
| Envoy bandwidth and concurrency limits | `extensions/envoy/network-limits` | planned |
| Envoy SNI policy, gateway metrics | `extensions/envoy/sni-policy`, `gateway-metrics` | one connection at a time, not modelled |
| Porter connection processor | `extensions/porter/src/processor.rs` and others | evaluation of one request, not modelled |
| EPE: ext_proc server, policy evaluation, stores | `extensions/epe/pkg` | its discovery is `XdsClient`; stream phases planned; evaluation not modelled |
| EPE audit delivery, credential caches | `extensions/epe/pkg/audit`, `credential` | planned |
| process, flags, logs, metrics, APIs, manifests, tools | `cmd`, `pkg/server`, `pkg/features`, `api`, ... | not modelled |

## 2. Modules

`X.tla` is a component, `MCX.tla` its instance for TLC, `XProofs.tla` its
theorems. `SetFacts.tla` states the facts on finite sets that three of the proof
modules use. Definitions marked "Mutant" are plausible bugs; each is put in place
of the definition after it to show that a property notices.

### Push scheduler: `PushScheduler`, `PushQueue`

Code: `pkg/xds/scheduler.go` and the dispatcher goroutine of `server.go`.

One action is one critical section of `PushScheduler.mu`. The lock is dropped
in two places and the model is split there: `Enqueue` / `EnqueueMerged` around
the merge of two updates, and `ReleaseSlot` for the slot a finished push gives
back. `enqueueMu` serialises the enqueues of one connection: a connection has at most one
merge under way. `pending`, `queue`, `processing`, `later` and `cancellations`
are the fields of that name, `slots` the tokens in the channel and `wake` the
capacity-one channel. The dispatcher is a program counter: check, block,
acquire a slot, assign, send. `Close`, the cancelled context and the return of
a session may come at any time. An update is the set of keys it invalidates.

`PushQueue` is the contract: accepted keys wait, are assigned in one push per
stream, and are lost only with their stream. `ImplementsPushQueue` is the
refinement: the keys waiting for a stream are the stored ones and the ones
still being merged.

### Acknowledgements: `WatchAcks`, `AckTracking`, `AckLedger`

Code: `watchState` in `pkg/xds/subscription.go` (`recordAcknowledgement`,
`indexPendingResponse`, `applySubscription`) and `sendGeneratedDelta`.

`WatchAcks` holds the operators on `pendingResponse`, `pendingAcks` and
`recovering`, shared by two modules. `AckTracking` drives them with
responses and replies in any order. `AckLedger` is the abstract specification:
per name the nonce of its latest unaccepted delivery. The code keeps one
outstanding response as it is and builds an index only when responses overlap;
the refinement says that this is never visible.

### Delta watch: `DeltaWatch`

Code: `handleRequest`, `pushUpdate`, `generateAndSend`, `sendGeneratedDelta`
(`delta.go`), `applySubscription` (`subscription.go`), the `SnapshotGenerator`.

One resource type of one client, end to end. The type is subscribed to by name,
as a whole, or is that of extensions (ECDS). The two directions of the stream
are FIFO sequences. The client is any client the protocol allows: it accepts,
or rejects and keeps any part of a response, subscribes, evicts, and
reconnects with the versions it holds. A session is sequential, so a handler is
one step.

An update carries two things: its `candidates`, the names whose resource changed,
and which of them had or got an identity in the scope of this client (`ours`).
`PublishElsewhere` is a change another gateway's resource of the name goes
through: it reaches this client's mailbox, as notices are by type, and must leave
it alone. In particular a recovering watch answers an update with everything that
is unsettled, but only a `Relevant` one (`delta.go:306-324`); for another it sends
nothing. Updates of a type as a whole do not exist here: `Store.Notify` has no
caller. Bound: `PublishElsewhere` happens when no update is under way.

Three things the code does that a reader may not expect:

- A name that is subscribed to again while a response, or the end of its last
  subscription, is still on the stream can keep a version whose deletion was on
  its way: the watch has forgotten the version and the generator reports no
  missing names (`reused`).
- Only tracked types recover after a NACK. Untracked types are not modelled.
- For extensions the mark of an unanswered delivery goes when the resource is
  removed (`delta.go:396`), but its sent version stays. An extension that is
  removed while its response is unanswered, then rejected, then published
  again unchanged is not sent again. `DifferencesAreRemembered` is therefore
  stated for the other types.

`ResponsesLeft` is the bound on responses: when no nonce is left, the resources
and the stream do not change any more, and what is under way still finishes.

### Store: `ResourceStore`

Code: `Replace`, `Apply`, `retainReferencedResources` (`pkg/xds/store/store.go`),
`ResourceSet` differences (`pkg/model`). Publications hold `Store.mu`, so each
is one step. A resource is its content and its references.

### Publication: `Publication`

Code: `pkg/xds/controller.go`. It extends `ResourceStore`: three goroutines,
whoever changes the collection, the listener that calls `Enqueue`, and `Run`.
`Enqueue` unlocks before it signals, so it is two steps. `Run` is a program
counter over its select; the debounce timer may fire whenever it is set. A
publication fails when a resource is invalid.

### Notices: `Mailboxes`

Code: `pkg/xds/store/subscription.go`, `notifyLocked` in `store.go`, `Merge` in
`update.go`. Streams empty their mailbox without the lock. `due` is history:
what changed in a watched type since the last read. Candidates without facts,
dependency expansion and `ForWorkload` are left out.

### Streams: `StreamFlow`

Code: `serveDelta`, `deltaSession.run`, `handleRequest`, `handlePush`,
`flowcontrol.go`. The composition of the stream loop with the scheduler (as
`PushQueue`, with one update per stream), the response lease, the pools for
admissions, first responses, requests and pushes, and the limit of Pod streams. Simplifications: a refused or timed-out
admission leaves no trace and is a stutter; the certificate of a stream is a
demand request with one job; whether a handler has configuration to send is a
choice, of up to two responses for a request (a TrafficPolicy demand may send the
Workloads first) and any number for a push; `Fail` ends a stream with all its deferred calls in one step.

### Issuer: `CertIssuer`

Code: `pkg/security/mitm/on_demand.go`. A rotation is two steps, as krt stores
a singleton before it calls handlers. A flight is a program counter: begin,
look, acquire, sign, commit, complete. Deadlines are abstracted: a cached entry
may vanish at any time.

### SDS jobs: `SdsSession`

Code: `pkg/xds/sds_session.go`, `sds_generator.go`, the SDS branches of
`delta.go`. The issuer is the contract of `Get`: it returns a certificate of a
revision known so far, an expired one, a failure, or a cancellation. A request
names at most one name each way. A rotation is three steps: the revision is
stored, the issuer counts it, subscribers are notified. `queue` is the
`sdsSession` as one value: `jobs`, the jobs with their phases, `pending`, `ready`
and `active`; the operations on it are operators (`Subscribe`, `Unsubscribe`,
`Start`, `Settled`). `Settled` is what `sendSDSCompletions` does to it: of the
ready jobs the `Live` ones count, and those `Again` are issued once more because
the signer changed or the certificate expired meanwhile.

### Workloads on demand: `DemandWatch`

Code: the Workload watch of a gateway or an EPE: `handleRequest`, `pushUpdate`,
`sendGeneratedDelta` (`delta.go`), `demandReconciliationView` (`subscription.go`),
`diffDemandWorkloads` and `generateIncremental` (`workload_generator.go`). A
resource is the number of its last publication and its aliases. The module is the
server half: the two clients below extend it, so that each is checked against
what this server really answers. `lapsed` is history: when the server drops a
resource from what it has sent because the client gave up its names,
`lapsed[r]` are the names by which a client may go on holding it unnoticed (case 4
and 5 of section 4).

### Porter: `PorterDiscovery`

Code: `extensions/porter/src/discovery.rs`, `discovery/transport.rs`. A step is
one critical section of the state mutex: `acquire`, an observation of the
outcome, the drop of a lease, a cache hit, `expire`, the loss of the stream, the
end of the grace, dialing, `established` with its reset, `outgoing` of the body
that writes requests, and receiving, rejecting or applying a response, which is
decoded outside the lock. The body is a task of its own, polled from the moment
of dialing on, so `Outgoing` interleaves with everything, the gap between the two
halves of `established` included; `passed` is history for what it uses up there
(case 3 of section 4). The body of a lost stream may still run for a while
(`LingeringBody`). Time is left out, so idle entries and the grace may expire at
any moment. Generations and epochs are compared by what they tell apart: this
entry or an older one.

### Client library and retention cache: `XdsClient`

Code: `pkg/xdsclient` (subscriptions, generations, aliases, the reconnect grace,
the writer, `apply`) under `pkg/demandcache` (`Get`, `release`, `prune`, `remove`),
as the EPE composes them. A step is one critical section of the client's mutex
with what the cache's mutex adds to it; `pruning` says that the cache's mutex is
held over several of them. A response is selected, transformed outside the lock
and applied, and it counts against `MaxDown` until then. Time, generations and
epochs are treated as in `PorterDiscovery`.

## 3. Runs

Every property has a mutant: a definition changed the way a plausible bug would
change it, under which TLC finds the property violated.

| run | instance | checks |
| --- | --- | --- |
| `push_scheduler` | 2 streams, 1 key, 1 slot | `SlotAccounting`, `MergeIsCurrent`; `ImplementsPushQueue`; liveness `EveryUpdateIsPushed` |
| `ack_tracking` | 2 names, 4 nonces | `RecoveryHasNames`, `UnacknowledgedIsRecent`, `ImplementsAckLedger` |
| `delta_watch` | 2 names, 1 content, 3 responses, 2 requests in flight for named types and 1 for others | `DifferencesAreRemembered`, `RepliesSettleDeliveries`, `RecoveryResends` |
| `resource_store` | 3 keys in a chain, 2 contents | `OnlyReferencedRemain`, `NoDanglingWithdrawal` |
| `publication` | 2 keys, one may refer to the other, one invalid content, 2 changes | `DeltasAddUp`; liveness `EventuallyPublished` |
| `mailboxes` | a broad and a dedicated subscriber, 1 Address, 1 Sandbox, 3 notices | `NoticesAreComplete`, `SharedNoticesAreEqual`, `IndexesMatch` |
| `stream_flow` | 2 streams, one slot per pool, 2 responses on one stream and 1 on the other | `SlotsMatchHolders`, `LeaseCoversResponses` |
| `stream_flow_live` | 2 streams, one slot per pool, 1 response each | liveness `WaitersProceed`, `UpdatesAreAssigned` |
| `cert_issuer` | 2 callers, 2 domains, 1 signing slot, 1 cache entry, 2 rotations | `LiveCallersAreServed`, `CacheIsCurrent`; liveness `CallsReturn` |
| `sds_session` | 1 name, 2 revisions, 1 worker, 2 rotations, 2 requests after the first | `ActiveMatchesWorkers`, `JobsAreTracked`, `CancellationIsPrivate`, `StaleIsRevisited`, `SecretsAreServed`; liveness `JobsAreAnswered` |
| `porter_discovery` | 2 callers, 2 Workloads, an instance and a shared address, 1 entry, 1 publication after the first, 1 request and 1 response in flight | `LeasesAreCounted`, `CacheIsWanted`, `DemandsAreCarried`, `NothingIsCarriedOver`, `RestingCacheAgrees` |
| `xds_client` | the same | `RetentionIsExact`, `WaitersAreWoken`, `WaitersAreCarried`, `GraceIsBounded`, `RestingCacheAgrees` |

`TypeOK` is no property of a run: it documents the shape of the state, and is
proved for `PushScheduler`, `AckTracking`, `StreamFlow`, `CertIssuer` and
`SdsSession`.

### Why the bounds suffice

- One slot, worker or cache entry with two competitors is where exhaustion,
  eviction and handing over happen at once.
- Two streams and one key: what distinguishes keys in the scheduler is only
  which update they came from, and the refinement follows each key. The
  proofs remove the bound for safety.
- Three nonces give a late reply to the first response, an overlapping second
  and a recovery. A watch is independent of other watches but for the nonce
  counter, whose gaps `AckTracking` allows.
- A chain of three references is the shortest in which one withdrawal allows
  another.
- Two rotations reach a revision that returns, which an epoch catches and a
  revision does not, and the reverse.
- One SDS name with two requests after the first: a name is dropped and asked
  for again while the worker of its canceled job still runs. Interference between names is only through the
  number of workers and the queue; it is not in this run, but the safety
  properties are proved for any names.
- Two callers, two names and one cache entry: every lookup of the second name
  evicts the first or waits for it. Both Workloads may have the address, so it
  is missing, unique or ambiguous, and the first Workload may lose it. One
  publication during the run is enough for a response to be out of date. With
  two (`MaxPublications = 3`) both `RestingCacheAgrees` hold as well, on 7.5
  million states of `PorterDiscovery` and 14.3 million of `XdsClient`; these
  take too long to be kept as runs.

One condition of the client runs is narrower than the code: the body of a lost
stream is gone before the next stream is established.

### Fairness

No run assumes that a client replies, that a collection changes or that anybody
subscribes.

- `PushScheduler`: weak fairness of the dispatcher, the unlocked tails of
  `enqueue` and `Done`, and of sessions: runnable goroutines run.
- `Publication`: weak fairness of `Run`, of the publication's return and of the
  listener. A timer that is set fires.
- `StreamFlow`: weak fairness of the loops, the dispatcher and the timers;
  strong fairness where a goroutine waits to send on a channel, as Go serves
  waiting senders in order, and for the push case of `select`, which chooses at
  random among ready cases. With one strong-fairness condition for both kinds of
  waiting, in place of one each, `UpdatesAreAssigned` fails.
- `CertIssuer`, `SdsSession`: while some goroutine can proceed, some goroutine
  does, again and again. This is weaker than fairness to each. It is written with
  an explicit predicate `CanProceed`, which equals `ENABLED Proceed` in every
  reachable state of the two instances.
- `SdsSession` assumes that the issuer eventually stops returning certificates
  that are expired or of an earlier signer: each takes a deadline or a rotation
  during the call, and rotations are bounded. Requests are bounded too: the
  pending queue is last in, first out, so a client that never stops asking can
  keep queued demand waiting.

## 4. What the runs show

All listed properties hold on their instances. The models also showed where a
comment in the code says more than the code does. Each case is in the model:
as an exception stated in a property, which a reader can drop to see the steps, or
as a stronger property to check.

1. `pkg/xds/controller.go:84-86` says that bursts of events "collapse to their
   net effect". The first full publication reads the collection and can be ahead
   of the events: an add whose resource it has already published is then queued,
   and a delete that follows cancels out with it. The resource stays published.
   `ahead` in `DeltasAddUp` is exactly this case; to see it, check
   `NetEffectIsPublished` with `Debounce = FALSE`. What `DeltasAddUp` says of it,
   and of failed publications, is that the damage stays with those keys and ends
   with their next published change.
2. `pkg/security/mitm/on_demand.go:347` says that "A failure from a superseded CA
   must not fail demand for the current CA". A flight that has failed stays in
   the map until a later critical section. A caller that comes in between, after
   the signer has changed, joins it and gets the earlier signer's failure. To see
   it, check `FailureIsOfCurrentSigner` with one domain and two revisions.
3. `discovery.rs:575` says "Demands arriving after initial() must also reach the
   new stream". `established` (`discovery.rs:533`) resets in one critical section,
   which marks every interest dirty and wakes the body of the new stream, and
   clears `disconnected` in another. When the body runs in between, `outgoing`
   clears the marks but, as the client still counts as disconnected, subscribes
   only what somebody waits for. An interest that nobody waits for then is not
   carried by this stream and stays `Pending`; a later lookup of it waits until it
   gives up, which removes the interest, and the next one asks anew. `passed` in
   `DemandsAreCarried` and in `RestingCacheAgrees` of `PorterDiscovery` is this
   case: without it either fails.
4. `discovery.rs:715` says "Late updates for released interests are ignored". A
   name that is unsubscribed and acquired again, or by another alias, while a
   response for it is in flight is of interest again when the response comes.
   The server handles the unsubscription before the new subscription, and drops
   the resource from what it has sent. When the resource is withdrawn before the
   new subscription arrives, it is not removed: the name keeps it, or is
   ambiguous when another Workload has taken the address. This concerns both
   clients. `lapsed` in both `RestingCacheAgrees` is this case, for the names the
   server did not have.
5. `pkg/xds/subscription.go:264-266` says that remaining aliases "can keep a
   canonical resource selected after a name is unsubscribed". When a Workload
   loses an alias while the push of that change is queued, and the client
   unsubscribes from its other name, `demandReconciliationView` looks at the
   aliases it has now, forgets what was sent, and no removal follows: a
   subscription by the lost alias keeps the Workload. `lapsed` is this case too,
   for the names the resource had lost. A resource that is forgotten while a
   name of the watch still selects it is not excepted.
6. `pkg/xdsclient/subscription.go:66-67` says that updates "remain visible until
   Release or server-driven subscription deletion". After a reconnect a retained
   but inactive subscription is not replayed, and the server sends nothing for
   it. The cache may hold a resource of that name because another alias asked for
   it. A later `Demand` by the inactive name then returns at once what this
   resource says: without the second owner that makes the name ambiguous, or,
   after the other name's release, an old value. `RestingCacheAgrees` of
   `XdsClient` is therefore stated for active subscriptions. Stated for all held
   ones that have an outcome it fails.

Further observations, which no documentation contradicts:

- A failed publication is not retried; its changes wait for the next event of
  their keys (`lost`).
- The demand for an on-demand certificate is dropped when a static Secret of its
  name appears and vanishes before the push that would serve it.
- `deletedSubscription` of `xdsclient` does not release the resource, so one that
  nobody wants any more can stay cached.
- During the reconnect grace a name can also have a value of the earlier stream
  beside what the new one said, and be ambiguous for that long.
  `RestingCacheAgrees` of `XdsClient` is about what this stream said (`Current`);
  `GraceIsBounded` says that the rest goes with the grace. That a second loss does
  not extend the grace is arithmetic on deadlines and not modelled.

## 5. Proofs

Each theorem holds for every value of the constants that satisfies the named
assumption, which TLC evaluates in the run of the module. The bounds of the runs
(numbers of requests, rotations, notices, publications) are constants too, so
the theorems hold for each value of them. Every proof has the same shape: an
inductive invariant, one lemma or step per action, and the property as a
consequence.

### `PushSchedulerProofs` (`ConstantsAssumption`: finitely many streams, at least one slot)

`IInv` joins `TypeOK`, `SlotAccounting`, `slots <= Concurrency`,
`EntriesAreConsistent` and `MergeIsCurrent`. The count alone is not inductive:
that a stream which `Next` assigns was not assigned before, and that an entry
changes during a merge only by being consumed, both come from
`EntriesAreConsistent`. From it: `TypeCorrect`, `SlotsAccounted`, `PushesBounded`,
`MergesAreCurrent`, `EntriesStayConsistent`, and `Refinement`
(`Spec => ImplementsPushQueue`), one lemma per action.

### `AckTrackingProofs` (`NonceAssumption`: nonces are positive numbers)

`AckInv`, with lemmas on what indexing, settling and forgetting do to the
deliveries. From it: `AckTypeCorrect`, `RecoveryKeepsNames`,
`UnacknowledgedStaysRecent`, `DiagnosticsStayOrdered`, and `LedgerRefinement`
(`Spec => ImplementsAckLedger`).

### `MailboxesProofs` (`MailboxAssumption`: keys of the two types differ, every subscriber has an owner or is broad)

`IInv` joins the types, `FreshAreEmpty` (who is not registered has no types,
names, notice or debt) and the three properties. They need each other: a notice
is complete because the indexes lead to everybody concerned, and two mailboxes
with one ID stay equal because both are reached, or neither, by what comes next.
Theorems: `IndexesAreExact`, `SharingIsSound`, `NoChangeIsMissed`.

### `StreamFlowProofs` (`FlowAssumption`: finitely many streams, positive capacity)

`IInv` says that no pool is beyond its capacity, that the scheduler queues a
stream once and not while it has a push, and for each stream how phase, request,
lease and unanswered responses fit (`Fit`): for example, between two events a
lease is held only for unanswered responses. `SlotsMatchHolders` counts the
holders of each pool; a lemma says how the count changes when one stream
changes. Theorems: `CapacityIsKept` (`TypeOK`), `SlotsHaveOwners`,
`ResponsesAreLeased`.

### `CertIssuerProofs` (`IssuerAssumption`: finitely many callers and domains, positive limits)

`IInv` ties callers and flights together from both sides: a flight's waiters wait
for it (`FlightFit`), a waiting caller is among the waiters of a flight of its
domain (`CallerFit`), a flight in the map is not over, not canceled and has a
waiter (`ListedFit`). That a live caller is not served a cancellation rests on
the last clause of `FlightFit`: a flight is canceled only when all its waiters
are. `SlotsMatch` and `CacheFits` count. `CacheIsCurrent` needs the epoch of the
flight, not its revision, as revisions return. Theorems: `LimitsHold` (`TypeOK`),
`CancellationIsShared`, `CacheStaysCurrent`.

### Facts on finite sets: `SetFacts`

The lemmas of the three modules below take what they need to know of
`Cardinality` as a hypothesis, `SetFacts` or the part `CountingFacts` of it. At
the end of each module the hypothesis is proved from the theorems of the library
(`SetFactsHold`, `CountingFactsHold`) and discharged: the theorems assume nothing
of it. The reason is speed: the library's definitions in the context of every
step make a proof take about twice as long.

### `SdsSessionProofs` (`SdsAssumption`: finitely many names, positive concurrency)

`Fit(queue)` is the invariant of the queue: `pending` lists the queued jobs and
`ready` the ready ones, each once; `jobs` points at live jobs of its name and a
canceled job is in no map; `active` is the number of jobs with a worker or in
`ready` and at most `Concurrency`. Subscribing, unsubscribing, starting and
settling keep it, by lemmas on lists without duplicates (removal, reversal,
concatenation, moving a prefix). `IInv` is `Fit` with the types,
`StaleIsRevisited` and `SecretsAreServed`; the last two say that whatever needs
attention has a job or an update under way, and a job is only worth something
when the queue is fit. Theorems: `SessionIsConsistent` (`TypeOK`,
`ActiveMatchesWorkers`), `JobsStayTracked` (`JobsAreTracked`),
`CancellationStaysPrivate` (`CancellationIsPrivate`),
`StaleCertificatesAreRevisited`, `StaticSecretsAreServed`. That there is always a
free job for a new subscription is a lemma by counting: there are as many jobs as
names and workers together.

### `XdsClientProofs` (`DemandAssumption`, `ClientAssumption`: names and aliases differ, finitely many callers, somebody demands something)

Two invariants. `IInv` is about sleepers: a caller asleep in `Demand` has a
subscription that is held and active; nothing answers it while the client is
synchronized or in its grace; on an open stream the active subscriptions are
sent, or pending with a wakeup. Two more conjuncts say where the resources of an
unsynchronized client come from: without the grace none is retired, and without
synchronization all present ones are retired. Without them the end of the grace,
or the response that synchronizes, could uncover an old answer to a caller that
sleeps. Theorems: `SleepersHaveNoAnswer` (`WaitersAreWoken`),
`SleepersReachTheStream` (`WaitersAreCarried`), `GraceStaysBounded`
(`GraceIsBounded`).

`Retained` is about the retention cache, and is inductive together with `IInv`:
the subscriptions held are those of entries that have not ended (`Leased`), users
are the callers that pin the entry (`Counted`), and the LRU list has the idle
entries, each once. The count is the delicate part: a caller that pins an entry
which is then removed must stop counting for the key, so `PinTaken` and
`PinDropped` say what one caller's step does to the pins of every name. From it:
`RetentionStaysExact` (`RetentionIsExact`).

### `PorterDiscoveryProofs` (`DemandAssumption`, `PorterAssumption`: finitely many callers, somebody demands something)

The state under the mutex is one value `s`, and the operations are operators on
it. `Keeps(s, t)` says that an operation loses none of: the types, `Wanted` (what
is cached is wanted by an interest), `Carried` (an interest is sent, or marked
with a wakeup) and `Fresh` (no resource and no outcome); it is proved once per
operation and is transitive. `Sound(s, callers)` adds what needs the callers:
the users of an entry are its leases (`Counted`), and the LRU list has the idle
interests, each once. `IInv` joins `Sound`; `Fresh` until the first response is
applied, in every phase and not only on an established stream; and `Carried` from
the reset at the establishment on, before `disconnected` is cleared, because a
demand, a drop or an expiry may come between the two halves. Theorems:
`LeasesStayCounted` (`LeasesAreCounted`), `CacheStaysWanted` (`CacheIsWanted`),
`NothingStaysCarriedOver` (`NothingIsCarriedOver`), and `DemandsStayCarried`
(`DemandsAreCarried`), for every interleaving of the body with the handshake; the
interests `passed` over are those of case 3 of section 4.

### Only model-checked

- Liveness (`EveryUpdateIsPushed`, `EventuallyPublished`, `WaitersProceed`,
  `UpdatesAreAssigned`, `CallsReturn`, `JobsAreAnswered`): fairness and `ENABLED`
  are beyond the prover.
- `ResourceStore` and `Publication`: what the sweep of `retainReferencedResources`
  computes is defined by recursion, and needs induction over data.
- `RestingCacheAgrees` of both clients, `DifferencesAreRemembered` and
  `RepliesSettleDeliveries`: they speak of the moment when nothing is in flight,
  so an inductive form has to describe what every message in two sequences will
  do when it is applied, a fold over the sequence.
- `RecoveryResends` of `DeltaWatch` and `NoDanglingWithdrawal` of `ResourceStore`.

## 6. Plan

Next proofs: `RepliesSettleDeliveries` and `RecoveryResends` of `DeltaWatch`, from
the lemmas of `AckTrackingProofs` on the operators the two share.

Next modules, in order of what is hard to test there:

1. `ConcurrencyLedger` and `BandwidthBudget` (`extensions/envoy/network-limits`):
   counters rebuilt after a change of layout; tickets across queues.
2. `AuditDispatcher`: admission, drain deadline and purge.
3. `TaskQueue`, the krt debouncer and the FQDN cache.
4. A composition of `Publication` and `Mailboxes` with `DeltaWatch`: from a
   compiled change to the client.

Also to come: shutdown of the issuer, the Address and Sandbox generators.

## 7. Not modelled

Parts of modelled components: `Close` of the demand cache; `Client.Demand`
without a handle, wildcard watches, a zero reconnect grace, `KeepSubscription`,
`Snapshot` and `Observe` of `xdsclient`, and its ACK nonces (Workload watches do
not track acknowledgements); expansion of a Service to its members in the demand
watch, and the Workload response that a TrafficPolicy demand sends first; untracked types in `DeltaWatch`; shutdown of the issuer. The components
without a module are in the table of section 1, each with the reason.

Data, in all modules: contents and encodings of resources, hashes (equal content means equal hash),
time stamps, metrics, logging, the arithmetic of deadlines and rate limiters,
authorization other than as a value that may change, TLS and cryptography.
