----------------------------- MODULE SdsSession -----------------------------
(***************************************************************************)
(* On-demand certificates on one Delta ADS stream (pkg/xds: sds_session.go,*)
(* sds_generator.go, delta.go): the queue of issuance jobs, its workers,   *)
(* static Secrets of the same names, and signer rotations that invalidate  *)
(* what was sent.  Handlers of the ADS loop are atomic; workers, rotations *)
(* and publications interleave with them.  The issuer is the contract that *)
(* CertIssuer's Get keeps, and notices reach the loop as one merged update.*)
(***************************************************************************)
EXTENDS Naturals, Sequences, FiniteSets, Functions

CONSTANTS
    Name,               \* Secret names of one client scope
    Revision,           \* signer revisions; "" is no signer
    Concurrency,        \* sdsStreamConcurrency
    MaxRotations,       \* bound: changes of the signer state
    MaxRequests         \* bound: requests after the first

ASSUME SdsAssumption ==
    /\ IsFiniteSet(Name)
    /\ Revision \cap {"", "failed", "canceled", "expired", "absent", "static", "legacy"} = {}
    /\ Concurrency \in Nat \ {0} /\ {MaxRotations, MaxRequests} \subseteq Nat

\* Every job is queued under its own name or has one of the active slots.
Job == 1 .. Cardinality(Name) + Concurrency
NoJob == 0
Failed == "failed"      \* Generate answered with a removal
Canceled == "canceled"  \* Generate returned the error of its context
Expired == "expired"
Absent == "absent"
Static == "static"      \* the version of a Secret of the snapshot
Legacy == "legacy"      \* a version without a signing generation

VARIABLES
    revision,           \* signerState of the issuer
    rotation,           \* how far the handlers of its last change have come
    generation,         \* rotationEpoch
    known,              \* revisions the signer has had
    authorized,         \* whether the scope's gateway is eligible
    secrets,            \* names of the static Secrets in the snapshot
    update,             \* the update the scheduler has for the stream
    started, names, sent,       \* the watch
    queue,              \* the sdsSession
    requests            \* bound: requests handled

signer == <<revision, rotation, generation, known>>
watch == <<started, names, sent>>
vars == <<signer, authorized, secrets, update, watch, queue, requests>>

JobState ==
    [phase : {"free", "queued", "started", "issuing", "ready"}, name : Name \cup {Absent},
     canceled : BOOLEAN, generation : 0 .. MaxRotations,
     result : Revision \cup {Failed, Canceled, Expired, Absent}]
Free == [phase |-> "free", name |-> Absent, canceled |-> FALSE, generation |-> 0,
         result |-> Absent]
Queued(n) == [Free EXCEPT !.phase = "queued", !.name = n]

\* The types of the signer, the session and its queue of jobs; start never runs
\* more workers than the limit.
TypeOK ==
    /\ revision \in Revision \cup {""} /\ known \subseteq Revision
    /\ rotation \in {"settled", "stored", "counted"} /\ generation \in 0 .. MaxRotations
    /\ authorized \in BOOLEAN /\ started \in BOOLEAN
    /\ secrets \subseteq Name /\ names \subseteq Name
    /\ update \in [full : BOOLEAN, keys : SUBSET Name]
    /\ sent \in [Name -> Revision \cup {Absent, Static, Legacy}]
    /\ queue.jobs \in [Name -> Job \cup {NoJob}] /\ queue.job \in [Job -> JobState]
    /\ queue.pending \in Seq(Job) /\ queue.ready \in Seq(Job)
    /\ queue.active \in 0 .. Concurrency
    /\ requests \in 0 .. MaxRequests

Init ==
    /\ revision \in Revision \cup {""} /\ rotation = "settled" /\ generation = 0
    /\ known = {revision} \ {""}
    /\ authorized \in BOOLEAN /\ secrets = {} /\ update = [full |-> FALSE, keys |-> {}]
    /\ started = FALSE /\ names = {} /\ sent = [n \in Name |-> Absent]
    /\ queue = [jobs |-> [n \in Name |-> NoJob], job |-> [j \in Job |-> Free],
                pending |-> <<>>, ready |-> <<>>, active |-> 0]
    /\ requests = 0

-----------------------------------------------------------------------------
(* The signer, the registry and the snapshot *)

Rotate(r) ==
    /\ rotation = "settled" /\ generation < MaxRotations /\ r # revision
    /\ revision' = r /\ rotation' = "stored" /\ known' = known \cup ({r} \ {""})
    /\ UNCHANGED <<generation, authorized, secrets, update, watch, queue, requests>>

CountRotation ==
    /\ rotation = "stored" /\ rotation' = "counted"
    /\ generation' = generation + 1
    /\ UNCHANGED <<revision, known, authorized, secrets, update, watch, queue, requests>>

\* NotifyType: streams that watch Secrets regenerate them in full.
NotifyRotation ==
    /\ rotation = "counted" /\ rotation' = "settled"
    /\ update' = IF started THEN [update EXCEPT !.full = TRUE] ELSE update
    /\ UNCHANGED <<revision, generation, known, authorized, secrets, watch, queue, requests>>

ChangeAuthorization ==
    /\ authorized' = ~authorized
    /\ UNCHANGED <<signer, secrets, update, watch, queue, requests>>

\* A publication adds or removes the static Secret n.
Publish(n) ==
    /\ secrets' = (secrets \cup {n}) \ (secrets \cap {n})
    /\ update' = IF started THEN [update EXCEPT !.keys = @ \cup {n}] ELSE update
    /\ UNCHANGED <<signer, authorized, watch, queue, requests>>

-----------------------------------------------------------------------------
(* sdsSession, as functions from queue to queue *)

\* A list without the elements of G, and a list from its end.
Without(s, G) ==
    LET kept == {i \in DOMAIN s : s[i] \notin G}
    IN  [k \in 1 .. Cardinality(kept) |->
            s[CHOOSE i \in kept : Cardinality({h \in kept : h < i}) = k - 1]]
Reversed(s) == [i \in 1 .. Len(s) |-> s[Len(s) - i + 1]]

\* Mutant: a name that has a job gets another one.
SubscribeAgain(q, n) ==
    LET j == CHOOSE i \in Job : q.job[i].phase = "free"
    IN  [q EXCEPT !.jobs[n] = j, !.job[j] = Queued(n), !.pending = <<j>> \o @]

\* subscribe: a queued job moves to the front.
Subscribe(q, n) ==
    LET j == q.jobs[n]
        new == CHOOSE i \in Job : q.job[i].phase = "free"
    IN  CASE j = NoJob -> [q EXCEPT !.jobs[n] = new, !.job[new] = Queued(n),
                                    !.pending = <<new>> \o @]
          [] j # NoJob /\ q.job[j].phase = "queued" ->
                          [q EXCEPT !.pending = <<j>> \o Without(@, {j})]
          [] OTHER -> q

\* Mutant: a running job gives its slot up at once.
UnsubscribeFreeing(q, N) ==
    LET gone == {q.jobs[n] : n \in N} \ {NoJob} IN
    [q EXCEPT !.jobs = [n \in Name |-> IF n \in N THEN NoJob ELSE @[n]],
              !.pending = Without(@, gone),
              !.job = [j \in Job |-> IF j \in gone THEN Free ELSE @[j]]]

\* Mutant: the job keeps its entry in the map.
UnsubscribeKeeping(q, N) ==
    LET gone == {q.jobs[n] : n \in N} \ {NoJob} IN
    [q EXCEPT !.pending = Without(@, gone),
              !.job = [j \in Job |-> IF j \in gone /\ @[j].phase # "queued"
                                     THEN [@[j] EXCEPT !.canceled = TRUE] ELSE @[j]]]

Unsubscribe(q, N) ==
    LET gone == {q.jobs[n] : n \in N} \ {NoJob} IN
    [q EXCEPT !.jobs = [n \in Name |-> IF n \in N THEN NoJob ELSE @[n]],
              !.pending = Without(@, gone),
              !.job = [j \in Job |-> CASE j \notin gone -> @[j]
                                       [] j \in gone /\ @[j].phase = "queued" -> Free
                                       [] OTHER -> [@[j] EXCEPT !.canceled = TRUE]]]

\* start: names that became static leave, and workers take the front.
Start(q) ==
    LET u == Unsubscribe(q, secrets)
        k == IF Len(u.pending) < Concurrency - u.active
             THEN Len(u.pending) ELSE Concurrency - u.active
        first == {u.pending[i] : i \in 1 .. k}
    IN  [u EXCEPT !.pending = SubSeq(@, k + 1, Len(@)), !.active = @ + k,
                  !.job = [j \in Job |-> IF j \in first
                                         THEN [@[j] EXCEPT !.phase = "started"] ELSE @[j]]]

-----------------------------------------------------------------------------
(* The worker of a job *)

ReadGeneration(j) ==
    /\ queue.job[j].phase = "started"
    /\ queue' = [queue EXCEPT !.job[j].phase = "issuing", !.job[j].generation = generation]
    /\ UNCHANGED <<signer, authorized, secrets, update, watch, requests>>

\* Generate for the one name of the job.  Get may fail at any time, and does
\* without a signer or authorization; an error of a canceled context is returned.
\* A certificate may come back expired, or signed by an earlier signer.
Issue(j, result) ==
    /\ queue.job[j].phase = "issuing"
    /\ \/ result = Failed
       \/ result = Canceled /\ queue.job[j].canceled
       \/ authorized /\ result = revision /\ revision # ""
       \/ authorized /\ result \in known \cup {Expired}
    /\ queue' = [queue EXCEPT !.job[j].phase = "ready", !.job[j].result = result,
                              !.ready = Append(@, j)]
    /\ UNCHANGED <<signer, authorized, secrets, update, watch, requests>>

-----------------------------------------------------------------------------
(* Responses *)

Sent(resources, version, removed) ==
    sent' = [n \in Name |-> IF n \in resources THEN version[n]
                            ELSE IF n \in removed THEN Absent ELSE sent[n]]

HasJob(q, n) == q.jobs[n] # NoJob

\* A removal would tear down the request a job is about to answer.
Exempt(q) == IF revision # "" /\ authorized THEN {n \in Name : HasJob(q, n)} ELSE {}

\* Mutant: only static Secrets that the request names are generated.
SendFullExplicit(q, w, explicit) ==
    LET view == [n \in Name |-> IF n \in Exempt(q) THEN Absent ELSE w.sent[n]]
        selected == secrets \cap w.names
        removed == {n \in Name \ selected :
                      view[n] # Absent /\ (~authorized \/ view[n] # revision)}
    IN  sent' = [n \in Name |-> IF n \in selected \cap explicit THEN Static
                                ELSE IF n \in removed THEN Absent ELSE w.sent[n]]

\* generateAndSend with Full: static Secrets, and removal of what was sent
\* under another signer.  w is the watch after the request.
SendFull(q, w, explicit) ==
    LET view == [n \in Name |-> IF n \in Exempt(q) THEN Absent ELSE w.sent[n]]
        selected == secrets \cap w.names
        resources == {n \in selected : n \in explicit \/ view[n] # Static}
        removed == {n \in Name \ selected :
                      view[n] # Absent /\ (~authorized \/ view[n] # revision)}
    IN  sent' = [n \in Name |-> IF n \in resources THEN Static
                                ELSE IF n \in removed THEN Absent ELSE w.sent[n]]

\* The same for an update of known keys: generateIncremental.
SendIncremental(keys) ==
    LET selected == keys \cap secrets \cap names
    IN  Sent(selected, [n \in Name |-> Static], keys \ selected)

\* pushUpdate
Push ==
    LET q == Unsubscribe(queue, secrets) IN
    /\ started /\ (update.full \/ update.keys # {})
    /\ update' = [full |-> FALSE, keys |-> {}]
    /\ queue' = q
    /\ IF update.full THEN SendFull(q, [names |-> names, sent |-> sent], {})
       ELSE SendIncremental(update.keys)
    /\ UNCHANGED <<signer, authorized, secrets, started, names, requests>>

-----------------------------------------------------------------------------
(* Requests *)

\* The first request: versions the client holds, and one name it wants.  What
\* is restored is not demand; every restored version is checked.
FirstRequest(held, n) ==
    LET restored == {m \in Name : held[m] # Absent}
        w == [names |-> restored \cup {n}, sent |-> held]
        q == Start(IF n \in secrets \cup restored THEN queue ELSE Subscribe(queue, n))
    IN  /\ ~started /\ started' = TRUE
        /\ names' = w.names /\ queue' = q
        /\ SendFull(q, w, secrets \cap {n})
        /\ UNCHANGED <<signer, authorized, secrets, update, requests>>

\* A later request subscribes to names (one here) and unsubscribes from names.
HandleRequest(sub, unsub) ==
    LET w == [names |-> (names \cup sub) \ unsub,
              sent |-> [n \in Name |-> IF n \in unsub THEN Absent ELSE sent[n]]]
        wanted == sub \ unsub
        static == wanted \cap secrets
        subscribed == IF wanted \subseteq secrets THEN queue
                      ELSE Subscribe(queue, CHOOSE n \in wanted : TRUE)
        q == Start(Unsubscribe(subscribed, unsub))
    IN  /\ started /\ requests < MaxRequests /\ requests' = requests + 1
        /\ names' = w.names /\ queue' = q
        /\ IF static # {} THEN SendFull(q, w, static) ELSE sent' = w.sent
        /\ UNCHANGED <<signer, authorized, secrets, update, started>>

-----------------------------------------------------------------------------
(* Completions *)

\* Mutant: results are sent without a look at the signer.
OutdatedNever(state) == FALSE

\* Another generation signed, or failed to; or the version is not current.
Outdated(state) ==
    \/ state.generation # generation /\ revision # ""
    \/ state.result \notin {Failed, revision}

\* Whether the job is still the one of its name.
Current(q, j) == q.jobs[q.job[j].name] = j

\* Of the jobs that are ready: those of their names, of these the ones to issue
\* again, and the ones that have a certificate to send.
Live(q) == {j \in Range(q.ready) : Current(q, j)}
Again(q) == {j \in Live(q) : authorized /\ Outdated(q.job[j])}
Certified(q) == {j \in Live(q) \ Again(q) : authorized /\ q.job[j].result # Failed}
NamesOf(q, J) == {q.job[j].name : j \in J}

\* The queue without the ready jobs: issued again ahead of the others, or done.
Settled(q) ==
    LET batch == Range(q.ready)
        again == Again(q)
        done == NamesOf(q, Live(q) \ again)
    IN  [q EXCEPT !.ready = <<>>, !.active = @ - Len(q.ready),
                  !.jobs = [n \in Name |-> IF n \in done THEN NoJob ELSE @[n]],
                  !.job = [j \in Job |-> CASE j \in again -> Queued(@[j].name)
                                           [] j \in batch \ again -> Free
                                           [] OTHER -> @[j]],
                  !.pending = Reversed(Without(q.ready, Job \ again)) \o @]

\* sendSDSCompletions, for all that is ready.
HandleCompletions ==
    LET q == Unsubscribe(queue, secrets)
        certified == Certified(q)
    IN  /\ q.ready # <<>>
        /\ queue' = Start(Settled(q))
        /\ Sent(NamesOf(q, certified), [n \in Name |-> q.job[q.jobs[n]].result],
                NamesOf(q, (Live(q) \ Again(q)) \ certified))
        /\ UNCHANGED <<signer, authorized, secrets, update, started, names, requests>>

-----------------------------------------------------------------------------

Held == [Name -> {Absent, Legacy} \cup Revision]

Next ==
    \/ \E r \in Revision \cup {""} : Rotate(r)
    \/ CountRotation \/ NotifyRotation \/ ChangeAuthorization
    \/ \E n \in Name : Publish(n)
    \/ \E j \in Job : ReadGeneration(j)
    \/ \E j \in Job, result \in Revision \cup {Failed, Canceled, Expired} : Issue(j, result)
    \/ Push \/ HandleCompletions
    \/ \E held \in Held, n \in Name : FirstRequest(held, n)
    \/ \E sub, unsub \in {{}} \cup {{n} : n \in Name} : HandleRequest(sub, unsub)

Spec == Init /\ [][Next]_vars

\* A goroutine that can run is not held up for ever: some handler of a rotation,
\* worker or batch of completions proceeds while one can.
Proceed ==
    \/ CountRotation \/ NotifyRotation \/ HandleCompletions
    \/ \E j \in Job : \/ ReadGeneration(j)
                      \/ \E result \in Revision \cup {Failed, Canceled, Expired} : Issue(j, result)
CanProceed == rotation # "settled" \/ queue.active > 0     \* ENABLED Proceed
Fairness == []<>~CanProceed \/ []<><<Proceed>>_vars

\* The issuer returns a current certificate, or none.
IssuesCurrent ==
    \A j \in Job : queue.job[j].phase = "issuing" /\ queue'.job[j].phase = "ready" =>
        queue'.job[j].result \in {revision, Failed, Canceled}

\* An expired certificate, or one of an earlier signer, takes a deadline or a
\* rotation during Get: the exception, which comes to an end.
FairSpec == Spec /\ Fairness /\ <>[][IssuesCurrent]_vars

-----------------------------------------------------------------------------
(* Properties *)

Occupying == {j \in Job : queue.job[j].phase \in {"started", "issuing", "ready"}}

\* active counts the workers whose completion has not been handled, those of
\* unsubscribed jobs too, so that ready, whose capacity is the limit, never
\* blocks a worker.
ActiveMatchesWorkers ==
    /\ queue.active = Cardinality(Occupying) /\ queue.active <= Concurrency
    /\ \A j \in Job : (queue.job[j].phase = "ready") = (j \in Range(queue.ready))
    /\ IsInjective(queue.ready)

\* A job in the map is queued once or has a worker; a queued job is in the
\* map.  A result of an unsubscribed job is never taken for that of a later
\* subscription of its name.
JobsAreTracked ==
    /\ \A n \in Name : HasJob(queue, n) =>
          LET state == queue.job[queue.jobs[n]] IN
          state.phase # "free" /\ state.name = n /\ ~state.canceled
    /\ \A j \in Job : queue.job[j].phase \in {"queued", "started", "issuing", "ready"} =>
          queue.job[j].canceled \/ queue.jobs[queue.job[j].name] = j
    /\ \A j \in Job : (queue.job[j].phase = "queued") = (j \in Range(queue.pending))
    /\ IsInjective(queue.pending)

\* sendSDSCompletions ends the stream for an error of a worker's context.  Only
\* the stream's own end causes one: the job of a canceled worker is not current.
CancellationIsPrivate ==
    \A j \in Job : queue.job[j].phase = "ready" /\ queue.job[j].result = Canceled
                   => ~Current(queue, j)

\* A certificate of a signer that is no longer current does not stay with the
\* client: a rotation's notice or a push is on its way, or a job that a signer
\* can serve will replace it.
StaleIsRevisited ==
    \A n \in Name : (started /\ sent[n] \in (Revision \cup {Legacy}) \ {revision}) =>
        \/ rotation # "settled" \/ update.full \/ n \in update.keys
        \/ HasJob(queue, n) /\ revision # ""

\* Between pushes the client has the static Secrets it watches, no certificate
\* is being issued for their names, and a withdrawn Secret stays with it only
\* until the job that replaces it is done.
SecretsAreServed ==
    \A n \in Name : (started /\ ~update.full /\ n \notin update.keys) =>
        /\ n \in secrets \cap names => sent[n] = Static
        /\ n \in secrets => ~HasJob(queue, n)
        /\ sent[n] = Static => n \in secrets \cap names \/ HasJob(queue, n)

\* Every job is answered or given up, once the signer settles and the client
\* stops asking: new demand goes ahead of queued demand.
JobsAreAnswered == \A n \in Name : HasJob(queue, n) ~> ~HasJob(queue, n)
=============================================================================
