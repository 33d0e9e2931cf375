----------------------------- MODULE CertIssuer -----------------------------
(***************************************************************************)
(* The on-demand certificate issuer (pkg/security/mitm/on_demand.go): a    *)
(* cache, one shared flight per domain, cancellation of flights nobody     *)
(* waits for, a limit on concurrent signing, and rotation of the signer.   *)
(* A rotation is two steps: krt's static singleton stores the new state,   *)
(* then calls the handler that advances rotationEpoch and drops the cache. *)
(***************************************************************************)
EXTENDS Naturals, FiniteSets

CONSTANTS
    Caller,             \* goroutines in Get
    Domain,
    Revision,           \* revisions a signer can have; "" is no signer
    SignConcurrency,
    CacheMaxEntries,
    MaxRotations,       \* bound: changes of the signer state
    MaxFlights,         \* bound: flights that exist at a time
    Again               \* whether a caller calls again; with FALSE and a flight
                        \* for every caller MaxFlights is no bound

ASSUME IssuerAssumption ==
    /\ IsFiniteSet(Caller) /\ IsFiniteSet(Domain)
    /\ Revision \cap {"", "failed", "canceled", "absent"} = {}
    /\ {SignConcurrency, CacheMaxEntries, MaxFlights} \subseteq Nat \ {0}
    /\ MaxRotations \in Nat /\ Again \in BOOLEAN

Flight == 1 .. MaxFlights
NoFlight == 0
Failed == "failed"
Canceled == "canceled"
Absent == "absent"      \* no cache entry, no signing result, no outcome

VARIABLES
    revision,           \* signerState
    rotating,           \* the new state is stored, its handler has not run
    rotationEpoch,
    cache,              \* cache[d]: the revision that signed the entry
    flights,            \* flights[d]
    flight,             \* flight[f]: the flight and the locals of its goroutine
    caller,             \* caller[c]: a call of Get
    signSlots

signer == <<revision, rotating, rotationEpoch>>
vars == <<signer, cache, flights, flight, caller, signSlots>>

FlightState ==
    [step : {"unused", "begin", "look", "acquire", "sign", "commit", "complete", "done"},
     domain : Domain \cup {Absent}, waiters : SUBSET Caller, canceled : BOOLEAN,
     revision : Revision \cup {""}, epoch : 0 .. MaxRotations,
     generated : Revision \cup {Failed, Absent},
     result : Revision \cup {Failed, Canceled, Absent}]
Unused == [step |-> "unused", domain |-> Absent, waiters |-> {}, canceled |-> FALSE,
           revision |-> "", epoch |-> 0, generated |-> Absent, result |-> Absent]

CallerState ==
    [phase : {"idle", "called", "waiting", "returned"}, domain : Domain \cup {Absent},
     revision : Revision \cup {""}, flight : Flight \cup {NoFlight}, canceled : BOOLEAN]
Idle == [phase |-> "idle", domain |-> Absent, revision |-> "", flight |-> NoFlight,
         canceled |-> FALSE]
Returned == IF Again THEN Idle ELSE [Idle EXCEPT !.phase = "returned"]

Cached == {d \in Domain : cache[d] # Absent}

\* Types, and the limit on cache entries that runCertificateFlight enforces.
TypeOK ==
    /\ revision \in Revision \cup {""} /\ rotating \in BOOLEAN
    /\ rotationEpoch \in 0 .. MaxRotations
    /\ cache \in [Domain -> Revision \cup {Absent}]
    /\ Cardinality(Cached) <= CacheMaxEntries
    /\ flights \in [Domain -> Flight \cup {NoFlight}]
    /\ flight \in [Flight -> FlightState] /\ caller \in [Caller -> CallerState]
    /\ signSlots \in 0 .. SignConcurrency

Init ==
    /\ revision \in Revision \cup {""} /\ rotating = FALSE /\ rotationEpoch = 0
    /\ cache = [d \in Domain |-> Absent] /\ flights = [d \in Domain |-> NoFlight]
    /\ flight = [f \in Flight |-> Unused] /\ caller = [c \in Caller |-> Idle]
    /\ signSlots = 0

-----------------------------------------------------------------------------
(* The signer *)

Rotate(r) ==
    /\ ~rotating /\ rotationEpoch < MaxRotations /\ r # revision
    /\ revision' = r /\ rotating' = TRUE
    /\ UNCHANGED <<rotationEpoch, cache, flights, flight, caller, signSlots>>

HandleRotation ==
    /\ rotating /\ rotating' = FALSE
    /\ rotationEpoch' = rotationEpoch + 1
    /\ cache' = [d \in Domain |-> Absent]
    /\ UNCHANGED <<revision, flights, flight, caller, signSlots>>

\* reap: an entry's deadline passes.  An expired entry counts as absent.
Reap(d) ==
    /\ cache[d] # Absent
    /\ cache' = [cache EXCEPT ![d] = Absent]
    /\ UNCHANGED <<signer, flights, flight, caller, signSlots>>

-----------------------------------------------------------------------------
(* Get *)

Call(c, d) ==
    /\ caller[c] = Idle
    /\ caller' = [caller EXCEPT ![c] = [Idle EXCEPT !.phase = "called", !.domain = d,
                                                    !.revision = revision]]
    /\ UNCHANGED <<signer, cache, flights, flight, signSlots>>

\* The context of a call ends: the subscription or the stream is gone.
Cancel(c) ==
    /\ caller[c].phase \in {"called", "waiting"} /\ ~caller[c].canceled
    /\ caller' = [caller EXCEPT ![c].canceled = TRUE]
    /\ UNCHANGED <<signer, cache, flights, flight, signSlots>>

\* Whether cacheEntryValid accepts the entry of d for a signer revision r.
ValidEntry(d, r) == r # "" /\ cache[d] = r

\* certificate, the part before the caller waits: a canceled call returns, and
\* so does one the cache can serve.
ReturnAtOnce(c) ==
    /\ caller[c].phase = "called"
    /\ \/ caller[c].canceled
       \/ ValidEntry(caller[c].domain, caller[c].revision) /\ revision = caller[c].revision
    /\ caller' = [caller EXCEPT ![c] = Returned]
    /\ UNCHANGED <<signer, cache, flights, flight, signSlots>>

\* The caller joins the flight of its domain, and starts it when it is the
\* flight's first waiter.
JoinFlight(c) ==
    LET d == caller[c].domain IN
    /\ caller[c].phase = "called" /\ ~caller[c].canceled
    /\ ~ (ValidEntry(d, caller[c].revision) /\ revision = caller[c].revision)
    /\ \E f \in Flight :
         /\ IF flights[d] # NoFlight THEN f = flights[d]
            ELSE flight[f] = Unused /\ \A g \in 1 .. f - 1 : flight[g] # Unused
         /\ flights' = [flights EXCEPT ![d] = f]
         /\ flight' = [flight EXCEPT ![f].domain = d, ![f].waiters = @ \cup {c},
                         ![f].step = IF flight[f].waiters = {} THEN "begin" ELSE @]
         /\ caller' = [caller EXCEPT ![c].phase = "waiting", ![c].flight = f]
    /\ UNCHANGED <<signer, cache, signSlots>>

Unlisted(f) == [d \in Domain |-> IF flights[d] = f THEN NoFlight ELSE flights[d]]

\* A flight without waiters whose goroutine has returned is garbage.
Collected(state) == IF state.step = "done" /\ state.waiters = {} THEN Unused ELSE state

\* The wait ends and releaseCertificateWaiter runs.
Leave(c) ==
    LET f == caller[c].flight
        left == flight[f].waiters \ {c}
        abandoned == left = {} /\ flight[f].step # "done" IN
    /\ caller[c].phase = "waiting"
    /\ caller[c].canceled \/ flight[f].step = "done"
    /\ flight' = [flight EXCEPT ![f] =
          Collected([flight[f] EXCEPT !.waiters = left,
                                      !.canceled = flight[f].canceled \/ abandoned])]
    /\ flights' = IF abandoned THEN Unlisted(f) ELSE flights
    /\ caller' = [caller EXCEPT ![c] = Returned]
    /\ UNCHANGED <<signer, cache, signSlots>>

-----------------------------------------------------------------------------
(* runCertificateFlight *)

\* Mutant: one canceled waiter ends the flight of all.
StopsForOne(f) ==
    \/ flight[f].canceled
    \/ \E c \in flight[f].waiters : caller[c].canceled

\* Whether flightCancellationError reports an error.
Stops(f) ==
    \/ flight[f].canceled
    \/ \A c \in flight[f].waiters : caller[c].canceled

Set(f, state) == flight' = [flight EXCEPT ![f] = state]
\* The goroutine is past its loop; of its locals only signerRevision is kept.
Ended(f, result) == [flight[f] EXCEPT !.step = "complete", !.result = result,
                                      !.epoch = 0, !.generated = Absent]

\* The check finds no live waiter: the flight leaves the map and is canceled.
Stop(f) ==
    /\ flight[f].step \in {"begin", "look", "acquire", "commit"} /\ Stops(f)
    /\ Set(f, [Ended(f, Canceled) EXCEPT !.canceled = TRUE, !.revision = ""])
    /\ flights' = IF flight[f].canceled THEN flights ELSE Unlisted(f)
    /\ UNCHANGED <<signer, cache, caller, signSlots>>

\* The loop reads the signer's revision.
Begin(f) ==
    /\ flight[f].step = "begin" /\ ~Stops(f)
    /\ Set(f, IF revision = "" THEN Ended(f, Failed)
              ELSE [flight[f] EXCEPT !.step = "look", !.revision = revision])
    /\ UNCHANGED <<signer, cache, flights, caller, signSlots>>

\* It reads the epoch and the cache.
Look(f) ==
    /\ flight[f].step = "look" /\ ~Stops(f)
    /\ Set(f, IF ValidEntry(flight[f].domain, flight[f].revision)
              THEN Ended(f, flight[f].revision)
              ELSE [flight[f] EXCEPT !.step = "acquire", !.epoch = rotationEpoch])
    /\ UNCHANGED <<signer, cache, flights, caller, signSlots>>

Acquire(f) ==
    /\ flight[f].step = "acquire"
    /\ signSlots < SignConcurrency /\ signSlots' = signSlots + 1
    /\ Set(f, [flight[f] EXCEPT !.step = "sign"])
    /\ UNCHANGED <<signer, cache, flights, caller>>

\* Mutant: a failure to sign keeps the slot.
SignDNSKeeping(f, generated) ==
    /\ flight[f].step = "sign" /\ generated \in {revision, Failed} \ {""}
    /\ signSlots' = IF generated = Failed THEN signSlots ELSE signSlots - 1
    /\ Set(f, [flight[f] EXCEPT !.step = "commit", !.generated = generated])
    /\ UNCHANGED <<signer, cache, flights, caller>>

\* SignDNS signs with the signer of that moment, or fails, and the slot is free.
SignDNS(f, generated) ==
    /\ flight[f].step = "sign" /\ generated \in {revision, Failed} \ {""}
    /\ signSlots' = signSlots - 1
    /\ Set(f, [flight[f] EXCEPT !.step = "commit", !.generated = generated])
    /\ UNCHANGED <<signer, cache, flights, caller>>

\* The cache with the new entry.  When it is full, the entry with the earliest
\* deadline, here any, makes room.
Store(d, r) ==
    IF cache[d] = Absent /\ Cardinality(Cached) >= CacheMaxEntries
    THEN \E victim \in Cached : cache' = [cache EXCEPT ![victim] = Absent, ![d] = r]
    ELSE cache' = [cache EXCEPT ![d] = r]

\* Mutant: a result of a superseded signer is committed.
SupersededNever(f) == FALSE

\* The signer changed since the loop read it.
Superseded(f) == rotationEpoch # flight[f].epoch \/ revision # flight[f].revision

\* The epoch-validated commit.
Commit(f) ==
    /\ flight[f].step = "commit" /\ ~Stops(f)
    /\ \/ /\ Superseded(f)
          /\ Set(f, [flight[f] EXCEPT !.step = "begin", !.revision = "", !.epoch = 0,
                                      !.generated = Absent])
          /\ UNCHANGED cache
       \/ /\ ~Superseded(f) /\ flight[f].generated # flight[f].revision
          /\ Set(f, Ended(f, Failed))
          /\ UNCHANGED cache
       \/ /\ ~Superseded(f) /\ flight[f].generated = flight[f].revision
          /\ Set(f, Ended(f, flight[f].generated))
          /\ Store(flight[f].domain, flight[f].generated)
    /\ UNCHANGED <<signer, flights, caller, signSlots>>

\* completeCertificateFlight.
Complete(f) ==
    /\ flight[f].step = "complete"
    /\ Set(f, Collected([flight[f] EXCEPT !.step = "done"]))
    /\ flights' = Unlisted(f)
    /\ UNCHANGED <<signer, cache, caller, signSlots>>

-----------------------------------------------------------------------------

Run(f) ==
    \/ Stop(f) \/ Begin(f) \/ Look(f) \/ Acquire(f) \/ Commit(f) \/ Complete(f)
    \/ \E generated \in Revision \cup {Failed} : SignDNS(f, generated)

Next ==
    \/ \E r \in Revision \cup {""} : Rotate(r)
    \/ HandleRotation
    \/ \E d \in Domain : Reap(d)
    \/ \E c \in Caller : \/ \E d \in Domain : Call(c, d)
                         \/ Cancel(c) \/ ReturnAtOnce(c) \/ JoinFlight(c) \/ Leave(c)
    \/ \E f \in Flight : Run(f)

Spec == Init /\ [][Next]_vars

\* A goroutine that can run is not held up for ever, and SignDNS returns: the
\* rotation's handler, a call or a flight proceeds while one can.
Proceed ==
    \/ HandleRotation
    \/ \E c \in Caller : ReturnAtOnce(c) \/ JoinFlight(c) \/ Leave(c)
    \/ \E f \in Flight : Run(f)
CanProceed ==                                              \* ENABLED Proceed
    \/ rotating
    \/ \E c \in Caller : \/ caller[c].phase = "called"
                         \/ caller[c].phase = "waiting" /\ caller[c].canceled
    \/ \E f \in Flight : \/ flight[f].step \in {"begin", "look", "sign", "commit", "complete"}
                         \/ flight[f].step = "acquire" /\ (signSlots < SignConcurrency \/ Stops(f))
                         \/ flight[f].step = "done" /\ flight[f].waiters # {}
Fairness == []<>~CanProceed \/ []<><<Proceed>>_vars
FairSpec == Spec /\ Fairness

-----------------------------------------------------------------------------
(* Properties *)

Waiting(c) == caller[c].phase = "waiting" /\ ~caller[c].canceled

\* releaseCertificateWaiter and flightCancellationErrorLocked cancel a flight
\* only when no live caller waits for it: a caller with a live context never
\* waits for a canceled flight, and never gets another caller's cancellation.
LiveCallersAreServed ==
    \A c \in Caller : Waiting(c) =>
        LET f == flight[caller[c].flight] IN
        /\ c \in f.waiters /\ f.domain = caller[c].domain
        /\ f.step # "unused" /\ f.result # Canceled
        /\ f.step # "done" => ~f.canceled

\* The epoch and revision checks of the commit keep certificates of a replaced
\* signer out of the cache once the rotation handler has run.
CacheIsCurrent == rotating \/ \A d \in Domain : cache[d] \in {Absent, revision}

\* "A failure from a superseded CA must not fail demand for the current CA."
\* The signer has not changed since the caller asked for it, and the failure
\* the caller is about to receive is of an earlier one.
FailureIsOfCurrentSigner ==
    \A c \in Caller :
        (Waiting(c) /\ flight[caller[c].flight].step = "done"
            /\ flight[caller[c].flight].result = Failed
            /\ caller[c].revision = revision /\ revision # "")
        => flight[caller[c].flight].revision = revision

\* Every call of Get returns: no wait for a slot, a flight or a rotation is for
\* ever once the signer settles.
CallsReturn ==
    \A c \in Caller :
        caller[c].phase \in {"called", "waiting"} ~> caller[c].phase \in {"idle", "returned"}
=============================================================================
