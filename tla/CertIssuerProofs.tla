-------------------------- MODULE CertIssuerProofs --------------------------
(***************************************************************************)
(* Proofs about CertIssuer, for any callers, domains, signer revisions and *)
(* limits: a live caller is never served a cancellation, the cache is of   *)
(* the current signer, and the limits on entries and signing hold.         *)
(***************************************************************************)
EXTENDS CertIssuer, FiniteSetTheorems, TLAPS

-----------------------------------------------------------------------------
(* The inductive invariant *)

\* The types.  The handler of a stored rotation may always advance the epoch.
Typed ==
    /\ revision \in Revision \cup {""} /\ rotating \in BOOLEAN
    /\ rotationEpoch \in 0 .. MaxRotations /\ (rotating => rotationEpoch < MaxRotations)
    /\ cache \in [Domain -> Revision \cup {Absent}]
    /\ flights \in [Domain -> Flight \cup {NoFlight}]
    /\ flight \in [Flight -> FlightState] /\ caller \in [Caller -> CallerState]

\* A flight knows its waiters, and is canceled only for canceled ones.
FlightFit(f) ==
    /\ \A c \in flight[f].waiters : caller[c].phase = "waiting" /\ caller[c].flight = f
    /\ flight[f].step # "unused" => flight[f].domain \in Domain
    /\ flight[f].step = "unused" => flight[f].waiters = {}
    /\ flight[f].canceled \/ flight[f].result = Canceled
          => \A c \in flight[f].waiters : caller[c].canceled

\* A waiting caller is among the waiters of a flight for its domain.
CallerFit(c) ==
    /\ caller[c].phase = "called" => caller[c].domain \in Domain
    /\ caller[c].phase = "waiting" =>
          /\ caller[c].flight \in Flight
          /\ c \in flight[caller[c].flight].waiters
          /\ flight[caller[c].flight].domain = caller[c].domain
          /\ flight[caller[c].flight].step # "unused"

\* A flight that new callers may join is of that domain and not over.
ListedFit(d) ==
    flights[d] # NoFlight =>
        LET f == flight[flights[d]] IN
        /\ f.domain = d /\ f.step \notin {"unused", "done"} /\ f.waiters # {}
        /\ ~f.canceled /\ f.result # Canceled

\* The signing slots in use are those of the flights inside SignDNS.
Signing == {f \in Flight : flight[f].step = "sign"}
SlotsMatch == signSlots = Cardinality(Signing) /\ signSlots <= SignConcurrency

CacheFits == Cardinality(Cached) <= CacheMaxEntries

IInv == /\ Typed
        /\ \A f \in Flight : FlightFit(f)
        /\ \A c \in Caller : CallerFit(c)
        /\ \A d \in Domain : ListedFit(d)
        /\ SlotsMatch /\ CacheFits /\ CacheIsCurrent

\* The limits as numbers.
LEMMA Limits ==
  /\ SignConcurrency \in Nat /\ CacheMaxEntries \in Nat /\ MaxFlights \in Nat /\ MaxRotations \in Nat
  /\ SignConcurrency # 0 /\ CacheMaxEntries # 0 /\ MaxFlights # 0
  /\ 0 \in 0 .. MaxRotations
  <1>1. MaxRotations \in Nat
    BY IssuerAssumption
  <1>2. {SignConcurrency, CacheMaxEntries, MaxFlights} \subseteq Nat \ {0}
    BY IssuerAssumption
  <1> QED
    BY <1>1, <1>2

\* The records of a flight and of a call that are not there.
LEMMA Empties ==
  /\ Unused \in FlightState /\ Unused.step = "unused" /\ Unused.waiters = {}
  /\ Unused.canceled = FALSE /\ Unused.result = Absent
  /\ Idle \in CallerState /\ Idle.phase = "idle"
  /\ Returned \in CallerState /\ Returned.phase \in {"idle", "returned"}
  <1>1. /\ Unused \in FlightState /\ Unused.step = "unused" /\ Unused.waiters = {}
        /\ Unused.canceled = FALSE /\ Unused.result = Absent
    BY Limits DEF Unused, FlightState
  <1>2. Idle \in CallerState /\ Idle.phase = "idle"
    BY DEF Idle, CallerState
  <1>3. Returned \in CallerState /\ Returned.phase \in {"idle", "returned"}
    BY <1>2 DEF Returned, CallerState
  <1> QED
    BY <1>1, <1>2, <1>3

\* Nothing cached, nobody waiting.
LEMMA InitIInv == Init => IInv
  <1> SUFFICES ASSUME Init PROVE IInv
    OBVIOUS
  <1>1. /\ \A f \in Flight : flight[f] = Unused
        /\ \A c \in Caller : caller[c] = Idle
        /\ \A d \in Domain : flights[d] = NoFlight /\ cache[d] = Absent
    BY DEF Init
  <1>2. Typed
    <2>1. /\ revision \in Revision \cup {""} /\ rotating = FALSE /\ rotationEpoch \in 0 .. MaxRotations
      BY Limits DEF Init
    <2>2. /\ cache \in [Domain -> Revision \cup {Absent}]
          /\ flights \in [Domain -> Flight \cup {NoFlight}]
      BY DEF Init
    <2>3. /\ flight \in [Flight -> FlightState] /\ caller \in [Caller -> CallerState]
      BY Empties DEF Init
    <2> QED
      BY <2>1, <2>2, <2>3 DEF Typed
  <1>3. \A f \in Flight : FlightFit(f)
    BY <1>1, Empties DEF FlightFit, Absent, Canceled
  <1>4. \A c \in Caller : CallerFit(c)
    BY <1>1, Empties DEF CallerFit
  <1>5. \A d \in Domain : ListedFit(d)
    BY <1>1 DEF ListedFit
  <1>6. Signing = {} /\ Cached = {}
    BY <1>1, Empties DEF Signing, Cached
  <1>7. SlotsMatch /\ CacheFits
    <2>1. Cardinality(Signing) = 0 /\ Cardinality(Cached) = 0 /\ signSlots = 0
      BY <1>6, FS_EmptySet DEF Init
    <2> QED
      BY <2>1, Limits DEF SlotsMatch, CacheFits
  <1>8. CacheIsCurrent
    BY <1>1 DEF CacheIsCurrent
  <1> QED
    BY <1>2, <1>3, <1>4, <1>5, <1>7, <1>8 DEF IInv

-----------------------------------------------------------------------------
(* Steps of a flight *)

\* The slots follow the flights that enter and leave SignDNS.
LEMMA SlotsStep ==
  ASSUME Typed, SlotsMatch, NEW f \in Flight, NEW st, flight' = [flight EXCEPT ![f] = st],
         \/ /\ flight[f].step # "sign" /\ st.step = "sign"
            /\ signSlots < SignConcurrency /\ signSlots' = signSlots + 1
         \/ flight[f].step = "sign" /\ st.step # "sign" /\ signSlots' = signSlots - 1
         \/ (flight[f].step = "sign" <=> st.step = "sign") /\ signSlots' = signSlots
  PROVE  SlotsMatch'
  <1> DEFINE A == Signing
             B == Signing'
  <1>1. B = {g \in Flight : flight'[g].step = "sign"} /\ A = {g \in Flight : flight[g].step = "sign"}
    BY DEF Signing
  <1>2. flight'[f] = st /\ \A g \in Flight : g # f => flight'[g] = flight[g]
    BY DEF Typed
  <1>3. IsFiniteSet(Flight)
    BY Limits, FS_Interval DEF Flight
  <1>4. IsFiniteSet(A) /\ Cardinality(A) \in Nat
    <2>1. A \in SUBSET Flight
      BY <1>1
    <2> QED
      BY <1>3, <2>1, FS_Subset, FS_CardinalityType
  <1>5. signSlots = Cardinality(A) /\ signSlots <= SignConcurrency
    BY DEF SlotsMatch
  <1>6. (f \in A <=> flight[f].step = "sign") /\ (f \in B <=> st.step = "sign")
    BY <1>1, <1>2
  <1>7. \A g \in Flight \ {f} : g \in A <=> g \in B
    BY <1>1, <1>2
  <1>8. A \subseteq Flight /\ B \subseteq Flight
    BY <1>1
  <1> HIDE DEF A, B
  <1>9. CASE f \notin A /\ f \in B
    <2>1. B = A \cup {f}
      BY <1>7, <1>8, <1>9
    <2>2. Cardinality(B) = Cardinality(A) + 1
      BY <1>4, <1>9, <2>1, FS_AddElement
    <2> QED
      BY <1>4, <1>5, <1>6, <1>9, <2>2, Limits DEF SlotsMatch, B
  <1>10. CASE f \in A /\ f \notin B
    <2>1. B = A \ {f}
      BY <1>7, <1>8, <1>10
    <2>2. Cardinality(B) = Cardinality(A) - 1
      BY <1>4, <1>10, <2>1, FS_RemoveElement
    <2> QED
      BY <1>4, <1>5, <1>6, <1>10, <2>2, Limits DEF SlotsMatch, B
  <1>11. CASE f \in A <=> f \in B
    <2>1. B = A
      BY <1>7, <1>8, <1>11
    <2> QED
      BY <1>5, <1>6, <1>11, <2>1 DEF SlotsMatch, B
  <1> QED
    BY <1>9, <1>10, <1>11

\* What a step of the flight's goroutine must respect for its waiters.
LEMMA FlightStep ==
  ASSUME IInv, NEW f \in Flight, NEW st \in FlightState,
         flight' = [flight EXCEPT ![f] = st], caller' = caller,
         \/ /\ flight[f].step # "unused" /\ st.step # "unused"
            /\ st.waiters = flight[f].waiters /\ st.domain = flight[f].domain
         \/ st = Unused /\ flight[f].waiters = {},
         st.canceled \/ st.result = Canceled => \A c \in st.waiters : caller[c].canceled,
         flights' \in [Domain -> Flight \cup {NoFlight}],
         \A d \in Domain : flights'[d] \in {flights[d], NoFlight},
         \A d \in Domain : flights'[d] = f =>
            /\ st.step \notin {"unused", "done"} /\ ~st.canceled /\ st.result # Canceled
  PROVE  /\ flight' \in [Flight -> FlightState]
         /\ \A g \in Flight : FlightFit(g)'
         /\ \A c \in Caller : CallerFit(c)'
         /\ \A d \in Domain : ListedFit(d)'
  <1>1. /\ Typed /\ \A g \in Flight : FlightFit(g)
        /\ \A c \in Caller : CallerFit(c)
        /\ \A d \in Domain : ListedFit(d)
    BY DEF IInv
  <1>2. flight \in [Flight -> FlightState]
    BY <1>1 DEF Typed
  <1>3. flight' \in [Flight -> FlightState] /\ flight'[f] = st
        /\ \A g \in Flight : g # f => flight'[g] = flight[g]
    BY <1>2
  <1>4. ASSUME NEW g \in Flight PROVE FlightFit(g)'
    <2>1. CASE g # f
      BY <1>1, <1>3, <2>1 DEF FlightFit
    <2>2. CASE g = f
      BY <1>1, <1>3, <2>2, Empties DEF FlightFit
    <2> QED
      BY <2>1, <2>2
  <1>5. ASSUME NEW c \in Caller PROVE CallerFit(c)'
    <2>1. CallerFit(c)
      BY <1>1
    <2>2. CASE caller[c].phase = "waiting" /\ caller[c].flight = f
      <3>1. c \in flight[f].waiters /\ f \in Flight
        BY <2>1, <2>2 DEF CallerFit
      <3> QED
        BY <1>3, <2>1, <2>2, <3>1 DEF CallerFit
    <2>3. CASE ~(caller[c].phase = "waiting" /\ caller[c].flight = f)
      BY <1>3, <2>1, <2>3 DEF CallerFit
    <2> QED
      BY <2>2, <2>3
  <1>6. ASSUME NEW d \in Domain PROVE ListedFit(d)'
    <2>1. CASE flights'[d] = NoFlight
      BY <2>1 DEF ListedFit
    <2>2. CASE flights'[d] # NoFlight
      <3>1. flights'[d] = flights[d] /\ flights[d] \in Flight
        BY <1>1, <2>2 DEF Typed
      <3>2. ListedFit(d)
        BY <1>1
      <3>3. CASE flights[d] = f
        BY <1>3, <2>2, <3>1, <3>2, <3>3, Empties DEF ListedFit
      <3>4. CASE flights[d] # f
        BY <1>3, <2>2, <3>1, <3>2, <3>4 DEF ListedFit
      <3> QED
        BY <3>3, <3>4
    <2> QED
      BY <2>1, <2>2
  <1> QED
    BY <1>3, <1>4, <1>5, <1>6

\* Such a step keeps the invariant if it also leaves the cache in order.
LEMMA RunKeeps ==
  ASSUME IInv, NEW f \in Flight, NEW st \in FlightState,
         flight' = [flight EXCEPT ![f] = st], caller' = caller,
         \/ /\ flight[f].step # "unused" /\ st.step # "unused"
            /\ st.waiters = flight[f].waiters /\ st.domain = flight[f].domain
         \/ st = Unused /\ flight[f].waiters = {},
         st.canceled \/ st.result = Canceled => \A c \in st.waiters : caller[c].canceled,
         flights' \in [Domain -> Flight \cup {NoFlight}],
         \A d \in Domain : flights'[d] \in {flights[d], NoFlight},
         \A d \in Domain : flights'[d] = f =>
            /\ st.step \notin {"unused", "done"} /\ ~st.canceled /\ st.result # Canceled,
         \/ /\ flight[f].step # "sign" /\ st.step = "sign"
            /\ signSlots < SignConcurrency /\ signSlots' = signSlots + 1
         \/ flight[f].step = "sign" /\ st.step # "sign" /\ signSlots' = signSlots - 1
         \/ (flight[f].step = "sign" <=> st.step = "sign") /\ signSlots' = signSlots,
         revision' = revision, rotating' = rotating, rotationEpoch' = rotationEpoch,
         cache' \in [Domain -> Revision \cup {Absent}], CacheFits', CacheIsCurrent'
  PROVE  IInv'
  <1>1. Typed /\ SlotsMatch
    BY DEF IInv
  <1>2. /\ flight' \in [Flight -> FlightState]
        /\ \A g \in Flight : FlightFit(g)'
        /\ \A c \in Caller : CallerFit(c)'
        /\ \A d \in Domain : ListedFit(d)'
    BY FlightStep
  <1>3. SlotsMatch'
    BY <1>1, SlotsStep
  <1>4. Typed'
    BY <1>1, <1>2 DEF Typed
  <1> QED
    BY <1>2, <1>3, <1>4, Zenon DEF IInv

\* A flight that leaves the map is in no entry of it.
LEMMA UnlistedFields ==
  ASSUME Typed, NEW f \in Flight
  PROVE  /\ Unlisted(f) \in [Domain -> Flight \cup {NoFlight}]
         /\ \A d \in Domain : Unlisted(f)[d] \in {flights[d], NoFlight} /\ Unlisted(f)[d] # f
  <1>1. f # NoFlight
    BY Limits DEF Flight, NoFlight
  <1> QED
    BY <1>1 DEF Typed, Unlisted

\* An unchanged cache stays in order.
LEMMA CacheUnchanged ==
  ASSUME IInv, cache' = cache, revision' = revision, rotating' = rotating
  PROVE  /\ cache' \in [Domain -> Revision \cup {Absent}] /\ CacheFits' /\ CacheIsCurrent'
  BY DEF IInv, Typed, CacheFits, Cached, CacheIsCurrent

\* The parts of the invariant that a step of flight f uses.
LEMMA FlightParts ==
  ASSUME IInv, NEW f \in Flight
  PROVE  /\ flight[f] \in FlightState /\ FlightFit(f) /\ Typed
         /\ flights \in [Domain -> Flight \cup {NoFlight}]
         /\ \A d \in Domain : flights[d] \in {flights[d], NoFlight}
         /\ \A d \in Domain : flights[d] = f =>
               /\ flight[f].step \notin {"unused", "done"} /\ ~flight[f].canceled
               /\ flight[f].result # Canceled
  <1>1. Typed /\ FlightFit(f) /\ \A d \in Domain : ListedFit(d)
    BY DEF IInv
  <1>2. f # NoFlight
    BY Limits DEF Flight, NoFlight
  <1> QED
    BY <1>1, <1>2 DEF Typed, ListedFit

\* A flight whose waiters are all canceled leaves the map and reports that.
LEMMA StopKeeps ==
  ASSUME IInv, NEW f \in Flight, Stop(f)
  PROVE  IInv'
  <1> DEFINE st == [Ended(f, Canceled) EXCEPT !.canceled = TRUE, !.revision = ""]
  <1>1. /\ flight[f].step \in {"begin", "look", "acquire", "commit"} /\ Stops(f)
        /\ flight' = [flight EXCEPT ![f] = st]
        /\ flights' = IF flight[f].canceled THEN flights ELSE Unlisted(f)
        /\ revision' = revision /\ rotating' = rotating /\ rotationEpoch' = rotationEpoch
        /\ cache' = cache /\ caller' = caller /\ signSlots' = signSlots
    BY DEF Stop, Set, signer
  <1>a. /\ flight[f] \in FlightState /\ FlightFit(f) /\ Typed
        /\ \A d \in Domain : flights[d] = f => ~flight[f].canceled
        /\ flights \in [Domain -> Flight \cup {NoFlight}]
    BY FlightParts
  <1>2. /\ st \in FlightState /\ st.step = "complete" /\ st.waiters = flight[f].waiters
        /\ st.domain = flight[f].domain
    BY <1>a, Limits DEF FlightState, Ended
  <1> HIDE DEF st
  <1>3. \A c \in st.waiters : caller[c].canceled
    BY <1>1, <1>2, <1>a DEF Stops, FlightFit
  <1>4. /\ flights' \in [Domain -> Flight \cup {NoFlight}]
        /\ \A d \in Domain : flights'[d] \in {flights[d], NoFlight} /\ flights'[d] # f
    BY <1>1, <1>a, UnlistedFields
  <1>5. cache' \in [Domain -> Revision \cup {Absent}] /\ CacheFits' /\ CacheIsCurrent'
    BY <1>1, CacheUnchanged
  <1> QED
    BY <1>1, <1>2, <1>3, <1>4, <1>5, RunKeeps

\* A step of the loop that touches neither the map, the cache nor the waiters.
LEMMA LoopKeeps ==
  ASSUME IInv, NEW f \in Flight, NEW st \in FlightState, flight' = [flight EXCEPT ![f] = st],
         flight[f].step # "unused", st.step \notin {"unused", "done"},
         st.waiters = flight[f].waiters, st.domain = flight[f].domain,
         st.canceled = flight[f].canceled,
         st.result = Canceled => flight[f].result = Canceled,
         UNCHANGED <<signer, cache, flights, caller>>,
         \/ /\ flight[f].step # "sign" /\ st.step = "sign"
            /\ signSlots < SignConcurrency /\ signSlots' = signSlots + 1
         \/ flight[f].step = "sign" /\ st.step # "sign" /\ signSlots' = signSlots - 1
         \/ (flight[f].step = "sign" <=> st.step = "sign") /\ signSlots' = signSlots
  PROVE  IInv'
  <1>1. /\ revision' = revision /\ rotating' = rotating /\ rotationEpoch' = rotationEpoch
        /\ cache' = cache /\ caller' = caller /\ flights' = flights
    BY DEF signer
  <1>2. /\ FlightFit(f) /\ flights \in [Domain -> Flight \cup {NoFlight}]
        /\ \A d \in Domain : flights[d] \in {flights[d], NoFlight}
        /\ \A d \in Domain : flights[d] = f => ~flight[f].canceled /\ flight[f].result # Canceled
    BY FlightParts
  <1>3. st.canceled \/ st.result = Canceled => \A c \in st.waiters : caller[c].canceled
    BY <1>2 DEF FlightFit
  <1>4. cache' \in [Domain -> Revision \cup {Absent}] /\ CacheFits' /\ CacheIsCurrent'
    BY <1>1, CacheUnchanged
  <1>5. /\ flights' \in [Domain -> Flight \cup {NoFlight}]
        /\ \A d \in Domain : flights'[d] \in {flights[d], NoFlight}
        /\ \A d \in Domain : flights'[d] = f =>
              /\ st.step \notin {"unused", "done"} /\ ~st.canceled /\ st.result # Canceled
    BY <1>1, <1>2
  <1> QED
    BY <1>1, <1>3, <1>4, <1>5, RunKeeps

\* What Ended keeps of a flight.
LEMMA EndedFields ==
  ASSUME NEW f \in Flight, flight[f] \in FlightState, NEW r \in Revision \cup {Failed}
  PROVE  /\ Ended(f, r) \in FlightState /\ Ended(f, r).step = "complete" /\ Ended(f, r).result = r
         /\ Ended(f, r).waiters = flight[f].waiters /\ Ended(f, r).domain = flight[f].domain
         /\ Ended(f, r).canceled = flight[f].canceled /\ r # Canceled
  <1>1. r # Canceled
    BY IssuerAssumption DEF Canceled, Failed
  <1> QED
    BY <1>1, Limits DEF Ended, FlightState

\* The loop reads the signer, and ends when there is none.
LEMMA BeginKeeps ==
  ASSUME IInv, NEW f \in Flight, Begin(f)
  PROVE  IInv'
  <1> DEFINE st == IF revision = "" THEN Ended(f, Failed)
                   ELSE [flight[f] EXCEPT !.step = "look", !.revision = revision]
  <1>1. /\ flight[f].step = "begin" /\ flight' = [flight EXCEPT ![f] = st]
        /\ UNCHANGED <<signer, cache, flights, caller>> /\ signSlots' = signSlots
    BY DEF Begin, Set
  <1>2. flight[f] \in FlightState /\ revision \in Revision \cup {""}
    BY FlightParts DEF Typed
  <1>3. /\ st \in FlightState /\ st.step \in {"complete", "look"}
        /\ st.waiters = flight[f].waiters /\ st.domain = flight[f].domain
        /\ st.canceled = flight[f].canceled /\ (st.result = Canceled => flight[f].result = Canceled)
    <2>1. CASE revision = ""
      BY <1>2, <2>1, EndedFields, ZenonT(40)
    <2>2. CASE revision # ""
      BY <1>2, <2>2 DEF FlightState
    <2> QED
      BY <2>1, <2>2
  <1> HIDE DEF st
  <1> QED
    BY <1>1, <1>3, LoopKeeps

\* The loop reads the epoch, and ends when the cache has the certificate.
LEMMA LookKeeps ==
  ASSUME IInv, NEW f \in Flight, Look(f)
  PROVE  IInv'
  <1> DEFINE st == IF ValidEntry(flight[f].domain, flight[f].revision)
                   THEN Ended(f, flight[f].revision)
                   ELSE [flight[f] EXCEPT !.step = "acquire", !.epoch = rotationEpoch]
  <1>1. /\ flight[f].step = "look" /\ flight' = [flight EXCEPT ![f] = st]
        /\ UNCHANGED <<signer, cache, flights, caller>> /\ signSlots' = signSlots
    BY DEF Look, Set
  <1>2. flight[f] \in FlightState /\ rotationEpoch \in 0 .. MaxRotations
    BY FlightParts DEF Typed
  <1>3. /\ st \in FlightState /\ st.step \in {"complete", "acquire"}
        /\ st.waiters = flight[f].waiters /\ st.domain = flight[f].domain
        /\ st.canceled = flight[f].canceled /\ (st.result = Canceled => flight[f].result = Canceled)
    <2>1. CASE ValidEntry(flight[f].domain, flight[f].revision)
      <3>1. flight[f].revision \in Revision
        BY <1>2, <2>1 DEF ValidEntry, FlightState
      <3> QED
        BY <1>2, <2>1, <3>1, EndedFields
    <2>2. CASE ~ValidEntry(flight[f].domain, flight[f].revision)
      BY <1>2, <2>2 DEF FlightState
    <2> QED
      BY <2>1, <2>2
  <1> HIDE DEF st
  <1> QED
    BY <1>1, <1>3, LoopKeeps

\* A signing slot is taken for SignDNS.
LEMMA AcquireKeeps ==
  ASSUME IInv, NEW f \in Flight, Acquire(f)
  PROVE  IInv'
  <1> DEFINE st == [flight[f] EXCEPT !.step = "sign"]
  <1>1. /\ flight[f].step = "acquire" /\ flight' = [flight EXCEPT ![f] = st]
        /\ signSlots < SignConcurrency /\ signSlots' = signSlots + 1
        /\ UNCHANGED <<signer, cache, flights, caller>>
    BY DEF Acquire, Set
  <1>2. flight[f] \in FlightState
    BY FlightParts
  <1>3. /\ st \in FlightState /\ st.step = "sign" /\ st.waiters = flight[f].waiters
        /\ st.domain = flight[f].domain /\ st.canceled = flight[f].canceled
        /\ st.result = flight[f].result
    BY <1>2 DEF FlightState
  <1> HIDE DEF st
  <1> QED
    BY <1>1, <1>3, LoopKeeps

\* The slot is given back whether SignDNS failed or not.
LEMMA SignDNSKeeps ==
  ASSUME IInv, NEW f \in Flight, NEW generated \in Revision \cup {Failed}, SignDNS(f, generated)
  PROVE  IInv'
  <1> DEFINE st == [flight[f] EXCEPT !.step = "commit", !.generated = generated]
  <1>1. /\ flight[f].step = "sign" /\ flight' = [flight EXCEPT ![f] = st]
        /\ signSlots' = signSlots - 1
        /\ UNCHANGED <<signer, cache, flights, caller>>
    BY DEF SignDNS, Set
  <1>2. flight[f] \in FlightState
    BY FlightParts
  <1>3. /\ st \in FlightState /\ st.step = "commit" /\ st.waiters = flight[f].waiters
        /\ st.domain = flight[f].domain /\ st.canceled = flight[f].canceled
        /\ st.result = flight[f].result
    BY <1>2 DEF FlightState
  <1> HIDE DEF st
  <1> QED
    BY <1>1, <1>3, LoopKeeps

\* A new entry evicts another one when the cache is full.
LEMMA StoreKeeps ==
  ASSUME IInv, NEW d \in Domain, NEW r \in Revision, Store(d, r),
         r = revision, revision' = revision, rotating' = rotating
  PROVE  /\ cache' \in [Domain -> Revision \cup {Absent}] /\ CacheFits' /\ CacheIsCurrent'
  <1>1. Typed /\ CacheFits /\ CacheIsCurrent
    BY DEF IInv
  <1>2. /\ cache \in [Domain -> Revision \cup {Absent}]
        /\ IsFiniteSet(Cached) /\ Cardinality(Cached) \in Nat /\ Cached \subseteq Domain
    <2>1. Cached \in SUBSET Domain /\ IsFiniteSet(Domain)
      BY IssuerAssumption DEF Cached
    <2> QED
      BY <1>1, <2>1, FS_Subset, FS_CardinalityType DEF Typed
  <1>3. r # Absent /\ Cached' = {e \in Domain : cache'[e] # Absent}
    BY IssuerAssumption DEF Cached, Absent
  <1>4. CASE cache[d] = Absent /\ Cardinality(Cached) >= CacheMaxEntries
    <2>1. PICK victim \in Cached : cache' = [cache EXCEPT ![victim] = Absent, ![d] = r]
      BY <1>4 DEF Store
    <2>2. victim \in Domain /\ victim # d /\ d \notin Cached
      BY <1>2, <1>4 DEF Cached
    <2>3. /\ cache' \in [Domain -> Revision \cup {Absent}]
          /\ \A e \in Domain : cache'[e] = IF e = d THEN r ELSE IF e = victim THEN Absent ELSE cache[e]
      BY <1>2, <2>1, <2>2
    <2>4. Cached' = (Cached \ {victim}) \cup {d}
      BY <1>3, <2>2, <2>3 DEF Cached
    <2>5. IsFiniteSet(Cached \ {victim}) /\ Cardinality(Cached \ {victim}) = Cardinality(Cached) - 1
      BY <1>2, FS_RemoveElement
    <2>6. Cardinality((Cached \ {victim}) \cup {d}) = Cardinality(Cached \ {victim}) + 1
      BY <2>2, <2>5, FS_AddElement
    <2>7. Cardinality(Cached') = Cardinality(Cached)
      BY <1>2, <2>4, <2>5, <2>6
    <2> QED
      BY <1>1, <2>3, <2>7, Limits DEF CacheFits, CacheIsCurrent
  <1>5. CASE ~(cache[d] = Absent /\ Cardinality(Cached) >= CacheMaxEntries)
    <2>1. cache' = [cache EXCEPT ![d] = r]
      BY <1>5 DEF Store
    <2>2. /\ cache' \in [Domain -> Revision \cup {Absent}]
          /\ \A e \in Domain : cache'[e] = IF e = d THEN r ELSE cache[e]
      BY <1>2, <2>1
    <2>3. Cached' = Cached \cup {d}
      BY <1>3, <2>2 DEF Cached
    <2>4. Cardinality(Cached') = IF d \in Cached THEN Cardinality(Cached) ELSE Cardinality(Cached) + 1
      BY <1>2, <2>3, FS_AddElement
    <2>5. d \notin Cached => Cardinality(Cached) < CacheMaxEntries
      <3>1. ASSUME d \notin Cached PROVE Cardinality(Cached) < CacheMaxEntries
        <4>1. cache[d] = Absent
          BY <3>1 DEF Cached
        <4> QED
          BY <1>2, <1>5, <4>1, Limits
      <3> QED
        BY <3>1
    <2>6. CacheFits'
      BY <1>1, <1>2, <2>4, <2>5, Limits DEF CacheFits
    <2> QED
      BY <1>1, <2>2, <2>6 DEF CacheIsCurrent
  <1> QED
    BY <1>4, <1>5

\* The commit repeats the loop, fails, or stores what the current signer signed.
LEMMA CommitKeeps ==
  ASSUME IInv, NEW f \in Flight, Commit(f)
  PROVE  IInv'
  <1>1. /\ flight[f].step = "commit"
        /\ UNCHANGED <<signer, flights, caller, signSlots>>
    BY DEF Commit
  <1>2. /\ flight[f] \in FlightState /\ FlightFit(f) /\ Typed
        /\ flights \in [Domain -> Flight \cup {NoFlight}]
        /\ \A d \in Domain : flights[d] \in {flights[d], NoFlight}
        /\ \A d \in Domain : flights[d] = f => ~flight[f].canceled /\ flight[f].result # Canceled
    BY FlightParts
  <1>3. CASE Superseded(f) /\ cache' = cache
             /\ Set(f, [flight[f] EXCEPT !.step = "begin", !.revision = "", !.epoch = 0,
                                         !.generated = Absent])
    <2> DEFINE st == [flight[f] EXCEPT !.step = "begin", !.revision = "", !.epoch = 0,
                                       !.generated = Absent]
    <2>1. /\ st \in FlightState /\ st.step = "begin" /\ st.waiters = flight[f].waiters
          /\ st.domain = flight[f].domain /\ st.canceled = flight[f].canceled
          /\ st.result = flight[f].result
      BY <1>2, Limits DEF FlightState
    <2>2. flight' = [flight EXCEPT ![f] = st]
      BY <1>3 DEF Set
    <2> HIDE DEF st
    <2> QED
      BY <1>1, <1>3, <2>1, <2>2, LoopKeeps
  <1>4. CASE cache' = cache /\ Set(f, Ended(f, Failed))
    <2>1. /\ Ended(f, Failed) \in FlightState /\ Ended(f, Failed).step = "complete"
          /\ Ended(f, Failed).result # Canceled
          /\ Ended(f, Failed).waiters = flight[f].waiters
          /\ Ended(f, Failed).domain = flight[f].domain
          /\ Ended(f, Failed).canceled = flight[f].canceled
      BY <1>2, EndedFields
    <2>2. flight' = [flight EXCEPT ![f] = Ended(f, Failed)]
      BY <1>4 DEF Set
    <2> QED
      BY <1>1, <1>4, <2>1, <2>2, LoopKeeps
  <1>5. CASE /\ ~Superseded(f) /\ flight[f].generated = flight[f].revision
             /\ Set(f, Ended(f, flight[f].generated))
             /\ Store(flight[f].domain, flight[f].generated)
    <2> DEFINE r == flight[f].generated
               st == Ended(f, r)
    <2>1. r \in Revision /\ r = revision /\ flight[f].domain \in Domain
      <3>1. flight[f].generated \in Revision \cup {Failed, Absent}
            /\ flight[f].revision \in Revision \cup {""}
        BY <1>2 DEF FlightState
      <3>2. "" \notin {Failed, Absent}
        BY DEF Failed, Absent
      <3> QED
        BY <1>1, <1>2, <1>5, <3>1, <3>2 DEF Superseded, FlightFit
    <2>2. /\ st \in FlightState /\ st.step = "complete" /\ st.result # Canceled
          /\ st.waiters = flight[f].waiters /\ st.domain = flight[f].domain
          /\ st.canceled = flight[f].canceled
      BY <1>2, <2>1, EndedFields
    <2>3. /\ flight' = [flight EXCEPT ![f] = st]
          /\ revision' = revision /\ rotating' = rotating /\ rotationEpoch' = rotationEpoch
          /\ caller' = caller /\ flights' = flights /\ signSlots' = signSlots
      BY <1>1, <1>5 DEF Set, signer
    <2>4. cache' \in [Domain -> Revision \cup {Absent}] /\ CacheFits' /\ CacheIsCurrent'
      BY <1>5, <2>1, <2>3, StoreKeeps
    <2> HIDE DEF st, r
    <2>5. st.canceled \/ st.result = Canceled => \A c \in st.waiters : caller[c].canceled
      BY <1>2, <2>2 DEF FlightFit
    <2>6. /\ flights' \in [Domain -> Flight \cup {NoFlight}]
          /\ \A d \in Domain : flights'[d] \in {flights[d], NoFlight}
          /\ \A d \in Domain : flights'[d] = f =>
                /\ st.step \notin {"unused", "done"} /\ ~st.canceled /\ st.result # Canceled
      BY <1>2, <2>2, <2>3
    <2> QED
      BY <1>1, <2>2, <2>3, <2>4, <2>5, <2>6, RunKeeps
  <1> QED
    BY <1>3, <1>4, <1>5, Zenon DEF Commit

\* completeCertificateFlight takes the flight off the map.
LEMMA CompleteKeeps ==
  ASSUME IInv, NEW f \in Flight, Complete(f)
  PROVE  IInv'
  <1> DEFINE ended == [flight[f] EXCEPT !.step = "done"]
             st == Collected(ended)
  <1>1. /\ flight[f].step = "complete" /\ flight' = [flight EXCEPT ![f] = st]
        /\ flights' = Unlisted(f)
        /\ revision' = revision /\ rotating' = rotating /\ rotationEpoch' = rotationEpoch
        /\ cache' = cache /\ caller' = caller /\ signSlots' = signSlots
    BY DEF Complete, Set, signer
  <1>2. flight[f] \in FlightState /\ FlightFit(f) /\ Typed
    BY FlightParts
  <1>3. /\ ended \in FlightState /\ ended.step = "done" /\ ended.waiters = flight[f].waiters
        /\ ended.domain = flight[f].domain /\ ended.canceled = flight[f].canceled
        /\ ended.result = flight[f].result
    BY <1>2 DEF FlightState
  <1> HIDE DEF ended
  <1>4. /\ st \in FlightState /\ st.step # "sign"
        /\ \/ st = ended \/ (st = Unused /\ flight[f].waiters = {})
    BY <1>3, Empties DEF Collected
  <1> HIDE DEF st
  <1>5. st.canceled \/ st.result = Canceled => \A c \in st.waiters : caller[c].canceled
    BY <1>2, <1>3, <1>4, Empties DEF FlightFit
  <1>6. \/ /\ flight[f].step # "unused" /\ st.step # "unused"
           /\ st.waiters = flight[f].waiters /\ st.domain = flight[f].domain
        \/ st = Unused /\ flight[f].waiters = {}
    BY <1>1, <1>3, <1>4
  <1>7. /\ flights' \in [Domain -> Flight \cup {NoFlight}]
        /\ \A d \in Domain : flights'[d] \in {flights[d], NoFlight} /\ flights'[d] # f
    BY <1>1, <1>2, UnlistedFields
  <1>8. cache' \in [Domain -> Revision \cup {Absent}] /\ CacheFits' /\ CacheIsCurrent'
    BY <1>1, CacheUnchanged
  <1> QED
    BY <1>1, <1>4, <1>5, <1>6, <1>7, <1>8, RunKeeps

-----------------------------------------------------------------------------
(* Steps of the signer, the cache and the callers *)

\* The flights and the callers are as they were.
LEMMA SignerStep ==
  ASSUME IInv, flights' = flights, flight' = flight, caller' = caller, signSlots' = signSlots
  PROVE  /\ \A f \in Flight : FlightFit(f)'
         /\ \A c \in Caller : CallerFit(c)'
         /\ \A d \in Domain : ListedFit(d)'
         /\ SlotsMatch'
  BY SMTT(40) DEF IInv, FlightFit, CallerFit, ListedFit, SlotsMatch, Signing

\* A new signer is stored; its handler is still to run.
LEMMA RotateKeeps ==
  ASSUME IInv, NEW r \in Revision \cup {""}, Rotate(r)
  PROVE  IInv'
  <1>1. Typed /\ SlotsMatch /\ CacheFits /\ CacheIsCurrent
    BY DEF IInv
  <1>2. flights' = flights /\ flight' = flight /\ caller' = caller /\ signSlots' = signSlots
    BY DEF Rotate
  <1>3. /\ \A f \in Flight : FlightFit(f)'
        /\ \A c \in Caller : CallerFit(c)'
        /\ \A d \in Domain : ListedFit(d)'
        /\ SlotsMatch'
    BY <1>2, SignerStep
  <1>4. /\ revision' \in Revision \cup {""} /\ rotating' = TRUE /\ cache' = cache
        /\ rotationEpoch' = rotationEpoch /\ rotationEpoch < MaxRotations
    BY DEF Rotate
  <1>5. Typed'
    BY <1>1, <1>2, <1>4 DEF Typed
  <1>6. CacheFits' /\ CacheIsCurrent'
    BY <1>1, <1>4 DEF CacheFits, Cached, CacheIsCurrent
  <1> QED
    BY <1>3, <1>5, <1>6 DEF IInv

\* The handler empties the cache.
LEMMA HandleRotationKeeps ==
  ASSUME IInv, HandleRotation
  PROVE  IInv'
  <1>1. Typed /\ SlotsMatch /\ CacheFits /\ CacheIsCurrent
    BY DEF IInv
  <1>2. flights' = flights /\ flight' = flight /\ caller' = caller /\ signSlots' = signSlots
    BY DEF HandleRotation
  <1>3. /\ \A f \in Flight : FlightFit(f)'
        /\ \A c \in Caller : CallerFit(c)'
        /\ \A d \in Domain : ListedFit(d)'
        /\ SlotsMatch'
    BY <1>2, SignerStep
  <1>4. /\ rotating /\ rotating' = FALSE /\ rotationEpoch' = rotationEpoch + 1
        /\ cache' = [d \in Domain |-> Absent] /\ revision' = revision
    BY DEF HandleRotation
  <1>5. rotationEpoch' \in 0 .. MaxRotations
    <2>1. rotationEpoch \in 0 .. MaxRotations /\ rotationEpoch < MaxRotations
      BY <1>1, <1>4 DEF Typed
    <2>2. MaxRotations \in Nat
      BY Limits
    <2> QED
      BY <1>4, <2>1, <2>2
  <1>6. Typed'
    BY <1>1, <1>2, <1>4, <1>5 DEF Typed
  <1>7. Cached' = {}
    BY <1>4 DEF Cached
  <1>8. CacheFits'
    <2>1. Cardinality({}) = 0 /\ CacheMaxEntries \in Nat
      BY FS_EmptySet, Limits
    <2>2. 0 <= CacheMaxEntries
      BY <2>1
    <2> QED
      BY <1>7, <2>1, <2>2 DEF CacheFits
  <1>9. CacheIsCurrent'
    BY <1>4 DEF CacheIsCurrent
  <1> QED
    BY <1>3, <1>6, <1>8, <1>9 DEF IInv

\* An entry expires.
LEMMA ReapKeeps ==
  ASSUME IInv, NEW d \in Domain, Reap(d)
  PROVE  IInv'
  <1>1. Typed /\ SlotsMatch /\ CacheFits /\ CacheIsCurrent
    BY DEF IInv
  <1>2. flights' = flights /\ flight' = flight /\ caller' = caller /\ signSlots' = signSlots
    BY DEF Reap
  <1>3. /\ \A f \in Flight : FlightFit(f)'
        /\ \A c \in Caller : CallerFit(c)'
        /\ \A e \in Domain : ListedFit(e)'
        /\ SlotsMatch'
    BY <1>2, SignerStep
  <1>4. /\ cache' = [cache EXCEPT ![d] = Absent] /\ revision' = revision
        /\ rotating' = rotating /\ rotationEpoch' = rotationEpoch
    BY DEF Reap, signer
  <1>5. /\ cache' \in [Domain -> Revision \cup {Absent}]
        /\ \A e \in Domain : cache'[e] = IF e = d THEN Absent ELSE cache[e]
    BY <1>1, <1>4 DEF Typed
  <1>6. Typed'
    BY <1>1, <1>2, <1>4, <1>5 DEF Typed
  <1>7. CacheIsCurrent'
    BY <1>1, <1>4, <1>5 DEF CacheIsCurrent
  <1>8. Cached' \in SUBSET Cached
    BY <1>5 DEF Cached
  <1>9. IsFiniteSet(Cached)
    <2>1. Cached \in SUBSET Domain /\ IsFiniteSet(Domain)
      BY IssuerAssumption DEF Cached
    <2> QED
      BY <2>1, FS_Subset
  <1>10. Cardinality(Cached') <= Cardinality(Cached) /\ IsFiniteSet(Cached')
    BY <1>8, <1>9, FS_Subset
  <1>11. Cardinality(Cached) \in Nat /\ Cardinality(Cached') \in Nat
    BY <1>9, <1>10, FS_CardinalityType
  <1>12. CacheFits'
    <2>1. CacheMaxEntries \in Nat /\ Cardinality(Cached) <= CacheMaxEntries
      BY <1>1, Limits DEF CacheFits
    <2>2. Cardinality(Cached') <= CacheMaxEntries
      BY <1>10, <1>11, <2>1
    <2> QED
      BY <2>2 DEF CacheFits
  <1> QED
    BY <1>3, <1>6, <1>7, <1>12 DEF IInv

\* What a step of a call does outside a flight.
LEMMA CallerStep ==
  ASSUME IInv, NEW c \in Caller, NEW call \in CallerState, caller' = [caller EXCEPT ![c] = call],
         UNCHANGED <<signer, cache, flights, flight, signSlots>>,
         call.phase = "called" => call.domain \in Domain,
         \/ caller[c].phase # "waiting" /\ call.phase # "waiting"
         \/ /\ call.phase = caller[c].phase /\ call.flight = caller[c].flight
            /\ call.domain = caller[c].domain /\ (caller[c].canceled => call.canceled)
  PROVE  IInv'
  <1>1. /\ Typed /\ SlotsMatch /\ CacheFits /\ CacheIsCurrent
        /\ \A f \in Flight : FlightFit(f)
        /\ \A e \in Caller : CallerFit(e)
        /\ \A d \in Domain : ListedFit(d)
    BY DEF IInv
  <1>2. /\ revision' = revision /\ rotating' = rotating /\ rotationEpoch' = rotationEpoch
        /\ cache' = cache /\ flights' = flights /\ flight' = flight /\ signSlots' = signSlots
    BY DEF signer
  <1>3. /\ caller' \in [Caller -> CallerState] /\ caller'[c] = call
        /\ \A e \in Caller : e # c => caller'[e] = caller[e]
    BY <1>1 DEF Typed
  <1>4. Typed' /\ SlotsMatch' /\ CacheFits' /\ CacheIsCurrent'
    BY <1>1, <1>2, <1>3, ZenonT(40) DEF Typed, SlotsMatch, Signing, CacheFits, Cached, CacheIsCurrent
  <1>5. ASSUME NEW f \in Flight PROVE FlightFit(f)'
    <2>1. flight[f].waiters \subseteq Caller
      BY <1>1 DEF Typed, FlightState
    <2>2. FlightFit(f)
      BY <1>1
    <2> QED
      BY <1>2, <1>3, <2>1, <2>2, SMTT(40) DEF FlightFit
  <1>6. ASSUME NEW e \in Caller PROVE CallerFit(e)'
    <2>1. CallerFit(e)
      BY <1>1
    <2> QED
      BY <1>2, <1>3, <2>1 DEF CallerFit
  <1>7. ASSUME NEW d \in Domain PROVE ListedFit(d)'
    BY <1>1, <1>2 DEF ListedFit
  <1> QED
    BY <1>4, <1>5, <1>6, <1>7 DEF IInv

\* A call begins, its context ends, or it returns at once.
LEMMA CallKeeps ==
  ASSUME IInv, NEW c \in Caller,
         (\E d \in Domain : Call(c, d)) \/ Cancel(c) \/ ReturnAtOnce(c)
  PROVE  IInv'
  <1>1. caller[c] \in CallerState /\ CallerFit(c) /\ revision \in Revision \cup {""} /\ caller \in [Caller -> CallerState]
    BY DEF IInv, Typed
  <1>2. ASSUME NEW d \in Domain, Call(c, d) PROVE IInv'
    <2> DEFINE call == [Idle EXCEPT !.phase = "called", !.domain = d, !.revision = revision]
    <2>1. /\ caller[c] = Idle /\ caller' = [caller EXCEPT ![c] = call]
          /\ UNCHANGED <<signer, cache, flights, flight, signSlots>>
      BY <1>2 DEF Call
    <2>2. call \in CallerState /\ call.phase = "called" /\ call.domain = d
      BY <1>1 DEF CallerState, Idle
    <2>3. caller[c].phase # "waiting"
      BY <2>1, Empties
    <2> HIDE DEF call
    <2> QED
      BY <2>1, <2>2, <2>3, CallerStep
  <1>3. CASE Cancel(c)
    <2> DEFINE call == [caller[c] EXCEPT !.canceled = TRUE]
    <2>1. /\ caller' = [caller EXCEPT ![c] = call]
          /\ UNCHANGED <<signer, cache, flights, flight, signSlots>>
      BY <1>3 DEF Cancel
    <2>2. /\ call \in CallerState /\ call.phase = caller[c].phase /\ call.flight = caller[c].flight
          /\ call.domain = caller[c].domain /\ call.canceled = TRUE
      BY <1>1 DEF CallerState
    <2> HIDE DEF call
    <2>3. call.phase = "called" => call.domain \in Domain
      BY <1>1, <2>2 DEF CallerFit
    <2> QED
      BY <2>1, <2>2, <2>3, CallerStep
  <1>4. CASE ReturnAtOnce(c)
    <2>1. /\ caller[c].phase = "called" /\ caller' = [caller EXCEPT ![c] = Returned]
          /\ UNCHANGED <<signer, cache, flights, flight, signSlots>>
      BY <1>4 DEF ReturnAtOnce
    <2>2. Returned \in CallerState /\ Returned.phase \notin {"called", "waiting"}
      BY Empties
    <2> QED
      BY <2>1, <2>2, CallerStep
  <1> QED
    BY <1>2, <1>3, <1>4

\* A caller joins the flight of its domain or starts one.
LEMMA JoinFlightKeeps ==
  ASSUME IInv, NEW c \in Caller, JoinFlight(c)
  PROVE  IInv'
  <1> DEFINE d == caller[c].domain
  <1>1. /\ Typed /\ SlotsMatch /\ CacheFits /\ CacheIsCurrent
        /\ \A f \in Flight : FlightFit(f)
        /\ \A e \in Caller : CallerFit(e)
        /\ \A e \in Domain : ListedFit(e)
    BY DEF IInv
  <1>2. /\ caller[c].phase = "called"
        /\ revision' = revision /\ rotating' = rotating /\ rotationEpoch' = rotationEpoch
        /\ cache' = cache /\ signSlots' = signSlots
    BY DEF JoinFlight, signer
  <1>3. PICK f \in Flight :
         /\ IF flights[d] # NoFlight THEN f = flights[d]
            ELSE flight[f] = Unused /\ \A g \in 1 .. f - 1 : flight[g] # Unused
         /\ flights' = [flights EXCEPT ![d] = f]
         /\ flight' = [flight EXCEPT ![f].domain = d, ![f].waiters = @ \cup {c},
                         ![f].step = IF flight[f].waiters = {} THEN "begin" ELSE @]
         /\ caller' = [caller EXCEPT ![c].phase = "waiting", ![c].flight = f]
    BY Zenon DEF JoinFlight
  <1>4. /\ d \in Domain /\ caller[c] \in CallerState /\ flight[f] \in FlightState /\ f # NoFlight
        /\ flight \in [Flight -> FlightState] /\ caller \in [Caller -> CallerState]
        /\ flights \in [Domain -> Flight \cup {NoFlight}]
    <2>1. f # NoFlight
      BY Limits DEF Flight, NoFlight
    <2> QED
      BY <1>1, <1>2, <2>1 DEF Typed, CallerFit
  <1> DEFINE st == [flight[f] EXCEPT !.domain = d, !.waiters = flight[f].waiters \cup {c},
                      !.step = IF flight[f].waiters = {} THEN "begin" ELSE flight[f].step]
             call == [caller[c] EXCEPT !.phase = "waiting", !.flight = f]
  <1>5. flight' = [flight EXCEPT ![f] = st] /\ caller' = [caller EXCEPT ![c] = call]
    BY <1>3, <1>4
  <1>6. /\ st \in FlightState /\ st.domain = d /\ st.waiters = flight[f].waiters \cup {c}
        /\ st.step = (IF flight[f].waiters = {} THEN "begin" ELSE flight[f].step)
        /\ st.canceled = flight[f].canceled /\ st.result = flight[f].result
    BY <1>4 DEF FlightState
  <1>7. /\ call \in CallerState /\ call.phase = "waiting" /\ call.flight = f /\ call.domain = d
    BY <1>4 DEF CallerState
  <1>8. \/ /\ flights[d] = f /\ flight[f].domain = d /\ flight[f].step \notin {"unused", "done"}
           /\ flight[f].waiters # {} /\ ~flight[f].canceled /\ flight[f].result # Canceled
        \/ flights[d] = NoFlight /\ flight[f] = Unused
    BY <1>1, <1>3, <1>4 DEF ListedFit
  <1> HIDE DEF d, st, call
  <1>9. /\ flight' \in [Flight -> FlightState] /\ flight'[f] = st
        /\ \A g \in Flight : g # f => flight'[g] = flight[g]
        /\ caller' \in [Caller -> CallerState] /\ caller'[c] = call
        /\ \A e \in Caller : e # c => caller'[e] = caller[e]
    BY <1>4, <1>5, <1>6, <1>7
  <1>10. /\ flights' \in [Domain -> Flight \cup {NoFlight}] /\ flights'[d] = f
         /\ \A e \in Domain : e # d => flights'[e] = flights[e]
    BY <1>3, <1>4
  <1>11. ~st.canceled /\ st.result # Canceled /\ st.step \notin {"unused", "done"}
         /\ (flight[f].step = "sign" <=> st.step = "sign")
    <2>1. Absent # Canceled
      BY DEF Absent, Canceled
    <2> QED
      BY <1>6, <1>8, <2>1, Empties
  <1>12. ASSUME NEW g \in Flight PROVE FlightFit(g)'
    <2>1. FlightFit(g) /\ flight[g].waiters \subseteq Caller /\ c \notin flight[g].waiters
      BY <1>1, <1>2 DEF Typed, FlightState, FlightFit
    <2>2. CASE g # f
      BY <1>9, <2>1, <2>2 DEF FlightFit
    <2>3. CASE g = f
      BY <1>4, <1>6, <1>7, <1>9, <1>11, <2>1, <2>3, SMTT(40) DEF FlightFit
    <2> QED
      BY <2>2, <2>3
  <1>13. ASSUME NEW e \in Caller PROVE CallerFit(e)'
    <2>1. CASE e = c
      BY <1>6, <1>7, <1>9, <1>11, <2>1 DEF CallerFit
    <2>2. CASE e # c
      <3>1. CallerFit(e)
        BY <1>1
      <3>2. CASE caller[e].phase = "waiting" /\ caller[e].flight = f
        <4>1. e \in flight[f].waiters /\ flight[f].domain = caller[e].domain /\ flight[f].step # "unused"
          BY <3>1, <3>2 DEF CallerFit
        <4>2. flight[f].domain = d
          BY <1>8, <4>1, Empties
        <4> QED
          BY <1>6, <1>9, <1>11, <2>2, <3>2, <4>1, <4>2 DEF CallerFit
      <3>3. CASE ~(caller[e].phase = "waiting" /\ caller[e].flight = f)
        BY <1>9, <2>2, <3>1, <3>3 DEF CallerFit
      <3> QED
        BY <3>2, <3>3
    <2> QED
      BY <2>1, <2>2
  <1>14. ASSUME NEW e \in Domain PROVE ListedFit(e)'
    <2>1. CASE e = d
      BY <1>6, <1>9, <1>10, <1>11, <2>1 DEF ListedFit
    <2>2. CASE e # d
      <3>1. ListedFit(e) /\ flights'[e] = flights[e] /\ flights[e] \in Flight \cup {NoFlight}
        BY <1>1, <1>4, <1>10, <2>2
      <3>2. flights[e] # f
        BY <1>4, <1>8, <2>2, <3>1, Empties DEF ListedFit
      <3> QED
        BY <1>9, <3>1, <3>2 DEF ListedFit
    <2> QED
      BY <2>1, <2>2
  <1>15. SlotsMatch'
    BY <1>1, <1>2, <1>5, <1>11, SlotsStep
  <1>16. Typed' /\ CacheFits' /\ CacheIsCurrent'
    BY <1>1, <1>2, <1>9, <1>10 DEF Typed, CacheFits, Cached, CacheIsCurrent
  <1> QED
    BY <1>12, <1>13, <1>14, <1>15, <1>16 DEF IInv

\* releaseCertificateWaiter cancels the flight with its last waiter only.
LEMMA LeaveKeeps ==
  ASSUME IInv, NEW c \in Caller, Leave(c)
  PROVE  IInv'
  <1> DEFINE f == caller[c].flight
             left == flight[f].waiters \ {c}
             abandoned == left = {} /\ flight[f].step # "done"
             state == [flight[f] EXCEPT !.waiters = left,
                                        !.canceled = flight[f].canceled \/ abandoned]
             st == Collected(state)
  <1>1. /\ Typed /\ SlotsMatch /\ CacheFits /\ CacheIsCurrent
        /\ \A g \in Flight : FlightFit(g)
        /\ \A e \in Caller : CallerFit(e)
        /\ \A e \in Domain : ListedFit(e)
    BY DEF IInv
  <1>2. /\ caller[c].phase = "waiting"
        /\ flight' = [flight EXCEPT ![f] = st]
        /\ flights' = IF abandoned THEN Unlisted(f) ELSE flights
        /\ caller' = [caller EXCEPT ![c] = Returned]
        /\ revision' = revision /\ rotating' = rotating /\ rotationEpoch' = rotationEpoch
        /\ cache' = cache /\ signSlots' = signSlots
    <2>1. /\ caller[c].phase = "waiting" /\ caller' = [caller EXCEPT ![c] = Returned]
          /\ flights' = IF abandoned THEN Unlisted(f) ELSE flights
          /\ UNCHANGED <<signer, cache, signSlots>>
      BY Zenon DEF Leave
    <2>2. flight' = [flight EXCEPT ![f] = st]
      BY Zenon DEF Leave
    <2> QED
      BY <2>1, <2>2 DEF signer
  <1>3. /\ f \in Flight /\ c \in flight[f].waiters /\ flight[f] \in FlightState /\ f # NoFlight
        /\ flight[f].step # "unused"
        /\ flight \in [Flight -> FlightState] /\ caller \in [Caller -> CallerState]
        /\ flights \in [Domain -> Flight \cup {NoFlight}]
    <2>1. f \in Flight /\ c \in flight[f].waiters /\ flight[f].step # "unused"
      BY <1>1, <1>2 DEF CallerFit
    <2>2. f # NoFlight
      BY <2>1, Limits DEF Flight, NoFlight
    <2> QED
      BY <1>1, <2>1, <2>2 DEF Typed
  <1>4. /\ state \in FlightState /\ state.waiters = left /\ state.domain = flight[f].domain
        /\ state.step = flight[f].step /\ state.result = flight[f].result
        /\ state.canceled = (flight[f].canceled \/ abandoned)
    <2> DEFINE b == flight[f].canceled \/ abandoned
    <2>1. b \in BOOLEAN /\ left \in SUBSET Caller
      <3>1. flight[f].waiters \subseteq Caller
        BY <1>3 DEF FlightState
      <3> QED
        BY <3>1
    <2>2. state = [flight[f] EXCEPT !.waiters = left, !.canceled = b]
      BY Zenon
    <2> HIDE DEF b, left, state
    <2>3. /\ state \in FlightState /\ state.waiters = left /\ state.domain = flight[f].domain
          /\ state.step = flight[f].step /\ state.result = flight[f].result
          /\ state.canceled = b
      BY <1>3, <2>1, <2>2 DEF FlightState
    <2> QED
      BY <2>3 DEF b
  <1> HIDE DEF state
  <1>5. /\ st \in FlightState
        /\ \/ st = state /\ ~(flight[f].step = "done" /\ left = {})
           \/ st = Unused /\ flight[f].step = "done" /\ left = {}
    BY <1>4, Empties DEF Collected
  <1> HIDE DEF f, left, st
  <1>6. /\ flight' \in [Flight -> FlightState] /\ flight'[f] = st
        /\ \A g \in Flight : g # f => flight'[g] = flight[g]
        /\ caller' \in [Caller -> CallerState] /\ caller'[c] = Returned
        /\ \A e \in Caller : e # c => caller'[e] = caller[e]
    BY <1>2, <1>3, <1>5, Empties
  <1>7. /\ flights' \in [Domain -> Flight \cup {NoFlight}]
        /\ \A e \in Domain : flights'[e] \in {flights[e], NoFlight} /\ (abandoned => flights'[e] # f)
    BY <1>1, <1>2, <1>3, UnlistedFields
  <1>8. left = flight[f].waiters \ {c} /\ caller[c].flight = f
    BY Zenon DEF left, f
  <1>9. ASSUME NEW g \in Flight PROVE FlightFit(g)'
    <2>1. FlightFit(g) /\ flight[g].waiters \subseteq Caller
      BY <1>1 DEF Typed, FlightState
    <2>2. CASE g # f
      <3>1. c \notin flight[g].waiters
        BY <1>8, <2>1, <2>2 DEF FlightFit
      <3> QED
        BY <1>6, <2>1, <2>2, <3>1 DEF FlightFit
    <2>3. CASE g = f
      <3>1. CASE st = Unused
        BY <1>6, <2>3, <3>1, Empties DEF FlightFit, Absent, Canceled
      <3>2. CASE st = state
        <4>1. \A e \in left : e # c /\ e \in Caller /\ e \in flight[f].waiters
          BY <1>8, <2>1, <2>3
        <4>2. flight[f].domain \in Domain
          BY <1>3, <2>1, <2>3 DEF FlightFit
        <4>3. st.waiters = left /\ st.domain \in Domain /\ st.step # "unused" /\ st.result = flight[f].result
              /\ (st.canceled <=> flight[f].canceled \/ abandoned)
          BY <1>3, <1>4, <3>2, <4>2
        <4>4. \A e \in left : caller'[e] = caller[e] /\ caller[e].phase = "waiting" /\ caller[e].flight = f
          BY <1>6, <2>1, <2>3, <4>1 DEF FlightFit
        <4>5. st.canceled \/ st.result = Canceled => \A e \in left : caller[e].canceled
          BY <2>1, <2>3, <4>1, <4>3 DEF FlightFit
        <4> HIDE DEF abandoned
        <4> QED
          BY <1>6, <2>3, <4>3, <4>4, <4>5 DEF FlightFit
      <3> QED
        BY <1>5, <3>1, <3>2
    <2> QED
      BY <2>2, <2>3
  <1>10. ASSUME NEW e \in Caller PROVE CallerFit(e)'
    <2>1. CASE e = c
      BY <1>6, <2>1, Empties DEF CallerFit
    <2>2. CASE e # c
      <3>1. CallerFit(e)
        BY <1>1
      <3>2. CASE caller[e].phase = "waiting" /\ caller[e].flight = f
        <4>1. e \in left
          BY <1>8, <2>2, <3>1, <3>2 DEF CallerFit
        <4>2. st = state
          BY <1>5, <4>1
        <4> QED
          BY <1>3, <1>4, <1>6, <2>2, <3>1, <3>2, <4>1, <4>2 DEF CallerFit
      <3>3. CASE ~(caller[e].phase = "waiting" /\ caller[e].flight = f)
        BY <1>6, <2>2, <3>1, <3>3 DEF CallerFit
      <3> QED
        BY <3>2, <3>3
    <2> QED
      BY <2>1, <2>2
  <1>11. ASSUME NEW e \in Domain PROVE ListedFit(e)'
    <2>1. CASE flights'[e] = NoFlight
      BY <2>1 DEF ListedFit
    <2>2. CASE flights'[e] # NoFlight
      <3>1. ListedFit(e) /\ flights'[e] = flights[e] /\ flights[e] \in Flight
        BY <1>1, <1>3, <1>7, <2>2
      <3>2. CASE flights[e] # f
        BY <1>6, <2>2, <3>1, <3>2 DEF ListedFit
      <3>3. CASE flights[e] = f
        <4>1. ~abandoned /\ flight[f].step # "done"
          BY <1>7, <2>2, <3>1, <3>3 DEF ListedFit
        <4>2. left # {} /\ st = state
          BY <1>5, <4>1
        <4> QED
          BY <1>4, <1>6, <2>2, <3>1, <3>3, <4>1, <4>2 DEF ListedFit
      <3> QED
        BY <3>2, <3>3
    <2> QED
      BY <2>1, <2>2
  <1>12. flight[f].step = "sign" <=> st.step = "sign"
    BY <1>4, <1>5, Empties
  <1>13. SlotsMatch'
    BY <1>1, <1>2, <1>3, <1>12, SlotsStep
  <1>14. Typed' /\ CacheFits' /\ CacheIsCurrent'
    BY <1>1, <1>2, <1>6, <1>7 DEF Typed, CacheFits, Cached, CacheIsCurrent
  <1> QED
    BY <1>9, <1>10, <1>11, <1>13, <1>14 DEF IInv

-----------------------------------------------------------------------------
(* The theorems *)

\* Every step keeps the invariant.
LEMMA NextKeeps == IInv /\ [Next]_vars => IInv'
  <1> SUFFICES ASSUME IInv, [Next]_vars PROVE IInv'
    OBVIOUS
  <1>1. CASE UNCHANGED vars
    <2>1. /\ revision' = revision /\ rotating' = rotating /\ rotationEpoch' = rotationEpoch
          /\ cache' = cache /\ flights' = flights /\ flight' = flight /\ caller' = caller
          /\ signSlots' = signSlots
      BY <1>1 DEF vars, signer
    <2>2. Typed' /\ SlotsMatch' /\ CacheFits' /\ CacheIsCurrent'
      BY <2>1 DEF IInv, Typed, SlotsMatch, Signing, CacheFits, Cached, CacheIsCurrent
    <2>3. /\ \A f \in Flight : FlightFit(f)'
          /\ \A c \in Caller : CallerFit(c)'
          /\ \A d \in Domain : ListedFit(d)'
      BY <2>1, SMTT(40) DEF IInv, FlightFit, CallerFit, ListedFit
    <2> QED
      BY <2>2, <2>3 DEF IInv
  <1>2. CASE (\E r \in Revision \cup {""} : Rotate(r)) \/ HandleRotation \/ \E d \in Domain : Reap(d)
    BY <1>2, RotateKeeps, HandleRotationKeeps, ReapKeeps
  <1>3. ASSUME NEW c \in Caller, (\E d \in Domain : Call(c, d)) \/ Cancel(c) \/ ReturnAtOnce(c)
        PROVE  IInv'
    BY <1>3, CallKeeps
  <1>4. ASSUME NEW c \in Caller, JoinFlight(c) \/ Leave(c) PROVE IInv'
    BY <1>4, JoinFlightKeeps, LeaveKeeps
  <1>5. ASSUME NEW f \in Flight, Run(f) PROVE IInv'
    BY <1>5, StopKeeps, BeginKeeps, LookKeeps, AcquireKeeps, CommitKeeps, CompleteKeeps, SignDNSKeeps,
       Zenon DEF Run
  <1> QED
    BY <1>1, <1>2, <1>3, <1>4, <1>5, Zenon DEF Next

\* The invariant holds in every state of every behaviour.
LEMMA Invariance == Spec => []IInv
  BY InitIInv, NextKeeps, PTL DEF Spec

\* The cache never has more than CacheMaxEntries entries and no more than
\* SignConcurrency flights sign at a time, whatever is canceled or rotated.
THEOREM LimitsHold == Spec => []TypeOK
  <1>1. IInv => TypeOK
    <2>1. ASSUME IInv PROVE signSlots \in 0 .. SignConcurrency
      <3>1. Signing \in SUBSET Flight /\ IsFiniteSet(Flight)
        BY Limits, FS_Interval DEF Signing, Flight
      <3>2. Cardinality(Signing) \in Nat
        BY <3>1, FS_Subset, FS_CardinalityType
      <3> QED
        BY <2>1, <3>2, Limits DEF IInv, SlotsMatch
    <2> QED
      BY <2>1 DEF IInv, Typed, CacheFits, TypeOK
  <1> QED
    BY <1>1, Invariance, PTL

\* A caller whose context is live waits for a flight of its domain that is not
\* canceled, and never gets the cancellation of other callers.
THEOREM CancellationIsShared == Spec => []LiveCallersAreServed
  <1>1. IInv => LiveCallersAreServed
    <2> SUFFICES ASSUME IInv, NEW c \in Caller, Waiting(c)
                 PROVE  LET f == flight[caller[c].flight] IN
                        /\ c \in f.waiters /\ f.domain = caller[c].domain
                        /\ f.step # "unused" /\ f.result # Canceled
                        /\ f.step # "done" => ~f.canceled
      BY DEF LiveCallersAreServed
    <2>1. caller[c].phase = "waiting" /\ ~caller[c].canceled
      BY DEF Waiting
    <2>2. CallerFit(c) /\ FlightFit(caller[c].flight)
      BY <2>1 DEF IInv, CallerFit
    <2> QED
      BY <2>1, <2>2 DEF CallerFit, FlightFit
  <1> QED
    BY <1>1, Invariance, PTL

\* The checks of the commit keep certificates of a replaced signer out of the
\* cache once the handler of its rotation has run.
THEOREM CacheStaysCurrent == Spec => []CacheIsCurrent
  <1>1. IInv => CacheIsCurrent
    BY DEF IInv
  <1> QED
    BY <1>1, Invariance, PTL
=============================================================================
