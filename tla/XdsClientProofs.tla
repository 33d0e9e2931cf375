--------------------------- MODULE XdsClientProofs ---------------------------
(*****************************************************************************)
(* Proofs about XdsClient: the operations on the client and the cache as one *)
(* value keep what callers asleep in Demand rely on; the inductive           *)
(* invariant; the calls of the retention cache, losing and opening a stream, *)
(* the writer, the grace and a response keep it; the theorems that follow.   *)
(* Their properties are checked on a small instance by the run xds_client.   *)
(*****************************************************************************)
EXTENDS XdsClient, SetFacts, TLAPS

\* A value of the shape of State: the fields of a value an operation returns are
\* known once the value is known to be a record of these fields.
IsState(s) == s = [subs |-> s.subs, pending |-> s.pending, resources |-> s.resources,
                   retired |-> s.retired, wake |-> s.wake, sent |-> s.sent,
                   entries |-> s.entries, idle |-> s.idle, callers |-> s.callers]

\* The types of the fields.  Each is a definition of its own, so that a step that
\* leaves a field alone keeps its type without opening it.
Phase == {"idle", "demanding", "blocked", "woken", "using", "old"}
SubsTyped(f) == /\ f \in [Demanded -> [held : BOOLEAN, active : BOOLEAN]]
                /\ \A n \in Demanded : f[n].active => f[n].held
EntriesTyped(f) == f \in [Demanded -> [held : BOOLEAN, users : Int, ended : BOOLEAN]]
CallersTyped(f) == f \in [Caller -> [pc : Phase, name : Demanded]]
FunctionOn(S, f) == f = [x \in S |-> f[x]]

Typed(s) ==
    /\ IsState(s)
    /\ SubsTyped(s.subs) /\ EntriesTyped(s.entries) /\ CallersTyped(s.callers)
    /\ FunctionOn(Resource, s.resources) /\ FunctionOn(Demanded, s.sent)
    /\ s.wake \in BOOLEAN

\* The callers asleep in waitLocked, and the names nothing in the cache answers.
Sleeping(s) == {c \in Caller : s.callers[c].pc = "blocked"}
NoAnswer(s, n) == \A r \in Resource : /\ n \notin s.resources[r].aliases
                                      /\ r = n => s.resources[r] = Absent

\* What a sleeper relies on: a live and active subscription, no answer it has
\* missed, and active subscriptions that are sent or about to be.
Subscribed(s) == \A c \in Sleeping(s) :
    LET n == s.callers[c].name IN s.subs[n].held /\ s.subs[n].active /\ ~s.entries[n].ended
Unanswered(s) == \A c \in Sleeping(s) : NoAnswer(s, s.callers[c].name)
Carried(s) == \A n \in Demanded :
    s.subs[n].active => s.sent[n] = "this" \/ (n \in s.pending /\ s.wake)

\* A caller record with another pc.
LEMMA CallerMoved ==
    ASSUME NEW k \in [pc : Phase, name : Demanded], NEW p \in Phase
    PROVE  LET m == [k EXCEPT !.pc = p]
           IN  m \in [pc : Phase, name : Demanded] /\ m.pc = p /\ m.name = k.name
  OBVIOUS

\* The fields of Activate: the subscription made or revived in demand.
LEMMA ActivateFields ==
    ASSUME NEW s, Typed(s), NEW n \in Demanded, ~s.subs[n].active
    PROVE  LET t == Activate(s, n)
           IN  /\ IsState(t)
               /\ t.subs = [s.subs EXCEPT ![n] = [held |-> TRUE, active |-> TRUE]]
               /\ t.pending = s.pending \cup {n} /\ t.wake = TRUE
               /\ t.resources = s.resources /\ t.retired = s.retired /\ t.sent = s.sent
               /\ t.entries = s.entries /\ t.callers = s.callers /\ t.idle = s.idle
  BY Zenon DEF Activate, Typed, IsState, SubsTyped

\* The fields of EndSubscriptions: the subscriptions of a release or a deletion.
Ended(s, ns, t) ==
    /\ IsState(t)
    /\ t.subs = [n \in Demanded |-> IF n \in ns THEN NoSub ELSE s.subs[n]]
    /\ t.pending = s.pending \cup ns /\ t.wake = (s.wake \/ ns # {})
    /\ t.sent = [n \in Demanded |->
                     IF n \in ns /\ s.sent[n] = "this" THEN "older" ELSE s.sent[n]]
    /\ t.resources = s.resources /\ t.retired = s.retired
    /\ t.entries = s.entries /\ t.callers = s.callers /\ t.idle = s.idle

LEMMA EndSubscriptionsFields ==
    ASSUME NEW s, Typed(s), NEW ns
    PROVE  Ended(s, ns, EndSubscriptions(s, ns))
  <1> DEFINE newSubs == [n \in Demanded |-> IF n \in ns THEN NoSub ELSE s.subs[n]]
             newSent == [n \in Demanded |->
                            IF n \in ns /\ s.sent[n] = "this" THEN "older" ELSE s.sent[n]]
             newWake == s.wake \/ ns # {}
  <1>1. EndSubscriptions(s, ns) = [s EXCEPT !.subs = newSubs, !.sent = newSent,
                                            !.pending = s.pending \cup ns, !.wake = newWake]
    BY Zenon DEF EndSubscriptions
  <1> HIDE DEF newSubs, newSent, newWake
  <1>2. LET t == EndSubscriptions(s, ns)
        IN  /\ IsState(t) /\ t.subs = newSubs /\ t.sent = newSent
            /\ t.pending = s.pending \cup ns /\ t.wake = newWake
            /\ t.resources = s.resources /\ t.retired = s.retired
            /\ t.entries = s.entries /\ t.callers = s.callers /\ t.idle = s.idle
    BY <1>1, Zenon DEF Typed, IsState
  <1> QED
    BY <1>2 DEF Ended, newSubs, newSent, newWake

\* Ending subscriptions makes none active and leaves the others alone.
LEMMA EndedSubs ==
    ASSUME NEW f, SubsTyped(f), NEW ns, NEW g,
           g = [n \in Demanded |-> IF n \in ns THEN NoSub ELSE f[n]]
    PROVE  /\ SubsTyped(g)
           /\ \A n \in Demanded : /\ n \notin ns => g[n] = f[n]
                                  /\ g[n].active => n \notin ns /\ f[n].active
  <1> DEFINE R == [held : BOOLEAN, active : BOOLEAN]
  <1>1. NoSub \in R /\ ~NoSub.active
    BY DEF NoSub
  <1>2. /\ \A n \in Demanded : f[n] \in R
        /\ \A n \in Demanded : f[n].active => f[n].held
    BY DEF SubsTyped
  <1>3. g \in [Demanded -> R]
    <2> HIDE DEF R
    <2> QED
      BY <1>1, <1>2
  <1>4. \A n \in Demanded : g[n] = IF n \in ns THEN NoSub ELSE f[n]
    OBVIOUS
  <1> HIDE DEF R
  <1>5. \A n \in Demanded : g[n].active => n \notin ns /\ f[n].active /\ g[n] = f[n]
    BY <1>1, <1>4
  <1>6. \A n \in Demanded : g[n].active => g[n].held
    BY <1>2, <1>5
  <1> QED
    BY <1>3, <1>4, <1>5, <1>6 DEF SubsTyped, R

\* The fields of Notified: subscription.notify changes callers only.
LEMMA NotifiedFields ==
    ASSUME NEW s, Typed(s), NEW ns
    PROVE  LET t == Notified(s, ns)
           IN  /\ IsState(t)
               /\ t.callers = [c \in Caller |->
                     IF s.callers[c].pc = "blocked" /\ s.callers[c].name \in ns
                     THEN [s.callers[c] EXCEPT !.pc = "woken"] ELSE s.callers[c]]
               /\ t.subs = s.subs /\ t.pending = s.pending /\ t.wake = s.wake /\ t.sent = s.sent
               /\ t.resources = s.resources /\ t.retired = s.retired /\ t.entries = s.entries
               /\ t.idle = s.idle
  <1> DEFINE newCallers == [c \in Caller |->
                     IF s.callers[c].pc = "blocked" /\ s.callers[c].name \in ns
                     THEN [s.callers[c] EXCEPT !.pc = "woken"] ELSE s.callers[c]]
  <1>1. Notified(s, ns) = [s EXCEPT !.callers = newCallers]
    BY Zenon DEF Notified
  <1> HIDE DEF newCallers
  <1>2. LET t == Notified(s, ns)
        IN  /\ IsState(t) /\ t.callers = newCallers
            /\ t.subs = s.subs /\ t.pending = s.pending /\ t.wake = s.wake /\ t.sent = s.sent
            /\ t.resources = s.resources /\ t.retired = s.retired /\ t.entries = s.entries
            /\ t.idle = s.idle
    BY <1>1 DEF Typed, IsState
  <1> QED
    BY <1>2 DEF newCallers

\* What every operation on the value keeps: types, live subscriptions under the
\* sleepers, and, given for s, no missed answer and no unsent subscription.
\* Resources only ever disappear.
Kept(s, t) ==
    /\ Typed(t) /\ Subscribed(t)
    /\ Unanswered(s) => Unanswered(t)
    /\ Carried(s) => Carried(t)
    /\ \A r \in Resource : t.resources[r] \in {s.resources[r], Absent}
    /\ t.retired = s.retired

\* Operations compose.
LEMMA KeptTransitive ==
    ASSUME NEW s, NEW t, NEW u, Kept(s, t), Kept(t, u)
    PROVE  Kept(s, u)
  BY DEF Kept

\* An operation with fewer sleepers that changes nothing those rely on.
LEMMA CalmIsKept ==
    ASSUME NEW s, NEW t, Typed(s), Subscribed(s), Typed(t),
           \A c \in Sleeping(t) : /\ c \in Sleeping(s)
                                  /\ t.callers[c].name = s.callers[c].name
                                  /\ t.subs[s.callers[c].name] = s.subs[s.callers[c].name]
                                  /\ ~t.entries[s.callers[c].name].ended,
           \A n \in Demanded : t.subs[n].active =>
              /\ s.subs[n].active /\ t.sent[n] = s.sent[n],
           s.pending \subseteq t.pending, s.wake => t.wake,
           \A r \in Resource : t.resources[r] \in {s.resources[r], Absent},
           t.retired = s.retired
    PROVE  Kept(s, t)
  <1>1. Subscribed(t)
    BY DEF Subscribed
  <1>2. ASSUME Unanswered(s) PROVE Unanswered(t)
    <2> SUFFICES ASSUME NEW c \in Sleeping(t), NEW r \in Resource
                 PROVE  /\ s.callers[c].name \notin t.resources[r].aliases
                        /\ r = s.callers[c].name => t.resources[r] = Absent
      BY DEF Unanswered, NoAnswer
    <2>1. /\ s.callers[c].name \notin s.resources[r].aliases
          /\ r = s.callers[c].name => s.resources[r] = Absent
      BY <1>2 DEF Unanswered, NoAnswer
    <2>2. Absent.aliases = {}
      BY DEF Absent
    <2> QED
      BY <2>1, <2>2
  <1>3. ASSUME Carried(s) PROVE Carried(t)
    BY <1>3 DEF Carried
  <1> QED
    BY <1>1, <1>2, <1>3 DEF Kept

\* demand, the part that makes or revives the subscription.
LEMMA ActivateKeeps ==
    ASSUME NEW s, Typed(s), Subscribed(s), NEW n \in Demanded
    PROVE  LET t == Activate(s, n)
           IN  /\ Kept(s, t)
               /\ t.subs[n].held /\ t.subs[n].active
               /\ t.callers = s.callers /\ t.entries = s.entries /\ t.resources = s.resources
  <1>1. CASE s.subs[n].active
    <2>1. Activate(s, n) = s
      BY <1>1 DEF Activate
    <2>2. Kept(s, s)
      BY DEF Kept
    <2> QED
      BY <1>1, <2>1, <2>2 DEF Typed, SubsTyped
  <1>2. CASE ~s.subs[n].active
    <2> DEFINE t == Activate(s, n)
    <2>1. /\ IsState(t)
          /\ t.subs = [s.subs EXCEPT ![n] = [held |-> TRUE, active |-> TRUE]]
          /\ t.pending = s.pending \cup {n} /\ t.wake = TRUE
          /\ t.resources = s.resources /\ t.retired = s.retired /\ t.sent = s.sent
          /\ t.entries = s.entries /\ t.callers = s.callers
      BY <1>2, ActivateFields, Zenon
    <2> HIDE DEF t
    <2>2. /\ SubsTyped(t.subs)
          /\ t.subs[n] = [held |-> TRUE, active |-> TRUE]
          /\ \A m \in Demanded : m # n => t.subs[m] = s.subs[m]
      <3>1. SubsTyped(s.subs)
        BY DEF Typed
      <3>2. /\ t.subs \in [Demanded -> [held : BOOLEAN, active : BOOLEAN]]
            /\ t.subs[n] = [held |-> TRUE, active |-> TRUE]
            /\ \A m \in Demanded : m # n => t.subs[m] = s.subs[m]
        BY <2>1, <3>1 DEF SubsTyped
      <3> QED
        BY <3>1, <3>2 DEF SubsTyped
    <2>3. Typed(t)
      BY <2>1, <2>2, Zenon DEF Typed
    <2>4. Subscribed(t)
      <3> SUFFICES ASSUME NEW c \in Sleeping(t)
                   PROVE  /\ t.subs[s.callers[c].name].held /\ t.subs[s.callers[c].name].active
                          /\ ~s.entries[s.callers[c].name].ended
        BY <2>1 DEF Subscribed
      <3>1. c \in Sleeping(s) /\ s.callers[c].name \in Demanded
        BY <2>1 DEF Sleeping, Typed, CallersTyped
      <3>2. /\ s.subs[s.callers[c].name].held /\ s.subs[s.callers[c].name].active
            /\ ~s.entries[s.callers[c].name].ended
        BY <3>1, Zenon DEF Subscribed
      <3>3. t.subs[n].held /\ t.subs[n].active
        BY <2>2
      <3> QED
        BY <2>2, <3>1, <3>2, <3>3
    <2>5. Unanswered(s) => Unanswered(t)
      BY <2>1, SMTT(40) DEF Unanswered, Sleeping, NoAnswer
    <2>6. Carried(s) => Carried(t)
      BY <2>1, <2>2 DEF Carried
    <2> QED
      BY <2>1, <2>2, <2>3, <2>4, <2>5, <2>6 DEF Kept, t
  <1> QED
    BY <1>1, <1>2

\* A caller that is awake afterwards changes its entry of the retention cache.
LEMMA EntryChangeKeeps ==
    ASSUME NEW s, Typed(s), Subscribed(s), NEW t, IsState(t),
           NEW n \in Demanded, NEW c \in Caller,
           NEW e \in [held : BOOLEAN, users : Int, ended : BOOLEAN],
           NEW k \in [pc : Phase, name : Demanded],
           e.ended => s.entries[n].ended, k.pc # "blocked",
           t.entries = [s.entries EXCEPT ![n] = e], t.callers = [s.callers EXCEPT ![c] = k],
           t.subs = s.subs, t.pending = s.pending, t.wake = s.wake, t.sent = s.sent,
           t.resources = s.resources, t.retired = s.retired
    PROVE  Kept(s, t)
  <1>2. /\ EntriesTyped(t.entries) /\ t.entries[n] = e
        /\ \A m \in Demanded : m # n => t.entries[m] = s.entries[m]
    BY DEF Typed, EntriesTyped
  <1>3. /\ CallersTyped(t.callers) /\ t.callers[c] = k
        /\ \A d \in Caller : d # c => t.callers[d] = s.callers[d]
    BY DEF Typed, CallersTyped
  <1>4. Typed(t)
    BY <1>2, <1>3 DEF Typed
  <1>5. ASSUME NEW d \in Sleeping(t)
        PROVE  /\ d \in Sleeping(s) /\ t.callers[d].name = s.callers[d].name
               /\ t.subs[s.callers[d].name] = s.subs[s.callers[d].name]
               /\ ~t.entries[s.callers[d].name].ended
    <2>1. d \in Sleeping(s) /\ t.callers[d] = s.callers[d]
      BY <1>3, <1>5 DEF Sleeping
    <2>2. s.callers[d].name \in Demanded
      BY <2>1 DEF Sleeping, Typed, CallersTyped
    <2>3. ~s.entries[s.callers[d].name].ended
      BY <2>1 DEF Subscribed
    <2> QED
      BY <1>2, <2>1, <2>2, <2>3
  <1> QED
    BY <1>4, <1>5, CalmIsKept, Zenon

\* The same for the value Get commits: entry, LRU list and caller at once.
LEMMA EntryKeeps ==
    ASSUME NEW s, Typed(s), Subscribed(s), NEW n \in Demanded, NEW c \in Caller, NEW q,
           NEW e \in [held : BOOLEAN, users : Int, ended : BOOLEAN],
           NEW k \in [pc : Phase, name : Demanded],
           e.ended => s.entries[n].ended, k.pc # "blocked"
    PROVE  Kept(s, [s EXCEPT !.entries[n] = e, !.idle = q, !.callers[c] = k])
  <1> DEFINE t == [s EXCEPT !.entries[n] = e, !.idle = q, !.callers[c] = k]
             newEntries == [s.entries EXCEPT ![n] = e]
             newCallers == [s.callers EXCEPT ![c] = k]
  <1>1. t = [s EXCEPT !.entries = newEntries, !.idle = q, !.callers = newCallers]
    BY DEF Typed, IsState
  <1> HIDE DEF newEntries, newCallers, t
  <1>2. /\ IsState(t) /\ t.entries = newEntries /\ t.callers = newCallers
        /\ t.subs = s.subs /\ t.pending = s.pending /\ t.wake = s.wake /\ t.sent = s.sent
        /\ t.resources = s.resources /\ t.retired = s.retired
    BY <1>1, Zenon DEF Typed, IsState
  <1>3. t.entries = [s.entries EXCEPT ![n] = e] /\ t.callers = [s.callers EXCEPT ![c] = k]
    BY <1>2 DEF newEntries, newCallers
  <1>4. Kept(s, t)
    BY <1>2, <1>3, EntryChangeKeeps, SMTT(30)
  <1> QED
    BY <1>4 DEF t

\* release, up to the question whether the entry goes.
LEMMA UnpinKeeps ==
    ASSUME NEW s, Typed(s), Subscribed(s), NEW c \in Caller
    PROVE  Kept(s, Unpin(s, c))
  <1> DEFINE n == s.callers[c].name
             e == [s.entries[n] EXCEPT !.users = s.entries[n].users - 1]
             newEntries == [s.entries EXCEPT ![n] = e]
             newCallers == [s.callers EXCEPT ![c] = NoCaller]
             t == Unpin(s, c)
  <1>0. n \in Demanded /\ s.entries[n] \in [held : BOOLEAN, users : Int, ended : BOOLEAN]
    BY DEF Typed, CallersTyped, EntriesTyped
  <1>1. t = [s EXCEPT !.entries = newEntries, !.callers = newCallers]
    BY DEF Typed, IsState, Unpin
  <1>2. e \in [held : BOOLEAN, users : Int, ended : BOOLEAN] /\ e.ended = s.entries[n].ended
    <2> DEFINE f == s.entries[n]
    <2>1. f \in [held : BOOLEAN, users : Int, ended : BOOLEAN]
      BY <1>0
    <2> HIDE DEF f
    <2>2. LET g == [f EXCEPT !.users = f.users - 1]
          IN  g \in [held : BOOLEAN, users : Int, ended : BOOLEAN] /\ g.ended = f.ended
      BY <2>1
    <2> QED
      BY <2>2, Zenon DEF f
  <1>3. NoCaller \in [pc : Phase, name : Demanded] /\ NoCaller.pc # "blocked"
    BY ClientAssumption DEF NoCaller, Phase
  <1> HIDE DEF newEntries, newCallers, t, e, n
  <1>4. /\ IsState(t) /\ t.entries = newEntries /\ t.callers = newCallers
        /\ t.subs = s.subs /\ t.pending = s.pending /\ t.wake = s.wake /\ t.sent = s.sent
        /\ t.resources = s.resources /\ t.retired = s.retired
    BY <1>1, Zenon DEF Typed, IsState
  <1>5. t.entries = [s.entries EXCEPT ![n] = e] /\ t.callers = [s.callers EXCEPT ![c] = NoCaller]
    BY <1>4 DEF newEntries, newCallers
  <1>6. Kept(s, t)
    BY <1>0, <1>2, <1>3, <1>4, <1>5, EntryChangeKeeps, SMTT(30)
  <1> QED
    BY <1>6 DEF t

\* The LRU list matters to no sleeper.
LEMMA IdleKeeps ==
    ASSUME NEW s, Typed(s), Subscribed(s), NEW q
    PROVE  Kept(s, [s EXCEPT !.idle = q])
  <1> DEFINE t == [s EXCEPT !.idle = q]
  <1>1. /\ IsState(t) /\ t.entries = s.entries /\ t.callers = s.callers
        /\ t.subs = s.subs /\ t.pending = s.pending /\ t.wake = s.wake /\ t.sent = s.sent
        /\ t.resources = s.resources /\ t.retired = s.retired
    BY DEF Typed, IsState
  <1> HIDE DEF t
  <1>2. Typed(t)
    BY <1>1 DEF Typed
  <1>3. Subscribed(t) /\ (Unanswered(s) => Unanswered(t)) /\ (Carried(s) => Carried(t))
    <2>1. Sleeping(t) = Sleeping(s)
      BY <1>1, Zenon DEF Sleeping
    <2>2. Subscribed(t)
      BY <1>1, <2>1, Zenon DEF Subscribed
    <2>3. Unanswered(s) => Unanswered(t)
      BY <1>1, <2>1, Zenon DEF Unanswered, NoAnswer
    <2>4. Carried(s) => Carried(t)
      BY <1>1, Zenon DEF Carried
    <2> QED
      BY <2>2, <2>3, <2>4, Zenon
  <1>4. Kept(s, t)
    BY <1>1, <1>2, <1>3 DEF Kept
  <1> QED
    BY <1>4 DEF t

\* The fields of Released: a resource stays as it is or goes.
LEMMA ReleasedFields ==
    ASSUME NEW s, Typed(s), NEW n \in Demanded
    PROVE  LET t == Released(s, n)
           IN  /\ IsState(t)
               /\ t.subs = [m \in Demanded |-> IF m \in {n} THEN NoSub ELSE s.subs[m]]
               /\ t.pending = s.pending \cup {n} /\ t.wake = (s.wake \/ {n} # {})
               /\ t.sent = [m \in Demanded |->
                                IF m \in {n} /\ s.sent[m] = "this" THEN "older" ELSE s.sent[m]]
               /\ FunctionOn(Resource, t.resources)
               /\ \A r \in Resource : t.resources[r] \in {s.resources[r], Absent}
               /\ t.retired = s.retired /\ t.entries = s.entries /\ t.callers = s.callers
               /\ t.idle = s.idle
  <1> DEFINE kept == EndSubscriptions(s, {n})
  <1>1. /\ IsState(kept)
        /\ kept.subs = [m \in Demanded |-> IF m \in {n} THEN NoSub ELSE s.subs[m]]
        /\ kept.pending = s.pending \cup {n} /\ kept.wake = (s.wake \/ {n} # {})
        /\ kept.sent = [m \in Demanded |->
                            IF m \in {n} /\ s.sent[m] = "this" THEN "older" ELSE s.sent[m]]
        /\ kept.resources = s.resources /\ kept.retired = s.retired
        /\ kept.entries = s.entries /\ kept.callers = s.callers /\ kept.idle = s.idle
    <2>1. Ended(s, {n}, kept)
      BY EndSubscriptionsFields, Zenon
    <2> QED
      BY <2>1, Zenon DEF Ended
  <1> DEFINE left == [r \in Resource |-> IF n \in NamesOf(r, kept.resources[r])
                                            /\ ~Interested(kept, r, kept.resources[r])
                                         THEN Absent ELSE kept.resources[r]]
  <1>2. Released(s, n) = [kept EXCEPT !.resources = left]
    BY Zenon DEF Released
  <1>3. /\ \A r \in Resource : left[r] \in {s.resources[r], Absent}
        /\ FunctionOn(Resource, left)
    <2> HIDE DEF kept
    <2> QED
      BY <1>1 DEF FunctionOn
  <1> HIDE DEF kept, left
  <1>4. LET t == Released(s, n)
        IN  /\ IsState(t)
            /\ t.subs = kept.subs /\ t.pending = kept.pending /\ t.wake = kept.wake
            /\ t.sent = kept.sent /\ t.resources = left /\ t.retired = kept.retired
            /\ t.entries = kept.entries /\ t.callers = kept.callers /\ t.idle = kept.idle
    BY <1>1, <1>2 DEF IsState
  <1> QED
    BY <1>1, <1>3, <1>4

\* The fields of Evict: Cache.remove releases the lease unless it has ended.
EvictEntries(s, n) == [s.entries EXCEPT ![n] = NoEntry]
EvictCallers(s, n) == [c \in Caller |-> IF c \in Pins(s, n) THEN [s.callers[c] EXCEPT !.pc = "old"]
                                                            ELSE s.callers[c]]

LEMMA EvictFields ==
    ASSUME NEW s, Typed(s), NEW n \in Demanded
    PROVE  LET left == IF s.entries[n].ended THEN s ELSE Released(s, n)
               t == Evict(s, n)
           IN  /\ IsState(left) /\ IsState(t)
               /\ left.entries = s.entries /\ left.callers = s.callers /\ left.idle = s.idle
               /\ t.entries = EvictEntries(s, n) /\ t.callers = EvictCallers(s, n)
               /\ t.idle = Without(s.idle, n)
               /\ t.subs = left.subs /\ t.pending = left.pending /\ t.wake = left.wake
               /\ t.sent = left.sent /\ t.resources = left.resources
               /\ t.retired = left.retired
  <1> DEFINE left == IF s.entries[n].ended THEN s ELSE Released(s, n)
             t == Evict(s, n)
             E == EvictEntries(s, n)
             q == Without(s.idle, n)
             K == EvictCallers(s, n)
  <1>1. /\ IsState(left) /\ left.entries = s.entries /\ left.callers = s.callers
        /\ left.idle = s.idle
    <2>1. CASE s.entries[n].ended
      BY <2>1 DEF Typed
    <2>2. CASE ~s.entries[n].ended
      <3> DEFINE u == Released(s, n)
      <3>1. /\ IsState(u) /\ u.entries = s.entries /\ u.callers = s.callers /\ u.idle = s.idle
        BY ReleasedFields, Zenon
      <3>2. left = u
        BY <2>2
      <3> HIDE DEF u, left
      <3> QED
        BY <3>1, <3>2
    <2> QED
      BY <2>1, <2>2, Zenon
  <1>2. t = [left EXCEPT !.entries[n] = NoEntry, !.idle = Without(left.idle, n),
                         !.callers = [c \in Caller |-> IF c \in Pins(s, n)
                                                       THEN [left.callers[c] EXCEPT !.pc = "old"]
                                                       ELSE left.callers[c]]]
    BY Zenon DEF Evict
  <1> HIDE DEF left
  <1>3. [c \in Caller |-> IF c \in Pins(s, n) THEN [left.callers[c] EXCEPT !.pc = "old"]
                                              ELSE left.callers[c]] = K
    BY <1>1, Zenon DEF EvictCallers
  <1> HIDE DEF K, t, q, E
  <1>4. t = [left EXCEPT !.entries[n] = NoEntry, !.idle = q, !.callers = K]
    BY <1>1, <1>2, <1>3, Zenon DEF q
  <1>5. t = [left EXCEPT !.entries = E, !.idle = q, !.callers = K]
    BY <1>1, <1>4 DEF IsState, E, EvictEntries
  <1>6. /\ IsState(t) /\ t.entries = E /\ t.callers = K /\ t.idle = q
        /\ t.subs = left.subs /\ t.pending = left.pending /\ t.wake = left.wake
        /\ t.sent = left.sent /\ t.resources = left.resources /\ t.retired = left.retired
    BY <1>1, <1>5, Zenon DEF IsState
  <1> QED
    BY <1>1, <1>6, Zenon DEF left, t, E, K, q

\* Cache.remove: the callers of the entry are awake, or find its lease ended.
LEMMA EvictKeeps ==
    ASSUME NEW s, Typed(s), Subscribed(s), NEW n \in Demanded
    PROVE  Kept(s, Evict(s, n))
  <1> DEFINE left == IF s.entries[n].ended THEN s ELSE Released(s, n)
             t == Evict(s, n)
             E == EvictEntries(s, n)
             K == EvictCallers(s, n)
  <1>1. /\ IsState(left) /\ left.entries = s.entries /\ left.callers = s.callers
        /\ left.retired = s.retired /\ s.pending \subseteq left.pending
        /\ s.wake => left.wake
        /\ left.wake \in BOOLEAN
        /\ FunctionOn(Resource, left.resources)
        /\ \A r \in Resource : left.resources[r] \in {s.resources[r], Absent}
        /\ SubsTyped(left.subs) /\ FunctionOn(Demanded, left.sent)
        /\ \A m \in Demanded : m # n => left.subs[m] = s.subs[m]
        /\ \A m \in Demanded : left.subs[m].active =>
              s.subs[m].active /\ left.sent[m] = s.sent[m]
    <2>1. CASE s.entries[n].ended
      BY <2>1 DEF Typed
    <2>2. CASE ~s.entries[n].ended
      <3> DEFINE u == Released(s, n)
      <3>1. /\ IsState(u)
            /\ u.subs = [m \in Demanded |-> IF m \in {n} THEN NoSub ELSE s.subs[m]]
            /\ u.pending = s.pending \cup {n} /\ u.wake = (s.wake \/ {n} # {})
            /\ u.sent = [m \in Demanded |->
                             IF m \in {n} /\ s.sent[m] = "this" THEN "older" ELSE s.sent[m]]
            /\ FunctionOn(Resource, u.resources)
            /\ \A r \in Resource : u.resources[r] \in {s.resources[r], Absent}
            /\ u.retired = s.retired /\ u.entries = s.entries /\ u.callers = s.callers
        BY ReleasedFields, SMTT(40)
      <3>2. left = u
        BY <2>2
      <3> HIDE DEF u, left
      <3>3. FunctionOn(Demanded, u.sent)
        BY <3>1 DEF FunctionOn
      <3>4. SubsTyped(u.subs)
        <4> DEFINE ns == {n}
        <4>1. SubsTyped(s.subs)
          BY DEF Typed
        <4>2. u.subs = [m \in Demanded |-> IF m \in ns THEN NoSub ELSE s.subs[m]]
          BY <3>1, Zenon
        <4> HIDE DEF ns
        <4> QED
          BY <4>1, <4>2, EndedSubs
      <3>5. \A m \in Demanded : /\ m # n => u.subs[m] = s.subs[m] /\ u.sent[m] = s.sent[m]
                                /\ m = n => ~u.subs[m].active
        BY <3>1 DEF NoSub
      <3> QED
        BY <3>1, <3>2, <3>3, <3>4, <3>5, Zenon
    <2> QED
      BY <2>1, <2>2, Zenon
  <1>2. /\ IsState(t) /\ t.entries = E /\ t.callers = K
        /\ t.subs = left.subs /\ t.pending = left.pending /\ t.wake = left.wake
        /\ t.sent = left.sent /\ t.resources = left.resources /\ t.retired = left.retired
    BY EvictFields, Zenon
  <1> HIDE DEF left
  <1>4. /\ EntriesTyped(E) /\ \A m \in Demanded : m # n => E[m] = s.entries[m]
    BY SMTT(40) DEF Typed, EntriesTyped, NoEntry, EvictEntries
  <1>5. /\ CallersTyped(K)
        /\ \A c \in Caller : K[c].pc = "blocked" =>
              /\ K[c] = s.callers[c] /\ s.callers[c].name # n
    <2>1. CallersTyped(s.callers)
      BY DEF Typed
    <2>2. \A c \in Caller : K[c] = IF c \in Pins(s, n) THEN [s.callers[c] EXCEPT !.pc = "old"]
                                                       ELSE s.callers[c]
      BY Zenon DEF EvictCallers
    <2>3. \A c \in Caller : /\ c \in Pins(s, n) => K[c].pc = "old"
                            /\ K[c] \in [pc : Phase, name : Demanded]
      <3> SUFFICES ASSUME NEW c \in Caller
                   PROVE  /\ c \in Pins(s, n) => K[c].pc = "old"
                          /\ K[c] \in [pc : Phase, name : Demanded]
        OBVIOUS
      <3>1. s.callers[c] \in [pc : Phase, name : Demanded]
        BY <2>1 DEF CallersTyped
      <3>2. /\ [s.callers[c] EXCEPT !.pc = "old"] \in [pc : Phase, name : Demanded]
            /\ [s.callers[c] EXCEPT !.pc = "old"].pc = "old"
        BY <3>1, CallerMoved DEF Phase
      <3> HIDE DEF K
      <3>3. CASE c \in Pins(s, n)
        <4>1. K[c] = [s.callers[c] EXCEPT !.pc = "old"]
          BY <2>2, <3>3, Zenon
        <4> QED
          BY <3>2, <4>1, Zenon
      <3>4. CASE c \notin Pins(s, n)
        <4>1. K[c] = s.callers[c]
          BY <2>2, <3>4, Zenon
        <4> QED
          BY <3>1, <3>4, <4>1, Zenon
      <3> QED
        BY <3>3, <3>4
    <2>4. \A c \in Caller : s.callers[c].pc = "blocked" /\ s.callers[c].name = n
                            => c \in Pins(s, n)
      BY DEF Pins
    <2>5. CallersTyped(K)
      BY <2>3 DEF CallersTyped, EvictCallers
    <2> QED
      BY <2>2, <2>3, <2>4, <2>5, Zenon
  <1> HIDE DEF E, K, t
  <1>7. Typed(t)
    BY <1>1, <1>4, <1>5, <1>2 DEF Typed
  <1>8. ASSUME NEW c \in Sleeping(t)
        PROVE  /\ c \in Sleeping(s) /\ t.callers[c].name = s.callers[c].name
               /\ t.subs[s.callers[c].name] = s.subs[s.callers[c].name]
               /\ ~t.entries[s.callers[c].name].ended
    <2>1. /\ c \in Sleeping(s) /\ t.callers[c] = s.callers[c] /\ s.callers[c].name # n
      BY <1>5, <1>2, <1>8 DEF Sleeping
    <2>2. s.callers[c].name \in Demanded
      BY <2>1 DEF Sleeping, Typed, CallersTyped
    <2>3. ~s.entries[s.callers[c].name].ended
      BY <2>1 DEF Subscribed
    <2> QED
      BY <1>1, <1>4, <1>2, <2>1, <2>2, <2>3
  <1> QED
    <2>1. /\ \A m \in Demanded : t.subs[m].active => s.subs[m].active /\ t.sent[m] = s.sent[m]
          /\ s.pending \subseteq t.pending /\ (s.wake => t.wake)
          /\ \A r \in Resource : t.resources[r] \in {s.resources[r], Absent}
          /\ t.retired = s.retired
      BY <1>1, <1>2
    <2>2. Kept(s, t)
      BY <1>7, <1>8, <2>1, CalmIsKept
    <2> QED
      BY <2>2 DEF t

-----------------------------------------------------------------------------
(* The inductive invariant and the calls *)

\* The inductive invariant.  Sleepers are subscribed whatever the stream does.
\* Nothing answers them while a lookup would look at all, and on an open stream
\* what is active is sent or about to be.  The last two conjuncts say where the
\* resources of an unsynchronized client come from: without them the end of the
\* grace, and a response that synchronizes, could uncover an old answer.
IInv ==
    /\ Typed(State) /\ Subscribed(State)
    /\ synced \in BOOLEAN /\ grace \in BOOLEAN
    /\ synced \/ grace => Unanswered(State)
    /\ phase = "up" => Carried(State)
    /\ ~grace => retired = {}
    /\ ~synced => \A r \in Resource : resources[r] # Absent => r \in retired

\* State is the variables, now and after a step.
LEMMA StateFields ==
    /\ IsState(State)
    /\ State.subs = subs /\ State.pending = pending /\ State.resources = resources
    /\ State.retired = retired /\ State.wake = wake /\ State.sent = sentSubs
    /\ State.entries = entries /\ State.idle = idle /\ State.callers = callers
  BY DEF State, IsState

LEMMA NextStateFields ==
    /\ IsState(State)'
    /\ State'.subs = subs' /\ State'.pending = pending' /\ State'.resources = resources'
    /\ State'.retired = retired' /\ State'.wake = wake' /\ State'.sent = sentSubs'
    /\ State'.entries = entries' /\ State'.idle = idle' /\ State'.callers = callers'
  BY DEF State, IsState

\* The types of the variables.
LEMMA IInvFields ==
    ASSUME IInv
    PROVE  /\ SubsTyped(subs) /\ EntriesTyped(entries) /\ CallersTyped(callers)
           /\ FunctionOn(Resource, resources) /\ FunctionOn(Demanded, sentSubs)
           /\ wake \in BOOLEAN /\ synced \in BOOLEAN /\ grace \in BOOLEAN
  BY StateFields, Zenon DEF IInv, Typed

\* What IInv says of one sleeper.
LEMMA SleeperFacts ==
    ASSUME IInv, NEW c \in Sleeping(State)
    PROVE  /\ c \in Caller /\ callers[c].pc = "blocked" /\ callers[c].name \in Demanded
           /\ subs[callers[c].name].held /\ subs[callers[c].name].active
           /\ ~entries[callers[c].name].ended
           /\ synced \/ grace => NoAnswer(State, callers[c].name)
  <1>1. c \in Caller /\ callers[c].pc = "blocked"
    BY StateFields DEF Sleeping
  <1>2. callers[c].name \in Demanded
    BY <1>1, IInvFields DEF CallersTyped
  <1>3. Subscribed(State) /\ (synced \/ grace => Unanswered(State))
    BY Zenon DEF IInv
  <1>4. /\ subs[callers[c].name].held /\ subs[callers[c].name].active
        /\ ~entries[callers[c].name].ended
    BY <1>3, StateFields DEF Subscribed
  <1>5. synced \/ grace => NoAnswer(State, callers[c].name)
    BY <1>3, StateFields, Zenon DEF Unanswered
  <1> QED
    BY <1>1, <1>2, <1>4, <1>5

\* The types of the next state from those of its variables.
LEMMA NextTyped ==
    ASSUME SubsTyped(subs'), EntriesTyped(entries'), CallersTyped(callers'),
           FunctionOn(Resource, resources'), FunctionOn(Demanded, sentSubs'), wake' \in BOOLEAN
    PROVE  Typed(State')
  BY NextStateFields, Zenon DEF Typed

\* The fields Commit stores: what is gone is not retired any more.
LEMMA CommitFields ==
    ASSUME NEW t, Typed(t), Commit(t)
    PROVE  /\ Typed(State')
           /\ State'.subs = t.subs /\ State'.pending = t.pending /\ State'.resources = t.resources
           /\ State'.wake = t.wake /\ State'.sent = t.sent /\ State'.entries = t.entries
           /\ State'.callers = t.callers /\ State'.idle = t.idle
           /\ State'.retired = {r \in t.retired : t.resources[r] # Absent}
           /\ resources' = t.resources /\ retired' = State'.retired
  <1>1. /\ State'.subs = t.subs /\ State'.pending = t.pending /\ State'.resources = t.resources
        /\ State'.wake = t.wake /\ State'.sent = t.sent /\ State'.entries = t.entries
        /\ State'.callers = t.callers /\ State'.idle = t.idle
        /\ State'.retired = {r \in t.retired : t.resources[r] # Absent}
        /\ resources' = t.resources /\ retired' = State'.retired
    BY NextStateFields DEF Commit
  <1>2. IsState(State')
    BY NextStateFields
  <1> QED
    BY <1>1, <1>2 DEF Typed

\* Committing a value that keeps what must be kept keeps the invariant.
LEMMA CommitKeeps ==
    ASSUME IInv, NEW t, Kept(State, t), Commit(t), UNCHANGED <<synced, grace, phase>>
    PROVE  IInv'
  <1>1. /\ Typed(State')
        /\ State'.subs = t.subs /\ State'.pending = t.pending /\ State'.resources = t.resources
        /\ State'.wake = t.wake /\ State'.sent = t.sent /\ State'.entries = t.entries
        /\ State'.callers = t.callers
        /\ resources' = t.resources /\ retired' = {r \in t.retired : t.resources[r] # Absent}
    BY CommitFields DEF Kept
  <1>2. Subscribed(State')
    BY <1>1 DEF Kept, Subscribed, Sleeping
  <1>3. Unanswered(t) => Unanswered(State')
    BY <1>1 DEF Unanswered, Sleeping, NoAnswer
  <1>4. Carried(t) => Carried(State')
    BY <1>1 DEF Carried
  <1>5. /\ ~grace' => retired' = {}
        /\ ~synced' => \A r \in Resource : resources'[r] # Absent => r \in retired'
    <2>1. t.retired = retired /\ \A r \in Resource : t.resources[r] \in {resources[r], Absent}
      BY StateFields DEF Kept
    <2> QED
      BY <1>1, <2>1 DEF IInv
  <1>6. synced' \in BOOLEAN /\ grace' \in BOOLEAN
    BY DEF IInv
  <1>7. (synced' \/ grace') => Unanswered(State')
    BY <1>3 DEF IInv, Kept
  <1>8. phase' = "up" => Carried(State')
    BY <1>4 DEF IInv, Kept
  <1> QED
    BY <1>1, <1>2, <1>5, <1>6, <1>7, <1>8 DEF IInv

\* Cache.Get.
LEMMA GetKeeps ==
    ASSUME IInv, NEW c \in Caller, NEW n \in Demanded, Get(c, n)
    PROVE  IInv'
  <1> DEFINE kept == IF entries[n].ended THEN Evict(State, n) ELSE State
             leased == IF kept.entries[n].held THEN kept ELSE Activate(kept, n)
             e == [held |-> TRUE, users |-> leased.entries[n].users + 1, ended |-> FALSE]
             q == Without(leased.idle, n)
             k == [pc |-> "demanding", name |-> n]
             pinned == [leased EXCEPT !.entries[n] = e, !.idle = q, !.callers[c] = k]
  <1>1. Kept(State, kept)
    <2>1. Kept(State, State)
      BY DEF Kept, IInv
    <2> QED
      BY <2>1, EvictKeeps DEF IInv
  <1>2. Kept(kept, leased)
    <2> HIDE DEF kept
    <2>1. Kept(kept, kept)
      BY <1>1 DEF Kept
    <2> QED
      BY <1>1, <2>1, ActivateKeeps DEF Kept
  <1>3. Commit(pinned) /\ UNCHANGED <<synced, grace, phase>>
    BY Zenon DEF Get, epoch, stream
  <1> HIDE DEF leased, q
  <1>4. Kept(leased, pinned)
    <2>1. e \in [held : BOOLEAN, users : Int, ended : BOOLEAN] /\ ~e.ended
      <3>1. EntriesTyped(leased.entries)
        BY <1>2, Zenon DEF Kept, Typed
      <3>2. leased.entries[n].users \in Int
        BY <3>1 DEF EntriesTyped
      <3> QED
        <4>1. ASSUME NEW u \in Int
              PROVE  LET x == [held |-> TRUE, users |-> u + 1, ended |-> FALSE]
                     IN  x \in [held : BOOLEAN, users : Int, ended : BOOLEAN] /\ ~x.ended
          BY ONLY <4>1
        <4> QED
          BY <3>2, <4>1, Zenon
    <2>2. k \in [pc : Phase, name : Demanded] /\ k.pc # "blocked"
      BY DEF Phase
    <2> HIDE DEF e, k
    <2>3. Typed(leased) /\ Subscribed(leased)
      BY <1>2 DEF Kept
    <2> QED
      BY <2>1, <2>2, <2>3, EntryKeeps, Zenon
  <1> HIDE DEF pinned, kept
  <1> QED
    BY <1>1, <1>2, <1>3, <1>4, KeptTransitive, CommitKeeps

\* release after an error.
LEMMA GiveUpKeeps ==
    ASSUME IInv, NEW c \in Caller, GiveUp(c)
    PROVE  IInv'
  <1> DEFINE n == callers[c].name
             left == Unpin(State, c)
             after == IF left.entries[n].users = 0 THEN Evict(left, n) ELSE left
  <1>1. Commit(after) /\ UNCHANGED <<synced, grace, phase>>
    BY Zenon DEF GiveUp, epoch, stream
  <1>2. n \in Demanded
    BY StateFields DEF IInv, Typed, CallersTyped
  <1>3. Kept(State, left)
    BY UnpinKeeps DEF IInv
  <1> HIDE DEF left, n
  <1>4. Kept(left, after)
    <2>1. Kept(left, left)
      BY <1>3 DEF Kept
    <2>2. Typed(left) /\ Subscribed(left)
      BY <1>3 DEF Kept
    <2> QED
      BY <1>2, <2>1, <2>2, EvictKeeps
  <1> HIDE DEF after
  <1> QED
    BY <1>1, <1>3, <1>4, KeptTransitive, CommitKeeps

\* release after use.
LEMMA FinishKeeps ==
    ASSUME IInv, NEW c \in Caller, Finish(c)
    PROVE  IInv'
  <1> DEFINE n == callers[c].name
             left == Unpin(State, c)
             after == IF left.entries[n].users = 0
                      THEN [left EXCEPT !.idle = Append(left.idle, n)] ELSE left
  <1>1. Commit(after) /\ UNCHANGED <<synced, grace, phase>>
    BY Zenon DEF Finish, epoch, stream
  <1>2. Kept(State, left)
    BY UnpinKeeps DEF IInv
  <1> HIDE DEF left, n
  <1>3. Kept(left, after)
    <2>1. Kept(left, left)
      BY <1>2 DEF Kept
    <2>2. Typed(left) /\ Subscribed(left)
      BY <1>2 DEF Kept
    <2> QED
      BY <2>1, <2>2, IdleKeeps, Zenon
  <1> HIDE DEF after
  <1> QED
    BY <1>1, <1>2, <1>3, KeptTransitive, CommitKeeps

\* Cache.prune.
LEMMA PruneKeeps ==
    ASSUME IInv, NEW n \in Demanded, Prune(n)
    PROVE  IInv'
  <1>1. Commit(Evict(State, n)) /\ UNCHANGED <<synced, grace, phase>>
    BY Zenon DEF Prune, epoch, stream
  <1>2. Kept(State, Evict(State, n))
    BY EvictKeeps DEF IInv
  <1> QED
    BY <1>1, <1>2, CommitKeeps

\* A lookup of waitLocked finds nothing only where nothing answers.
LEMMA ResolvePending ==
    ASSUME NEW n \in Demanded, Resolve(resources, n) = Pending
    PROVE  NoAnswer(State, n)
  <1> SUFFICES ASSUME NEW r \in Resource
               PROVE  /\ n \notin resources[r].aliases
                      /\ r = n => resources[r] = Absent
    BY StateFields DEF NoAnswer
  <1> DEFINE owners == {x \in Resource : n \in resources[x].aliases}
             canonical == IF owners = {} THEN {n} \cap Resource ELSE owners
  <1>1. Pending # Ambiguous /\ \A view : Pending # Outcome("ready", view)
    BY DEF Pending, Ambiguous, Outcome
  <1>2. \A x \in canonical : resources[x] = Absent
    BY <1>1, Zenon DEF Resolve
  <1>3. owners = {}
    <2> SUFFICES ASSUME NEW x \in owners PROVE FALSE
      OBVIOUS
    <2>1. resources[x] = Absent /\ n \in resources[x].aliases
      BY <1>2
    <2> QED
      BY <2>1 DEF Absent
  <1> QED
    BY <1>2, <1>3

\* Before synchronization and without a grace the cache is empty.
LEMMA NothingAnswers ==
    ASSUME IInv, ~synced, ~grace, NEW n \in Demanded
    PROVE  NoAnswer(State, n)
  <1>1. \A r \in Resource : resources[r] = Absent
    BY DEF IInv
  <1> QED
    BY <1>1, StateFields DEF NoAnswer, Absent

\* waitLocked: the one step that puts a caller to sleep.
LEMMA CheckKeeps ==
    ASSUME IInv, NEW c \in Caller, Check(c)
    PROVE  IInv'
  <1> DEFINE n == callers[c].name
             outcome == IF synced \/ grace THEN Resolve(resources, n) ELSE Pending
             p == IF outcome.is = "ready" THEN "using"
                  ELSE IF outcome = Pending THEN "blocked" ELSE "demanding"
             a == Activate(State, n)
             t == [a EXCEPT !.callers[c].pc = p]
  <1>1. Commit(t) /\ UNCHANGED <<synced, grace, phase>> /\ ~entries[n].ended
    BY Zenon DEF Check, epoch, stream
  <1>2. n \in Demanded /\ State.callers[c] \in [pc : Phase, name : Demanded]
    BY StateFields DEF IInv, Typed, CallersTyped
  <1>3. /\ Kept(State, a) /\ a.subs[n].held /\ a.subs[n].active
        /\ a.callers = State.callers /\ a.entries = State.entries /\ a.resources = State.resources
    BY <1>2, ActivateKeeps DEF IInv
  <1>4. p \in Phase /\ (p = "blocked" => outcome = Pending)
    BY DEF Phase
  <1>5. p = "blocked" => NoAnswer(State, n)
    BY <1>2, <1>4, ResolvePending, NothingAnswers
  <1> HIDE DEF a, p, outcome
  <1> DEFINE k == [a.callers[c] EXCEPT !.pc = p]
             newCallers == [a.callers EXCEPT ![c] = k]
  <1>6. k \in [pc : Phase, name : Demanded] /\ k.pc = p /\ k.name = n
    BY <1>2, <1>3, <1>4, CallerMoved, StateFields
  <1>7. t = [a EXCEPT !.callers = newCallers]
    BY <1>3 DEF Kept, Typed, IsState
  <1> HIDE DEF t, newCallers, k
  <1>8. /\ IsState(t) /\ t.callers = newCallers /\ t.entries = a.entries
        /\ t.subs = a.subs /\ t.pending = a.pending /\ t.wake = a.wake /\ t.sent = a.sent
        /\ t.resources = a.resources /\ t.retired = a.retired
    BY <1>3, <1>7 DEF Kept, Typed, IsState
  <1>9. /\ CallersTyped(t.callers) /\ t.callers[c] = k
        /\ \A d \in Caller : d # c => t.callers[d] = State.callers[d]
    <2>1. CallersTyped(a.callers)
      BY <1>3, Zenon DEF Kept, Typed
    <2>2. /\ CallersTyped(newCallers) /\ newCallers[c] = k
          /\ \A d \in Caller : d # c => newCallers[d] = a.callers[d]
      BY <1>6, <2>1 DEF newCallers, CallersTyped
    <2> QED
      BY <1>3, <1>8, <2>2, Zenon
  <1>10. Typed(t)
    BY <1>3, <1>8, <1>9 DEF Kept, Typed
  <1>11. Subscribed(t)
    <2> SUFFICES ASSUME NEW d \in Sleeping(t)
                 PROVE  LET m == t.callers[d].name
                        IN  t.subs[m].held /\ t.subs[m].active /\ ~t.entries[m].ended
      BY DEF Subscribed
    <2>1. CASE d = c
      BY <1>1, <1>3, <1>6, <1>8, <1>9, <2>1, StateFields
    <2>2. CASE d # c
      <3>1. d \in Sleeping(a) /\ t.callers[d] = a.callers[d]
        BY <1>3, <1>9, <2>2 DEF Sleeping
      <3> QED
        BY <1>3, <1>8, <3>1, Zenon DEF Kept, Subscribed
    <2> QED
      BY <2>1, <2>2
  <1>12. Unanswered(State) => Unanswered(t)
    <2> SUFFICES ASSUME Unanswered(State), NEW d \in Sleeping(t)
                 PROVE  NoAnswer(State, t.callers[d].name)
      BY <1>3, <1>8 DEF Unanswered, NoAnswer
    <2>1. CASE d = c
      BY <1>5, <1>6, <1>9, <2>1 DEF Sleeping
    <2>2. CASE d # c
      BY <1>9, <2>2 DEF Unanswered, Sleeping
    <2> QED
      BY <2>1, <2>2
  <1>13. Carried(State) => Carried(t)
    BY <1>3, <1>8 DEF Kept, Carried
  <1>14. Kept(State, t)
    BY <1>3, <1>8, <1>10, <1>11, <1>12, <1>13 DEF Kept
  <1> QED
    BY <1>1, <1>14, CommitKeeps

\* A step that stores its fields one by one, instead of by Commit.
LEMMA StepKeeps ==
    ASSUME IInv, Kept(State, State'), UNCHANGED <<synced, grace, phase>>
    PROVE  IInv'
  <1>1. /\ retired' = retired
        /\ \A r \in Resource : resources'[r] \in {resources[r], Absent}
    BY StateFields, NextStateFields DEF Kept
  <1>2. Typed(State') /\ Subscribed(State')
    BY DEF Kept
  <1>3. (synced' \/ grace') => Unanswered(State')
    BY DEF IInv, Kept
  <1>4. phase' = "up" => Carried(State')
    BY DEF IInv, Kept
  <1> QED
    BY <1>1, <1>2, <1>3, <1>4 DEF IInv

\* A step that wakes or dismisses one caller.
LEMMA CallerStepKeeps ==
    ASSUME IInv, NEW c \in Caller, NEW k \in [pc : Phase, name : Demanded], k.pc # "blocked",
           callers' = [callers EXCEPT ![c] = k],
           UNCHANGED <<client, entries, synced, grace, phase>>
    PROVE  IInv'
  <1>1. /\ IsState(State') /\ State'.entries = State.entries
        /\ State'.callers = [State.callers EXCEPT ![c] = k]
        /\ State'.subs = State.subs /\ State'.pending = State.pending /\ State'.wake = State.wake
        /\ State'.sent = State.sent /\ State'.resources = State.resources
        /\ State'.retired = State.retired
    BY StateFields, NextStateFields DEF client
  <1>2. /\ CallersTyped(State'.callers) /\ State'.callers[c] = k
        /\ \A d \in Caller : d # c => State'.callers[d] = State.callers[d]
    BY <1>1 DEF IInv, Typed, CallersTyped
  <1>3. Typed(State')
    BY <1>1, <1>2 DEF IInv, Typed
  <1>4. ASSUME NEW d \in Sleeping(State')
        PROVE  /\ d \in Sleeping(State) /\ State'.callers[d] = State.callers[d]
               /\ State.subs[State.callers[d].name].held
               /\ State.subs[State.callers[d].name].active
               /\ ~State.entries[State.callers[d].name].ended
    <2>1. d \in Sleeping(State) /\ State'.callers[d] = State.callers[d]
      BY <1>2, <1>4 DEF Sleeping
    <2> QED
      BY <2>1, SleeperFacts, StateFields
  <1>5. Subscribed(State')
    <2> SUFFICES ASSUME NEW d \in Sleeping(State')
                 PROVE  LET n == State.callers[d].name
                        IN  State.subs[n].held /\ State.subs[n].active /\ ~State.entries[n].ended
      BY <1>1, <1>4, Zenon DEF Subscribed
    <2> QED
      BY <1>4
  <1>6. Unanswered(State) => Unanswered(State')
    <2> SUFFICES ASSUME Unanswered(State), NEW d \in Sleeping(State')
                 PROVE  NoAnswer(State', State'.callers[d].name)
      BY Zenon DEF Unanswered
    <2>1. NoAnswer(State, State.callers[d].name)
      BY <1>4, Zenon DEF Unanswered
    <2>2. NoAnswer(State', State.callers[d].name)
      BY <1>1, <2>1, Zenon DEF NoAnswer
    <2> QED
      BY <1>4, <2>2, Zenon
  <1>7. Carried(State) => Carried(State')
    BY <1>1 DEF Carried
  <1>8. Kept(State, State')
    BY <1>1, <1>3, <1>5, <1>6, <1>7 DEF Kept
  <1> QED
    BY <1>8, StepKeeps

\* The end of a wait without a result.
LEMMA StopWaitingKeeps ==
    ASSUME IInv, NEW c \in Caller, StopWaiting(c)
    PROVE  IInv'
  <1> DEFINE k == [callers[c] EXCEPT !.pc = "demanding"]
  <1>1. CallersTyped(callers)
    BY StateFields DEF IInv, Typed
  <1>2. callers[c] \in [pc : Phase, name : Demanded]
    BY <1>1 DEF CallersTyped
  <1>3. k \in [pc : Phase, name : Demanded] /\ k.pc # "blocked"
    BY <1>2, CallerMoved DEF Phase
  <1>4. callers' = [callers EXCEPT ![c] = k]
    BY <1>1 DEF StopWaiting, CallersTyped
  <1>5. UNCHANGED <<client, entries, synced, grace, phase>>
    BY Zenon DEF StopWaiting, epoch, stream
  <1> HIDE DEF k
  <1> QED
    BY <1>3, <1>4, <1>5, CallerStepKeeps, Zenon

\* release of an entry the cache no longer has.
LEMMA LeaveKeeps ==
    ASSUME IInv, NEW c \in Caller, Leave(c)
    PROVE  IInv'
  <1>1. NoCaller \in [pc : Phase, name : Demanded] /\ NoCaller.pc # "blocked"
    BY ClientAssumption DEF NoCaller, Phase
  <1>2. /\ callers' = [callers EXCEPT ![c] = NoCaller]
        /\ UNCHANGED <<client, entries, synced, grace, phase>>
    BY Zenon DEF Leave, epoch, stream
  <1> QED
    BY <1>1, <1>2, CallerStepKeeps, Zenon

-----------------------------------------------------------------------------
(* The stream, the writer and responses *)

\* A step of the server, or one that changes nothing the invariant mentions.
LEMMA SilentKeeps ==
    ASSUME IInv, UNCHANGED <<client, retention, synced, grace, phase>>
    PROVE  IInv'
  <1>1. State' = State
    BY Zenon DEF State, client, retention
  <1>2. resources' = resources /\ retired' = retired
    BY DEF client
  <1> QED
    BY <1>1, <1>2 DEF IInv

\* expireGraceLocked: resources go, and with them all that was retired.
LEMMA ExpireGraceKeeps ==
    ASSUME IInv, ExpireGrace
    PROVE  IInv'
  <1>1. /\ grace' = FALSE /\ retired' = {} /\ synced' = synced /\ phase' = phase
        /\ subs' = subs /\ pending' = pending /\ wake' = wake /\ sentSubs' = sentSubs
        /\ entries' = entries /\ callers' = callers
    BY Zenon DEF ExpireGrace, retention, stream
  <1>2. /\ \A r \in Resource : resources'[r] \in {resources[r], Absent}
        /\ \A r \in Resource : r \in retired => resources'[r] = Absent
        /\ FunctionOn(Resource, resources')
    BY DEF ExpireGrace, FunctionOn
  <1>3. Typed(State')
    BY <1>1, <1>2, IInvFields, NextTyped
  <1>4. Subscribed(State')
    <2> SUFFICES ASSUME NEW c \in Sleeping(State')
                 PROVE  LET n == callers[c].name
                        IN  subs[n].held /\ subs[n].active /\ ~entries[n].ended
      BY <1>1, NextStateFields DEF Subscribed
    <2>1. c \in Sleeping(State)
      BY <1>1, StateFields, NextStateFields DEF Sleeping
    <2> QED
      BY <2>1, SleeperFacts
  <1>5. Unanswered(State) => Unanswered(State')
    <2> SUFFICES ASSUME Unanswered(State), NEW c \in Sleeping(State'), NEW r \in Resource
                 PROVE  /\ callers[c].name \notin resources'[r].aliases
                        /\ r = callers[c].name => resources'[r] = Absent
      <3>1. State'.resources = resources' /\ State'.callers = callers
        BY <1>1, NextStateFields, Zenon
      <3> QED
        BY <3>1, Zenon DEF Unanswered, NoAnswer
    <2>1. /\ callers[c].name \notin resources[r].aliases
          /\ r = callers[c].name => resources[r] = Absent
      BY <1>1, StateFields, NextStateFields DEF Unanswered, NoAnswer, Sleeping
    <2>2. Absent.aliases = {}
      BY DEF Absent
    <2> QED
      BY <1>2, <2>1, <2>2
  <1>6. Carried(State) => Carried(State')
    BY <1>1, StateFields, NextStateFields DEF Carried
  <1>7. ~synced' => \A r \in Resource : resources'[r] # Absent => r \in retired'
    BY <1>1, <1>2 DEF IInv
  <1>8. synced' \in BOOLEAN /\ grace' \in BOOLEAN
    BY <1>1, IInvFields, Zenon
  <1>9. (synced' \/ grace') => Unanswered(State')
    BY <1>1, <1>5 DEF IInv
  <1>10. phase' = "up" => Carried(State')
    BY <1>1, <1>6 DEF IInv
  <1> QED
    BY <1>1, <1>3, <1>4, <1>7, <1>8, <1>9, <1>10 DEF IInv

\* A step of the writer: it leaves subscriptions, cache and callers alone.
LEMMA WriterKeeps ==
    ASSUME IInv, UNCHANGED <<subs, resources, retired, entries, callers, synced, grace>>,
           wake' \in BOOLEAN, FunctionOn(Demanded, sentSubs'),
           phase' = "up" => Carried(State')
    PROVE  IInv'
  <1>1. Typed(State')
    BY IInvFields, NextTyped
  <1>2. Subscribed(State')
    <2>1. Subscribed(State)
      BY DEF IInv
    <2> QED
      BY <2>1, StateFields, NextStateFields DEF Subscribed, Sleeping
  <1>3. Unanswered(State) => Unanswered(State')
    BY StateFields, NextStateFields DEF Unanswered, Sleeping, NoAnswer
  <1>4. (synced' \/ grace') => Unanswered(State')
    BY <1>3 DEF IInv
  <1>5. synced' \in BOOLEAN /\ grace' \in BOOLEAN
    BY DEF IInv
  <1>6. /\ ~grace' => retired' = {}
        /\ ~synced' => \A r \in Resource : resources'[r] # Absent => r \in retired'
    BY DEF IInv
  <1> QED
    BY <1>1, <1>2, <1>4, <1>5, <1>6 DEF IInv

\* initialRequests: exactly the active subscriptions are sent.
LEMMA OpenKeeps ==
    ASSUME IInv, Open
    PROVE  IInv'
  <1>1. UNCHANGED <<subs, resources, retired, entries, callers, synced, grace, wake>>
    BY Zenon DEF Open, retention, epoch
  <1>2. \A n \in Demanded : subs[n].active => sentSubs'[n] = "this"
    BY DEF Open
  <1>3. FunctionOn(Demanded, sentSubs')
    BY DEF Open, FunctionOn
  <1>4. Carried(State')
    BY <1>1, <1>2, NextStateFields DEF Carried
  <1>5. wake' \in BOOLEAN
    BY <1>1, IInvFields
  <1> QED
    BY <1>1, <1>3, <1>4, <1>5, WriterKeeps

\* pendingRequests: whatever was pending is sent before the mark goes.
LEMMA OutgoingKeeps ==
    ASSUME IInv, Outgoing
    PROVE  IInv'
  <1> DEFINE subscribe == {n \in pending : subs[n].active /\ sentSubs[n] # "this"}
             unsubscribe == {n \in pending : ~subs[n].held /\ sentSubs[n] # "none"}
  <1>1. UNCHANGED <<subs, resources, retired, entries, callers, synced, grace>>
    BY Zenon DEF Outgoing, retention, epoch
  <1>2. /\ phase = "up" /\ wake' = FALSE
        /\ sentSubs' = [n \in Demanded |-> IF n \in subscribe THEN "this"
                                           ELSE IF n \in unsubscribe THEN "none"
                                           ELSE sentSubs[n]]
    BY Zenon DEF Outgoing
  <1>3. ASSUME NEW n \in Demanded, subs[n].active PROVE sentSubs'[n] = "this"
    <2>1. sentSubs[n] = "this" \/ n \in pending
      BY <1>2, <1>3, StateFields DEF IInv, Carried
    <2>2. subs[n].held
      BY <1>3, IInvFields DEF SubsTyped
    <2> QED
      BY <1>2, <1>3, <2>1, <2>2
  <1>4. FunctionOn(Demanded, sentSubs')
    BY <1>2 DEF FunctionOn
  <1>5. Carried(State')
    BY <1>1, <1>3, NextStateFields DEF Carried
  <1>6. wake' \in BOOLEAN
    BY <1>2, Zenon
  <1> QED
    BY <1>1, <1>4, <1>5, <1>6, WriterKeeps

\* A rejected response leaves a wakeup for its NACK.
LEMMA RejectKeeps ==
    ASSUME IInv, Reject
    PROVE  IInv'
  <1>1. /\ UNCHANGED <<subs, resources, retired, entries, callers, synced, grace, phase>>
        /\ pending' = pending /\ sentSubs' = sentSubs /\ wake' = TRUE
    BY Zenon DEF Reject, retention, epoch
  <1>2. FunctionOn(Demanded, sentSubs') /\ wake' \in BOOLEAN
    BY <1>1, IInvFields
  <1>3. Carried(State) => Carried(State')
    BY <1>1, StateFields, NextStateFields DEF Carried
  <1>4. phase' = "up" => Carried(State')
    BY <1>1, <1>3 DEF IInv
  <1> QED
    BY <1>1, <1>2, <1>4, WriterKeeps

\* reset: a subscription somebody sleeps on stays active, and what was cached
\* is retired under the grace.
LEMMA LoseKeeps ==
    ASSUME IInv, Lose
    PROVE  IInv'
  <1>1. /\ phase' = "down" /\ synced' = FALSE /\ grace' = (grace \/ synced)
        /\ UNCHANGED <<resources, wake, entries, callers>>
        /\ retired' = IF synced THEN {r \in Resource : resources[r] # Absent} ELSE retired
        /\ sentSubs' = NothingSubscribed
    BY Zenon DEF Lose, retention
  <1>2. /\ SubsTyped(subs) /\ EntriesTyped(entries) /\ CallersTyped(callers)
    BY IInvFields
  <1>3. \A n \in Demanded :
           /\ subs'[n].held = subs[n].held
           /\ subs'[n].active = (subs[n].active /\ Waiters(State, n) # {} /\ ~entries[n].ended)
           /\ subs'[n] \in [held : BOOLEAN, active : BOOLEAN]
    <2> SUFFICES ASSUME NEW n \in Demanded
                 PROVE  /\ subs'[n].held = subs[n].held
                        /\ subs'[n].active = (subs[n].active /\ Waiters(State, n) # {}
                                                             /\ ~entries[n].ended)
                        /\ subs'[n] \in [held : BOOLEAN, active : BOOLEAN]
      OBVIOUS
    <2> DEFINE on == subs[n].active /\ Waiters(State, n) # {} /\ ~entries[n].ended
    <2>1. subs'[n] = [subs[n] EXCEPT !.active = on]
      BY DEF Lose
    <2>2. subs[n] \in [held : BOOLEAN, active : BOOLEAN]
      BY <1>2 DEF SubsTyped
    <2>3. on \in BOOLEAN
      OBVIOUS
    <2> HIDE DEF on
    <2>4. /\ subs'[n].held = subs[n].held /\ subs'[n].active = on
          /\ subs'[n] \in [held : BOOLEAN, active : BOOLEAN]
      BY <2>1, <2>2, <2>3
    <2> QED
      BY <2>4 DEF on
  <1>4. SubsTyped(subs')
    <2>1. subs' \in [Demanded -> [held : BOOLEAN, active : BOOLEAN]]
      BY <1>3 DEF Lose
    <2> QED
      BY <1>2, <1>3, <2>1 DEF SubsTyped
  <1>5. FunctionOn(Demanded, sentSubs')
    BY <1>1 DEF FunctionOn, NothingSubscribed
  <1>6. Typed(State')
    BY <1>1, <1>4, <1>5, IInvFields, NextTyped
  <1>7. Subscribed(State')
    <2> SUFFICES ASSUME NEW c \in Sleeping(State')
                 PROVE  LET n == callers[c].name
                        IN  subs'[n].held /\ subs'[n].active /\ ~entries[n].ended
      BY <1>1, NextStateFields DEF Subscribed
    <2> DEFINE n == callers[c].name
    <2>1. c \in Caller /\ callers[c].pc = "blocked" /\ c \in Sleeping(State)
      BY <1>1, StateFields, NextStateFields DEF Sleeping
    <2>2. n \in Demanded /\ subs[n].held /\ subs[n].active /\ ~entries[n].ended
      BY <2>1, SleeperFacts
    <2>3. c \in Waiters(State, n)
      BY <2>1, StateFields DEF Waiters, Pins
    <2> HIDE DEF n
    <2> QED
      BY <1>3, <2>2, <2>3, Zenon DEF n
  <1>8. Unanswered(State) => Unanswered(State')
    <2>1. State'.callers = State.callers /\ State'.resources = State.resources
      BY <1>1, StateFields, NextStateFields, Zenon
    <2> QED
      BY <2>1, Zenon DEF Unanswered, Sleeping, NoAnswer
  <1>9. (synced' \/ grace') => Unanswered(State')
    BY <1>1, <1>8 DEF IInv
  <1>10. /\ ~grace' => retired' = {}
         /\ \A r \in Resource : resources'[r] # Absent => r \in retired'
    BY <1>1 DEF IInv
  <1>11. synced' \in BOOLEAN /\ grace' \in BOOLEAN
    BY <1>1, IInvFields, Zenon
  <1>12. phase' # "up"
    BY <1>1
  <1> QED
    BY <1>6, <1>7, <1>9, <1>10, <1>11, <1>12 DEF IInv

-----------------------------------------------------------------------------
(* A response, and the theorems *)

\* apply: whoever could be answered by a resource that was put, or whose
\* subscription the response deletes, is among those notified.
LEMMA ApplyKeeps ==
    ASSUME IInv, Apply
    PROVE  IInv'
  <1> DEFINE content == Head(down).resources
             removed == Head(down).removed
             replaced == {r \in Resource : content[r] # Absent} \cup (removed \cap Resource)
             put == {r \in decoding.selected : Interested(State, r, content[r])}
             updated == [r \in Resource |-> IF r \in put THEN content[r]
                                            ELSE IF r \in replaced THEN Absent ELSE resources[r]]
             touched == (UNION {resources[r].aliases : r \in replaced})
                           \cup (UNION {content[r].aliases : r \in put})
             owned == UNION {updated[r].aliases : r \in Resource}
             deleted == Held(State) \cap ((touched \ owned) \cup removed)
             woken == touched \cup put \cup deleted
             base == [State EXCEPT !.resources = updated]
             told == Notified(base, woken)
             E == [n \in Demanded |-> IF n \in deleted THEN [told.entries[n] EXCEPT !.ended = TRUE]
                                                       ELSE told.entries[n]]
             ended == [told EXCEPT !.entries = E]
             over == EndSubscriptions(ended, deleted)
             t == [over EXCEPT !.wake = TRUE, !.retired = over.retired \ replaced]
  <1>1. /\ Commit(t) /\ synced' = TRUE /\ grace' = grace /\ phase' = phase
    BY Zenon DEF Apply
  <1> HIDE DEF base, told, E, ended, over, t
  <1>2. \A n \in Demanded : NoAnswer(State, n) /\ n \notin woken =>
           \A r \in Resource : n \notin updated[r].aliases /\ (r = n => updated[r] = Absent)
    <2> SUFFICES ASSUME NEW n \in Demanded, NoAnswer(State, n), n \notin touched, n \notin put,
                        NEW r \in Resource
                 PROVE  n \notin updated[r].aliases /\ (r = n => updated[r] = Absent)
      BY Zenon
    <2>1. n \notin resources[r].aliases /\ (r = n => resources[r] = Absent)
      BY StateFields DEF NoAnswer
    <2>2. r \in put => n \notin content[r].aliases
      <3> SUFFICES ASSUME r \in put, n \in content[r].aliases PROVE FALSE
        OBVIOUS
      <3> HIDE DEF put, content, replaced
      <3> DEFINE offered == UNION {content[x].aliases : x \in put}
      <3>1. touched = (UNION {resources[x].aliases : x \in replaced}) \cup offered
        OBVIOUS
      <3>2. \E x \in put : n \in content[x].aliases
        OBVIOUS
      <3>3. n \in offered
        BY <3>2, Zenon
      <3> HIDE DEF touched, offered
      <3> QED
        BY <3>1, <3>3, Zenon
    <2>3. Absent.aliases = {}
      BY DEF Absent
    <2>4. updated[r] = IF r \in put THEN content[r]
                       ELSE IF r \in replaced THEN Absent ELSE resources[r]
      OBVIOUS
    <2> HIDE DEF updated, put, replaced, content
    <2> QED
      BY <2>1, <2>2, <2>3, <2>4
  <1>3. FunctionOn(Resource, updated)
    BY DEF FunctionOn
  <1>4. deleted \subseteq woken /\ deleted \subseteq Demanded
    BY Zenon DEF Held
  <1> HIDE DEF updated, replaced, woken, deleted
  <1>5. /\ IsState(base) /\ base.resources = updated /\ base.subs = subs
        /\ base.pending = pending /\ base.wake = wake /\ base.sent = sentSubs
        /\ base.retired = retired /\ base.entries = entries /\ base.callers = callers
    BY StateFields DEF IsState, base
  <1>6. Typed(base)
    BY <1>3, <1>5, IInvFields, Zenon DEF Typed
  <1>7. /\ IsState(told)
        /\ told.callers = [c \in Caller |->
              IF callers[c].pc = "blocked" /\ callers[c].name \in woken
              THEN [callers[c] EXCEPT !.pc = "woken"] ELSE callers[c]]
        /\ told.subs = subs /\ told.pending = pending /\ told.wake = wake
        /\ told.sent = sentSubs /\ told.resources = updated /\ told.retired = retired
        /\ told.entries = entries
    <2>1. /\ IsState(told)
          /\ told.callers = [c \in Caller |->
                IF base.callers[c].pc = "blocked" /\ base.callers[c].name \in woken
                THEN [base.callers[c] EXCEPT !.pc = "woken"] ELSE base.callers[c]]
          /\ told.subs = base.subs /\ told.pending = base.pending /\ told.wake = base.wake
          /\ told.sent = base.sent /\ told.resources = base.resources
          /\ told.retired = base.retired /\ told.entries = base.entries
      BY <1>6, NotifiedFields DEF told
    <2> QED
      BY <1>5, <2>1
  <1>8. /\ CallersTyped(told.callers)
        /\ \A c \in Caller : told.callers[c].pc = "blocked" =>
              told.callers[c] = callers[c] /\ callers[c].name \notin woken
    <2>1. CallersTyped(callers)
      BY IInvFields
    <2>2. ASSUME NEW c \in Caller
          PROVE  /\ told.callers[c] \in [pc : Phase, name : Demanded]
                 /\ told.callers[c].pc = "blocked" =>
                       told.callers[c] = callers[c] /\ callers[c].name \notin woken
      <3>1. callers[c] \in [pc : Phase, name : Demanded]
        BY <2>1 DEF CallersTyped
      <3>2. LET k == [callers[c] EXCEPT !.pc = "woken"]
            IN  k \in [pc : Phase, name : Demanded] /\ k.pc = "woken"
        BY <3>1, CallerMoved DEF Phase
      <3>3. CASE callers[c].pc = "blocked" /\ callers[c].name \in woken
        <4>1. told.callers[c] = [callers[c] EXCEPT !.pc = "woken"]
          BY <1>7, <3>3
        <4> QED
          BY <3>2, <4>1
      <3>4. CASE ~(callers[c].pc = "blocked" /\ callers[c].name \in woken)
        <4>1. told.callers[c] = callers[c]
          BY <1>7, <3>4
        <4> QED
          BY <3>1, <3>4, <4>1
      <3> QED
        BY <3>3, <3>4
    <2>3. told.callers = [c \in Caller |-> told.callers[c]]
      BY <1>7
    <2> QED
      BY <2>2, <2>3 DEF CallersTyped
  <1>9. /\ EntriesTyped(E)
        /\ \A n \in Demanded : n \notin deleted => E[n] = entries[n]
    <2>1. EntriesTyped(entries)
      BY IInvFields
    <2> QED
      BY <1>7, <2>1, Zenon DEF EntriesTyped, E
  <1>10. /\ IsState(ended) /\ ended.entries = E /\ ended.callers = told.callers
         /\ ended.subs = subs /\ ended.pending = pending /\ ended.wake = wake
         /\ ended.sent = sentSubs /\ ended.resources = updated /\ ended.retired = retired
    BY <1>7 DEF IsState, ended
  <1>11. Typed(ended)
    BY <1>3, <1>8, <1>9, <1>10, IInvFields, Zenon DEF Typed
  <1>12. /\ IsState(over)
         /\ over.subs = [n \in Demanded |-> IF n \in deleted THEN NoSub ELSE ended.subs[n]]
         /\ over.pending = ended.pending \cup deleted
         /\ over.sent = [n \in Demanded |->
                IF n \in deleted /\ ended.sent[n] = "this" THEN "older" ELSE ended.sent[n]]
         /\ over.resources = ended.resources /\ over.retired = ended.retired
         /\ over.entries = ended.entries /\ over.callers = ended.callers
    <2>1. Ended(ended, deleted, over)
      BY <1>11, EndSubscriptionsFields, Zenon DEF over
    <2> QED
      BY <2>1, Zenon DEF Ended
  <1>13. /\ IsState(t) /\ t.subs = over.subs /\ t.pending = over.pending /\ t.wake = TRUE
         /\ t.sent = over.sent /\ t.resources = updated /\ t.retired = retired \ replaced
         /\ t.entries = E /\ t.callers = told.callers
    <2> DEFINE left == over.retired \ replaced
    <2>1. t = [over EXCEPT !.wake = TRUE, !.retired = left]
      BY Zenon DEF t
    <2>2. IsState(over)
      BY <1>12, Zenon
    <2> HIDE DEF left
    <2>3. /\ IsState(t) /\ t.subs = over.subs /\ t.pending = over.pending /\ t.wake = TRUE
          /\ t.sent = over.sent /\ t.resources = over.resources /\ t.retired = left
          /\ t.entries = over.entries /\ t.callers = over.callers
      BY <2>1, <2>2, Zenon DEF IsState
    <2>4. /\ over.resources = updated /\ over.retired = retired
          /\ over.entries = E /\ over.callers = told.callers
      BY <1>10, <1>12, Zenon
    <2> QED
      BY <2>3, <2>4, Zenon DEF left
  <1>14. /\ SubsTyped(t.subs) /\ FunctionOn(Demanded, t.sent)
         /\ \A n \in Demanded : n \notin deleted => t.subs[n] = subs[n] /\ t.sent[n] = sentSubs[n]
         /\ \A n \in Demanded : t.subs[n].active => n \notin deleted
    <2>1. /\ SubsTyped(t.subs)
          /\ \A n \in Demanded : /\ n \notin deleted => t.subs[n] = subs[n]
                                 /\ t.subs[n].active => n \notin deleted
      <3>1. SubsTyped(ended.subs) /\ ended.subs = subs
        BY <1>10, IInvFields
      <3>2. t.subs = [n \in Demanded |-> IF n \in deleted THEN NoSub ELSE ended.subs[n]]
        BY <1>12, <1>13
      <3> QED
        BY <3>1, <3>2, EndedSubs
    <2>2. /\ FunctionOn(Demanded, t.sent)
          /\ \A n \in Demanded : n \notin deleted => t.sent[n] = sentSubs[n]
      <3>1. ended.sent = sentSubs
        BY <1>10
      <3>2. t.sent = [n \in Demanded |-> IF n \in deleted /\ ended.sent[n] = "this"
                                         THEN "older" ELSE ended.sent[n]]
        BY <1>12, <1>13
      <3> QED
        BY <3>1, <3>2 DEF FunctionOn
    <2> QED
      BY <2>1, <2>2
  <1>15. Typed(t)
    BY <1>3, <1>8, <1>9, <1>13, <1>14, Zenon DEF Typed
  <1>16. /\ Typed(State')
         /\ State'.subs = t.subs /\ State'.pending = t.pending /\ State'.resources = updated
         /\ State'.wake = TRUE /\ State'.sent = t.sent /\ State'.entries = E
         /\ State'.callers = told.callers
         /\ retired' \subseteq retired
    <2>1. /\ State'.retired = {r \in t.retired : t.resources[r] # Absent}
          /\ retired' = State'.retired
      BY <1>1, <1>15, CommitFields
    <2>2. /\ Typed(State')
          /\ State'.subs = t.subs /\ State'.pending = t.pending /\ State'.resources = t.resources
          /\ State'.wake = t.wake /\ State'.sent = t.sent /\ State'.entries = t.entries
          /\ State'.callers = t.callers
      BY <1>1, <1>15, CommitFields
    <2> QED
      BY <1>13, <2>1, <2>2
  <1>17. ASSUME NEW c \in Sleeping(State')
         PROVE  /\ c \in Sleeping(State) /\ State'.callers[c] = State.callers[c]
                /\ callers[c].name \in Demanded /\ callers[c].name \notin woken
    <2>1. c \in Caller /\ told.callers[c].pc = "blocked"
      BY <1>16, <1>17 DEF Sleeping
    <2>2. told.callers[c] = callers[c] /\ callers[c].name \notin woken
      BY <1>8, <2>1
    <2>3. c \in Sleeping(State)
      BY <2>1, <2>2, StateFields DEF Sleeping
    <2>4. callers[c].name \in Demanded
      BY <2>3, SleeperFacts
    <2> QED
      BY <1>16, <2>2, <2>3, <2>4, StateFields
  <1>18. Subscribed(State')
    <2> SUFFICES ASSUME NEW c \in Sleeping(State')
                 PROVE  LET n == callers[c].name
                        IN  t.subs[n].held /\ t.subs[n].active /\ ~E[n].ended
      BY <1>16, <1>17, StateFields, Zenon DEF Subscribed
    <2> DEFINE n == callers[c].name
    <2>1. n \in Demanded /\ n \notin deleted
      BY <1>4, <1>17
    <2>2. subs[n].held /\ subs[n].active /\ ~entries[n].ended
      BY <1>17, SleeperFacts
    <2>3. t.subs[n] = subs[n] /\ E[n] = entries[n]
      BY <1>9, <1>14, <2>1
    <2> QED
      BY <2>2, <2>3
  <1>19. Unanswered(State')
    <2> SUFFICES ASSUME NEW c \in Sleeping(State'), NEW r \in Resource
                 PROVE  /\ callers[c].name \notin updated[r].aliases
                        /\ r = callers[c].name => updated[r] = Absent
      <3>1. State'.resources = updated
        BY <1>16
      <3>2. \A c \in Sleeping(State') : State'.callers[c] = callers[c]
        BY <1>17, StateFields
      <3> QED
        BY <3>1, <3>2, Zenon DEF Unanswered, NoAnswer
    <2>1. NoAnswer(State, callers[c].name)
      <3>1. CASE synced \/ grace
        BY <1>17, <3>1, SleeperFacts
      <3>2. CASE ~synced /\ ~grace
        BY <1>17, <3>2, NothingAnswers
      <3> QED
        BY <3>1, <3>2
    <2> QED
      BY <1>2, <1>17, <2>1, Zenon
  <1>20. phase' = "up" => Carried(State')
    <2> SUFFICES ASSUME phase = "up", NEW n \in Demanded, t.subs[n].active
                 PROVE  t.sent[n] = "this" \/ n \in t.pending
      BY <1>1, <1>16 DEF Carried
    <2>1. n \notin deleted /\ subs[n].active /\ t.sent[n] = sentSubs[n]
      BY <1>14
    <2>2. sentSubs[n] = "this" \/ n \in pending
      BY <2>1, StateFields DEF IInv, Carried
    <2> QED
      BY <1>10, <1>12, <1>13, <2>1, <2>2
  <1>21. /\ synced' \in BOOLEAN /\ grace' \in BOOLEAN /\ synced'
         /\ ~grace' => retired' = {}
    BY <1>1, <1>16 DEF IInv
  <1> QED
    BY <1>16, <1>18, <1>19, <1>20, <1>21 DEF IInv

LEMMA InitIInv == Init => IInv
  <1> SUFFICES ASSUME Init PROVE IInv
    OBVIOUS
  <1>1. /\ subs = [n \in Demanded |-> NoSub] /\ resources = Nothing /\ retired = {}
        /\ synced = FALSE /\ grace = FALSE /\ wake = FALSE /\ phase = "down"
        /\ sentSubs = NothingSubscribed /\ entries = [n \in Demanded |-> NoEntry]
        /\ callers = [c \in Caller |-> NoCaller]
    BY Zenon DEF Init
  <1>2. NoCaller \in [pc : Phase, name : Demanded] /\ NoCaller.pc # "blocked"
    BY ClientAssumption DEF NoCaller, Phase
  <1>3. SubsTyped(subs) /\ EntriesTyped(entries)
    BY <1>1 DEF SubsTyped, EntriesTyped, NoSub, NoEntry
  <1>4. CallersTyped(callers) /\ \A c \in Caller : callers[c].pc # "blocked"
    BY <1>1, <1>2 DEF CallersTyped
  <1>5. FunctionOn(Resource, resources) /\ FunctionOn(Demanded, sentSubs)
    BY <1>1 DEF FunctionOn, Nothing, NothingSubscribed
  <1>6. Typed(State)
    BY <1>1, <1>3, <1>4, <1>5, StateFields, Zenon DEF Typed
  <1>7. Subscribed(State) /\ Unanswered(State)
    BY <1>4, StateFields DEF Subscribed, Unanswered, Sleeping
  <1>8. \A r \in Resource : resources[r] = Absent
    BY <1>1 DEF Nothing
  <1> QED
    BY <1>1, <1>6, <1>7, <1>8, Zenon DEF IInv

\* One case per action.
LEMMA NextIInv == IInv /\ [Next]_vars => IInv'
  <1> SUFFICES ASSUME IInv, [Next]_vars PROVE IInv'
    OBVIOUS
  <1>1. CASE Server
    BY <1>1, SilentKeeps DEF Server, clientVars, epoch, stream
  <1>2. ASSUME NEW c \in Caller, NEW n \in Demands[c], Get(c, n) PROVE IInv'
    BY <1>2, GetKeeps DEF Demanded
  <1>3. ASSUME NEW c \in Caller,
               Check(c) \/ StopWaiting(c) \/ GiveUp(c) \/ Finish(c) \/ Leave(c)
        PROVE  IInv'
    BY <1>3, CheckKeeps, StopWaitingKeeps, GiveUpKeeps, FinishKeeps, LeaveKeeps
  <1>4. ASSUME NEW n \in Demanded, Prune(n) PROVE IInv'
    BY <1>4, PruneKeeps
  <1>5. CASE Lose \/ ExpireGrace
    BY <1>5, LoseKeeps, ExpireGraceKeeps
  <1>6. CASE Open \/ Outgoing
    BY <1>6, OpenKeeps, OutgoingKeeps
  <1>7. CASE Receive
    BY <1>7, SilentKeeps DEF Receive, epoch
  <1>8. CASE Reject \/ Apply
    BY <1>8, RejectKeeps, ApplyKeeps
  <1>9. CASE UNCHANGED vars
    BY <1>9, SilentKeeps DEF vars, clientVars, epoch, stream
  <1> QED
    BY <1>1, <1>2, <1>3, <1>4, <1>5, <1>6, <1>7, <1>8, <1>9 DEF Next

\* IInv holds in every reachable state of the client and the demand cache
\* (pkg/xdsclient, pkg/demandcache).
THEOREM Invariance == Spec => []IInv
  BY InitIInv, NextIInv, PTL DEF Spec

\* A lookup of a name nothing answers is pending.
LEMMA NoAnswerIsPending ==
    ASSUME NEW n \in Demanded, NoAnswer(State, n)
    PROVE  Resolve(resources, n) = Pending
  <1> DEFINE owners == {x \in Resource : n \in resources[x].aliases}
             canonical == IF owners = {} THEN {n} \cap Resource ELSE owners
  <1>1. \A r \in Resource : n \notin resources[r].aliases /\ (r = n => resources[r] = Absent)
    BY StateFields DEF NoAnswer
  <1>2. owners = {} /\ canonical = {n} \cap Resource
    BY <1>1
  <1>3. ~ \E a, b \in owners : a # b
    BY <1>2
  <1>4. ~ \E r \in canonical : resources[r] # Absent
    BY <1>1, <1>2
  <1> QED
    BY <1>3, <1>4, Zenon DEF Resolve

\* Whatever the callers, names and resources: a caller asleep in Demand has a
\* subscription that has not ended and no answer in the cache (waitLocked,
\* notify and apply miss no wakeup).
THEOREM SleepersHaveNoAnswer == Spec => []WaitersAreWoken
  <1>1. IInv => WaitersAreWoken
    <2> SUFFICES ASSUME IInv, NEW c \in Caller, callers[c].pc = "blocked"
                 PROVE  /\ subs[callers[c].name].held
                        /\ synced \/ grace => Resolve(resources, callers[c].name) = Pending
      BY DEF WaitersAreWoken
    <2>1. c \in Sleeping(State) /\ callers[c].name \in Demanded
      BY StateFields, IInvFields DEF Sleeping, CallersTyped
    <2> QED
      BY <2>1, SleeperFacts, NoAnswerIsPending
  <1> QED
    BY <1>1, Invariance, PTL

\* Whatever the callers, names and resources: a caller asleep in Demand has an
\* active subscription, and on an open stream every active one has been sent or
\* is pending with a wakeup for the writer (reset, initialRequests and
\* pendingRequests lose none).
THEOREM SleepersReachTheStream == Spec => []WaitersAreCarried
  <1>1. IInv => WaitersAreCarried
    <2> SUFFICES ASSUME IInv PROVE WaitersAreCarried
      OBVIOUS
    <2>1. ASSUME NEW c \in Caller, callers[c].pc = "blocked"
          PROVE  subs[callers[c].name].active
      BY <2>1, SleeperFacts, StateFields DEF Sleeping
    <2>2. phase = "up" => \A n \in Demanded :
             subs[n].active => sentSubs[n] = "this" \/ (n \in pending /\ wake)
      BY StateFields DEF IInv, Carried
    <2> QED
      BY <2>1, <2>2, Zenon DEF WaitersAreCarried
  <1> QED
    BY <1>1, Invariance, PTL

\* Whatever the resources: outside the grace nothing is retired, and a client
\* that is not synchronized has nothing in the cache (reset, apply and
\* expireGraceLocked).
THEOREM GraceStaysBounded == Spec => []GraceIsBounded
  <1>1. IInv => GraceIsBounded
    <2> SUFFICES ASSUME IInv, ~grace PROVE retired = {} /\ (synced \/ resources = Nothing)
      BY DEF GraceIsBounded
    <2>1. retired = {} /\ (~synced => \A r \in Resource : resources[r] = Absent)
      BY DEF IInv
    <2>2. resources = [r \in Resource |-> resources[r]]
      BY StateFields DEF IInv, Typed, FunctionOn
    <2>3. ~synced => resources = Nothing
      BY <2>1, <2>2 DEF Nothing
    <2> QED
      BY <2>1, <2>3
  <1> QED
    BY <1>1, Invariance, PTL

-----------------------------------------------------------------------------
(* The retention cache: the LRU list and the pins *)

\* q lists the names of A, each once.
List(q, A) == q \in Seq(Demanded) /\ Range(q) = A /\ IsInjective(q)

LEMMA ListElim ==
    ASSUME NEW q, NEW A, List(q, A)
    PROVE  /\ Len(q) \in Nat /\ DOMAIN q = 1 .. Len(q)
           /\ \A i \in 1 .. Len(q) : q[i] \in Demanded /\ q[i] \in A
           /\ \A a \in A : \E i \in 1 .. Len(q) : q[i] = a
           /\ \A i, j \in 1 .. Len(q) : q[i] = q[j] => i = j
  <1>1. q \in Seq(Demanded)
    BY DEF List
  <1>2. /\ Len(q) \in Nat /\ DOMAIN q = 1 .. Len(q)
        /\ \A i \in 1 .. Len(q) : q[i] \in Demanded
    BY <1>1
  <1>3. /\ \A i \in 1 .. Len(q) : q[i] \in A
        /\ \A a \in A : \E i \in 1 .. Len(q) : q[i] = a
    BY <1>2 DEF List, Range
  <1>4. \A i, j \in 1 .. Len(q) : q[i] = q[j] => i = j
    BY <1>2 DEF List, IsInjective
  <1> QED
    BY <1>2, <1>3, <1>4

LEMMA ListIntro ==
    ASSUME NEW m \in Nat, NEW q, NEW A, q = [i \in 1 .. m |-> q[i]],
           \A i \in 1 .. m : q[i] \in Demanded /\ q[i] \in A,
           \A a \in A : \E i \in 1 .. m : q[i] = a,
           \A i, j \in 1 .. m : q[i] = q[j] => i = j
    PROVE  List(q, A)
  <1>1. DOMAIN q = 1 .. m
    OBVIOUS
  <1>2. q \in Seq(Demanded)
    BY <1>1
  <1>3. Range(q) = A
    BY <1>1 DEF Range
  <1>4. IsInjective(q)
    BY <1>1 DEF IsInjective
  <1> QED
    BY <1>2, <1>3, <1>4 DEF List

\* list.Remove: the other names stay, each once.
LEMMA WithoutList ==
    ASSUME NEW q, NEW A, List(q, A), NEW n
    PROVE  List(Without(q, n), A \ {n})
  <1>1. /\ Len(q) \in Nat /\ DOMAIN q = 1 .. Len(q)
        /\ \A i \in 1 .. Len(q) : q[i] \in Demanded /\ q[i] \in A
        /\ \A a \in A : \E i \in 1 .. Len(q) : q[i] = a
        /\ \A i, j \in 1 .. Len(q) : q[i] = q[j] => i = j
    BY ListElim
  <1>2. CASE n \notin Range(q)
    <2>1. Without(q, n) = q
      BY <1>2 DEF Without
    <2>2. A \ {n} = A
      BY <1>2 DEF List
    <2> QED
      BY <2>1, <2>2
  <1>3. CASE n \in Range(q)
    <2> DEFINE at == CHOOSE i \in DOMAIN q : q[i] = n
               L == Len(q)
               w == [i \in 1 .. L - 1 |-> IF i < at THEN q[i] ELSE q[i + 1]]
               place(i) == IF i < at THEN i ELSE i + 1
    <2>1. Without(q, n) = w
      BY <1>3, Zenon DEF Without
    <2>2. at \in 1 .. L /\ q[at] = n
      <3>1. \E i \in DOMAIN q : q[i] = n
        BY <1>3 DEF Range
      <3> QED
        BY <1>1, <3>1
    <2>3. L \in Nat /\ L - 1 \in Nat
      BY <1>1, <2>2
    <2> HIDE DEF at, L
    <2>4. \A i \in 1 .. L - 1 : /\ place(i) \in 1 .. L /\ place(i) # at
                                /\ w[i] = q[place(i)]
      BY <2>2, <2>3
    <2>5. \A j \in 1 .. L : j # at => \E i \in 1 .. L - 1 : place(i) = j
      <3> SUFFICES ASSUME NEW j \in 1 .. L, j # at PROVE \E i \in 1 .. L - 1 : place(i) = j
        OBVIOUS
      <3>1. CASE j < at
        BY <2>2, <2>3, <3>1
      <3>2. CASE ~(j < at)
        <4>1. j - 1 \in 1 .. L - 1 /\ place(j - 1) = j
          BY <2>2, <2>3, <3>2
        <4> QED
          BY <4>1
      <3> QED
        BY <3>1, <3>2
    <2>6. \A i, j \in 1 .. L - 1 : place(i) = place(j) => i = j
      BY <2>2, <2>3
    <2>7. w = [i \in 1 .. L - 1 |-> w[i]]
      OBVIOUS
    <2> HIDE DEF place, w
    <2>8. /\ \A i \in 1 .. L : q[i] \in Demanded /\ q[i] \in A
          /\ \A a \in A : \E i \in 1 .. L : q[i] = a
          /\ \A i, j \in 1 .. L : q[i] = q[j] => i = j
      BY <1>1 DEF L
    <2> DEFINE B == A \ {n}
    <2>9. \A i \in 1 .. L - 1 : w[i] \in Demanded /\ w[i] \in B
      <3> SUFFICES ASSUME NEW i \in 1 .. L - 1 PROVE w[i] \in Demanded /\ w[i] \in B
        OBVIOUS
      <3>1. place(i) \in 1 .. L /\ place(i) # at /\ w[i] = q[place(i)]
        BY <2>4, Zenon
      <3>2. w[i] \in Demanded /\ w[i] \in A
        BY <2>8, <3>1, Zenon
      <3>3. w[i] # n
        BY <2>2, <2>8, <3>1, Zenon
      <3> QED
        BY <3>2, <3>3, Zenon
    <2>10. \A a \in B : \E i \in 1 .. L - 1 : w[i] = a
      <3> SUFFICES ASSUME NEW a \in B PROVE \E i \in 1 .. L - 1 : w[i] = a
        OBVIOUS
      <3>1. PICK j \in 1 .. L : q[j] = a
        BY <2>8
      <3>2. PICK i \in 1 .. L - 1 : place(i) = j
        BY <2>2, <2>5, <3>1
      <3> QED
        BY <2>4, <3>1, <3>2
    <2>11. \A i, j \in 1 .. L - 1 : w[i] = w[j] => i = j
      BY <2>4, <2>6, <2>8, Zenon
    <2> HIDE DEF B
    <2>12. List(w, B)
      BY <2>3, <2>7, <2>9, <2>10, <2>11, ListIntro
    <2> QED
      BY <2>1, <2>12 DEF B
  <1> QED
    BY <1>2, <1>3

\* list.PushBack of a name that is not in the list.
LEMMA AppendList ==
    ASSUME NEW q, NEW A, List(q, A), NEW n \in Demanded, n \notin A
    PROVE  List(Append(q, n), A \cup {n})
  <1> DEFINE w == Append(q, n)
             L == Len(q)
             B == A \cup {n}
  <1>1. /\ L \in Nat
        /\ \A i \in 1 .. L : q[i] \in Demanded /\ q[i] \in A
        /\ \A a \in A : \E i \in 1 .. L : q[i] = a
        /\ \A i, j \in 1 .. L : q[i] = q[j] => i = j
    BY ListElim
  <1>2. /\ w = [i \in 1 .. L + 1 |-> w[i]] /\ w[L + 1] = n
        /\ \A i \in 1 .. L : w[i] = q[i]
    <2>1. q \in Seq(Demanded)
      BY DEF List
    <2>2. w \in Seq(Demanded) /\ Len(w) = L + 1
      BY <2>1
    <2>3. w[L + 1] = n /\ \A i \in 1 .. L : w[i] = q[i]
      BY <2>1
    <2> HIDE DEF w
    <2> QED
      BY <2>2, <2>3
  <1> HIDE DEF w, L
  <1>3. /\ L + 1 \in Nat /\ L + 1 \in 1 .. L + 1
        /\ \A i \in 1 .. L + 1 : i \in 1 .. L \/ i = L + 1
        /\ \A i \in 1 .. L : i \in 1 .. L + 1
    BY <1>1
  <1>4. \A i \in 1 .. L + 1 : w[i] \in Demanded /\ w[i] \in B
    BY <1>1, <1>2, <1>3, Zenon
  <1>5. \A a \in B : \E i \in 1 .. L + 1 : w[i] = a
    BY <1>1, <1>2, <1>3, Zenon
  <1>6. \A i, j \in 1 .. L + 1 : w[i] = w[j] => i = j
    BY <1>1, <1>2, <1>3, Zenon
  <1> HIDE DEF B
  <1>7. List(w, B)
    BY ONLY <1>2, <1>3, <1>4, <1>5, <1>6, ListIntro
  <1> QED
    BY <1>7 DEF w, B

\* The callers that pin n, of callers k.
Pinned(k) == k.pc \notin {"idle", "old"}
PinSet(k, n) == {c \in Caller : k[c].name = n /\ Pinned(k[c])}

LEMMA PinsOf ==
    ASSUME NEW s, NEW n
    PROVE  Pins(s, n) = PinSet(s.callers, n)
  BY DEF Pins, PinSet, Pinned

LEMMA PinSetFinite ==
    ASSUME CountingFacts, NEW k, NEW n
    PROVE  IsFiniteSet(PinSet(k, n)) /\ Cardinality(PinSet(k, n)) \in Nat
  <1>1. PinSet(k, n) \in SUBSET Caller
    BY DEF PinSet
  <1>2. IsFiniteSet(Caller)
    BY ClientAssumption
  <1> QED
    BY <1>1, <1>2 DEF CountingFacts, SubsetsCount, CardinalityIsNatural

\* One caller takes a pin on n, or gives one up.
PinsBy(k, l, n, d) == /\ Cardinality(PinSet(l, n)) = Cardinality(PinSet(k, n)) + d
                      /\ \A m : m # n => PinSet(l, m) = PinSet(k, m)

LEMMA PinTaken ==
    ASSUME CountingFacts, NEW k, NEW l, NEW c \in Caller, NEW n, ~Pinned(k[c]), Pinned(l[c]), l[c].name = n,
           \A d \in Caller : d # c => l[d] = k[d]
    PROVE  PinsBy(k, l, n, 1)
  <1>1. PinSet(l, n) = PinSet(k, n) \cup {c} /\ c \notin PinSet(k, n)
    BY DEF PinSet
  <1>2. \A m : m # n => PinSet(l, m) = PinSet(k, m)
    BY DEF PinSet
  <1>3. IsFiniteSet(PinSet(k, n))
    BY PinSetFinite
  <1> QED
    BY <1>1, <1>2, <1>3, Zenon DEF CountingFacts, AddingCounts, PinsBy

LEMMA PinDropped ==
    ASSUME CountingFacts, NEW k, NEW l, NEW c \in Caller, NEW n, Pinned(k[c]), k[c].name = n, ~Pinned(l[c]),
           \A d \in Caller : d # c => l[d] = k[d]
    PROVE  PinsBy(k, l, n, -1)
  <1>1. PinSet(l, n) = PinSet(k, n) \ {c} /\ c \in PinSet(k, n)
    BY DEF PinSet
  <1>2. \A m : m # n => PinSet(l, m) = PinSet(k, m)
    BY DEF PinSet
  <1>3. IsFiniteSet(PinSet(k, n)) /\ Cardinality(PinSet(k, n)) \in Nat
    BY PinSetFinite
  <1>4. Cardinality(PinSet(k, n) \ {c}) = Cardinality(PinSet(k, n)) - 1
    BY <1>1, <1>3, Zenon DEF CountingFacts, RemovingCounts
  <1> QED
    BY <1>1, <1>2, <1>3, <1>4 DEF PinsBy

\* Callers that move on without taking or giving up a pin.
LEMMA PinsStay ==
    ASSUME NEW k, NEW l, \A c \in Caller : /\ Pinned(l[c]) <=> Pinned(k[c])
                                           /\ Pinned(k[c]) => l[c].name = k[c].name
    PROVE  \A n : PinSet(l, n) = PinSet(k, n)
  BY DEF PinSet

\* What RetentionIsExact says of a value, and that the cache forgets what it does
\* not hold: without that a new entry could start with the pins of an old one.
IdleNames(s) == {n \in Demanded : s.entries[n].held /\ s.entries[n].users = 0}
Leased(s) == \A n \in Demanded : s.subs[n].held <=> s.entries[n].held /\ ~s.entries[n].ended
Counted(s) == \A n \in Demanded : /\ s.entries[n].users = Cardinality(PinSet(s.callers, n))
                                  /\ ~s.entries[n].held => s.entries[n] = NoEntry
Retained(s) == Leased(s) /\ Counted(s) /\ List(s.idle, IdleNames(s))

\* Whoever pins a name pins an entry of the cache, which is not idle.
LEMMA PinnedEntry ==
    ASSUME CountingFacts, NEW s, Counted(s), NEW c \in Caller, Pinned(s.callers[c]),
           s.callers[c].name \in Demanded
    PROVE  LET e == s.entries[s.callers[c].name]
           IN  e.held /\ e.users \in Nat /\ e.users # 0
  <1> DEFINE n == s.callers[c].name
             P == PinSet(s.callers, n)
  <1>1. c \in P
    BY DEF PinSet
  <1>2. IsFiniteSet(P) /\ Cardinality(P) \in Nat
    BY PinSetFinite
  <1>3. Cardinality(P) # 0
    BY <1>1, <1>2 DEF CountingFacts, EmptySetCounts, SubsetsCount
  <1>4. s.entries[n].users = Cardinality(P) /\ (~s.entries[n].held => s.entries[n] = NoEntry)
    BY DEF Counted
  <1>5. NoEntry.users = 0
    BY DEF NoEntry
  <1> HIDE DEF P, n
  <1>6. s.entries[n].held /\ s.entries[n].users \in Nat /\ s.entries[n].users # 0
    BY <1>2, <1>3, <1>4, <1>5
  <1> QED
    BY <1>6, Zenon DEF n

\* A step that moves callers without pins, and ends and starts no lease.
LEMMA RetainedStays ==
    ASSUME NEW s, NEW t, Retained(s), t.entries = s.entries, t.idle = s.idle,
           \A n \in Demanded : t.subs[n].held <=> s.subs[n].held,
           \A n : PinSet(t.callers, n) = PinSet(s.callers, n)
    PROVE  Retained(t)
  <1>1. Leased(t)
    BY DEF Retained, Leased
  <1>2. Counted(t)
    BY Zenon DEF Retained, Counted
  <1>3. IdleNames(t) = IdleNames(s)
    BY DEF IdleNames
  <1> QED
    BY <1>1, <1>2, <1>3 DEF Retained

\* Retained is about four fields, which Commit stores.
LEMMA CommitRetained ==
    ASSUME NEW t, Commit(t), Retained(t)
    PROVE  Retained(State')
  <1>1. /\ State'.subs = t.subs /\ State'.entries = t.entries /\ State'.idle = t.idle
        /\ State'.callers = t.callers
    BY NextStateFields DEF Commit
  <1> QED
    BY <1>1, RetainedStays

\* Cache.remove, of an entry that may have left the LRU list before.
LEMMA EvictRetained ==
    ASSUME CountingFacts, NEW s, Typed(s), NEW n \in Demanded, Leased(s), Counted(s), NEW A, List(s.idle, A),
           A \ {n} = IdleNames(s) \ {n}
    PROVE  Retained(Evict(s, n))
  <1> DEFINE t == Evict(s, n)
             left == IF s.entries[n].ended THEN s ELSE Released(s, n)
  <1>1. /\ t.entries = EvictEntries(s, n) /\ t.callers = EvictCallers(s, n)
        /\ t.idle = Without(s.idle, n) /\ t.subs = left.subs
    BY EvictFields, Zenon
  <1>2. /\ \A m \in Demanded : m # n => left.subs[m] = s.subs[m]
        /\ ~left.subs[n].held
    <2>1. CASE s.entries[n].ended
      BY <2>1 DEF Leased
    <2>2. CASE ~s.entries[n].ended
      <3>1. Released(s, n).subs = [m \in Demanded |-> IF m \in {n} THEN NoSub ELSE s.subs[m]]
        BY ReleasedFields, Zenon
      <3>2. left = Released(s, n)
        BY <2>2
      <3> HIDE DEF left
      <3> QED
        <4>1. ~NoSub.held
          BY DEF NoSub
        <4> QED
          BY <3>1, <3>2, <4>1, Zenon
    <2> QED
      BY <2>1, <2>2, Zenon
  <1> HIDE DEF t, left
  <1>3. t.entries[n] = NoEntry /\ \A m \in Demanded : m # n => t.entries[m] = s.entries[m]
    BY <1>1, Zenon DEF EvictEntries, Typed, EntriesTyped
  <1>4. ~NoEntry.held /\ ~NoEntry.ended /\ NoEntry.users = 0
    BY DEF NoEntry
  <1>5. Leased(t)
    <2> SUFFICES ASSUME NEW m \in Demanded
                 PROVE  t.subs[m].held <=> t.entries[m].held /\ ~t.entries[m].ended
      BY DEF Leased
    <2>1. CASE m = n
      BY <1>1, <1>2, <1>3, <1>4, <2>1, Zenon
    <2>2. CASE m # n
      BY <1>1, <1>2, <1>3, <2>2, Zenon DEF Leased
    <2> QED
      BY <2>1, <2>2, Zenon
  <1>6. /\ PinSet(t.callers, n) = {}
        /\ \A m \in Demanded : m # n => PinSet(t.callers, m) = PinSet(s.callers, m)
    <2>1. CallersTyped(s.callers)
      BY Zenon DEF Typed
    <2>2. ASSUME NEW c \in Caller
          PROVE  /\ c \in PinSet(s.callers, n) => ~Pinned(t.callers[c])
                 /\ c \notin PinSet(s.callers, n) => t.callers[c] = s.callers[c]
      <3>1. t.callers[c] = IF c \in PinSet(s.callers, n) THEN [s.callers[c] EXCEPT !.pc = "old"]
                                                         ELSE s.callers[c]
        BY <1>1, PinsOf, Zenon DEF EvictCallers
      <3>2. s.callers[c] \in [pc : Phase, name : Demanded]
        BY <2>1 DEF CallersTyped
      <3>3. [s.callers[c] EXCEPT !.pc = "old"].pc = "old"
        BY <3>2, CallerMoved DEF Phase
      <3> QED
        BY <3>1, <3>3 DEF Pinned
    <2>3. PinSet(t.callers, n) = {}
      <3> SUFFICES ASSUME NEW c \in PinSet(t.callers, n) PROVE FALSE
        OBVIOUS
      <3>1. c \in Caller /\ t.callers[c].name = n /\ Pinned(t.callers[c])
        BY DEF PinSet
      <3>2. t.callers[c] = s.callers[c] /\ c \notin PinSet(s.callers, n)
        BY <2>2, <3>1, Zenon
      <3> QED
        BY <3>1, <3>2, Zenon DEF PinSet
    <2>4. ASSUME NEW m \in Demanded, m # n
          PROVE  PinSet(t.callers, m) = PinSet(s.callers, m)
      <3>1. ASSUME NEW c \in Caller
            PROVE  c \in PinSet(t.callers, m) <=> c \in PinSet(s.callers, m)
        <4>1. CASE c \in PinSet(s.callers, n)
          BY <2>2, <2>4, <4>1, Zenon DEF PinSet
        <4>2. CASE c \notin PinSet(s.callers, n)
          BY <2>2, <4>2, Zenon DEF PinSet
        <4> QED
          BY <4>1, <4>2
      <3> QED
        BY <3>1, Zenon DEF PinSet
    <2> QED
      BY <2>3, <2>4, Zenon
  <1>7. Counted(t)
    <2> SUFFICES ASSUME NEW m \in Demanded
                 PROVE  /\ t.entries[m].users = Cardinality(PinSet(t.callers, m))
                        /\ ~t.entries[m].held => t.entries[m] = NoEntry
      BY DEF Counted
    <2>1. CASE m = n
      BY <1>3, <1>4, <1>6, <2>1, Zenon DEF CountingFacts, EmptySetCounts
    <2>2. CASE m # n
      BY <1>3, <1>6, <2>2, Zenon DEF Counted
    <2> QED
      BY <2>1, <2>2, Zenon
  <1>8. List(t.idle, IdleNames(t))
    <2>1. IdleNames(t) = A \ {n}
      <3>1. IdleNames(t) = IdleNames(s) \ {n}
        BY <1>3, <1>4 DEF IdleNames
      <3> QED
        BY <3>1
    <2>2. List(Without(s.idle, n), A \ {n})
      BY WithoutList, Zenon
    <2> QED
      BY <1>1, <2>1, <2>2, Zenon
  <1>9. Retained(t)
    BY <1>5, <1>7, <1>8 DEF Retained
  <1> QED
    BY <1>9 DEF t

LEMMA EvictedEntry ==
    ASSUME NEW s, EntriesTyped(s.entries), NEW n \in Demanded
    PROVE  ~EvictEntries(s, n)[n].ended
  BY DEF EvictEntries, EntriesTyped, NoEntry

LEMMA HeldStays ==
    ASSUME NEW f, SubsTyped(f), NEW n \in Demanded, f[n].held
    PROVE  \A m \in Demanded :
              [f EXCEPT ![n] = [held |-> TRUE, active |-> TRUE]][m].held <=> f[m].held
  BY DEF SubsTyped

\* Get: the entry, new or not, has one more pin and is not idle.
LEMMA GetRetained ==
    ASSUME CountingFacts, IInv, Retained(State), NEW c \in Caller, NEW n \in Demanded, Get(c, n)
    PROVE  Retained(State')
  <1> DEFINE kept == IF entries[n].ended THEN Evict(State, n) ELSE State
             leased == IF kept.entries[n].held THEN kept ELSE Activate(kept, n)
             e == [held |-> TRUE, users |-> leased.entries[n].users + 1, ended |-> FALSE]
             q == Without(leased.idle, n)
             k == [pc |-> "demanding", name |-> n]
             E == [leased.entries EXCEPT ![n] = e]
             K == [leased.callers EXCEPT ![c] = k]
             t == [leased EXCEPT !.entries[n] = e, !.idle = q, !.callers[c] = k]
  <1>1. Commit(t) /\ callers[c].pc = "idle"
    BY Zenon DEF Get
  <1>2. Kept(State, kept) /\ Retained(kept) /\ ~Pinned(kept.callers[c]) /\ ~kept.entries[n].ended
    <2>1. Typed(State) /\ Subscribed(State) /\ State.entries = entries /\ State.callers = callers
      BY StateFields, Zenon DEF IInv
    <2>2. CASE entries[n].ended
      <3>1. kept = Evict(State, n)
        BY <2>2
      <3> HIDE DEF kept
      <3>2. Kept(State, kept)
        BY <2>1, <3>1, EvictKeeps
      <3>3. Retained(kept)
        BY <2>1, <3>1, EvictRetained DEF Retained
      <3>4. /\ kept.entries = EvictEntries(State, n) /\ kept.callers = EvictCallers(State, n)
        BY <2>1, <3>1, EvictFields, Zenon
      <3>5. ~kept.entries[n].ended
        BY <2>1, <3>4, EvictedEntry, Zenon DEF Typed
      <3>6. c \notin Pins(State, n)
        BY <1>1, <2>1 DEF Pins
      <3>7. kept.callers[c] = callers[c]
        BY <2>1, <3>4, <3>6 DEF EvictCallers
      <3> QED
        BY <1>1, <3>2, <3>3, <3>5, <3>7 DEF Pinned
    <2>3. CASE ~entries[n].ended
      BY <1>1, <2>1, <2>3 DEF Pinned, Kept
    <2> QED
      BY <2>2, <2>3, Zenon
  <1> HIDE DEF kept
  <1>3. /\ Kept(kept, leased) /\ leased.entries = kept.entries /\ leased.callers = kept.callers
        /\ leased.idle = kept.idle /\ leased.subs[n].held
        /\ \A m \in Demanded : m # n => leased.subs[m] = kept.subs[m]
    <2>1. Typed(kept) /\ Subscribed(kept)
      BY <1>2 DEF Kept
    <2>2. CASE kept.entries[n].held
      <3>1. leased = kept
        BY <2>2
      <3>2. kept.subs[n].held
        BY <1>2, <2>2, Zenon DEF Retained, Leased
      <3> HIDE DEF leased
      <3> QED
        BY <2>1, <3>1, <3>2 DEF Kept
    <2>3. CASE ~kept.entries[n].held
      <3>1. leased = Activate(kept, n)
        BY <2>3
      <3> HIDE DEF leased
      <3>2. Kept(kept, leased) /\ leased.subs[n].held
        BY <2>1, <3>1, ActivateKeeps, Zenon
      <3>3. CASE kept.subs[n].active
        <4>1. leased = kept
          BY <3>1, <3>3 DEF Activate
        <4> QED
          BY <3>2, <4>1
      <3>4. CASE ~kept.subs[n].active
        <4>1. /\ leased.subs = [kept.subs EXCEPT ![n] = [held |-> TRUE, active |-> TRUE]]
              /\ leased.entries = kept.entries /\ leased.callers = kept.callers
              /\ leased.idle = kept.idle
          BY <2>1, <3>1, <3>4, ActivateFields, Zenon
        <4>2. \A m \in Demanded : m # n => leased.subs[m] = kept.subs[m]
          BY <2>1, <4>1, Zenon DEF Typed, SubsTyped
        <4> QED
          BY <3>2, <4>1, <4>2, Zenon
      <3> QED
        BY <3>3, <3>4, Zenon
    <2> QED
      BY <2>2, <2>3, Zenon
  <1> HIDE DEF leased
  <1>4. Typed(leased)
    BY <1>3 DEF Kept
  <1>5. t = [leased EXCEPT !.entries = E, !.idle = q, !.callers = K]
    BY <1>4 DEF Typed, IsState
  <1> HIDE DEF t, q, k
  <1>6. /\ E[n] = e /\ \A m \in Demanded : m # n => E[m] = kept.entries[m]
        /\ K[c] = k /\ \A d \in Caller : d # c => K[d] = kept.callers[d]
    <2> HIDE DEF e
    <2> QED
      BY <1>3, <1>4, Zenon DEF Typed, EntriesTyped, CallersTyped
  <1>7. e.held /\ ~e.ended /\ e.users = kept.entries[n].users + 1
    BY <1>3, Zenon
  <1> HIDE DEF E, K, e
  <1>8. t.entries = E /\ t.idle = q /\ t.callers = K /\ t.subs = leased.subs
    BY <1>4, <1>5, Zenon DEF Typed, IsState
  <1>9. Pinned(k) /\ k.name = n
    BY DEF k, Pinned
  <1>10. /\ Cardinality(PinSet(K, n)) = Cardinality(PinSet(kept.callers, n)) + 1
         /\ \A m : m # n => PinSet(K, m) = PinSet(kept.callers, m)
    <2>1. ~Pinned(kept.callers[c]) /\ Pinned(K[c]) /\ K[c].name = n
      BY <1>2, <1>6, <1>9, Zenon
    <2> QED
      <3>1. PinsBy(kept.callers, K, n, 1)
        BY ONLY CountingFacts, c \in Caller, <1>6, <2>1, PinTaken, Zenon
      <3> QED
        BY ONLY <3>1, Zenon DEF PinsBy
  <1>11. Leased(t)
    <2> SUFFICES ASSUME NEW m \in Demanded
                 PROVE  t.subs[m].held <=> t.entries[m].held /\ ~t.entries[m].ended
      BY DEF Leased
    <2>1. CASE m = n
      BY <1>3, <1>6, <1>7, <1>8, <2>1, Zenon
    <2>2. CASE m # n
      <3>1. t.subs[m] = kept.subs[m]
        BY <1>3, <1>8, <2>2, Zenon
      <3>2. t.entries[m] = kept.entries[m]
        BY <1>6, <1>8, <2>2, Zenon
      <3>3. kept.subs[m].held <=> kept.entries[m].held /\ ~kept.entries[m].ended
        BY <1>2, Zenon DEF Retained, Leased
      <3> QED
        BY <3>1, <3>2, <3>3, Zenon
    <2> QED
      BY <2>1, <2>2
  <1>12. /\ kept.entries[n].users = Cardinality(PinSet(kept.callers, n))
         /\ Cardinality(PinSet(kept.callers, n)) \in Nat
    BY <1>2, PinSetFinite, Zenon DEF Retained, Counted
  <1>13. Counted(t)
    <2> SUFFICES ASSUME NEW m \in Demanded
                 PROVE  /\ E[m].users = Cardinality(PinSet(K, m))
                        /\ ~E[m].held => E[m] = NoEntry
      BY <1>8 DEF Counted
    <2>1. CASE m = n
      BY <1>6, <1>7, <1>10, <1>12, <2>1, Zenon
    <2>2. CASE m # n
      BY <1>2, <1>6, <1>10, <2>2, Zenon DEF Retained, Counted
    <2> QED
      BY <2>1, <2>2
  <1>14. List(t.idle, IdleNames(t))
    <2>1. E[n].users # 0
      <3>1. E[n].users = kept.entries[n].users + 1
        BY <1>6, <1>7, Zenon
      <3>2. kept.entries[n].users \in Nat
        BY <1>12, Zenon
      <3>3. \A x \in Nat : x + 1 # 0
        BY ONLY TRUE
      <3> QED
        BY <3>1, <3>2, <3>3, Zenon
    <2>2. IdleNames(t) = IdleNames(kept) \ {n}
      BY <1>6, <1>8, <2>1 DEF IdleNames
    <2>3. t.idle = Without(kept.idle, n)
      BY <1>3, <1>8 DEF q
    <2> QED
      BY <1>2, <2>2, <2>3, WithoutList DEF Retained
  <1>15. Retained(t)
    BY <1>11, <1>13, <1>14 DEF Retained
  <1> QED
    BY <1>1, <1>15, CommitRetained

\* release, up to the question whether the entry goes or is idle.
LEMMA UnpinRetained ==
    ASSUME CountingFacts, NEW s, Typed(s), Retained(s), NEW c \in Caller, Pinned(s.callers[c])
    PROVE  LET t == Unpin(s, c)
               n == s.callers[c].name
           IN  /\ n \in Demanded /\ Leased(t) /\ Counted(t) /\ t.idle = s.idle
               /\ n \notin IdleNames(s) /\ t.entries[n].held
               /\ IdleNames(t) \ {n} = IdleNames(s)
  <1> DEFINE n == s.callers[c].name
             e == [s.entries[n] EXCEPT !.users = s.entries[n].users - 1]
             E == [s.entries EXCEPT ![n] = e]
             K == [s.callers EXCEPT ![c] = NoCaller]
             t == Unpin(s, c)
  <1>0. /\ n \in Demanded /\ s.entries[n] \in [held : BOOLEAN, users : Int, ended : BOOLEAN]
    BY Zenon DEF Typed, CallersTyped, EntriesTyped
  <1>1. t = [s EXCEPT !.entries = E, !.callers = K]
    BY DEF Typed, IsState, Unpin
  <1>2. /\ E[n] = e /\ \A m \in Demanded : m # n => E[m] = s.entries[m]
        /\ K[c] = NoCaller /\ \A d \in Caller : d # c => K[d] = s.callers[d]
    <2> HIDE DEF e
    <2> QED
      BY <1>0, Zenon DEF Typed, EntriesTyped, CallersTyped
  <1>3. /\ e.held = s.entries[n].held /\ e.ended = s.entries[n].ended
        /\ e.users = s.entries[n].users - 1
    <2> DEFINE f == s.entries[n]
    <2>1. f \in [held : BOOLEAN, users : Int, ended : BOOLEAN]
      BY <1>0
    <2> HIDE DEF f
    <2>2. LET g == [f EXCEPT !.users = f.users - 1]
          IN  g.held = f.held /\ g.ended = f.ended /\ g.users = f.users - 1
      BY <2>1
    <2> QED
      BY <2>2, Zenon DEF f
  <1>4. s.entries[n].held /\ s.entries[n].users # 0
    BY <1>0, PinnedEntry, Zenon DEF Retained
  <1> HIDE DEF E, K, t, e, n
  <1>5. t.entries = E /\ t.callers = K /\ t.subs = s.subs /\ t.idle = s.idle
    BY <1>1, Zenon DEF Typed, IsState
  <1>6. /\ Cardinality(PinSet(K, n)) = Cardinality(PinSet(s.callers, n)) - 1
        /\ \A m : m # n => PinSet(K, m) = PinSet(s.callers, m)
    <2>1. ~Pinned(NoCaller) /\ s.callers[c].name = n
      BY DEF Pinned, NoCaller, n
    <2>2. ~Pinned(K[c])
      BY <1>2, <2>1, Zenon
    <2> QED
      <3>1. PinsBy(s.callers, K, n, -1)
        BY ONLY CountingFacts, c \in Caller, Pinned(s.callers[c]), <1>2, <2>1, <2>2, PinDropped, Zenon
      <3>2. Cardinality(PinSet(s.callers, n)) \in Nat
        BY PinSetFinite
      <3> QED
        BY <3>1, <3>2 DEF PinsBy
  <1>7. Leased(t)
    <2> SUFFICES ASSUME NEW m \in Demanded
                 PROVE  s.subs[m].held <=> E[m].held /\ ~E[m].ended
      BY <1>5 DEF Leased
    <2>1. s.subs[m].held <=> s.entries[m].held /\ ~s.entries[m].ended
      BY DEF Retained, Leased
    <2> QED
      BY <1>2, <1>3, <2>1
  <1>8. Counted(t)
    <2> SUFFICES ASSUME NEW m \in Demanded
                 PROVE  /\ E[m].users = Cardinality(PinSet(K, m))
                        /\ ~E[m].held => E[m] = NoEntry
      BY <1>5 DEF Counted
    <2>1. s.entries[m].users = Cardinality(PinSet(s.callers, m))
      BY DEF Retained, Counted
    <2>2. CASE m = n
      BY <1>2, <1>3, <1>4, <1>6, <2>1, <2>2, Zenon
    <2>3. CASE m # n
      BY <1>2, <1>6, <2>3, Zenon DEF Retained, Counted
    <2> QED
      BY <2>2, <2>3
  <1>9. n \notin IdleNames(s) /\ IdleNames(t) \ {n} = IdleNames(s)
    <2>1. n \notin IdleNames(s)
      BY <1>4 DEF IdleNames
    <2>2. \A m \in Demanded : m # n => t.entries[m] = s.entries[m]
      BY <1>2, <1>5
    <2> QED
      BY <2>1, <2>2, Zenon DEF IdleNames
  <1>10. t.entries[n].held
    BY <1>2, <1>3, <1>4, <1>5, Zenon
  <1> QED
    BY <1>0, <1>5, <1>7, <1>8, <1>9, <1>10, Zenon DEF t, n

\* release after an error: the last pin takes the entry with it.
LEMMA GiveUpRetained ==
    ASSUME CountingFacts, IInv, Retained(State), NEW c \in Caller, GiveUp(c)
    PROVE  Retained(State')
  <1> DEFINE n == State.callers[c].name
             left == Unpin(State, c)
             after == IF left.entries[n].users = 0 THEN Evict(left, n) ELSE left
  <1>1. Commit(after) /\ Pinned(State.callers[c]) /\ Typed(State) /\ Subscribed(State)
    <2>1. State.callers = callers
      BY StateFields
    <2>2. Commit(after) /\ callers[c].pc = "demanding"
      BY <2>1, Zenon DEF GiveUp
    <2> HIDE DEF after
    <2> QED
      BY <2>1, <2>2, Zenon DEF Pinned, IInv
  <1>2. /\ n \in Demanded /\ Leased(left) /\ Counted(left) /\ left.idle = State.idle
        /\ n \notin IdleNames(State) /\ IdleNames(left) \ {n} = IdleNames(State)
    BY <1>1, UnpinRetained, Zenon
  <1>3. Typed(left)
    BY <1>1, UnpinKeeps, Zenon DEF Kept
  <1>4. List(left.idle, IdleNames(State))
    BY <1>2 DEF Retained
  <1> HIDE DEF left, n
  <1>5. CASE left.entries[n].users = 0
    <2>1. IdleNames(State) \ {n} = IdleNames(left) \ {n}
      BY <1>2
    <2>2. Retained(Evict(left, n))
      BY <1>2, <1>3, <1>4, <2>1, EvictRetained
    <2> QED
      BY <1>1, <1>5, <2>2, CommitRetained, Zenon
  <1>6. CASE left.entries[n].users # 0
    <2>1. IdleNames(left) = IdleNames(State)
      <3>1. n \notin IdleNames(left)
        BY <1>6 DEF IdleNames
      <3> QED
        BY <1>2, <3>1
    <2>2. Retained(left)
      BY <1>2, <1>4, <2>1 DEF Retained
    <2> QED
      BY <1>1, <1>6, <2>2, CommitRetained
  <1> QED
    BY <1>5, <1>6

\* release after use: the last pin leaves the entry idle.
LEMMA FinishRetained ==
    ASSUME CountingFacts, IInv, Retained(State), NEW c \in Caller, Finish(c)
    PROVE  Retained(State')
  <1> DEFINE n == State.callers[c].name
             left == Unpin(State, c)
             listed == [left EXCEPT !.idle = Append(left.idle, n)]
             after == IF left.entries[n].users = 0 THEN listed ELSE left
  <1>1. Commit(after) /\ Pinned(State.callers[c]) /\ Typed(State) /\ Subscribed(State)
    <2>1. State.callers = callers
      BY StateFields
    <2>2. Commit(after) /\ callers[c].pc = "using"
      BY <2>1, Zenon DEF Finish
    <2> HIDE DEF after
    <2> QED
      BY <2>1, <2>2 DEF Pinned, IInv
  <1>2. /\ n \in Demanded /\ Leased(left) /\ Counted(left) /\ left.idle = State.idle
        /\ n \notin IdleNames(State) /\ left.entries[n].held
        /\ IdleNames(left) \ {n} = IdleNames(State)
    BY <1>1, UnpinRetained, Zenon
  <1>3. Typed(left)
    BY <1>1, UnpinKeeps DEF Kept
  <1>4. List(left.idle, IdleNames(State))
    BY <1>2, Zenon DEF Retained
  <1> HIDE DEF left, n
  <1>5. CASE left.entries[n].users = 0
    <2> DEFINE q == Append(left.idle, n)
    <2>1. IdleNames(left) = IdleNames(State) \cup {n}
      <3>1. n \in IdleNames(left)
        BY <1>2, <1>5 DEF IdleNames
      <3> QED
        BY <1>2, <3>1
    <2>2. List(q, IdleNames(left))
      <3>1. List(q, IdleNames(State) \cup {n})
        BY <1>2, <1>4, AppendList, Zenon
      <3> QED
        BY <2>1, <3>1, Zenon
    <2> HIDE DEF q
    <2>3. /\ listed.idle = q /\ listed.entries = left.entries /\ listed.subs = left.subs
          /\ listed.callers = left.callers
      BY <1>3 DEF Typed, IsState, q
    <2> HIDE DEF listed
    <2>4. Leased(listed) /\ Counted(listed) /\ IdleNames(listed) = IdleNames(left)
      <3>1. Leased(listed)
        BY <1>2, <2>3, Zenon DEF Leased
      <3>2. Counted(listed)
        BY <1>2, <2>3, Zenon DEF Counted
      <3>3. IdleNames(listed) = IdleNames(left)
        BY <2>3, Zenon DEF IdleNames
      <3> QED
        BY <3>1, <3>2, <3>3, Zenon
    <2>5. Retained(listed)
      BY <2>2, <2>3, <2>4, Zenon DEF Retained
    <2> QED
      BY <1>1, <1>5, <2>5, CommitRetained, Zenon
  <1>6. CASE left.entries[n].users # 0
    <2>1. IdleNames(left) = IdleNames(State)
      <3>1. n \notin IdleNames(left)
        BY <1>6 DEF IdleNames
      <3> QED
        BY <1>2, <3>1
    <2>2. Retained(left)
      BY <1>2, <1>4, <2>1 DEF Retained
    <2> HIDE DEF listed
    <2> QED
      BY <1>1, <1>6, <2>2, CommitRetained
  <1> QED
    BY <1>5, <1>6

\* prune.
LEMMA PruneRetained ==
    ASSUME CountingFacts, IInv, Retained(State), NEW n \in Demanded, Prune(n)
    PROVE  Retained(State')
  <1>1. Commit(Evict(State, n)) /\ Typed(State)
    BY Zenon DEF Prune, IInv
  <1>2. Retained(Evict(State, n))
    BY <1>1, EvictRetained DEF Retained
  <1> QED
    BY <1>1, <1>2, CommitRetained

\* waitLocked: the subscription it activates is the lease of its entry.
LEMMA CheckRetained ==
    ASSUME CountingFacts, IInv, Retained(State), NEW c \in Caller, Check(c)
    PROVE  Retained(State')
  <1> DEFINE n == callers[c].name
             outcome == IF synced \/ grace THEN Resolve(resources, n) ELSE Pending
             p == IF outcome.is = "ready" THEN "using"
                  ELSE IF outcome = Pending THEN "blocked" ELSE "demanding"
             a == Activate(State, n)
             K == [a.callers EXCEPT ![c].pc = p]
             t == [a EXCEPT !.callers[c].pc = p]
  <1>1. /\ Commit(t) /\ ~entries[n].ended /\ callers[c].pc \in {"demanding", "woken"}
    BY Zenon DEF Check
  <1>2. /\ Typed(State) /\ Subscribed(State) /\ State.callers = callers
        /\ State.entries = entries /\ n \in Demanded
        /\ callers[c] \in [pc : Phase, name : Demanded]
    BY StateFields, Zenon DEF IInv, Typed, CallersTyped
  <1>3. Pinned(callers[c]) /\ p \in Phase /\ p # "idle" /\ p # "old"
    BY <1>1 DEF Pinned, Phase
  <1> HIDE DEF p, outcome
  <1>4. entries[n].held
    BY <1>2, <1>3, PinnedEntry, Zenon DEF Retained
  <1>5. State.subs[n].held
    BY <1>1, <1>2, <1>4 DEF Retained, Leased
  <1>6. /\ Typed(a) /\ a.callers = callers /\ a.entries = entries /\ a.idle = State.idle
        /\ \A m \in Demanded : a.subs[m].held <=> State.subs[m].held
    <2>1. Kept(State, a) /\ a.callers = callers /\ a.entries = entries
      BY <1>2, ActivateKeeps, Zenon
    <2>2. CASE State.subs[n].active
      BY <1>2, <2>2 DEF Activate
    <2>3. CASE ~State.subs[n].active
      <3>1. /\ a.subs = [State.subs EXCEPT ![n] = [held |-> TRUE, active |-> TRUE]]
            /\ a.idle = State.idle
        BY <1>2, <2>3, ActivateFields, Zenon
      <3> HIDE DEF a
      <3>2. \A m \in Demanded : a.subs[m].held <=> State.subs[m].held
        BY <1>2, <1>5, <3>1, HeldStays, Zenon DEF Typed
      <3> QED
        BY <2>1, <3>1, <3>2, Zenon DEF Kept
    <2> QED
      BY <2>2, <2>3, Zenon
  <1> HIDE DEF a
  <1>7. t = [a EXCEPT !.callers = K]
    BY <1>6 DEF Typed, IsState
  <1>8. /\ K[c] = [callers[c] EXCEPT !.pc = p]
        /\ \A d \in Caller : d # c => K[d] = callers[d]
    BY <1>2, <1>6 DEF Typed, CallersTyped
  <1>9. K[c].pc = p /\ K[c].name = n
    BY <1>2, <1>3, <1>8, CallerMoved
  <1> HIDE DEF K, t
  <1>10. t.callers = K /\ t.entries = entries /\ t.idle = State.idle /\ t.subs = a.subs
    BY <1>6, <1>7 DEF Typed, IsState
  <1>11. \A d \in Caller : /\ Pinned(K[d]) <=> Pinned(callers[d])
                           /\ Pinned(callers[d]) => K[d].name = callers[d].name
    BY <1>3, <1>8, <1>9, Zenon DEF Pinned
  <1>12. \A m : PinSet(t.callers, m) = PinSet(State.callers, m)
    <2>1. \A m : PinSet(K, m) = PinSet(callers, m)
      BY <1>11, PinsStay
    <2> QED
      BY <1>2, <1>10, <2>1
  <1>13. Retained(t)
    BY <1>2, <1>6, <1>10, <1>12, RetainedStays, Zenon
  <1> QED
    BY <1>1, <1>13, CommitRetained

\* The end of a wait, and the release of an entry the cache no longer has.
LEMMA CallerStepRetained ==
    ASSUME IInv, Retained(State), NEW c \in Caller, StopWaiting(c) \/ Leave(c)
    PROVE  Retained(State')
  <1>1. /\ State.callers = callers /\ State.entries = entries /\ State.idle = idle
        /\ State.subs = subs /\ CallersTyped(callers)
    BY StateFields, Zenon DEF IInv, Typed
  <1>2. /\ State'.callers = callers' /\ State'.entries = entries /\ State'.idle = idle
        /\ State'.subs = subs
    BY NextStateFields DEF StopWaiting, Leave, client
  <1>3. /\ Pinned(callers'[c]) <=> Pinned(callers[c])
        /\ Pinned(callers[c]) => callers'[c].name = callers[c].name
        /\ \A d \in Caller : d # c => callers'[d] = callers[d]
    <2>1. CASE StopWaiting(c)
      <3>1. /\ callers'[c] = [callers[c] EXCEPT !.pc = "demanding"]
            /\ \A d \in Caller : d # c => callers'[d] = callers[d]
            /\ callers[c].pc \in {"blocked", "woken"}
        BY <1>1, <2>1 DEF StopWaiting, CallersTyped
      <3>2. callers[c] \in [pc : Phase, name : Demanded]
        BY <1>1 DEF CallersTyped
      <3>3. callers'[c].pc = "demanding" /\ callers'[c].name = callers[c].name
        BY <3>1, <3>2, CallerMoved DEF Phase
      <3> QED
        BY <3>1, <3>3 DEF Pinned
    <2>2. CASE Leave(c)
      BY <1>1, <2>2, Zenon DEF Leave, CallersTyped, Pinned, NoCaller
    <2> QED
      BY <2>1, <2>2
  <1>4. \A m : PinSet(callers', m) = PinSet(callers, m)
    BY <1>3, PinsStay
  <1> QED
    BY <1>1, <1>2, <1>4, RetainedStays

\* Steps that leave the cache alone and end no subscription.
LEMMA StreamStepRetained ==
    ASSUME Retained(State), UNCHANGED retention,
           \A n \in Demanded : subs'[n].held <=> subs[n].held
    PROVE  Retained(State')
  <1>1. /\ State.callers = callers /\ State.entries = entries /\ State.idle = idle
        /\ State.subs = subs
    BY StateFields
  <1>2. /\ State'.callers = callers /\ State'.entries = entries /\ State'.idle = idle
        /\ State'.subs = subs'
    BY NextStateFields DEF retention
  <1> QED
    BY <1>1, <1>2, RetainedStays

\* apply: exactly the entries whose subscription is deleted find their lease ended.
LEMMA ApplyRetained ==
    ASSUME IInv, Retained(State), Apply
    PROVE  Retained(State')
  <1> DEFINE content == Head(down).resources
             removed == Head(down).removed
             replaced == {r \in Resource : content[r] # Absent} \cup (removed \cap Resource)
             put == {r \in decoding.selected : Interested(State, r, content[r])}
             updated == [r \in Resource |-> IF r \in put THEN content[r]
                                            ELSE IF r \in replaced THEN Absent ELSE resources[r]]
             touched == (UNION {resources[r].aliases : r \in replaced})
                           \cup (UNION {content[r].aliases : r \in put})
             owned == UNION {updated[r].aliases : r \in Resource}
             deleted == Held(State) \cap ((touched \ owned) \cup removed)
             woken == touched \cup put \cup deleted
             base == [State EXCEPT !.resources = updated]
             told == Notified(base, woken)
             E == [n \in Demanded |-> IF n \in deleted THEN [told.entries[n] EXCEPT !.ended = TRUE]
                                                       ELSE told.entries[n]]
             ended == [told EXCEPT !.entries = E]
             over == EndSubscriptions(ended, deleted)
             t == [over EXCEPT !.wake = TRUE, !.retired = over.retired \ replaced]
  <1>1. Commit(t)
    BY Zenon DEF Apply
  <1> HIDE DEF base, told, E, ended, over, t
  <1>2. deleted \subseteq Held(State)
    BY Zenon
  <1>3. FunctionOn(Resource, updated)
    BY DEF FunctionOn
  <1> HIDE DEF updated, replaced, woken, deleted
  <1>4. /\ IsState(base) /\ base.resources = updated /\ base.subs = subs /\ base.wake = wake
        /\ base.sent = sentSubs /\ base.entries = entries /\ base.callers = callers
        /\ base.idle = idle
    BY StateFields DEF IsState, base
  <1>5. Typed(base)
    BY <1>3, <1>4, IInvFields, Zenon DEF Typed
  <1>6. /\ IsState(told) /\ told.subs = subs /\ told.entries = entries /\ told.idle = idle
        /\ told.wake = wake /\ told.sent = sentSubs /\ told.resources = updated
        /\ told.callers = [c \in Caller |->
              IF callers[c].pc = "blocked" /\ callers[c].name \in woken
              THEN [callers[c] EXCEPT !.pc = "woken"] ELSE callers[c]]
    <2>1. /\ IsState(told)
          /\ told.callers = [c \in Caller |->
                IF base.callers[c].pc = "blocked" /\ base.callers[c].name \in woken
                THEN [base.callers[c] EXCEPT !.pc = "woken"] ELSE base.callers[c]]
          /\ told.subs = base.subs /\ told.wake = base.wake /\ told.sent = base.sent
          /\ told.resources = base.resources /\ told.entries = base.entries
          /\ told.idle = base.idle
      BY <1>5, NotifiedFields DEF told
    <2> QED
      BY <1>4, <2>1
  <1>7. CallersTyped(callers)
    BY IInvFields
  <1>8. ASSUME NEW c \in Caller
        PROVE  /\ told.callers[c] \in [pc : Phase, name : Demanded]
               /\ Pinned(told.callers[c]) <=> Pinned(callers[c])
               /\ told.callers[c].name = callers[c].name
    <2>1. callers[c] \in [pc : Phase, name : Demanded]
      BY <1>7 DEF CallersTyped
    <2>2. LET k == [callers[c] EXCEPT !.pc = "woken"]
          IN  k \in [pc : Phase, name : Demanded] /\ k.pc = "woken" /\ k.name = callers[c].name
      BY <2>1, CallerMoved DEF Phase
    <2>3. CASE callers[c].pc = "blocked" /\ callers[c].name \in woken
      <3>1. told.callers[c] = [callers[c] EXCEPT !.pc = "woken"]
        BY <1>6, <2>3
      <3> QED
        BY <2>2, <2>3, <3>1 DEF Pinned
    <2>4. CASE ~(callers[c].pc = "blocked" /\ callers[c].name \in woken)
      <3>1. told.callers[c] = callers[c]
        BY <1>6, <2>4
      <3> QED
        BY <2>1, <3>1
    <2> QED
      BY <2>3, <2>4
  <1>9. \A n : PinSet(told.callers, n) = PinSet(callers, n)
    BY <1>8, PinsStay
  <1>10. CallersTyped(told.callers)
    <2>1. told.callers = [c \in Caller |-> told.callers[c]]
      BY <1>6
    <2> QED
      BY <1>8, <2>1 DEF CallersTyped
  <1>11. EntriesTyped(E) /\ \A n \in Demanded :
            /\ n \notin deleted => E[n] = entries[n]
            /\ n \in deleted => /\ E[n].held = entries[n].held /\ E[n].users = entries[n].users
                                /\ E[n].ended
    <2>1. EntriesTyped(entries)
      BY IInvFields
    <2>2. ASSUME NEW n \in Demanded
          PROVE  /\ E[n] \in [held : BOOLEAN, users : Int, ended : BOOLEAN]
                 /\ n \notin deleted => E[n] = entries[n]
                 /\ n \in deleted => /\ E[n].held = entries[n].held
                                     /\ E[n].users = entries[n].users /\ E[n].ended
      <3> DEFINE f == entries[n]
      <3>1. f \in [held : BOOLEAN, users : Int, ended : BOOLEAN]
        BY <2>1 DEF EntriesTyped
      <3>2. E[n] = IF n \in deleted THEN [f EXCEPT !.ended = TRUE] ELSE f
        BY <1>6, Zenon DEF E
      <3> HIDE DEF f
      <3>3. LET g == [f EXCEPT !.ended = TRUE]
            IN  /\ g \in [held : BOOLEAN, users : Int, ended : BOOLEAN]
                /\ g.held = f.held /\ g.users = f.users /\ g.ended
        BY <3>1, Zenon
      <3>4. CASE n \in deleted
        BY <3>2, <3>3, <3>4, Zenon DEF f
      <3>5. CASE n \notin deleted
        BY <3>1, <3>2, <3>5, Zenon DEF f
      <3> QED
        BY <3>4, <3>5, Zenon
    <2>3. E = [n \in Demanded |-> E[n]]
      BY DEF E
    <2> QED
      BY <2>2, <2>3 DEF EntriesTyped
  <1>12. /\ IsState(ended) /\ ended.entries = E /\ ended.callers = told.callers
         /\ ended.subs = subs /\ ended.idle = idle /\ ended.wake = wake
         /\ ended.sent = sentSubs /\ ended.resources = updated
    BY <1>6 DEF IsState, ended
  <1>13. Typed(ended)
    BY <1>3, <1>10, <1>11, <1>12, IInvFields, Zenon DEF Typed
  <1>14. /\ IsState(over)
         /\ over.subs = [n \in Demanded |-> IF n \in deleted THEN NoSub ELSE ended.subs[n]]
         /\ over.entries = E /\ over.callers = told.callers /\ over.idle = idle
    <2>1. Ended(ended, deleted, over)
      BY <1>13, EndSubscriptionsFields, Zenon DEF over
    <2> QED
      BY <1>12, <2>1, Zenon DEF Ended
  <1>15. /\ t.subs = over.subs /\ t.entries = E /\ t.callers = told.callers /\ t.idle = idle
    <2> DEFINE left == over.retired \ replaced
    <2>1. t = [over EXCEPT !.wake = TRUE, !.retired = left]
      BY Zenon DEF t
    <2>2. IsState(over)
      BY <1>14, Zenon
    <2> HIDE DEF left
    <2>3. t.subs = over.subs /\ t.entries = over.entries /\ t.callers = over.callers
          /\ t.idle = over.idle
      BY <2>1, <2>2, Zenon DEF IsState
    <2> QED
      BY <1>14, <2>3, Zenon
  <1>16. /\ \A n \in Demanded : n \notin deleted => t.subs[n] = subs[n]
         /\ \A n \in Demanded : n \in deleted => ~t.subs[n].held
    <2>1. t.subs = [n \in Demanded |-> IF n \in deleted THEN NoSub ELSE ended.subs[n]]
      BY <1>14, <1>15
    <2>2. ~NoSub.held
      BY DEF NoSub
    <2> QED
      BY <1>12, <2>1, <2>2
  <1>17. /\ State.entries = entries /\ State.callers = callers /\ State.subs = subs
         /\ State.idle = idle
    BY StateFields
  <1>18. \A n \in Demanded : n \in deleted => subs[n].held
    BY <1>2, <1>17 DEF Held
  <1>19. Leased(t)
    <2> SUFFICES ASSUME NEW n \in Demanded PROVE t.subs[n].held <=> E[n].held /\ ~E[n].ended
      BY <1>15 DEF Leased
    <2>1. subs[n].held <=> entries[n].held /\ ~entries[n].ended
      BY <1>17 DEF Retained, Leased
    <2>2. CASE n \in deleted
      BY <1>11, <1>16, <2>2
    <2>3. CASE n \notin deleted
      BY <1>11, <1>16, <2>1, <2>3
    <2> QED
      BY <2>2, <2>3
  <1>20. Counted(t)
    <2> SUFFICES ASSUME NEW n \in Demanded
                 PROVE  /\ E[n].users = Cardinality(PinSet(callers, n))
                        /\ ~E[n].held => E[n] = NoEntry
      BY <1>9, <1>15, Zenon DEF Counted
    <2>1. /\ entries[n].users = Cardinality(PinSet(callers, n))
          /\ ~entries[n].held => entries[n] = NoEntry
      BY <1>17, Zenon DEF Retained, Counted
    <2>2. CASE n \in deleted
      <3>1. entries[n].held
        BY <1>17, <1>18, <2>2 DEF Retained, Leased
      <3> QED
        BY <1>11, <2>1, <2>2, <3>1, Zenon
    <2>3. CASE n \notin deleted
      BY <1>11, <2>1, <2>3, Zenon
    <2> QED
      BY <2>2, <2>3
  <1>21. IdleNames(t) = IdleNames(State)
    <2>1. \A n \in Demanded : E[n].held = entries[n].held /\ E[n].users = entries[n].users
      BY <1>11
    <2> QED
      BY <1>15, <1>17, <2>1 DEF IdleNames
  <1>22. Retained(t)
    BY <1>15, <1>17, <1>19, <1>20, <1>21 DEF Retained
  <1> QED
    BY <1>1, <1>22, CommitRetained

LEMMA InitRetained ==
    ASSUME CountingFacts, Init
    PROVE  Retained(State)
  <1>1. /\ State.subs = [n \in Demanded |-> NoSub] /\ State.idle = << >>
        /\ State.entries = [n \in Demanded |-> NoEntry]
        /\ State.callers = [c \in Caller |-> NoCaller]
    BY StateFields, Zenon DEF Init
  <1>2. \A n \in Demanded : State.subs[n] = NoSub /\ State.entries[n] = NoEntry
    BY <1>1
  <1>3. ~NoSub.held /\ ~NoEntry.held /\ NoEntry.users = 0
    BY DEF NoSub, NoEntry
  <1>4. \A n : PinSet(State.callers, n) = {}
    <2>1. \A c \in Caller : ~Pinned(State.callers[c])
      <3>1. ~Pinned(NoCaller)
        BY DEF NoCaller, Pinned
      <3> QED
        BY <1>1, <3>1, Zenon
    <2> QED
      BY <2>1 DEF PinSet
  <1>5. Leased(State) /\ Counted(State)
    BY <1>2, <1>3, <1>4 DEF CountingFacts, EmptySetCounts, Leased, Counted
  <1>6. IdleNames(State) = {}
    BY <1>2, <1>3 DEF IdleNames
  <1>7. List(<< >>, {})
    BY DEF List, Range, IsInjective
  <1> QED
    BY <1>1, <1>5, <1>6, <1>7 DEF Retained

LEMMA NextRetained ==
    ASSUME CountingFacts, IInv, Retained(State), [Next]_vars
    PROVE  Retained(State')
  <1>1. CASE Server
    BY <1>1, StreamStepRetained DEF Server, clientVars, client
  <1>2. ASSUME NEW c \in Caller, NEW n \in Demands[c], Get(c, n) PROVE Retained(State')
    BY <1>2, GetRetained DEF Demanded
  <1>3. ASSUME NEW c \in Caller,
               Check(c) \/ StopWaiting(c) \/ GiveUp(c) \/ Finish(c) \/ Leave(c)
        PROVE  Retained(State')
    BY <1>3, CheckRetained, CallerStepRetained, GiveUpRetained, FinishRetained
  <1>4. ASSUME NEW n \in Demanded, Prune(n) PROVE Retained(State')
    BY <1>4, PruneRetained
  <1>5. CASE Lose
    <2>1. UNCHANGED retention
      BY <1>5 DEF Lose
    <2>2. ASSUME NEW n \in Demanded PROVE subs'[n].held <=> subs[n].held
      <3> DEFINE on == subs[n].active /\ Waiters(State, n) # {} /\ ~entries[n].ended
      <3>1. subs'[n] = [subs[n] EXCEPT !.active = on]
        BY <1>5 DEF Lose
      <3>2. subs[n] \in [held : BOOLEAN, active : BOOLEAN]
        BY IInvFields DEF SubsTyped
      <3> HIDE DEF on
      <3> QED
        BY <3>1, <3>2
    <2> QED
      BY <2>1, <2>2, StreamStepRetained
  <1>6. CASE ExpireGrace \/ Open \/ Outgoing
    BY <1>6, StreamStepRetained, Zenon DEF ExpireGrace, Open, Outgoing
  <1>7. CASE Receive \/ Reject
    BY <1>7, StreamStepRetained, Zenon DEF Receive, Reject, client
  <1>8. CASE Apply
    BY <1>8, ApplyRetained
  <1>9. CASE UNCHANGED vars
    BY <1>9, StreamStepRetained DEF vars, clientVars, client
  <1> QED
    BY <1>1, <1>2, <1>3, <1>4, <1>5, <1>6, <1>7, <1>8, <1>9, Zenon DEF Next

LEMMA RetainedIsExact ==
    ASSUME Retained(State)
    PROVE  RetentionIsExact
  <1>1. /\ State.entries = entries /\ State.callers = callers /\ State.subs = subs
        /\ State.idle = idle
    BY StateFields
  <1>2. \A n \in Demanded : /\ subs[n].held <=> entries[n].held /\ ~entries[n].ended
                            /\ entries[n].users = Cardinality(Pins(State, n))
    BY <1>1, PinsOf, Zenon DEF Retained, Leased, Counted
  <1>3. Range(idle) = {n \in Demanded : entries[n].held /\ entries[n].users = 0}
    BY <1>1 DEF Retained, List, IdleNames
  <1>4. IsInjective(idle)
    BY <1>1 DEF Retained, List
  <1> QED
    BY <1>2, <1>3, <1>4, Zenon DEF RetentionIsExact

\* The facts on finite sets that the lemmas assume, from the library's theorems.
LEMMA FiniteSetsMeaning ==
  (\A S : IsFiniteSet(S) <=> Enumerable(S)) /\ \A S : Cardinality(S) = CountOf(S)
  BY Zenon DEF IsFiniteSet, Enumerable, Cardinality, CountOf

LOCAL INSTANCE FiniteSetTheorems

LEMMA InstanceMeaning ==
  (\A S : IsFiniteSet(S) <=> Enumerable(S)) /\ \A S : Cardinality(S) = CountOf(S)
  BY Zenon DEF IsFiniteSet, Enumerable, Cardinality, CountOf

LEMMA CountingFactsHold == CountingFacts
  <1>1. CardinalityIsNatural
    <2>1. \A S : IsFiniteSet(S) => Cardinality(S) \in Nat
      BY FS_CardinalityType
    <2> QED
      BY <2>1, FiniteSetsMeaning, InstanceMeaning DEF CardinalityIsNatural
  <1>2. EmptySetCounts
    BY FS_EmptySet, FiniteSetsMeaning, InstanceMeaning DEF EmptySetCounts
  <1>3. SubsetsCount
    <2>1. \A S, T : IsFiniteSet(S) /\ T \subseteq S =>
             /\ IsFiniteSet(T) /\ Cardinality(T) <= Cardinality(S)
             /\ Cardinality(T) = Cardinality(S) => T = S
      BY FS_Subset
    <2> QED
      BY <2>1, FiniteSetsMeaning, InstanceMeaning DEF SubsetsCount
  <1>4. AddingCounts
    <2>1. \A S, x : IsFiniteSet(S) /\ x \notin S =>
             IsFiniteSet(S \cup {x}) /\ Cardinality(S \cup {x}) = Cardinality(S) + 1
      BY FS_AddElement
    <2> QED
      BY <2>1, FiniteSetsMeaning, InstanceMeaning DEF AddingCounts
  <1>5. RemovingCounts
    <2>1. \A S, x : IsFiniteSet(S) /\ x \in S =>
             IsFiniteSet(S \ {x}) /\ Cardinality(S \ {x}) = Cardinality(S) - 1
      BY FS_RemoveElement
    <2> QED
      BY <2>1, FiniteSetsMeaning, InstanceMeaning DEF RemovingCounts
  <1> QED
    BY <1>1, <1>2, <1>3, <1>4, <1>5 DEF CountingFacts

\* Whatever the callers, names, capacity and responses: the demand cache holds a
\* subscription for exactly its live entries, counts the pins of each, and its
\* LRU list has each unpinned entry once (Get, release, remove, prune, and apply,
\* which ends leases, lose no interest and end none in use).
THEOREM RetentionStaysExact == Spec => []RetentionIsExact
  <1>1. Init => Retained(State)
    BY InitRetained, CountingFactsHold
  <1>2. IInv /\ Retained(State) /\ [Next]_vars => Retained(State)'
    BY NextRetained, CountingFactsHold
  <1>3. Retained(State) => RetentionIsExact
    BY RetainedIsExact
  <1> QED
    BY <1>1, <1>2, <1>3, Invariance, PTL DEF Spec
=============================================================================
