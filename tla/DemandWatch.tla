----------------------------- MODULE DemandWatch -----------------------------
(***************************************************************************)
(* The server half of on-demand discovery: the Workload watch of one Delta *)
(* ADS stream of a gateway or an EPE (pkg/xds: delta.go, subscription.go,  *)
(* workload_generator.go, generator.go), which answers the names a client  *)
(* asks for, wire names or aliases, and pushes what becomes of them.  The  *)
(* clients of this repository extend it: PorterDiscovery and XdsClient.    *)
(*                                                                         *)
(* A resource is the version and the aliases of its last publication; its  *)
(* version (the hash, which covers the aliases) is the number of that      *)
(* publication, and 0 is "no such resource".  Handlers of the ADS loop are *)
(* atomic; publications and the network interleave with them.  Workload    *)
(* watches do not track acknowledgements, so an ACK changes nothing here.  *)
(***************************************************************************)
EXTENDS Naturals, Sequences, FiniteSets, Functions

CONSTANTS
    Resource,           \* wire names of Workloads
    Alias,              \* the other names they have: instance, address
    AliasSets,          \* AliasSets[r]: the sets of aliases r can have
    Initially,          \* the snapshots there can be at first
    MaxPublications,    \* bound: publications
    MaxUp, MaxDown      \* requests and responses the stream takes before it blocks

ASSUME DemandAssumption ==
    /\ Resource \cap Alias = {}
    /\ AliasSets \in [Resource -> SUBSET SUBSET Alias]
    /\ Initially \subseteq [Resource -> [version : {0, 1}, aliases : SUBSET Alias]]
    /\ MaxPublications \in Nat \ {0} /\ {MaxUp, MaxDown} \subseteq Nat \ {0}

Name == Resource \cup Alias
Version == 0 .. MaxPublications
Absent == [version |-> 0, aliases |-> {}]
Nothing == [r \in Resource |-> Absent]
NothingSent == [r \in Resource |-> 0]
NothingLapsed == [r \in Resource |-> {}]

VARIABLES
    publications,       \* how often a resource was published or withdrawn
    published,          \* the snapshot of the resource store
    changed,            \* resources in the update queued for the stream
    started, names, sent,   \* the watch: names subscribed to, versions sent
    lapsed,             \* history: see Send
    up, down            \* requests and responses on the stream

store == <<publications, published>>
watch == <<started, names, sent, lapsed>>
serverVars == <<store, changed, watch, up, down>>

\* Publication 1 is the state of the store when the client starts.
ServerInit ==
    /\ publications = 1
    /\ published \in Initially
    /\ changed = {}
    /\ started = FALSE /\ names = {} /\ sent = NothingSent /\ lapsed = NothingLapsed
    /\ up = << >> /\ down = << >>

-----------------------------------------------------------------------------
(* Publications.  An update before the first request finds no watch. *)

Store(r, content) ==
    /\ publications < MaxPublications
    /\ publications' = publications + 1
    /\ published' = [published EXCEPT ![r] = content]
    /\ changed' = IF started THEN changed \cup {r} ELSE changed
    /\ UNCHANGED <<watch, up, down>>

Publish(r) == \E aliases \in AliasSets[r] :
    Store(r, [version |-> publications + 1, aliases |-> aliases])
Withdraw(r) == published[r] # Absent /\ Store(r, Absent)

-----------------------------------------------------------------------------
(* Selection and generation *)

NamesOf(r, content) == {r} \cup content.aliases

\* addressSelection.selectedByNames; the scopes of gateways and EPEs see all.
Selected(ns) == {r \in Resource : /\ published[r] # Absent
                                  /\ NamesOf(r, published[r]) \cap ns # {}}
Lookup(n) == Selected({n})

\* Mutant: a resource that was sent is not sent again when it is asked for.
DemandDeltaOnce(view, subscribed) ==
    LET selected == Selected(view.names)
    IN  [resources |-> {r \in selected : view.sent[r] # published[r].version},
         removed |-> {r \in Resource \ selected : view.sent[r] # 0}
                        \cup {n \in subscribed : Lookup(n) = {}}]

\* diffDemandWorkloads: what is selected and was not sent, or is asked for by
\* name, and what was sent and is not selected, or is asked for and missing.
DemandDelta(view, subscribed) ==
    LET selected == Selected(view.names)
        requested == UNION {Lookup(n) : n \in subscribed}
    IN  [resources |-> {r \in selected : \/ view.sent[r] # published[r].version
                                         \/ r \in requested},
         removed |-> {r \in Resource \ selected : view.sent[r] # 0}
                        \cup {n \in subscribed : Lookup(n) = {}}]

\* generateIncremental, with the versions compared by unsentResources.
IncrementalDelta ==
    [resources |-> {r \in changed \cap Selected(names) : sent[r] # published[r].version},
     removed |-> {r \in changed \ Selected(names) : sent[r] # 0}]

\* sendGeneratedDelta; s is the watch's record of what was sent before.  Of a
\* resource the record has just dropped nothing more is heard by the names that
\* the watch does not have, or that the resource no longer has.
Send(delta, s) ==
    /\ down' = Append(down, [resources |-> [r \in Resource |->
                                 IF r \in delta.resources THEN published[r] ELSE Absent],
                             removed |-> delta.removed])
    /\ sent' = [r \in Resource |-> IF r \in delta.removed THEN 0
                                   ELSE IF r \in delta.resources THEN published[r].version
                                   ELSE s[r]]
    /\ lapsed' = [r \in Resource |->
                      IF r \in delta.removed \cup delta.resources THEN {}
                      ELSE IF s[r] = 0 /\ sent[r] # 0
                      THEN Name \ (names' \cap NamesOf(r, published[r]))
                      ELSE lapsed[r]]

-----------------------------------------------------------------------------
(* The handlers of the ADS loop *)

\* Mutant: a resource given up by one name is forgotten although another name
\* still selects it.
ForgettingAll(w, ns) ==
    [r \in Resource |-> IF r \in UNION {Lookup(n) : n \in ns} THEN 0 ELSE w.sent[r]]

\* demandReconciliationView for the watch w of a later request: what it makes
\* of the sent versions and the view it generates from.  Only the resources
\* asked for are reconciled, and those given up that another name still
\* selects.  Ambiguous names take the complete selection; the loop may have
\* forgotten some of the resources given up before it meets one.
Forgetting(w, ns) ==
    LET gone == (UNION {Lookup(n) : n \in ns}) \ Selected(w.names)
    IN  [r \in Resource |-> IF r \in gone THEN 0 ELSE w.sent[r]]

Reconciliations(w, request) ==
    LET unique == {n \in request.unsub : Cardinality(Lookup(n)) = 1}
        kept == (UNION {Lookup(n) : n \in request.unsub}) \cap Selected(w.names)
    IN  IF \E n \in request.sub : Cardinality(Lookup(n)) > 1
        THEN {[sent |-> w.sent, view |-> w]}
        ELSE IF unique = request.unsub
        THEN {[sent |-> Forgetting(w, unique),
               view |-> [names |-> request.sub \cup kept,
                         sent |-> [r \in Resource |->
                                      IF r \in kept THEN w.sent[r] ELSE 0]]]}
        ELSE {[sent |-> Forgetting(w, ns), view |-> [w EXCEPT !.sent = Forgetting(w, ns)]] :
                 ns \in SUBSET unique}

\* handleRequest: applySubscription, then a response, empty or not.
HandleRequest ==
    /\ up # << >> /\ Len(down) < MaxDown
    /\ LET request == Head(up)
           w == [names |-> (names \cup request.sub) \ request.unsub,
                 sent |-> [r \in Resource |-> IF r \in request.unsub THEN 0 ELSE sent[r]]]
       IN  /\ names' = w.names
           /\ \E rec \in (IF started THEN Reconciliations(w, request)
                                     ELSE {[sent |-> w.sent, view |-> w]}) :
                 Send(DemandDelta(rec.view, request.sub), rec.sent)
    /\ started' = TRUE
    /\ up' = Tail(up)
    /\ UNCHANGED <<store, changed>>

\* pushUpdate of an incremental update.
PushUpdate ==
    /\ changed # {} /\ Len(down) < MaxDown
    /\ changed' = {}
    /\ IF IncrementalDelta.resources = {} /\ IncrementalDelta.removed = {}
       THEN UNCHANGED <<sent, lapsed, down>>
       ELSE Send(IncrementalDelta, sent)
    /\ UNCHANGED <<store, started, names, up>>

\* The stream ends: the watch goes with it, and so does what is in flight.
StreamEnds ==
    /\ started' = FALSE /\ names' = {} /\ sent' = NothingSent /\ lapsed' = NothingLapsed
    /\ changed' = {}
    /\ up' = << >> /\ down' = << >>
    /\ UNCHANGED store
=============================================================================
