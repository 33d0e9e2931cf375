----------------------------- MODULE DeltaWatch -----------------------------
(***************************************************************************)
(* One tracked resource type of one client, end to end: the published      *)
(* resources, the notification that reaches the session (mailbox) and the  *)
(* push scheduler (queued), the watch of the session, the two directions   *)
(* of the Delta stream, and the client.  The watch is that of handleRequest*)
(* and pushUpdate in pkg/xds/delta.go with the SnapshotGenerator; the      *)
(* client is any Delta xDS client: it accepts a response, or rejects it    *)
(* and keeps an unspecified part, and may resubscribe, evict or reconnect. *)
(*                                                                         *)
(* A version is a natural number; 0 is "none in the scope of this client": *)
(* there is no such resource, or only another gateway or variant has one   *)
(* by that name (scopeAllows).  Nothing in the program notifies a tracked  *)
(* type as a whole (Store.Notify has no caller), so an update always lists *)
(* what changed.  The kind of the type: subscribed to by name, implicitly  *)
(* subscribed to as a whole, or extensions (ECDS).                         *)
(***************************************************************************)
EXTENDS WatchAcks, Sequences, FiniteSets

CONSTANTS MaxVersion,    \* bound on the contents a resource can have
          MaxUp          \* MaxUp[k]: bound on the requests in flight

Kind == {"named", "wildcard", "extension"}

ASSUME DeltaAssumption == MaxVersion \in Nat /\ MaxUp \in [Kind -> Nat]

Versions == 0 .. MaxVersion
Rejected == MaxVersion + 1        \* the version "" generateAndSend pretends
Nothing == [n \in Name |-> 0]

VARIABLES
    resources,   \* resources[n]: the published version, if the client may see it
    mailbox,     \* the update the store subscription holds
    queued,      \* the update the push scheduler holds
    started,     \* the watch has handled its first request
    names,       \* names the watch is subscribed to
    sent,        \* sent[n]: version of the last response that carried n
    acks,        \* acknowledgement state, see WatchAcks
    nonce,       \* the counter of the server
    down,        \* responses on the stream
    up,          \* requests on the stream
    want,        \* names the client is subscribed to
    have,        \* have[n]: the version the client uses
    kind,        \* the kind of the resource type
    reused       \* history: names asked for with a response or the end of
                 \* the last subscription to them still on the stream

vars == <<resources, mailbox, queued, started, names, sent, acks, nonce, down,
          up, want, have, kind, reused>>
watchVars == <<started, names, sent, acks, nonce>>
wildcard == kind = "wildcard"
Ecds == kind = "extension"

\* An update lists the candidates, the names whose resource changed, and those
\* of them that had or got an identity in the scope of the client on the way.
Update == [candidates : SUBSET Name, ours : SUBSET Name]
NoUpdate == [candidates |-> {}, ours |-> {}]

\* Update.Merge
Merge(u, v) == [candidates |-> u.candidates \cup v.candidates, ours |-> u.ours \cup v.ours]

Request == [nonce : {0} \cup Nonce, nack : BOOLEAN, sub : SUBSET Name,
            unsub : SUBSET Name, initial : [Name -> Versions]]
Reply == [nonce : Nonce, versions : [Name -> Versions], resources : SUBSET Name,
          removed : SUBSET Name]

\* The types of the store, the watch, the two directions of the stream and
\* the client.
TypeOK ==
    /\ resources \in [Name -> Versions]
    /\ mailbox \in Update /\ queued \in Update
    /\ started \in BOOLEAN
    /\ names \subseteq Name
    /\ sent \in [Name -> Versions]
    /\ acks \in AckState
    /\ nonce \in {0} \cup Nonce
    /\ down \in Seq(Reply)
    /\ up \in Seq(Request)
    /\ want \subseteq Name
    /\ have \in [Name -> Versions]
    /\ reused \subseteq Name
    /\ kind \in Kind

\* The first request of a stream replays what the client holds.  Subscribing
\* by wildcard names nothing.
FirstRequest(w, h) == [nonce |-> 0, nack |-> FALSE, sub |-> IF wildcard THEN {} ELSE w,
                       unsub |-> {}, initial |-> h]

Init ==
    /\ resources \in [Name -> Versions]
    /\ mailbox = NoUpdate /\ queued = NoUpdate
    /\ started = FALSE /\ names = {} /\ sent = Nothing /\ acks = NoAcks
    /\ nonce = 0
    /\ down = << >>
    /\ kind \in Kind
    /\ want \in (IF wildcard THEN {Name} ELSE SUBSET Name)
    /\ have = Nothing
    /\ up = <<FirstRequest(want, Nothing)>>
    /\ reused = {}

-----------------------------------------------------------------------------
(* Publication and notification *)

\* Bound: nonces are taken from Nonce, and the resources and the stream do not
\* change any more when none is left.
ResponsesLeft == nonce + 1 \in Nonce

\* The update carries the identity before the change and the one after it.
Publish(n, v) ==
    /\ resources[n] # v /\ ResponsesLeft
    /\ resources' = [resources EXCEPT ![n] = v]
    /\ mailbox' = Merge(mailbox, [candidates |-> {n}, ours |-> {n}])
    /\ UNCHANGED <<queued, watchVars, down, up, want, have, reused, kind>>

\* Another gateway publishes, changes or withdraws its resource of this name.
\* (While this client has one too, that is a key of its own, which no generator
\* shows it.)  Bound: only when no update is under way; others may follow it.
PublishElsewhere(n) ==
    /\ resources[n] = 0 /\ ResponsesLeft
    /\ mailbox = NoUpdate /\ queued = NoUpdate
    /\ mailbox' = [candidates |-> {n}, ours |-> {}]
    /\ UNCHANGED <<resources, queued, watchVars, down, up, want, have, reused, kind>>

\* enqueueUpdate: an update before the first request is dropped.
EnqueueUpdate ==
    /\ mailbox # NoUpdate
    /\ mailbox' = NoUpdate
    /\ queued' = IF started THEN Merge(queued, mailbox) ELSE queued
    /\ UNCHANGED <<resources, watchVars, down, up, want, have, reused, kind>>

-----------------------------------------------------------------------------
(* Generation.  w is the watch as the handler sees it: names, sent, acks.  *)

Watch == [names |-> names, sent |-> sent, acks |-> acks]
Allowed(w) == {n \in Name : resources[n] # 0 /\ (wildcard \/ n \in w.names)}

\* generateAndSend shows a recovering generator the pending names with an
\* empty version, so that they are sent or removed again.
SentView(w) == [n \in Name |-> IF w.acks.recovering /\ w.acks.pending[n] # 0
                               THEN Rejected ELSE w.sent[n]]

\* generateSnapshotDiff
FullDelta(w, subscribed) ==
    [resources |-> {n \in Allowed(w) : \/ SentView(w)[n] # resources[n]
                                       \/ n \in subscribed},
     removed |-> {n \in Name : SentView(w)[n] # 0} \ Allowed(w)]

\* generateIncremental: only an identity in scope withdraws a name.
IncrementalDelta(w, update) ==
    [resources |-> {n \in Allowed(w) \cap update.candidates : w.sent[n] # resources[n]},
     removed |-> {n \in update.ours : w.sent[n] # 0} \ Allowed(w)]

\* Mutant: recovery only looks at what changed.
PushDeltaIncremental(w, update) == IncrementalDelta(w, update)

PushDelta(w, update) ==
    IF w.acks.recovering THEN FullDelta(w, {}) ELSE IncrementalDelta(w, update)

\* Mutant: only the current resource decides whether an update is relevant.
RelevantNow(update) == \E n \in update.candidates : resources[n] # 0

\* generateAndSend: a candidate is the client's, or was on the way.
Relevant(update) ==
    \E n \in update.candidates : resources[n] # 0 \/ n \in update.ours

\* sendGeneratedDelta: extensions are never removed, an empty response is only
\* sent on demand, and sent state follows what was sent.
SendGenerated(w, delta, force) ==
    LET a == IF Ecds THEN Forgotten(w.acks, delta.removed) ELSE w.acks
        removed == IF Ecds THEN {} ELSE delta.removed
    IN  IF delta.resources = {} /\ removed = {} /\ ~force
        THEN /\ acks' = a
             /\ sent' = w.sent
             /\ UNCHANGED <<nonce, down>>
        ELSE /\ ResponsesLeft
             /\ nonce' = nonce + 1
             /\ down' = Append(down, [nonce |-> nonce + 1, resources |-> delta.resources,
                                      removed |-> removed,
                                      versions |-> [n \in Name |->
                                         IF n \in delta.resources THEN resources[n] ELSE 0]])
             /\ sent' = [n \in Name |-> IF n \in delta.resources THEN resources[n]
                                        ELSE IF n \in removed THEN 0 ELSE w.sent[n]]
             /\ acks' = Delivered(a, nonce + 1, delta.resources, removed)

-----------------------------------------------------------------------------
(* The session *)

\* pushUpdate for what the scheduler hands over.  A recovering watch leaves an
\* update that concerns other gateways alone, and stays as it is.
PushUpdate ==
    /\ queued # NoUpdate
    /\ queued' = NoUpdate
    /\ started
    /\ IF acks.recovering /\ ~Relevant(queued)
       THEN UNCHANGED <<sent, acks, nonce, down>>
       ELSE SendGenerated(Watch, PushDelta(Watch, queued), FALSE)
    /\ UNCHANGED <<resources, mailbox, started, names, up, want, have, reused, kind>>

\* applySubscription
Subscribed(r) ==
    LET restored == {n \in Name : r.initial[n] # 0}
        base == IF started \/ wildcard THEN names ELSE names \cup restored
        held == IF started THEN sent ELSE r.initial
    IN  [names |-> (base \cup r.sub) \ r.unsub,
         sent |-> [n \in Name |-> IF n \in r.unsub THEN 0 ELSE held[n]],
         acks |-> Forgotten(acks, r.unsub)]

\* handleRequest: the subscription first, then the reply, then a response
\* unless the request was a reply and nothing else.
HandleRequest ==
    /\ up # << >>
    /\ up' = Tail(up)
    /\ started' = TRUE
    /\ LET r == Head(up)
           s == Subscribed(r)
           w == [s EXCEPT !.acks = IF r.nonce = 0 THEN @ ELSE Answered(@, r.nonce, r.nack)]
           changed == \/ ~started
                      \/ ~(r.sub \subseteq names)
                      \/ r.unsub \cap (names \cup r.sub) # {}
       IN  /\ names' = w.names
           /\ IF ~changed /\ r.nonce # 0 /\ r.sub = {}
              THEN acks' = w.acks /\ sent' = w.sent /\ UNCHANGED <<nonce, down>>
              ELSE SendGenerated(w, FullDelta(w, r.sub), TRUE)
    /\ UNCHANGED <<resources, mailbox, queued, want, have, reused, kind>>

-----------------------------------------------------------------------------
(* The client and the stream *)

\* The client answers in order.  An ACK means that everything was taken; a
\* NACK leaves open which part was.
Receive(nack, taken) ==
    /\ down # << >> /\ Len(up) < MaxUp[kind]
    /\ down' = Tail(down)
    /\ LET m == Head(down)
       IN  /\ taken \subseteq Named(m)
           /\ ~nack => taken = Named(m)
           /\ have' = [n \in Name |-> IF n \in taken /\ n \in want THEN m.versions[n]
                                      ELSE have[n]]
           /\ up' = Append(up, [nonce |-> m.nonce, nack |-> nack, sub |-> {},
                                unsub |-> {}, initial |-> Nothing])
    /\ UNCHANGED <<resources, mailbox, queued, watchVars, want, reused, kind>>

\* A new name, or one whose local copy the client evicted.
Subscribe(n) ==
    /\ ~wildcard /\ Len(up) < MaxUp[kind]
    /\ want' = want \cup {n}
    /\ reused' = IF \/ \E i \in DOMAIN down : n \in Named(down[i])
                    \/ \E i \in DOMAIN up : n \in up[i].unsub
                 THEN reused \cup {n} ELSE reused
    /\ have' = [have EXCEPT ![n] = 0]
    /\ up' = Append(up, [nonce |-> 0, nack |-> FALSE, sub |-> {n}, unsub |-> {},
                         initial |-> Nothing])
    /\ UNCHANGED <<resources, mailbox, queued, watchVars, down, kind>>

Unsubscribe(n) ==
    /\ ~wildcard /\ Len(up) < MaxUp[kind]
    /\ n \in want
    /\ want' = want \ {n}
    /\ have' = [have EXCEPT ![n] = 0]
    /\ up' = Append(up, [nonce |-> 0, nack |-> FALSE, sub |-> {}, unsub |-> {n},
                         initial |-> Nothing])
    /\ UNCHANGED <<resources, mailbox, queued, watchVars, down, reused, kind>>

\* The stream breaks, whatever is on it is lost, and with it the watch, the
\* store subscription and the queued push.
Reconnect ==
    /\ ResponsesLeft
    /\ down' = << >>
    /\ up' = <<FirstRequest(want, have)>>
    /\ started' = FALSE /\ names' = {} /\ sent' = Nothing /\ acks' = NoAcks
    /\ mailbox' = NoUpdate /\ queued' = NoUpdate /\ reused' = {}
    /\ UNCHANGED <<resources, nonce, want, have, kind>>

Next ==
    \/ \E n \in Name, v \in Versions : Publish(n, v)
    \/ \E n \in Name : PublishElsewhere(n)
    \/ EnqueueUpdate
    \/ PushUpdate
    \/ HandleRequest
    \/ \E nack \in BOOLEAN, taken \in SUBSET Name : Receive(nack, taken)
    \/ \E n \in Name : Subscribe(n) \/ Unsubscribe(n)
    \/ Reconnect

Spec == Init /\ [][Next]_vars

-----------------------------------------------------------------------------

\* Nothing is under way: no update, no response, no reply.
Settled == /\ started /\ mailbox = NoUpdate /\ queued = NoUpdate
           /\ down = << >> /\ up = << >>

\* When nothing is under way the client uses the published version of every name
\* it wants, or none if the name passed to another gateway; or the watch is
\* recovering and has the name marked, so that the next relevant push sends it
\* again.  A name the client dropped and asked for again on the same stream may
\* keep a withdrawn version that was on its way: the watch has forgotten it and
\* the SnapshotGenerator reports no missing names.  Extensions are left out:
\* they are never removed, and their marks go with the resource.
DifferencesAreRemembered ==
    Settled /\ ~Ecds => \A n \in want :
        have[n] # resources[n] =>
            \/ acks.recovering /\ acks.pending[n] # 0
            \/ n \in reused /\ resources[n] = 0

\* A push that reaches a recovering watch and concerns the client, be it by one
\* name that is, was or in between became visible, carries every name that is
\* still uncertain, but for extensions that are gone.  An update that only
\* concerns other gateways resends nothing.
RecoveryResends ==
    [][PushUpdate /\ acks.recovering /\ Relevant(queued) =>
          \A n \in Name : acks.pending[n] # 0 /\ (Ecds => resources[n] # 0) =>
              acks'.pending[n] = nonce' /\ nonce' # nonce]_vars

\* When nothing is under way every delivery is accepted or awaits recovery: no
\* reply was attributed to the wrong response.
RepliesSettleDeliveries ==
    Settled => /\ acks.response = NoResponse
               /\ Empty(acks.pending) \/ acks.recovering
               /\ wildcard \/ names = want

=============================================================================
