----------------------------- MODULE StreamFlow -----------------------------
(***************************************************************************)
(* Delta ADS streams and the capacity they share (pkg/xds: server.go,      *)
(* session.go, flowcontrol.go): admission, the loop of deltaSession.run,   *)
(* one response lease per stream, and the pushes a scheduler assigns.      *)
(* A stream that waits for a lease inside handleRequest does nothing else; *)
(* one that waits in handlePush goes on with requests and certificates.    *)
(* The push scheduler is the PushQueue contract with one update per stream.*)
(***************************************************************************)
EXTENDS Naturals, Sequences, FiniteSets, Functions

CONSTANTS
    Stream,
    Dedicated,          \* streams of dedicated ztunnels
    Asking,             \* streams whose clients change their subscriptions
    Issuing,            \* streams that ask for certificates
    Closing,            \* streams whose clients close their side first
    Concurrency,        \* pushConcurrency: capacity of every pool but streams
    MaxPodStreams,      \* capacity of the pool streams; 0 is no limit
    MaxResponses,       \* MaxResponses[s], bound: responses on stream s
    MaxInput            \* bound: requests on the way from a client

ASSUME FlowAssumption ==
    /\ IsFiniteSet(Stream) /\ Dedicated \cup Asking \cup Issuing \cup Closing \subseteq Stream
    /\ Concurrency \in Nat \ {0}
    /\ {MaxPodStreams, MaxInput} \subseteq Nat
    /\ MaxResponses \in [Stream -> Nat]

Pool == {"admissions", "initial", "request", "push", "scheduler", "streams"}
Capacity(p) == IF p = "streams" THEN MaxPodStreams ELSE Concurrency

\* A request: the response it answers (0 for none), and whether it is more
\* than a reply.  A completed certificate is handled like the request for it.
Request == [nonce : Nat, more : BOOLEAN]
Demand == [nonce |-> 0, more |-> TRUE]
NoRequest == [nonce |-> 0, more |-> FALSE]
Idle == "idle"

VARIABLES
    used,               \* used[p]: slots of pool p in use
    stream,             \* stream[s]: the state of a stream and its client
    queue,              \* the scheduler's FIFO of streams with a pending update
    assigned, later     \* streams with a push, and with an update after it

scheduler == <<queue, assigned, later>>
vars == <<used, stream, scheduler>>

State ==
    [phase : {"gone", "opening", "first", "loop"},
     lease : Pool \cup {Idle},          \* responseLease.pool
     work : Request,                    \* the request in handleRequest
     handling : BOOLEAN,                \* the loop is inside handlePush
     sent : Nat,
     unacknowledged : SUBSET Nat,
     acknowledged : BOOLEAN,            \* a watch has receivedAcknowledgement
     input : Seq(Request),              \* requests on the way to the loop
     ended : BOOLEAN,                   \* the client closed its side
     inputClosed : BOOLEAN,
     certificate : {Idle, "issuing", "ready", "done"}]     \* bound: one SDS job

\* A stream that is not there.
Gone == [phase |-> "gone", lease |-> Idle, work |-> NoRequest, handling |-> FALSE,
         sent |-> 0, unacknowledged |-> {}, acknowledged |-> FALSE, input |-> <<>>,
         ended |-> FALSE, inputClosed |-> FALSE, certificate |-> Idle]

\* Types: no pool, lease or Pod stream slot is taken beyond its capacity or given
\* back twice, and only an assigned stream has work queued for later.
TypeOK ==
    /\ \A p \in Pool : used[p] \in 0 .. Capacity(p)
    /\ stream \in [Stream -> State]
    /\ queue \in Seq(Stream) /\ later \subseteq assigned /\ assigned \subseteq Stream

Init ==
    /\ used = [p \in Pool |-> 0]
    /\ stream = [s \in Stream |-> Gone]
    /\ queue = <<>> /\ assigned = {} /\ later = {}

-----------------------------------------------------------------------------

Become(s, state) == stream' = [stream EXCEPT ![s] = state]
Limited(s) == s \in Dedicated /\ MaxPodStreams > 0

Free(p) == used[p] < Capacity(p)
Taken(p) == [used EXCEPT ![p] = @ + 1]
Returned(P) == [p \in Pool |-> IF p \in P THEN used[p] - 1 ELSE used[p]]

\* What the deferred calls of serveDelta, run and handlePush give back.
Held(s) ==
    {stream[s].lease} \cup (IF stream[s].phase \in {"opening", "first"}
                            THEN {"admissions"} ELSE {})
                      \cup (IF Limited(s) /\ stream[s].phase \in {"first", "loop"}
                            THEN {"streams"} ELSE {})
                      \cup (IF s \in assigned THEN {"scheduler"} ELSE {})

\* A queue that holds s once at most, without it.
Without(q, s) ==
    IF s \notin Range(q) THEN q
    ELSE LET i == CHOOSE i \in DOMAIN q : q[i] = s
         IN  [j \in 1 .. Len(q) - 1 |-> IF j < i THEN q[j] ELSE q[j + 1]]

\* Mutant: run does not cancel what the scheduler has for the stream.
EndUncancelled(s) ==
    /\ Become(s, Gone)
    /\ used' = Returned(Held(s) \ {"scheduler"})
    /\ queue' = Without(queue, s)
    /\ assigned' = assigned \ {s}
    /\ later' = later \ {s}

\* The stream's handler returns.
End(s) ==
    /\ Become(s, Gone)
    /\ used' = Returned(Held(s))
    /\ queue' = Without(queue, s)
    /\ assigned' = assigned \ {s}
    /\ later' = later \ {s}

\* serveDelta up to admitInitial.  A stream that is refused, by the rate limit
\* or because it waits too long, leaves no trace.
AdmitInitial(s) ==
    /\ stream[s].phase = "gone" /\ Free("admissions")
    /\ Become(s, [Gone EXCEPT !.phase = "opening"])
    /\ used' = Taken("admissions")
    /\ UNCHANGED scheduler

\* The caller is authenticated, its first request has come and its scope is
\* known; a dedicated ztunnel also needs admitPodStream.
Open(s) ==
    /\ stream[s].phase = "opening"
    /\ IF Limited(s) THEN Free("streams") /\ used' = Taken("streams") ELSE UNCHANGED used
    /\ Become(s, [stream[s] EXCEPT !.phase = "first", !.work = Demand])
    /\ UNCHANGED scheduler

\* The context of the stream is done, or the handler returns an error: any
\* failure of authentication, scope, admitPodStream, generation or Send.
Fail(s) == stream[s].phase # "gone" /\ End(s)

-----------------------------------------------------------------------------

\* Mutant: responses borrow capacity from the scheduler.
RequestPoolShared(s) == "scheduler"

\* requestResponsePool
RequestPool(s) == IF stream[s].acknowledged THEN "request" ELSE "initial"

Busy(s) == stream[s].work # NoRequest

\* Mutant: a reply that also changes the subscription needs no lease.
NeedsLeaseUnanswered(r) == r.nonce = 0

\* Not pureACK
NeedsLease(r) == r.more

\* responseLease.acquire, where it has to wait for a slot
Acquire(s) ==
    /\ Busy(s) /\ NeedsLease(stream[s].work) /\ stream[s].lease = Idle
    /\ Free(RequestPool(s))
    /\ used' = Taken(RequestPool(s))
    /\ Become(s, [stream[s] EXCEPT !.lease = RequestPool(s)])
    /\ UNCHANGED scheduler

\* releaseAcknowledged
ReleaseAcknowledged(state) ==
    IF state.unacknowledged = {} THEN [state EXCEPT !.lease = Idle] ELSE state

\* What recordAcknowledgement may drop: the response answered and earlier ones
\* of its type.
Answers(r, open) == IF r.nonce \notin open THEN {{}}
                    ELSE {D \in SUBSET (open \cap (1 .. r.nonce)) : r.nonce \in D}

\* handleRequest and releaseAcknowledged; after the first request run also
\* releases the admission.  handleCertificate is the case of a Demand.  A demand
\* for TrafficPolicies can be answered by two responses, Workloads first.
HandleRequest(s) ==
    LET st == stream[s]
        r == st.work
    IN  /\ Busy(s) /\ (NeedsLease(r) => st.lease # Idle)
        /\ \E D \in Answers(r, st.unacknowledged),
              k \in IF r.more THEN {i \in 0 .. 2 : st.sent + i <= MaxResponses[s]} ELSE {0},
              c \in IF s \in Issuing /\ r.more /\ st.certificate = Idle THEN {Idle, "issuing"}
                    ELSE {st.certificate} :
             LET new == ReleaseAcknowledged(
                          [st EXCEPT !.phase = "loop", !.work = NoRequest,
                             !.sent = @ + k, !.certificate = c,
                             !.acknowledged = @ \/ D # {},
                             !.unacknowledged = (@ \ D) \cup (st.sent + 1 .. st.sent + k)])
             IN  /\ Become(s, new)
                 /\ used' = Returned((IF new.lease = Idle THEN {st.lease} ELSE {})
                              \cup (IF st.phase = "first" THEN {"admissions"} ELSE {}))
        /\ UNCHANGED scheduler

\* The loop, or the wait of handlePush, can take the next event.
Ready(s) == /\ stream[s].phase = "loop" /\ ~Busy(s)
            /\ stream[s].handling => stream[s].lease = Idle

\* handleIncoming
Take(s) ==
    /\ Ready(s) /\ stream[s].input # <<>>
    /\ Become(s, [stream[s] EXCEPT !.work = Head(stream[s].input), !.input = Tail(@)])
    /\ UNCHANGED <<used, scheduler>>

\* handleIncoming at the end of the client's side
CloseInput(s) ==
    /\ Ready(s) /\ stream[s].ended /\ stream[s].input = <<>> /\ ~stream[s].inputClosed
    /\ Become(s, [stream[s] EXCEPT !.inputClosed = TRUE])
    /\ UNCHANGED <<used, scheduler>>

\* A completion of the stream's SDS jobs
TakeCertificate(s) ==
    /\ Ready(s) /\ stream[s].certificate = "ready"
    /\ Become(s, [stream[s] EXCEPT !.work = Demand, !.certificate = "done"])
    /\ UNCHANGED <<used, scheduler>>

\* pendingWork
Finished(s) == stream[s].inputClosed /\ stream[s].certificate \in {Idle, "done"}

Finish(s) == Ready(s) /\ ~stream[s].handling /\ Finished(s) /\ End(s)

\* lease.timedOut and lease.expired: replies are handled without a look at the
\* clock.
Expire(s) ==
    /\ stream[s].phase = "loop" /\ stream[s].lease # Idle
    /\ Busy(s) => NeedsLease(stream[s].work)
    /\ End(s)

\* enqueueUpdate, with the Enqueue of the scheduler
EnqueueUpdate(s) ==
    /\ Ready(s) /\ ~stream[s].handling
    /\ IF s \in assigned THEN later' = later \cup {s} /\ UNCHANGED queue
       ELSE /\ queue' = IF s \in Range(queue) THEN queue ELSE Append(queue, s)
            /\ UNCHANGED later
    /\ UNCHANGED <<used, stream, assigned>>

\* dispatchPushes: the mailbox of a stream without an assigned push is empty.
Assign ==
    /\ queue # <<>> /\ Free("scheduler")
    /\ used' = Taken("scheduler")
    /\ queue' = Tail(queue)
    /\ assigned' = assigned \cup {Head(queue)}
    /\ UNCHANGED <<stream, later>>

\* Mutant: an update that came during the push is not queued again.
DoneForgetting(s) == assigned' = assigned \ {s} /\ UNCHANGED <<later, queue>>

\* PushScheduler.Done
Done(s) ==
    /\ assigned' = assigned \ {s}
    /\ later' = later \ {s}
    /\ queue' = IF s \in later THEN Append(queue, s) ELSE queue

TakePush(s) ==
    /\ Ready(s) /\ s \in assigned /\ ~stream[s].handling
    /\ Become(s, [stream[s] EXCEPT !.handling = TRUE])
    /\ UNCHANGED <<used, scheduler>>

\* handlePush: the input is closed while the push waits for a lease.
GiveUpPush(s) ==
    /\ Ready(s) /\ stream[s].handling /\ Finished(s)
    /\ Become(s, [stream[s] EXCEPT !.handling = FALSE])
    /\ used' = Returned({"scheduler"})
    /\ Done(s)

\* handlePush: a slot of pushSlots is free.
StartLease(s) ==
    /\ Ready(s) /\ stream[s].handling /\ ~Finished(s) /\ Free("push")
    /\ Become(s, [stream[s] EXCEPT !.lease = "push"])
    /\ used' = Taken("push")
    /\ UNCHANGED scheduler

\* handlePush: pushUpdate, releaseAcknowledged and Done
Push(s) ==
    /\ stream[s].handling /\ ~Busy(s) /\ stream[s].lease # Idle
    /\ \E k \in 0 .. MaxResponses[s] - stream[s].sent :
          LET new == ReleaseAcknowledged(
                       [stream[s] EXCEPT !.handling = FALSE, !.sent = @ + k,
                          !.unacknowledged = @ \cup (stream[s].sent + 1 .. stream[s].sent + k)])
          IN  /\ Become(s, new)
              /\ used' = Returned({"scheduler"} \cup
                                  (IF new.lease = Idle THEN {stream[s].lease} ELSE {}))
    /\ Done(s)

-----------------------------------------------------------------------------

\* The client asks for something, with no nonce or that of any response.
Connected(s) == /\ stream[s].phase \in {"first", "loop"} /\ ~stream[s].ended
                /\ Len(stream[s].input) < MaxInput
Unanswered(s) == stream[s].unacknowledged \ ({stream[s].work.nonce} \cup
                    {stream[s].input[i].nonce : i \in DOMAIN stream[s].input})
Ask(s) ==
    /\ Connected(s) /\ s \in Asking
    /\ \E n \in 0 .. stream[s].sent :
          Become(s, [stream[s] EXCEPT !.input = Append(@, [nonce |-> n, more |-> TRUE])])
    /\ UNCHANGED <<used, scheduler>>

Reply(s) ==
    /\ Connected(s)
    /\ \E n \in Unanswered(s) :
          Become(s, [stream[s] EXCEPT !.input = Append(@, [nonce |-> n, more |-> FALSE])])
    /\ UNCHANGED <<used, scheduler>>

CloseSend(s) ==
    /\ Connected(s) /\ s \in Closing
    /\ Become(s, [stream[s] EXCEPT !.ended = TRUE])
    /\ UNCHANGED <<used, scheduler>>

\* A worker of the stream's SDS session completes.
Issue(s) ==
    /\ stream[s].certificate = "issuing"
    /\ Become(s, [stream[s] EXCEPT !.certificate = "ready"])
    /\ UNCHANGED <<used, scheduler>>

Loop(s) == \/ HandleRequest(s) \/ Take(s) \/ CloseInput(s) \/ TakeCertificate(s)
           \/ Finish(s) \/ TakePush(s) \/ GiveUpPush(s) \/ Push(s)

Next == Assign \/ \E s \in Stream :
    \/ AdmitInitial(s) \/ Open(s) \/ Fail(s)
    \/ Loop(s) \/ Acquire(s) \/ StartLease(s) \/ Expire(s) \/ EnqueueUpdate(s)
    \/ Ask(s) \/ Reply(s) \/ CloseSend(s) \/ Issue(s)

\* The dispatcher and the goroutine of a stream run and timers fire.  Waiting
\* senders of a channel are served in order, and select chooses among its ready
\* cases at random.
Fairness ==
    /\ WF_vars(Assign)
    /\ \A s \in Stream : /\ WF_vars(Loop(s)) /\ WF_vars(Expire(s))
                         /\ SF_vars(Acquire(s)) /\ SF_vars(StartLease(s))
                         /\ SF_vars(TakePush(s))

Spec == Init /\ [][Next]_vars
FairSpec == Spec /\ Fairness

-----------------------------------------------------------------------------

\* Every slot in use has an owner that gives it back: the channels of the flow
\* controller and the scheduler hold what the streams hold, through errors,
\* timeouts and disconnects at any point of the loop.
SlotsMatchHolders ==
    \A p \in Pool : used[p] = Cardinality({s \in Stream : p \in Held(s)})

\* A stream has responses without a reply only while it holds a lease, so
\* releaseAcknowledged never touches the timer of a lease that was not started;
\* and between two events it holds a lease only for such responses.
LeaseCoversResponses ==
    \A s \in Stream :
       /\ stream[s].unacknowledged # {} => stream[s].lease # Idle
       /\ stream[s].phase = "loop" /\ ~Busy(s) /\ ~stream[s].handling /\ stream[s].lease # Idle
             => stream[s].unacknowledged # {}

Waiting(s) == /\ stream[s].phase # "gone" /\ stream[s].lease = Idle
              /\ stream[s].handling \/ (Busy(s) /\ NeedsLease(stream[s].work))

\* No stream waits for a lease for ever: not for its own replies, and not for
\* a push that waits for this stream.
WaitersProceed == \A s \in Stream : Waiting(s) ~> ~Waiting(s)

\* An update in the scheduler is assigned or its stream ends, although assigned
\* pushes keep their slot while they wait for a lease.
UpdatesAreAssigned ==
    \A s \in Stream : s \in Range(queue) \cup later ~> s \notin Range(queue) \cup later
=============================================================================
