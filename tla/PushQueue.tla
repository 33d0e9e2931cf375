----------------------------- MODULE PushQueue -----------------------------
(***************************************************************************)
(* What the push scheduler promises its callers, without the queue, the    *)
(* maps, the slots or the wake-up channel it is built from.  Every stream  *)
(* (connection) owns a set of invalidated keys that waits for a push and   *)
(* at most one push that is assigned to it.  Accepting an update only adds *)
(* to the waiting set; a key leaves that set by entering a push; no more   *)
(* than Concurrency streams hold a push at a time; only the end of a       *)
(* stream, or of the scheduler, discards what was accepted.                *)
(***************************************************************************)
EXTENDS Naturals, FiniteSets

CONSTANTS Conn,          \* the Delta streams
          Key,           \* what an update can invalidate
          Concurrency,   \* PUSH_CONCURRENCY
          None           \* no push

VARIABLES waiting,       \* waiting[c]: accepted keys that no push carries yet
          assigned,      \* assigned[c]: the keys of the push c holds, or None
          ended          \* the streams that are over

avars == <<waiting, assigned, ended>>

AInit == /\ waiting = [c \in Conn |-> {}]
         /\ assigned = [c \in Conn |-> None]
         /\ ended = {}

\* What waits becomes W, except that the work of ended streams may be dropped.
Waits(W) == \A c \in Conn : \/ waiting'[c] = W[c]
                            \/ c \in ended' /\ waiting'[c] \subseteq W[c]

Accept(c, u) ==
    /\ c \notin ended
    /\ waiting' = [waiting EXCEPT ![c] = @ \cup u]
    /\ UNCHANGED <<assigned, ended>>

\* A stream has one push at a time.  Keys accepted while the push is being
\* assembled may stay behind, but none gets lost.
Assign(c) ==
    /\ assigned[c] = None
    /\ Cardinality({d \in Conn : assigned[d] # None}) < Concurrency
    /\ \E taken \in SUBSET waiting[c], left \in SUBSET waiting[c] :
          /\ taken \cup left = waiting[c]
          /\ assigned' = [assigned EXCEPT ![c] = taken]
          /\ Waits([waiting EXCEPT ![c] = left])
    /\ UNCHANGED ended

Finish(c) ==
    /\ assigned[c] # None
    /\ assigned' = [assigned EXCEPT ![c] = None]
    /\ Waits(waiting)
    /\ UNCHANGED ended

\* Streams end: one of them, or all when the scheduler closes.
End ==
    /\ ended \subseteq ended'
    /\ Waits(waiting)
    /\ \A c \in Conn : \/ assigned'[c] = assigned[c]
                       \/ c \in ended' /\ assigned'[c] = None

ANext == \/ \E c \in Conn, u \in SUBSET Key : Accept(c, u)
         \/ \E c \in Conn : Assign(c) \/ Finish(c)
         \/ End

ASpec == AInit /\ [][ANext]_avars
=============================================================================
