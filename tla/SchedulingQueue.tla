--------------------------- MODULE SchedulingQueue ---------------------------
(***************************************************************************)
(* SchedulingQueue (scheduling/queue.py) and its callers: requests that    *)
(* wait, give up and are dispatched, while hosts fill up and drain and the *)
(* hosts a waiting request may use change under it.                        *)
(***************************************************************************)
EXTENDS QueueOps

CONSTANTS Requests,
          Hosts,
          SessionOf,    \* [Requests -> Sessions]
          PriorityOf,   \* [Requests -> Priorities]
          Tracked       \* the requests enqueued with an eligibility callback

ASSUME CallersAssumption ==
    /\ SessionOf \in [Requests -> Sessions]
    /\ PriorityOf \in [Requests -> Priorities]
    /\ Priorities \subseteq Int
    /\ Tracked \subseteq Requests
    /\ Nothing \notin Requests

VARIABLES queue,
          eligibility,   \* the keys of _eligibility
          usable,        \* usable[r]: what the callback of r returns now
          free,          \* the hosts with in_flight < max_concurrent_requests
          status,        \* of a request: "idle", "waiting", "granted", "gone"
          passed         \* passed[p][s][u]: turns u had since s may go

vars == <<queue, eligibility, usable, free, status, passed>>

WaitingRequests == {r \in Requests : status[r] = "waiting"}

Init ==
    /\ queue = EmptyQueue
    /\ eligibility = {}
    /\ usable = [r \in Requests |-> Hosts]
    /\ free = Hosts
    /\ status = [r \in Requests |-> "idle"]
    /\ passed = [p \in Priorities |-> [s \in Sessions |-> [u \in Sessions |-> 0]]]

Enqueue(r) ==
    /\ status[r] = "idle"
    /\ queue' = Enqueued(queue, r, SessionOf[r], PriorityOf[r])
    /\ eligibility' = eligibility \cup ({r} \cap Tracked)
    /\ status' = [status EXCEPT ![r] = "waiting"]
    /\ UNCHANGED <<usable, free, passed>>

\* cancel: a waiter gives up, or a caller cleans up after its grant.
Cancel(r) ==
    /\ status[r] \in {"waiting", "granted"}
    /\ queue' = Cancelled(queue, r, SessionOf[r], PriorityOf[r])
    /\ eligibility' = eligibility \ {r}
    /\ status' = [status EXCEPT ![r] = "gone"]
    /\ passed' = IF queue'.tiers[PriorityOf[r]][SessionOf[r]] = << >>
                 THEN [passed EXCEPT ![PriorityOf[r]][SessionOf[r]] = [u \in Sessions |-> 0]]
                 ELSE passed
    /\ UNCHANGED <<usable, free>>

\* _has_free_capacity for a queued request: its callback if it has one, the
\* hosts the caller named otherwise.
MayRun(r, available) ==
    (IF r \in eligibility THEN usable[r] ELSE available) \cap free # {}

\* The turns counted against sessions that could have gone instead of u.
Counted(p, u, available) ==
    [passed EXCEPT ![p] =
        [s \in Sessions |->
            IF s = u THEN [v \in Sessions |-> 0]
            ELSE IF queue.tiers[p][s] # << >> /\ MayRun(Head(queue.tiers[p][s]), available)
                 THEN [passed[p][s] EXCEPT ![u] = @ + 1]
                 ELSE passed[p][s]]]

\* dispatch
Dispatch(available, wanted) ==
    LET result == Dispatched(queue, available \cap free # {},
                             {r \in Requests : MayRun(r, available)}, wanted)
        r == result.admitted
    IN  /\ r # Nothing
        /\ queue' = result.queue
        /\ eligibility' = eligibility \ {r}
        /\ status' = [status EXCEPT ![r] = "granted"]
        /\ passed' = Counted(PriorityOf[r], SessionOf[r], available)
        /\ UNCHANGED <<usable, free>>

\* Slots are taken and released; leases, health and registration change what a
\* request may use.
SlotChange(h) ==
    /\ free' = IF h \in free THEN free \ {h} ELSE free \cup {h}
    /\ UNCHANGED <<queue, eligibility, usable, status, passed>>

UsableChange(r, h) ==
    /\ r \in WaitingRequests \cap Tracked
    /\ usable' = [usable EXCEPT ![r] = IF h \in @ THEN @ \ {h} ELSE @ \cup {h}]
    /\ UNCHANGED <<queue, eligibility, free, status, passed>>

Next ==
    \/ \E r \in Requests : Enqueue(r) \/ Cancel(r)
    \/ \E available \in SUBSET Hosts, wanted \in Requests \cup {Nothing} :
          Dispatch(available, wanted)
    \/ \E h \in Hosts : SlotChange(h)
    \/ \E r \in Requests, h \in Hosts : UsableChange(r, h)

Spec == Init /\ [][Next]_vars

------------------------------------------------------------------------------
\* The queue, the callbacks and the callers agree on who is waiting, and the
\* rotation has each waiting session once, after any mix of grants and
\* cancellations (a leaked callback or a stale rotation entry would make a
\* later dispatch fail on an empty queue).
QueueMatchesWaiters ==
    /\ Waiting(queue) = WaitingRequests
    /\ WellFormed(queue)
    /\ eligibility = WaitingRequests \cap Tracked

\* Round robin: while the first request of a session could have run, no other
\* session of its tier gets two turns.
NoSessionStarves ==
    \A p \in Priorities, s \in Sessions, u \in Sessions : passed[p][s][u] <= 1

==============================================================================
