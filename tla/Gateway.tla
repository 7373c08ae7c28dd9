------------------------------- MODULE Gateway -------------------------------
(***************************************************************************)
(* chat_completions (api/app.py) with everything it shares: the registry's *)
(* slots, node leases, health verdicts, the scheduling queue and sticky    *)
(* sessions.  The gateway is one asyncio event loop: an action is what a   *)
(* request does between two awaits, and other requests, the poller, lease  *)
(* and node handlers and client disconnects run in between.                *)
(*                                                                         *)
(* A request discovers its hosts once and keeps the HostInfo objects.  The *)
(* registry replaces the object when a node is registered again, so what a *)
(* request holds may be an old object that no slot accounting reaches any  *)
(* more: seen[r][h] is Current while r sees the registry's own object and  *)
(* the frozen record afterwards.                                           *)
(***************************************************************************)
EXTENDS Integers, Sequences, FiniteSets

CONSTANTS Hosts,        \* host ids; integers, because ties are broken by id
          Requests,
          Sessions,
          Tokens,       \* lease tokens
          None,
          Current,
          SessionOf,    \* [Requests -> Sessions \cup {None}]
          Pin,          \* [Requests -> Tokens \cup {None}]: X-LLM-Node-Lease
          Streams,      \* the requests with stream = true
          Fits,         \* [Requests -> SUBSET Hosts]: context window is enough
          Registrations, \* what a node may register: its max_concurrent_requests, and
                        \* whether there is a factory for its backend_type
          MaxPolls      \* dispatch_wait_timeout / dispatch_poll_interval

HostInfo == [in_flight : Int, capacity : Nat, known : BOOLEAN]

ASSUME GatewayAssumption ==
    /\ Hosts \subseteq Int
    /\ IsFiniteSet(Requests)
    /\ SessionOf \in [Requests -> Sessions \cup {None}]
    /\ Registrations \subseteq [capacity : Nat, known : BOOLEAN]
    /\ MaxPolls \in Nat \ {0}
    /\ None \notin Hosts \cup Tokens \cup Sessions \cup Requests
    /\ None \notin HostInfo /\ Current \notin HostInfo /\ None # Current

VARIABLES hosts,      \* registry._hosts: a HostInfo, or None
          leased,     \* the token that holds a host, or None
          spent,      \* the tokens handed out so far
          healthy,    \* the hosts is_healthy accepts
          queue,      \* the scheduling queue
          sticky,     \* _sticky_assignments
          pc,         \* where a request is
          seen,       \* seen[r][h]: what r discovered of h
          on,         \* the host a request has a slot on
          polls,      \* polls a queued request has made
          tainted     \* the hosts deregistered under a running request

shared == <<hosts, leased, spent, healthy, queue, sticky, tainted>>
local == <<pc, seen, on, polls>>
vars == <<shared, local>>

\* A request without a session queues under its own id.
QueueSession(r) == IF SessionOf[r] = None THEN r ELSE SessionOf[r]
Queue == INSTANCE QueueOps
    WITH Priorities <- {0}, Sessions <- Sessions \cup Requests, Nothing <- None

Unseen == [h \in Hosts |-> None]
Running == {"calling", "streaming", "closing"}
Serving(h) == {r \in Requests : pc[r] \in Running /\ on[r] = h}

------------------------------------------------------------------------------
\* What a request may use.

\* require: the pin of a request names a live lease.
LeaseHolds(r) == Pin[r] = None \/ \E h \in Hosts : leased[h] = Pin[r]

\* The host object a request looks at, given what it has seen.
ObjectOf(sight, h) == IF sight[h] = Current THEN hosts[h] ELSE sight[h]

\* Mutant: the leases are not read again.
Candidates_StaleLeases(r, sight) ==
    {h \in Hosts : /\ sight[h] # None
                   /\ h \in healthy
                   /\ ObjectOf(sight, h).in_flight < ObjectOf(sight, h).capacity}

\* current_candidates and _eligible_candidates: the discovered hosts that the
\* lease rules allow now, that are healthy and that look free.
Candidates(r, sight) ==
    {h \in Hosts : /\ sight[h] # None
                   /\ leased[h] = Pin[r]
                   /\ h \in healthy
                   /\ ObjectOf(sight, h).in_flight < ObjectOf(sight, h).capacity}

\* Each of them is made a RoutingCandidate, which divides by its capacity and asks
\* _backend_for for its backend: 0 (below which a deregistration under load can
\* take in_flight) and a backend_type without factory raise, for all of them.
CandidatesRaise(r, sight) ==
    \E h \in {g \in Hosts : sight[g] # None} :
        /\ ObjectOf(sight, h).capacity = 0 \/ ~ObjectOf(sight, h).known
        /\ h \in Candidates(r, sight)

\* _has_free_capacity, on the registry's own objects
FreeHosts == {h \in Hosts : hosts[h] # None /\ hosts[h].in_flight < hosts[h].capacity}
PollMayRun(r) == Candidates(r, seen[r]) \cap FreeHosts # {}

\* Mutant: a waiter may use every host it discovered.
MayRun_AllSeen(r) == {h \in FreeHosts : seen[r][h] # None} # {}

\* queued_host_ids: what dispatch asks of a waiting request.
MayRun(r) == Candidates(r, seen[r]) \cap FreeHosts # {}
Runnable == {r \in Requests : MayRun(r)}

\* dispatch asks the waiters in order until one may run.  A callback catches the
\* errors of the lease book only: what else it raises ends the caller's poll.
Raising == {r \in Requests : pc[r] = "queued" /\ CandidatesRaise(r, seen[r])}
CallbackRaises(r) ==
    LET places == Queue!Admissible(queue, Runnable \cup Raising)
        place  == Queue!FirstPlace(places)
    IN  /\ Raising # {} /\ PollMayRun(r) /\ places # {}
        /\ Queue!HeadOf(queue, place[1], place[2]) \in Raising
PollRaises(r) == CandidatesRaise(r, seen[r]) \/ CallbackRaises(r)

\* select_backend with the policy of main.py: the sticky host if it may be
\* used, otherwise the least loaded one, ties by id.  There is exactly one.
Lighter(a, b) == a.in_flight * b.capacity < b.in_flight * a.capacity

Winners(r, sight, eligible) ==
    {w \in eligible :
        IF SessionOf[r] # None /\ sticky[SessionOf[r]] \in eligible
        THEN w = sticky[SessionOf[r]]
        ELSE \A h \in eligible \ {w} :
                \/ Lighter(ObjectOf(sight, w), ObjectOf(sight, h))
                \/ ~Lighter(ObjectOf(sight, h), ObjectOf(sight, w)) /\ w < h}

------------------------------------------------------------------------------
\* How a request leaves.

Finish(r) ==
    /\ pc' = [pc EXCEPT ![r] = "done"]
    /\ seen' = [seen EXCEPT ![r] = Unseen]
    /\ on' = [on EXCEPT ![r] = None]
    /\ polls' = [polls EXCEPT ![r] = 0]

\* release_slot raises KeyError when the host is gone: no slot to give back.
ReleaseSlot(h) ==
    hosts' = IF hosts[h] = None THEN hosts ELSE [hosts EXCEPT ![h].in_flight = @ - 1]

\* record_probe: the verdict may or may not change, see HealthMonitor.
RecordProbe(h, ok) ==
    healthy' \in {healthy, IF ok THEN healthy \cup {h} ELSE healthy \ {h}}

\* select_backend, then acquire_slot, with no await in between.  No host with
\* a large enough context window: refused.  A host that was deregistered since
\* discovery: acquire_slot raises KeyError.
TakeSlot(r, w) ==
    /\ hosts' = [hosts EXCEPT ![w].in_flight = @ + 1]
    /\ pc' = [pc EXCEPT ![r] = IF r \in Streams THEN "streaming" ELSE "calling"]
    /\ on' = [on EXCEPT ![r] = w]
    /\ seen' = [seen EXCEPT ![r] = Unseen]
    /\ polls' = [polls EXCEPT ![r] = 0]

Admit(r, sight) ==
    LET eligible == Candidates(r, sight) \cap Fits[r]
    IN  \/ /\ eligible = {}
           /\ Finish(r)
           /\ UNCHANGED <<hosts, sticky>>
        \/ \E w \in Winners(r, sight, eligible) :
              /\ sticky' = IF SessionOf[r] # None /\ sticky[SessionOf[r]] = None
                           THEN [sticky EXCEPT ![SessionOf[r]] = w] ELSE sticky
              /\ \/ hosts[w] # None /\ TakeSlot(r, w)
                 \/ hosts[w] = None /\ Finish(r) /\ UNCHANGED hosts

------------------------------------------------------------------------------
\* The request.

\* The handler begins: the token is checked, then discovery starts on the
\* registry's hosts of this moment.
Start(r) ==
    /\ pc[r] = "new"
    /\ IF LeaseHolds(r)
       THEN /\ pc' = [pc EXCEPT ![r] = "discovering"]
            /\ seen' = [seen EXCEPT ![r] =
                          [h \in Hosts |-> IF hosts[h] = None THEN None ELSE Current]]
            /\ UNCHANGED <<on, polls>>
       ELSE Finish(r)
    /\ UNCHANGED shared

\* Discovery answers: capable are the hosts that serve the model, none when it
\* raises.  The token is checked again, the hosts open to this request are worked
\* out, and it is refused, admitted at once or queued.
Discovered(r, capable) ==
    LET sight == [h \in Hosts |-> IF h \in capable THEN seen[r][h] ELSE None]
        open == {h \in Hosts : sight[h] # None /\ leased[h] = Pin[r]}
        raises == CandidatesRaise(r, sight)
    IN  /\ pc[r] = "discovering"
        /\ \/ /\ ~LeaseHolds(r) \/ open = {} \/ raises
              /\ Finish(r)
              /\ UNCHANGED <<hosts, sticky, queue>>
           \/ /\ LeaseHolds(r) /\ open # {}
              /\ Candidates(r, sight) # {} /\ ~raises
              /\ Admit(r, sight)
              /\ UNCHANGED queue
           \/ /\ LeaseHolds(r) /\ open # {}
              /\ Candidates(r, sight) = {}
              /\ queue' = Queue!Enqueued(queue, r, QueueSession(r), 0)
              /\ pc' = [pc EXCEPT ![r] = "queued"]
              /\ seen' = [seen EXCEPT ![r] = sight]
              /\ UNCHANGED <<hosts, sticky, on, polls>>
        /\ UNCHANGED <<leased, spent, healthy, tainted>>

\* Mutant: a way out of the wait loop without cancel.
LeaveQueue_Skipped(q, r) == q

\* Every way out of the wait loop ends in cancel.
LeaveQueue(q, r) == Queue!Cancelled(q, r, QueueSession(r), 0)

\* Mutant: the time waited is not added up.
Waited_Forgotten(r) == polls[r]

\* waited, after the sleep of this turn, in poll intervals.
Waited(r) == polls[r] + 1

TimedOut(r) == Waited(r) >= MaxPolls

\* One turn of the wait loop.  A poll removes only its own entry, and leaves the
\* queue also when it raises.
Poll(r) ==
    LET mine == Queue!Dispatched(queue, PollMayRun(r), Runnable, r)
        fails == ~LeaseHolds(r) \/ PollRaises(r)
        granted == mine.admitted = r
    IN  /\ pc[r] = "queued"
        /\ \/ /\ ~fails /\ granted
              /\ queue' = LeaveQueue(mine.queue, r)
              /\ Admit(r, seen[r])
           \/ /\ fails \/ (TimedOut(r) /\ ~granted)
              /\ queue' = LeaveQueue(queue, r)
              /\ Finish(r)
              /\ UNCHANGED <<hosts, sticky>>
           \/ /\ ~TimedOut(r) /\ ~fails /\ ~granted
              /\ polls' = [polls EXCEPT ![r] = Waited(r)]
              /\ UNCHANGED <<queue, hosts, sticky, pc, seen, on>>
        /\ UNCHANGED <<leased, spent, healthy, tainted>>

\* backend.complete returns or fails; the slot is released either way.  A
\* success on a host that is gone fails in release_slot, before its probe.
CallEnds(r, ok) ==
    /\ pc[r] = "calling"
    /\ ReleaseSlot(on[r])
    /\ IF hosts[on[r]] = None /\ ok THEN UNCHANGED healthy ELSE RecordProbe(on[r], ok)
    /\ Finish(r)
    /\ UNCHANGED <<leased, spent, queue, sticky, tainted>>

\* The last chunk was produced, and with it the verdict on the completion.
StreamDrained(r, ok) ==
    /\ pc[r] = "streaming"
    /\ RecordProbe(on[r], ok)
    /\ pc' = [pc EXCEPT ![r] = "closing"]
    /\ UNCHANGED <<hosts, leased, spent, queue, sticky, tainted, seen, on, polls>>

\* The backend breaks the stream off: no probe is recorded.
StreamBroken(r) ==
    /\ pc[r] = "streaming"
    /\ pc' = [pc EXCEPT ![r] = "closing"]
    /\ UNCHANGED <<shared, seen, on, polls>>

\* SlotStream.aclose: the chunks are closed, shielded from cancellation, and
\* the slot is released.
StreamClosed(r) ==
    /\ pc[r] = "closing"
    /\ ReleaseSlot(on[r])
    /\ Finish(r)
    /\ UNCHANGED <<leased, spent, healthy, queue, sticky, tainted>>

\* The client goes away: RequestLifetimeMiddleware cancels the request where it
\* waits, and its finally blocks run.
Disconnect(r) ==
    /\ \/ /\ pc[r] \in {"discovering", "queued"}
          /\ queue' = LeaveQueue(queue, r)
          /\ Finish(r)
          /\ UNCHANGED hosts
       \/ /\ pc[r] = "calling"
          /\ ReleaseSlot(on[r])
          /\ Finish(r)
          /\ UNCHANGED queue
       \/ /\ pc[r] = "streaming"
          /\ pc' = [pc EXCEPT ![r] = "closing"]
          /\ UNCHANGED <<hosts, queue, seen, on, polls>>
    /\ UNCHANGED <<leased, spent, healthy, sticky, tainted>>

------------------------------------------------------------------------------
\* The other handlers.

\* Every request that looks at the object of h keeps it as it is now.
Frozen(h) ==
    [r \in Requests |-> [seen[r] EXCEPT ![h] = IF @ = Current THEN hosts[h] ELSE @]]

\* Mutant: the new object starts from zero.
Register_Resets(h, g) ==
    /\ hosts' = [hosts EXCEPT ![h] = [in_flight |-> 0, capacity |-> g.capacity, known |-> g.known]]
    /\ seen' = Frozen(h)
    /\ UNCHANGED <<leased, spent, healthy, queue, sticky, tainted, pc, on, polls>>

\* register_node and update_node: a new object that takes over in_flight.
Register(h, g) ==
    /\ hosts' = [hosts EXCEPT ![h] = [in_flight |-> IF @ = None THEN 0 ELSE @.in_flight,
                                      capacity  |-> g.capacity, known |-> g.known]]
    /\ seen' = Frozen(h)
    /\ UNCHANGED <<leased, spent, healthy, queue, sticky, tainted, pc, on, polls>>

Deregister(h) ==
    /\ hosts[h] # None
    /\ seen' = Frozen(h)
    /\ hosts' = [hosts EXCEPT ![h] = None]
    /\ tainted' = IF Serving(h) = {} THEN tainted ELSE tainted \cup {h}
    /\ UNCHANGED <<leased, spent, healthy, queue, sticky, pc, on, polls>>

\* Leases as LeaseBook promises them, see ExclusiveLease.
Reserve(h, t) ==
    /\ hosts[h] # None
    /\ leased[h] = None
    /\ t \notin spent
    /\ leased' = [leased EXCEPT ![h] = t]
    /\ spent' = spent \cup {t}
    /\ UNCHANGED <<hosts, healthy, queue, sticky, tainted, local>>

LeaseEnds(h) ==
    /\ leased[h] # None
    /\ leased' = [leased EXCEPT ![h] = None]
    /\ UNCHANGED <<hosts, spent, healthy, queue, sticky, tainted, local>>

\* The poller records a probe.
Probed(h, ok) ==
    /\ hosts[h] # None
    /\ RecordProbe(h, ok)
    /\ UNCHANGED <<hosts, leased, spent, queue, sticky, tainted, local>>

\* A restart keeps the registered nodes and nothing else.
Restart ==
    /\ hosts' = [h \in Hosts |-> IF hosts[h] = None THEN None
                                 ELSE [hosts[h] EXCEPT !.in_flight = 0]]
    /\ leased' = [h \in Hosts |-> None]
    /\ healthy' = Hosts
    /\ queue' = Queue!EmptyQueue
    /\ sticky' = [s \in Sessions |-> None]
    /\ tainted' = {}
    /\ pc' = [r \in Requests |-> IF pc[r] = "new" THEN "new" ELSE "done"]
    /\ seen' = [r \in Requests |-> Unseen]
    /\ on' = [r \in Requests |-> None]
    /\ polls' = [r \in Requests |-> 0]
    /\ UNCHANGED spent

Init ==
    /\ hosts \in [Hosts -> {None} \cup {[in_flight |-> 0, capacity |-> g.capacity,
                                         known |-> g.known] : g \in Registrations}]
    /\ leased = [h \in Hosts |-> None]
    /\ spent = {}
    /\ healthy = Hosts
    /\ queue = Queue!EmptyQueue
    /\ sticky = [s \in Sessions |-> None]
    /\ tainted = {}
    /\ pc = [r \in Requests |-> "new"]
    /\ seen = [r \in Requests |-> Unseen]
    /\ on = [r \in Requests |-> None]
    /\ polls = [r \in Requests |-> 0]

RequestStep(r) ==
    \/ Start(r)
    \/ \E capable \in SUBSET Hosts : Discovered(r, capable)
    \/ Poll(r)
    \/ \E ok \in BOOLEAN : CallEnds(r, ok) \/ StreamDrained(r, ok)
    \/ StreamBroken(r)
    \/ StreamClosed(r)

Next ==
    \/ \E r \in Requests : RequestStep(r) \/ Disconnect(r)
    \/ \E h \in Hosts, g \in Registrations : Register(h, g)
    \/ \E h \in Hosts : Deregister(h) \/ LeaseEnds(h)
    \/ \E h \in Hosts, t \in Tokens : Reserve(h, t)
    \/ \E h \in Hosts, ok \in BOOLEAN : Probed(h, ok)
    \/ Restart

Spec == Init /\ [][Next]_vars

\* The event loop runs every task that is ready.  Discovery and backend calls
\* end: silence is cut off by the transport timeouts (read gap 1800 s unless an
\* operator disables it), answers are finite, and the wait loop only sleeps.
FairSpec == Spec /\ \A r \in Requests : WF_vars(RequestStep(r))

------------------------------------------------------------------------------
\* in_flight is exactly the number of requests that have a slot on the host,
\* through completions, failures, disconnects and re-registration, unless the
\* host was deregistered under a running request.
SlotsMatch ==
    \A h \in Hosts \ tainted :
        hosts[h] # None => hosts[h].in_flight = Cardinality(Serving(h))

\* The queue holds exactly the requests that wait in it, each once, whether
\* they time out, are granted, lose their lease or disconnect.
QueueMatchesWaiters ==
    /\ Queue!Waiting(queue) = {r \in Requests : pc[r] = "queued"}
    /\ Queue!WellFormed(queue)

\* Polls that may only remove their own entry do not block each other: when
\* the first request of some session could run, there is a waiting request whose
\* own poll admits it, or fails on a node that this request may use itself.
ScopedPollsProgress ==
    Queue!Admissible(queue, Runnable) # {} =>
        \E r \in Requests :
            /\ pc[r] = "queued" /\ LeaseHolds(r)
            /\ \/ CandidatesRaise(r, seen[r])
               \/ /\ ~PollRaises(r)
                  /\ Queue!Dispatched(queue, PollMayRun(r), Runnable, r).admitted = r

Admitted(r) == pc[r] \notin Running /\ pc'[r] \in Running

\* A lease taken, ended or handed on while a request discovers or waits is
\* respected when it takes its slot: ordinary requests stay off reserved nodes,
\* pinned ones run only on the node their own live lease holds.
AdmissionRespectsLease ==
    [][\A r \in Requests : Admitted(r) => leased[on'[r]] = Pin[r]]_vars

\* Every request that was started is answered, whatever happens around it.
EveryRequestEnds == \A r \in Requests : pc[r] # "new" ~> pc[r] = "done"
==============================================================================
