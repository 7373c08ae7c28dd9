----------------------------- MODULE HealthPolling -----------------------------
(***************************************************************************)
(* The sweeps of the background poller and of /health/ready (api/app.py):   *)
(* every registered node is asked for its health and its external load      *)
(* (registry/*load*.py), then metrics are snapshot and alerts evaluated     *)
(* (observability/*.py).  Sweeps overlap with each other, with requests and *)
(* with registrations.  What the health monitor makes of an answer is       *)
(* HealthMonitor's subject.  Of times only ages matter, in units, up to the *)
(* age at which a cache entry or a sample stops counting.                   *)
(***************************************************************************)
EXTENDS Integers, Sequences, FiniteSets, SequencesExt

CONSTANTS
    Hosts,
    Registrations,  \* what a host may be registered with, by host
    Sweepers,       \* "loop", the background loop, and calls of /health/ready
    Ttl,            \* cache_ttl of a load probe
    Window,         \* window of the metrics registry
    MaxSamples,     \* bound: requests remembered at once
    MaxErrors,      \* bound: 5xx answers in a behaviour
    None

ASSUME PollingAssumption ==
    /\ "loop" \in Sweepers
    /\ Ttl \in Nat \ {0} /\ Window \in Nat /\ MaxSamples \in Nat
    /\ \A h \in Hosts : \A r \in Registrations[h] :
         r.capacity \in Nat /\ r.known \in BOOLEAN

VARIABLES
    node,      \* the registry: a registration [capacity, address, known] or None;
               \* known: its backend type has a factory
    busy,      \* in_flight, by host
    sweep,     \* by sweeper: the hosts its gather waits for, or None
    job,       \* by sweeper and host: a probe under way, or None
    cache,     \* _cache of the load probes: [address, age] or None
    loads,     \* external_loads: the address that was asked, or None
    samples,   \* _requests: [bad, age], oldest first
    firing,    \* keys of _firing that are true
    active,    \* keys of _active_events
    errors     \* counts 5xx answers, for the bound

vars == <<node, busy, sweep, job, cache, loads, samples, firing, active, errors>>

Registered == {h \in Hosts : node[h] # None}
Older(age, limit) == IF age < limit THEN age + 1 ELSE limit

--------------------------------------------------------------------------------
(* Requests and registrations.                                             *)

Register(h, r) ==
    /\ node[h] # r
    /\ node' = [node EXCEPT ![h] = r]
    /\ UNCHANGED <<busy, sweep, job, cache, loads, samples, firing, active, errors>>

\* _prune_backend_cache.  Mutant: loads are not pruned.
Pruned_Nothing(kept) == loads
Pruned(kept) == [h \in Hosts |-> IF h \in kept THEN loads[h] ELSE None]

\* Deregistration prunes what is kept by host id.
Deregister(h) ==
    /\ node[h] # None
    /\ node' = [node EXCEPT ![h] = None]
    /\ busy' = [busy EXCEPT ![h] = 0]
    /\ loads' = Pruned(Registered \ {h})
    /\ UNCHANGED <<sweep, job, cache, samples, firing, active, errors>>

\* acquire_slot and release_slot; a slot is taken only within the capacity.
SlotChange(h) ==
    /\ node[h] # None
    /\ \/ busy[h] < node[h].capacity /\ busy' = [busy EXCEPT ![h] = @ + 1]
       \/ busy[h] > 0 /\ busy' = [busy EXCEPT ![h] = @ - 1]
    /\ UNCHANGED <<node, sweep, job, cache, loads, samples, firing, active, errors>>

\* _evict: samples older than the window leave, from the old end.
\* Mutant: nothing is evicted.
Evicted_None(list) == list
Evicted(list) == SelectSeq(list, LAMBDA s : s.age <= Window)

\* log_requests records every answer, 5xx or not.
RecordRequest(bad) ==
    /\ Len(Evicted(samples)) < MaxSamples /\ (bad => errors < MaxErrors)
    /\ samples' = Evicted(Append(samples, [bad |-> bad, age |-> 0]))
    /\ errors' = IF bad THEN errors + 1 ELSE errors
    /\ UNCHANGED <<node, busy, sweep, job, cache, loads, firing, active>>

--------------------------------------------------------------------------------
(* Sweeps.                                                                 *)

\* _probe_all_hosts prunes and starts one probe per registered host.  The
\* bound on overlap: a sweeper's earlier probes are over.
StartSweep(s) ==
    /\ sweep[s] = None /\ \A h \in Hosts : job[s][h] = None
    /\ loads' = Pruned(Registered)
    /\ sweep' = [sweep EXCEPT ![s] = Registered]
    /\ job' = [job EXCEPT ![s] = [h \in Hosts |->
                 IF h \in Registered THEN [stage |-> "check", known |-> node[h].known,
                                           address |-> node[h].address, age |-> 0]
                 ELSE None]]
    /\ UNCHANGED <<node, busy, cache, samples, firing, active, errors>>

\* gather raises with the first probe that raises and stops waiting; the other
\* probes go on.  The loop logs it and sleeps, /health/ready answers 500.
\* Mutant: the exception ends the loop.
Failed_ForEver(s) == sweep' = [sweep EXCEPT ![s] = {s}]
Failed(s) == sweep' = [sweep EXCEPT ![s] = None]

JobGone(s, h) == job' = [job EXCEPT ![s][h] = None]
JobOver(s, h) ==
    /\ JobGone(s, h)
    /\ sweep' = [sweep EXCEPT ![s] = IF @ = None THEN None ELSE @ \ {h}]

ProbeRaises(s, h) ==
    /\ JobGone(s, h)
    /\ IF sweep[s] = None THEN UNCHANGED sweep ELSE Failed(s)
    /\ UNCHANGED <<node, busy, cache, loads, samples, firing, active, errors>>

\* The registered type has no backend factory.
BackendRaises(s, h) ==
    /\ job[s][h] # None /\ job[s][h].stage = "check" /\ ~job[s][h].known
    /\ ProbeRaises(s, h)

\* At any time, and on any node: the load comes as JSON of another shape than the
\* list of objects _summarize goes through, or lms cannot be started for another
\* reason than that it is missing.
LoadRaises(s, h) ==
    /\ job[s][h] # None /\ job[s][h].stage = "load"
    /\ ProbeRaises(s, h)

\* check_health has answered and the load probe looks at its cache: now is the
\* time the answer will be stamped with.
\* Mutant: an entry is good for ever.
Fresh_Always(h) == cache[h] # None
Fresh(h) == cache[h] # None /\ cache[h].age < Ttl

\* The node is still there, and of a type there is a load probe for.
Askable(h) == node[h] # None /\ node[h].known

HealthAnswered(s, h) ==
    /\ job[s][h] # None /\ job[s][h].stage = "check" /\ job[s][h].known
    /\ \/ /\ ~Askable(h)                             \* unavailable
          /\ loads' = [loads EXCEPT ![h] = job[s][h].address] /\ JobOver(s, h)
       \/ /\ Askable(h) /\ Fresh(h)
          /\ loads' = [loads EXCEPT ![h] = cache[h].address] /\ JobOver(s, h)
       \/ /\ Askable(h) /\ ~Fresh(h)
          /\ job' = [job EXCEPT ![s][h].stage = "load", ![s][h].age = 0]
          /\ UNCHANGED <<loads, sweep>>
    /\ UNCHANGED <<node, busy, cache, samples, firing, active, errors>>

\* The load probe ends, with an answer or as unavailable: cache and
\* external_loads take it whatever has happened since.
LoadAnswered(s, h) ==
    /\ job[s][h] # None /\ job[s][h].stage = "load"
    /\ cache' = [cache EXCEPT ![h] = [address |-> job[s][h].address, age |-> job[s][h].age]]
    /\ loads' = [loads EXCEPT ![h] = job[s][h].address]
    /\ JobOver(s, h)
    /\ UNCHANGED <<node, busy, samples, firing, active, errors>>

\* snapshot divides by the capacity of every registered host.
Divides == \A h \in Registered : node[h].capacity > 0

Saturated == {h \in Registered : 10 * busy[h] > 9 * node[h].capacity}

Bad(list) == SelectSeq(list, LAMBDA s : s.bad)
\* The rules of config/alert_rules.json: availability below 99 %, and more than
\* 90 % of a host's slots in use.  The latency rule is a third of the same kind.
Breached(key) ==
    IF key = "availability"
    THEN 100 * (Len(Evicted(samples)) - Len(Bad(Evicted(samples)))) < 99 * Len(Evicted(samples))
    ELSE key \in Saturated
Evaluated == {"availability"} \cup Registered

\* evaluate: keys of the snapshot start or stop firing, others stay.
\* Mutant: a resolved alert stays in the list of active events.
Resolved_Listed(keys) == active
Resolved(keys) == active \ keys

\* All probes are over: snapshot, evaluate.
SweepEnds(s) ==
    /\ sweep[s] = {}
    /\ samples' = Evicted(samples)
    /\ IF Divides
       THEN LET starts == {k \in Evaluated : Breached(k) /\ k \notin firing}
                stops  == {k \in Evaluated : ~Breached(k) /\ k \in firing}
            IN /\ firing' = (firing \cup starts) \ stops
               /\ active' = Resolved(stops) \cup starts
               /\ sweep' = [sweep EXCEPT ![s] = None]
       ELSE Failed(s) /\ UNCHANGED <<firing, active>>
    /\ UNCHANGED <<node, busy, job, cache, loads, errors>>

Tick ==
    /\ job' = [s \in Sweepers |-> [h \in Hosts |->
                 IF job[s][h] # None /\ job[s][h].stage = "load"
                 THEN [job[s][h] EXCEPT !.age = Older(@, Ttl)] ELSE job[s][h]]]
    /\ cache' = [h \in Hosts |-> IF cache[h] = None THEN None
                                 ELSE [cache[h] EXCEPT !.age = Older(@, Ttl)]]
    /\ samples' = [k \in DOMAIN samples |-> [samples[k] EXCEPT !.age = Older(@, Window + 1)]]
    /\ UNCHANGED <<node, busy, sweep, loads, firing, active, errors>>

Init ==
    /\ node = [h \in Hosts |-> None] /\ busy = [h \in Hosts |-> 0]
    /\ sweep = [s \in Sweepers |-> None]
    /\ job = [s \in Sweepers |-> [h \in Hosts |-> None]]
    /\ cache = [h \in Hosts |-> None] /\ loads = [h \in Hosts |-> None]
    /\ samples = <<>> /\ firing = {} /\ active = {} /\ errors = 0

ProbeStep(s, h) ==
    \/ BackendRaises(s, h) \/ HealthAnswered(s, h)
    \/ LoadRaises(s, h) \/ LoadAnswered(s, h)

Sweeping(s) ==
    \/ StartSweep(s) \/ SweepEnds(s)
    \/ \E h \in Hosts : ProbeStep(s, h)

Next ==
    \/ \E h \in Hosts : Deregister(h) \/ SlotChange(h) \/ \E r \in Registrations[h] : Register(h, r)
    \/ \E bad \in BOOLEAN : RecordRequest(bad)
    \/ \E s \in Sweepers : Sweeping(s)
    \/ Tick

Spec == Init /\ [][Next]_vars

\* The event loop runs the loop's sweep and every probe is bounded by a timeout;
\* time passes.  Nobody has to register, request or call /health/ready.
FairSpec ==
    /\ Spec /\ WF_vars(Tick)
    /\ WF_vars(StartSweep("loop")) /\ \A s \in Sweepers : WF_vars(SweepEnds(s))
    /\ \A s \in Sweepers, h \in Hosts : WF_vars(ProbeStep(s, h))

--------------------------------------------------------------------------------
\* No registered node has a type without factory or a capacity of zero: one
\* such node makes every sweep raise before alerts are evaluated.
Sane == \A h \in Registered : node[h].known /\ node[h].capacity > 0

\* From some moment on no load probe makes its sweep fail.
LoadsUnderstood ==
    <>[][\A s \in Sweepers, h \in Hosts : ~(sweep[s] # None /\ LoadRaises(s, h))]_vars

\* /v1/alerts comes to list what is so: a node that stays registered and
\* saturated ends up listed for good, one that stays registered and below the
\* threshold ends up resolved, and so does the availability alert once errors
\* stop, although no request arrives to push the old samples out.  Sweeps may
\* overlap, fail and lose hosts before, as long as not every sweep has to fail.
AlertsSettle ==
    LoadsUnderstood =>
      /\ <>[]Sane => <>[]("availability" \notin active)
      /\ \A h \in Hosts :
           /\ <>[](Sane /\ h \in Saturated) => <>[](h \in active)
           /\ <>[](Sane /\ h \in Registered \ Saturated) => <>[](h \notin active)

\* Once a node's registration no longer changes and its load is understood, the
\* load shown for it comes from the address it is registered with: late answers
\* and cached answers of the previous address are replaced for good.  Of a node
\* that left nothing is shown for good, whatever sweeps fail: a late probe may
\* bring its load back, the next sweep drops it.
LoadSettles ==
    \A h \in Hosts :
        /\ \A r \in Registrations[h] :
             LoadsUnderstood /\ <>[](Sane /\ node[h] = r) => <>[](loads[h] = r.address)
        /\ <>[](node[h] = None) => <>[](loads[h] = None)
================================================================================
