------------------------------ MODULE LeaseBook ------------------------------
(***************************************************************************)
(* NodeLeaseBook (leases/book.py): the in-memory table of node test        *)
(* leases.  One lease is stored twice, under its host and under its token, *)
(* and expiry is lazy: an ended lease stays in both dictionaries until     *)
(* some call meets it.  The handlers of api/app.py run on one event loop   *)
(* and read the clock right before they call the book, so each operation   *)
(* is one step at the current time.                                        *)
(***************************************************************************)
EXTENDS Integers, FiniteSets

CONSTANTS Hosts,            \* host ids; integers, because they are sorted
          Tokens,           \* the values secrets.token_urlsafe may return
          NoLease,          \* a missing dictionary entry
          AnyHost,          \* a reservation that names no host
          Ttl,              \* LeaseSettings.ttl
          MaxCeiling,       \* LeaseSettings.max_ceiling
          MinActiveNodes,   \* LeaseSettings.min_active_nodes
          Horizon           \* bound: the clock stops here

Lease == [host_id : Hosts, token : Tokens, created_at : Nat,
          expires_at : Nat, hard_expires_at : Nat]

ASSUME HostsAssumption == Hosts \subseteq Int /\ IsFiniteSet(Hosts)
ASSUME SettingsAssumption ==          \* LeaseSettings.__post_init__
    /\ Ttl \in Nat \ {0}
    /\ MaxCeiling \in Nat \ {0}
    /\ MinActiveNodes \in Nat
    /\ Horizon \in Nat
ASSUME SentinelAssumption == NoLease \notin Lease \cup Tokens /\ AnyHost \notin Hosts

VARIABLES by_host,      \* _by_host
          by_token,     \* _by_token
          now,          \* the lease clock
          issued,       \* the tokens granted so far
          registered,   \* the hosts of the registry
          healthy       \* the hosts HealthMonitor.is_healthy accepts

book == <<by_host, by_token, issued>>
env == <<registered, healthy>>
vars == <<by_host, by_token, now, issued, registered, healthy>>

Min2(a, b) == IF a <= b THEN a ELSE b

\* The test every operation applies to a lease it meets.
Ended(lease) == now >= lease.expires_at \/ now >= lease.hard_expires_at

------------------------------------------------------------------------------
\* The two dictionaries, and what the private helpers make of them.

EndedLeases == {by_host[h] : h \in {g \in Hosts : by_host[g] # NoLease /\ Ended(by_host[g])}}

\* _drop_unlocked for each lease of a set
HostsWithout(leases) ==
    [h \in Hosts |-> IF \E l \in leases : l.host_id = h THEN NoLease ELSE by_host[h]]
\* Mutant: the token is forgotten when the host is freed.
TokensWithout_Kept(leases) == by_token

TokensWithout(leases) ==
    [t \in Tokens |-> IF \E l \in leases : l.token = t THEN NoLease ELSE by_token[t]]

Drop(leases) ==
    /\ by_host' = HostsWithout(leases)
    /\ by_token' = TokensWithout(leases)
    /\ UNCHANGED issued

\* _active_count, over the by_host a caller passes
Active(held) == {h \in registered \cap healthy : held[h] = NoLease}

\* Mutant: an existing holder is not looked up.
SpecificChoice_IgnoresHolder(h, serves, held) ==
    {g \in {h} : /\ g \in registered
                 /\ g \in serves
                 /\ g \in healthy => Cardinality(Active(held)) - 1 >= MinActiveNodes}

\* _reserve_specific: the hosts (one or none) it would grant
SpecificChoice(h, serves, held) ==
    {g \in {h} : /\ g \in registered
                 /\ g \in serves
                 /\ held[g] = NoLease
                 /\ g \in healthy => Cardinality(Active(held)) - 1 >= MinActiveNodes}

\* Mutant: the last host of the minimum counts as spare.
AnyChoice_NoSpare(serves, held) ==
    {g \in Active(held) \cap serves :
        /\ Cardinality(Active(held)) - MinActiveNodes >= 0
        /\ \A other \in Active(held) \cap serves : g <= other}

\* _reserve_any: the first free healthy host by id, if routing can spare one
AnyChoice(serves, held) ==
    {g \in Active(held) \cap serves :
        /\ Cardinality(Active(held)) - MinActiveNodes > 0
        /\ \A other \in Active(held) \cap serves : g <= other}

\* What reserve would grant on a purged book: at most one host.
Chosen(target, serves, held) ==
    IF target = AnyHost THEN AnyChoice(serves, held) ELSE SpecificChoice(target, serves, held)

NewLease(h, token, ceiling) ==
    [host_id |-> h, token |-> token, created_at |-> now,
     expires_at |-> Min2(now + Ttl, now + ceiling), hard_expires_at |-> now + ceiling]

\* _grant, on the purged book
Grant(h, token, ceiling) ==
    /\ by_host' = [HostsWithout(EndedLeases) EXCEPT ![h] = NewLease(h, token, ceiling)]
    /\ by_token' = [TokensWithout(EndedLeases) EXCEPT ![token] = NewLease(h, token, ceiling)]
    /\ issued' = issued \cup {token}

------------------------------------------------------------------------------
\* reserve: purge, decide on the purged book, then grant or refuse.  serves is
\* the answer of model discovery, which was awaited before and may be stale.
\* A refusal (409, or 404 for an unknown host) keeps the purge.
Reserve(target, serves, ceiling, token) ==
    LET chosen == Chosen(target, serves, HostsWithout(EndedLeases))
    IN  /\ now + MaxCeiling <= Horizon
        /\ token \notin issued
        /\ \/ \E h \in chosen : Grant(h, token, ceiling)
           \/ chosen = {} /\ Drop(EndedLeases)
        /\ UNCHANGED <<now, env>>

\* require: an ended lease is dropped on sight, otherwise nothing changes.
Require(t) ==
    /\ by_token[t] # NoLease
    /\ Drop({l \in {by_token[t]} : Ended(l)})
    /\ UNCHANGED <<now, env>>

\* is_held and view: the same, reached through the host.
Lookup(h) ==
    /\ by_host[h] # NoLease
    /\ Drop({l \in {by_host[h]} : Ended(l)})
    /\ UNCHANGED <<now, env>>

\* Mutant: a heartbeat restarts the ceiling.
Renewed_MovesCeiling(lease) ==
    [lease EXCEPT !.expires_at = now + Ttl, !.hard_expires_at = now + MaxCeiling]

\* heartbeat: renewed for one ttl, never past the ceiling.
Renewed(lease) ==
    [lease EXCEPT !.expires_at = Min2(now + Ttl, lease.hard_expires_at)]

Heartbeat(t) ==
    /\ by_token[t] # NoLease
    /\ IF Ended(by_token[t])
       THEN Drop({by_token[t]})
       ELSE /\ by_host' = [by_host EXCEPT ![by_token[t].host_id] = Renewed(by_token[t])]
            /\ by_token' = [by_token EXCEPT ![by_token[t].token] = Renewed(by_token[t])]
            /\ UNCHANGED issued
    /\ UNCHANGED <<now, env>>

\* release: dropped whether it was live (200) or had ended (409).
Release(t) ==
    /\ by_token[t] # NoLease
    /\ Drop({by_token[t]})
    /\ UNCHANGED <<now, env>>

\* force_release: purge, then drop what the host still has (404 if nothing).
ForceRelease(h) ==
    /\ Drop(EndedLeases \cup ({by_host[h]} \ {NoLease}))
    /\ UNCHANGED <<now, env>>

\* A restart of the gateway starts from two empty dictionaries and a health
\* monitor that trusts every host; the registry is reloaded from its store.
Restart ==
    /\ by_host' = [h \in Hosts |-> NoLease]
    /\ by_token' = [t \in Tokens |-> NoLease]
    /\ healthy' = Hosts
    /\ UNCHANGED <<now, issued, registered>>

\* The environment: time, probes, and nodes that register and deregister.
Tick ==
    /\ now < Horizon
    /\ now' = now + 1
    /\ UNCHANGED <<book, env>>

Probe(h) ==
    /\ healthy' = IF h \in healthy THEN healthy \ {h} ELSE healthy \cup {h}
    /\ UNCHANGED <<book, now, registered>>

Enrol(h) ==
    /\ registered' = IF h \in registered THEN registered \ {h} ELSE registered \cup {h}
    /\ UNCHANGED <<book, now, healthy>>

Init ==
    /\ by_host = [h \in Hosts |-> NoLease]
    /\ by_token = [t \in Tokens |-> NoLease]
    /\ now = 0
    /\ issued = {}
    /\ registered \in SUBSET Hosts
    /\ healthy = Hosts

Next ==
    \/ \E target \in Hosts \cup {AnyHost}, serves \in SUBSET Hosts,
          ceiling \in 1..MaxCeiling, token \in Tokens :
            Reserve(target, serves, ceiling, token)
    \/ \E t \in Tokens : Require(t) \/ Heartbeat(t) \/ Release(t)
    \/ \E h \in Hosts : Lookup(h) \/ ForceRelease(h) \/ Probe(h) \/ Enrol(h)
    \/ Restart
    \/ Tick

Spec == Init /\ [][Next]_vars
FairSpec == Spec /\ WF_vars(Tick)      \* clocks advance

------------------------------------------------------------------------------
TypeOK ==
    /\ by_host \in [Hosts -> Lease \cup {NoLease}]
    /\ by_token \in [Tokens -> Lease \cup {NoLease}]
    /\ now \in Nat
    /\ issued \subseteq Tokens
    /\ registered \subseteq Hosts
    /\ healthy \subseteq Hosts

\* The two dictionaries describe the same leases: every entry sits under its
\* own key and has its twin.  A lease that is renewed or dropped in only one
\* of them would leave a node reserved by nobody, or a token that pins
\* traffic to a node others may use.
Coherent ==
    /\ \A h \in Hosts : by_host[h] # NoLease =>
          by_host[h].host_id = h /\ by_token[by_host[h].token] = by_host[h]
    /\ \A t \in Tokens : by_token[t] # NoLease =>
          /\ by_token[t].token = t
          /\ by_host[by_token[t].host_id] = by_token[t]
          /\ t \in issued

\* However long it is renewed, a lease is over by the ceiling granted with it
\* and within one ttl of the last heartbeat.
HoldBounded ==
    \A h \in Hosts : by_host[h] # NoLease =>
        LET l == by_host[h] IN
        /\ l.created_at <= now
        /\ l.expires_at <= l.hard_expires_at
        /\ l.hard_expires_at <= l.created_at + MaxCeiling
        /\ l.expires_at <= now + Ttl

\* The hosts somebody really holds, lapsed leases not counted, with the token
\* that holds each and the ceiling of that hold.
LiveHosts == {h \in Hosts : by_host[h] # NoLease /\ ~Ended(by_host[h])}
Holders == [h \in Hosts |-> IF h \in LiveHosts THEN by_host[h].token ELSE NoLease]
HoldCeilings ==
    [h \in Hosts |-> IF h \in LiveHosts THEN by_host[h].hard_expires_at ELSE 0]

\* Nodes ordinary traffic can still use.
Routable == (registered \cap healthy) \ LiveHosts

\* A reservation that takes a healthy node out of routing leaves the configured
\* minimum behind, whatever lapsed entries the book still carries.
GrantKeepsMinimum ==
    [][\A h \in Hosts :
         (issued' # issued /\ by_host'[h] # NoLease /\ by_host'[h].token \notin issued
            /\ h \in healthy)
           => Cardinality(Routable') >= MinActiveNodes]_vars

\* Every hold ends, whatever its holder does to keep it.
EveryHoldEnds ==
    \A h \in Hosts, t \in Tokens : (Holders[h] = t) ~> (Holders[h] # t)

\* The book implements the exclusive lease: eager expiry, one holder a node,
\* no token that holds twice, no hold past its ceiling.
Promise == INSTANCE ExclusiveLease
    WITH Nobody <- NoLease,
         clock <- now,
         holder <- Holders,
         ceiling <- HoldCeilings,
         used <- issued

ImplementsExclusiveLease == Promise!Spec
==============================================================================
