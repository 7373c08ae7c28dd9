---------------------------- MODULE Leases_proofs ----------------------------
(***************************************************************************)
(* Proofs about the two sides of a lease. LeaseBook, on the orchestrator,  *)
(* for every set of hosts and tokens and every setting: the two            *)
(* dictionaries stay coherent, no hold outlives its ceiling, a grant       *)
(* keeps the minimum of nodes in routing, and the book implements          *)
(* ExclusiveLease. LeaseRunner, the wrapper that holds a lease for a       *)
(* command, however often Ctrl-C is pressed: a wrapper that returns has    *)
(* ended its command, given the lease back and reports what really         *)
(* happened, and it records no loss that did not happen.                   *)
(***************************************************************************)
EXTENDS LeaseBook, LeaseRunner, FiniteSetTheorems, TLAPS

\* The inductive invariant: types, the pairing of the dictionaries, and the
\* bounds on every stored lease.
IInv == TypeOK /\ Coherent /\ HoldBounded

\* Every operation but a reservation, a renewal and a restart only drops a set
\* of stored leases: these are facts about the dictionaries that remain.
LEMMA DropTypes ==
    ASSUME TypeOK, NEW S
    PROVE  /\ HostsWithout(S) \in [Hosts -> Lease \cup {NoLease}]
           /\ TokensWithout(S) \in [Tokens -> Lease \cup {NoLease}]
           /\ \A h \in Hosts : HostsWithout(S)[h] \in {by_host[h], NoLease}
           /\ \A t \in Tokens : TokensWithout(S)[t] \in {by_token[t], NoLease}
BY DEF TypeOK, HostsWithout, TokensWithout

\* The leases a purge drops are stored leases.
LEMMA EndedAreStored ==
    ASSUME TypeOK
    PROVE  EndedLeases \subseteq {by_host[h] : h \in Hosts} \ {NoLease}
BY DEF EndedLeases

\* Dropping stored leases from both dictionaries keeps them paired.
LEMMA DropCoherent ==
    ASSUME IInv, NEW S, S \subseteq {by_host[h] : h \in Hosts} \ {NoLease},
           NEW bh, bh = HostsWithout(S), NEW bt, bt = TokensWithout(S)
    PROVE  /\ \A h \in Hosts : bh[h] # NoLease =>
                bh[h] = by_host[h] /\ bh[h].host_id = h /\ bt[bh[h].token] = bh[h]
           /\ \A t \in Tokens : bt[t] # NoLease =>
                /\ bt[t] = by_token[t] /\ bt[t].token = t
                /\ bh[bt[t].host_id] = bt[t] /\ t \in issued
<1> USE DEF IInv, TypeOK, Coherent, Lease
<1>1. ASSUME NEW h \in Hosts, bh[h] # NoLease
      PROVE  bh[h] = by_host[h] /\ bh[h].host_id = h /\ bt[bh[h].token] = bh[h]
  <2>1. bh[h] = by_host[h] /\ ~ \E l \in S : l.host_id = h
    BY <1>1 DEF HostsWithout
  <2>2. by_host[h] \in Lease /\ by_host[h].host_id = h /\ by_host[h].token \in Tokens
        /\ by_token[by_host[h].token] = by_host[h]
    BY <1>1, <2>1
  <2>3. ~ \E l \in S : l.token = by_host[h].token
    <3> SUFFICES ASSUME NEW l \in S, l.token = by_host[h].token PROVE FALSE
      OBVIOUS
    <3>1. PICK g \in Hosts : l = by_host[g] /\ by_host[g] # NoLease
      OBVIOUS
    <3>2. by_host[g] = by_host[h]
      BY <2>2, <3>1
    <3> QED BY <2>1, <2>2, <3>1, <3>2
  <2> QED BY <2>1, <2>2, <2>3 DEF TokensWithout
<1>2. ASSUME NEW t \in Tokens, bt[t] # NoLease
      PROVE  /\ bt[t] = by_token[t] /\ bt[t].token = t
             /\ bh[bt[t].host_id] = bt[t] /\ t \in issued
  <2>1. bt[t] = by_token[t] /\ ~ \E l \in S : l.token = t
    BY <1>2 DEF TokensWithout
  <2>2. by_token[t] \in Lease /\ by_token[t].token = t /\ by_token[t].host_id \in Hosts
        /\ by_host[by_token[t].host_id] = by_token[t] /\ t \in issued
    BY <1>2, <2>1
  <2>3. ~ \E l \in S : l.host_id = by_token[t].host_id
    <3> SUFFICES ASSUME NEW l \in S, l.host_id = by_token[t].host_id PROVE FALSE
      OBVIOUS
    <3>1. PICK g \in Hosts : l = by_host[g] /\ by_host[g] # NoLease
      OBVIOUS
    <3>2. g = by_token[t].host_id
      BY <3>1
    <3> QED BY <2>1, <2>2, <3>1, <3>2
  <2> QED BY <2>1, <2>2, <2>3 DEF HostsWithout
<1> QED BY <1>1, <1>2

\* A step that only drops stored leases preserves the invariant.
LEMMA DropStep ==
    ASSUME IInv, NEW S, S \subseteq {by_host[h] : h \in Hosts} \ {NoLease},
           Drop(S), UNCHANGED <<now, env>>
    PROVE  IInv'
<1> USE DEF Drop, env
<1>1. TypeOK'
  BY DropTypes DEF IInv, TypeOK
<1>2. Coherent'
  <2> USE DEF IInv
  <2>1. \A h \in Hosts : by_host'[h] # NoLease =>
            by_host'[h].host_id = h /\ by_token'[by_host'[h].token] = by_host'[h]
    BY DropCoherent
  <2>2. \A t \in Tokens : by_token'[t] # NoLease =>
            /\ by_token'[t].token = t
            /\ by_host'[by_token'[t].host_id] = by_token'[t]
            /\ t \in issued
    BY DropCoherent
  <2> QED BY <2>1, <2>2 DEF Coherent
<1>3. HoldBounded'
  <2>1. \A h \in Hosts : by_host'[h] # NoLease => by_host'[h] = by_host[h]
    BY DropTypes DEF IInv
  <2> QED BY <2>1 DEF IInv, HoldBounded
<1> QED BY <1>1, <1>2, <1>3 DEF IInv

\* What a token stores is stored under its host too.
LEMMA TokenStored ==
    ASSUME IInv, NEW t \in Tokens, by_token[t] # NoLease
    PROVE  /\ by_token[t] \in {by_host[h] : h \in Hosts} \ {NoLease}
           /\ by_token[t] \in Lease
           /\ by_token[t].host_id \in Hosts /\ by_token[t].token = t
           /\ by_host[by_token[t].host_id] = by_token[t]
BY DEF IInv, TypeOK, Coherent, Lease

\* A chosen host is registered and free on the purged book.
LEMMA ChosenFree ==
    ASSUME TypeOK, NEW target, NEW serves, NEW held,
           NEW h \in Chosen(target, serves, held), target = AnyHost \/ target \in Hosts
    PROVE  h \in Hosts /\ held[h] = NoLease
BY DEF TypeOK, Chosen, AnyChoice, SpecificChoice, Active

\* The lease a grant writes is well formed and bounded.
LEMMA NewLeaseFacts ==
    ASSUME TypeOK, NEW h \in Hosts, NEW t \in Tokens, NEW c \in 1..MaxCeiling
    PROVE  LET l == NewLease(h, t, c) IN
           /\ l \in Lease /\ l.host_id = h /\ l.token = t
           /\ l # NoLease
           /\ l.created_at = now /\ l.hard_expires_at = now + c
           /\ now < l.expires_at /\ l.expires_at <= l.hard_expires_at
           /\ l.expires_at <= now + Ttl
<1>1. c \in Nat /\ c >= 1 /\ now \in Nat /\ Ttl \in Nat /\ Ttl >= 1
  BY SettingsAssumption DEF TypeOK
<1>2. /\ Min2(now + Ttl, now + c) \in Nat /\ now < Min2(now + Ttl, now + c)
      /\ Min2(now + Ttl, now + c) <= now + c /\ Min2(now + Ttl, now + c) <= now + Ttl
  BY <1>1 DEF Min2
<1>3. NewLease(h, t, c) \in Lease
  BY <1>1, <1>2 DEF NewLease, Lease
<1> QED BY <1>1, <1>2, <1>3, SentinelAssumption DEF NewLease

\* A grant preserves the invariant.
LEMMA GrantStep ==
    ASSUME IInv, NEW h \in Hosts, NEW t \in Tokens, NEW c \in 1..MaxCeiling,
           HostsWithout(EndedLeases)[h] = NoLease, t \notin issued,
           Grant(h, t, c), UNCHANGED <<now, env>>
    PROVE  IInv'
<1> DEFINE l == NewLease(h, t, c)
           bh == HostsWithout(EndedLeases)
           bt == TokensWithout(EndedLeases)
<1>0. TypeOK /\ bh \in [Hosts -> Lease \cup {NoLease}] /\ bt \in [Tokens -> Lease \cup {NoLease}]
  BY DropTypes DEF IInv
<1>1. /\ l \in Lease /\ l.host_id = h /\ l.token = t /\ l # NoLease
      /\ l.created_at = now /\ l.hard_expires_at = now + c
      /\ l.expires_at <= l.hard_expires_at /\ l.expires_at <= now + Ttl
  BY <1>0, NewLeaseFacts
<1>2. /\ \A g \in Hosts : bh[g] # NoLease =>
             bh[g] = by_host[g] /\ bh[g].host_id = g /\ bt[bh[g].token] = bh[g]
      /\ \A u \in Tokens : bt[u] # NoLease =>
             /\ bt[u] = by_token[u] /\ bt[u].token = u
             /\ bh[bt[u].host_id] = bt[u] /\ u \in issued
  BY DropCoherent, EndedAreStored DEF IInv
<1>3. by_host' = [bh EXCEPT ![h] = l] /\ by_token' = [bt EXCEPT ![t] = l]
      /\ issued' = issued \cup {t} /\ now' = now /\ registered' = registered
      /\ healthy' = healthy
  BY DEF Grant, env
<1>4. bt[t] = NoLease /\ bh[h] = NoLease
  BY <1>2
<1> HIDE DEF l, bh, bt
<1>5. TypeOK'
  BY <1>0, <1>1, <1>3 DEF TypeOK
<1>6. Coherent'
  <2>1. ASSUME NEW g \in Hosts, by_host'[g] # NoLease
        PROVE  by_host'[g].host_id = g /\ by_token'[by_host'[g].token] = by_host'[g]
    <3>1. CASE g = h
      BY <1>0, <1>1, <1>3, <3>1
    <3>2. CASE g # h
      <4>1. by_host'[g] = bh[g] /\ bh[g] # NoLease /\ bh[g] \in Lease
        BY <1>0, <1>3, <2>1, <3>2
      <4>2. bh[g].token \in Tokens /\ bh[g].token # t
        BY <1>2, <1>4, <4>1 DEF Lease
      <4> QED BY <1>0, <1>2, <1>3, <4>1, <4>2
    <3> QED BY <3>1, <3>2
  <2>2. ASSUME NEW u \in Tokens, by_token'[u] # NoLease
        PROVE  /\ by_token'[u].token = u
               /\ by_host'[by_token'[u].host_id] = by_token'[u]
               /\ u \in issued'
    <3>1. CASE u = t
      BY <1>0, <1>1, <1>3, <3>1
    <3>2. CASE u # t
      <4>1. by_token'[u] = bt[u] /\ bt[u] # NoLease /\ bt[u] \in Lease
        BY <1>0, <1>3, <2>2, <3>2
      <4>2. bt[u].host_id \in Hosts /\ bt[u].host_id # h
        BY <1>2, <1>4, <4>1 DEF Lease
      <4> QED BY <1>0, <1>2, <1>3, <4>1, <4>2
    <3> QED BY <3>1, <3>2
  <2> QED BY <2>1, <2>2 DEF Coherent
<1>7. HoldBounded'
  <2>1. ASSUME NEW g \in Hosts, g # h, by_host'[g] # NoLease PROVE by_host'[g] = by_host[g]
    BY <1>0, <1>2, <1>3, <2>1
  <2>2. now \in Nat /\ c \in Nat /\ c <= MaxCeiling
    BY SettingsAssumption, <1>0 DEF TypeOK
  <2>3. by_host'[h] = l
    BY <1>0, <1>3
  <2> QED BY <1>1, <1>3, <2>1, <2>2, <2>3, SettingsAssumption DEF HoldBounded, IInv
<1> QED BY <1>5, <1>6, <1>7 DEF IInv

\* A renewal rewrites the lease under both keys and keeps the invariant.
LEMMA RenewStep ==
    ASSUME IInv, NEW t \in Tokens, by_token[t] # NoLease, ~Ended(by_token[t]),
           Heartbeat(t)
    PROVE  IInv'
<1> DEFINE l == Renewed(by_token[t])
           h == by_token[t].host_id
<1>1. /\ by_token[t] \in Lease /\ h \in Hosts /\ by_token[t].token = t
      /\ by_host[h] = by_token[t]
  BY TokenStored
<1>2. now \in Nat /\ Ttl \in Nat /\ by_token[t].hard_expires_at \in Nat
      /\ by_token[t].created_at \in Nat
  BY <1>1, SettingsAssumption DEF IInv, TypeOK, Lease
<1>3. /\ l \in Lease /\ l.host_id = h /\ l.token = t
      /\ l.created_at = by_token[t].created_at
      /\ l.hard_expires_at = by_token[t].hard_expires_at
      /\ l.expires_at <= l.hard_expires_at /\ l.expires_at <= now + Ttl
  BY <1>1, <1>2 DEF Renewed, Lease, Min2
<1>4. by_host' = [by_host EXCEPT ![h] = l] /\ by_token' = [by_token EXCEPT ![t] = l]
      /\ issued' = issued /\ now' = now /\ registered' = registered /\ healthy' = healthy
  BY <1>1 DEF Heartbeat, env
<1>5. l # NoLease
  BY <1>3, SentinelAssumption
<1> HIDE DEF l, h
<1>6. TypeOK'
  BY <1>1, <1>3, <1>4 DEF IInv, TypeOK
<1>7. Coherent'
  <2>1. \A g \in Hosts : g # h /\ by_host[g] # NoLease => by_host[g].token # t
    BY <1>1 DEF IInv, TypeOK, Coherent, Lease
  <2>2. \A u \in Tokens : u # t /\ by_token[u] # NoLease => by_token[u].host_id # h
    BY <1>1 DEF IInv, TypeOK, Coherent, Lease
  <2>3. t \in issued
    BY <1>1 DEF IInv, Coherent
  <2>4. \A g \in Hosts : by_host[g] # NoLease => by_host[g].token \in Tokens
    BY DEF IInv, TypeOK, Lease
  <2>5. \A u \in Tokens : by_token[u] # NoLease => by_token[u].host_id \in Hosts
    BY DEF IInv, TypeOK, Lease
  <2> QED BY <1>1, <1>3, <1>4, <1>5, <2>1, <2>2, <2>3, <2>4, <2>5 DEF IInv, TypeOK, Coherent
<1>8. HoldBounded'
  <2>1. \A g \in Hosts : g # h => by_host'[g] = by_host[g]
    BY <1>1, <1>4 DEF IInv, TypeOK
  <2>2. by_host'[h] = l
    BY <1>1, <1>4 DEF IInv, TypeOK
  <2>3. /\ by_token[t].created_at <= now
        /\ by_token[t].hard_expires_at <= by_token[t].created_at + MaxCeiling
    BY <1>1 DEF IInv, HoldBounded
  <2> QED BY <1>3, <1>4, <2>1, <2>2, <2>3 DEF IInv, HoldBounded
<1> QED BY <1>6, <1>7, <1>8 DEF IInv

\* Time only loosens the bounds that mention the clock.
LEMMA TickStep ==
    ASSUME IInv, Tick
    PROVE  IInv'
<1>1. now \in Nat /\ now' = now + 1 /\ Ttl \in Nat
  BY SettingsAssumption DEF IInv, TypeOK, Tick
<1>2. \A h \in Hosts : by_host[h] # NoLease =>
          by_host[h].created_at \in Nat /\ by_host[h].expires_at \in Nat
  BY DEF IInv, TypeOK, Lease
<1>3. HoldBounded'
  BY <1>1, <1>2 DEF Tick, book, env, IInv, HoldBounded
<1>4. TypeOK' /\ Coherent'
  BY <1>1 DEF Tick, book, env, IInv, TypeOK, Coherent
<1> QED BY <1>3, <1>4 DEF IInv

\* The invariant is inductive.
THEOREM Inductive == IInv /\ [Next]_vars => IInv'
<1> SUFFICES ASSUME IInv, [Next]_vars PROVE IInv'
  OBVIOUS
<1>1. ASSUME NEW target \in Hosts \cup {AnyHost}, NEW serves \in SUBSET Hosts,
             NEW c \in 1..MaxCeiling, NEW t \in Tokens, Reserve(target, serves, c, t)
      PROVE  IInv'
  <2>1. CASE \E h \in Chosen(target, serves, HostsWithout(EndedLeases)) : Grant(h, t, c)
    BY <1>1, <2>1, ChosenFree, GrantStep DEF Reserve, IInv
  <2>2. CASE Drop(EndedLeases)
    BY <1>1, <2>2, EndedAreStored, DropStep DEF Reserve, IInv
  <2> QED BY <1>1, <2>1, <2>2 DEF Reserve
<1>2. ASSUME NEW t \in Tokens, Require(t) PROVE IInv'
  <2>1. {l \in {by_token[t]} : Ended(l)} \subseteq {by_host[h] : h \in Hosts} \ {NoLease}
    BY <1>2, TokenStored DEF Require
  <2> QED BY <1>2, <2>1, DropStep DEF Require
<1>3. ASSUME NEW t \in Tokens, Heartbeat(t) PROVE IInv'
  <2>1. CASE Ended(by_token[t])
    <3>1. {by_token[t]} \subseteq {by_host[h] : h \in Hosts} \ {NoLease}
      BY <1>3, TokenStored DEF Heartbeat
    <3> QED BY <1>3, <2>1, <3>1, DropStep DEF Heartbeat
  <2>2. CASE ~Ended(by_token[t])
    BY <1>3, <2>2, RenewStep DEF Heartbeat
  <2> QED BY <2>1, <2>2
<1>4. ASSUME NEW t \in Tokens, Release(t) PROVE IInv'
  <2>1. {by_token[t]} \subseteq {by_host[h] : h \in Hosts} \ {NoLease}
    BY <1>4, TokenStored DEF Release
  <2> QED BY <1>4, <2>1, DropStep DEF Release
<1>5. ASSUME NEW h \in Hosts, Lookup(h) PROVE IInv'
  <2>1. {l \in {by_host[h]} : Ended(l)} \subseteq {by_host[g] : g \in Hosts} \ {NoLease}
    BY <1>5 DEF Lookup
  <2> QED BY <1>5, <2>1, DropStep DEF Lookup
<1>6. ASSUME NEW h \in Hosts, ForceRelease(h) PROVE IInv'
  <2>1. EndedLeases \cup ({by_host[h]} \ {NoLease}) \subseteq {by_host[g] : g \in Hosts} \ {NoLease}
    BY EndedAreStored DEF IInv
  <2> QED BY <1>6, <2>1, DropStep DEF ForceRelease
<1>7. ASSUME NEW h \in Hosts, Probe(h) \/ Enrol(h) PROVE IInv'
  BY <1>7 DEF Probe, Enrol, book, IInv, TypeOK, Coherent, HoldBounded
<1>8. CASE Restart
  BY <1>8 DEF Restart, IInv, TypeOK, Coherent, HoldBounded
<1>9. CASE Tick
  BY <1>9, TickStep
<1>10. CASE UNCHANGED vars
  BY <1>10 DEF vars, IInv, TypeOK, Coherent, HoldBounded
<1> QED BY <1>1, <1>2, <1>3, <1>4, <1>5, <1>6, <1>7, <1>8, <1>9, <1>10 DEF Next

\* In every behaviour of the book, for any hosts, tokens and settings, both
\* dictionaries are well typed, describe the same leases, and no lease may be
\* renewed past the ceiling it was granted.
THEOREM BookInvariant == Spec => [](TypeOK /\ Coherent /\ HoldBounded)
<1>1. Init => IInv
  BY DEF Init, IInv, TypeOK, Coherent, HoldBounded
<1> QED BY <1>1, Inductive, PTL DEF Spec, IInv

-----------------------------------------------------------------------------
\* Refinement.  A step that starts no hold, keeps the clock, and leaves every
\* hold that survives it with its token and its ceiling, is End of the others.
LEMMA ShrinkIsEnd ==
    ASSUME now' = now, issued' = issued,
           \A h \in Hosts : h \in LiveHosts' =>
               /\ h \in LiveHosts
               /\ by_host'[h].token = by_host[h].token
               /\ by_host'[h].hard_expires_at = by_host[h].hard_expires_at
    PROVE  Promise!Next
<1> DEFINE S == {h \in Hosts : h \notin LiveHosts'}
<1>1. \A h \in Hosts : Holders'[h] = IF h \in S THEN NoLease ELSE Holders[h]
  BY DEF Holders
<1>2. \A h \in Hosts : HoldCeilings'[h] = IF h \in S THEN 0 ELSE HoldCeilings[h]
  BY DEF HoldCeilings
<1>3. Promise!End(S)
  BY <1>1, <1>2 DEF Promise!End, Promise!Free, Holders, HoldCeilings
<1> QED BY <1>3 DEF Promise!Next

\* Dropping leases starts no hold.
LEMMA DropShrinks ==
    ASSUME IInv, NEW S, Drop(S), UNCHANGED <<now, env>>
    PROVE  Promise!Next
<1>1. \A h \in Hosts : h \in LiveHosts' => by_host'[h] = by_host[h] /\ h \in LiveHosts
  BY DropTypes DEF Drop, LiveHosts, Ended, IInv
<1> QED BY <1>1, ShrinkIsEnd DEF Drop

\* On the purged book a host is missing exactly when nobody holds it.
LEMMA PurgeFreesLapsed ==
    ASSUME IInv, NEW h \in Hosts
    PROVE  HostsWithout(EndedLeases)[h] = IF h \in LiveHosts THEN by_host[h] ELSE NoLease
<1>1. CASE h \in LiveHosts
  <2>1. ~ \E l \in EndedLeases : l.host_id = h
    BY <1>1 DEF EndedLeases, LiveHosts, IInv, Coherent
  <2> QED BY <1>1, <2>1 DEF HostsWithout
<1>2. CASE h \notin LiveHosts /\ by_host[h] # NoLease
  <2>1. by_host[h] \in EndedLeases /\ by_host[h].host_id = h
    BY <1>2 DEF EndedLeases, LiveHosts, IInv, Coherent
  <2> QED BY <1>2, <2>1 DEF HostsWithout
<1>3. CASE h \notin LiveHosts /\ by_host[h] = NoLease
  BY <1>3 DEF HostsWithout
<1> QED BY <1>1, <1>2, <1>3

\* A granted reservation is a Grant of the promise: the host was held by
\* nobody, and every other hold is what it was.
LEMMA GrantIsGrant ==
    ASSUME IInv, NEW h \in Hosts, NEW t \in Tokens, NEW c \in 1..MaxCeiling,
           HostsWithout(EndedLeases)[h] = NoLease, t \notin issued,
           Grant(h, t, c), UNCHANGED <<now, env>>
    PROVE  Promise!Next
<1> DEFINE l == NewLease(h, t, c)
<1>1. h \notin LiveHosts
  BY PurgeFreesLapsed DEF LiveHosts
<1>2. /\ l # NoLease /\ l.token = t /\ l.hard_expires_at = now + c
      /\ ~(now >= l.expires_at) /\ ~(now >= l.hard_expires_at)
  <2>1. now \in Nat /\ c \in Nat /\ c >= 1
    BY SettingsAssumption DEF IInv, TypeOK
  <2>2. /\ l \in Lease /\ l # NoLease /\ l.token = t /\ l.hard_expires_at = now + c
        /\ now < l.expires_at
    BY NewLeaseFacts DEF IInv
  <2>3. l.expires_at \in Nat
    BY <2>2 DEF Lease
  <2> QED BY <2>1, <2>2, <2>3
<1> HIDE DEF l
<1>3. /\ by_host'[h] = l
      /\ \A g \in Hosts \ {h} : by_host'[g] = HostsWithout(EndedLeases)[g]
  BY DropTypes DEF Grant, l, IInv
<1>4. h \in LiveHosts'
  BY <1>2, <1>3 DEF LiveHosts, Ended
<1>5. \A g \in Hosts \ {h} : /\ g \in LiveHosts' <=> g \in LiveHosts
                             /\ g \in LiveHosts => by_host'[g] = by_host[g]
  BY <1>3, PurgeFreesLapsed DEF LiveHosts, Ended
<1>6. Holders' = [Holders EXCEPT ![h] = t]
  BY <1>2, <1>3, <1>4, <1>5 DEF Holders
<1>7. HoldCeilings' = [HoldCeilings EXCEPT ![h] = now + c]
  BY <1>2, <1>3, <1>4, <1>5 DEF HoldCeilings
<1>8. Promise!Grant(h, t, now + c)
  BY <1>1, <1>6, <1>7 DEF Promise!Grant, Grant, Holders
<1> QED BY <1>8 DEF Promise!Next

\* Time ends the holds it ends, and none that survives is at its ceiling.
LEMMA TickIsPass ==
    ASSUME IInv, Tick
    PROVE  Promise!Next
<1> DEFINE S == {h \in Hosts : h \notin LiveHosts'}
<1>1. now \in Nat /\ now' = now + 1 /\ by_host' = by_host /\ issued' = issued
  BY DEF IInv, TypeOK, Tick, book
<1>2. \A h \in Hosts : h \in LiveHosts' =>
          h \in LiveHosts /\ ~(now' >= by_host[h].hard_expires_at)
            /\ by_host[h].hard_expires_at \in Nat
  BY <1>1 DEF LiveHosts, Ended, IInv, TypeOK, Lease
<1>3. \A h \in Hosts : Holders'[h] = IF h \in S THEN NoLease ELSE Holders[h]
  BY <1>1, <1>2 DEF Holders
<1>4. \A h \in Hosts : HoldCeilings'[h] = IF h \in S THEN 0 ELSE HoldCeilings[h]
  BY <1>1, <1>2 DEF HoldCeilings
<1>5. \A h \in Hosts \ S : now' < HoldCeilings[h]
  BY <1>1, <1>2 DEF HoldCeilings
<1> HIDE DEF S
<1>6. Promise!Free(S)
  BY <1>1, <1>3, <1>4 DEF Promise!Free, Holders, HoldCeilings
<1>7. Promise!Pass(S)
  BY <1>1, <1>5, <1>6 DEF Promise!Pass
<1>8. S \in SUBSET Hosts
  BY DEF S
<1> QED BY <1>7, <1>8 DEF Promise!Next

\* Every step of the book is a step of the promise, or leaves it unchanged.
THEOREM StepSimulation ==
    IInv /\ [Next]_vars => [Promise!Next]_(Promise!vars)
<1> SUFFICES ASSUME IInv, [Next]_vars PROVE Promise!Next \/ UNCHANGED Promise!vars
  OBVIOUS
<1>1. ASSUME NEW target \in Hosts \cup {AnyHost}, NEW serves \in SUBSET Hosts,
             NEW c \in 1..MaxCeiling, NEW t \in Tokens, Reserve(target, serves, c, t)
      PROVE  Promise!Next
  <2>1. CASE \E h \in Chosen(target, serves, HostsWithout(EndedLeases)) : Grant(h, t, c)
    BY <1>1, <2>1, ChosenFree, GrantIsGrant DEF Reserve, IInv
  <2>2. CASE Drop(EndedLeases)
    BY <1>1, <2>2, DropShrinks DEF Reserve
  <2> QED BY <1>1, <2>1, <2>2 DEF Reserve
<1>2. ASSUME NEW t \in Tokens, Require(t) \/ Release(t) PROVE Promise!Next
  BY <1>2, DropShrinks DEF Require, Release
<1>3. ASSUME NEW t \in Tokens, Heartbeat(t) PROVE Promise!Next
  <2>1. CASE Ended(by_token[t])
    BY <1>3, <2>1, DropShrinks DEF Heartbeat
  <2>2. CASE ~Ended(by_token[t])
    <3> DEFINE h == by_token[t].host_id
    <3>1. /\ by_token[t] \in Lease /\ h \in Hosts /\ by_host[h] = by_token[t]
          /\ by_host[h] # NoLease
      BY <1>3, TokenStored DEF Heartbeat
    <3>2. /\ by_host' = [by_host EXCEPT ![h] = Renewed(by_token[t])]
          /\ now' = now /\ issued' = issued
      BY <1>3, <2>2 DEF Heartbeat
    <3>3. h \in LiveHosts
      BY <2>2, <3>1 DEF LiveHosts
    <3>4. /\ Renewed(by_token[t]).token = by_token[t].token
          /\ Renewed(by_token[t]).hard_expires_at = by_token[t].hard_expires_at
      BY <3>1 DEF Renewed, Lease
    <3> HIDE DEF h
    <3>5. /\ \A g \in Hosts : g # h => by_host'[g] = by_host[g]
          /\ by_host'[h] = Renewed(by_token[t])
      BY <3>1, <3>2 DEF IInv, TypeOK
    <3>6. \A g \in Hosts : g \in LiveHosts' =>
               /\ g \in LiveHosts
               /\ by_host'[g].token = by_host[g].token
               /\ by_host'[g].hard_expires_at = by_host[g].hard_expires_at
      BY <3>1, <3>2, <3>3, <3>4, <3>5 DEF LiveHosts, Ended
    <3> QED BY <3>2, <3>6, ShrinkIsEnd
  <2> QED BY <2>1, <2>2
<1>4. ASSUME NEW h \in Hosts, Lookup(h) \/ ForceRelease(h) PROVE Promise!Next
  BY <1>4, DropShrinks DEF Lookup, ForceRelease
<1>5. ASSUME NEW h \in Hosts, Probe(h) \/ Enrol(h) PROVE UNCHANGED Promise!vars
  BY <1>5 DEF Probe, Enrol, book, Promise!vars, Holders, HoldCeilings, LiveHosts, Ended
<1>6. ASSUME Restart PROVE Promise!Next
  <2>1. \A h \in Hosts : h \notin LiveHosts'
    BY <1>6 DEF Restart, LiveHosts
  <2> QED BY <1>6, <2>1, ShrinkIsEnd DEF Restart
<1>7. ASSUME Tick PROVE Promise!Next
  BY <1>7, TickIsPass
<1>8. ASSUME UNCHANGED vars PROVE UNCHANGED Promise!vars
  BY <1>8 DEF vars, Promise!vars, Holders, HoldCeilings, LiveHosts, Ended
<1> QED BY <1>1, <1>2, <1>3, <1>4, <1>5, <1>6, <1>7, <1>8 DEF Next

\* The book with its two dictionaries and lazy expiry implements the exclusive
\* lease: one holder a node, tokens that never hold again, ceilings that bind.
THEOREM Refinement == Spec => ImplementsExclusiveLease
<1>1. Init => Promise!Init
  BY DEF Init, Promise!Init, Holders, HoldCeilings, LiveHosts
<1>2. Spec => []IInv
  BY BookInvariant, PTL DEF IInv
<1> QED BY <1>1, <1>2, StepSimulation, PTL DEF Spec, Promise!Spec, ImplementsExclusiveLease

-----------------------------------------------------------------------------
\* What the admission check of both reservation paths gives: without the chosen
\* host, the active hosts of the purged book still make up the minimum.
LEMMA ChosenSpares ==
    ASSUME IInv, NEW target \in Hosts \cup {AnyHost}, NEW serves \in SUBSET Hosts, NEW held,
           NEW h \in Chosen(target, serves, held), h \in healthy
    PROVE  /\ IsFiniteSet(Active(held)) /\ h \in Active(held)
           /\ Cardinality(Active(held) \ {h}) >= MinActiveNodes
<1>1. IsFiniteSet(Active(held))
  <2>1. Active(held) \subseteq Hosts
    BY DEF Active, IInv, TypeOK
  <2> QED BY <2>1, HostsAssumption, FS_Subset
<1>2. h \in Active(held) /\ Cardinality(Active(held)) - 1 >= MinActiveNodes
  <2>1. Cardinality(Active(held)) \in Nat /\ MinActiveNodes \in Nat
    BY <1>1, FS_CardinalityType, SettingsAssumption
  <2>2. CASE target = AnyHost
    BY <2>1, <2>2 DEF Chosen, AnyChoice
  <2>3. CASE target # AnyHost
    BY <2>1, <2>3 DEF Chosen, SpecificChoice, Active
  <2> QED BY <2>2, <2>3
<1>3. Cardinality(Active(held) \ {h}) = Cardinality(Active(held)) - 1
  BY <1>1, <1>2, FS_RemoveElement
<1> QED BY <1>1, <1>2, <1>3

\* Every reservation of a healthy node, in any state the book can reach, leaves
\* at least min_active_nodes healthy nodes that nobody holds in routing.
THEOREM MinimumKept == Spec => GrantKeepsMinimum
<1>1. ASSUME IInv, [Next]_vars, NEW h \in Hosts,
             issued' # issued, by_host'[h] # NoLease, by_host'[h].token \notin issued,
             h \in healthy
      PROVE  Cardinality(Routable') >= MinActiveNodes
  <2>1. PICK target \in Hosts \cup {AnyHost}, serves \in SUBSET Hosts,
             c \in 1..MaxCeiling, t \in Tokens : Reserve(target, serves, c, t)
    BY <1>1 DEF Next, vars, Require, Heartbeat, Release, Lookup, ForceRelease, Probe, Enrol,
                Restart, Tick, Drop, book
  <2> DEFINE held == HostsWithout(EndedLeases)
  <2>2. PICK g \in Chosen(target, serves, held) : Grant(g, t, c)
    BY <1>1, <2>1 DEF Reserve, Drop
  <2>3. g \in Hosts /\ held[g] = NoLease
    BY <1>1, <2>2, ChosenFree DEF IInv
  <2>4. g = h
    <3>1. \A k \in Hosts \ {g} : by_host'[k] = held[k]
      BY <1>1, <2>2, DropTypes DEF Grant, IInv
    <3>2. \A k \in Hosts : held[k] # NoLease => held[k].token \in issued
      <4>1. \A k \in Hosts : held[k] # NoLease => held[k] = by_host[k]
        BY <1>1, DropTypes DEF IInv
      <4> QED BY <1>1, <4>1 DEF IInv, TypeOK, Coherent, Lease
    <3> QED BY <1>1, <3>1, <3>2
  <2>5. /\ IsFiniteSet(Active(held)) /\ Cardinality(Active(held) \ {h}) >= MinActiveNodes
    BY <1>1, <2>2, <2>4, ChosenSpares
  <2>6. Active(held) \ {h} \subseteq Routable'
    <3>1. \A k \in Hosts \ {h} : by_host'[k] = held[k]
      BY <1>1, <2>2, <2>4, DropTypes DEF Grant, IInv
    <3>2. registered' = registered /\ healthy' = healthy /\ registered \subseteq Hosts
      BY <1>1, <2>1 DEF Reserve, env, IInv, TypeOK
    <3> QED BY <3>1, <3>2 DEF Active, Routable, LiveHosts
  <2>7. IsFiniteSet(Routable')
    <3>1. Routable' \subseteq Hosts
      BY <1>1, <2>1 DEF Routable, Reserve, env, IInv, TypeOK
    <3> QED BY <3>1, HostsAssumption, FS_Subset
  <2>8. Cardinality(Active(held) \ {h}) <= Cardinality(Routable')
    BY <2>6, <2>7, FS_Subset
  <2>9. /\ Cardinality(Active(held) \ {h}) \in Nat /\ Cardinality(Routable') \in Nat
        /\ MinActiveNodes \in Nat
    <3>1. IsFiniteSet(Active(held) \ {h})
      BY <2>6, <2>7, FS_Subset
    <3> QED BY <2>7, <3>1, FS_CardinalityType, SettingsAssumption
  <2> HIDE DEF held
  <2> QED BY <2>5, <2>8, <2>9
<1>2. Spec => []IInv
  BY BookInvariant, PTL DEF IInv
<1>3. IInv /\ [Next]_vars =>
        [\A h \in Hosts :
          (issued' # issued /\ by_host'[h] # NoLease /\ by_host'[h].token \notin issued
             /\ h \in healthy)
            => Cardinality(Routable') >= MinActiveNodes]_vars
  BY <1>1
<1> QED BY <1>2, <1>3, PTL DEF Spec, GrantKeepsMinimum

-----------------------------------------------------------------------------
(* The wrapper.  It has variables and a specification of its own.           *)

RunnerTypes ==
    /\ main \in {"reserving", "reserved", "launched", "waiting", "interrupted", "killing",
                 "joining", "releasing", "released", "returned", "aborted"}
    /\ beat \in {"off", "waiting", "calling", "losing", "ended"}
    /\ answer \in {None, "ok", "gone", "unreachable"}
    /\ stop \in BOOLEAN /\ lost \in BOOLEAN /\ broken \in BOOLEAN /\ tried \in BOOLEAN
    /\ command \in {"none", "running", "exited"}
    /\ signals \subseteq {"INT", "TERM", "KILL"}
    /\ lease \in {"none", "held", "ended", "released"}
    /\ reply \in {None, "granted", "refused", "received"}
    /\ late \in BOOLEAN

\* The heartbeat thread runs only while there is a lease to lose, and what it
\* hears and records of it is true of the orchestrator, unless the wrapper has
\* sent its own release and the thread outlived the join.
BeatIsTrue ==
    /\ reply = None => lease = "none"
    /\ reply \in {"granted", "received"} => lease # "none"
    /\ main \in {"reserving", "reserved", "launched"} => beat = "off"
    /\ beat # "off" => reply = "received"
    /\ lease = "released" => tried
    /\ answer = "gone" => lease = "ended" \/ (tried /\ late)
    /\ lost => lease = "ended" \/ (tried /\ late)
    /\ beat = "losing" => lost

\* Once the wrapper releases, its thread is over, unless the join timed out.
ThreadIsOver ==
    /\ main \in {"releasing", "released"} => late \/ beat \in {"off", "ended"}
    /\ main \in {"returned", "aborted"} => beat = "off"
    /\ tried => main \in {"released", "returned", "aborted"}

\* A command was terminated only for a recorded loss, and it ends of nothing
\* but the signals it was sent.
EndIsExplained ==
    /\ "TERM" \in signals => lost
    /\ IF command = "exited" THEN ended_by \in signals \cup {"own"} ELSE ended_by = None

\* What the wrapper has done by the time it is past its wait: only a propagating
\* KeyboardInterrupt leaves a running command behind, and after it nothing is
\* returned.
PastTheWait ==
    /\ main = "reserving" => reply # "received"
    /\ main \in {"reserving", "reserved"} => command = "none"
    /\ main \in {"reserved", "launched", "waiting", "interrupted", "killing",
                 "joining", "releasing", "released"} => reply = "received"
    /\ main \in {"joining", "releasing", "released"} /\ ~broken => command # "running"
    /\ main = "released" => tried
    /\ main = "returned" /\ reply = "received" =>
         tried /\ command # "running" /\ exit = ExitCode

RunnerInv == RunnerTypes /\ BeatIsTrue /\ ThreadIsOver /\ EndIsExplained /\ PastTheWait

LEMMA RunnerInitially == RunnerInit => RunnerInv
BY RunnerAssumption DEF RunnerInit, RunnerInv, RunnerTypes, BeatIsTrue,
       ThreadIsOver, EndIsExplained, PastTheWait

\* The invariant is inductive: one step for each action of the four actors.
LEMMA RunnerInductive ==
    RunnerInv /\ [RunnerNext]_runner_vars => RunnerInv'
<1> SUFFICES ASSUME RunnerInv, [RunnerNext]_runner_vars
             PROVE  RunnerInv'
  OBVIOUS
<1> USE RunnerAssumption DEF RunnerInv, RunnerTypes, BeatIsTrue, ThreadIsOver,
        EndIsExplained, PastTheWait, ExitCode,
        thread, process, server
<1>1. CASE ReserveServed
  <2>1. RunnerTypes'
    BY <1>1 DEF ReserveServed
  <2>2. BeatIsTrue' /\ ThreadIsOver'
    BY <1>1 DEF ReserveServed
  <2>3. EndIsExplained' /\ PastTheWait'
    BY <1>1 DEF ReserveServed
  <2> QED BY <2>1, <2>2, <2>3
<1>2. CASE Reserved
  BY <1>2 DEF Reserved
<1>3. CASE NotReserved
  BY <1>3 DEF NotReserved, Return
<1>4. CASE Launch
  <2>1. RunnerTypes'
    BY <1>4 DEF Launch
  <2>2. BeatIsTrue' /\ ThreadIsOver'
    BY <1>4 DEF Launch
  <2>3. EndIsExplained' /\ PastTheWait'
    BY <1>4 DEF Launch
  <2> QED BY <2>1, <2>2, <2>3
<1>5. CASE StartBeating
  BY <1>5 DEF StartBeating
<1>6. CASE CommandDone
  BY <1>6 DEF CommandDone
<1>7. CASE KillCommand
  BY <1>7 DEF KillCommand
<1>8. CASE Joined
  BY <1>8 DEF Joined
<1>9. CASE ReleaseServed
  BY <1>9 DEF ReleaseServed
<1>10. CASE Finish
  BY <1>10 DEF Finish, Return
<1>11. CASE BeatWakes
  BY <1>11 DEF BeatWakes
<1>12. CASE BeatServed
  BY <1>12 DEF BeatServed
<1>13. CASE BeatReturns
  <2>1. CASE answer = "gone"
    BY <1>13, <2>1 DEF BeatReturns
  <2>2. CASE answer # "gone"
    BY <1>13, <2>2 DEF BeatReturns
  <2> QED BY <2>1, <2>2
<1>14. CASE Terminate
  BY <1>14 DEF Terminate
<1>15. CASE Interrupt
  <2>1. CASE main = "waiting"
    <3>1. /\ main' = "interrupted" /\ signals' \in {signals, signals \cup {"INT"}}
          /\ command' = command /\ ended_by' = ended_by
          /\ UNCHANGED <<beat, stop, broken, reply, answer, lost, server, exit, late>>
      BY <1>15, <2>1 DEF Interrupt
    <3>2. RunnerTypes'
      BY <2>1, <3>1
    <3>3. BeatIsTrue' /\ ThreadIsOver' /\ PastTheWait'
      BY <2>1, <3>1
    <3>4. EndIsExplained'
      BY <2>1, <3>1
    <3> QED BY <3>2, <3>3, <3>4
  <2>2. CASE main \in {"interrupted", "killing"}
    BY <1>15, <2>2 DEF Interrupt
  <2>3. CASE main \notin {"waiting", "interrupted", "killing"}
    <3>1. /\ main' = "aborted" /\ beat' = "off"
          /\ UNCHANGED <<stop, broken, signals, reply, answer, lost, command, ended_by,
                         lease, tried, exit, late>>
      BY <1>15, <2>3 DEF Interrupt
    <3>2. RunnerTypes' /\ BeatIsTrue' /\ ThreadIsOver'
      BY <3>1
    <3>3. EndIsExplained' /\ PastTheWait'
      BY <3>1
    <3> QED BY <3>2, <3>3
  <2> QED BY <2>1, <2>2, <2>3
<1>16. CASE CommandExits
  BY <1>16 DEF CommandExits
<1>17. CASE LeaseEnds
  BY <1>17 DEF LeaseEnds
<1>18. CASE UNCHANGED runner_vars
  BY <1>18 DEF runner_vars
<1> QED BY <1>1, <1>2, <1>3, <1>4, <1>5, <1>6, <1>7, <1>8, <1>9, <1>10,
         <1>11, <1>12, <1>13, <1>14, <1>15, <1>16, <1>17, <1>18
     DEF RunnerNext, MainStep, BeatStep

THEOREM RunnerInvariant == RunnerSpec => []RunnerInv
<1>1. RunnerInit => RunnerInv
  BY RunnerInitially
<1>2. RunnerInv /\ [RunnerNext]_runner_vars => RunnerInv'
  BY RunnerInductive
<1> QED BY <1>1, <1>2, PTL DEF RunnerSpec

\* When run_leased returns after a reservation, in whatever order the heartbeat
\* thread, the command, Ctrl-C and the orchestrator ran: the command is over and a
\* release was sent; the exit code is the command's own, or that of a lost lease if
\* the orchestrator ended it or the join timed out; and it is never that of a command
\* the wrapper terminated.
THEOREM ReturnsCleanHolds == RunnerSpec => []ReturnsClean
<1>1. RunnerInv => ReturnsClean
  <2> SUFFICES ASSUME RunnerInv, main = "returned", reply = "received"
               PROVE  ReturnsClean
    BY DEF ReturnsClean
  <2>1. tried /\ command # "running" /\ exit = ExitCode
    BY DEF RunnerInv, PastTheWait
  <2>2. lost => lease = "ended" \/ late
    BY DEF RunnerInv, BeatIsTrue
  <2>3. \/ lost /\ exit = "lost"
        \/ exit = IF command = "none" THEN "not_started" ELSE ended_by
    BY <2>1 DEF ExitCode
  <2>4. ended_by = "TERM" => exit = "lost"
    BY <2>1, RunnerAssumption DEF RunnerInv, EndIsExplained, RunnerTypes, ExitCode
  <2> QED BY <2>1, <2>2, <2>3, <2>4 DEF ReturnsClean
<1> QED BY <1>1, RunnerInvariant, PTL

\* The heartbeat thread records a loss only when the orchestrator had ended the
\* lease, or when the wrapper's own release was already on its way.
THEOREM LossIsRealHolds == RunnerSpec => []LossIsReal
<1>1. RunnerInv => LossIsReal
  BY DEF RunnerInv, BeatIsTrue, LossIsReal
<1> QED BY <1>1, RunnerInvariant, PTL
=============================================================================
