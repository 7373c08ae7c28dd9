--------------------------- MODULE Gateway_proofs ---------------------------
(***************************************************************************)
(* Proofs about Gateway for any number of hosts and requests and any       *)
(* capacities: slot accounting is exact, a request is admitted only where  *)
(* its lease allows, the queue holds exactly the requests that wait in it, *)
(* and polls that may only remove their own entry do not block each other. *)
(* What the queue's own operations do is taken from SchedulingQueue_proofs,*)
(* instantiated for the gateway's requests.                                *)
(***************************************************************************)
EXTENDS Gateway, FiniteSetTheorems, TLAPS

\* What the accounting argument needs of the types.
SlotTypes ==
    /\ hosts \in [Hosts -> HostInfo \cup {None}]
    /\ pc \in [Requests -> {"new", "discovering", "queued", "done"} \cup Running]
    /\ on \in [Requests -> Hosts \cup {None}]
    /\ \A r \in Requests : pc[r] \in Running => on[r] \in Hosts

\* A host that is absent and was not deregistered under a request serves none,
\* so that registering it again may start from zero.
AbsentServesNone == \A h \in Hosts \ tainted : hosts[h] = None => Serving(h) = {}

IInv == SlotTypes /\ AbsentServesNone /\ SlotsMatch

\* Serving sets are finite, so their cardinalities are numbers.
LEMMA ServingFinite ==
    \A h \in Hosts : IsFiniteSet(Serving(h)) /\ Cardinality(Serving(h)) \in Nat
<1>1. \A h \in Hosts : Serving(h) \subseteq Requests
  BY DEF Serving
<1> QED BY <1>1, GatewayAssumption, FS_Subset, FS_CardinalityType

\* A step that moves no request into or out of a slot and leaves in_flight of
\* every host as it is keeps the invariant.
LEMMA QuietStep ==
    ASSUME IInv, hosts' = hosts, tainted' = tainted,
           pc' \in [Requests -> {"new", "discovering", "queued", "done"} \cup Running],
           on' \in [Requests -> Hosts \cup {None}],
           \A r \in Requests : pc'[r] \in Running <=> pc[r] \in Running,
           \A r \in Requests : pc[r] \in Running => on'[r] = on[r]
    PROVE  IInv'
<1>1. \A h \in Hosts : Serving(h)' = Serving(h)
  BY DEF Serving
<1>2. SlotTypes'
  BY DEF IInv, SlotTypes
<1>3. AbsentServesNone' /\ SlotsMatch'
  BY <1>1 DEF IInv, AbsentServesNone, SlotsMatch
<1> QED BY <1>2, <1>3 DEF IInv

\* A request that enters a slot on a registered host adds itself to the
\* requests the host serves and one to its in_flight.
LEMMA EnterStep ==
    ASSUME IInv, NEW r \in Requests, NEW w \in Hosts, pc[r] \notin Running,
           hosts[w] # None, TakeSlot(r, w), tainted' = tainted
    PROVE  IInv'
<1>1. hosts[w] \in HostInfo /\ hosts[w].in_flight \in Int
  BY DEF IInv, SlotTypes, HostInfo
<1>2. /\ hosts' \in [Hosts -> HostInfo \cup {None}]
      /\ hosts'[w] \in HostInfo /\ hosts'[w].in_flight = hosts[w].in_flight + 1
      /\ \A h \in Hosts \ {w} : hosts'[h] = hosts[h]
  BY <1>1 DEF TakeSlot, IInv, SlotTypes, HostInfo
<1>3. /\ pc' \in [Requests -> {"new", "discovering", "queued", "done"} \cup Running]
      /\ pc'[r] \in Running /\ on'[r] = w
      /\ on' \in [Requests -> Hosts \cup {None}]
      /\ \A q \in Requests \ {r} : pc'[q] = pc[q] /\ on'[q] = on[q]
  BY DEF TakeSlot, IInv, SlotTypes, Running
<1>4. SlotTypes'
  BY <1>2, <1>3 DEF IInv, SlotTypes
<1>5. /\ Serving(w)' = Serving(w) \cup {r} /\ r \notin Serving(w)
      /\ \A h \in Hosts \ {w} : Serving(h)' = Serving(h)
  BY <1>3 DEF Serving
<1>6. Cardinality(Serving(w) \cup {r}) = Cardinality(Serving(w)) + 1
  BY <1>5, ServingFinite, FS_AddElement
<1>7. hosts'[w] # None
  BY <1>2, GatewayAssumption
<1>8. AbsentServesNone'
  BY <1>2, <1>5, <1>7 DEF IInv, AbsentServesNone
<1>9. SlotsMatch'
  BY <1>2, <1>5, <1>6 DEF IInv, SlotsMatch
<1> QED BY <1>4, <1>8, <1>9 DEF IInv

\* A request that leaves its slot gives back exactly one, if the host is there.
LEMMA LeaveStep ==
    ASSUME IInv, NEW r \in Requests, pc[r] \in Running, ReleaseSlot(on[r]), Finish(r),
           tainted' = tainted
    PROVE  IInv'
<1>1. PICK w \in Hosts : w = on[r]
  BY DEF IInv, SlotTypes
<1>2. /\ hosts' \in [Hosts -> HostInfo \cup {None}]
      /\ hosts[w] = None => hosts' = hosts
      /\ hosts[w] # None => /\ hosts'[w] # None
                            /\ hosts'[w].in_flight = hosts[w].in_flight - 1
      /\ \A h \in Hosts \ {w} : hosts'[h] = hosts[h]
  <2>1. CASE hosts[w] = None
    BY <1>1, <2>1 DEF ReleaseSlot, IInv, SlotTypes
  <2>2. CASE hosts[w] # None
    <3>1. hosts[w] \in HostInfo /\ hosts[w].in_flight \in Int
      BY <1>1, <2>2 DEF IInv, SlotTypes, HostInfo
    <3>2. hosts' = [hosts EXCEPT ![w].in_flight = @ - 1]
      BY <1>1, <2>2 DEF ReleaseSlot
    <3>3. /\ hosts' \in [Hosts -> HostInfo \cup {None}] /\ hosts'[w] \in HostInfo
          /\ hosts'[w].in_flight = hosts[w].in_flight - 1
          /\ \A h \in Hosts \ {w} : hosts'[h] = hosts[h]
      BY <1>1, <3>1, <3>2 DEF IInv, SlotTypes, HostInfo
    <3> QED BY <2>2, <3>3, GatewayAssumption
  <2> QED BY <2>1, <2>2
<1>3. /\ pc' \in [Requests -> {"new", "discovering", "queued", "done"} \cup Running]
      /\ pc'[r] \notin Running
      /\ on' \in [Requests -> Hosts \cup {None}]
      /\ \A q \in Requests \ {r} : pc'[q] = pc[q] /\ on'[q] = on[q]
  BY DEF Finish, IInv, SlotTypes, Running
<1>4. SlotTypes'
  BY <1>2, <1>3 DEF IInv, SlotTypes
<1>5. /\ Serving(w)' = Serving(w) \ {r} /\ r \in Serving(w)
      /\ \A h \in Hosts \ {w} : Serving(h)' = Serving(h)
  BY <1>1, <1>3 DEF Serving
<1>6. Cardinality(Serving(w) \ {r}) = Cardinality(Serving(w)) - 1
  BY <1>1, <1>5, ServingFinite, FS_RemoveElement
<1>7. AbsentServesNone'
  BY <1>1, <1>2, <1>5 DEF IInv, AbsentServesNone
<1>8. SlotsMatch'
  BY <1>1, <1>2, <1>5, <1>6 DEF IInv, SlotsMatch
<1> QED BY <1>4, <1>7, <1>8 DEF IInv

\* A request that ends without a slot changes no accounting.
LEMMA FinishStep ==
    ASSUME IInv, NEW r \in Requests, pc[r] \notin Running, Finish(r),
           hosts' = hosts, tainted' = tainted
    PROVE  IInv'
<1>1. /\ pc' \in [Requests -> {"new", "discovering", "queued", "done"} \cup Running]
      /\ on' \in [Requests -> Hosts \cup {None}]
      /\ \A q \in Requests : pc'[q] \in Running <=> pc[q] \in Running
      /\ \A q \in Requests : pc[q] \in Running => on'[q] = on[q]
  BY DEF Finish, IInv, SlotTypes, Running
<1> QED BY <1>1, QuietStep

\* Admission, from discovery or from the queue.
LEMMA AdmitStep ==
    ASSUME IInv, NEW r \in Requests, NEW sight, pc[r] \notin Running, Admit(r, sight),
           tainted' = tainted
    PROVE  IInv'
<1>1. CASE Finish(r) /\ hosts' = hosts
  BY <1>1, FinishStep
<1>2. ASSUME NEW w \in Candidates(r, sight), hosts[w] # None, TakeSlot(r, w)
      PROVE  IInv'
  <2>1. w \in Hosts
    BY DEF Candidates
  <2> QED BY <1>2, <2>1, EnterStep
<1> QED BY <1>1, <1>2 DEF Admit, Winners

\* A registration writes a new object with the old count, or zero.
LEMMA RegisterStep ==
    ASSUME IInv, NEW h \in Hosts, NEW g \in Registrations, Register(h, g)
    PROVE  IInv'
<1>1. g.capacity \in Nat /\ g.known \in BOOLEAN
  BY GatewayAssumption
<1>2. /\ hosts' \in [Hosts -> HostInfo \cup {None}]
      /\ hosts'[h] \in HostInfo
      /\ hosts[h] = None => hosts'[h].in_flight = 0
      /\ hosts[h] # None => hosts'[h].in_flight = hosts[h].in_flight
      /\ \A k \in Hosts \ {h} : hosts'[k] = hosts[k]
  BY <1>1 DEF Register, IInv, SlotTypes, HostInfo
<1>3. pc' = pc /\ on' = on /\ tainted' = tainted
  BY DEF Register
<1>4. \A k \in Hosts : Serving(k)' = Serving(k)
  BY <1>3 DEF Serving
<1>5. SlotTypes'
  BY <1>2, <1>3 DEF IInv, SlotTypes
<1>6. hosts'[h] # None
  BY <1>2, GatewayAssumption
<1>7. AbsentServesNone'
  BY <1>2, <1>3, <1>4, <1>6 DEF IInv, AbsentServesNone
<1>8. SlotsMatch'
  <2>1. h \notin tainted /\ hosts[h] = None => hosts'[h].in_flight = Cardinality(Serving(h))
    BY <1>2, FS_EmptySet DEF IInv, AbsentServesNone
  <2> QED BY <1>2, <1>3, <1>4, <2>1 DEF IInv, SlotsMatch
<1> QED BY <1>5, <1>7, <1>8 DEF IInv

\* A deregistration under a running request taints the host.
LEMMA DeregisterStep ==
    ASSUME IInv, NEW h \in Hosts, Deregister(h)
    PROVE  IInv'
<1>1. /\ hosts' \in [Hosts -> HostInfo \cup {None}] /\ hosts'[h] = None
      /\ \A g \in Hosts \ {h} : hosts'[g] = hosts[g]
      /\ pc' = pc /\ on' = on
      /\ tainted \subseteq tainted' /\ (h \notin tainted' => Serving(h) = {})
      /\ \A g \in Hosts \ {h} : g \in tainted' => g \in tainted
  BY DEF Deregister, IInv, SlotTypes
<1>2. \A g \in Hosts : Serving(g)' = Serving(g)
  BY <1>1 DEF Serving
<1>3. SlotTypes'
  BY <1>1 DEF IInv, SlotTypes
<1>4. AbsentServesNone' /\ SlotsMatch'
  BY <1>1, <1>2 DEF IInv, AbsentServesNone, SlotsMatch
<1> QED BY <1>3, <1>4 DEF IInv

\* After a restart nothing runs and nothing is counted.
LEMMA RestartStep ==
    ASSUME IInv, Restart
    PROVE  IInv'
<1>1. /\ \A h \in Hosts : /\ hosts'[h] \in HostInfo \cup {None}
                          /\ hosts'[h] # None => hosts'[h].in_flight = 0
      /\ hosts' \in [Hosts -> HostInfo \cup {None}]
  BY DEF Restart, IInv, SlotTypes, HostInfo
<1>2. /\ pc' \in [Requests -> {"new", "discovering", "queued", "done"} \cup Running]
      /\ on' \in [Requests -> Hosts \cup {None}]
      /\ \A r \in Requests : pc'[r] \notin Running
  BY DEF Restart, Running
<1>3. \A h \in Hosts : Serving(h)' = {}
  BY <1>2 DEF Serving
<1>4. SlotTypes' /\ AbsentServesNone'
  BY <1>1, <1>2, <1>3 DEF SlotTypes, AbsentServesNone
<1>5. SlotsMatch'
  BY <1>1, <1>3, FS_EmptySet DEF SlotsMatch
<1> QED BY <1>4, <1>5 DEF IInv

\* The invariant is inductive.
THEOREM Inductive == IInv /\ [Next]_vars => IInv'
<1> SUFFICES ASSUME IInv, [Next]_vars PROVE IInv'
  OBVIOUS
<1>1. ASSUME NEW r \in Requests, Start(r) PROVE IInv'
  <2>1. CASE Finish(r)
    BY <1>1, <2>1, FinishStep DEF Start, shared, Running
  <2>2. CASE pc' = [pc EXCEPT ![r] = "discovering"] /\ on' = on
    <3>1. /\ pc' \in [Requests -> {"new", "discovering", "queued", "done"} \cup Running]
          /\ on' \in [Requests -> Hosts \cup {None}]
          /\ \A q \in Requests : pc'[q] \in Running <=> pc[q] \in Running
      BY <1>1, <2>2 DEF Start, IInv, SlotTypes, Running
    <3> QED BY <1>1, <2>2, <3>1, QuietStep DEF Start, shared
  <2> QED BY <1>1, <2>1, <2>2 DEF Start
<1>2. ASSUME NEW r \in Requests, NEW capable \in SUBSET Hosts, Discovered(r, capable)
      PROVE  IInv'
  <2> DEFINE sight == [h \in Hosts |-> IF h \in capable THEN seen[r][h] ELSE None]
  <2>0. pc[r] = "discovering" /\ pc[r] \notin Running /\ tainted' = tainted
    BY <1>2 DEF Discovered, Running
  <2>1. CASE Finish(r) /\ hosts' = hosts
    BY <2>0, <2>1, FinishStep
  <2>2. CASE Admit(r, sight)
    BY <2>0, <2>2, AdmitStep
  <2>3. CASE pc' = [pc EXCEPT ![r] = "queued"] /\ on' = on /\ hosts' = hosts
    <3>1. /\ pc' \in [Requests -> {"new", "discovering", "queued", "done"} \cup Running]
          /\ on' \in [Requests -> Hosts \cup {None}]
          /\ \A q \in Requests : pc'[q] \in Running <=> pc[q] \in Running
      BY <2>0, <2>3 DEF IInv, SlotTypes, Running
    <3> QED BY <2>0, <2>3, <3>1, QuietStep
  <2> QED BY <1>2, <2>1, <2>2, <2>3 DEF Discovered
<1>3. ASSUME NEW r \in Requests, Poll(r) PROVE IInv'
  <2>0. pc[r] \notin Running /\ tainted' = tainted
    BY <1>3 DEF Poll, Running
  <2>1. CASE Admit(r, seen[r])
    BY <2>0, <2>1, AdmitStep
  <2>2. CASE Finish(r) /\ hosts' = hosts
    BY <2>0, <2>2, FinishStep
  <2>3. CASE hosts' = hosts /\ pc' = pc /\ on' = on
    BY <2>0, <2>3, QuietStep DEF IInv, SlotTypes
  <2> QED BY <1>3, <2>1, <2>2, <2>3 DEF Poll
<1>4. ASSUME NEW r \in Requests, NEW ok \in BOOLEAN, CallEnds(r, ok) PROVE IInv'
  BY <1>4, LeaveStep DEF CallEnds, Running
<1>5. ASSUME NEW r \in Requests, NEW ok \in BOOLEAN,
             StreamDrained(r, ok) \/ StreamBroken(r)
      PROVE  IInv'
  <2>1. /\ pc[r] = "streaming" /\ pc' = [pc EXCEPT ![r] = "closing"]
        /\ hosts' = hosts /\ on' = on /\ tainted' = tainted
    BY <1>5 DEF StreamDrained, StreamBroken, shared
  <2>2. /\ pc' \in [Requests -> {"new", "discovering", "queued", "done"} \cup Running]
        /\ \A q \in Requests : pc'[q] \in Running <=> pc[q] \in Running
    BY <2>1 DEF IInv, SlotTypes, Running
  <2> QED BY <2>1, <2>2, QuietStep DEF IInv, SlotTypes
<1>6. ASSUME NEW r \in Requests, StreamClosed(r) PROVE IInv'
  BY <1>6, LeaveStep DEF StreamClosed, Running
<1>7. ASSUME NEW r \in Requests, Disconnect(r) PROVE IInv'
  <2>0. tainted' = tainted
    BY <1>7 DEF Disconnect
  <2>1. CASE pc[r] \in {"discovering", "queued"} /\ Finish(r) /\ hosts' = hosts
    BY <2>0, <2>1, FinishStep DEF Running
  <2>2. CASE pc[r] = "calling" /\ ReleaseSlot(on[r]) /\ Finish(r)
    BY <2>0, <2>2, LeaveStep DEF Running
  <2>3. CASE pc[r] = "streaming" /\ pc' = [pc EXCEPT ![r] = "closing"] /\ hosts' = hosts
             /\ on' = on
    <3>1. /\ pc' \in [Requests -> {"new", "discovering", "queued", "done"} \cup Running]
          /\ \A q \in Requests : pc'[q] \in Running <=> pc[q] \in Running
      BY <2>3 DEF IInv, SlotTypes, Running
    <3> QED BY <2>0, <2>3, <3>1, QuietStep DEF IInv, SlotTypes
  <2> QED BY <1>7, <2>1, <2>2, <2>3 DEF Disconnect
<1>8. ASSUME NEW h \in Hosts, NEW g \in Registrations, Register(h, g) PROVE IInv'
  BY <1>8, RegisterStep
<1>9. ASSUME NEW h \in Hosts, Deregister(h) PROVE IInv'
  BY <1>9, DeregisterStep
<1>10. CASE hosts' = hosts /\ tainted' = tainted /\ pc' = pc /\ on' = on
  BY <1>10, QuietStep DEF IInv, SlotTypes
<1>11. ASSUME NEW h \in Hosts, LeaseEnds(h) PROVE IInv'
  BY <1>10, <1>11 DEF LeaseEnds, local
<1>12. ASSUME NEW h \in Hosts, NEW t \in Tokens, Reserve(h, t) PROVE IInv'
  BY <1>10, <1>12 DEF Reserve, local
<1>13. ASSUME NEW h \in Hosts, NEW ok \in BOOLEAN, Probed(h, ok) PROVE IInv'
  BY <1>10, <1>13 DEF Probed, local
<1>14. CASE Restart
  BY <1>14, RestartStep
<1>15. CASE UNCHANGED vars
  BY <1>10, <1>15 DEF vars, shared, local
<1> QED
  BY <1>1, <1>2, <1>3, <1>4, <1>5, <1>6, <1>7, <1>8, <1>9, <1>11, <1>12, <1>13, <1>14, <1>15
  DEF Next, RequestStep

\* The initial states satisfy the invariant: nothing runs, nothing is counted.
LEMMA InitInv == Init => IInv
<1> SUFFICES ASSUME Init PROVE IInv
  OBVIOUS
<1>1. \A g \in Registrations :
         [in_flight |-> 0, capacity |-> g.capacity, known |-> g.known] \in HostInfo
  BY GatewayAssumption DEF HostInfo
<1>2. hosts \in [Hosts -> HostInfo \cup {None}]
  <2>1. \A h \in Hosts : hosts[h] \in HostInfo \cup {None}
    BY <1>1 DEF Init
  <2> QED BY <2>1 DEF Init
<1>3. SlotTypes
  BY <1>2 DEF Init, SlotTypes, Running
<1>4. \A h \in Hosts : Serving(h) = {}
  BY DEF Init, Serving, Running
<1>5. \A h \in Hosts : hosts[h] # None => hosts[h].in_flight = 0
  BY DEF Init
<1> QED BY <1>3, <1>4, <1>5, FS_EmptySet DEF IInv, AbsentServesNone, SlotsMatch

\* For any number of requests and hosts: in_flight is the number of requests
\* that hold a slot, on every host not deregistered under a running request.
THEOREM SlotAccounting == Spec => []SlotsMatch
<1>1. IInv => SlotsMatch
  BY DEF IInv
<1> QED BY <1>1, InitInv, Inductive, PTL DEF Spec

-----------------------------------------------------------------------------
\* Whoever is admitted was admitted by Admit, on a candidate of that moment.
LEMMA AdmittedByAdmit ==
    ASSUME IInv, [Next]_vars, NEW r \in Requests, Admitted(r)
    PROVE  \E sight : /\ \A h \in Hosts : sight[h] \in {seen[r][h], None}
                      /\ on'[r] \in Candidates(r, sight)
                      /\ hosts[on'[r]] # None
<1> DEFINE Goal(sight) == /\ on'[r] \in Candidates(r, sight)
                          /\ hosts[on'[r]] # None
<1>0. SlotTypes
  BY DEF IInv
<1>1. ASSUME NEW q \in Requests, NEW sight, Admit(q, sight)
      PROVE  q = r /\ Goal(sight)
  <2>1. \A p \in Requests \ {q} : pc'[p] = pc[p]
    BY <1>0, <1>1 DEF Admit, Finish, TakeSlot, SlotTypes
  <2>2. q = r
    BY <2>1 DEF Admitted
  <2>3. ~Finish(r)
    BY <1>0 DEF Finish, Admitted, SlotTypes, Running
  <2>4. PICK w \in Candidates(r, sight) : hosts[w] # None /\ TakeSlot(r, w)
    BY <1>1, <2>2, <2>3 DEF Admit, Winners
  <2>5. on'[r] = w
    BY <1>0, <2>4 DEF TakeSlot, SlotTypes
  <2> QED BY <2>2, <2>4, <2>5
<1>2. ASSUME NEW q \in Requests, Finish(q) PROVE FALSE
  BY <1>0, <1>2 DEF Finish, Admitted, SlotTypes, Running
<1>3. ASSUME UNCHANGED pc PROVE FALSE
  BY <1>3 DEF Admitted
<1>4. ASSUME NEW q \in Requests, NEW x \in {"discovering", "queued"},
             pc' = [pc EXCEPT ![q] = x]
      PROVE  FALSE
  BY <1>0, <1>4 DEF Admitted, SlotTypes, Running
<1>5. ASSUME NEW q \in Requests, pc[q] = "streaming", pc' = [pc EXCEPT ![q] = "closing"]
      PROVE  FALSE
  BY <1>0, <1>5 DEF Admitted, SlotTypes, Running
<1>6. ASSUME Restart PROVE FALSE
  BY <1>6 DEF Restart, Admitted, Running
<1>7. ASSUME NEW q \in Requests, NEW capable \in SUBSET Hosts, Discovered(q, capable)
      PROVE  q = r /\ Goal([h \in Hosts |-> IF h \in capable THEN seen[r][h] ELSE None])
  BY <1>1, <1>2, <1>4, <1>7 DEF Discovered
<1>8. ASSUME NEW q \in Requests, Poll(q) PROVE Goal(seen[r])
  BY <1>1, <1>2, <1>3, <1>8 DEF Poll
<1>9. \/ \E q \in Requests, capable \in SUBSET Hosts : Discovered(q, capable)
      \/ \E q \in Requests : Poll(q)
  BY <1>2, <1>3, <1>4, <1>5, <1>6
  DEF Next, RequestStep, Start, CallEnds, StreamDrained, StreamBroken, StreamClosed, Disconnect,
      Register, Deregister, LeaseEnds, Reserve, Probed, vars, local
<1>10. ASSUME NEW q \in Requests, NEW capable \in SUBSET Hosts, Discovered(q, capable)
       PROVE  \E sight : (\A h \in Hosts : sight[h] \in {seen[r][h], None}) /\ Goal(sight)
  <2> DEFINE sight == [h \in Hosts |-> IF h \in capable THEN seen[r][h] ELSE None]
  <2>1. Goal(sight) /\ \A h \in Hosts : sight[h] \in {seen[r][h], None}
    BY <1>7, <1>10
  <2> QED BY <2>1
<1>11. ASSUME NEW q \in Requests, Poll(q)
       PROVE  \E sight : (\A h \in Hosts : sight[h] \in {seen[r][h], None}) /\ Goal(sight)
  BY <1>8, <1>11
<1> QED BY <1>9, <1>10, <1>11

\* No request ever takes a slot against the leases of that moment.
THEOREM LeaseRespected == Spec => AdmissionRespectsLease
<1>1. IInv /\ [Next]_vars =>
        [\A r \in Requests : Admitted(r) => leased[on'[r]] = Pin[r]]_vars
  BY AdmittedByAdmit DEF Candidates
<1> QED BY <1>1, InitInv, Inductive, PTL DEF Spec, AdmissionRespectsLease

-----------------------------------------------------------------------------
(* The queue, used by the handlers.  What its operations do is proved in     *)
(* SchedulingQueue_proofs, for any queue; its lemmas are taken over for the  *)
(* gateway's sessions and its only priority.  They are about a queue given   *)
(* as an argument: the other variables of that module play no part.          *)

Line == INSTANCE SchedulingQueue_proofs
    WITH Priorities <- {0}, Sessions <- Sessions \cup Requests, Nothing <- None,
         SessionOf <- [r \in Requests |-> QueueSession(r)],
         PriorityOf <- [r \in Requests |-> 0],
         Tracked <- Requests, eligibility <- Requests, usable <- seen, free <- Hosts,
         status <- pc, passed <- polls

LEMMA LineAssumption == Line!CallersAssumption
BY GatewayAssumption DEF Line!CallersAssumption, QueueSession

\* The two instances of QueueOps, this one and that of Gateway, are the same.
LEMMA SameOperations ==
    /\ Queue!EmptyQueue = Line!EmptyQueue
    /\ \A q, r, s : Queue!Enqueued(q, r, s, 0) = Line!Enqueued(q, r, s, 0)
    /\ \A q, r, s : Queue!Cancelled(q, r, s, 0) = Line!Cancelled(q, r, s, 0)
    /\ \A q, may, runnable, r :
          Queue!Dispatched(q, may, runnable, r) = Line!Dispatched(q, may, runnable, r)
    /\ \A q, runnable : Queue!Admissible(q, runnable) = Line!Admissible(q, runnable)
    /\ \A q : Queue!Waiting(q) = Line!Waiting(q)
    /\ \A q : Queue!WellFormed(q) <=> Line!WellFormed(q)
<1>1. \A seq, e : Queue!RemoveFirst(seq, e) = Line!RemoveFirst(seq, e)
  BY DEF Queue!RemoveFirst, Line!RemoveFirst, Queue!RemoveAt, Line!RemoveAt,
         Queue!SelectInSeq, Line!SelectInSeq, Queue!Min, Line!Min
<1>2. \A q, p, i : Queue!HeadOf(q, p, i) = Line!HeadOf(q, p, i)
  BY DEF Queue!HeadOf, Line!HeadOf
<1>3. \A q, runnable : Queue!Admissible(q, runnable) = Line!Admissible(q, runnable)
  BY <1>2 DEF Queue!Admissible, Line!Admissible
<1>4. \A places : Queue!FirstPlace(places) = Line!FirstPlace(places)
  BY DEF Queue!FirstPlace, Line!FirstPlace
<1>5. \A q, p, i : Queue!Popped(q, p, i) = Line!Popped(q, p, i)
  BY <1>1 DEF Queue!Popped, Line!Popped
<1>6. \A q, may, runnable, r :
         Queue!Dispatched(q, may, runnable, r) = Line!Dispatched(q, may, runnable, r)
  BY <1>2, <1>3, <1>4, <1>5 DEF Queue!Dispatched, Line!Dispatched
<1>7. \A q, r, s : Queue!Cancelled(q, r, s, 0) = Line!Cancelled(q, r, s, 0)
  BY <1>1 DEF Queue!Cancelled, Line!Cancelled
<1>8. Queue!EmptyQueue = Line!EmptyQueue
  BY DEF Queue!EmptyQueue, Line!EmptyQueue
<1>9. \A q, r, s : Queue!Enqueued(q, r, s, 0) = Line!Enqueued(q, r, s, 0)
  BY DEF Queue!Enqueued, Line!Enqueued
<1>10. \A q : Queue!Waiting(q) = Line!Waiting(q)
  BY DEF Queue!Waiting, Line!Waiting, Queue!ToSet, Line!ToSet
<1>11. \A q : Queue!WellFormed(q) <=> Line!WellFormed(q)
  BY DEF Queue!WellFormed, Line!WellFormed, Queue!ToSet, Line!ToSet,
         Queue!IsInjective, Line!IsInjective
<1> QED BY <1>3, <1>6, <1>7, <1>8, <1>9, <1>10, <1>11

\* Where a request waits, in the gateway's own terms.
LEMMA PlaceOf ==
    \A r \in Requests : /\ [x \in Requests |-> QueueSession(x)][r] = QueueSession(r)
                        /\ [x \in Requests |-> 0][r] = 0
OBVIOUS

LEMMA JoinLine ==
    ASSUME NEW q, Line!QueueOk(q), NEW r \in Requests, ~Line!Queued(q, r)
    PROVE  /\ Line!QueueOk(Queue!Enqueued(q, r, QueueSession(r), 0))
           /\ \A x \in Requests : Line!Queued(Queue!Enqueued(q, r, QueueSession(r), 0), x) <=>
                                      Line!Queued(q, x) \/ x = r
BY LineAssumption, SameOperations, PlaceOf, Line!EnqueuedOk

LEMMA LeaveLine ==
    ASSUME NEW q, Line!QueueOk(q), NEW r \in Requests
    PROVE  /\ Line!QueueOk(LeaveQueue(q, r))
           /\ \A x \in Requests :
                 Line!Queued(LeaveQueue(q, r), x) <=> Line!Queued(q, x) /\ x # r
BY LineAssumption, SameOperations, PlaceOf, Line!CancelledOk DEF LeaveQueue

LEMMA GrantLine ==
    ASSUME NEW q, Line!QueueOk(q), NEW may, NEW runnable, NEW r \in Requests,
           Queue!Dispatched(q, may, runnable, r).admitted = r
    PROVE  LET rest == Queue!Dispatched(q, may, runnable, r).queue
           IN  /\ Line!QueueOk(rest)
               /\ \A x \in Requests : Line!Queued(rest, x) <=> Line!Queued(q, x) /\ x # r
<1> DEFINE mine == Line!Dispatched(q, may, runnable, r)
<1>1. mine.admitted = r /\ mine.admitted # None
  BY SameOperations, GatewayAssumption
<1>2. /\ Line!QueueOk(mine.queue)
      /\ \A x \in Requests :
            Line!Queued(mine.queue, x) <=> Line!Queued(q, x) /\ x # mine.admitted
  BY <1>1, LineAssumption, Line!GrantedOk
<1> QED BY <1>1, <1>2, SameOperations

\* The queue is in order, and a request is in it exactly while it waits there.
LineInv ==
    /\ Line!QueueOk(queue)
    /\ \A r \in Requests : Line!Queued(queue, r) <=> pc[r] = "queued"

\* A step of r that does not touch the queue and is not about waiting.
LEMMA LineUntouched ==
    ASSUME LineInv, queue' = queue,
           \A x \in Requests : pc'[x] = "queued" <=> pc[x] = "queued"
    PROVE  LineInv'
BY DEF LineInv

\* Every step that takes r out of the loop takes it out of the queue.
LEMMA LineLeft ==
    ASSUME LineInv, NEW r \in Requests, NEW q, Line!QueueOk(q),
           \A x \in Requests : Line!Queued(q, x) <=> Line!Queued(queue, x) /\ x # r,
           queue' = q, pc'[r] # "queued",
           \A x \in Requests \ {r} : pc'[x] = pc[x]
    PROVE  LineInv'
BY DEF LineInv

\* What Admit and Finish do to the program counter.
LEMMA PcAfterFinish ==
    ASSUME SlotTypes, NEW r \in Requests, Finish(r)
    PROVE  pc'[r] # "queued" /\ \A x \in Requests \ {r} : pc'[x] = pc[x]
BY DEF SlotTypes, Finish

LEMMA PcAfterAdmit ==
    ASSUME SlotTypes, NEW r \in Requests, NEW sight, Admit(r, sight)
    PROVE  pc'[r] # "queued" /\ \A x \in Requests \ {r} : pc'[x] = pc[x]
<1>1. ASSUME NEW w, TakeSlot(r, w)
      PROVE  pc'[r] # "queued" /\ \A x \in Requests \ {r} : pc'[x] = pc[x]
  BY <1>1 DEF SlotTypes, TakeSlot
<1> QED BY <1>1, PcAfterFinish DEF Admit

LEMMA LineDiscovered ==
    ASSUME SlotTypes, LineInv, NEW r \in Requests, NEW capable \in SUBSET Hosts,
           Discovered(r, capable)
    PROVE  LineInv'
<1> DEFINE sight == [h \in Hosts |-> IF h \in capable THEN seen[r][h] ELSE None]
<1>1. pc[r] = "discovering"
  BY DEF Discovered
<1>2. CASE Finish(r) /\ queue' = queue
  BY <1>1, <1>2, PcAfterFinish, LineUntouched
<1>3. CASE Admit(r, sight) /\ queue' = queue
  BY <1>1, <1>3, PcAfterAdmit, LineUntouched
<1>4. CASE /\ queue' = Queue!Enqueued(queue, r, QueueSession(r), 0)
           /\ pc' = [pc EXCEPT ![r] = "queued"]
  <2>1. /\ Line!QueueOk(queue')
        /\ \A x \in Requests : Line!Queued(queue', x) <=> Line!Queued(queue, x) \/ x = r
    BY <1>1, <1>4, JoinLine DEF LineInv
  <2>2. \A x \in Requests : pc'[x] = IF x = r THEN "queued" ELSE pc[x]
    BY <1>4 DEF SlotTypes
  <2> QED BY <2>1, <2>2 DEF LineInv
<1> QED BY <1>2, <1>3, <1>4 DEF Discovered

LEMMA LinePoll ==
    ASSUME SlotTypes, LineInv, NEW r \in Requests, Poll(r)
    PROVE  LineInv'
<1> DEFINE mine == Queue!Dispatched(queue, PollMayRun(r), Runnable, r)
<1>1. CASE mine.admitted = r /\ queue' = LeaveQueue(mine.queue, r) /\ Admit(r, seen[r])
  <2>1. /\ Line!QueueOk(mine.queue)
        /\ \A x \in Requests : Line!Queued(mine.queue, x) <=> Line!Queued(queue, x) /\ x # r
    BY <1>1, GrantLine DEF LineInv
  <2> HIDE DEF mine
  <2>2. /\ Line!QueueOk(LeaveQueue(mine.queue, r))
        /\ \A x \in Requests : Line!Queued(LeaveQueue(mine.queue, r), x) <=>
                                   Line!Queued(queue, x) /\ x # r
    BY <2>1, LeaveLine
  <2>3. pc'[r] # "queued" /\ \A x \in Requests \ {r} : pc'[x] = pc[x]
    BY <1>1, PcAfterAdmit
  <2> QED BY <1>1, <2>2, <2>3, LineLeft
<1>2. CASE queue' = LeaveQueue(queue, r) /\ Finish(r)
  <2>1. /\ Line!QueueOk(LeaveQueue(queue, r))
        /\ \A x \in Requests : Line!Queued(LeaveQueue(queue, r), x) <=>
                                   Line!Queued(queue, x) /\ x # r
    BY LeaveLine DEF LineInv
  <2> QED BY <1>2, <2>1, PcAfterFinish, LineLeft
<1>3. CASE queue' = queue /\ pc' = pc
  BY <1>3, LineUntouched
<1> QED BY <1>1, <1>2, <1>3 DEF Poll

LEMMA LineDisconnect ==
    ASSUME SlotTypes, LineInv, NEW r \in Requests, Disconnect(r)
    PROVE  LineInv'
<1>1. CASE queue' = LeaveQueue(queue, r) /\ Finish(r)
  <2>1. /\ Line!QueueOk(LeaveQueue(queue, r))
        /\ \A x \in Requests : Line!Queued(LeaveQueue(queue, r), x) <=>
                                   Line!Queued(queue, x) /\ x # r
    BY LeaveLine DEF LineInv
  <2> QED BY <1>1, <2>1, PcAfterFinish, LineLeft
<1>2. CASE pc[r] = "calling" /\ Finish(r) /\ queue' = queue
  BY <1>2, PcAfterFinish, LineUntouched
<1>3. CASE pc[r] = "streaming" /\ pc' = [pc EXCEPT ![r] = "closing"] /\ queue' = queue
  BY <1>3, LineUntouched DEF SlotTypes
<1> QED BY <1>1, <1>2, <1>3 DEF Disconnect

LEMMA LineInductive == IInv /\ LineInv /\ [Next]_vars => LineInv'
<1> SUFFICES ASSUME SlotTypes, LineInv, [Next]_vars PROVE LineInv'
  BY DEF IInv
<1>1. ASSUME NEW r \in Requests, Start(r) PROVE LineInv'
  <2>1. /\ pc[r] = "new" /\ queue' = queue
        /\ Finish(r) \/ pc' = [pc EXCEPT ![r] = "discovering"]
    BY <1>1 DEF Start, shared
  <2>2. CASE Finish(r)
    BY <2>1, <2>2, PcAfterFinish, LineUntouched
  <2>3. CASE pc' = [pc EXCEPT ![r] = "discovering"]
    BY <2>1, <2>3, LineUntouched DEF SlotTypes
  <2> QED BY <2>1, <2>2, <2>3
<1>2. ASSUME NEW r \in Requests, NEW capable \in SUBSET Hosts, Discovered(r, capable)
      PROVE  LineInv'
  BY <1>2, LineDiscovered
<1>3. ASSUME NEW r \in Requests, Poll(r) PROVE LineInv'
  BY <1>3, LinePoll
<1>4. ASSUME NEW r \in Requests, pc[r] # "queued", Finish(r), queue' = queue PROVE LineInv'
  BY <1>4, PcAfterFinish, LineUntouched
<1>5. ASSUME NEW r \in Requests, pc[r] # "queued", pc' = [pc EXCEPT ![r] = "closing"],
             queue' = queue
      PROVE  LineInv'
  BY <1>5, LineUntouched DEF SlotTypes
<1>6. ASSUME NEW r \in Requests, NEW ok \in BOOLEAN,
             \/ CallEnds(r, ok) \/ StreamDrained(r, ok)
             \/ StreamBroken(r) \/ StreamClosed(r)
      PROVE  LineInv'
  BY <1>4, <1>5, <1>6 DEF CallEnds, StreamDrained, StreamBroken, StreamClosed, shared
<1>7. ASSUME NEW r \in Requests, Disconnect(r) PROVE LineInv'
  BY <1>7, LineDisconnect
<1>8. CASE UNCHANGED <<queue, pc>>
  BY <1>8, LineUntouched
<1>9. CASE Restart
  <2>1. Line!QueueOk(queue') /\ \A r \in Requests : ~Line!Queued(queue', r)
    BY <1>9, LineAssumption, SameOperations, Line!EmptyQueueOk DEF Restart
  <2>2. \A r \in Requests : pc'[r] # "queued"
    BY <1>9 DEF Restart
  <2> QED BY <2>1, <2>2 DEF LineInv
<1>10. ASSUME NEW h \in Hosts, NEW g \in Registrations, Register(h, g) PROVE LineInv'
  BY <1>8, <1>10 DEF Register
<1>11. ASSUME NEW h \in Hosts, Deregister(h) \/ LeaseEnds(h) PROVE LineInv'
  BY <1>8, <1>11 DEF Deregister, LeaseEnds, local
<1>12. ASSUME NEW h \in Hosts, NEW t \in Tokens, Reserve(h, t) PROVE LineInv'
  BY <1>8, <1>12 DEF Reserve, local
<1>13. ASSUME NEW h \in Hosts, NEW ok \in BOOLEAN, Probed(h, ok) PROVE LineInv'
  BY <1>8, <1>13 DEF Probed, local
<1>14. CASE UNCHANGED vars
  BY <1>8, <1>14 DEF vars, shared, local
<1> QED
  BY <1>1, <1>2, <1>3, <1>6, <1>7, <1>9, <1>10, <1>11, <1>12, <1>13, <1>14
  DEF Next, RequestStep

LEMMA LineInit == Init => LineInv
<1> SUFFICES ASSUME Init PROVE LineInv
  OBVIOUS
<1>1. Line!QueueOk(queue) /\ \A r \in Requests : ~Line!Queued(queue, r)
  BY LineAssumption, SameOperations, Line!EmptyQueueOk DEF Init
<1> QED BY <1>1 DEF Init, LineInv

\* For any number of requests and sessions: whether they are granted, time out,
\* lose their lease, disconnect or are cut off by a restart, the requests in the
\* queue are those that wait in it, each once and in the rotation of its session.
THEOREM QueueFollowsWaiters == Spec => []QueueMatchesWaiters
<1>1. LineInv => QueueMatchesWaiters
  <2> SUFFICES ASSUME LineInv PROVE QueueMatchesWaiters
    OBVIOUS
  <2>1. Line!WellFormed(queue) /\ Line!Waiting(queue) = {r \in Requests : Line!Queued(queue, r)}
    BY LineAssumption, Line!OkMeans DEF LineInv
  <2> QED BY <2>1, SameOperations DEF LineInv, QueueMatchesWaiters
<1> QED BY <1>1, InitInv, Inductive, LineInit, LineInductive, PTL DEF Spec

\* For any number of requests and sessions: when the head of some session could
\* run now, some request that waits and whose lease holds is admitted by its own
\* next poll, although a poll may remove no entry but its own, or that poll fails
\* on a node the request may use itself.
THEOREM SomePollProgresses == Spec => []ScopedPollsProgress
<1>1. LineInv => ScopedPollsProgress
  <2> SUFFICES ASSUME LineInv, Queue!Admissible(queue, Runnable) # {}
               PROVE  \E r \in Requests :
                         /\ pc[r] = "queued" /\ LeaseHolds(r)
                         /\ \/ CandidatesRaise(r, seen[r])
                            \/ /\ ~PollRaises(r)
                               /\ Queue!Dispatched(queue, PollMayRun(r), Runnable, r).admitted = r
    BY DEF ScopedPollsProgress
  <2>1. CASE Raising # {}
    <3>1. PICK r \in Requests : pc[r] = "queued" /\ CandidatesRaise(r, seen[r])
      BY <2>1 DEF Raising
    <3>2. LeaseHolds(r)
      BY <3>1 DEF CandidatesRaise, Candidates, LeaseHolds
    <3> QED BY <3>1, <3>2
  <2>2. CASE Raising = {}
    <3>1. PICK r \in Requests :
             /\ r \in Runnable /\ Line!Queued(queue, r)
             /\ Line!Dispatched(queue, TRUE, Runnable, r).admitted = r
      BY LineAssumption, SameOperations, Line!OwnerIsGranted DEF LineInv
    <3>2. MayRun(r) /\ pc[r] = "queued"
      BY <3>1 DEF Runnable, LineInv
    <3>3. PollMayRun(r) = TRUE
      BY <3>2 DEF MayRun, PollMayRun
    <3>4. LeaseHolds(r)
      BY <3>2 DEF MayRun, Candidates, LeaseHolds
    <3>5. ~PollRaises(r)
      <4>1. ~CandidatesRaise(r, seen[r])
        BY <2>2, <3>2 DEF Raising
      <4>2. ~CallbackRaises(r)
        BY <2>2 DEF CallbackRaises
      <4> QED BY <4>1, <4>2 DEF PollRaises
    <3>6. Queue!Dispatched(queue, PollMayRun(r), Runnable, r).admitted = r
      BY <3>1, <3>3, SameOperations
    <3> QED BY <3>2, <3>4, <3>5, <3>6
  <2> QED BY <2>1, <2>2
<1> QED BY <1>1, InitInv, Inductive, LineInit, LineInductive, PTL DEF Spec
=============================================================================
