------------------------ MODULE HealthMonitor_proofs ------------------------
(***************************************************************************)
(* Proofs about HealthMonitor for every set of backends, thresholds and    *)
(* cooldown: the state machine keeps its hysteresis, so no backend comes   *)
(* back into routing within the cooldown of its latest failure, and every  *)
(* change of verdict is borne out by the outcomes the history still shows. *)
(***************************************************************************)
EXTENDS HealthMonitor, TLAPS

IInv == TypeOK /\ Hysteresis

\* The bounded history keeps its type whatever it forgets.
LEMMA RememberType ==
    ASSUME NEW past \in Seq([healthy : BOOLEAN, at : Nat]),
           NEW x \in [healthy : BOOLEAN, at : Nat]
    PROVE  Remember(past, x) \in Seq([healthy : BOOLEAN, at : Nat])
<1>1. CASE Len(past) < HistoryLength
  BY <1>1 DEF Remember
<1>2. CASE ~(Len(past) < HistoryLength)
  <2>1. past # << >>
    BY <1>2, ThresholdsAssumption
  <2> QED BY <1>2, <2>1 DEF Remember
<1> QED BY <1>1, <1>2

\* Logging a probe keeps the types and moves last_failure only on a failure.
LEMMA LogType ==
    ASSUME TypeOK, NEW b \in Backends, NEW healthy \in BOOLEAN, Log(b, healthy)
    PROVE  /\ history' \in [Backends -> Seq([healthy : BOOLEAN, at : Nat])]
           /\ last_failure' \in [Backends -> Nat \cup {Never}]
           /\ now' = now /\ now \in Nat
           /\ \A c \in Backends : last_failure'[c] =
                 IF c = b /\ ~healthy THEN now ELSE last_failure[c]
<1>1. [healthy |-> healthy, at |-> now] \in [healthy : BOOLEAN, at : Nat] /\ now \in Nat
  BY DEF TypeOK
<1>2. Remember(history[b], [healthy |-> healthy, at |-> now])
        \in Seq([healthy : BOOLEAN, at : Nat])
  BY <1>1, RememberType DEF TypeOK
<1>3. history' \in [Backends -> Seq([healthy : BOOLEAN, at : Nat])]
  BY <1>2 DEF Log, TypeOK
<1>4. last_failure' \in [Backends -> Nat \cup {Never}]
  BY <1>1 DEF Log, TypeOK
<1>5. \A c \in Backends : last_failure'[c] = IF c = b /\ ~healthy THEN now ELSE last_failure[c]
  BY DEF Log, TypeOK
<1> QED BY <1>1, <1>3, <1>4, <1>5 DEF Log

\* The invariant is inductive: one step for each outcome of a probe.
THEOREM Inductive == IInv /\ [Next]_vars => IInv'
<1> SUFFICES ASSUME IInv, [Next]_vars PROVE IInv'
  OBVIOUS
<1> USE DEF IInv
<1>0. FailureThreshold \in Nat \ {0} /\ RecoveryThreshold \in Nat \ {0} /\ Cooldown \in Nat
      /\ Never \notin Nat
  BY ThresholdsAssumption
<1>1. ASSUME NEW b \in Backends, ProbePasses(b) PROVE IInv'
  <2>1. /\ history' \in [Backends -> Seq([healthy : BOOLEAN, at : Nat])]
        /\ last_failure' \in [Backends -> Nat \cup {Never}] /\ now' = now
        /\ \A c \in Backends : last_failure'[c] = last_failure[c]
    BY <1>1, LogType DEF ProbePasses
  <2>2. TypeOK'
    BY <1>1, <2>1 DEF TypeOK, ProbePasses
  <2>3. Hysteresis'
    BY <1>0, <1>1, <2>1 DEF TypeOK, ProbePasses, Hysteresis
  <2> QED BY <2>2, <2>3
<1>2. ASSUME NEW b \in Backends, ProbeFails(b) PROVE IInv'
  <2>1. /\ history' \in [Backends -> Seq([healthy : BOOLEAN, at : Nat])]
        /\ last_failure' \in [Backends -> Nat \cup {Never}] /\ now' = now
        /\ \A c \in Backends : last_failure'[c] = IF c = b THEN now ELSE last_failure[c]
    BY <1>2, LogType DEF ProbeFails
  <2>2. TypeOK'
    <3>1. is_healthy' \in [Backends -> BOOLEAN]
      BY <1>2 DEF TypeOK, ProbeFails, OneTooMany
    <3>2. consecutive_failures' \in [Backends -> Nat]
      BY <1>2 DEF TypeOK, ProbeFails, OneTooMany
    <3>3. unhealthy_since' \in {unhealthy_since, [unhealthy_since EXCEPT ![b] = now]}
          /\ consecutive_successes' \in
               {consecutive_successes, [consecutive_successes EXCEPT ![b] = 0]}
      BY <1>2 DEF ProbeFails, OneTooMany
    <3>4. unhealthy_since' \in [Backends -> Nat \cup {Never}]
      <4>1. [unhealthy_since EXCEPT ![b] = now] \in [Backends -> Nat \cup {Never}]
        BY DEF TypeOK
      <4>2. unhealthy_since \in [Backends -> Nat \cup {Never}]
        BY DEF TypeOK
      <4> QED BY <3>3, <4>1, <4>2, Zenon
    <3>5. consecutive_successes' \in [Backends -> Nat]
      <4>1. [consecutive_successes EXCEPT ![b] = 0] \in [Backends -> Nat]
        BY DEF TypeOK
      <4>2. consecutive_successes \in [Backends -> Nat]
        BY DEF TypeOK
      <4> QED BY <3>3, <4>1, <4>2, Zenon
    <3>6. now' \in Nat
      BY <2>1 DEF TypeOK
    <3> QED BY <2>1, <3>1, <3>2, <3>4, <3>5, <3>6 DEF TypeOK
  <2>3. Hysteresis'
    BY <1>0, <1>2, <2>1 DEF TypeOK, ProbeFails, OneTooMany, Hysteresis
  <2> QED BY <2>2, <2>3
<1>3. ASSUME NEW b \in Backends, RelapseFails(b) PROVE IInv'
  <2>1. /\ history' \in [Backends -> Seq([healthy : BOOLEAN, at : Nat])]
        /\ last_failure' \in [Backends -> Nat \cup {Never}] /\ now' = now
        /\ \A c \in Backends : last_failure'[c] = IF c = b THEN now ELSE last_failure[c]
    BY <1>3, LogType DEF RelapseFails
  <2>2. TypeOK'
    BY <1>3, <2>1 DEF TypeOK, RelapseFails
  <2>3. Hysteresis'
    BY <1>0, <1>3, <2>1 DEF TypeOK, RelapseFails, Hysteresis
  <2> QED BY <2>2, <2>3
<1>4. ASSUME NEW b \in Backends, RecoveryPasses(b) PROVE IInv'
  <2>1. /\ history' \in [Backends -> Seq([healthy : BOOLEAN, at : Nat])]
        /\ last_failure' \in [Backends -> Nat \cup {Never}] /\ now' = now
        /\ \A c \in Backends : last_failure'[c] = last_failure[c]
    BY <1>4, LogType DEF RecoveryPasses
  <2>2. CASE Cooling(b)
    <3>1. UNCHANGED state
      BY <1>4, <2>2 DEF RecoveryPasses
    <3> QED BY <1>0, <2>1, <3>1 DEF TypeOK, Hysteresis, state
  <2>3. CASE ~Cooling(b) /\ consecutive_successes[b] + 1 < RecoveryThreshold
    <3>1. /\ consecutive_successes' = [consecutive_successes EXCEPT ![b] = @ + 1]
          /\ UNCHANGED <<is_healthy, consecutive_failures, unhealthy_since>>
      BY <1>4, <2>3 DEF RecoveryPasses
    <3>2. now >= last_failure[b] + Cooldown
      BY <1>0, <1>4, <2>3 DEF Cooling, RecoveryPasses, Hysteresis, TypeOK
    <3>3. TypeOK'
      BY <2>1, <3>1 DEF TypeOK
    <3>4. Hysteresis'
      BY <1>0, <1>4, <2>1, <2>3, <3>1, <3>2 DEF TypeOK, Hysteresis, RecoveryPasses
    <3> QED BY <3>3, <3>4
  <2>4. CASE ~Cooling(b) /\ ~(consecutive_successes[b] + 1 < RecoveryThreshold)
    <3>1. /\ is_healthy' = [is_healthy EXCEPT ![b] = TRUE]
          /\ consecutive_failures' = [consecutive_failures EXCEPT ![b] = 0]
          /\ consecutive_successes' = [consecutive_successes EXCEPT ![b] = 0]
          /\ unhealthy_since' = [unhealthy_since EXCEPT ![b] = Never]
      BY <1>4, <2>4 DEF RecoveryPasses
    <3>2. TypeOK'
      BY <2>1, <3>1 DEF TypeOK
    <3>3. Hysteresis'
      BY <1>0, <2>1, <3>1 DEF TypeOK, Hysteresis
    <3> QED BY <3>2, <3>3
  <2> QED BY <2>2, <2>3, <2>4
<1>5. CASE Tick
  <2>1. TypeOK'
    BY <1>5 DEF TypeOK, Tick, state
  <2>2. Hysteresis'
    BY <1>0, <1>5 DEF TypeOK, Tick, state, Hysteresis
  <2> QED BY <2>1, <2>2
<1>6. CASE UNCHANGED vars
  BY <1>6 DEF TypeOK, Hysteresis, vars, state
<1> QED BY <1>1, <1>2, <1>3, <1>4, <1>5, <1>6 DEF Next, Success, Failure

\* Types and hysteresis hold in every behaviour.
THEOREM HysteresisHolds == Spec => [](TypeOK /\ Hysteresis)
<1>1. Init => IInv
  BY ThresholdsAssumption DEF Init, IInv, TypeOK, Hysteresis
<1> QED BY <1>1, Inductive, PTL DEF Spec, IInv

-----------------------------------------------------------------------------
(* The counters are backed by the history: a verdict that changes is one the *)
(* latest outcomes show.                                                     *)

\* The last n outcomes of a history are failures.
LastFailed(past, n) ==
    /\ n <= Len(past)
    /\ \A i \in (Len(past) - n + 1)..Len(past) : ~past[i].healthy

\* The last n outcomes are successes of time t or later.
LastPassed(past, n, t) ==
    /\ n <= Len(past)
    /\ \A i \in (Len(past) - n + 1)..Len(past) : past[i].healthy /\ past[i].at >= t

\* The history holds as many outcomes as a verdict takes, as with the 20 that
\* BackendHealthState keeps and the thresholds 3 and 2 of main.py.
HistoryIsEnough ==
    FailureThreshold <= HistoryLength /\ RecoveryThreshold <= HistoryLength

Backed ==
    \A b \in Backends :
        /\ Len(history[b]) <= HistoryLength
        /\ IF is_healthy[b]
           THEN LastFailed(history[b], consecutive_failures[b])
           ELSE LastPassed(history[b], consecutive_successes[b], last_failure[b] + Cooldown)

\* The newest outcome is the last, and the ones before it stay in place, counted
\* from the end.
LEMMA RememberedAt ==
    ASSUME NEW S, NEW past \in Seq(S), Len(past) <= HistoryLength, NEW x \in S
    PROVE  LET next == Remember(past, x)
           IN  /\ Len(next) \in Nat /\ Len(next) <= HistoryLength
               /\ Len(next) = Len(past) + 1 \/ (Len(next) = Len(past) /\ Len(past) = HistoryLength)
               /\ next[Len(next)] = x
               /\ \A i \in 1..(Len(next) - 1) : next[i] = past[i + Len(past) + 1 - Len(next)]
<1>1. HistoryLength \in Nat \ {0}
  BY ThresholdsAssumption
<1>2. CASE Len(past) < HistoryLength
  BY <1>1, <1>2 DEF Remember
<1>3. CASE Len(past) = HistoryLength
  <2>1. past # << >>
    BY <1>1, <1>3
  <2>2. /\ Tail(past) \in Seq(S) /\ Len(Tail(past)) = Len(past) - 1
        /\ \A i \in 1..(Len(past) - 1) : Tail(past)[i] = past[i + 1]
    BY <2>1
  <2>3. Remember(past, x) = Append(Tail(past), x)
    BY <1>3 DEF Remember
  <2> QED BY <1>1, <1>3, <2>2, <2>3
<1> QED BY <1>1, <1>2, <1>3

LEMMA OneMoreFailed ==
    ASSUME NEW S, NEW past \in Seq(S), Len(past) <= HistoryLength, NEW x \in S,
           ~x.healthy, NEW n \in Nat, n < HistoryLength, LastFailed(past, n)
    PROVE  LastFailed(Remember(past, x), n + 1)
<1> DEFINE next == Remember(past, x)
<1>1. /\ Len(next) \in Nat /\ Len(next) <= HistoryLength
      /\ Len(next) = Len(past) + 1 \/ (Len(next) = Len(past) /\ Len(past) = HistoryLength)
      /\ next[Len(next)] = x
      /\ \A i \in 1..(Len(next) - 1) : next[i] = past[i + Len(past) + 1 - Len(next)]
  BY RememberedAt
<1> HIDE DEF next
<1>2. n + 1 <= Len(next)
  BY <1>1, ThresholdsAssumption DEF LastFailed
<1>3. ASSUME NEW i \in (Len(next) - (n + 1) + 1)..Len(next) PROVE ~next[i].healthy
  <2>1. CASE i = Len(next)
    BY <1>1, <2>1
  <2>2. CASE i # Len(next)
    <3>1. /\ i \in 1..(Len(next) - 1)
          /\ i + Len(past) + 1 - Len(next) \in (Len(past) - n + 1)..Len(past)
      BY <1>1, <1>2, <2>2
    <3> QED BY <1>1, <3>1 DEF LastFailed
  <2> QED BY <2>1, <2>2
<1> QED BY <1>2, <1>3 DEF LastFailed, next

LEMMA OneMorePassed ==
    ASSUME NEW S, NEW past \in Seq(S), Len(past) <= HistoryLength, NEW x \in S, NEW t \in Nat,
           x.healthy, x.at >= t, NEW n \in Nat, n < HistoryLength, LastPassed(past, n, t)
    PROVE  LastPassed(Remember(past, x), n + 1, t)
<1> DEFINE next == Remember(past, x)
<1>1. /\ Len(next) \in Nat /\ Len(next) <= HistoryLength
      /\ Len(next) = Len(past) + 1 \/ (Len(next) = Len(past) /\ Len(past) = HistoryLength)
      /\ next[Len(next)] = x
      /\ \A i \in 1..(Len(next) - 1) : next[i] = past[i + Len(past) + 1 - Len(next)]
  BY RememberedAt
<1> HIDE DEF next
<1>2. n + 1 <= Len(next)
  BY <1>1, ThresholdsAssumption DEF LastPassed
<1>3. ASSUME NEW i \in (Len(next) - (n + 1) + 1)..Len(next)
      PROVE  next[i].healthy /\ next[i].at >= t
  <2>1. CASE i = Len(next)
    BY <1>1, <2>1
  <2>2. CASE i # Len(next)
    <3>1. /\ i \in 1..(Len(next) - 1)
          /\ i + Len(past) + 1 - Len(next) \in (Len(past) - n + 1)..Len(past)
      BY <1>1, <1>2, <2>2
    <3> QED BY <1>1, <3>1 DEF LastPassed
  <2> QED BY <2>1, <2>2
<1> QED BY <1>2, <1>3 DEF LastPassed, next

LEMMA NoneAsked ==
    ASSUME NEW past, Len(past) \in Nat, NEW t
    PROVE  LastFailed(past, 0) /\ LastPassed(past, 0, t)
BY DEF LastFailed, LastPassed

\* What logging does to the histories.
LEMMA LogHistory ==
    ASSUME TypeOK, Backed, NEW b \in Backends, NEW healthy \in BOOLEAN, Log(b, healthy)
    PROVE  /\ history'[b] = Remember(history[b], [healthy |-> healthy, at |-> now])
           /\ Len(history'[b]) \in Nat /\ Len(history'[b]) <= HistoryLength
           /\ \A c \in Backends \ {b} : history'[c] = history[c]
<1>1. /\ history'[b] = Remember(history[b], [healthy |-> healthy, at |-> now])
      /\ \A c \in Backends \ {b} : history'[c] = history[c]
  BY DEF Log, TypeOK
<1> DEFINE Outcome == [healthy : BOOLEAN, at : Nat]
<1>2. /\ history[b] \in Seq(Outcome) /\ Len(history[b]) <= HistoryLength
      /\ [healthy |-> healthy, at |-> now] \in Outcome
  BY DEF TypeOK, Backed
<1> HIDE DEF Outcome
<1>3. /\ Len(Remember(history[b], [healthy |-> healthy, at |-> now])) \in Nat
      /\ Len(Remember(history[b], [healthy |-> healthy, at |-> now])) <= HistoryLength
  BY <1>2, RememberedAt
<1> QED BY <1>1, <1>3

\* A failure of a healthy backend: the run in the history is one longer.
LEMMA FailureBacked ==
    ASSUME IInv, Backed, HistoryIsEnough, NEW b \in Backends, ProbeFails(b)
    PROVE  LastFailed(history'[b], consecutive_failures[b] + 1)
<1>1. history'[b] = Remember(history[b], [healthy |-> FALSE, at |-> now])
  BY LogHistory DEF IInv, ProbeFails
<1>2. /\ history[b] \in Seq([healthy : BOOLEAN, at : Nat]) /\ Len(history[b]) <= HistoryLength
      /\ [healthy |-> FALSE, at |-> now] \in [healthy : BOOLEAN, at : Nat]
      /\ consecutive_failures[b] \in Nat
  BY DEF IInv, TypeOK, Backed
<1>3. LastFailed(history[b], consecutive_failures[b]) /\ consecutive_failures[b] < HistoryLength
  BY <1>2, ThresholdsAssumption DEF IInv, Hysteresis, Backed, HistoryIsEnough, ProbeFails
<1>4. ~[healthy |-> FALSE, at |-> now].healthy
  OBVIOUS
<1> QED BY <1>1, <1>2, <1>3, <1>4, OneMoreFailed

\* A success of an excluded backend after its cooldown: likewise.
LEMMA SuccessBacked ==
    ASSUME IInv, Backed, HistoryIsEnough, NEW b \in Backends, RecoveryPasses(b), ~Cooling(b)
    PROVE  LastPassed(history'[b], consecutive_successes[b] + 1, last_failure[b] + Cooldown)
<1>1. history'[b] = Remember(history[b], [healthy |-> TRUE, at |-> now])
  BY LogHistory DEF IInv, RecoveryPasses
<1>2. /\ history[b] \in Seq([healthy : BOOLEAN, at : Nat]) /\ Len(history[b]) <= HistoryLength
      /\ [healthy |-> TRUE, at |-> now] \in [healthy : BOOLEAN, at : Nat]
      /\ consecutive_successes[b] \in Nat /\ now \in Nat
  BY DEF IInv, TypeOK, Backed
<1>3. /\ ~is_healthy[b] /\ unhealthy_since[b] = last_failure[b] /\ last_failure[b] # Never
      /\ consecutive_successes[b] < RecoveryThreshold /\ last_failure[b] \in Nat
  BY DEF IInv, Hysteresis, RecoveryPasses, TypeOK
<1>4. now >= last_failure[b] + Cooldown /\ last_failure[b] + Cooldown \in Nat
  BY <1>2, <1>3, ThresholdsAssumption DEF Cooling
<1>5. /\ LastPassed(history[b], consecutive_successes[b], last_failure[b] + Cooldown)
      /\ consecutive_successes[b] < HistoryLength
  BY <1>2, <1>3, ThresholdsAssumption DEF Backed, HistoryIsEnough
<1>6. /\ [healthy |-> TRUE, at |-> now].healthy
      /\ [healthy |-> TRUE, at |-> now].at >= last_failure[b] + Cooldown
  BY <1>4
<1> QED BY <1>1, <1>2, <1>4, <1>5, <1>6, OneMorePassed

\* The step of one backend leaves what the others have.
LEMMA OthersBacked ==
    ASSUME Backed, NEW b \in Backends,
           \A c \in Backends \ {b} :
               /\ history'[c] = history[c] /\ is_healthy'[c] = is_healthy[c]
               /\ consecutive_failures'[c] = consecutive_failures[c]
               /\ consecutive_successes'[c] = consecutive_successes[c]
               /\ last_failure'[c] = last_failure[c],
           Len(history'[b]) <= HistoryLength,
           is_healthy'[b] => LastFailed(history'[b], consecutive_failures'[b]),
           ~is_healthy'[b] => LastPassed(history'[b], consecutive_successes'[b],
                                         last_failure'[b] + Cooldown)
    PROVE  Backed'
BY DEF Backed

LEMMA BackedInductive ==
    ASSUME IInv, Backed, HistoryIsEnough, [Next]_vars
    PROVE  Backed'
<1>0. TypeOK /\ Hysteresis
  BY DEF IInv
<1>1. ASSUME NEW b \in Backends, ProbePasses(b) PROVE Backed'
  <2>1. /\ Len(history'[b]) \in Nat /\ Len(history'[b]) <= HistoryLength
        /\ \A c \in Backends \ {b} : history'[c] = history[c]
        /\ \A c \in Backends : last_failure'[c] = last_failure[c]
    BY <1>0, <1>1, LogHistory, LogType DEF ProbePasses
  <2>2. /\ is_healthy' = is_healthy /\ is_healthy[b] /\ consecutive_failures'[b] = 0
        /\ consecutive_successes' = consecutive_successes
        /\ \A c \in Backends \ {b} : consecutive_failures'[c] = consecutive_failures[c]
    BY <1>0, <1>1 DEF ProbePasses, TypeOK
  <2>3. LastFailed(history'[b], consecutive_failures'[b])
    BY <2>1, <2>2, NoneAsked
  <2> QED BY <2>1, <2>2, <2>3, OthersBacked
<1>2. ASSUME NEW b \in Backends, ProbeFails(b) PROVE Backed'
  <2>1. /\ Len(history'[b]) \in Nat /\ Len(history'[b]) <= HistoryLength
        /\ \A c \in Backends \ {b} : history'[c] = history[c]
        /\ \A c \in Backends \ {b} : last_failure'[c] = last_failure[c]
    BY <1>0, <1>2, LogHistory, LogType DEF ProbeFails
  <2>2. /\ \A c \in Backends \ {b} :
              /\ is_healthy'[c] = is_healthy[c]
              /\ consecutive_failures'[c] = consecutive_failures[c]
              /\ consecutive_successes'[c] = consecutive_successes[c]
        /\ consecutive_failures'[b] = consecutive_failures[b] + 1
        /\ ~is_healthy'[b] => consecutive_successes'[b] = 0
    BY <1>0, <1>2 DEF ProbeFails, TypeOK
  <2>3. LastFailed(history'[b], consecutive_failures'[b])
    BY <1>2, <2>2, FailureBacked
  <2>4. ~is_healthy'[b] => LastPassed(history'[b], consecutive_successes'[b],
                                      last_failure'[b] + Cooldown)
    BY <2>1, <2>2, NoneAsked
  <2> QED BY <2>1, <2>2, <2>3, <2>4, OthersBacked
<1>3. ASSUME NEW b \in Backends, RelapseFails(b) PROVE Backed'
  <2>1. /\ Len(history'[b]) \in Nat /\ Len(history'[b]) <= HistoryLength
        /\ \A c \in Backends \ {b} : history'[c] = history[c]
        /\ \A c \in Backends \ {b} : last_failure'[c] = last_failure[c]
    BY <1>0, <1>3, LogHistory, LogType DEF RelapseFails
  <2>2. /\ is_healthy' = is_healthy /\ ~is_healthy[b] /\ consecutive_successes'[b] = 0
        /\ consecutive_failures' = consecutive_failures
        /\ \A c \in Backends \ {b} : consecutive_successes'[c] = consecutive_successes[c]
    BY <1>0, <1>3 DEF RelapseFails, TypeOK
  <2>3. LastPassed(history'[b], consecutive_successes'[b], last_failure'[b] + Cooldown)
    BY <2>1, <2>2, NoneAsked
  <2> QED BY <2>1, <2>2, <2>3, OthersBacked
<1>4. ASSUME NEW b \in Backends, RecoveryPasses(b) PROVE Backed'
  <2>1. /\ Len(history'[b]) \in Nat /\ Len(history'[b]) <= HistoryLength
        /\ \A c \in Backends \ {b} : history'[c] = history[c]
        /\ \A c \in Backends : last_failure'[c] = last_failure[c]
    BY <1>0, <1>4, LogHistory, LogType DEF RecoveryPasses
  <2>2. CASE Cooling(b)
    <3>1. UNCHANGED state /\ ~is_healthy[b]
      BY <1>4, <2>2 DEF RecoveryPasses
    <3>2. consecutive_successes[b] = 0
      <4>1. /\ unhealthy_since[b] = last_failure[b] /\ last_failure[b] # Never
            /\ consecutive_successes[b] > 0 => now >= last_failure[b] + Cooldown
        BY <1>0, <3>1 DEF Hysteresis
      <4>2. /\ last_failure[b] \in Nat /\ now \in Nat /\ Cooldown \in Nat
            /\ consecutive_successes[b] \in Nat
        BY <1>0, <4>1, ThresholdsAssumption DEF TypeOK
      <4> QED BY <2>2, <4>1, <4>2 DEF Cooling
    <3>3. LastPassed(history'[b], consecutive_successes'[b], last_failure'[b] + Cooldown)
      BY <2>1, <3>1, <3>2, NoneAsked DEF state
    <3> QED BY <2>1, <3>1, <3>3, OthersBacked DEF state
  <2>3. CASE ~Cooling(b) /\ consecutive_successes[b] + 1 < RecoveryThreshold
    <3>1. /\ consecutive_successes' = [consecutive_successes EXCEPT ![b] = @ + 1]
          /\ UNCHANGED <<is_healthy, consecutive_failures, unhealthy_since>> /\ ~is_healthy[b]
      BY <1>4, <2>3 DEF RecoveryPasses
    <3>2. /\ consecutive_successes'[b] = consecutive_successes[b] + 1
          /\ \A c \in Backends \ {b} : consecutive_successes'[c] = consecutive_successes[c]
      BY <1>0, <3>1 DEF TypeOK
    <3>3. LastPassed(history'[b], consecutive_successes'[b], last_failure'[b] + Cooldown)
      BY <1>4, <2>1, <2>3, <3>2, SuccessBacked
    <3> QED BY <2>1, <3>1, <3>2, <3>3, OthersBacked
  <2>4. CASE ~Cooling(b) /\ ~(consecutive_successes[b] + 1 < RecoveryThreshold)
    <3>1. /\ is_healthy' = [is_healthy EXCEPT ![b] = TRUE]
          /\ consecutive_failures' = [consecutive_failures EXCEPT ![b] = 0]
          /\ consecutive_successes' = [consecutive_successes EXCEPT ![b] = 0]
      BY <1>4, <2>4 DEF RecoveryPasses
    <3>2. /\ is_healthy'[b] /\ consecutive_failures'[b] = 0
          /\ \A c \in Backends \ {b} :
                /\ is_healthy'[c] = is_healthy[c]
                /\ consecutive_failures'[c] = consecutive_failures[c]
                /\ consecutive_successes'[c] = consecutive_successes[c]
      BY <1>0, <3>1 DEF TypeOK
    <3>3. LastFailed(history'[b], consecutive_failures'[b])
      BY <2>1, <3>2, NoneAsked
    <3> QED BY <2>1, <3>2, <3>3, OthersBacked
  <2> QED BY <2>2, <2>3, <2>4
<1>5. CASE Tick
  BY <1>5 DEF Tick, state, Backed
<1>6. CASE UNCHANGED vars
  BY <1>6 DEF vars, state, Backed
<1> QED BY <1>1, <1>2, <1>3, <1>4, <1>5, <1>6 DEF Next, Success, Failure

\* A verdict that turns is one the history shows, before and after the step.
LEMMA TurnsDown ==
    ASSUME IInv, Backed, HistoryIsEnough, [Next]_vars,
           NEW b \in Backends, is_healthy[b], ~is_healthy'[b]
    PROVE  LastFailed(history'[b], FailureThreshold)
<1>1. PICK c \in Backends : ProbeFails(c)
  BY DEF Next, Success, Failure, ProbePasses, RelapseFails, RecoveryPasses, Tick, vars, state,
         IInv, TypeOK
<1>2. c = b /\ OneTooMany(b)
  BY <1>1 DEF ProbeFails, IInv, TypeOK
<1>3. consecutive_failures[b] + 1 = FailureThreshold
  <2>1. consecutive_failures[b] < FailureThreshold /\ consecutive_failures[b] \in Nat
    BY DEF IInv, TypeOK, Hysteresis
  <2> QED BY <1>2, <2>1, ThresholdsAssumption DEF OneTooMany
<1> QED BY <1>1, <1>2, <1>3, FailureBacked

LEMMA TurnsUp ==
    ASSUME IInv, Backed, HistoryIsEnough, [Next]_vars,
           NEW b \in Backends, ~is_healthy[b], is_healthy'[b]
    PROVE  LastPassed(history'[b], RecoveryThreshold, last_failure'[b] + Cooldown)
<1>1. PICK c \in Backends : RecoveryPasses(c)
  BY DEF Next, Success, Failure, ProbePasses, ProbeFails, OneTooMany, RelapseFails,
         Tick, vars, state, IInv, TypeOK
<1>2. /\ ~Cooling(c) /\ ~(consecutive_successes[c] + 1 < RecoveryThreshold)
      /\ is_healthy' = [is_healthy EXCEPT ![c] = TRUE]
  BY <1>1 DEF RecoveryPasses, state
<1>3. c = b
  BY <1>2 DEF IInv, TypeOK
<1>4. consecutive_successes[b] + 1 = RecoveryThreshold
  BY <1>2, <1>3, ThresholdsAssumption DEF IInv, TypeOK, Hysteresis
<1>5. last_failure'[b] = last_failure[b]
  BY <1>1, <1>3, LogType DEF IInv, RecoveryPasses
<1> QED BY <1>1, <1>2, <1>3, <1>4, <1>5, SuccessBacked

\* For any thresholds that the history is long enough to show: a backend is
\* excluded only after failure_threshold failures in a row, and readmitted only
\* after recovery_threshold successes in a row, all of them past the cooldown of
\* its latest failure.
THEOREM VerdictTheorem == HistoryIsEnough => (Spec => VerdictEarned)
<1> SUFFICES ASSUME HistoryIsEnough PROVE Spec => VerdictEarned
  OBVIOUS
<1>1. Init => Backed
  <2> SUFFICES ASSUME Init, NEW b \in Backends
               PROVE  /\ Len(history[b]) <= HistoryLength
                      /\ is_healthy[b] /\ LastFailed(history[b], consecutive_failures[b])
    BY DEF Backed
  <2>1. is_healthy[b] /\ history[b] = << >> /\ consecutive_failures[b] = 0
    BY DEF Init
  <2>2. Len(<< >>) = 0
    OBVIOUS
  <2> QED BY <2>1, <2>2, NoneAsked, ThresholdsAssumption
<1>2. IInv /\ Backed /\ [Next]_vars => Backed'
  BY BackedInductive
<1>3. Spec => []IInv
  BY HysteresisHolds, PTL DEF IInv
<1>4. IInv /\ Backed /\ [Next]_vars =>
        [\A b \in Backends :
           /\ is_healthy[b] /\ ~is_healthy'[b] =>
                LastAll(b, FailureThreshold, LAMBDA p : ~p.healthy)'
           /\ ~is_healthy[b] /\ is_healthy'[b] =>
                LastAll(b, RecoveryThreshold,
                        LAMBDA p : p.healthy /\ p.at >= last_failure[b] + Cooldown)']_vars
  <2> SUFFICES ASSUME IInv, Backed, [Next]_vars, NEW b \in Backends
               PROVE  /\ is_healthy[b] /\ ~is_healthy'[b] =>
                           LastAll(b, FailureThreshold, LAMBDA p : ~p.healthy)'
                      /\ ~is_healthy[b] /\ is_healthy'[b] =>
                           LastAll(b, RecoveryThreshold,
                                   LAMBDA p : p.healthy /\ p.at >= last_failure[b] + Cooldown)'
    OBVIOUS
  <2>1. IInv' /\ Len(history'[b]) \in Nat
    BY Inductive DEF IInv, TypeOK
  <2>2. ASSUME is_healthy[b], ~is_healthy'[b]
        PROVE  LastAll(b, FailureThreshold, LAMBDA p : ~p.healthy)'
    BY <2>1, <2>2, TurnsDown, ThresholdsAssumption DEF LastFailed, LastAll
  <2>3. ASSUME ~is_healthy[b], is_healthy'[b]
        PROVE  LastAll(b, RecoveryThreshold,
                       LAMBDA p : p.healthy /\ p.at >= last_failure[b] + Cooldown)'
    BY <2>1, <2>3, TurnsUp, ThresholdsAssumption DEF LastPassed, LastAll
  <2> QED BY <2>2, <2>3
<1> QED BY <1>1, <1>2, <1>3, <1>4, PTL DEF Spec, VerdictEarned
=============================================================================
