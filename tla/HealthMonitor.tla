---------------------------- MODULE HealthMonitor ----------------------------
(***************************************************************************)
(* HealthMonitor (health/monitor.py): the verdict on each backend, fed by  *)
(* the poller, by /health/ready and by the outcome of every request.  A    *)
(* backend turns unhealthy after a run of failures and healthy again after *)
(* a run of successes that begins once a cooldown has passed.              *)
(***************************************************************************)
EXTENDS Integers, Sequences

CONSTANTS Backends,
          FailureThreshold,    \* failure_threshold (3)
          RecoveryThreshold,   \* recovery_threshold (2)
          Cooldown,            \* cooldown (30 s)
          HistoryLength,       \* maxlen of BackendHealthState.history (20)
          Never,               \* None
          Horizon              \* bound: the clock stops here

ASSUME ThresholdsAssumption ==
    /\ FailureThreshold \in Nat \ {0}
    /\ RecoveryThreshold \in Nat \ {0}
    /\ Cooldown \in Nat
    /\ HistoryLength \in Nat \ {0}
    /\ Horizon \in Nat
    /\ Never \notin Nat

VARIABLES is_healthy,              \* the fields of BackendHealthState,
          consecutive_failures,    \* each a function of the backend
          consecutive_successes,
          unhealthy_since,
          history,                 \* the last outcomes; their times are auxiliary
          last_failure,            \* when the backend last failed a probe, ever
          now

state == <<is_healthy, consecutive_failures, consecutive_successes, unhealthy_since>>
vars == <<state, history, last_failure, now>>

Init ==
    /\ is_healthy = [b \in Backends |-> TRUE]
    /\ consecutive_failures = [b \in Backends |-> 0]
    /\ consecutive_successes = [b \in Backends |-> 0]
    /\ unhealthy_since = [b \in Backends |-> Never]
    /\ history = [b \in Backends |-> << >>]
    /\ last_failure = [b \in Backends |-> Never]
    /\ now = 0

\* A deque with maxlen forgets its oldest element.
Remember(past, outcome) ==
    Append(IF Len(past) < HistoryLength THEN past ELSE Tail(past), outcome)

\* The part of record_probe that every probe goes through.
Log(b, healthy) ==
    /\ history' = [history EXCEPT ![b] = Remember(@, [healthy |-> healthy, at |-> now])]
    /\ last_failure' = IF healthy THEN last_failure ELSE [last_failure EXCEPT ![b] = now]
    /\ UNCHANGED now

------------------------------------------------------------------------------
\* Mutant: a success does not end the run of failures.
ProbePasses_KeepsCount(b) ==
    /\ is_healthy[b]
    /\ Log(b, TRUE)
    /\ UNCHANGED state

\* record_probe on a healthy backend: a success ends the run of failures.
ProbePasses(b) ==
    /\ is_healthy[b]
    /\ Log(b, TRUE)
    /\ consecutive_failures' = [consecutive_failures EXCEPT ![b] = 0]
    /\ UNCHANGED <<is_healthy, consecutive_successes, unhealthy_since>>

\* The failure that excludes the backend.
OneTooMany(b) == consecutive_failures[b] + 1 >= FailureThreshold

\* record_probe on a healthy backend: a failure, which may be one too many.
ProbeFails(b) ==
    /\ is_healthy[b]
    /\ now + Cooldown <= Horizon
    /\ Log(b, FALSE)
    /\ consecutive_failures' = [consecutive_failures EXCEPT ![b] = @ + 1]
    /\ IF OneTooMany(b)
       THEN /\ is_healthy' = [is_healthy EXCEPT ![b] = FALSE]
            /\ unhealthy_since' = [unhealthy_since EXCEPT ![b] = now]
            /\ consecutive_successes' = [consecutive_successes EXCEPT ![b] = 0]
       ELSE UNCHANGED <<is_healthy, unhealthy_since, consecutive_successes>>

\* _update_unhealthy_state: a failure restarts the cooldown.
RelapseFails(b) ==
    /\ ~is_healthy[b]
    /\ now + Cooldown <= Horizon
    /\ Log(b, FALSE)
    /\ consecutive_successes' = [consecutive_successes EXCEPT ![b] = 0]
    /\ unhealthy_since' = [unhealthy_since EXCEPT ![b] = now]
    /\ UNCHANGED <<is_healthy, consecutive_failures>>

\* Mutant: the cooldown is over one tick early.
Cooling_Short(b) == unhealthy_since[b] = Never \/ now + 1 < unhealthy_since[b] + Cooldown

\* Mutant: the end of the cooldown is computed from the present.
Cooling_Moving(b) == unhealthy_since[b] = Never \/ now < now + Cooldown

\* _update_unhealthy_state: a success counts only once the cooldown is over.
Cooling(b) == unhealthy_since[b] = Never \/ now < unhealthy_since[b] + Cooldown

RecoveryPasses(b) ==
    /\ ~is_healthy[b]
    /\ Log(b, TRUE)
    /\ CASE Cooling(b) -> UNCHANGED state
         [] ~Cooling(b) /\ consecutive_successes[b] + 1 < RecoveryThreshold ->
              /\ consecutive_successes' = [consecutive_successes EXCEPT ![b] = @ + 1]
              /\ UNCHANGED <<is_healthy, consecutive_failures, unhealthy_since>>
         [] OTHER ->
              /\ is_healthy' = [is_healthy EXCEPT ![b] = TRUE]
              /\ consecutive_failures' = [consecutive_failures EXCEPT ![b] = 0]
              /\ consecutive_successes' = [consecutive_successes EXCEPT ![b] = 0]
              /\ unhealthy_since' = [unhealthy_since EXCEPT ![b] = Never]

Tick == now < Horizon /\ now' = now + 1 /\ UNCHANGED <<state, history, last_failure>>

Success(b) == ProbePasses(b) \/ RecoveryPasses(b)
Failure(b) == ProbeFails(b) \/ RelapseFails(b)

Next == Tick \/ \E b \in Backends : Success(b) \/ Failure(b)

Spec == Init /\ [][Next]_vars

\* Time passes, and the poller keeps probing a backend that answers.
FairSpec == Spec /\ WF_vars(Tick) /\ \A b \in Backends : WF_vars(Success(b))

------------------------------------------------------------------------------
TypeOK ==
    /\ is_healthy \in [Backends -> BOOLEAN]
    /\ consecutive_failures \in [Backends -> Nat]
    /\ consecutive_successes \in [Backends -> Nat]
    /\ unhealthy_since \in [Backends -> Nat \cup {Never}]
    /\ history \in [Backends -> Seq([healthy : BOOLEAN, at : Nat])]
    /\ last_failure \in [Backends -> Nat \cup {Never}]
    /\ now \in Nat

\* An excluded backend counts its cooldown from its latest failure, whichever
\* caller reported it, and neither counter ever passes its threshold unseen.
Hysteresis ==
    \A b \in Backends :
        IF is_healthy[b]
        THEN /\ unhealthy_since[b] = Never
             /\ consecutive_successes[b] = 0
             /\ consecutive_failures[b] < FailureThreshold
        ELSE /\ unhealthy_since[b] = last_failure[b]
             /\ last_failure[b] # Never
             /\ consecutive_successes[b] < RecoveryThreshold
             /\ consecutive_successes[b] > 0 => now >= last_failure[b] + Cooldown

\* The last n outcomes of a backend, if there have been n, satisfy P.
LastAll(b, n, P(_)) ==
    /\ Len(history[b]) >= n
    /\ \A i \in Len(history[b]) - n + 1 .. Len(history[b]) : P(history[b][i])

\* The verdict changes only when the last probes earned it: to unhealthy after
\* failure_threshold failures in a row, to healthy after recovery_threshold
\* successes in a row that all came after the cooldown of the latest failure.
VerdictEarned ==
    [][\A b \in Backends :
         /\ is_healthy[b] /\ ~is_healthy'[b] =>
              LastAll(b, FailureThreshold, LAMBDA p : ~p.healthy)'
         /\ ~is_healthy[b] /\ is_healthy'[b] =>
              LastAll(b, RecoveryThreshold,
                      LAMBDA p : p.healthy /\ p.at >= last_failure[b] + Cooldown)']_vars

\* A backend whose failures stop comes back.
Recovers == \A b \in Backends : ~is_healthy[b] ~> is_healthy[b]
==============================================================================
