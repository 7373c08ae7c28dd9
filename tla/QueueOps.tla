------------------------------ MODULE QueueOps ------------------------------
(***************************************************************************)
(* The data structure of SchedulingQueue (scheduling/queue.py) and its     *)
(* methods as operators on it.  A tier is one priority: a queue per        *)
(* session and the rotation of the sessions that have one.  A session      *)
(* missing from a tier's dictionary is one whose queue is empty.           *)
(***************************************************************************)
EXTENDS Integers, SequencesExt

CONSTANTS Priorities,   \* integers; the lowest dispatches first
          Sessions,
          Nothing       \* None: dispatch admitted nobody

EmptyQueue ==
    [tiers     |-> [p \in Priorities |-> [s \in Sessions |-> << >>]],
     rotations |-> [p \in Priorities |-> << >>]]

\* enqueue: last of its session, which joins the rotation if it was absent.
Enqueued(q, r, s, p) ==
    [tiers     |-> [q.tiers EXCEPT ![p][s] = Append(@, r)],
     rotations |-> IF q.tiers[p][s] = << >>
                   THEN [q.rotations EXCEPT ![p] = Append(@, s)]
                   ELSE q.rotations]

\* Mutant: a session left without requests stays in the rotation.
Cancelled_KeepsRotation(q, r, s, p) ==
    [q EXCEPT !.tiers[p][s] = RemoveFirst(@, r)]

\* cancel: the entries of r go (request ids are fresh, there is at most one); a
\* session left without requests leaves the rotation.
Cancelled(q, r, s, p) ==
    LET remaining == RemoveFirst(q.tiers[p][s], r)
    IN  IF remaining = q.tiers[p][s]
        THEN q
        ELSE [tiers     |-> [q.tiers EXCEPT ![p][s] = remaining],
              rotations |-> IF remaining = << >>
                            THEN [q.rotations EXCEPT ![p] = RemoveFirst(@, s)]
                            ELSE q.rotations]

HeadOf(q, p, i) == Head(q.tiers[p][q.rotations[p][i]])

\* The places <<priority, position in the rotation>> whose first request may
\* use a host that is free.
Admissible(q, runnable) ==
    {place \in UNION {{p} \X DOMAIN q.rotations[p] : p \in Priorities} :
        HeadOf(q, place[1], place[2]) \in runnable}

\* The place dispatch reaches first: lowest priority, then rotation order.
FirstPlace(places) ==
    CHOOSE a \in places : \A b \in places :
        a[1] < b[1] \/ (a[1] = b[1] /\ a[2] <= b[2])

\* Mutant: a session that has more requests keeps its place.
Popped_KeepsPlace(q, p, i) ==
    LET s == q.rotations[p][i]
        rest == Tail(q.tiers[p][s])
    IN  [tiers     |-> [q.tiers EXCEPT ![p][s] = rest],
         rotations |-> [q.rotations EXCEPT ![p] =
                            IF rest = << >> THEN RemoveFirst(@, s) ELSE @]]

\* The entry is popped; its session goes to the back, or leaves when empty.
Popped(q, p, i) ==
    LET s == q.rotations[p][i]
        rest == Tail(q.tiers[p][s])
        others == RemoveFirst(q.rotations[p], s)
    IN  [tiers     |-> [q.tiers EXCEPT ![p][s] = rest],
         rotations |-> [q.rotations EXCEPT ![p] =
                            IF rest = << >> THEN others ELSE Append(others, s)]]

\* dispatch: callerMayRun is the first check, on the hosts the caller named;
\* runnable are the requests with a free host among those they may use; wanted
\* is the only request the caller may remove, or Nothing for any.
Dispatched(q, callerMayRun, runnable, wanted) ==
    LET places == Admissible(q, runnable)
        place == FirstPlace(places)
        r == HeadOf(q, place[1], place[2])
    IN  IF callerMayRun /\ places # {} /\ (wanted = Nothing \/ wanted = r)
        THEN [queue |-> Popped(q, place[1], place[2]), admitted |-> r]
        ELSE [queue |-> q, admitted |-> Nothing]

\* Everything that waits.
Waiting(q) ==
    UNION {ToSet(q.tiers[p][s]) : p \in Priorities, s \in Sessions}

\* What the methods rely on: the rotation lists each session that waits once,
\* and no request waits twice.
WellFormed(q) ==
    /\ \A p \in Priorities :
         /\ ToSet(q.rotations[p]) = {s \in Sessions : q.tiers[p][s] # << >>}
         /\ IsInjective(q.rotations[p])
    /\ \A p1, p2 \in Priorities : \A s1, s2 \in Sessions :
         \A i \in DOMAIN q.tiers[p1][s1], j \in DOMAIN q.tiers[p2][s2] :
            q.tiers[p1][s1][i] = q.tiers[p2][s2][j] => p1 = p2 /\ s1 = s2 /\ i = j
=============================================================================
