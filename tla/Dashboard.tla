------------------------------- MODULE Dashboard -------------------------------
(***************************************************************************)
(* The operator dashboard (tui/app.py) against the orchestrator's node      *)
(* list.  Two tasks share the dashboard's state: the timer, which polls,    *)
(* and the operator's key presses, each of which ends in a poll of its own. *)
(* Either may run while the other awaits the orchestrator or the terminal.  *)
(* Other clients register, remove and reorder nodes meanwhile.  What a row  *)
(* says of a node (load, rates, tokens) is left out; where it stands and    *)
(* which node a key press acts on is the subject.                           *)
(***************************************************************************)
EXTENDS Integers, Sequences, FiniteSets, SequencesExt

CONSTANTS
    Hosts,
    InitialNodes, \* the nodes registered when the dashboard starts, in their order
    None,
    OtherPlaces,  \* positions other clients give to nodes
    MaxChanges,   \* bound: changes other clients make to the node list
    MaxFailures,  \* bound: requests that fail and answers that do not parse
    MaxKeys       \* bound: keys the operator presses

ASSUME DashboardAssumption ==
    /\ IsFiniteSet(Hosts) /\ None \notin Hosts \cup Nat
    /\ InitialNodes \in SetToAllKPermutations(Hosts)
    /\ OtherPlaces \subseteq Nat
    /\ {MaxChanges, MaxFailures, MaxKeys} \subseteq Nat

Tasks == {"timer", "keys"}

VARIABLES
    registered,  \* the orchestrator's hosts in the order of registration
    position,    \* the position of a host, or None
    rows,        \* the hosts of the table on the screen
    order,       \* _node_row_order
    nodes,       \* _nodes_by_id: the position each known host was listed with
    cursor,      \* cursor_row, from 1
    sorted,      \* a sort column is set
    polling,     \* _poll_in_progress
    pc,          \* what each task awaits
    answer,      \* the node list a poll was given
    tracked,     \* _node_group_ids
    mounted,     \* the chart groups on the screen, in their order
    ready,       \* the groups whose label and chart exist
    group,       \* the chart group a poll awaits
    job,         \* the last key press that acts on nodes
    alive,       \* no exception has taken the app down
    left,        \* what the bounds leave: changes, failures, keys
    \* History, read by properties only:
    chosen,      \* the node the operator last pointed at
    moved,       \* a finished move has not been rendered yet
    shifted,     \* nodes came or went on the screen during a move
    quiet        \* the move in progress started from the list as it is

server == <<registered, position>>
table == <<rows, order, nodes, cursor>>
groups == <<tracked, mounted, ready, group>>
history == <<chosen, moved, shifted, quiet>>
vars == <<server, table, sorted, polling, pc, answer, groups, job, alive, left, history>>

Go(t, where) == pc' = [pc EXCEPT ![t] = where]
Spend(what) == left[what] > 0 /\ left' = [left EXCEPT ![what] = @ - 1]
IndexOf(s, x) == CHOOSE i \in DOMAIN s : s[i] = x
Moving == pc["keys"] \in {"patching", "patched"}

--------------------------------------------------------------------------------
(* The orchestrator.                                                       *)

\* Positioned hosts first, by position; the rest as they were registered.
ListedBefore(i, j) ==
    LET p == position[registered[i]]  q == position[registered[j]] IN
    IF p = None \/ q = None THEN p # None \/ (q = None /\ i < j)
    ELSE p < q \/ (p = q /\ i < j)
Place(i) == Cardinality({j \in DOMAIN registered : ListedBefore(j, i)}) + 1
ListNodes ==
    [k \in DOMAIN registered |-> registered[CHOOSE i \in DOMAIN registered : Place(i) = k]]

\* A registration keeps the place of a host that is known already.
Registered(h) == IF h \in ToSet(registered) THEN registered ELSE Append(registered, h)

\* Another client registers h, without a position, or changes its position.
OtherRegisters(h) ==
    /\ Spend("changes")
    /\ registered' = Registered(h)
    /\ position' = [position EXCEPT ![h] = None]
    /\ quiet' = FALSE
    /\ UNCHANGED <<table, sorted, polling, pc, answer, groups, job, alive, chosen, moved, shifted>>

OtherPositions(h, p) ==
    /\ Spend("changes")
    /\ h \in ToSet(registered)
    /\ position' = [position EXCEPT ![h] = p]
    /\ quiet' = FALSE
    /\ UNCHANGED <<registered, table, sorted, polling, pc, answer, groups, job, alive, chosen,
                   moved, shifted>>

OtherRemoves(h) ==
    /\ Spend("changes")
    /\ h \in ToSet(registered)
    /\ registered' = RemoveFirst(registered, h)
    /\ position' = [position EXCEPT ![h] = None]
    /\ quiet' = FALSE
    /\ UNCHANGED <<table, sorted, polling, pc, answer, groups, job, alive, chosen, moved, shifted>>

--------------------------------------------------------------------------------
(* A poll, by the timer or at the end of a key press.                      *)

\* Mutant: the flag is not looked at.
Busy_Never == FALSE

Busy == polling

\* poll(): a task that finds a poll in progress does not wait for it.
PollBegins(t) ==
    IF Busy
    THEN Go(t, "idle") /\ UNCHANGED polling
    ELSE Go(t, "fetching") /\ polling' = TRUE

TimerTicks ==
    /\ alive
    /\ pc["timer"] = "idle" /\ ~Busy
    /\ PollBegins("timer")
    /\ UNCHANGED <<server, table, sorted, answer, groups, job, alive, left, history>>

\* Both requests are answered; the answer is on its way to the dashboard.
Answered(t) ==
    /\ pc[t] = "fetching"
    /\ answer' = [answer EXCEPT ![t] = [list |-> ListNodes, position |-> position]]
    /\ Go(t, "answered")
    /\ UNCHANGED <<server, table, sorted, polling, groups, job, alive, left, history>>

\* Mutant: the flag is not reset.
PollEnds_Stuck(t) == /\ Go(t, "idle")
                     /\ answer' = [answer EXCEPT ![t] = None]
                     /\ UNCHANGED polling

\* The finally of poll().
PollEnds(t) ==
    /\ Go(t, "idle")
    /\ answer' = [answer EXCEPT ![t] = None]
    /\ polling' = FALSE

\* Either request fails or times out: a banner, and the screen stays as it was.
PollFails(t) ==
    /\ pc[t] \in {"fetching", "answered"}
    /\ Spend("failures")
    /\ PollEnds(t)
    /\ UNCHANGED <<server, table, sorted, groups, job, alive, history>>

\* The order of the rows: a column sort may give any, the values decide.
DisplayOrder(list) == IF sorted THEN SetToSeqs(ToSet(list)) ELSE {list}

\* The host the cursor is on before the table is cleared.
Selected == IF rows # <<>> /\ cursor <= Len(order) THEN order[cursor] ELSE None

\* Mutant: clearing the table loses the cursor.
CursorAfter_First(shown) == 1

CursorAfter(shown) == IF Selected \in ToSet(shown) THEN IndexOf(shown, Selected) ELSE 1

\* Mutant: the order is not emptied before the rows are drawn.
KnownOrder_Grows(t, shown) == order \o SelectSeq(shown, LAMBDA h : h \notin ToSet(order))

\* Mutant: the order remembered is the persisted one, not the one shown.
KnownOrder_Manual(t, shown) == SelectSeq(answer[t].list, LAMBDA h : h \in ToSet(shown))

\* What _node_row_order becomes: the hosts in the order of the rows.
KnownOrder(t, shown) == shown

\* What the table, the order and the known nodes become when shown is drawn.
Drawn(t, shown) ==
    /\ rows' = shown
    /\ order' = KnownOrder(t, shown)
    /\ nodes' = [h \in ToSet(shown) |-> answer[t].position[h]]
    /\ shifted' = (shifted \/ (Moving /\ ToSet(shown) # ToSet(job.order)))
    /\ moved' = FALSE

\* _render_nodes, when every row can be drawn.
AllDrawn(t) ==
    \E shown \in DisplayOrder(answer[t].list) :
        /\ Drawn(t, shown)
        /\ cursor' = CursorAfter(shown)
        /\ chosen' = IF chosen \in ToSet(shown) THEN chosen ELSE None

\* _render_nodes, up to the first await of _render_load_sparklines.
RendersNodes(t) ==
    /\ pc[t] = "answered"
    /\ AllDrawn(t)
    /\ Go(t, "groups")
    /\ UNCHANGED <<server, sorted, polling, answer, groups, job, alive, left, quiet>>

\* The rows are drawn and the load of a host cannot be computed: the charts stay
\* as they were, and the exception is caught.
ChartsFail(t) ==
    /\ pc[t] = "answered"
    /\ Spend("failures")
    /\ AllDrawn(t)
    /\ PollEnds(t)
    /\ UNCHANGED <<server, sorted, groups, job, alive, quiet>>

\* A value of a row cannot be read: the rows before it are drawn, the cursor is
\* at the top, and the exception is caught.  Nothing is promised of the cursor then.
RenderFails(t) ==
    /\ pc[t] = "answered"
    /\ Spend("failures")
    /\ \E shown \in DisplayOrder(answer[t].list) : \E k \in 0..Len(shown) :
        /\ k < Len(shown) \/ k = 0
        /\ Drawn(t, SubSeq(shown, 1, k))
    /\ chosen' = None
    /\ cursor' = 1
    /\ PollEnds(t)
    /\ UNCHANGED <<server, sorted, groups, job, alive, quiet>>

\* The chart group of a host that is gone: forgotten, then taken off the screen.
Unmounts(t, h) ==
    /\ pc[t] = "groups"
    /\ h \in tracked \ ToSet(answer[t].list)
    /\ tracked' = tracked \ {h}
    /\ group' = [group EXCEPT ![t] = h]
    /\ Go(t, "removing")
    /\ UNCHANGED <<server, table, sorted, polling, answer, mounted, ready, job, alive, left, history>>

Unmounted(t) ==
    /\ pc[t] = "removing"
    /\ mounted' = SelectSeq(mounted, LAMBDA h : h # group[t])
    /\ ready' = ready \ {group[t]}
    /\ group' = [group EXCEPT ![t] = None]
    /\ Go(t, "groups")
    /\ UNCHANGED <<server, table, sorted, polling, answer, tracked, job, alive, left, history>>

\* The group of a new host: tracked and on the screen at once, its label and
\* chart once the mount has been awaited.
Mounts(t, h) ==
    /\ pc[t] = "groups"
    /\ tracked \subseteq ToSet(answer[t].list)
    /\ \E i \in DOMAIN answer[t].list :
        /\ h = answer[t].list[i] /\ h \notin tracked
        /\ \A j \in 1..(i - 1) : answer[t].list[j] \in tracked
    /\ tracked' = tracked \cup {h}
    /\ mounted' = Append(mounted, h)
    /\ group' = [group EXCEPT ![t] = h]
    /\ Go(t, "mounting")
    /\ UNCHANGED <<server, table, sorted, polling, answer, ready, job, alive, left, history>>

Composed(t) ==
    /\ pc[t] = "mounting"
    /\ ready' = ready \cup {group[t]}
    /\ group' = [group EXCEPT ![t] = None]
    /\ Go(t, "groups")
    /\ UNCHANGED <<server, table, sorted, polling, answer, tracked, mounted, job, alive, left,
                   history>>

\* Mutant: the groups stay as they were mounted.
Arranged_AsMounted == mounted

\* move_child puts the wanted groups in front, in their order.
Arranged ==
    LET wanted == SelectSeq(order, LAMBDA h : h \in tracked)
    IN wanted \o SelectSeq(mounted, LAMBDA h : h \notin ToSet(wanted))

\* Every host of the answer has its group: the labels and charts are updated
\* and the groups put in the order of the rows.
PollDone(t) ==
    /\ pc[t] = "groups"
    /\ tracked = ToSet(answer[t].list)
    /\ mounted' = Arranged
    /\ PollEnds(t)
    /\ UNCHANGED <<server, table, sorted, tracked, ready, group, job, alive, left, chosen, moved,
                   shifted, quiet>>

--------------------------------------------------------------------------------
(* The operator's keys.  A key waits until the one before it is done.      *)

NoJob == [kind |-> "none"]

\* An exception no handler catches: the app exits.
Exits ==
    /\ alive' = FALSE
    /\ pc' = [t \in Tasks |-> "exited"]
    /\ UNCHANGED polling

\* The arrow keys.  While a finished move waits to be drawn, the row under the
\* cursor and the host the code takes it for differ: nothing is promised then.
MovesCursor(i) ==
    /\ pc["keys"] = "idle"
    /\ Spend("keys")
    /\ i \in DOMAIN rows
    /\ cursor' = i
    /\ chosen' = IF moved THEN None ELSE rows[i]
    /\ UNCHANGED <<server, rows, order, nodes, sorted, polling, pc, answer, groups, job, alive,
                   moved, shifted, quiet>>

\* s, r and o: the sort changes, its column or its direction.
ChangesSort(on) ==
    /\ pc["keys"] = "idle"
    /\ Spend("keys")
    /\ sorted' = on
    /\ PollBegins("keys")
    /\ UNCHANGED <<server, table, answer, groups, job, alive, history>>

\* Mutant: only the swapped pair is written.
Misplaced_Pair(o, from) ==
    {i \in from..Len(o) : o[i] # order[i] /\ (o[i] \notin DOMAIN nodes \/ nodes[o[i]] # i - 1)}

\* The indexes of o, from one on, whose host is not known to have its position.
Misplaced(o, from) ==
    {i \in from..Len(o) : o[i] \notin DOMAIN nodes \/ nodes[o[i]] # i - 1}

\* The loop of _move_selected_node from index from on, up to its next await:
\* it awaits a PATCH, or fails on a host a poll has dropped, or ends.
MoveGoesOn(o, target, from) ==
    LET todo == Misplaced(o, from)
        i == CHOOSE k \in todo : \A l \in todo : k <= l
    IN  \/ /\ todo = {}
           /\ order' = o
           /\ cursor' = IF target > Len(rows) THEN Len(rows) ELSE target
           /\ moved' = TRUE
           /\ job' = [kind |-> "moved", order |-> o]
           /\ PollBegins("keys")
           /\ UNCHANGED alive
        \/ /\ todo # {}
           /\ o[i] \notin DOMAIN nodes
           /\ Exits
           /\ job' = NoJob
           /\ UNCHANGED <<order, cursor, moved>>
        \/ /\ todo # {}
           /\ o[i] \in DOMAIN nodes
           /\ job' = [kind |-> "move", order |-> o, target |-> target, next |-> i]
           /\ Go("keys", "patching")
           /\ UNCHANGED <<order, cursor, moved, polling, alive>>

\* u and d.  Nothing happens in a sorted view or at either end of the table.
MovesNode(step) ==
    LET target == cursor + step
        swapped == [order EXCEPT ![cursor] = order[target], ![target] = order[cursor]]
    IN  /\ pc["keys"] = "idle"
        /\ Spend("keys")
        /\ ~sorted /\ rows # <<>>
        /\ target \in DOMAIN order
        /\ shifted' = (shifted /\ moved)
        /\ quiet' = /\ order = ListNodes /\ nodes = [h \in ToSet(order) |-> position[h]]
                    /\ \A t \in Tasks : pc[t] = "answered" => answer[t].position = position
        /\ IF cursor \in DOMAIN order
           THEN /\ MoveGoesOn(swapped, target, 1)
                /\ chosen' = IF moved THEN None ELSE order[cursor]
           ELSE Exits /\ UNCHANGED <<order, cursor, moved, job, chosen>>
        /\ UNCHANGED <<server, rows, nodes, sorted, answer, groups>>

\* The PATCH of the next position: done by the orchestrator, ...
PatchDone ==
    LET h == job.order[job.next]
    IN  /\ pc["keys"] = "patching"
        /\ h \in ToSet(registered)
        /\ position' = [position EXCEPT ![h] = job.next - 1]
        /\ Go("keys", "patched")
        /\ UNCHANGED <<registered, table, sorted, polling, answer, groups, job, alive, left, history>>

\* ... refused because the host is gone, or lost before or after it was done.
\* The positions set so far stay, the order on the screen too.
PatchFails ==
    LET h == job.order[job.next]
    IN  /\ pc["keys"] = "patching"
        /\ \/ h \notin ToSet(registered) /\ UNCHANGED <<position, left>>
           \/ Spend("failures") /\ UNCHANGED position
           \/ /\ h \in ToSet(registered)
              /\ Spend("failures")
              /\ position' = [position EXCEPT ![h] = job.next - 1]
        /\ job' = NoJob
        /\ Go("keys", "idle")
        /\ UNCHANGED <<registered, table, sorted, polling, answer, groups, alive, history>>

MoveContinues ==
    /\ pc["keys"] = "patched"
    /\ MoveGoesOn(job.order, job.target, job.next + 1)
    /\ chosen' = IF shifted THEN None ELSE chosen
    /\ UNCHANGED <<server, rows, nodes, sorted, answer, groups, left, shifted, quiet>>

\* e and x: the form or the question is about the host at the cursor.
OpensForm(kind) ==
    /\ pc["keys"] = "idle"
    /\ Spend("keys")
    /\ rows # <<>>
    /\ IF cursor \in DOMAIN order /\ (kind = "edit" => order[cursor] \in DOMAIN nodes)
       THEN /\ job' = [kind |-> kind, host |-> order[cursor],
                       shown |-> IF moved THEN None ELSE rows[cursor]]
            /\ Go("keys", "form")
            /\ UNCHANGED <<polling, alive>>
       ELSE Exits /\ UNCHANGED job
    /\ UNCHANGED <<server, table, sorted, answer, groups, history>>

\* n: the operator enters the host_id.
OpensNew(h) ==
    /\ pc["keys"] = "idle"
    /\ Spend("keys")
    /\ job' = [kind |-> "new", host |-> h]
    /\ Go("keys", "form")
    /\ UNCHANGED <<server, table, sorted, polling, answer, groups, alive, history>>

FormCancelled ==
    /\ pc["keys"] = "form"
    /\ job' = NoJob
    /\ Go("keys", "idle")
    /\ UNCHANGED <<server, table, sorted, polling, answer, groups, alive, left, history>>

FormSubmitted ==
    /\ pc["keys"] = "form"
    /\ Go("keys", "request")
    /\ UNCHANGED <<server, table, sorted, polling, answer, groups, job, alive, left, history>>

\* What the orchestrator does with the request of a form.  The fields of an edit
\* do not include the position, and a PATCH replaces only what it is given; a
\* registration without a position takes it from a node that had one.
Carried ==
    \/ /\ job.kind = "edit" /\ job.host \in ToSet(registered)
       /\ UNCHANGED server
    \/ /\ job.kind = "new"
       /\ registered' = Registered(job.host)
       /\ position' = [position EXCEPT ![job.host] = None]
    \/ /\ job.kind = "remove"
       /\ registered' = RemoveFirst(registered, job.host)
       /\ position' = [position EXCEPT ![job.host] = None]

RequestDone ==
    /\ pc["keys"] = "request"
    /\ Carried
    /\ quiet' = FALSE
    /\ PollBegins("keys")
    /\ UNCHANGED <<table, sorted, answer, groups, job, alive, left, chosen, moved, shifted>>

\* The host is gone (404), or the request is lost before or after it was done.
RequestFails ==
    /\ pc["keys"] = "request"
    /\ \/ /\ job.kind = "edit" /\ job.host \notin ToSet(registered)
          /\ UNCHANGED <<server, left>>
       \/ Spend("failures") /\ (Carried \/ UNCHANGED server)
    /\ quiet' = FALSE
    /\ job' = NoJob
    /\ Go("keys", "idle")
    /\ UNCHANGED <<table, sorted, polling, answer, groups, alive, chosen, moved, shifted>>

--------------------------------------------------------------------------------
Init ==
    /\ registered = InitialNodes
    /\ position = [h \in Hosts |-> None]
    /\ rows = <<>> /\ order = <<>> /\ nodes = <<>> /\ cursor = 1
    /\ sorted = FALSE /\ polling = FALSE
    /\ pc = [t \in Tasks |-> "idle"]
    /\ answer = [t \in Tasks |-> None]
    /\ tracked = {} /\ mounted = <<>> /\ ready = {}
    /\ group = [t \in Tasks |-> None]
    /\ job = NoJob
    /\ alive = TRUE
    /\ left = [changes |-> MaxChanges, failures |-> MaxFailures, keys |-> MaxKeys]
    /\ chosen = None /\ moved = FALSE /\ shifted = FALSE /\ quiet = FALSE

PollNext(t) ==
    \/ Answered(t) \/ RendersNodes(t) \/ PollDone(t)
    \/ Unmounted(t) \/ Composed(t)
    \/ \E h \in Hosts : Unmounts(t, h) \/ Mounts(t, h)

RequestNext == PatchDone \/ PatchFails \/ MoveContinues \/ RequestDone \/ RequestFails

Next ==
    \/ \E h \in Hosts : OtherRegisters(h) \/ OtherRemoves(h)
    \/ \E h \in Hosts, p \in OtherPlaces : OtherPositions(h, p)
    \/ TimerTicks
    \/ \E t \in Tasks : PollNext(t) \/ PollFails(t) \/ RenderFails(t) \/ ChartsFail(t)
    \/ \E i \in 1..Cardinality(Hosts) : MovesCursor(i)
    \/ \E on \in BOOLEAN : ChangesSort(on)
    \/ \E step \in {-1, 1} : MovesNode(step)
    \/ \E kind \in {"edit", "remove"} : OpensForm(kind)
    \/ \E h \in Hosts : OpensNew(h)
    \/ FormCancelled \/ FormSubmitted
    \/ RequestNext

Spec == Init /\ [][Next]_vars

\* The timer ticks, the orchestrator answers (the client's timeouts end what it
\* does not) and a task that has its answer goes on.
FairSpec ==
    /\ Spec
    /\ WF_vars(TimerTicks)
    /\ \A t \in Tasks : WF_vars(PollNext(t))
    /\ WF_vars(RequestNext)

--------------------------------------------------------------------------------
(* Properties.                                                             *)

\* A poll that goes through the chart groups finds the label and the chart of
\* every group it knows of, so that query_one never raises NoMatches: two
\* rendering passes never meet (the comment in poll()).
TrackedIsReady ==
    \A t \in Tasks : pc[t] = "groups" => tracked \subseteq ready

\* An exception takes the app down only when a poll drew another set of nodes in
\* the middle of a move (_nodes_by_id and _node_row_order are read after it).
ExitsOnlyWhenShifted == ~alive => shifted

\* The edit form and the remove question are about the node in the row under the
\* cursor, in a sorted view too; a move not drawn yet is the one exception.
ActsOnSelected ==
    pc["keys"] \in {"form", "request"} /\ job.kind \in {"edit", "remove"}
        => job.host = job.shown \/ job.shown = None

\* The cursor stays on the node the operator pointed at, through polls, sorts,
\* moves and failed polls, until that node is gone or a row cannot be drawn.
CursorStaysOnChosen ==
    ~moved /\ rows # <<>> /\ chosen # None /\ alive => rows[cursor] = chosen

\* A finished move has made the orchestrator's list the order the operator saw
\* on the screen, if it started from a screen that showed the orchestrator's list
\* and nobody else changed the nodes meanwhile: unpositioned nodes and polls in
\* the middle of the move do not matter.  A second move before the first was drawn
\* starts from positions the dashboard has not read back, and nothing is promised.
MoveIsPersisted == job.kind = "moved" /\ quiet => ListNodes = job.order

\* Once the nodes stay as they are and requests are answered, the screen shows
\* them, in the manual order unless a sort is on, with their charts below in the
\* order of the rows, whatever has come, gone, been moved or sorted: failed polls
\* and broken renderings leave nothing behind that stops the next poll.
Settles ==
    <>[](alive => /\ ToSet(rows) = ToSet(registered)
                  /\ sorted \/ rows = ListNodes
                  /\ ToSet(rows) = tracked
                  /\ ~polling => mounted = rows)

================================================================================
