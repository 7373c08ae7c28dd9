------------------------------ MODULE SessionStore ------------------------------
(***************************************************************************)
(* The sqlite stores of one session (state/*.py) and the context cache     *)
(* (context/*.py).  The managers run every call in a thread of its own     *)
(* (asyncio.to_thread) on a connection of its own.  A SELECT outside a      *)
(* transaction is a snapshot by itself; the one writing statement of a call *)
(* opens a transaction that commits when the call leaves its connection.    *)
(* So a call is a step that reads and a later step that writes, and calls   *)
(* interleave between the two.  Every statement is scoped by session_id;    *)
(* the module follows one session.                                         *)
(*                                                                         *)
(* Messages, tool calls and workspace captures are numbers, taken in order: *)
(* only who they are and how long they are matters.                         *)
(***************************************************************************)
EXTENDS ContextAssembly, FiniteSets, SequencesExt

CONSTANTS
    Threads,
    Messages,   \* messages clients append
    Calls,      \* tool invocations clients record
    Captures,   \* workspace snapshots clients capture
    ToolOf,     \* "terminal" or "filesystem", by tool call
    Texts,      \* summary texts
    Budgets,    \* token budgets contexts are assembled for
    MaxEntries, \* max_entries of the context cache
    MaxCalls    \* bound: calls that are started

ASSUME ItemsAssumption ==
    /\ Messages \subseteq Nat /\ Calls \subseteq Nat /\ Captures \subseteq Nat
    /\ Messages \cap Calls = {} /\ (Messages \cup Calls) \cap Captures = {}
ASSUME TextsAssumption ==
    /\ LengthOf \in [Messages -> Nat] /\ SummaryLength \in [Texts -> Nat]
    /\ Budgets \subseteq Int
    /\ None \notin Nat \X Texts

VARIABLES
    created,    \* the row of the table sessions
    rows,       \* the tables messages and tool_invocations: from seq to item
    summary,    \* the row of the table summaries, or None
    workspace,  \* the row of the table workspace_snapshots, or None
    thread,     \* what each thread is in the middle of
    cache,      \* _entries of the context cache, least recently used first
    calls,      \* number of calls started so far
    \* History, read by properties only:
    committed,  \* every item a call stored, with its seq, in commit order
    earlier,    \* by item whose call was started: the items committed before
    trimmed,    \* messages deleted by a trim
    answer      \* last context handed out, with what it was asked for

vars == <<created, rows, summary, workspace, thread, cache, calls,
          committed, earlier, trimmed, answer>>
history == <<committed, earlier, trimmed, answer>>

Items == Messages \cup Calls \cup Captures
Table(item) == IF item \in Messages THEN "messages" ELSE "tool_invocations"
Idle == [op |-> "idle"]
Stored == {committed[k].item : k \in DOMAIN committed}

\* The next item of a kind that no call carried yet.
Fresh(kind) == {i \in kind \ DOMAIN earlier : \A j \in kind \ DOMAIN earlier : i <= j}

\* SELECT MAX(seq) ... or 0.
\* Mutant: the numbers of deleted rows are used again.
MaxSeq_FillsGaps(table) ==
    CHOOSE n \in 0..Cardinality(Items) :
        n + 1 \notin DOMAIN rows[table] /\ 1..n \subseteq DOMAIN rows[table]
MaxSeq(table) == IF DOMAIN rows[table] = {} THEN 0
                 ELSE CHOOSE n \in DOMAIN rows[table] : \A k \in DOMAIN rows[table] : k <= n

Begin(t, record) ==
    /\ created /\ thread[t].op \in {"idle", "session"} /\ calls < MaxCalls
    /\ calls' = calls + 1
    /\ thread' = [thread EXCEPT ![t] = record]
End(t) == thread' = [thread EXCEPT ![t] = Idle]
Note(item) == earlier' = [i \in DOMAIN earlier \cup {item} |->
                            IF i = item THEN Stored ELSE earlier[i]]

\* create_session, once per session.
CreateSession ==
    /\ ~created /\ created' = TRUE
    /\ UNCHANGED <<rows, summary, workspace, thread, cache, calls, history>>

\* append_message and _insert_invocation read the highest seq of the session ...
AppendReads(t, item) ==
    /\ Begin(t, [op |-> "append", item |-> item, seen |-> MaxSeq(Table(item))])
    /\ Note(item)
    /\ UNCHANGED <<created, rows, summary, workspace, cache,
                   committed, trimmed, answer>>

AppendMessage(t) == \E m \in Fresh(Messages) : AppendReads(t, m)
RecordTerminal(t) == \E i \in Fresh(Calls) : ToolOf[i] = "terminal" /\ AppendReads(t, i)
RecordFilesystem(t) == \E i \in Fresh(Calls) : ToolOf[i] = "filesystem" /\ AppendReads(t, i)

\* ... and insert the next one; the primary key refuses a seq that is taken.
\* Mutant: INSERT OR REPLACE.
AppendWrites_Replaces(t) ==
    /\ thread[t].op = "append" /\ End(t)
    /\ LET item == thread[t].item  table == Table(item)  seq == thread[t].seen + 1 IN
         /\ rows' = [rows EXCEPT ![table] =
                       [k \in DOMAIN @ \cup {seq} |-> IF k = seq THEN item ELSE @[k]]]
         /\ committed' = Append(committed, [item |-> item, seq |-> seq])
    /\ UNCHANGED <<created, summary, workspace, cache, calls, earlier, trimmed, answer>>
AppendWrites(t) ==
    /\ thread[t].op = "append" /\ End(t)
    /\ LET item == thread[t].item  table == Table(item)  seq == thread[t].seen + 1 IN
         \/ /\ seq \notin DOMAIN rows[table]
            /\ rows' = [rows EXCEPT ![table] =
                          [k \in DOMAIN @ \cup {seq} |-> IF k = seq THEN item ELSE @[k]]]
            /\ committed' = Append(committed, [item |-> item, seq |-> seq])
         \/ /\ seq \in DOMAIN rows[table]
            /\ UNCHANGED <<rows, committed>>
    /\ UNCHANGED <<created, summary, workspace, cache, calls, earlier, trimmed, answer>>

\* WorkspaceManager.capture: the values are taken, then the row is written.
CaptureBegins(t, item) ==
    /\ Begin(t, [op |-> "capture", item |-> item])
    /\ Note(item)
    /\ UNCHANGED <<created, rows, summary, workspace, cache,
                   committed, trimmed, answer>>

\* The row after the upsert.  Mutant: ON CONFLICT DO NOTHING.
Upserted_KeepsFirst(item) == IF workspace = None THEN item ELSE workspace
Upserted(item) == item
CaptureWrites(t) ==
    /\ thread[t].op = "capture" /\ End(t)
    /\ workspace' = Upserted(thread[t].item)
    /\ committed' = Append(committed, [item |-> thread[t].item, seq |-> 0])
    /\ UNCHANGED <<created, rows, summary, cache, calls, earlier, trimmed, answer>>

\* summarize refuses to cover more than the highest seq ...
\* Mutant: the check is forgotten.
MayCover_Always(covers) == TRUE
MayCover(covers) == covers <= MaxSeq("messages")
SummarizeReads(t, covers, text) ==
    /\ MayCover(covers)
    /\ Begin(t, [op |-> "summarize", covers |-> covers, text |-> text, known |-> Stored])
    /\ UNCHANGED <<created, rows, summary, workspace, cache, history>>

\* ... and then replaces the summary, whatever it covered.
SummarizeWrites(t) ==
    /\ thread[t].op = "summarize" /\ End(t)
    /\ summary' = [covers |-> thread[t].covers, text |-> thread[t].text,
                   known |-> thread[t].known]
    /\ UNCHANGED <<created, rows, workspace, cache, calls, history>>

\* trim reads what the summary covers and deletes up to there; without a
\* summary it returns at once.
TrimReads(t) ==
    /\ summary # None
    /\ Begin(t, [op |-> "trim", covers |-> summary.covers])
    /\ UNCHANGED <<created, rows, summary, workspace, cache, history>>

TrimWrites(t) ==
    /\ thread[t].op = "trim" /\ End(t)
    /\ LET table == rows["messages"]
           gone  == {k \in DOMAIN table : k <= thread[t].covers} IN
         /\ rows' = [rows EXCEPT !["messages"] = [k \in DOMAIN table \ gone |-> table[k]]]
         /\ trimmed' = trimmed \cup {table[k] : k \in gone}
    /\ UNCHANGED <<created, summary, workspace, cache, calls, committed, earlier, answer>>

\* read_session reads the summary, then the messages behind it: two snapshots.
ReadSummary(t) ==
    /\ Begin(t, [op |-> "read", summary |-> summary, known |-> Stored \ trimmed])
    /\ UNCHANGED <<created, rows, summary, workspace, cache, history>>

\* Mutant: the first message behind the summary is left out.
IsBehind_Off(seq, s) == seq > (IF s = None THEN 0 ELSE s.covers + 1)
IsBehind(seq, s) == seq > (IF s = None THEN 0 ELSE s.covers)

\* ORDER BY seq: the i-th of these numbers has i of them up to itself.
NthOf(numbers, i) == CHOOSE n \in numbers : Cardinality({k \in numbers : k <= n}) = i
SessionAt(s, table) ==
    LET behind == {k \in DOMAIN table : IsBehind(k, s)}
        seq(i) == NthOf(behind, i)
    IN [summary |-> s,
        messages |-> [i \in 1..Cardinality(behind) |-> [seq |-> seq(i), item |-> table[seq(i)]]]]

ReadMessages(t) ==
    /\ thread[t].op = "read"
    /\ thread' = [thread EXCEPT ![t] =
                    [op |-> "session", session |-> SessionAt(@.summary, rows["messages"]),
                     known |-> @.known]]
    /\ UNCHANGED <<created, rows, summary, workspace, cache, calls, history>>

\* Mutant: the key leaves the summary out.
CacheKey_NoSummary(session, budget) == <<session.messages, budget>>
CacheKey(session, budget) ==
    <<session.messages,
      IF session.summary = None THEN None
      ELSE <<session.summary.covers, session.summary.text>>,
      budget>>

\* ContextCache.assemble of a session a client has read.
Assemble(t, budget) ==
    /\ thread[t].op = "session"
    /\ LET session == thread[t].session
           key  == CacheKey(session, budget)
           hits == {k \in DOMAIN cache : cache[k].key = key}
           hit  == CHOOSE k \in hits : TRUE
           used == IF hits # {} THEN cache[hit]
                   ELSE [key |-> key, context |-> AssembleContext(session, budget)]
           rest == IF hits # {} THEN RemoveAt(cache, hit) ELSE cache
           all  == Append(rest, used)
       IN /\ cache' = IF Len(all) > MaxEntries THEN Tail(all) ELSE all
          /\ answer' = [session |-> session, budget |-> budget, context |-> used.context]
    /\ UNCHANGED <<created, rows, summary, workspace, thread, calls,
                   committed, earlier, trimmed>>

\* read_terminal_state: the last of the tool's rows, which share their numbers
\* with the other tool's.
HistoryRows(tool) == {n \in DOMAIN rows["tool_invocations"] :
                        ToolOf[rows["tool_invocations"][n]] = tool}

\* Mutant: ORDER BY seq without DESC.
TerminalState_First ==
    LET terminal == HistoryRows("terminal")
    IN IF terminal = {} THEN None
       ELSE rows["tool_invocations"][CHOOSE n \in terminal : \A k \in terminal : n <= k]

TerminalState ==
    LET terminal == HistoryRows("terminal")
    IN IF terminal = {} THEN None
       ELSE rows["tool_invocations"][CHOOSE n \in terminal : \A k \in terminal : k <= n]

\* A writer that waits for the database longer than its busy timeout raises.
WriteTimesOut(t) ==
    /\ thread[t].op \in {"append", "capture", "summarize", "trim"} /\ End(t)
    /\ UNCHANGED <<created, rows, summary, workspace, cache, calls, history>>

\* The process ends and another opens the same file: threads and cache are gone.
Restart ==
    /\ \E t \in Threads : thread[t] # Idle
    /\ thread' = [t \in Threads |-> Idle]
    /\ cache' = <<>>
    /\ UNCHANGED <<created, rows, summary, workspace, calls, history>>

Init ==
    /\ created = FALSE
    /\ rows = [table \in {"messages", "tool_invocations"} |-> <<>>]
    /\ summary = None /\ workspace = None
    /\ thread = [t \in Threads |-> Idle]
    /\ cache = <<>> /\ calls = 0
    /\ committed = <<>> /\ earlier = <<>> /\ trimmed = {}
    /\ answer = None

Next ==
    \/ CreateSession \/ Restart
    \/ \E t \in Threads :
         \/ AppendMessage(t) \/ RecordTerminal(t) \/ RecordFilesystem(t)
         \/ AppendWrites(t)
         \/ \E i \in Fresh(Captures) : CaptureBegins(t, i)
         \/ CaptureWrites(t)
         \/ \E covers \in 0..Cardinality(Messages), text \in Texts :
              SummarizeReads(t, covers, text)
         \/ SummarizeWrites(t)
         \/ TrimReads(t) \/ TrimWrites(t)
         \/ ReadSummary(t) \/ ReadMessages(t)
         \/ \E b \in Budgets : Assemble(t, b)
         \/ WriteTimesOut(t)

Spec == Init /\ [][Next]_vars

--------------------------------------------------------------------------------
InTable(item) == \E n \in DOMAIN rows[Table(item)] : rows[Table(item)][n] = item
SeqIn(item) == CHOOSE n \in DOMAIN rows[Table(item)] : rows[Table(item)][n] = item

\* What a call reported as stored stays: a message until a trim deletes it, a
\* tool call for ever, through races for one seq and restarts of the process.
StoredIsKept ==
    \A k \in DOMAIN committed : LET i == committed[k].item IN
        i \notin Captures => InTable(i) \/ i \in trimmed

\* seq orders by real time: what was stored before an append or a record call
\* began has the smaller seq, as long as both are in the table.  Readers order
\* by seq and take the last terminal call for the state of the terminal.
SeqFollowsTime ==
    \A i, j \in DOMAIN earlier :
        /\ i \notin Captures /\ j \notin Captures /\ Table(i) = Table(j)
        /\ InTable(i) /\ InTable(j) /\ i \in earlier[j]
        => SeqIn(i) < SeqIn(j)

\* The workspace row and the terminal state are never those of a call that was
\* over before another stored call of the kind began, however calls overlap.
CurrentIsNewest ==
    \A j \in Stored :
        /\ j \in Captures => workspace \notin earlier[j]
        /\ j \in Calls /\ ToolOf[j] = "terminal" => TerminalState \notin earlier[j]

\* read_session shows each message that was there when the read began, unless its
\* summary covers it or a trim deleted it meanwhile: the summary and the
\* messages come from two snapshots, between which another call may trim.
ReadShowsAll ==
    \A t \in Threads : thread[t].op = "session" =>
        \A m \in thread[t].known \cap Messages :
            \/ \E k \in DOMAIN thread[t].session.messages :
                 thread[t].session.messages[k].item = m
            \/ m \in trimmed
            \/ /\ thread[t].session.summary # None
               /\ SeqIn(m) <= thread[t].session.summary.covers

\* A summary covers only messages that were stored when it was checked, so no
\* message disappears from the sessions clients read without being summarised -
\* unless its seq had been given to an earlier message, which a trim deleted.
CoversOnlyKnown ==
    summary # None =>
        \A n \in DOMAIN rows["messages"] : n <= summary.covers =>
            LET m == rows["messages"][n] IN
            \/ m \in summary.known
            \/ \E k \in DOMAIN committed :
                 committed[k].seq = n /\ committed[k].item \in trimmed

\* Messages are numbered upwards: no append gets a seq that is not above every
\* seq given before.
SeqIsMonotonic ==
    \A j, k \in DOMAIN committed :
        /\ j < k /\ committed[j].item \in Messages /\ committed[k].item \in Messages
        => committed[j].seq < committed[k].seq

\* The context a client gets, from the cache or not, is the summary of the session
\* it gave and the longest run of newest messages that fits its budget, and it is
\* within the budget as soon as it has more than one message.
CompactionIsTight ==
    answer # None =>
        LET session == answer.session
            context == answer.context
        IN /\ context.kept = LongestFit(session, answer.budget)
           /\ context.dropped = Len(session.messages) - Len(context.kept)
           /\ context.summary = IF session.summary = None THEN None ELSE session.summary.text
           /\ Len(context.kept) > 1 => Estimate(session.summary, context.kept) <= answer.budget
================================================================================
