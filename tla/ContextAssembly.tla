---------------------------- MODULE ContextAssembly ----------------------------
(***************************************************************************)
(* assemble_context: which messages of a session fit a token budget.  A     *)
(* session is what read_session returns, a record of the messages (in seq  *)
(* order, each a pair of seq and message) and of the summary or None.  Of a *)
(* text only its length counts.                                            *)
(***************************************************************************)
EXTENDS Integers, Sequences

CONSTANTS
    None,
    CharsPerToken,  \* 4 in _estimate_tokens
    LengthOf,       \* characters of a message, by message
    SummaryLength   \* characters of the system message made from a summary, by text

ASSUME CharsPerTokenAssumption == CharsPerToken \in Nat \ {0}

\* _estimate_tokens rounds the characters of all its messages up together.
Tokens(chars) == -((-chars) \div CharsPerToken)

\* The sums of the first k numbers of a sequence, by k.
Sums(numbers) ==
    LET sum[k \in 0..Len(numbers)] == IF k = 0 THEN 0 ELSE sum[k - 1] + numbers[k]
    IN sum
Total(numbers) == Sums(numbers)[Len(numbers)]

Lengths(messages) == [k \in 1..Len(messages) |-> LengthOf[messages[k].item]]
SummaryChars(summary) == IF summary = None THEN 0 ELSE SummaryLength[summary.text]
Estimate(summary, messages) == Tokens(SummaryChars(summary) + Total(Lengths(messages)))
Cost(entry) == Tokens(LengthOf[entry.item])

\* Mutant: a message that does not fit is skipped instead of ending the scan.
Scanned_Skips(acc, entry) ==
    IF acc.kept # <<>> /\ Cost(entry) > acc.left THEN acc
    ELSE [kept |-> <<entry>> \o acc.kept, left |-> acc.left - Cost(entry), open |-> TRUE]

\* The newest message is kept whatever it costs, and the first other one that does
\* not fit ends the scan (open is FALSE).
Scanned(acc, entry) ==
    IF ~acc.open \/ (acc.kept # <<>> /\ Cost(entry) > acc.left)
    THEN [acc EXCEPT !.open = FALSE]
    ELSE [kept |-> <<entry>> \o acc.kept, left |-> acc.left - Cost(entry), open |-> TRUE]

\* The scan from the newest message back, after k messages, by k.
Scan(messages, budget) ==
    LET scan[k \in 0..Len(messages)] ==
            IF k = 0 THEN [kept |-> <<>>, left |-> budget, open |-> TRUE]
            ELSE Scanned(scan[k - 1], messages[Len(messages) - k + 1])
    IN scan
KeepNewest(messages, budget) == Scan(messages, budget)[Len(messages)].kept

AssembleContext(session, budget) ==
    LET all  == session.messages
        kept == IF Estimate(session.summary, all) <= budget THEN all
                ELSE KeepNewest(all, budget - Tokens(SummaryChars(session.summary)))
        lost == Len(all) - Len(kept)
    IN [summary |-> IF session.summary = None THEN None ELSE session.summary.text,
        kept |-> kept, compacted |-> lost > 0, dropped |-> lost]

\* What compaction promises, without the scan: the summary, and the longest run
\* of newest messages that fits when each is priced alone, never less than one.
Newest(messages, k) == SubSeq(messages, Len(messages) - k + 1, Len(messages))
Costs(messages) == [k \in 1..Len(messages) |-> Cost(messages[k])]
Price(session, k) ==
    Tokens(SummaryChars(session.summary)) + Total(Costs(Newest(session.messages, k)))
Fitting(session, budget) ==
    {k \in 0..Len(session.messages) : k <= 1 \/ Price(session, k) <= budget}
LongestFit(session, budget) ==
    IF Estimate(session.summary, session.messages) <= budget THEN session.messages
    ELSE Newest(session.messages, CHOOSE k \in Fitting(session, budget) :
                                    \A j \in Fitting(session, budget) : j <= k)
================================================================================
