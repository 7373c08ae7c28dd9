------------------------ MODULE SessionStore_proofs -------------------------
(***************************************************************************)
(* Proofs about SessionStore for every number of threads, messages, tool   *)
(* calls and captures.  Every call of the stores reads in one statement    *)
(* and writes in another, and nothing but the primary key stands between   *)
(* two of them.  The invariant says what a call that has read and not yet  *)
(* written may still rely on, whatever was written meanwhile: the rows are *)
(* numbered without gaps except where a trim deleted them, an item that    *)
(* was stored before the call began has at most the seq the call has seen, *)
(* and what a summary covers had been stored when it was checked.  What a  *)
(* context keeps of a session is proved from the recursion of the scan.    *)
(***************************************************************************)
EXTENDS SessionStore, FiniteSetTheorems, SequenceTheorems, WellFoundedInduction, TLAPS

Tables == {"messages", "tool_invocations"}
Writing(t) == thread[t].op \in {"append", "capture"}
HasRow(table, n, item) == n \in DOMAIN rows[table] /\ rows[table][n] = item

StoreTypes ==
    /\ rows = [table \in Tables |-> rows[table]]
    /\ thread = [t \in Threads |-> thread[t]]
    /\ earlier = [i \in DOMAIN earlier |-> earlier[i]]
    /\ committed \in Seq([item : Items, seq : Nat])

\* An item is carried by one call and stored once, and what a call found stored
\* stays on record.
CarriedOnce ==
    /\ DOMAIN earlier \subseteq Items
    /\ Stored \subseteq DOMAIN earlier
    /\ \A j \in DOMAIN earlier : earlier[j] \subseteq Stored
    /\ \A t \in Threads : Writing(t) => thread[t].item \in DOMAIN earlier \ Stored
    /\ \A t \in Threads : thread[t].op = "append" => thread[t].item \notin Captures
    /\ \A t \in Threads : thread[t].op = "capture" => thread[t].item \in Captures
    /\ \A t, u \in Threads : Writing(t) /\ Writing(u) /\ thread[t].item = thread[u].item => t = u

\* The tables hold stored items of their kind, each in one row, and a row is
\* where its item was put.
RowsAreStored ==
    /\ \A table \in Tables : DOMAIN rows[table] \subseteq 1..Len(committed)
    /\ \A table \in Tables : \A n \in DOMAIN rows[table] :
         /\ rows[table][n] \in Stored
         /\ rows[table][n] \notin Captures
         /\ Table(rows[table][n]) = table
    /\ \A table \in Tables : \A m, n \in DOMAIN rows[table] :
         rows[table][m] = rows[table][n] => m = n

KeptInPlace ==
    /\ trimmed \subseteq Messages \cap Stored
    /\ \A n \in DOMAIN rows["messages"] : rows["messages"][n] \notin trimmed
    /\ \A k \in DOMAIN committed : LET i == committed[k].item IN
         i \notin Captures => HasRow(Table(i), committed[k].seq, i) \/ i \in trimmed

\* A row's item was not stored before the item of an earlier row was begun, and a
\* call that appends has seen every row of what was stored before it began.
RowsFollowTime ==
    /\ \A table \in Tables : \A m, n \in DOMAIN rows[table] :
         rows[table][m] \in earlier[rows[table][n]] => m < n
    /\ \A t \in Threads : thread[t].op = "append" =>
         /\ thread[t].seen \in 0..Len(committed)
         /\ \A n \in DOMAIN rows[Table(thread[t].item)] :
              rows[Table(thread[t].item)][n] \in earlier[thread[t].item] => n <= thread[t].seen

WorkspaceIsNewest == \A j \in Stored \cap Captures : workspace \notin earlier[j]

\* The numbers messages were given, and that there are no gaps between them.
Used == {committed[k].seq : k \in {k \in DOMAIN committed : committed[k].item \in Messages}}
WithinUsed(n) == n = 0 \/ \E u \in Used : n <= u
NoGaps ==
    /\ \A u \in Used : \A n \in 1..u : n \in Used
    /\ \A t \in Threads : thread[t].op = "append" /\ thread[t].item \in Messages
         => thread[t].seen \in Used \cup {0}

\* What a summary covers was used when it was checked; the rows below are of
\* messages known then, or took the number of a trimmed one.
Covered(covers, known) ==
    /\ covers \in Nat /\ WithinUsed(covers)
    /\ \A n \in DOMAIN rows["messages"] : n <= covers =>
         \/ rows["messages"][n] \in known
         \/ \E k \in DOMAIN committed : committed[k].seq = n /\ committed[k].item \in trimmed
CoversAreKnown ==
    /\ summary # None => Covered(summary.covers, summary.known)
    /\ \A t \in Threads : thread[t].op = "summarize" => Covered(thread[t].covers, thread[t].known)

IInv == /\ StoreTypes /\ CarriedOnce /\ RowsAreStored /\ KeptInPlace /\ RowsFollowTime
        /\ WorkspaceIsNewest /\ NoGaps /\ CoversAreKnown

-----------------------------------------------------------------------------
(* Greatest elements of bounded sets of numbers.                           *)

LEMMA LeastOf ==
    ASSUME NEW S \in SUBSET Nat, S # {}
    PROVE  \E m \in S : \A k \in S : m <= k
<1>1. IsWellFoundedOn(OpToRel(<, Nat), Nat)
  BY NatLessThanWellFounded
<1>2. PICK m \in S : \A k \in S : ~(<<k, m>> \in OpToRel(<, Nat))
  BY <1>1, WFMin
<1>3. \A k \in S : ~(k < m)
  BY <1>2 DEF OpToRel
<1> QED BY <1>3

LEMMA GreatestOf ==
    ASSUME NEW n \in Nat, NEW S \in SUBSET (1..n), S # {}
    PROVE  \E m \in S : \A k \in S : k <= m
<1> DEFINE T == {n - k : k \in S}
<1>1. T \in SUBSET Nat
  OBVIOUS
<1>2. T # {}
  OBVIOUS
<1> HIDE DEF T
<1>3. PICK t \in T : \A u \in T : t <= u
  BY <1>1, <1>2, LeastOf
<1>4. PICK m \in S : t = n - m
  BY DEF T
<1>5. \A k \in S : n - k \in T
  BY DEF T
<1>6. \A k \in S : n - m <= n - k
  BY <1>3, <1>4, <1>5
<1> QED BY <1>6

\* Whatever holds of 0 and is passed on from each number to the next holds up to n.
LEMMA UpTo ==
    ASSUME NEW n \in Nat, NEW S, 0 \in S, \A k \in 1..n : k - 1 \in S => k \in S
    PROVE  0..n \subseteq S
<1> SUFFICES ASSUME (0..n) \ S # {} PROVE FALSE
  OBVIOUS
<1> DEFINE T == (0..n) \ S
<1>0. T \in SUBSET Nat /\ T # {}
  OBVIOUS
<1> HIDE DEF T
<1>1. PICK m \in T : \A k \in T : m <= k
  BY <1>0, LeastOf
<1>2. m \in (0..n) \ S /\ \A k \in (0..n) \ S : m <= k
  BY <1>1 DEF T
<1>3. m \in 1..n /\ m - 1 \in 0..n
  BY <1>2
<1>4. m - 1 \in S
  BY <1>2, <1>3
<1> QED BY <1>2, <1>3, <1>4

\* SELECT MAX(seq): at least every seq of the table, and one of them or 0.
LEMMA MaxSeqBounds ==
    ASSUME StoreTypes, RowsAreStored, NEW table \in Tables
    PROVE  /\ MaxSeq(table) \in Nat
           /\ \A n \in DOMAIN rows[table] : n <= MaxSeq(table)
           /\ MaxSeq(table) = 0 \/ MaxSeq(table) \in DOMAIN rows[table]
<1>1. DOMAIN rows[table] \in SUBSET (1..Len(committed)) /\ Len(committed) \in Nat
  BY DEF StoreTypes, RowsAreStored
<1>2. CASE DOMAIN rows[table] = {}
  BY <1>2 DEF MaxSeq
<1>3. CASE DOMAIN rows[table] # {}
  <2>1. \E m \in DOMAIN rows[table] : \A k \in DOMAIN rows[table] : k <= m
    BY <1>1, <1>3, GreatestOf
  <2>2. /\ MaxSeq(table) \in DOMAIN rows[table]
        /\ \A n \in DOMAIN rows[table] : n <= MaxSeq(table)
    BY <1>3, <2>1 DEF MaxSeq
  <2> QED BY <1>1, <2>2
<1> QED BY <1>2, <1>3

LEMMA UsedType ==
    ASSUME StoreTypes
    PROVE  Used \subseteq Nat
<1> DEFINE R == [item : Items, seq : Nat]
<1>1. committed \in Seq(R)
  BY DEF StoreTypes
<1> HIDE DEF R
<1>2. \A k \in DOMAIN committed : committed[k] \in R
  BY <1>1
<1> QED BY <1>2 DEF Used, R

\* A number that is in the table was given out.
LEMMA RowIsUsed ==
    ASSUME IInv, NEW n \in DOMAIN rows["messages"]
    PROVE  n \in Used
<1> DEFINE m == rows["messages"][n]
<1>1. m \in Stored /\ m \notin Captures /\ Table(m) = "messages"
  BY DEF IInv, RowsAreStored, Tables
<1>2. PICK k \in DOMAIN committed : committed[k].item = m
  BY <1>1 DEF Stored
<1>3. m \in Messages
  BY <1>1 DEF Table
<1>4. m \notin trimmed
  BY DEF IInv, KeptInPlace
<1>5. HasRow("messages", committed[k].seq, m)
  BY <1>1, <1>2, <1>4 DEF IInv, KeptInPlace
<1>6. committed[k].seq = n
  BY <1>5 DEF IInv, HasRow, RowsAreStored, Tables
<1> QED BY <1>2, <1>3, <1>6 DEF Used

-----------------------------------------------------------------------------
(* Steps that change no table: reads, refused or timed out writes, restarts. *)

Quiet ==
    /\ UNCHANGED <<rows, committed, earlier, trimmed, summary, workspace>>
    /\ thread' = [t \in Threads |-> thread'[t]]
    /\ \A t \in Threads : \/ thread'[t] = thread[t]
                          \/ thread'[t].op \notin {"append", "capture", "summarize"}

LEMMA QuietKeeps == IInv /\ Quiet => IInv'
<1> SUFFICES ASSUME IInv, Quiet PROVE IInv'
  OBVIOUS
<1>0. Stored' = Stored
  BY DEF Quiet, Stored
<1>1. StoreTypes'
  BY DEF IInv, StoreTypes, Quiet
<1>2. CarriedOnce'
  BY <1>0 DEF IInv, CarriedOnce, Quiet, Writing
<1>3. RowsAreStored'
  BY <1>0 DEF IInv, RowsAreStored, Quiet
<1>4. KeptInPlace'
  BY <1>0 DEF IInv, KeptInPlace, HasRow, Quiet
<1>5. RowsFollowTime'
  BY DEF IInv, RowsFollowTime, Quiet
<1>6. WorkspaceIsNewest'
  BY <1>0 DEF IInv, WorkspaceIsNewest, Quiet
<1>7. Used' = Used
  BY DEF Quiet, Used
<1>8. NoGaps'
  BY <1>7 DEF IInv, NoGaps, Quiet
<1>9. CoversAreKnown'
  <2>1. \A covers, known : Covered(covers, known) => Covered(covers, known)'
    BY <1>7 DEF Covered, WithinUsed, Quiet
  <2> QED BY <2>1 DEF IInv, CoversAreKnown, Quiet
<1> QED BY <1>1, <1>2, <1>3, <1>4, <1>5, <1>6, <1>8, <1>9 DEF IInv

-----------------------------------------------------------------------------
(* Calls that begin.                                                       *)

\* Noting the items stored so far for a new item.
LEMMA NoteAdds ==
    ASSUME NEW item, item \notin DOMAIN earlier, Note(item)
    PROVE  /\ earlier' = [i \in DOMAIN earlier' |-> earlier'[i]]
           /\ DOMAIN earlier' = DOMAIN earlier \cup {item}
           /\ earlier'[item] = Stored
           /\ \A i \in DOMAIN earlier : earlier'[i] = earlier[i]
BY DEF Note

\* An append that begins has seen the highest seq of its table.
LEMMA AppendReadsKeeps ==
    ASSUME IInv, NEW t \in Threads, NEW item \in (Messages \cup Calls) \ DOMAIN earlier,
           AppendReads(t, item)
    PROVE  IInv'
<1> DEFINE seen == MaxSeq(Table(item))
<1>1. /\ UNCHANGED <<rows, summary, workspace, committed, trimmed>>
      /\ thread' = [thread EXCEPT ![t] = [op |-> "append", item |-> item, seen |-> seen]]
      /\ Note(item)
  BY DEF AppendReads, Begin
<1>2. /\ thread' = [u \in Threads |-> thread'[u]]
      /\ thread'[t].op = "append" /\ thread'[t].item = item /\ thread'[t].seen = seen
      /\ \A u \in Threads \ {t} : thread'[u] = thread[u]
  BY <1>1 DEF IInv, StoreTypes
<1>3. /\ earlier' = [i \in DOMAIN earlier' |-> earlier'[i]]
      /\ DOMAIN earlier' = DOMAIN earlier \cup {item} /\ earlier'[item] = Stored
      /\ \A i \in DOMAIN earlier : earlier'[i] = earlier[i]
  BY <1>1, NoteAdds
<1>4. item \notin Stored /\ item \in Items /\ item \notin Captures
  BY ItemsAssumption DEF IInv, CarriedOnce, Items
<1>5. Table(item) \in Tables /\ (item \in Messages => Table(item) = "messages")
  BY DEF Table, Tables
<1>6. /\ seen \in Nat /\ (seen = 0 \/ seen \in DOMAIN rows[Table(item)])
      /\ \A n \in DOMAIN rows[Table(item)] : n <= seen
  BY <1>5, MaxSeqBounds DEF IInv
<1> HIDE DEF seen
<1>7. seen \in 0..Len(committed)
  BY <1>5, <1>6 DEF IInv, RowsAreStored, StoreTypes
<1>8. Stored' = Stored /\ Used' = Used
  BY <1>1 DEF Stored, Used
<1>9. StoreTypes'
  BY <1>1, <1>2, <1>3 DEF IInv, StoreTypes
<1>10. CarriedOnce'
  BY <1>2, <1>3, <1>4, <1>8 DEF IInv, CarriedOnce, Writing
<1>11. RowsAreStored'
  BY <1>1, <1>8 DEF IInv, RowsAreStored
<1>12. KeptInPlace'
  BY <1>1, <1>8 DEF IInv, KeptInPlace, HasRow
<1>13. RowsFollowTime'
  <2>1. \A table \in Tables : \A m, n \in DOMAIN rows[table] :
          rows[table][m] \in earlier'[rows[table][n]] => m < n
    BY <1>3 DEF IInv, RowsFollowTime, RowsAreStored, CarriedOnce
  <2>2. ASSUME NEW u \in Threads, thread'[u].op = "append"
        PROVE  /\ thread'[u].seen \in 0..Len(committed)
               /\ \A n \in DOMAIN rows[Table(thread'[u].item)] :
                    rows[Table(thread'[u].item)][n] \in earlier'[thread'[u].item]
                      => n <= thread'[u].seen
    <3>1. CASE u = t
      BY <1>2, <1>6, <1>7, <3>1
    <3>2. CASE u # t
      <4>1. thread'[u] = thread[u] /\ thread[u].item \in DOMAIN earlier
        BY <1>2, <2>2, <3>2 DEF IInv, CarriedOnce, Writing
      <4> QED BY <1>3, <2>2, <4>1 DEF IInv, RowsFollowTime
    <3> QED BY <3>1, <3>2
  <2> QED BY <1>1, <2>1, <2>2 DEF RowsFollowTime, Table
<1>14. WorkspaceIsNewest'
  BY <1>1, <1>3, <1>8 DEF IInv, WorkspaceIsNewest, CarriedOnce
<1>15. NoGaps'
  <2>1. item \in Messages => seen \in Used \cup {0}
    BY <1>5, <1>6, RowIsUsed DEF IInv
  <2> QED BY <1>2, <1>8, <2>1 DEF IInv, NoGaps
<1>16. CoversAreKnown'
  <2>1. \A covers, known : Covered(covers, known) => Covered(covers, known)'
    BY <1>1, <1>8 DEF Covered, WithinUsed
  <2> QED BY <1>1, <1>2, <2>1 DEF IInv, CoversAreKnown
<1> QED BY <1>9, <1>10, <1>11, <1>12, <1>13, <1>14, <1>15, <1>16 DEF IInv

LEMMA CaptureBeginsKeeps ==
    ASSUME IInv, NEW t \in Threads, NEW item \in Captures \ DOMAIN earlier,
           CaptureBegins(t, item)
    PROVE  IInv'
<1>1. /\ UNCHANGED <<rows, summary, workspace, committed, trimmed>>
      /\ thread' = [thread EXCEPT ![t] = [op |-> "capture", item |-> item]]
      /\ Note(item)
  BY DEF CaptureBegins, Begin
<1>2. /\ thread' = [u \in Threads |-> thread'[u]]
      /\ thread'[t].op = "capture" /\ thread'[t].item = item
      /\ \A u \in Threads \ {t} : thread'[u] = thread[u]
  BY <1>1 DEF IInv, StoreTypes
<1>3. /\ earlier' = [i \in DOMAIN earlier' |-> earlier'[i]]
      /\ DOMAIN earlier' = DOMAIN earlier \cup {item} /\ earlier'[item] = Stored
      /\ \A i \in DOMAIN earlier : earlier'[i] = earlier[i]
  BY <1>1, NoteAdds
<1>4. item \notin Stored /\ item \in Items
  BY DEF IInv, CarriedOnce, Items
<1>5. Stored' = Stored /\ Used' = Used
  BY <1>1 DEF Stored, Used
<1>6. StoreTypes'
  BY <1>1, <1>2, <1>3 DEF IInv, StoreTypes
<1>7. CarriedOnce'
  BY <1>2, <1>3, <1>4, <1>5 DEF IInv, CarriedOnce, Writing
<1>8. RowsAreStored' /\ KeptInPlace'
  BY <1>1, <1>5 DEF IInv, RowsAreStored, KeptInPlace, HasRow
<1>9. RowsFollowTime'
  <2>1. \A table \in Tables : \A m, n \in DOMAIN rows[table] :
          rows[table][m] \in earlier'[rows[table][n]] => m < n
    BY <1>3 DEF IInv, RowsFollowTime, RowsAreStored, CarriedOnce
  <2>2. \A u \in Threads : thread'[u].op = "append" =>
          thread'[u] = thread[u] /\ earlier'[thread[u].item] = earlier[thread[u].item]
    BY <1>2, <1>3 DEF IInv, CarriedOnce, Writing
  <2> QED BY <1>1, <2>1, <2>2 DEF IInv, RowsFollowTime, Table
<1>10. WorkspaceIsNewest'
  BY <1>1, <1>3, <1>5 DEF IInv, WorkspaceIsNewest, CarriedOnce
<1>11. NoGaps'
  BY <1>2, <1>5 DEF IInv, NoGaps
<1>12. CoversAreKnown'
  <2>1. \A covers, known : Covered(covers, known) => Covered(covers, known)'
    BY <1>1, <1>5 DEF Covered, WithinUsed
  <2> QED BY <1>1, <1>2, <2>1 DEF IInv, CoversAreKnown
<1> QED BY <1>6, <1>7, <1>8, <1>9, <1>10, <1>11, <1>12 DEF IInv

\* summarize checks what it covers against the highest seq: nothing below it is
\* unknown at that time.
LEMMA SummarizeReadsKeeps ==
    ASSUME IInv, NEW t \in Threads, NEW covers \in Nat, NEW text,
           SummarizeReads(t, covers, text)
    PROVE  IInv'
<1>1. /\ UNCHANGED <<rows, summary, workspace, committed, earlier, trimmed>>
      /\ thread' = [thread EXCEPT ![t] = [op |-> "summarize", covers |-> covers, text |-> text,
                                          known |-> Stored]]
      /\ covers <= MaxSeq("messages")
  BY DEF SummarizeReads, Begin, history, MayCover
<1>2. /\ thread' = [u \in Threads |-> thread'[u]]
      /\ thread'[t].op = "summarize" /\ thread'[t].covers = covers /\ thread'[t].known = Stored
      /\ \A u \in Threads \ {t} : thread'[u] = thread[u]
  BY <1>1 DEF IInv, StoreTypes
<1>3. Stored' = Stored /\ Used' = Used
  BY <1>1 DEF Stored, Used
<1>4. StoreTypes' /\ RowsAreStored' /\ KeptInPlace' /\ WorkspaceIsNewest'
  BY <1>1, <1>2, <1>3 DEF IInv, StoreTypes, RowsAreStored, KeptInPlace, HasRow, WorkspaceIsNewest
<1>5. CarriedOnce'
  BY <1>1, <1>2, <1>3 DEF IInv, CarriedOnce, Writing
<1>6. RowsFollowTime'
  BY <1>1, <1>2 DEF IInv, RowsFollowTime, Table
<1>7. NoGaps'
  BY <1>2, <1>3 DEF IInv, NoGaps
<1>8. CoversAreKnown'
  <2>1. \A c, known : Covered(c, known) => Covered(c, known)'
    BY <1>1, <1>3 DEF Covered, WithinUsed
  <2>2. WithinUsed(covers)
    <3>1. /\ MaxSeq("messages") \in Nat
          /\ MaxSeq("messages") = 0 \/ MaxSeq("messages") \in DOMAIN rows["messages"]
      BY MaxSeqBounds DEF IInv, Tables
    <3>2. CASE MaxSeq("messages") = 0
      BY <1>1, <3>2 DEF WithinUsed
    <3>3. CASE MaxSeq("messages") \in DOMAIN rows["messages"]
      BY <1>1, <3>1, <3>3, RowIsUsed DEF WithinUsed
    <3> QED BY <3>1, <3>2, <3>3
  <2>3. Covered(covers, Stored)
    BY <2>2 DEF Covered, IInv, RowsAreStored, Tables
  <2> QED BY <1>1, <1>2, <2>1, <2>3 DEF IInv, CoversAreKnown
<1> QED BY <1>4, <1>5, <1>6, <1>7, <1>8 DEF IInv

-----------------------------------------------------------------------------
(* Calls that write.                                                       *)

\* What the commit of one item adds to the record.
LEMMA CommitAdds ==
    ASSUME StoreTypes, NEW item \in Items, NEW seq \in Nat,
           committed' = Append(committed, [item |-> item, seq |-> seq])
    PROVE  /\ committed' \in Seq([item : Items, seq : Nat])
           /\ Len(committed) \in Nat /\ Len(committed') = Len(committed) + 1
           /\ DOMAIN committed' = DOMAIN committed \cup {Len(committed')}
           /\ \A k \in DOMAIN committed : committed'[k] = committed[k]
           /\ committed'[Len(committed')] = [item |-> item, seq |-> seq]
           /\ Stored' = Stored \cup {item}
           /\ Used' = IF item \in Messages THEN Used \cup {seq} ELSE Used
<1> DEFINE n == Len(committed')
           record == [item |-> item, seq |-> seq]
<1>1. committed \in Seq([item : Items, seq : Nat]) /\ record \in [item : Items, seq : Nat]
  BY DEF StoreTypes
<1> HIDE DEF record
<1>2. /\ committed' \in Seq([item : Items, seq : Nat])
      /\ Len(committed) \in Nat /\ n = Len(committed) + 1
      /\ DOMAIN committed' = DOMAIN committed \cup {n}
      /\ \A k \in DOMAIN committed : committed'[k] = committed[k]
      /\ committed'[n] = record
  BY <1>1 DEF record
<1> HIDE DEF n
<1>3. record.item = item /\ record.seq = seq
  BY DEF record
<1>4. Stored' = Stored \cup {item}
  BY <1>2, <1>3 DEF Stored
<1>5. Used' = IF item \in Messages THEN Used \cup {seq} ELSE Used
  <2>1. CASE item \in Messages
    BY <1>2, <1>3, <2>1 DEF Used
  <2>2. CASE item \notin Messages
    BY <1>2, <1>3, <2>2 DEF Used
  <2> QED BY <2>1, <2>2
<1> QED BY <1>2, <1>4, <1>5 DEF n, record

\* INSERT of the next seq, when it is free.
Inserts(t) ==
    LET item == thread[t].item  table == Table(item)  seq == thread[t].seen + 1 IN
    /\ thread[t].op = "append" /\ End(t)
    /\ seq \notin DOMAIN rows[table]
    /\ rows' = [rows EXCEPT ![table] =
                  [k \in DOMAIN @ \cup {seq} |-> IF k = seq THEN item ELSE @[k]]]
    /\ committed' = Append(committed, [item |-> item, seq |-> seq])
    /\ UNCHANGED <<summary, workspace, earlier, trimmed>>

LEMMA InsertsKeeps ==
    ASSUME IInv, NEW t \in Threads, Inserts(t)
    PROVE  IInv'
<1> DEFINE item == thread[t].item
           table == Table(item)
           seq == thread[t].seen + 1
<1>1. /\ item \in DOMAIN earlier \ Stored /\ item \in Items /\ item \notin Captures
      /\ seq \in Nat \ {0} /\ table \in Tables /\ item \notin trimmed
  BY DEF Inserts, IInv, CarriedOnce, Writing, RowsFollowTime, Table, Tables, KeptInPlace
<1>2. /\ rows' = [x \in Tables |-> rows'[x]]
      /\ seq \notin DOMAIN rows[table]
      /\ DOMAIN rows'[table] = DOMAIN rows[table] \cup {seq}
      /\ rows'[table][seq] = item
      /\ \A n \in DOMAIN rows[table] : rows'[table][n] = rows[table][n]
      /\ \A x \in Tables \ {table} : rows'[x] = rows[x]
  BY <1>1 DEF Inserts, IInv, StoreTypes
<1>3. /\ thread' = [u \in Threads |-> thread'[u]] /\ thread'[t].op = "idle"
      /\ \A u \in Threads \ {t} : thread'[u] = thread[u]
  BY DEF Inserts, End, Idle, IInv, StoreTypes
<1>4. /\ committed' \in Seq([item : Items, seq : Nat])
      /\ Len(committed) \in Nat /\ Len(committed') = Len(committed) + 1
      /\ DOMAIN committed' = DOMAIN committed \cup {Len(committed')}
      /\ \A k \in DOMAIN committed : committed'[k] = committed[k]
      /\ committed'[Len(committed')] = [item |-> item, seq |-> seq]
      /\ Stored' = Stored \cup {item}
      /\ Used' = IF item \in Messages THEN Used \cup {seq} ELSE Used
  BY <1>1, CommitAdds DEF Inserts, IInv
<1>5. UNCHANGED <<summary, workspace, earlier, trimmed>>
  BY DEF Inserts
<1>6. /\ thread[t].seen \in 0..Len(committed) /\ thread[t].op = "append" /\ seq = thread[t].seen + 1
      /\ \A n \in DOMAIN rows[table] : rows[table][n] \in earlier[item] => n <= thread[t].seen
  BY DEF Inserts, IInv, RowsFollowTime
<1>7. seq <= Len(committed')
  BY <1>4, <1>6
<1> HIDE DEF item, table, seq
<1>8. StoreTypes'
  BY <1>2, <1>3, <1>4, <1>5 DEF IInv, StoreTypes
<1>9. CarriedOnce'
  <2>1. \A u \in Threads \ {t} : Writing(u) => thread[u].item # item
    BY <1>6 DEF IInv, CarriedOnce, Writing, item
  <2>2. \A u \in Threads : thread'[u].op \in {"append", "capture"} =>
          u # t /\ thread'[u] = thread[u]
    BY <1>3
  <2> QED BY <1>1, <1>4, <1>5, <2>1, <2>2 DEF IInv, CarriedOnce, Writing
<1>10. RowsAreStored'
  <2>1. /\ DOMAIN rows[table] \subseteq 1..Len(committed)
        /\ \A n \in DOMAIN rows[table] :
             rows[table][n] \in Stored \ Captures /\ Table(rows[table][n]) = table
        /\ \A m, n \in DOMAIN rows[table] : rows[table][m] = rows[table][n] => m = n
    BY <1>1 DEF IInv, RowsAreStored
  <2>2. DOMAIN rows'[table] \subseteq 1..Len(committed')
    BY <1>1, <1>2, <1>4, <1>7, <2>1
  <2>3. \A n \in DOMAIN rows'[table] :
          rows'[table][n] \in Stored' \ Captures /\ Table(rows'[table][n]) = table
    BY <1>1, <1>2, <1>4, <2>1 DEF table
  <2>4. \A m, n \in DOMAIN rows'[table] : rows'[table][m] = rows'[table][n] => m = n
    BY <1>1, <1>2, <2>1
  <2>5. \A x \in Tables \ {table} :
          /\ DOMAIN rows'[x] \subseteq 1..Len(committed')
          /\ \A n \in DOMAIN rows'[x] :
               rows'[x][n] \in Stored' \ Captures /\ Table(rows'[x][n]) = x
          /\ \A m, n \in DOMAIN rows'[x] : rows'[x][m] = rows'[x][n] => m = n
    BY <1>2, <1>4 DEF IInv, RowsAreStored
  <2> QED BY <2>2, <2>3, <2>4, <2>5 DEF RowsAreStored, Table
<1>11. KeptInPlace'
  <2>1. trimmed \subseteq Messages \cap Stored'
    BY <1>4 DEF IInv, KeptInPlace
  <2>2. \A n \in DOMAIN rows'["messages"] : rows'["messages"][n] \notin trimmed
    <3>1. CASE table = "messages"
      BY <1>1, <1>2, <3>1 DEF IInv, KeptInPlace
    <3>2. CASE table # "messages"
      BY <1>2, <3>2 DEF IInv, KeptInPlace, Tables
    <3> QED BY <3>1, <3>2
  <2>3. ASSUME NEW k \in DOMAIN committed', committed'[k].item \notin Captures
        PROVE  \/ HasRow(Table(committed[k].item), committed[k].seq, committed[k].item)'
               \/ committed'[k].item \in trimmed
    <3>1. CASE k = Len(committed')
      BY <1>2, <1>4, <3>1 DEF HasRow, table
    <3>2. CASE k # Len(committed')
      <4>1. k \in DOMAIN committed /\ committed'[k] = committed[k]
        BY <1>4, <2>3, <3>2
      <4>2. \/ HasRow(Table(committed[k].item), committed[k].seq, committed[k].item)
            \/ committed[k].item \in trimmed
        BY <2>3, <4>1 DEF IInv, KeptInPlace
      <4>3. Table(committed[k].item) \in Tables
        BY DEF Table, Tables
      <4> QED BY <1>2, <4>1, <4>2, <4>3 DEF HasRow
    <3> QED BY <3>1, <3>2
  <2> QED BY <1>5, <2>1, <2>2, <2>3 DEF KeptInPlace, Table
<1>12. RowsFollowTime'
  <2>1. ASSUME NEW x \in Tables, NEW m \in DOMAIN rows'[x], NEW n \in DOMAIN rows'[x],
               rows'[x][m] \in earlier[rows'[x][n]]
        PROVE  m < n
    <3>1. CASE x # table
      BY <1>2, <2>1, <3>1 DEF IInv, RowsFollowTime
    <3>2. CASE x = table /\ m # seq /\ n # seq
      BY <1>2, <2>1, <3>2 DEF IInv, RowsFollowTime
    <3>3. CASE x = table /\ m = seq
      \* item would have been stored before.
      <4>1. rows'[x][n] \in DOMAIN earlier
        BY <1>1, <1>2, <2>1, <3>3 DEF IInv, RowsAreStored, CarriedOnce
      <4>2. item \in Stored
        BY <1>2, <2>1, <3>3, <4>1 DEF IInv, CarriedOnce
      <4> QED BY <1>1, <4>2
    <3>4. CASE x = table /\ m # seq /\ n = seq
      <4>1. m \in DOMAIN rows[table] /\ rows[table][m] \in earlier[item]
        BY <1>2, <2>1, <3>4
      <4>2. m \in Nat
        BY <1>1, <4>1 DEF IInv, RowsAreStored
      <4> QED BY <1>6, <3>4, <4>1, <4>2
    <3> QED BY <3>1, <3>2, <3>3, <3>4
  <2>2. ASSUME NEW u \in Threads, thread'[u].op = "append"
        PROVE  /\ thread'[u].seen \in 0..Len(committed')
               /\ \A n \in DOMAIN rows'[Table(thread'[u].item)] :
                    rows'[Table(thread'[u].item)][n] \in earlier[thread'[u].item]
                      => n <= thread'[u].seen
    <3>1. u # t /\ thread'[u] = thread[u] /\ thread[u].item \in DOMAIN earlier
      BY <1>3, <2>2 DEF IInv, CarriedOnce, Writing
    <3>2. item \notin earlier[thread[u].item] /\ Table(thread[u].item) \in Tables
      BY <1>1, <3>1 DEF IInv, CarriedOnce, Table, Tables
    <3>3. /\ thread[u].seen \in 0..Len(committed)
          /\ \A n \in DOMAIN rows[Table(thread[u].item)] :
               rows[Table(thread[u].item)][n] \in earlier[thread[u].item] => n <= thread[u].seen
      BY <2>2, <3>1 DEF IInv, RowsFollowTime
    <3> QED BY <1>2, <1>4, <3>1, <3>2, <3>3
  <2> QED BY <1>5, <2>1, <2>2 DEF RowsFollowTime, Table
<1>13. WorkspaceIsNewest'
  BY <1>1, <1>4, <1>5 DEF IInv, WorkspaceIsNewest
<1>14. NoGaps'
  <2>1. CASE item \in Messages
    <3>1. thread[t].seen \in Used \cup {0} /\ Used' = Used \cup {seq}
      BY <1>4, <1>6, <2>1 DEF IInv, NoGaps, item
    <3>2. \A n \in 1..seq : n \in Used'
      <4> SUFFICES ASSUME NEW n \in 1..seq, n # seq PROVE n \in Used
        BY <3>1
      <4>1. n \in 1..thread[t].seen
        BY <1>1, <1>6
      <4> QED BY <3>1, <4>1 DEF IInv, NoGaps
    <3>3. \A v \in Used' : \A n \in 1..v : n \in Used'
      BY <3>1, <3>2 DEF IInv, NoGaps
    <3> QED BY <1>3, <3>1, <3>3 DEF IInv, NoGaps
  <2>2. CASE item \notin Messages
    BY <1>3, <1>4, <2>2 DEF IInv, NoGaps
  <2> QED BY <2>1, <2>2
<1>15. CoversAreKnown'
  <2>1. ASSUME NEW covers, NEW known, Covered(covers, known) PROVE Covered(covers, known)'
    <3>1. covers \in Nat /\ WithinUsed(covers)'
      BY <1>4, <2>1 DEF Covered, WithinUsed
    <3>2. ASSUME NEW n \in DOMAIN rows'["messages"], n <= covers
          PROVE  \/ rows'["messages"][n] \in known
                 \/ \E k \in DOMAIN committed' :
                      committed'[k].seq = n /\ committed'[k].item \in trimmed
      <4>1. CASE n \in DOMAIN rows["messages"]
        <5>1. rows'["messages"][n] = rows["messages"][n]
          BY <1>2, <4>1 DEF Tables
        <5>2. \/ rows["messages"][n] \in known
              \/ \E k \in DOMAIN committed :
                   committed[k].seq = n /\ committed[k].item \in trimmed
          BY <2>1, <3>2, <4>1 DEF Covered
        <5> QED BY <1>4, <5>1, <5>2
      <4>2. CASE n \notin DOMAIN rows["messages"]
        \* The number was given before, and the message that had it is gone.
        <5>1. n = seq /\ table = "messages"
          BY <1>2, <3>2, <4>2 DEF Tables
        <5>2. n \in Used
          <6>1. PICK v \in Used : covers <= v
            BY <1>1, <2>1, <3>2, <5>1 DEF Covered, WithinUsed
          <6>2. v \in Nat
            BY UsedType DEF IInv
          <6>3. n \in 1..v
            BY <1>1, <3>1, <3>2, <5>1, <6>1, <6>2
          <6> QED BY <6>1, <6>3 DEF IInv, NoGaps
        <5>3. PICK k \in DOMAIN committed : committed[k].item \in Messages /\ committed[k].seq = n
          BY <5>2 DEF Used
        <5>4. committed[k].item \in trimmed
          <6>1. committed[k].item \notin Captures /\ Table(committed[k].item) = "messages"
            BY <5>3, ItemsAssumption DEF Table
          <6> QED BY <4>2, <5>3, <6>1 DEF IInv, KeptInPlace, HasRow
        <5> QED BY <1>4, <5>3, <5>4
      <4> QED BY <4>1, <4>2
    <3> QED BY <1>5, <3>1, <3>2 DEF Covered
  <2> QED BY <1>3, <1>5, <2>1 DEF IInv, CoversAreKnown
<1> QED BY <1>8, <1>9, <1>10, <1>11, <1>12, <1>13, <1>14, <1>15 DEF IInv

\* The upsert of a capture: the row is now that of a call no stored one had seen.
LEMMA CaptureWritesKeeps ==
    ASSUME IInv, NEW t \in Threads, CaptureWrites(t)
    PROVE  IInv'
<1> DEFINE item == thread[t].item
<1>1. /\ item \in DOMAIN earlier \ Stored /\ item \in Items /\ item \in Captures
      /\ item \notin Messages
  BY ItemsAssumption DEF CaptureWrites, IInv, CarriedOnce, Writing
<1>2. /\ workspace' = item /\ UNCHANGED <<rows, summary, earlier, trimmed>>
      /\ committed' = Append(committed, [item |-> item, seq |-> 0])
  BY DEF CaptureWrites, Upserted
<1>3. /\ thread' = [u \in Threads |-> thread'[u]] /\ thread'[t].op = "idle"
      /\ \A u \in Threads \ {t} : thread'[u] = thread[u]
  BY DEF CaptureWrites, End, Idle, IInv, StoreTypes
<1>4. /\ committed' \in Seq([item : Items, seq : Nat])
      /\ Len(committed) \in Nat /\ Len(committed') = Len(committed) + 1
      /\ DOMAIN committed' = DOMAIN committed \cup {Len(committed')}
      /\ \A k \in DOMAIN committed : committed'[k] = committed[k]
      /\ committed'[Len(committed')] = [item |-> item, seq |-> 0]
      /\ Stored' = Stored \cup {item} /\ Used' = Used
  BY <1>1, <1>2, CommitAdds DEF IInv
<1>5. thread[t].op = "capture"
  BY DEF CaptureWrites
<1> HIDE DEF item
<1>6. StoreTypes'
  BY <1>2, <1>3, <1>4 DEF IInv, StoreTypes
<1>7. CarriedOnce'
  BY <1>1, <1>2, <1>3, <1>4, <1>5 DEF IInv, CarriedOnce, Writing, item
<1>8. RowsAreStored'
  BY <1>2, <1>4 DEF IInv, RowsAreStored
<1>9. KeptInPlace'
  <2>1. ASSUME NEW k \in DOMAIN committed', committed'[k].item \notin Captures
        PROVE  \/ HasRow(Table(committed[k].item), committed[k].seq, committed[k].item)'
               \/ committed'[k].item \in trimmed
    <3>1. k \in DOMAIN committed /\ committed'[k] = committed[k]
      BY <1>1, <1>4, <2>1
    <3>2. \/ HasRow(Table(committed[k].item), committed[k].seq, committed[k].item)
          \/ committed[k].item \in trimmed
      BY <2>1, <3>1 DEF IInv, KeptInPlace
    <3> QED BY <1>2, <3>1, <3>2 DEF HasRow
  <2> QED BY <1>2, <1>4, <2>1 DEF IInv, KeptInPlace, Table
<1>10. RowsFollowTime'
  <2>1. \A u \in Threads : thread'[u].op = "append" => thread'[u] = thread[u]
    BY <1>3
  <2>2. 0..Len(committed) \subseteq 0..Len(committed')
    BY <1>4
  <2> QED BY <1>2, <2>1, <2>2 DEF IInv, RowsFollowTime, Table
<1>11. WorkspaceIsNewest'
  BY <1>1, <1>2, <1>4 DEF IInv, WorkspaceIsNewest, CarriedOnce
<1>12. NoGaps'
  BY <1>3, <1>4 DEF IInv, NoGaps
<1>13. CoversAreKnown'
  <2>1. \A covers, known : Covered(covers, known) => Covered(covers, known)'
    BY <1>2, <1>4 DEF Covered, WithinUsed
  <2> QED BY <1>2, <1>3, <2>1 DEF IInv, CoversAreKnown
<1> QED BY <1>6, <1>7, <1>8, <1>9, <1>10, <1>11, <1>12, <1>13 DEF IInv

LEMMA SummarizeWritesKeeps ==
    ASSUME IInv, NEW t \in Threads, SummarizeWrites(t)
    PROVE  IInv'
<1>1. /\ UNCHANGED <<rows, workspace, committed, earlier, trimmed>>
      /\ summary'.covers = thread[t].covers /\ summary'.known = thread[t].known
      /\ thread[t].op = "summarize"
  BY DEF SummarizeWrites, history
<1>2. /\ thread' = [u \in Threads |-> thread'[u]] /\ thread'[t].op = "idle"
      /\ \A u \in Threads \ {t} : thread'[u] = thread[u]
  BY DEF SummarizeWrites, End, Idle, IInv, StoreTypes
<1>3. Stored' = Stored /\ Used' = Used
  BY <1>1 DEF Stored, Used
<1>4. StoreTypes' /\ RowsAreStored' /\ KeptInPlace' /\ WorkspaceIsNewest'
  BY <1>1, <1>2, <1>3 DEF IInv, StoreTypes, RowsAreStored, KeptInPlace, HasRow, WorkspaceIsNewest
<1>5. CarriedOnce'
  BY <1>1, <1>2, <1>3 DEF IInv, CarriedOnce, Writing
<1>6. RowsFollowTime'
  BY <1>1, <1>2 DEF IInv, RowsFollowTime
<1>7. NoGaps'
  BY <1>2, <1>3 DEF IInv, NoGaps
<1>8. CoversAreKnown'
  <2>1. \A c, known : Covered(c, known) => Covered(c, known)'
    BY <1>1, <1>3 DEF Covered, WithinUsed
  <2>2. Covered(thread[t].covers, thread[t].known)
    BY <1>1 DEF IInv, CoversAreKnown
  <2>3. Covered(summary.covers, summary.known)'
    BY <1>1, <1>3, <2>2 DEF Covered, WithinUsed
  <2> QED BY <1>2, <2>1, <2>3 DEF IInv, CoversAreKnown
<1> QED BY <1>4, <1>5, <1>6, <1>7, <1>8 DEF IInv

\* DELETE up to what a summary covered: what goes is noted, what stays is in place.
LEMMA TrimWritesKeeps ==
    ASSUME IInv, NEW t \in Threads, TrimWrites(t)
    PROVE  IInv'
<1> DEFINE gone == {k \in DOMAIN rows["messages"] : k <= thread[t].covers}
<1>1. /\ UNCHANGED <<summary, workspace, committed, earlier>>
      /\ rows' = [x \in Tables |-> rows'[x]]
      /\ DOMAIN rows'["messages"] = DOMAIN rows["messages"] \ gone
      /\ \A n \in DOMAIN rows'["messages"] : rows'["messages"][n] = rows["messages"][n]
      /\ rows'["tool_invocations"] = rows["tool_invocations"]
      /\ trimmed' = trimmed \cup {rows["messages"][k] : k \in gone}
  BY DEF TrimWrites, IInv, StoreTypes, Tables
<1>2. gone \subseteq DOMAIN rows["messages"]
  OBVIOUS
<1> HIDE DEF gone
<1>3. /\ thread' = [u \in Threads |-> thread'[u]] /\ thread'[t].op = "idle"
      /\ \A u \in Threads \ {t} : thread'[u] = thread[u]
  BY DEF TrimWrites, End, Idle, IInv, StoreTypes
<1>4. Stored' = Stored /\ Used' = Used
  BY <1>1 DEF Stored, Used
<1>5. \A x \in Tables : /\ DOMAIN rows'[x] \subseteq DOMAIN rows[x]
                        /\ \A n \in DOMAIN rows'[x] : rows'[x][n] = rows[x][n]
  BY <1>1 DEF Tables
<1>6. StoreTypes'
  BY <1>1, <1>3 DEF IInv, StoreTypes
<1>7. CarriedOnce'
  BY <1>1, <1>3, <1>4 DEF IInv, CarriedOnce, Writing
<1>8. RowsAreStored'
  BY <1>1, <1>4, <1>5 DEF IInv, RowsAreStored
<1>9. KeptInPlace'
  <2>1. trimmed' \subseteq Messages \cap Stored
    BY <1>1, <1>2 DEF IInv, KeptInPlace, RowsAreStored, Tables, Table
  <2>2. \A n \in DOMAIN rows'["messages"] : rows'["messages"][n] \notin trimmed'
    BY <1>1, <1>2 DEF IInv, KeptInPlace, RowsAreStored, Tables
  <2>3. ASSUME NEW k \in DOMAIN committed, committed[k].item \notin Captures
        PROVE  \/ HasRow(Table(committed[k].item), committed[k].seq, committed[k].item)'
               \/ committed[k].item \in trimmed'
    <3>1. \/ HasRow(Table(committed[k].item), committed[k].seq, committed[k].item)
          \/ committed[k].item \in trimmed
      BY <2>3 DEF IInv, KeptInPlace
    <3>2. CASE committed[k].item \in Messages
      BY <1>1, <3>1, <3>2 DEF HasRow, Table
    <3>3. CASE committed[k].item \notin Messages
      BY <1>1, <3>1, <3>3 DEF HasRow, Table
    <3> QED BY <3>2, <3>3
  <2> QED BY <1>1, <1>4, <2>1, <2>2, <2>3 DEF KeptInPlace
<1>10. RowsFollowTime'
  <2>1. \A x \in Tables : \A m, n \in DOMAIN rows'[x] :
          rows'[x][m] \in earlier[rows'[x][n]] => m < n
    BY <1>5 DEF IInv, RowsFollowTime
  <2>2. \A x : Table(x) \in Tables
    BY DEF Table, Tables
  <2> QED BY <1>1, <1>3, <1>5, <2>1, <2>2 DEF IInv, RowsFollowTime
<1>11. WorkspaceIsNewest'
  BY <1>1, <1>4 DEF IInv, WorkspaceIsNewest
<1>12. NoGaps'
  BY <1>3, <1>4 DEF IInv, NoGaps
<1>13. CoversAreKnown'
  <2>1. \A covers, known : Covered(covers, known) => Covered(covers, known)'
    BY <1>1, <1>4 DEF Covered, WithinUsed
  <2> QED BY <1>1, <1>3, <2>1 DEF IInv, CoversAreKnown
<1> QED BY <1>6, <1>7, <1>8, <1>9, <1>10, <1>11, <1>12, <1>13 DEF IInv

-----------------------------------------------------------------------------
(* The theorems.                                                           *)

LEMMA Initially == Init => IInv
<1> SUFFICES ASSUME Init PROVE IInv
  OBVIOUS
<1>1. /\ rows = [table \in Tables |-> <<>>] /\ summary = None
      /\ thread = [t \in Threads |-> Idle] /\ \A t \in Threads : thread[t].op = "idle"
      /\ committed = <<>> /\ earlier = <<>> /\ trimmed = {}
  BY DEF Init, Tables, Idle
<1>2. DOMAIN committed = {} /\ DOMAIN earlier = {}
      /\ \A table \in Tables : DOMAIN rows[table] = {}
  BY <1>1
<1>3. Stored = {} /\ Used = {}
  BY <1>2 DEF Stored, Used
<1>4. StoreTypes
  BY <1>1 DEF StoreTypes
<1>5. CarriedOnce
  BY <1>1, <1>2, <1>3 DEF CarriedOnce, Writing
<1>6. RowsAreStored /\ KeptInPlace
  BY <1>1, <1>2 DEF RowsAreStored, KeptInPlace, Tables
<1>7. RowsFollowTime /\ WorkspaceIsNewest /\ NoGaps /\ CoversAreKnown
  BY <1>1, <1>2, <1>3 DEF RowsFollowTime, WorkspaceIsNewest, NoGaps, CoversAreKnown
<1> QED BY <1>4, <1>5, <1>6, <1>7 DEF IInv

\* The invariant is inductive: one step for each call of the managers.
LEMMA Inductive == IInv /\ [Next]_vars => IInv'
<1> SUFFICES ASSUME IInv, [Next]_vars PROVE IInv'
  OBVIOUS
<1>1. CASE CreateSession
  <2>1. Quiet
    BY <1>1 DEF CreateSession, history, Quiet, IInv, StoreTypes
  <2> QED BY <2>1, QuietKeeps
<1>2. CASE Restart
  <2>1. Quiet
    BY <1>2 DEF Restart, history, Quiet, Idle
  <2> QED BY <2>1, QuietKeeps
<1>3. ASSUME NEW t \in Threads, NEW kind \in {Messages, Calls}, NEW item \in Fresh(kind),
             AppendReads(t, item)
      PROVE  IInv'
  BY <1>3, AppendReadsKeeps DEF Fresh
<1>4. ASSUME NEW t \in Threads, AppendWrites(t) PROVE IInv'
  <2>1. CASE thread[t].seen + 1 \notin DOMAIN rows[Table(thread[t].item)]
    <3>1. Inserts(t)
      BY <1>4, <2>1 DEF AppendWrites, Inserts
    <3> QED BY <3>1, InsertsKeeps
  <2>2. CASE thread[t].seen + 1 \in DOMAIN rows[Table(thread[t].item)]
    <3>1. Quiet
      BY <1>4, <2>2 DEF AppendWrites, End, Idle, Quiet, IInv, StoreTypes
    <3> QED BY <3>1, QuietKeeps
  <2> QED BY <2>1, <2>2
<1>5. ASSUME NEW t \in Threads, NEW item \in Fresh(Captures), CaptureBegins(t, item) PROVE IInv'
  BY <1>5, CaptureBeginsKeeps DEF Fresh
<1>6. ASSUME NEW t \in Threads, CaptureWrites(t) PROVE IInv'
  BY <1>6, CaptureWritesKeeps
<1>7. ASSUME NEW t \in Threads, NEW covers \in 0..Cardinality(Messages), NEW text \in Texts,
             SummarizeReads(t, covers, text)
      PROVE  IInv'
  BY <1>7, SummarizeReadsKeeps
<1>8. ASSUME NEW t \in Threads, SummarizeWrites(t) PROVE IInv'
  BY <1>8, SummarizeWritesKeeps
<1>9. ASSUME NEW t \in Threads, TrimReads(t) PROVE IInv'
  <2>1. Quiet
    BY <1>9 DEF TrimReads, Begin, history, Quiet, IInv, StoreTypes
  <2> QED BY <2>1, QuietKeeps
<1>10. ASSUME NEW t \in Threads, TrimWrites(t) PROVE IInv'
  BY <1>10, TrimWritesKeeps
<1>11. ASSUME NEW t \in Threads, ReadSummary(t) PROVE IInv'
  <2>1. Quiet
    BY <1>11 DEF ReadSummary, Begin, history, Quiet, IInv, StoreTypes
  <2> QED BY <2>1, QuietKeeps
<1>12. ASSUME NEW t \in Threads, ReadMessages(t) PROVE IInv'
  <2>1. Quiet
    BY <1>12 DEF ReadMessages, history, Quiet, IInv, StoreTypes
  <2> QED BY <2>1, QuietKeeps
<1>13. ASSUME NEW t \in Threads, NEW b \in Budgets, Assemble(t, b) PROVE IInv'
  <2>1. UNCHANGED <<created, rows, summary, workspace, thread, calls, committed, earlier, trimmed>>
    BY <1>13, Zenon DEF Assemble
  <2>2. Quiet
    BY <2>1 DEF Quiet, IInv, StoreTypes
  <2> QED BY <2>2, QuietKeeps
<1>14. ASSUME NEW t \in Threads, WriteTimesOut(t) PROVE IInv'
  <2>1. Quiet
    BY <1>14 DEF WriteTimesOut, End, Idle, history, Quiet, IInv, StoreTypes
  <2> QED BY <2>1, QuietKeeps
<1>15. CASE UNCHANGED vars
  <2>1. Quiet
    BY <1>15 DEF vars, Quiet, IInv, StoreTypes
  <2> QED BY <2>1, QuietKeeps
<1> QED BY <1>1, <1>2, <1>3, <1>4, <1>5, <1>6, <1>7, <1>8, <1>9, <1>10, <1>11, <1>12, <1>13,
        <1>14, <1>15
     DEF Next, AppendMessage, RecordTerminal, RecordFilesystem

THEOREM InvariantHolds == Spec => []IInv
<1> QED BY Initially, Inductive, PTL DEF Spec

\* append_message and _insert_invocation lose nothing they reported as stored: it
\* is in its table, or a trim deleted it, whatever raced for the same seq.
THEOREM StoredIsKeptHolds == Spec => []StoredIsKept
<1>1. IInv => StoredIsKept
  BY DEF IInv, KeptInPlace, HasRow, InTable, StoredIsKept
<1> QED BY <1>1, InvariantHolds, PTL

\* The seq of a stored item is the one row that holds it.
LEMMA SeqInIsRow ==
    ASSUME IInv, NEW item \in Items, InTable(item)
    PROVE  HasRow(Table(item), SeqIn(item), item)
BY DEF InTable, SeqIn, HasRow

\* MAX(seq) + 1 orders by real time, although it is read outside the transaction
\* that inserts it: what was stored before a call began is numbered below it.
THEOREM SeqFollowsTimeHolds == Spec => []SeqFollowsTime
<1>1. IInv => SeqFollowsTime
  <2> SUFFICES ASSUME IInv, NEW i \in DOMAIN earlier, NEW j \in DOMAIN earlier,
                      Table(i) = Table(j), InTable(i), InTable(j), i \in earlier[j]
               PROVE  SeqIn(i) < SeqIn(j)
    BY DEF SeqFollowsTime
  <2>1. HasRow(Table(i), SeqIn(i), i) /\ HasRow(Table(i), SeqIn(j), j)
    BY SeqInIsRow DEF IInv, CarriedOnce
  <2>2. Table(i) \in Tables
    BY DEF Table, Tables
  <2> QED BY <2>1, <2>2 DEF IInv, RowsFollowTime, HasRow
<1> QED BY <1>1, InvariantHolds, PTL

\* The workspace snapshot and the terminal state that clients read are never those
\* of a call that was over before another stored call of the kind began.
THEOREM CurrentIsNewestHolds == Spec => []CurrentIsNewest
<1>1. IInv => CurrentIsNewest
  <2> SUFFICES ASSUME IInv, NEW j \in Stored
               PROVE  /\ j \in Captures => workspace \notin earlier[j]
                      /\ j \in Calls /\ ToolOf[j] = "terminal" => TerminalState \notin earlier[j]
    BY DEF CurrentIsNewest
  <2>1. j \in Captures => workspace \notin earlier[j]
    BY DEF IInv, WorkspaceIsNewest
  <2>2. ASSUME j \in Calls, ToolOf[j] = "terminal", TerminalState \in earlier[j]
        PROVE  FALSE
    <3> DEFINE table == rows["tool_invocations"]
               terminal == HistoryRows("terminal")
               last == CHOOSE n \in terminal : \A k \in terminal : k <= n
    <3>1. j \notin Captures /\ j \notin Messages /\ Table(j) = "tool_invocations"
      BY <2>2, ItemsAssumption DEF Table
    <3>2. PICK n \in DOMAIN table : table[n] = j
      <4>1. PICK k \in DOMAIN committed : committed[k].item = j
        BY DEF Stored
      <4> QED BY <3>1, <4>1 DEF IInv, KeptInPlace, HasRow
    <3>3. n \in terminal
      BY <2>2, <3>2 DEF HistoryRows
    <3>4. terminal \in SUBSET (1..Len(committed)) /\ Len(committed) \in Nat
      BY DEF HistoryRows, IInv, RowsAreStored, Tables, StoreTypes
    <3>5. \E m \in terminal : \A k \in terminal : k <= m
      BY <3>3, <3>4, GreatestOf
    <3>6. last \in terminal /\ n <= last
      BY <3>3, <3>5
    <3>7. TerminalState = table[last]
      BY <3>3 DEF TerminalState
    <3>8. last \in DOMAIN table
      BY <3>6 DEF HistoryRows
    <3> HIDE DEF last, terminal
    <3>9. last < n
      BY <2>2, <3>2, <3>7, <3>8 DEF IInv, RowsFollowTime, Tables
    <3> QED BY <3>3, <3>4, <3>6, <3>9
  <2> QED BY <2>1, <2>2
<1> QED BY <1>1, InvariantHolds, PTL

\* summarize can be checked before and written after other appends and trims: a
\* message it covers was stored when it was checked, or took the number of one that
\* a trim deleted.
THEOREM CoversOnlyKnownHolds == Spec => []CoversOnlyKnown
<1>1. IInv => CoversOnlyKnown
  BY DEF IInv, CoversAreKnown, Covered, CoversOnlyKnown
<1> QED BY <1>1, InvariantHolds, PTL

-----------------------------------------------------------------------------
(* What readers are shown.                                                 *)

\* A message a reader knew of is in what it was shown, was trimmed, or has a row
\* that its summary covers.
AccountedFor(t, m) ==
    \/ \E k \in DOMAIN thread[t].session.messages : thread[t].session.messages[k].item = m
    \/ m \in trimmed
    \/ /\ thread[t].session.summary # None
       /\ \E n \in DOMAIN rows["messages"] :
            n <= thread[t].session.summary.covers /\ rows["messages"][n] = m
ReadsAreComplete ==
    \A t \in Threads :
        /\ thread[t].op = "read" =>
             /\ thread[t].known \subseteq Stored
             /\ thread[t].summary # None => thread[t].summary.covers \in Nat
        /\ thread[t].op = "session" => \A m \in thread[t].known \cap Messages : AccountedFor(t, m)

\* ORDER BY: how many numbers of a set are at or below a number.
PlaceOf(S, n) == Cardinality({k \in S : k <= n})

LEMMA PlacesDiffer ==
    ASSUME NEW N \in Nat, NEW S \in SUBSET (1..N)
    PROVE  /\ IsFiniteSet(S) /\ Cardinality(S) \in Nat
           /\ \A n \in S : PlaceOf(S, n) \in 1..Cardinality(S)
           /\ \A m, n \in S : PlaceOf(S, m) = PlaceOf(S, n) => m = n
<1> DEFINE Below(m) == {k \in S : k <= m}
<1>1. IsFiniteSet(S)
  <2>1. IsFiniteSet(1..N)
    BY FS_Interval
  <2> QED BY <2>1, FS_Subset
<1>2. \A m \in S : IsFiniteSet(Below(m)) /\ Cardinality(Below(m)) \in Nat
  BY <1>1, FS_Subset, FS_CardinalityType
<1>3. \A m \in S : Cardinality(Below(m)) <= Cardinality(S)
  BY <1>1, FS_Subset
<1>4. ASSUME NEW m \in S PROVE Cardinality(Below(m)) # 0
  <2>1. m \in Below(m)
    OBVIOUS
  <2> QED BY <1>2, <2>1, FS_EmptySet
<1>5. ASSUME NEW a \in S, NEW b \in S, a < b
      PROVE  Cardinality(Below(a)) < Cardinality(Below(b))
  <2>0. S \subseteq Int
    OBVIOUS
  <2>1. Below(a) \subseteq Below(b) /\ b \in Below(b) /\ b \notin Below(a)
    <3>1. \A k \in S : k <= a => k <= b
      BY <1>5, <2>0
    <3>2. b <= b /\ ~(b <= a)
      BY <1>5, <2>0
    <3> QED BY <3>1, <3>2
  <2>2. Below(a) # Below(b)
    BY <2>1
  <2> HIDE DEF Below
  <2>3. /\ Cardinality(Below(a)) <= Cardinality(Below(b))
        /\ Cardinality(Below(a)) # Cardinality(Below(b))
    BY <1>2, <2>1, <2>2, FS_Subset
  <2> QED BY <1>2, <2>3
<1>6. \A m \in S : PlaceOf(S, m) = Cardinality(Below(m))
  BY DEF PlaceOf
<1> HIDE DEF Below
<1>7. Cardinality(S) \in Nat
  BY <1>1, FS_CardinalityType
<1>8. ASSUME NEW m \in S, NEW n \in S, PlaceOf(S, m) = PlaceOf(S, n) PROVE m = n
  <2>1. m < n \/ n < m \/ m = n
    OBVIOUS
  <2> QED BY <1>2, <1>5, <1>6, <1>8, <2>1
<1>9. \A n \in S : PlaceOf(S, n) \in 1..Cardinality(S)
  BY <1>2, <1>3, <1>4, <1>6, <1>7
<1> QED BY <1>1, <1>7, <1>8, <1>9

\* ORDER BY leaves nothing out: every number of a finite set has a place, below or
\* at their count, and is the one NthOf finds there.
LEMMA EveryNumberHasAPlace ==
    ASSUME NEW N \in Nat, NEW S \in SUBSET (1..N), NEW n \in S
    PROVE  \E i \in 1..Cardinality(S) : NthOf(S, i) = n
<1>1. PlaceOf(S, n) \in 1..Cardinality(S) /\ \A m \in S : PlaceOf(S, m) = PlaceOf(S, n) => m = n
  BY PlacesDiffer
<1>2. NthOf(S, PlaceOf(S, n)) = n
  BY <1>1 DEF NthOf, PlaceOf
<1> QED BY <1>1, <1>2

\* ... and it adds nothing: at every place there is one of the numbers.
LEMMA EveryPlaceHasANumber ==
    ASSUME NEW N \in Nat, NEW S \in SUBSET (1..N), NEW i \in 1..Cardinality(S)
    PROVE  NthOf(S, i) \in S
<1> DEFINE f == [n \in S |-> PlaceOf(S, n)]
           T == 1..Cardinality(S)
<1>1. /\ IsFiniteSet(S) /\ Cardinality(S) \in Nat
      /\ \A n \in S : PlaceOf(S, n) \in T
      /\ \A m, n \in S : PlaceOf(S, m) = PlaceOf(S, n) => m = n
  BY PlacesDiffer
<1>2. IsFiniteSet(T) /\ Cardinality(T) = Cardinality(S)
  BY <1>1, FS_Interval
<1>3. f \in Injection(S, T)
  BY <1>1 DEF Injection, IsInjective
<1> HIDE DEF f, T
<1>4. f \in Surjection(S, T)
  BY <1>2, <1>3, FS_Injection, Zenon
<1>5. PICK n \in S : f[n] = i
  BY <1>4 DEF Surjection, T
<1>6. PlaceOf(S, n) = i
  BY <1>5 DEF f
<1> QED BY <1>6 DEF NthOf, PlaceOf
\* The SELECT behind a summary returns every row above what the summary covers.
LEMMA RowsBehindAreShown ==
    ASSUME IInv, NEW s, NEW n \in DOMAIN rows["messages"], IsBehind(n, s)
    PROVE  \E i \in DOMAIN SessionAt(s, rows["messages"]).messages :
             SessionAt(s, rows["messages"]).messages[i].item = rows["messages"][n]
<1> DEFINE table == rows["messages"]
           behind == {k \in DOMAIN table : IsBehind(k, s)}
<1>1. behind \in SUBSET (1..Len(committed)) /\ Len(committed) \in Nat /\ n \in behind
  BY DEF IInv, RowsAreStored, StoreTypes, Tables
<1>2. PICK i \in 1..Cardinality(behind) : NthOf(behind, i) = n
  BY <1>1, EveryNumberHasAPlace
<1> HIDE DEF behind
<1>3. SessionAt(s, table).messages =
        [k \in 1..Cardinality(behind) |-> [seq |-> NthOf(behind, k),
                                           item |-> table[NthOf(behind, k)]]]
  BY DEF SessionAt, behind
<1> QED BY <1>2, <1>3

\* Steps that take no row away without trimming it, and do not touch readers.
Onward ==
    /\ Stored \subseteq Stored' /\ trimmed \subseteq trimmed'
    /\ \A n \in DOMAIN rows["messages"] :
         \/ n \in DOMAIN rows'["messages"] /\ rows'["messages"][n] = rows["messages"][n]
         \/ rows["messages"][n] \in trimmed'
    /\ \A t \in Threads : thread'[t].op \in {"read", "session"} => thread'[t] = thread[t]

LEMMA OnwardKeeps == ReadsAreComplete /\ Onward => ReadsAreComplete'
<1> SUFFICES ASSUME ReadsAreComplete, Onward, NEW t \in Threads,
                    thread'[t].op \in {"read", "session"}
             PROVE  /\ thread'[t].op = "read" =>
                         /\ thread'[t].known \subseteq Stored'
                         /\ thread'[t].summary # None => thread'[t].summary.covers \in Nat
                    /\ thread'[t].op = "session" =>
                         \A m \in thread'[t].known \cap Messages : AccountedFor(t, m)'
  BY DEF ReadsAreComplete
<1>1. thread'[t] = thread[t]
  BY DEF Onward
<1>2. CASE thread[t].op = "read"
  BY <1>1, <1>2 DEF ReadsAreComplete, Onward
<1>3. CASE thread[t].op = "session"
  <2> SUFFICES ASSUME NEW m \in thread[t].known \cap Messages PROVE AccountedFor(t, m)'
    BY <1>1, <1>3
  <2>1. AccountedFor(t, m)
    BY <1>3 DEF ReadsAreComplete
  <2> QED BY <1>1, <2>1 DEF AccountedFor, Onward
<1> QED BY <1>1, <1>2, <1>3

\* read_session's second SELECT: what was stored when the read began has a row by
\* now or was trimmed, and a row is above what the summary covers or not.
LEMMA ReadMessagesKeeps ==
    ASSUME IInv, ReadsAreComplete, NEW t \in Threads, ReadMessages(t)
    PROVE  ReadsAreComplete'
<1> DEFINE s == thread[t].summary
           session == SessionAt(s, rows["messages"])
<1>1. /\ UNCHANGED <<rows, committed, trimmed>>
      /\ thread[t].op = "read"
      /\ thread' = [thread EXCEPT ![t] = [op |-> "session", session |-> session,
                                          known |-> thread[t].known]]
  BY DEF ReadMessages, history
<1>2. session.summary = s
  BY DEF SessionAt
<1> HIDE DEF session
<1>3. /\ thread'[t].op = "session" /\ thread'[t].session = session
      /\ thread'[t].known = thread[t].known
      /\ \A u \in Threads \ {t} : thread'[u] = thread[u]
  BY <1>1 DEF IInv, StoreTypes
<1>4. Stored' = Stored
  BY <1>1 DEF Stored
<1>5. ASSUME NEW m \in thread[t].known \cap Messages
      PROVE  AccountedFor(t, m)'
  <2>1. m \in Stored
    BY <1>1 DEF ReadsAreComplete
  <2>2. PICK k \in DOMAIN committed : committed[k].item = m
    BY <2>1 DEF Stored
  <2>3. m \in trimmed \/ \E n \in DOMAIN rows["messages"] : rows["messages"][n] = m
    BY <2>2, ItemsAssumption DEF IInv, KeptInPlace, HasRow, Table
  <2>4. CASE m \in trimmed
    BY <1>1, <2>4 DEF AccountedFor
  <2>5. ASSUME NEW n \in DOMAIN rows["messages"], rows["messages"][n] = m
        PROVE  AccountedFor(t, m)'
    <3>1. n \in Nat /\ n > 0
      BY DEF IInv, RowsAreStored, StoreTypes, Tables
    <3>2. CASE IsBehind(n, s)
      BY <1>3, <2>5, <3>2, RowsBehindAreShown DEF AccountedFor, session
    <3>3. CASE ~IsBehind(n, s)
      <4>1. s # None /\ s.covers \in Nat /\ n <= s.covers
        BY <1>1, <3>1, <3>3 DEF IsBehind, ReadsAreComplete
      <4> QED BY <1>1, <1>2, <1>3, <2>5, <4>1 DEF AccountedFor
    <3> QED BY <3>2, <3>3
  <2> QED BY <2>3, <2>4, <2>5
<1>6. ASSUME NEW u \in Threads \ {t}, thread[u].op = "session",
             NEW m \in thread[u].known \cap Messages
      PROVE  AccountedFor(u, m)'
  BY <1>1, <1>3, <1>6 DEF ReadsAreComplete, AccountedFor
<1> QED BY <1>3, <1>4, <1>5, <1>6 DEF ReadsAreComplete

LEMMA ReadsStayComplete == IInv /\ ReadsAreComplete /\ [Next]_vars => ReadsAreComplete'
<1> SUFFICES ASSUME IInv, ReadsAreComplete, [Next]_vars PROVE ReadsAreComplete'
  OBVIOUS
<1> DEFINE Still == UNCHANGED <<rows, committed, trimmed>>
           Apart == \A u \in Threads : thread'[u].op \in {"read", "session"}
                                         => thread'[u] = thread[u]
<1>0. ASSUME Still, Apart PROVE ReadsAreComplete'
  BY <1>0, OnwardKeeps DEF Onward, Stored
<1>1. CASE CreateSession \/ Restart \/ UNCHANGED vars
  BY <1>0, <1>1 DEF CreateSession, Restart, vars, history, Idle
<1>2. ASSUME NEW t \in Threads, NEW item, AppendReads(t, item) \/ CaptureBegins(t, item)
      PROVE  ReadsAreComplete'
  BY <1>0, <1>2 DEF AppendReads, CaptureBegins, Begin, IInv, StoreTypes
<1>3. ASSUME NEW t \in Threads, AppendWrites(t) PROVE ReadsAreComplete'
  <2>1. CASE thread[t].seen + 1 \notin DOMAIN rows[Table(thread[t].item)]
    <3>1. Inserts(t)
      BY <1>3, <2>1 DEF AppendWrites, Inserts
    <3> DEFINE item == thread[t].item
               seq == thread[t].seen + 1
    <3>2. item \in Items /\ seq \in Nat /\ Table(item) \in Tables
      BY <3>1 DEF Inserts, IInv, CarriedOnce, Writing, RowsFollowTime, Table, Tables
    <3>3. Stored' = Stored \cup {item}
      BY <3>1, <3>2, CommitAdds DEF Inserts, IInv
    <3>4. \A n \in DOMAIN rows["messages"] :
            n \in DOMAIN rows'["messages"] /\ rows'["messages"][n] = rows["messages"][n]
      BY <3>1, <3>2 DEF Inserts, IInv, StoreTypes, Tables
    <3>5. Apart /\ trimmed' = trimmed
      BY <3>1 DEF Inserts, End, Idle, IInv, StoreTypes
    <3> QED BY <3>3, <3>4, <3>5, OnwardKeeps DEF Onward
  <2>2. CASE thread[t].seen + 1 \in DOMAIN rows[Table(thread[t].item)]
    BY <1>0, <1>3, <2>2 DEF AppendWrites, End, Idle, IInv, StoreTypes
  <2> QED BY <2>1, <2>2
<1>4. ASSUME NEW t \in Threads, CaptureWrites(t) PROVE ReadsAreComplete'
  <2>1. thread[t].item \in Items
    BY <1>4 DEF CaptureWrites, IInv, CarriedOnce, Writing
  <2>2. Stored' = Stored \cup {thread[t].item}
    BY <1>4, <2>1, CommitAdds DEF CaptureWrites, IInv
  <2>3. Apart /\ UNCHANGED <<rows, trimmed>>
    BY <1>4 DEF CaptureWrites, End, Idle, IInv, StoreTypes
  <2> QED BY <2>2, <2>3, OnwardKeeps DEF Onward
<1>5. ASSUME NEW t \in Threads, NEW covers, NEW text, SummarizeReads(t, covers, text)
      PROVE  ReadsAreComplete'
  BY <1>0, <1>5 DEF SummarizeReads, Begin, history, IInv, StoreTypes
<1>6. ASSUME NEW t \in Threads, SummarizeWrites(t) \/ TrimReads(t) \/ WriteTimesOut(t)
      PROVE  ReadsAreComplete'
  BY <1>0, <1>6 DEF SummarizeWrites, TrimReads, WriteTimesOut, Begin, End, Idle, history,
       IInv, StoreTypes
<1>7. ASSUME NEW t \in Threads, TrimWrites(t) PROVE ReadsAreComplete'
  <2>1. Apart /\ Stored' = Stored
    BY <1>7 DEF TrimWrites, End, Idle, Stored, IInv, StoreTypes
  <2>2. /\ trimmed \subseteq trimmed'
        /\ \A n \in DOMAIN rows["messages"] :
             \/ n \in DOMAIN rows'["messages"] /\ rows'["messages"][n] = rows["messages"][n]
             \/ rows["messages"][n] \in trimmed'
    BY <1>7 DEF TrimWrites, IInv, StoreTypes, Tables
  <2> QED BY <2>1, <2>2, OnwardKeeps DEF Onward
<1>8. ASSUME NEW t \in Threads, ReadSummary(t) PROVE ReadsAreComplete'
  <2>1. /\ UNCHANGED <<rows, committed, trimmed>>
        /\ thread'[t] = [op |-> "read", summary |-> summary, known |-> Stored \ trimmed]
        /\ \A u \in Threads \ {t} : thread'[u] = thread[u]
    BY <1>8 DEF ReadSummary, Begin, history, IInv, StoreTypes
  <2>2. Stored' = Stored
    BY <2>1 DEF Stored
  <2>3. summary # None => summary.covers \in Nat
    BY DEF IInv, CoversAreKnown, Covered
  <2>4. ASSUME NEW u \in Threads \ {t}, thread[u].op = "session",
               NEW m \in thread[u].known \cap Messages
        PROVE  AccountedFor(u, m)'
    BY <2>1, <2>4 DEF ReadsAreComplete, AccountedFor
  <2> QED BY <2>1, <2>2, <2>3, <2>4 DEF ReadsAreComplete
<1>9. ASSUME NEW t \in Threads, ReadMessages(t) PROVE ReadsAreComplete'
  BY <1>9, ReadMessagesKeeps
<1>10. ASSUME NEW t \in Threads, NEW b \in Budgets, Assemble(t, b) PROVE ReadsAreComplete'
  <2>1. UNCHANGED <<created, rows, summary, workspace, thread, calls, committed, earlier, trimmed>>
    BY <1>10, Zenon DEF Assemble
  <2> QED BY <1>0, <2>1
<1> QED BY <1>1, <1>2, <1>3, <1>4, <1>5, <1>6, <1>7, <1>8, <1>9, <1>10
     DEF Next, AppendMessage, RecordTerminal, RecordFilesystem

\* read_session reads the summary and the messages in two snapshots, between which
\* others append, summarize and trim.  It still shows every message stored before it
\* began that its summary does not cover and no trim deleted.
THEOREM ReadShowsAllHolds == Spec => []ReadShowsAll
<1>1. Init => ReadsAreComplete
  BY DEF Init, Idle, ReadsAreComplete
<1>2. IInv /\ ReadsAreComplete => ReadShowsAll
  <2> SUFFICES ASSUME IInv, NEW t \in Threads, thread[t].op = "session",
                      NEW m \in thread[t].known \cap Messages, AccountedFor(t, m)
               PROVE  \/ \E k \in DOMAIN thread[t].session.messages :
                           thread[t].session.messages[k].item = m
                      \/ m \in trimmed
                      \/ /\ thread[t].session.summary # None
                         /\ SeqIn(m) <= thread[t].session.summary.covers
    BY DEF ReadsAreComplete, ReadShowsAll
  <2>1. ASSUME NEW n \in DOMAIN rows["messages"], rows["messages"][n] = m
        PROVE  SeqIn(m) = n
    <3>1. Table(m) = "messages" /\ m \in Items
      BY DEF Table, Items
    <3>2. HasRow("messages", SeqIn(m), m)
      BY <2>1, <3>1, SeqInIsRow DEF InTable
    <3> QED BY <2>1, <3>2 DEF HasRow, IInv, RowsAreStored, Tables
  <2> QED BY <2>1 DEF AccountedFor
<1> QED BY <1>1, <1>2, ReadsStayComplete, InvariantHolds, PTL DEF Spec

-----------------------------------------------------------------------------
(* Sums over messages, and how many tokens they are.                       *)

\* The recursion of Sums defines a function.
LEMMA SumsExist ==
    ASSUME NEW f \in Seq(Nat)
    PROVE  \E s : s = [k \in 0..Len(f) |-> IF k = 0 THEN 0 ELSE s[k - 1] + f[k]]
<1> DEFINE n == Len(f)
           Adds(s, m) == s[0] = 0 /\ \A k \in 1..m : s[k] = s[k - 1] + f[k]
           S == {m \in 0..n : \E s \in [0..m -> Nat] : Adds(s, m)}
<1>0. n \in Nat /\ \A k \in 1..n : f[k] \in Nat
  OBVIOUS
<1>1. 0 \in S
  <2>1. [k \in 0..0 |-> 0] \in [0..0 -> Nat] /\ Adds([k \in 0..0 |-> 0], 0)
    OBVIOUS
  <2>2. 0 \in 0..n
    BY <1>0
  <2> HIDE DEF Adds
  <2>3. \E s \in [0..0 -> Nat] : Adds(s, 0)
    BY <2>1, Zenon
  <2> QED BY <2>2, <2>3, Zenon
<1>2. ASSUME NEW m \in 1..n, m - 1 \in S PROVE m \in S
  <2>1. PICK s \in [0..(m - 1) -> Nat] : Adds(s, m - 1)
    BY <1>2
  <2> DEFINE t == [k \in 0..m |-> IF k = m THEN s[m - 1] + f[m] ELSE s[k]]
  <2>2. t \in [0..m -> Nat]
    BY <1>0
  <2>3. t[0] = 0
    BY <2>1, <1>0
  <2>4. ASSUME NEW k \in 1..m PROVE t[k] = t[k - 1] + f[k]
    <3>1. k - 1 \in 0..m /\ k - 1 # m /\ k \in 0..m
      BY <1>0
    <3>2. t[k - 1] = s[k - 1]
      BY <3>1
    <3>3. k # m => k \in 1..(m - 1)
      BY <1>0
    <3> QED BY <2>1, <3>1, <3>2, <3>3
  <2> HIDE DEF t
  <2>5. Adds(t, m)
    BY <2>3, <2>4
  <2>6. m \in 0..n
    BY <1>0
  <2> QED BY <2>2, <2>5, <2>6
<1>3. 0..n \subseteq S
  <2> HIDE DEF S
  <2> QED BY <1>0, <1>1, <1>2, UpTo
<1>4. PICK s \in [0..n -> Nat] : Adds(s, n)
  <2>1. n \in 0..n
    BY <1>0
  <2> HIDE DEF Adds
  <2> QED BY <2>1, <1>3, Zenon
<1>5. \A k \in 0..n : s[k] = IF k = 0 THEN 0 ELSE s[k - 1] + f[k]
  BY <1>0, <1>4
<1>6. s = [k \in 0..n |-> s[k]]
  BY <1>4
<1>7. s = [k \in 0..n |-> IF k = 0 THEN 0 ELSE s[k - 1] + f[k]]
  BY <1>5, <1>6
<1> QED BY <1>7

\* ... and it has the values the recursion says.
LEMMA SumsOf ==
    ASSUME NEW f \in Seq(Nat)
    PROVE  /\ Sums(f) \in [0..Len(f) -> Nat]
           /\ Sums(f)[0] = 0
           /\ \A k \in 1..Len(f) : Sums(f)[k] = Sums(f)[k - 1] + f[k]
<1> DEFINE n == Len(f)
           s == Sums(f)
           S == {k \in 0..n : s[k] \in Nat}
<1>1. s = [k \in 0..n |-> IF k = 0 THEN 0 ELSE s[k - 1] + f[k]]
  BY SumsExist DEF Sums
<1> HIDE DEF s
<1>2. n \in Nat /\ s[0] = 0 /\ \A k \in 1..n : s[k] = s[k - 1] + f[k]
  BY <1>1
<1>3. 0 \in S
  BY <1>2
<1>4. ASSUME NEW m \in 1..n, m - 1 \in S PROVE m \in S
  BY <1>2, <1>4
<1>5. 0..n \subseteq S
  <2> HIDE DEF S
  <2> QED BY <1>2, <1>3, <1>4, UpTo
<1>6. s \in [0..n -> Nat]
  BY <1>1, <1>5
<1> QED BY <1>2, <1>6 DEF s

\* Sums of naturals grow.
LEMMA SumsGrow ==
    ASSUME NEW f \in Seq(Nat), NEW j \in 0..Len(f), NEW k \in 0..Len(f), j <= k
    PROVE  Sums(f)[j] <= Sums(f)[k]
<1> DEFINE n == Len(f)
           s == Sums(f)
           S == {m \in 0..n : j <= m => s[j] <= s[m]}
<1>1. /\ n \in Nat /\ s \in [0..n -> Nat] /\ \A m \in 1..n : f[m] \in Nat
      /\ \A m \in 1..n : s[m] = s[m - 1] + f[m]
  BY SumsOf
<1> HIDE DEF s
<1>2. 0 \in S
  BY <1>1
<1>3. ASSUME NEW m \in 1..n, m - 1 \in S PROVE m \in S
  <2>1. m - 1 \in 0..n /\ m \in 0..n
    BY <1>1
  <2>2. s[m] = s[m - 1] + f[m] /\ f[m] \in Nat /\ s[m - 1] \in Nat /\ s[j] \in Nat
    BY <1>1, <2>1
  <2>3. j <= m => j = m \/ j <= m - 1
    BY <1>1
  <2> QED BY <1>3, <2>1, <2>2, <2>3
<1>4. 0..n \subseteq S
  <2> HIDE DEF S
  <2> QED BY <1>1, <1>2, <1>3, UpTo
<1> QED BY <1>4 DEF s

LEMMA NewestType ==
    ASSUME NEW T, NEW f \in Seq(T), NEW k \in 0..Len(f)
    PROVE  /\ Newest(f, k) \in Seq(T) /\ Len(Newest(f, k)) = k
           /\ \A i \in 1..k : Newest(f, k)[i] = f[Len(f) - k + i]
<1>1. Len(f) \in Nat
  OBVIOUS
<1>2. Len(f) - k + 1 \in 1..(Len(f) + 1) /\ Len(f) \in (Len(f) - k)..Len(f)
  BY <1>1
<1> QED BY <1>1, <1>2, SubSeqProperties DEF Newest

\* The sums of the newest numbers are differences of the sums of all.
LEMMA NewestSum ==
    ASSUME NEW f \in Seq(Nat), NEW k \in 0..Len(f)
    PROVE  Total(Newest(f, k)) = Sums(f)[Len(f)] - Sums(f)[Len(f) - k]
<1> DEFINE n == Len(f)
           s == Sums(f)
           g == Newest(f, k)
           u == Sums(g)
           S == {i \in 0..k : u[i] = s[n - k + i] - s[n - k]}
<1>1. /\ n \in Nat /\ s \in [0..n -> Nat] /\ \A m \in 1..n : f[m] \in Nat
      /\ \A m \in 1..n : s[m] = s[m - 1] + f[m]
  BY SumsOf
<1>2. g \in Seq(Nat) /\ Len(g) = k /\ \A i \in 1..k : g[i] = f[n - k + i]
  BY NewestType
<1> HIDE DEF g
<1>3. u \in [0..k -> Nat] /\ u[0] = 0 /\ \A i \in 1..k : u[i] = u[i - 1] + g[i]
  BY <1>2, SumsOf
<1> HIDE DEF s, u
<1>4. 0 \in S
  <2>1. 0 \in 0..k /\ n - k + 0 = n - k /\ n - k \in 0..n
    BY <1>1
  <2>2. s[n - k] \in Nat
    BY <1>1, <2>1
  <2>3. s[n - k] - s[n - k] = 0
    BY <2>2
  <2> QED BY <1>3, <2>1, <2>3
<1>5. ASSUME NEW i \in 1..k, i - 1 \in S PROVE i \in S
  <2>1. n - k + i \in 1..n /\ n - k \in 0..n /\ n - k + i - 1 \in 0..n /\ i \in 0..k
    BY <1>1
  <2>2. s[n - k + i] = s[n - k + i - 1] + f[n - k + i]
    BY <1>1, <2>1
  <2>3. u[i] = u[i - 1] + f[n - k + i] /\ u[i - 1] = s[n - k + i - 1] - s[n - k]
    BY <1>2, <1>3, <1>5
  <2>4. s[n - k + i - 1] \in Nat /\ s[n - k] \in Nat /\ f[n - k + i] \in Nat
    BY <1>1, <2>1
  <2>5. u[i] = s[n - k + i] - s[n - k]
    BY <2>2, <2>3, <2>4
  <2> QED BY <2>1, <2>5
<1>6. 0..k \subseteq S
  <2>1. k \in Nat
    BY <1>1
  <2> HIDE DEF S
  <2> QED BY <1>4, <1>5, <2>1, UpTo
<1>7. u[k] = s[n - k + k] - s[n - k]
  BY <1>1, <1>6
<1>8. Total(g) = u[k]
  BY <1>2 DEF Total, u
<1> QED BY <1>1, <1>7, <1>8 DEF g, s

\* _estimate_tokens rounds up, and by less than a token.
LEMMA TokensBounds ==
    ASSUME NEW c \in Nat
    PROVE  /\ Tokens(c) \in Nat
           /\ Tokens(c) * CharsPerToken >= c
           /\ (Tokens(c) - 1) * CharsPerToken < c
BY CharsPerTokenAssumption DEF Tokens

\* Rounding up together never costs more than rounding up apart.
LEMMA TokensOfSum ==
    ASSUME NEW a \in Nat, NEW b \in Nat
    PROVE  Tokens(a + b) <= Tokens(a) + Tokens(b)
<1> DEFINE x == Tokens(a)
           y == Tokens(b)
           z == Tokens(a + b)
           d == CharsPerToken
<1>1. /\ x \in Nat /\ y \in Nat /\ z \in Nat /\ d \in Nat \ {0}
      /\ x * d >= a /\ y * d >= b /\ (z - 1) * d < a + b
  BY TokensBounds, CharsPerTokenAssumption
<1> HIDE DEF x, y, z, d
<1>2. SUFFICES ASSUME x + y <= z - 1 PROVE FALSE
  BY <1>1 DEF x, y, z
<1>3. (x + y) * d <= (z - 1) * d
  BY <1>1, <1>2
<1>4. (x + y) * d = x * d + y * d
  BY <1>1
<1> QED BY <1>1, <1>3, <1>4

-----------------------------------------------------------------------------
(* What compaction spends on the newest messages.                          *)

\* What read_session returns.
Shown == [seq : Nat, item : Messages]
Summaries == [covers : Nat, text : Texts, known : SUBSET Items]
Sessions == [summary : Summaries \cup {None}, messages : Seq(Shown)]

LEMMA CostsType ==
    ASSUME NEW ms \in Seq(Shown)
    PROVE  /\ Len(ms) \in Nat
           /\ Lengths(ms) \in Seq(Nat) /\ Len(Lengths(ms)) = Len(ms)
           /\ Costs(ms) \in Seq(Nat) /\ Len(Costs(ms)) = Len(ms)
           /\ \A k \in 1..Len(ms) : Lengths(ms)[k] \in Nat /\ Costs(ms)[k] = Tokens(Lengths(ms)[k])
<1> DEFINE n == Len(ms)
<1>1. n \in Nat /\ \A k \in 1..n : ms[k] \in Shown
  BY ElementOfSeq
<1>2. \A k \in 1..n : LengthOf[ms[k].item] \in Nat
  BY <1>1, TextsAssumption DEF Shown
<1>3. \A k \in 1..n : Cost(ms[k]) \in Nat /\ Cost(ms[k]) = Tokens(LengthOf[ms[k].item])
  BY <1>2, TokensBounds DEF Cost
<1>4. Lengths(ms) \in [1..n -> Nat] /\ Costs(ms) \in [1..n -> Nat]
  BY <1>2, <1>3 DEF Lengths, Costs
<1>5. ASSUME NEW f \in [1..n -> Nat] PROVE f \in Seq(Nat) /\ Len(f) = n
  BY <1>1
<1>6. \A k \in 1..n : Lengths(ms)[k] \in Nat /\ Costs(ms)[k] = Tokens(Lengths(ms)[k])
  BY <1>2, <1>3 DEF Lengths, Costs
<1> QED BY <1>1, <1>4, <1>5, <1>6

LEMMA CostsOfNewest ==
    ASSUME NEW ms \in Seq(Shown), NEW k \in 0..Len(ms)
    PROVE  Costs(Newest(ms, k)) = Newest(Costs(ms), k)
<1> DEFINE n == Len(ms)
           new == Newest(ms, k)
<1>1. /\ n \in Nat /\ new \in Seq(Shown) /\ Len(new) = k
      /\ \A i \in 1..k : new[i] = ms[n - k + i]
  BY NewestType
<1>2. /\ Newest(Costs(ms), k) \in Seq(Nat) /\ Len(Newest(Costs(ms), k)) = k
      /\ \A i \in 1..k : Newest(Costs(ms), k)[i] = Costs(ms)[n - k + i]
  <2> DEFINE f == Costs(ms)
  <2>1. f \in Seq(Nat) /\ Len(f) = n /\ k \in 0..Len(f)
    BY CostsType
  <2> HIDE DEF f
  <2>2. /\ Newest(f, k) \in Seq(Nat) /\ Len(Newest(f, k)) = k
        /\ \A i \in 1..k : Newest(f, k)[i] = f[Len(f) - k + i]
    BY <2>1, NewestType
  <2> QED BY <2>1, <2>2 DEF f
<1>3. Costs(new) \in Seq(Nat) /\ Len(Costs(new)) = k
  BY <1>1, CostsType
<1> HIDE DEF new
<1>4. ASSUME NEW i \in 1..k PROVE Costs(new)[i] = Newest(Costs(ms), k)[i]
  <2>1. n - k + i \in 1..n /\ i \in 1..Len(new)
    BY <1>1
  <2>2. Costs(ms)[n - k + i] = Cost(ms[n - k + i]) /\ Costs(new)[i] = Cost(new[i])
    BY <2>1 DEF Costs
  <2> QED BY <1>1, <1>2, <2>2
<1> QED BY <1>2, <1>3, <1>4, SeqEqual DEF new

\* Messages that are priced alone cost no less than together.
LEMMA TogetherIsCheaper ==
    ASSUME NEW a \in Nat, NEW ms \in Seq(Shown)
    PROVE  Tokens(a + Total(Lengths(ms))) <= Tokens(a) + Total(Costs(ms))
<1> DEFINE n == Len(ms)
           f == Lengths(ms)
           g == Costs(ms)
           s == Sums(f)
           u == Sums(g)
           S == {k \in 0..n : Tokens(a + s[k]) <= Tokens(a) + u[k]}
<1>1. /\ n \in Nat /\ f \in Seq(Nat) /\ Len(f) = n /\ g \in Seq(Nat) /\ Len(g) = n
      /\ \A k \in 1..n : f[k] \in Nat /\ g[k] = Tokens(f[k])
  BY CostsType
<1> HIDE DEF f, g
<1>2. s \in [0..n -> Nat] /\ s[0] = 0 /\ \A k \in 1..n : s[k] = s[k - 1] + f[k]
  BY <1>1, SumsOf
<1>3. u \in [0..n -> Nat] /\ u[0] = 0 /\ \A k \in 1..n : u[k] = u[k - 1] + g[k]
  BY <1>1, SumsOf
<1>8. s[n] = Total(f) /\ u[n] = Total(g)
  BY <1>1 DEF Total
<1> HIDE DEF s, u
<1>4. 0 \in S
  <2>1. Tokens(a) \in Nat
    BY TokensBounds
  <2>2. a + s[0] = a /\ Tokens(a) <= Tokens(a) + u[0]
    BY <1>2, <1>3, <2>1
  <2> QED BY <1>1, <2>2
<1>5. ASSUME NEW k \in 1..n, k - 1 \in S PROVE k \in S
  <2>1. k \in 0..n /\ k - 1 \in 0..n
    BY <1>1
  <2>2. s[k - 1] \in Nat /\ u[k - 1] \in Nat /\ f[k] \in Nat
    BY <1>1, <1>2, <1>3, <2>1
  <2>3. s[k] = s[k - 1] + f[k] /\ u[k] = u[k - 1] + Tokens(f[k])
    BY <1>1, <1>2, <1>3
  <2> DEFINE p == a + s[k - 1]
  <2>5. p \in Nat /\ a + s[k] = p + f[k] /\ p + f[k] \in Nat
    BY <2>2, <2>3
  <2>7. Tokens(p) <= Tokens(a) + u[k - 1]
    BY <1>5
  <2> HIDE DEF p
  <2>4. Tokens(p + f[k]) <= Tokens(p) + Tokens(f[k])
    BY <2>2, <2>5, TokensOfSum
  <2>6. /\ Tokens(p) \in Nat /\ Tokens(f[k]) \in Nat /\ Tokens(a) \in Nat
        /\ Tokens(p + f[k]) \in Nat
    BY <2>2, <2>5, TokensBounds
  <2>8. Tokens(a + s[k]) <= Tokens(a) + u[k]
    BY <2>2, <2>3, <2>4, <2>5, <2>6, <2>7
  <2> QED BY <2>1, <2>8
<1>6. 0..n \subseteq S
  <2> HIDE DEF S
  <2> QED BY <1>1, <1>4, <1>5, UpTo
<1>7. Tokens(a + s[n]) <= Tokens(a) + u[n]
  BY <1>1, <1>6
<1> QED BY <1>7, <1>8 DEF f, g

\* The price of the newest k messages.
Spent(ms, k) == Sums(Costs(ms))[Len(ms)] - Sums(Costs(ms))[Len(ms) - k]

LEMMA SpentIsTotal ==
    ASSUME NEW ms \in Seq(Shown), NEW k \in 0..Len(ms)
    PROVE  Total(Costs(Newest(ms, k))) = Spent(ms, k)
<1> DEFINE f == Costs(ms)
<1>1. f \in Seq(Nat) /\ Len(f) = Len(ms)
  BY CostsType
<1>2. Costs(Newest(ms, k)) = Newest(f, k)
  BY CostsOfNewest
<1> HIDE DEF f
<1>3. Total(Newest(f, k)) = Sums(f)[Len(f)] - Sums(f)[Len(f) - k]
  BY <1>1, NewestSum
<1> QED BY <1>1, <1>2, <1>3 DEF Spent, f

LEMMA SpentFacts ==
    ASSUME NEW ms \in Seq(Shown)
    PROVE  /\ Spent(ms, 0) = 0
           /\ \A k \in 0..Len(ms) : Spent(ms, k) \in Nat
           /\ \A k \in 1..Len(ms) :
                /\ Cost(ms[Len(ms) - k + 1]) \in Nat
                /\ Spent(ms, k) = Spent(ms, k - 1) + Cost(ms[Len(ms) - k + 1])
           /\ \A j, k \in 0..Len(ms) : j <= k => Spent(ms, j) <= Spent(ms, k)
<1> DEFINE n == Len(ms)
           f == Costs(ms)
           s == Sums(f)
<1>1. n \in Nat /\ f \in Seq(Nat) /\ Len(f) = n /\ \A k \in 1..n : f[k] = Cost(ms[k])
  BY CostsType DEF Costs
<1> HIDE DEF f
<1>2. s \in [0..n -> Nat] /\ \A k \in 1..n : s[k] = s[k - 1] + f[k]
  BY <1>1, SumsOf
<1>3. \A j, k \in 0..n : j <= k => s[j] <= s[k]
  BY <1>1, SumsGrow
<1>4. \A k : Spent(ms, k) = s[n] - s[n - k]
  BY DEF Spent, f
<1> HIDE DEF s
<1>5. \A k \in 0..n : n - k \in 0..n /\ n \in 0..n
  BY <1>1
<1>6. \A k \in 0..n : s[n - k] \in Nat /\ s[n] \in Nat
  BY <1>2, <1>5
<1>7. Spent(ms, 0) = 0
  <2>1. n - 0 = n /\ n \in 0..n
    BY <1>1
  <2>2. s[n] \in Nat
    BY <1>2, <2>1
  <2> QED BY <1>4, <2>1, <2>2
<1>8. ASSUME NEW k \in 0..n PROVE Spent(ms, k) \in Nat
  <2>1. s[n - k] <= s[n]
    BY <1>1, <1>3, <1>5
  <2> QED BY <1>4, <1>6, <2>1
<1>9. ASSUME NEW k \in 1..n
      PROVE  /\ Cost(ms[n - k + 1]) \in Nat
             /\ Spent(ms, k) = Spent(ms, k - 1) + Cost(ms[n - k + 1])
  <2>1. n - k + 1 \in 1..n /\ (n - k + 1) - 1 = n - k /\ n - (k - 1) = n - k + 1
        /\ k \in 0..n /\ k - 1 \in 0..n
    BY <1>1
  <2>2. s[n - k + 1] = s[n - k] + f[n - k + 1]
    BY <1>2, <2>1
  <2>3. f[n - k + 1] = Cost(ms[n - k + 1]) /\ f[n - k + 1] \in Nat
    BY <1>1, <2>1, ElementOfSeq
  <2>4. s[n - k] \in Nat /\ s[n] \in Nat
    BY <1>6, <2>1
  <2>5. Spent(ms, k) = s[n] - s[n - k] /\ Spent(ms, k - 1) = s[n] - s[n - k + 1]
    BY <1>4, <2>1
  <2> QED BY <2>2, <2>3, <2>4, <2>5
<1>10. ASSUME NEW j \in 0..n, NEW k \in 0..n, j <= k PROVE Spent(ms, j) <= Spent(ms, k)
  <2>1. n - k <= n - j /\ n - k \in 0..n /\ n - j \in 0..n
    BY <1>1, <1>10
  <2>2. s[n - k] <= s[n - j]
    BY <1>3, <2>1
  <2> QED BY <1>4, <1>6, <2>2
<1> QED BY <1>7, <1>8, <1>9, <1>10

-----------------------------------------------------------------------------
(* The scan from the newest message back.                                  *)

\* One more message in front of the newest ones.
LEMMA NewestGrows ==
    ASSUME NEW ms \in Seq(Shown), NEW k \in 1..Len(ms)
    PROVE  /\ <<ms[Len(ms) - k + 1]>> \o Newest(ms, k - 1) = Newest(ms, k)
           /\ Newest(ms, k - 1) = <<>> <=> k = 1
<1> DEFINE n == Len(ms)
           e == ms[n - k + 1]
           old == Newest(ms, k - 1)
           new == Newest(ms, k)
<1>1. n \in Nat /\ k - 1 \in 0..n /\ k \in 0..n /\ n - k + 1 \in 1..n
  OBVIOUS
<1>2. e \in Shown
  BY <1>1, ElementOfSeq
<1>3. old \in Seq(Shown) /\ Len(old) = k - 1 /\ \A i \in 1..(k - 1) : old[i] = ms[n - (k - 1) + i]
  BY <1>1, NewestType
<1>4. new \in Seq(Shown) /\ Len(new) = k /\ \A i \in 1..k : new[i] = ms[n - k + i]
  BY <1>1, NewestType
<1> HIDE DEF old, new, e
<1>5. <<e>> \in Seq(Shown) /\ Len(<<e>>) = 1 /\ <<e>>[1] = e
  BY <1>2
<1> DEFINE all == <<e>> \o old
<1>6. /\ all \in Seq(Shown) /\ Len(all) = k
      /\ \A i \in 1..k : all[i] = IF i <= 1 THEN e ELSE old[i - 1]
  <2>1. /\ all \in Seq(Shown) /\ Len(all) = 1 + (k - 1)
        /\ \A i \in 1..(1 + (k - 1)) : all[i] = IF i <= 1 THEN <<e>>[i] ELSE old[i - 1]
    BY <1>3, <1>5, ConcatProperties
  <2>2. 1 + (k - 1) = k
    BY <1>1
  <2> QED BY <1>1, <1>5, <2>1, <2>2
<1> HIDE DEF all
<1>7. ASSUME NEW i \in 1..k PROVE all[i] = new[i]
  <2>1. CASE i = 1
    <3>1. all[i] = e /\ new[i] = ms[n - k + 1]
      BY <1>4, <1>6, <2>1
    <3> QED BY <3>1 DEF e
  <2>2. CASE i # 1
    <3>1. i - 1 \in 1..(k - 1) /\ n - (k - 1) + (i - 1) = n - k + i /\ ~(i <= 1)
      BY <1>1, <2>2
    <3> QED BY <1>3, <1>4, <1>6, <3>1
  <2> QED BY <2>1, <2>2
<1>8. all = new
  BY <1>4, <1>6, <1>7, SeqEqual
<1>9. old = <<>> <=> k = 1
  BY <1>1, <1>3
<1> QED BY <1>8, <1>9 DEF all, old, new, e

\* The recursion of Scan defines a function.
LEMMA ScanExists ==
    ASSUME NEW ms \in Seq(Shown), NEW b
    PROVE  \E s : s = [k \in 0..Len(ms) |->
                         IF k = 0 THEN [kept |-> <<>>, left |-> b, open |-> TRUE]
                         ELSE Scanned(s[k - 1], ms[Len(ms) - k + 1])]
<1> DEFINE n == Len(ms)
           start == [kept |-> <<>>, left |-> b, open |-> TRUE]
           Scans(s, m) == s[0] = start /\ \A k \in 1..m : s[k] = Scanned(s[k - 1], ms[n - k + 1])
           S == {m \in 0..n : \E s : s = [k \in 0..m |-> s[k]] /\ Scans(s, m)}
<1>0. n \in Nat
  OBVIOUS
<1> HIDE DEF start
<1>1. 0 \in S
  <2> DEFINE s == [k \in 0..0 |-> start]
  <2>1. s = [k \in 0..0 |-> s[k]] /\ s[0] = start /\ 1..0 = {}
    OBVIOUS
  <2> HIDE DEF s
  <2>2. Scans(s, 0)
    BY <2>1
  <2>3. 0 \in 0..n
    BY <1>0
  <2> HIDE DEF Scans
  <2> QED BY <2>1, <2>2, <2>3, Zenon
<1>2. ASSUME NEW m \in 1..n, m - 1 \in S PROVE m \in S
  <2>1. PICK s : s = [k \in 0..(m - 1) |-> s[k]] /\ Scans(s, m - 1)
    <3> HIDE DEF Scans
    <3> QED BY <1>2, Zenon
  <2> DEFINE last == Scanned(s[m - 1], ms[n - m + 1])
             t == [k \in 0..m |-> IF k = m THEN last ELSE s[k]]
  <2> HIDE DEF last
  <2>2. t = [k \in 0..m |-> t[k]]
    OBVIOUS
  <2>3. t[0] = start
    BY <2>1, <1>0
  <2>4. ASSUME NEW k \in 1..m PROVE t[k] = Scanned(t[k - 1], ms[n - k + 1])
    <3>1. k - 1 \in 0..m /\ k - 1 # m /\ k \in 0..m
      BY <1>0
    <3>2. t[k - 1] = s[k - 1]
      BY <3>1
    <3>3. CASE k = m
      BY <3>1, <3>2, <3>3 DEF last
    <3>4. CASE k # m
      <4>1. k \in 1..(m - 1) /\ t[k] = s[k]
        BY <1>0, <3>1, <3>4
      <4> QED BY <2>1, <3>2, <4>1
    <3> QED BY <3>3, <3>4
  <2> HIDE DEF t
  <2>5. Scans(t, m)
    BY <2>3, <2>4
  <2>6. m \in 0..n
    BY <1>0
  <2> HIDE DEF Scans
  <2> QED BY <2>2, <2>5, <2>6, Zenon
<1>3. 0..n \subseteq S
  <2> HIDE DEF S
  <2> QED BY <1>0, <1>1, <1>2, UpTo
<1>4. PICK s : s = [k \in 0..n |-> s[k]] /\ Scans(s, n)
  <2>1. n \in 0..n
    BY <1>0
  <2> HIDE DEF Scans
  <2> QED BY <2>1, <1>3, Zenon
<1>5. ASSUME NEW k \in 0..n
      PROVE  s[k] = IF k = 0 THEN start ELSE Scanned(s[k - 1], ms[n - k + 1])
  <2>1. k # 0 => k \in 1..n
    BY <1>0
  <2> QED BY <1>4, <2>1
<1>6. s = [k \in 0..n |-> IF k = 0 THEN start ELSE Scanned(s[k - 1], ms[n - k + 1])]
  BY <1>4, <1>5
<1> QED BY <1>6 DEF start

\* Where the scan is after k messages: it has kept the newest c; if it goes on, c
\* is k; if not, the next one does not fit.
ScanAt(acc, ms, b, k, c) ==
    /\ acc.kept = Newest(ms, c) /\ acc.left = b - Spent(ms, c)
    /\ acc.open \in BOOLEAN /\ acc = [kept |-> acc.kept, left |-> acc.left, open |-> acc.open]
    /\ c <= 1 \/ Spent(ms, c) <= b
    /\ IF acc.open THEN c = k ELSE c >= 1 /\ c < k /\ Spent(ms, c + 1) > b

LEMMA ScanFacts ==
    ASSUME NEW ms \in Seq(Shown), NEW b \in Int
    PROVE  \E c \in 0..Len(ms) : ScanAt(Scan(ms, b)[Len(ms)], ms, b, Len(ms), c)
<1> DEFINE n == Len(ms)
           s == Scan(ms, b)
           S == {k \in 0..n : \E c \in 0..n : ScanAt(s[k], ms, b, k, c)}
<1>0. n \in Nat
  OBVIOUS
<1>1. s = [k \in 0..n |-> IF k = 0 THEN [kept |-> <<>>, left |-> b, open |-> TRUE]
                          ELSE Scanned(s[k - 1], ms[n - k + 1])]
  <2>1. s = CHOOSE x : x = [k \in 0..n |->
                              IF k = 0 THEN [kept |-> <<>>, left |-> b, open |-> TRUE]
                              ELSE Scanned(x[k - 1], ms[n - k + 1])]
    BY DEF Scan
  <2>2. \E x : x = [k \in 0..n |-> IF k = 0 THEN [kept |-> <<>>, left |-> b, open |-> TRUE]
                                   ELSE Scanned(x[k - 1], ms[n - k + 1])]
    BY ScanExists
  <2> QED BY <2>1, <2>2, Zenon
<1> HIDE DEF s
<1>2. /\ s[0] = [kept |-> <<>>, left |-> b, open |-> TRUE]
      /\ \A k \in 1..n : s[k] = Scanned(s[k - 1], ms[n - k + 1])
  <2> DEFINE start == [kept |-> <<>>, left |-> b, open |-> TRUE]
  <2>1. s = [k \in 0..n |-> IF k = 0 THEN start ELSE Scanned(s[k - 1], ms[n - k + 1])]
    BY <1>1
  <2> HIDE DEF start
  <2>2. 0 \in 0..n /\ \A k \in 1..n : k \in 0..n /\ k # 0
    BY <1>0
  <2>3. s[0] = start /\ \A k \in 1..n : s[k] = Scanned(s[k - 1], ms[n - k + 1])
    BY <2>1, <2>2
  <2> QED BY <2>3 DEF start
<1>3. 0 \in S
  <2>1. Newest(ms, 0) = <<>>
    BY <1>0, NewestType
  <2>2. ScanAt(s[0], ms, b, 0, 0)
    BY <1>2, <2>1, SpentFacts DEF ScanAt
  <2>3. 0 \in 0..n
    BY <1>0
  <2> QED BY <2>2, <2>3
<1>4. ASSUME NEW k \in 1..n, k - 1 \in S PROVE k \in S
  <2> DEFINE acc == s[k - 1]
             e == ms[n - k + 1]
  <2>1. PICK c \in 0..n : ScanAt(acc, ms, b, k - 1, c)
    BY <1>4
  <2>2. s[k] = Scanned(acc, e) /\ k \in 0..n /\ k - 1 \in 0..n
    BY <1>0, <1>2
  <2>3. /\ Cost(e) \in Nat /\ Spent(ms, k) = Spent(ms, k - 1) + Cost(e)
        /\ Spent(ms, k - 1) \in Nat
    BY <1>0, SpentFacts
  <2>4. /\ <<e>> \o Newest(ms, k - 1) = Newest(ms, k)
        /\ Newest(ms, k - 1) = <<>> <=> k = 1
    BY NewestGrows
  <2> HIDE DEF acc, e
  <2>5. CASE ~acc.open
    <3>1. s[k] = [acc EXCEPT !.open = FALSE]
      BY <2>2, <2>5 DEF Scanned
    <3>2. s[k].kept = acc.kept /\ s[k].left = acc.left /\ s[k].open = FALSE
          /\ s[k] = [kept |-> acc.kept, left |-> acc.left, open |-> FALSE]
      BY <2>1, <3>1 DEF ScanAt
    <3>3. ScanAt(s[k], ms, b, k, c)
      BY <2>1, <2>5, <3>2 DEF ScanAt
    <3> QED BY <2>2, <3>3
  <2>6. CASE acc.open /\ acc.kept # <<>> /\ Cost(e) > acc.left
    <3>1. s[k] = [acc EXCEPT !.open = FALSE]
      BY <2>2, <2>6 DEF Scanned
    <3>2. s[k].kept = acc.kept /\ s[k].left = acc.left /\ s[k].open = FALSE
          /\ s[k] = [kept |-> acc.kept, left |-> acc.left, open |-> FALSE]
      BY <2>1, <3>1 DEF ScanAt
    <3>3. c = k - 1 /\ k # 1
      BY <2>1, <2>4, <2>6 DEF ScanAt
    <3>4. c >= 1 /\ c < k /\ c + 1 = k /\ Spent(ms, k) > b
      BY <2>1, <2>3, <2>6, <3>3 DEF ScanAt
    <3>5. ScanAt(s[k], ms, b, k, c)
      BY <2>1, <3>2, <3>4 DEF ScanAt
    <3> QED BY <2>2, <3>5
  <2>7. CASE acc.open /\ ~(acc.kept # <<>> /\ Cost(e) > acc.left)
    <3>1. s[k] = [kept |-> <<e>> \o acc.kept, left |-> acc.left - Cost(e), open |-> TRUE]
      BY <2>2, <2>7 DEF Scanned
    <3>2. c = k - 1 /\ acc.kept = Newest(ms, k - 1) /\ acc.left = b - Spent(ms, k - 1)
      BY <2>1, <2>7 DEF ScanAt
    <3>3. s[k].kept = Newest(ms, k) /\ s[k].left = b - Spent(ms, k) /\ s[k].open = TRUE
      BY <2>3, <2>4, <3>1, <3>2
    <3>4. k <= 1 \/ Spent(ms, k) <= b
      BY <2>3, <2>4, <2>7, <3>2
    <3>5. ScanAt(s[k], ms, b, k, k)
      BY <3>1, <3>3, <3>4 DEF ScanAt
    <3> QED BY <2>2, <3>5
  <2>8. acc.open \in BOOLEAN
    BY <2>1 DEF ScanAt
  <2> QED BY <2>5, <2>6, <2>7, <2>8
<1>5. 0..n \subseteq S
  <2> HIDE DEF S
  <2> QED BY <1>0, <1>3, <1>4, UpTo
<1>6. n \in S
  BY <1>0, <1>5
<1> QED BY <1>6 DEF s

\* The scan keeps the longest run of newest messages that fits.
LEMMA KeepsTheLongest ==
    ASSUME NEW session \in Sessions, NEW b \in Int
    PROVE  LET ms    == session.messages
               chars == SummaryChars(session.summary)
               kept  == KeepNewest(ms, b - Tokens(chars))
           IN /\ kept \in Seq(Shown)
              /\ kept = Newest(ms, CHOOSE k \in Fitting(session, b) :
                                     \A j \in Fitting(session, b) : j <= k)
              /\ Len(kept) > 1 => Tokens(chars + Total(Lengths(kept))) <= b
<1> DEFINE ms == session.messages
           n == Len(ms)
           chars == SummaryChars(session.summary)
           base == Tokens(chars)
           acc == Scan(ms, b - base)[n]
           fits == Fitting(session, b)
<1>1. ms \in Seq(Shown) /\ n \in Nat
  BY DEF Sessions
<1>2. chars \in Nat
  BY TextsAssumption DEF Sessions, Summaries, SummaryChars
<1>3. base \in Nat /\ b - base \in Int
  BY <1>2, TokensBounds
<1> HIDE DEF ms, chars, base
<1>4. PICK c \in 0..n : ScanAt(acc, ms, b - base, n, c)
  BY <1>1, <1>3, ScanFacts
<1>5. acc.kept = KeepNewest(ms, b - base)
  BY DEF KeepNewest
<1> HIDE DEF acc
<1>6. \A k \in 0..n : Price(session, k) = base + Spent(ms, k) /\ Spent(ms, k) \in Nat
  BY <1>1, SpentIsTotal, SpentFacts DEF Price, base, ms, chars
<1>7. fits = {k \in 0..n : k <= 1 \/ base + Spent(ms, k) <= b}
  BY <1>6 DEF Fitting, ms
<1>8. c \in fits
  BY <1>3, <1>4, <1>6, <1>7 DEF ScanAt
<1>9. ASSUME NEW j \in fits PROVE j <= c
  <2>0. j \in 0..n /\ (j <= 1 \/ base + Spent(ms, j) <= b)
    BY <1>7
  <2>1. CASE acc.open
    BY <1>1, <1>4, <2>0, <2>1 DEF ScanAt
  <2>2. CASE ~acc.open
    <3>1. c >= 1 /\ c < n /\ Spent(ms, c + 1) > b - base
      BY <1>4, <2>2 DEF ScanAt
    <3>2. SUFFICES ASSUME j >= c + 1 PROVE FALSE
      BY <1>1, <2>0
    <3>3. c + 1 \in 0..n
      BY <1>1, <3>1
    <3>4. Spent(ms, c + 1) <= Spent(ms, j)
      BY <1>1, <2>0, <3>2, <3>3, SpentFacts
    <3>5. Spent(ms, c + 1) \in Nat /\ Spent(ms, j) \in Nat
      BY <1>6, <2>0, <3>3
    <3> QED BY <1>1, <1>3, <2>0, <3>1, <3>2, <3>4, <3>5
  <2> QED BY <2>1, <2>2
<1>10. c = CHOOSE k \in fits : \A j \in fits : j <= k
  <2>1. \A k \in fits : (\A j \in fits : j <= k) => k = c
    <3> SUFFICES ASSUME NEW k \in fits, \A j \in fits : j <= k PROVE k = c
      OBVIOUS
    <3>1. k <= c /\ c <= k /\ k \in 0..n
      BY <1>7, <1>8, <1>9
    <3> QED BY <1>1, <3>1
  <2> HIDE DEF fits
  <2> QED BY <1>8, <1>9, <2>1
<1>11. acc.kept = Newest(ms, c)
  BY <1>4 DEF ScanAt
<1>12. acc.kept \in Seq(Shown) /\ Len(acc.kept) = c
  BY <1>1, <1>11, NewestType
<1>13. ASSUME c > 1 PROVE Tokens(chars + Total(Lengths(acc.kept))) <= b
  <2> DEFINE kept == acc.kept
  <2>1. kept \in Seq(Shown)
    BY <1>12
  <2>2. Total(Costs(kept)) = Spent(ms, c)
    BY <1>1, <1>11, SpentIsTotal
  <2>3. Spent(ms, c) <= b - base /\ Spent(ms, c) \in Nat
    BY <1>1, <1>4, <1>6, <1>13 DEF ScanAt
  <2> HIDE DEF kept
  <2>4. Tokens(chars + Total(Lengths(kept))) <= base + Total(Costs(kept))
    BY <1>2, <2>1, TogetherIsCheaper DEF base
  <2>5. Total(Lengths(kept)) \in Nat
    <3> DEFINE f == Lengths(kept)
    <3>1. f \in Seq(Nat) /\ Len(f) \in Nat
      BY <2>1, CostsType
    <3> HIDE DEF f
    <3>2. Sums(f) \in [0..Len(f) -> Nat] /\ Len(f) \in 0..Len(f)
      BY <3>1, SumsOf
    <3>3. Total(f) \in Nat
      BY <3>2 DEF Total
    <3> QED BY <3>3 DEF f
  <2> DEFINE together == chars + Total(Lengths(kept))
  <2>6. together \in Nat
    BY <1>2, <2>5
  <2> HIDE DEF together
  <2>7. Tokens(together) \in Nat
    BY <2>6, TokensBounds
  <2>8. Tokens(together) <= b
    BY <1>3, <2>2, <2>3, <2>4, <2>7 DEF together
  <2> QED BY <2>8 DEF together, kept
<1>14. Len(acc.kept) > 1 => Tokens(chars + Total(Lengths(acc.kept))) <= b
  BY <1>12, <1>13
<1> QED BY <1>5, <1>10, <1>11, <1>12, <1>14 DEF base, chars, ms

\* What CompactionIsTight says of one context.
Tight(session, b, context) ==
    /\ context.kept = LongestFit(session, b)
    /\ context.dropped = Len(session.messages) - Len(context.kept)
    /\ context.summary = IF session.summary = None THEN None ELSE session.summary.text
    /\ Len(context.kept) > 1 => Estimate(session.summary, context.kept) <= b

LEMMA AssembledIsTight ==
    ASSUME NEW session \in Sessions, NEW b \in Int
    PROVE  Tight(session, b, AssembleContext(session, b))
<1> DEFINE context == AssembleContext(session, b)
           kept == KeepNewest(session.messages, b - Tokens(SummaryChars(session.summary)))
<1>1. CASE Estimate(session.summary, session.messages) <= b
  BY <1>1 DEF AssembleContext, LongestFit, Tight
<1>2. CASE ~(Estimate(session.summary, session.messages) <= b)
  <2>1. /\ kept = Newest(session.messages, CHOOSE k \in Fitting(session, b) :
                                             \A j \in Fitting(session, b) : j <= k)
        /\ Len(kept) > 1 => Tokens(SummaryChars(session.summary) + Total(Lengths(kept))) <= b
    BY KeepsTheLongest
  <2>2. /\ context.kept = kept /\ context.dropped = Len(session.messages) - Len(kept)
        /\ context.summary = IF session.summary = None THEN None ELSE session.summary.text
    BY <1>2 DEF AssembleContext
  <2> HIDE DEF kept, context
  <2>3. context.kept = LongestFit(session, b)
    BY <1>2, <2>1, <2>2 DEF LongestFit
  <2>4. Len(context.kept) > 1 => Estimate(session.summary, context.kept) <= b
    BY <2>1, <2>2 DEF Estimate
  <2>5. Tight(session, b, context)
    BY <2>2, <2>3, <2>4 DEF Tight
  <2> QED BY <2>5 DEF context
<1> QED BY <1>1, <1>2

\* The key of the cache has all that the context depends on.
LEMMA KeyDecides ==
    ASSUME NEW s1 \in Sessions, NEW b1, NEW s2 \in Sessions, NEW b2,
           CacheKey(s1, b1) = CacheKey(s2, b2)
    PROVE  AssembleContext(s1, b1) = AssembleContext(s2, b2)
<1> DEFINE x(s) == IF s.summary = None THEN None ELSE <<s.summary.covers, s.summary.text>>
<1>1. s1.messages = s2.messages /\ x(s1) = x(s2) /\ b1 = b2
  BY DEF CacheKey
<1>2. \A s \in Sessions : s.summary # None => <<s.summary.covers, s.summary.text>> \in Nat \X Texts
  BY DEF Sessions, Summaries
<1>3. s1.summary = None <=> s2.summary = None
  BY <1>1, <1>2, TextsAssumption
<1>4. s1.summary # None => s1.summary.text = s2.summary.text
  BY <1>1, <1>3
<1>5. /\ SummaryChars(s1.summary) = SummaryChars(s2.summary)
      /\ (IF s1.summary = None THEN None ELSE s1.summary.text)
           = (IF s2.summary = None THEN None ELSE s2.summary.text)
  BY <1>3, <1>4 DEF SummaryChars
<1>6. Estimate(s1.summary, s1.messages) = Estimate(s2.summary, s2.messages)
  BY <1>1, <1>5 DEF Estimate
<1> QED BY <1>1, <1>5, <1>6, Zenon DEF AssembleContext

-----------------------------------------------------------------------------
(* Contexts.                                                               *)

\* What a call reads and writes of sessions: a summary that was once written, and
\* messages that were once in the table.
ReadTypes ==
    /\ summary \in Summaries \cup {None}
    /\ \A t \in Threads :
         /\ thread[t].op = "summarize" =>
              /\ thread[t].covers \in Nat /\ thread[t].text \in Texts
              /\ thread[t].known \in SUBSET Items
         /\ thread[t].op = "read" => thread[t].summary \in Summaries \cup {None}
         /\ thread[t].op = "session" => thread[t].session \in Sessions

\* The cache holds nothing but contexts of sessions, each under a key of its own
\* session and budget, although it outlives what the sessions were read from.
Assembled == {[key |-> CacheKey(s, b), context |-> AssembleContext(s, b)] :
                s \in Sessions, b \in Budgets}
CacheIsTrue == cache \in Seq(Assembled)

ContextInv == ReadTypes /\ CacheIsTrue /\ CompactionIsTight

LEMMA SessionAtType ==
    ASSUME IInv, NEW s \in Summaries \cup {None}
    PROVE  SessionAt(s, rows["messages"]) \in Sessions
<1> DEFINE table == rows["messages"]
           behind == {k \in DOMAIN table : IsBehind(k, s)}
           N == Cardinality(behind)
           ms == [i \in 1..N |-> [seq |-> NthOf(behind, i), item |-> table[NthOf(behind, i)]]]
<1>1. behind \in SUBSET (1..Len(committed)) /\ Len(committed) \in Nat
  BY DEF IInv, RowsAreStored, StoreTypes, Tables
<1>2. \A n \in behind : n \in Nat /\ table[n] \in Messages
  BY <1>1 DEF IInv, RowsAreStored, Table, Tables
<1>3. SessionAt(s, table) = [summary |-> s, messages |-> ms]
  BY DEF SessionAt
<1> HIDE DEF behind, table
<1>4. N \in Nat
  BY <1>1, PlacesDiffer
<1>5. \A i \in 1..N : NthOf(behind, i) \in behind
  BY <1>1, EveryPlaceHasANumber
<1>6. ms \in [1..N -> Shown]
  BY <1>2, <1>5 DEF Shown
<1> HIDE DEF ms, N
<1>7. ms \in Seq(Shown)
  BY <1>4, <1>6
<1> QED BY <1>3, <1>7 DEF Sessions, table

\* Steps that start no read and no summary.
LEMMA ReadTypesKept ==
    ASSUME ReadTypes, summary' \in Summaries \cup {None},
           \A t \in Threads : \/ thread'[t] = thread[t]
                              \/ thread'[t].op \notin {"summarize", "read", "session"}
    PROVE  ReadTypes'
<1> SUFFICES ASSUME NEW t \in Threads
             PROVE  /\ thread'[t].op = "summarize" =>
                         /\ thread'[t].covers \in Nat /\ thread'[t].text \in Texts
                         /\ thread'[t].known \in SUBSET Items
                    /\ thread'[t].op = "read" => thread'[t].summary \in Summaries \cup {None}
                    /\ thread'[t].op = "session" => thread'[t].session \in Sessions
  BY DEF ReadTypes
<1>1. CASE thread'[t] = thread[t]
  BY <1>1 DEF ReadTypes
<1>2. CASE thread'[t].op \notin {"summarize", "read", "session"}
  BY <1>2
<1> QED BY <1>1, <1>2

LEMMA ReadTypesInductive == IInv /\ ReadTypes /\ [Next]_vars => ReadTypes'
<1> SUFFICES ASSUME IInv, ReadTypes, [Next]_vars PROVE ReadTypes'
  OBVIOUS
<1> DEFINE Apart == \A u \in Threads : \/ thread'[u] = thread[u]
                                       \/ thread'[u].op \notin {"summarize", "read", "session"}
<1>0. ASSUME Apart, summary' = summary PROVE ReadTypes'
  BY <1>0, ReadTypesKept DEF ReadTypes
<1>9. Stored \in SUBSET Items
  BY DEF IInv, CarriedOnce
<1>1. CASE CreateSession \/ Restart \/ UNCHANGED vars
  BY <1>0, <1>1 DEF CreateSession, Restart, vars, history, Idle
<1>2. ASSUME NEW t \in Threads, NEW item, AppendReads(t, item) \/ CaptureBegins(t, item)
      PROVE  ReadTypes'
  BY <1>0, <1>2 DEF AppendReads, CaptureBegins, Begin, IInv, StoreTypes
<1>3. ASSUME NEW t \in Threads,
             \/ AppendWrites(t) \/ CaptureWrites(t) \/ TrimReads(t) \/ TrimWrites(t)
             \/ WriteTimesOut(t)
      PROVE  ReadTypes'
  BY <1>0, <1>3 DEF AppendWrites, CaptureWrites, TrimReads, TrimWrites, WriteTimesOut, Begin,
       End, Idle, history, IInv, StoreTypes
<1>4. ASSUME NEW t \in Threads, NEW covers \in 0..Cardinality(Messages), NEW text \in Texts,
             SummarizeReads(t, covers, text)
      PROVE  ReadTypes'
  <2>1. /\ thread' = [thread EXCEPT ![t] = [op |-> "summarize", covers |-> covers,
                                            text |-> text, known |-> Stored]]
        /\ summary' = summary
    BY <1>4 DEF SummarizeReads, Begin
  <2>2. covers \in Nat
    OBVIOUS
  <2> QED BY <1>9, <2>1, <2>2 DEF ReadTypes, IInv, StoreTypes
<1>5. ASSUME NEW t \in Threads, SummarizeWrites(t) PROVE ReadTypes'
  <2>1. Apart
    BY <1>5 DEF SummarizeWrites, End, Idle, IInv, StoreTypes
  <2>2. summary' \in Summaries
    BY <1>5 DEF SummarizeWrites, ReadTypes, Summaries
  <2> QED BY <2>1, <2>2, ReadTypesKept
<1>6. ASSUME NEW t \in Threads, ReadSummary(t) PROVE ReadTypes'
  <2>1. /\ thread' = [thread EXCEPT ![t] = [op |-> "read", summary |-> summary,
                                               known |-> Stored \ trimmed]]
        /\ summary' = summary
    BY <1>6 DEF ReadSummary, Begin
  <2> QED BY <2>1 DEF ReadTypes, IInv, StoreTypes
<1>7. ASSUME NEW t \in Threads, ReadMessages(t) PROVE ReadTypes'
  <2> DEFINE session == SessionAt(thread[t].summary, rows["messages"])
  <2>1. /\ thread' = [thread EXCEPT ![t] = [op |-> "session", session |-> session,
                                            known |-> thread[t].known]]
        /\ summary' = summary
    BY <1>7 DEF ReadMessages
  <2>2. session \in Sessions
    BY <1>7, SessionAtType DEF ReadMessages, ReadTypes
  <2> HIDE DEF session
  <2> QED BY <2>1, <2>2 DEF ReadTypes, IInv, StoreTypes
<1>8. ASSUME NEW t \in Threads, NEW b \in Budgets, Assemble(t, b) PROVE ReadTypes'
  <2>1. UNCHANGED <<created, rows, summary, workspace, thread, calls, committed, earlier, trimmed>>
    BY <1>8, Zenon DEF Assemble
  <2> QED BY <1>0, <2>1
<1> QED BY <1>1, <1>2, <1>3, <1>4, <1>5, <1>6, <1>7, <1>8
     DEF Next, AppendMessage, RecordTerminal, RecordFilesystem

\* ContextCache.assemble answers with the context of the session it was given, from
\* the cache or not, and stores nothing else.
LEMMA AssembleKeeps ==
    ASSUME ContextInv, NEW t \in Threads, NEW b \in Budgets, Assemble(t, b)
    PROVE  CacheIsTrue' /\ CompactionIsTight'
<1> DEFINE session == thread[t].session
           key  == CacheKey(session, b)
           new  == [key |-> key, context |-> AssembleContext(session, b)]
           hits == {k \in DOMAIN cache : cache[k].key = key}
           hit  == CHOOSE k \in hits : TRUE
           used == IF hits # {} THEN cache[hit] ELSE new
           rest == IF hits # {} THEN RemoveAt(cache, hit) ELSE cache
           all  == Append(rest, used)
<1>1. /\ cache' = IF Len(all) > MaxEntries THEN Tail(all) ELSE all
      /\ answer' = [session |-> session, budget |-> b, context |-> used.context]
      /\ thread[t].op = "session"
  BY DEF Assemble
<1>2. session \in Sessions /\ b \in Int
  BY <1>1, TextsAssumption DEF ContextInv, ReadTypes
<1>3. cache \in Seq(Assembled)
  BY DEF ContextInv, CacheIsTrue
<1> HIDE DEF session
<1>4. new \in Assembled
  BY <1>2 DEF Assembled
<1>5. hits # {} => hit \in 1..Len(cache) /\ cache[hit] \in Assembled /\ cache[hit].key = key
  <2> SUFFICES ASSUME hits # {} PROVE hit \in 1..Len(cache) /\ cache[hit] \in Assembled
                                      /\ cache[hit].key = key
    OBVIOUS
  <2>1. hit \in hits
    <3> HIDE DEF hits
    <3> QED BY Zenon
  <2>2. hit \in DOMAIN cache /\ cache[hit].key = key
    BY <2>1
  <2> HIDE DEF hit
  <2> QED BY <1>3, <2>2, LenProperties, ElementOfSeq
<1> HIDE DEF key, new, hits, hit
<1>6. used \in Assembled
  BY <1>4, <1>5
<1>7. used.key = key
  BY <1>5 DEF new
<1>8. rest \in Seq(Assembled)
  <2>1. CASE hits = {}
    BY <1>3, <2>1
  <2>2. CASE hits # {}
    <3>1. /\ hit \in 1..Len(cache) /\ Len(cache) \in Nat
          /\ \A i \in 1..Len(cache) : cache[i] \in Assembled
      BY <1>3, <1>5, <2>2, ElementOfSeq, LenProperties
    <3> DEFINE before == SubSeq(cache, 1, hit - 1)
               after == SubSeq(cache, hit + 1, Len(cache))
    <3>2. before \in Seq(Assembled)
      <4>1. hit - 1 \in Int /\ \A i \in 1..(hit - 1) : i \in 1..Len(cache)
        BY <3>1
      <4> QED BY <3>1, <4>1, SubSeqProperties
    <3>3. after \in Seq(Assembled)
      <4>1. hit + 1 \in Int /\ \A i \in (hit + 1)..Len(cache) : i \in 1..Len(cache)
        BY <3>1
      <4> QED BY <3>1, <4>1, SubSeqProperties
    <3> HIDE DEF before, after
    <3>4. before \o after \in Seq(Assembled)
      BY <3>2, <3>3, ConcatProperties
    <3>5. rest = before \o after
      BY <2>2 DEF RemoveAt, before, after
    <3> QED BY <3>4, <3>5
  <2> QED BY <2>1, <2>2
<1> HIDE DEF used, rest
<1>9. all \in Seq(Assembled) /\ all # <<>>
  BY <1>6, <1>8, AppendProperties
<1> HIDE DEF all
<1>10. CacheIsTrue'
  <2>1. Tail(all) \in Seq(Assembled)
    BY <1>9, HeadTailProperties
  <2>2. cache' \in Seq(Assembled)
    BY <1>1, <1>9, <2>1
  <2> QED BY <2>2 DEF CacheIsTrue
<1>11. used.context = AssembleContext(session, b)
  <2>1. PICK s \in Sessions, c \in Budgets :
          used = [key |-> CacheKey(s, c), context |-> AssembleContext(s, c)]
    BY <1>6 DEF Assembled
  <2>2. CacheKey(s, c) = CacheKey(session, b)
    BY <1>7, <2>1 DEF key
  <2>3. AssembleContext(s, c) = AssembleContext(session, b)
    BY <1>2, <2>2, KeyDecides
  <2> QED BY <2>1, <2>3
<1>12. Tight(session, b, used.context)
  BY <1>2, <1>11, AssembledIsTight
<1>13. /\ answer'.session = session /\ answer'.budget = b /\ answer'.context = used.context
  BY <1>1
<1>14. CompactionIsTight'
  BY <1>12, <1>13 DEF CompactionIsTight, Tight
<1> QED BY <1>10, <1>14

LEMMA ContextInductive == IInv /\ ContextInv /\ [Next]_vars => ContextInv'
<1> SUFFICES ASSUME IInv, ContextInv, [Next]_vars PROVE ContextInv'
  OBVIOUS
<1>1. ReadTypes'
  BY ReadTypesInductive DEF ContextInv
<1>2. ASSUME UNCHANGED <<cache, answer>> PROVE CacheIsTrue' /\ CompactionIsTight'
  <2>1. CacheIsTrue'
    BY <1>2 DEF ContextInv, CacheIsTrue
  <2>2. CompactionIsTight'
    BY <1>2 DEF ContextInv, CompactionIsTight
  <2> QED BY <2>1, <2>2
<1>3. CASE Restart
  <2>1. cache' = <<>> /\ answer' = answer
    BY <1>3 DEF Restart, history
  <2>2. CacheIsTrue'
    BY <2>1 DEF CacheIsTrue
  <2>3. CompactionIsTight'
    BY <2>1 DEF ContextInv, CompactionIsTight
  <2> QED BY <1>1, <2>2, <2>3 DEF ContextInv
<1>4. ASSUME NEW t \in Threads, NEW b \in Budgets, Assemble(t, b) PROVE ContextInv'
  BY <1>1, <1>4, AssembleKeeps DEF ContextInv
<1>5. CASE CreateSession \/ UNCHANGED vars
  BY <1>1, <1>2, <1>5 DEF CreateSession, vars, history, ContextInv
<1>6. ASSUME NEW t \in Threads, NEW item, AppendReads(t, item) \/ CaptureBegins(t, item)
      PROVE  ContextInv'
  <2>1. UNCHANGED <<cache, answer>>
    BY <1>6 DEF AppendReads, CaptureBegins
  <2> QED BY <1>1, <1>2, <2>1 DEF ContextInv
<1>7. ASSUME NEW t \in Threads,
             \/ AppendWrites(t) \/ CaptureWrites(t) \/ SummarizeWrites(t)
             \/ TrimReads(t) \/ TrimWrites(t) \/ ReadSummary(t) \/ ReadMessages(t)
             \/ WriteTimesOut(t)
      PROVE  ContextInv'
  <2>1. UNCHANGED <<cache, answer>>
    BY <1>7 DEF AppendWrites, CaptureWrites, SummarizeWrites, TrimReads, TrimWrites,
         ReadSummary, ReadMessages, WriteTimesOut, history
  <2> QED BY <1>1, <1>2, <2>1 DEF ContextInv
<1>8. ASSUME NEW t \in Threads, NEW covers, NEW text, SummarizeReads(t, covers, text)
      PROVE  ContextInv'
  <2>1. UNCHANGED <<cache, answer>>
    BY <1>8 DEF SummarizeReads, history
  <2> QED BY <1>1, <1>2, <2>1 DEF ContextInv
<1> QED BY <1>3, <1>4, <1>5, <1>6, <1>7, <1>8
     DEF Next, AppendMessage, RecordTerminal, RecordFilesystem

\* assemble_context and its cache: whatever was appended, summarized, trimmed or read
\* meanwhile and whatever was evicted, the context of a session is its summary and the
\* longest run of its newest messages that fits the budget, and within the budget as
\* soon as it has more than one message.
THEOREM CompactionIsTightHolds == Spec => []CompactionIsTight
<1>1. Init => ContextInv
  <2> SUFFICES ASSUME Init PROVE ContextInv
    OBVIOUS
  <2>1. ReadTypes
    BY DEF Init, Idle, ReadTypes
  <2>2. CacheIsTrue /\ CompactionIsTight
    BY DEF Init, CacheIsTrue, CompactionIsTight
  <2> QED BY <2>1, <2>2 DEF ContextInv
<1>2. ContextInv => CompactionIsTight
  BY DEF ContextInv
<1> QED BY <1>1, <1>2, ContextInductive, InvariantHolds, PTL DEF Spec
=============================================================================
