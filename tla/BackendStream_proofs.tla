------------------------ MODULE BackendStream_proofs ------------------------
(***************************************************************************)
(* Proofs about BackendStream for every set of calls, number of retries,   *)
(* chunks and instances: the client hears one attempt, in_flight counts    *)
(* the requests that are at work and these own every open response, a      *)
(* success is reported only for output that earned it, and the middleware  *)
(* leaves nothing behind.  What one call does never disturbs another, so   *)
(* the invariant is a conjunction of statements about single calls, and of *)
(* one about the counter they share.                                       *)
(***************************************************************************)
EXTENDS BackendStream, FiniteSetTheorems, WellFoundedInduction, TLAPS

Phases == {"idle", "body", "handling", "admitted", "connecting", "receiving", "closing",
           "finishing", "over"}
Sent == {"part", "last", "gone"}
Chunk == [try : Nat, text : BOOLEAN, finish : {None, "length", "stop"}]

StreamTypes ==
    /\ phase \in [Calls -> Phases]
    /\ stream \in [Calls -> BOOLEAN]
    /\ try \in [Calls -> Nat]
    /\ conn \in [Calls -> BOOLEAN]
    /\ out \in [Calls -> Seq(Chunk)]
    /\ after \in [Calls -> {None, "complete", "failed", "raised", "retry"}]
    /\ probe \in [Calls -> BOOLEAN \cup {None}]
    /\ cancel \in [Calls -> BOOLEAN]
    /\ wire \in [Calls -> Seq(Sent)]
    /\ pump \in [Calls -> {"receiving", "putting", "over"}]
    /\ held \in [Calls -> Sent \cup {None}]
    /\ mailbox \in [Calls -> Sent \cup {None}]
    /\ waiter \in [Calls -> {"waiting", "joining", "returned"}]

\* A response is open only while the call works on it or closes it.
ConnectionIsOwned(c) == conn[c] => phase[c] \in {"receiving", "closing"}

\* All output is that of the current attempt, and there is none when the call is
\* about to make another one.
OutputIsCurrent(c) ==
    /\ \A k \in DOMAIN out[c] : out[c][k].try = try[c]
    /\ phase[c] \in {"idle", "body", "handling", "admitted"} => out[c] = <<>>
    /\ after[c] = "retry" => phase[c] = "closing" /\ out[c] = <<>>

\* A success is reported after the last chunk, and what was passed on earned it.
Earned(c) ==
    /\ \E k \in DOMAIN out[c] : out[c][k].text
    /\ stream[c] => \E k \in DOMAIN out[c] : out[c][k].finish = "stop"
    /\ \A k \in DOMAIN out[c] : out[c][k].finish = "length" =>
         \E j \in DOMAIN out[c] : j > k /\ out[c][j].finish = "stop"
SuccessIsFinal(c) == probe[c] = TRUE => phase[c] \in {"finishing", "over"} /\ Earned(c)

\* The middleware has seen both of its tasks end.
ReturnIsLast(c) == waiter[c] = "returned" => phase[c] = "over" /\ pump[c] = "over"

CallInv(c) == ConnectionIsOwned(c) /\ OutputIsCurrent(c) /\ SuccessIsFinal(c) /\ ReturnIsLast(c)

Holders == {c \in Calls : HoldsSlot(c)}

\* No assumption on Calls: that finitely many hold a slot is part of the invariant.
SlotsAreHolders == IsFiniteSet(Holders) /\ slots = Cardinality(Holders)

IInv == StreamTypes /\ (\A c \in Calls : CallInv(c)) /\ SlotsAreHolders

-----------------------------------------------------------------------------
(* Greatest elements, which FinishReason takes of the chunks' positions.   *)

LEMMA LeastOf ==
    ASSUME NEW S \in SUBSET Nat, S # {}
    PROVE  \E m \in S : \A k \in S : m <= k
<1>1. IsWellFoundedOn(OpToRel(<, Nat), Nat)
  BY NatLessThanWellFounded
<1>2. PICK m \in S : \A k \in S : ~(<<k, m>> \in OpToRel(<, Nat))
  BY <1>1, WFMin
<1>3. \A k \in S : ~(k < m)
  BY <1>2 DEF OpToRel
<1> QED BY <1>3

LEMMA GreatestOf ==
    ASSUME NEW n \in Nat, NEW S \in SUBSET (1..n), S # {}
    PROVE  \E m \in S : \A k \in S : k <= m
<1> DEFINE T == {n - k : k \in S}
<1>1. T \in SUBSET Nat
  OBVIOUS
<1>2. T # {}
  OBVIOUS
<1> HIDE DEF T
<1>3. PICK t \in T : \A u \in T : t <= u
  BY <1>1, <1>2, LeastOf
<1>4. PICK m \in S : t = n - m
  BY DEF T
<1>5. \A k \in S : n - k \in T
  BY DEF T
<1>6. \A k \in S : n - m <= n - k
  BY <1>3, <1>4, <1>5
<1> QED BY <1>6

\* _is_degenerate_completion looks at the last finish_reason only; that is enough
\* for a call that passes it to have earned its success.
LEMMA HealthyIsEarned ==
    ASSUME StreamTypes, NEW c \in Calls, Healthy(c)
    PROVE  Earned(c)
<1> DEFINE finishes == {k \in DOMAIN out[c] : out[c][k].finish # None}
           last     == CHOOSE k \in finishes : \A j \in finishes : j <= k
<1>1. HasText(c) /\ FinishReason(c) = "stop"
  BY DEF Healthy
<1>2. /\ out[c] \in Seq(Chunk) /\ stream[c] \in BOOLEAN /\ Len(out[c]) \in Nat
      /\ DOMAIN out[c] = 1..Len(out[c])
  BY DEF StreamTypes
<1>3. CASE finishes = {}
  <2>1. ~stream[c]
    BY <1>1, <1>2, <1>3, CallsAssumption DEF FinishReason
  <2>2. \A k \in DOMAIN out[c] : out[c][k].finish = None
    BY <1>3
  <2> QED BY <1>1, <2>1, <2>2, CallsAssumption DEF Earned, HasText
<1>4. CASE finishes # {}
  <2>1. finishes \in SUBSET (1..Len(out[c]))
    BY <1>2
  <2> HIDE DEF finishes
  <2>2. \E k \in finishes : \A j \in finishes : j <= k
    BY <1>2, <1>4, <2>1, GreatestOf
  <2>3. last \in finishes /\ \A j \in finishes : j <= last
    BY <2>2
  <2> HIDE DEF last
  <2>4. out[c][last].finish = "stop"
    BY <1>1, <1>4 DEF FinishReason, finishes, last
  <2>5. last \in DOMAIN out[c]
    BY <2>3 DEF finishes
  <2>6. ASSUME NEW k \in DOMAIN out[c], out[c][k].finish = "length"
        PROVE  last > k
    <3>1. k \in finishes
      BY <2>6, CallsAssumption DEF finishes
    <3>2. k # last
      BY <2>4, <2>6
    <3> QED BY <1>2, <2>1, <2>3, <3>1, <3>2
  <2> QED BY <1>1, <2>4, <2>5, <2>6 DEF Earned, HasText
<1> QED BY <1>3, <1>4

-----------------------------------------------------------------------------
(* Types.                                                                  *)

\* Wherever a request leaves the adapter, the types are kept.
LEMMA LeaveTypes ==
    ASSUME StreamTypes, NEW c \in Calls, NEW how, Leave(c, how)
    PROVE  phase' \in [Calls -> Phases] /\ probe' \in [Calls -> BOOLEAN \cup {None}]
<1>1. Healthy(c) \in BOOLEAN
  BY DEF Healthy
<1> QED BY <1>1 DEF Leave, StreamTypes, Go, Phases

LEMMA CloseTypes ==
    ASSUME StreamTypes, NEW c \in Calls,
           NEW how \in {"complete", "failed", "raised", "retry"}, Close(c, how)
    PROVE  /\ phase' \in [Calls -> Phases] /\ probe' = probe
           /\ after' \in [Calls -> {None, "complete", "failed", "raised", "retry"}]
BY DEF Close, StreamTypes, Go, Phases

LEMMA TypesInductive == StreamTypes /\ [Next]_vars => StreamTypes'
<1> SUFFICES ASSUME StreamTypes, [Next]_vars PROVE StreamTypes'
  OBVIOUS
<1> USE CallsAssumption DEF StreamTypes, Go, Phases, adapter, client
<1>1. ASSUME NEW c \in Calls, Arrive(c) PROVE StreamTypes'
  <2>1. PICK parts \in 1..BodyParts :
          wire' = [wire EXCEPT ![c] = [k \in 1..parts |-> IF k = parts THEN "last" ELSE "part"]]
    BY <1>1 DEF Arrive
  <2>2. [k \in 1..parts |-> IF k = parts THEN "last" ELSE "part"] \in Seq(Sent)
    BY DEF Sent
  <2>3. wire' \in [Calls -> Seq(Sent)]
    BY <2>1, <2>2
  <2>4. stream' \in [Calls -> BOOLEAN]
    BY <1>1 DEF Arrive
  <2> QED BY <1>1, <2>3, <2>4 DEF Arrive
<1>2. ASSUME NEW c \in Calls, HangUp(c) PROVE StreamTypes'
  <2>1. Append(wire[c], "gone") \in Seq(Sent)
    BY DEF Sent
  <2>2. wire' \in [Calls -> Seq(Sent)]
    BY <1>2, <2>1 DEF HangUp
  <2> QED BY <1>2, <2>2 DEF HangUp
<1>3. ASSUME NEW c \in Calls, PumpReceives(c) PROVE StreamTypes'
  BY <1>3 DEF PumpReceives
<1>4. ASSUME NEW c \in Calls, PumpPuts(c) PROVE StreamTypes'
  BY <1>4 DEF PumpPuts
<1>5. ASSUME NEW c \in Calls, AppReads(c) PROVE StreamTypes'
  <2>1. mailbox[c] \in Sent
    BY <1>5 DEF AppReads
  <2>2. phase' \in [Calls -> Phases]
    BY <1>5, <2>1 DEF AppReads, Sent
  <2>3. mailbox' \in [Calls -> Sent \cup {None}]
    BY <1>5 DEF AppReads
  <2> QED BY <1>5, <2>2, <2>3 DEF AppReads
<1>6. ASSUME NEW c \in Calls, WaitEnds(c) PROVE StreamTypes'
  BY <1>6 DEF WaitEnds
<1>7. ASSUME NEW c \in Calls, Joined(c) PROVE StreamTypes'
  BY <1>7 DEF Joined
<1>8. ASSUME NEW c \in Calls, Admit(c) PROVE StreamTypes'
  BY <1>8 DEF Admit
<1>9. ASSUME NEW c \in Calls, Begin(c) PROVE StreamTypes'
  <2>1. try' \in [Calls -> Nat] /\ phase' \in [Calls -> Phases]
    BY <1>9 DEF Begin, Request
  <2> QED BY <1>9, <2>1 DEF Begin
<1>10. ASSUME NEW c \in Calls, Closed(c) PROVE StreamTypes'
  <2>1. conn' \in [Calls -> BOOLEAN]
        /\ after' \in [Calls -> {None, "complete", "failed", "raised", "retry"}]
    BY <1>10 DEF Closed
  <2>2. CASE Retry(c) /\ UNCHANGED <<probe, slots>>
    <3>1. try' \in [Calls -> Nat] /\ phase' \in [Calls -> Phases]
      BY <2>2 DEF Retry, Request
    <3> QED BY <1>10, <2>1, <2>2, <3>1 DEF Closed
  <2>3. CASE Leave(c, after[c]) /\ UNCHANGED <<try, instance, cursor>>
    <3>1. phase' \in [Calls -> Phases] /\ probe' \in [Calls -> BOOLEAN \cup {None}]
      BY <2>3, LeaveTypes
    <3> QED BY <1>10, <2>1, <2>3, <3>1 DEF Closed
  <2> QED BY <1>10, <2>2, <2>3 DEF Closed
<1>11. ASSUME NEW c \in Calls, Release(c) PROVE StreamTypes'
  BY <1>11 DEF Release
<1>12. ASSUME NEW c \in Calls, CancelLands(c) PROVE StreamTypes'
  <2>1. cancel' \in [Calls -> BOOLEAN]
    BY <1>12 DEF CancelLands
  <2>2. CASE phase[c] \in {"body", "handling"}
    BY <1>12, <2>1, <2>2 DEF CancelLands
  <2>3. CASE phase[c] \in {"admitted", "connecting"}
    <3>1. Leave(c, "raised") /\ UNCHANGED after
      BY <1>12, <2>3 DEF CancelLands
    <3>2. phase' \in [Calls -> Phases] /\ probe' \in [Calls -> BOOLEAN \cup {None}]
      BY <3>1, LeaveTypes
    <3> QED BY <1>12, <2>1, <3>1, <3>2 DEF CancelLands
  <2>4. CASE phase[c] = "receiving"
    <3>1. Close(c, "raised")
      BY <1>12, <2>4 DEF CancelLands
    <3>2. /\ phase' \in [Calls -> Phases] /\ probe' = probe
          /\ after' \in [Calls -> {None, "complete", "failed", "raised", "retry"}]
      BY <3>1, CloseTypes
    <3> QED BY <1>12, <2>1, <3>1, <3>2 DEF CancelLands
  <2> QED BY <1>12, <2>2, <2>3, <2>4 DEF CancelLands, CancelPoints
<1>13. ASSUME NEW c \in Calls, Refused(c) PROVE StreamTypes'
  <2>1. CASE Retry(c) /\ UNCHANGED <<probe, slots>>
    <3>1. try' \in [Calls -> Nat] /\ phase' \in [Calls -> Phases]
      BY <2>1 DEF Retry, Request
    <3> QED BY <1>13, <2>1, <3>1 DEF Refused
  <2>2. CASE Leave(c, "failed") /\ UNCHANGED <<try, instance, cursor>>
    <3>1. phase' \in [Calls -> Phases] /\ probe' \in [Calls -> BOOLEAN \cup {None}]
      BY <2>2, LeaveTypes
    <3> QED BY <1>13, <2>2, <3>1 DEF Refused
  <2> QED BY <1>13, <2>1, <2>2 DEF Refused
<1>14. ASSUME NEW c \in Calls, TimesOut(c) PROVE StreamTypes'
  <2>1. CASE Close(c, "failed")
    <3>1. /\ phase' \in [Calls -> Phases] /\ probe' = probe
          /\ after' \in [Calls -> {None, "complete", "failed", "raised", "retry"}]
      BY <2>1, CloseTypes
    <3> QED BY <1>14, <3>1 DEF TimesOut
  <2>2. CASE Leave(c, "failed") /\ UNCHANGED after
    <3>1. phase' \in [Calls -> Phases] /\ probe' \in [Calls -> BOOLEAN \cup {None}]
      BY <2>2, LeaveTypes
    <3> QED BY <1>14, <2>2, <3>1 DEF TimesOut
  <2> QED BY <1>14, <2>1, <2>2 DEF TimesOut
<1>15. ASSUME NEW c \in Calls, Responds(c) PROVE StreamTypes'
  <2>1. conn' \in [Calls -> BOOLEAN]
    BY <1>15 DEF Responds
  <2>2. CASE Go(c, "receiving") /\ UNCHANGED <<after, probe, slots>>
    BY <1>15, <2>1, <2>2 DEF Responds
  <2>3. CASE Close(c, "failed")
    <3>1. /\ phase' \in [Calls -> Phases] /\ probe' = probe
          /\ after' \in [Calls -> {None, "complete", "failed", "raised", "retry"}]
      BY <2>3, CloseTypes
    <3> QED BY <1>15, <2>1, <3>1 DEF Responds
  <2> QED BY <1>15, <2>2, <2>3 DEF Responds
<1>16. ASSUME NEW c \in Calls, Yields(c) PROVE StreamTypes'
  <2>1. PICK chunk \in Chunks :
          out' = [out EXCEPT ![c] = Append(@, [try |-> try[c], text |-> chunk.text,
                                               finish |-> chunk.finish])]
    BY <1>16 DEF Yields
  <2>2. [try |-> try[c], text |-> chunk.text, finish |-> chunk.finish] \in Chunk
    BY DEF Chunks, Chunk
  <2>3. out' \in [Calls -> Seq(Chunk)]
    BY <2>1, <2>2
  <2> QED BY <1>16, <2>3 DEF Yields
<1>17. ASSUME NEW c \in Calls, ResponseEnds(c) PROVE StreamTypes'
  <2>1. PICK how \in {"complete", "failed", "raised", "retry"} : Close(c, how)
    BY <1>17 DEF ResponseEnds
  <2>2. /\ phase' \in [Calls -> Phases] /\ probe' = probe
        /\ after' \in [Calls -> {None, "complete", "failed", "raised", "retry"}]
    BY <2>1, CloseTypes
  <2> QED BY <1>17, <2>2 DEF ResponseEnds
<1>18. CASE OtherCallResolves
  BY <1>18 DEF OtherCallResolves
<1>19. CASE UNCHANGED vars
  BY <1>19 DEF vars
<1> QED BY <1>1, <1>2, <1>3, <1>4, <1>5, <1>6, <1>7, <1>8, <1>9, <1>10,
        <1>11, <1>12, <1>13, <1>14, <1>15, <1>16, <1>17, <1>18, <1>19
     DEF Next, Server, Backend

-----------------------------------------------------------------------------
(* Single calls.                                                           *)

\* What the invariant of a call reads of it.
Untouched(d) ==
    /\ phase'[d] = phase[d] /\ stream'[d] = stream[d] /\ try'[d] = try[d]
    /\ conn'[d] = conn[d] /\ out'[d] = out[d] /\ after'[d] = after[d]
    /\ probe'[d] = probe[d]
    /\ pump'[d] = pump[d] /\ waiter'[d] = waiter[d]

LEMMA UntouchedKeeps ==
    ASSUME NEW d \in Calls, CallInv(d), Untouched(d)
    PROVE  CallInv(d)'
BY DEF CallInv, Untouched, ConnectionIsOwned, OutputIsCurrent, SuccessIsFinal, Earned, ReturnIsLast

\* A step of one call touches no other.
LEMMA OthersUntouched ==
    ASSUME StreamTypes, NEW c \in Calls, NEW d \in Calls, d # c,
           Arrive(c) \/ HangUp(c) \/ Server(c) \/ Backend(c)
    PROVE  Untouched(d)
<1> USE DEF Untouched, StreamTypes, Go, adapter, client
<1>1. CASE Arrive(c)
  BY <1>1 DEF Arrive
<1>2. CASE HangUp(c)
  BY <1>2 DEF HangUp
<1>3. CASE PumpReceives(c)
  BY <1>3 DEF PumpReceives
<1>4. CASE PumpPuts(c)
  BY <1>4 DEF PumpPuts
<1>5. CASE AppReads(c)
  BY <1>5 DEF AppReads
<1>6. CASE WaitEnds(c)
  BY <1>6 DEF WaitEnds
<1>7. CASE Joined(c)
  BY <1>7 DEF Joined
<1>8. CASE Admit(c)
  BY <1>8 DEF Admit
<1>9. CASE Begin(c)
  BY <1>9 DEF Begin, Request
<1>10. CASE Closed(c)
  BY <1>10 DEF Closed, Retry, Request, Leave
<1>11. CASE Release(c)
  BY <1>11 DEF Release
<1>12. CASE CancelLands(c)
  BY <1>12 DEF CancelLands, Leave, Close
<1>13. CASE Refused(c)
  BY <1>13 DEF Refused, Retry, Request, Leave
<1>14. CASE TimesOut(c)
  BY <1>14 DEF TimesOut, Close, Leave
<1>15. CASE Responds(c)
  BY <1>15 DEF Responds, Close
<1>16. CASE Yields(c)
  BY <1>16 DEF Yields
<1>17. CASE ResponseEnds(c)
  BY <1>17 DEF ResponseEnds, Close
<1> QED BY <1>1, <1>2, <1>3, <1>4, <1>5, <1>6, <1>7, <1>8, <1>9, <1>10,
        <1>11, <1>12, <1>13, <1>14, <1>15, <1>16, <1>17
     DEF Server, Backend

\* _stream_chunks retries only what has yielded nothing: no attempt follows output.
LEMMA RetryIsSilent ==
    ASSUME StreamTypes, NEW c \in Calls, CallInv(c), MayRetry(c)
    PROVE  out[c] = <<>>
<1>1. out[c] \in Seq(Chunk)
  BY DEF StreamTypes
<1>2. DOMAIN out[c] = {}
  BY DEF MayRetry, CallInv, OutputIsCurrent
<1>3. DOMAIN out[c] = 1..Len(out[c]) /\ Len(out[c]) \in Nat
  BY <1>1
<1>4. 1 \notin 1..Len(out[c])
  BY <1>2, <1>3
<1>5. Len(out[c]) = 0
  BY <1>3, <1>4
<1> QED BY <1>1, <1>5

LEMMA RetryKeeps ==
    ASSUME StreamTypes, NEW c \in Calls, CallInv(c), Retry(c), out[c] = <<>>,
           phase[c] \in {"connecting", "closing"},
           ~conn'[c], after'[c] # "retry",
           out'[c] = out[c], probe'[c] = probe[c], waiter'[c] = waiter[c]
    PROVE  CallInv(c)'
BY DEF StreamTypes, Retry, Request, Go, CallInv, ConnectionIsOwned, OutputIsCurrent,
       SuccessIsFinal, ReturnIsLast

LEMMA CloseKeeps ==
    ASSUME StreamTypes, NEW c \in Calls, NEW how, CallInv(c), Close(c, how),
           phase[c] \in {"connecting", "receiving"}, how = "retry" => out[c] = <<>>,
           out'[c] = out[c], try'[c] = try[c], waiter'[c] = waiter[c]
    PROVE  CallInv(c)'
BY DEF StreamTypes, Close, Go, CallInv, ConnectionIsOwned, OutputIsCurrent,
       SuccessIsFinal, ReturnIsLast

LEMMA LeaveKeeps ==
    ASSUME StreamTypes, NEW c \in Calls, NEW how, CallInv(c), Leave(c, how),
           phase[c] \in {"admitted", "connecting", "receiving", "closing"},
           ~conn'[c], after'[c] # "retry",
           out'[c] = out[c], try'[c] = try[c], stream'[c] = stream[c], waiter'[c] = waiter[c]
    PROVE  CallInv(c)'
<1>1. phase'[c] \in {"finishing", "over"} /\ waiter[c] # "returned" /\ probe[c] # TRUE
  BY DEF StreamTypes, Leave, Go, CallInv, ReturnIsLast, SuccessIsFinal
<1>2. ConnectionIsOwned(c)' /\ OutputIsCurrent(c)' /\ ReturnIsLast(c)'
  BY <1>1 DEF CallInv, ConnectionIsOwned, OutputIsCurrent, ReturnIsLast
<1>3. SuccessIsFinal(c)'
  <2> SUFFICES ASSUME probe'[c] = TRUE PROVE Earned(c)'
    BY <1>1 DEF SuccessIsFinal
  <2>1. Healthy(c)
    BY <1>1 DEF StreamTypes, Leave
  <2>2. Earned(c)
    BY <2>1, HealthyIsEarned
  <2> QED BY <2>2 DEF Earned
<1> QED BY <1>2, <1>3 DEF CallInv

\* The call that takes the step keeps its part of the invariant.
LEMMA ActorKeeps ==
    ASSUME StreamTypes, NEW c \in Calls, CallInv(c),
           Arrive(c) \/ HangUp(c) \/ Server(c) \/ Backend(c)
    PROVE  CallInv(c)'
<1> USE CallsAssumption DEF StreamTypes, Go, adapter, client
<1>1. CASE Arrive(c)
  BY <1>1 DEF Arrive, CallInv, ConnectionIsOwned, OutputIsCurrent,
     SuccessIsFinal, Earned, ReturnIsLast
<1>2. CASE HangUp(c)
  BY <1>2 DEF HangUp, CallInv, ConnectionIsOwned, OutputIsCurrent,
     SuccessIsFinal, Earned, ReturnIsLast
<1>3. CASE PumpReceives(c)
  BY <1>3 DEF PumpReceives, CallInv, ConnectionIsOwned, OutputIsCurrent,
     SuccessIsFinal, Earned, ReturnIsLast
<1>4. CASE PumpPuts(c)
  BY <1>4 DEF PumpPuts, CallInv, ConnectionIsOwned, OutputIsCurrent,
     SuccessIsFinal, Earned, ReturnIsLast
<1>5. CASE AppReads(c)
  BY <1>5 DEF AppReads, Sent, CallInv, ConnectionIsOwned, OutputIsCurrent,
     SuccessIsFinal, Earned, ReturnIsLast
<1>6. CASE WaitEnds(c)
  BY <1>6 DEF WaitEnds, TaskDone, CallInv, ConnectionIsOwned, OutputIsCurrent,
     SuccessIsFinal, Earned, ReturnIsLast
<1>7. CASE Joined(c)
  BY <1>7 DEF Joined, MayReturn, CallInv, ConnectionIsOwned, OutputIsCurrent,
     SuccessIsFinal, Earned, ReturnIsLast
<1>8. CASE Admit(c)
  BY <1>8 DEF Admit, CallInv, ConnectionIsOwned, OutputIsCurrent,
     SuccessIsFinal, Earned, ReturnIsLast
<1>9. CASE Begin(c)
  BY <1>9 DEF Begin, Request, CallInv, ConnectionIsOwned, OutputIsCurrent,
     SuccessIsFinal, Earned, ReturnIsLast
<1>10. CASE Closed(c)
  <2>1. conn'[c] = FALSE /\ after'[c] = None /\ phase[c] = "closing"
    BY <1>10 DEF Closed
  <2>2. CASE after[c] = "retry"
    <3>1. Retry(c) /\ UNCHANGED <<probe, slots>>
      BY <1>10, <2>2 DEF Closed, Leave
    <3>2. out[c] = <<>>
      BY <2>2 DEF CallInv, OutputIsCurrent
    <3> QED BY <1>10, <2>1, <3>1, <3>2, RetryKeeps DEF Closed
  <2>3. CASE after[c] # "retry"
    <3>1. Leave(c, after[c]) /\ UNCHANGED <<try, instance, cursor>>
      BY <1>10, <2>3 DEF Closed
    <3> QED BY <1>10, <2>1, <3>1, LeaveKeeps DEF Closed
  <2> QED BY <2>2, <2>3
<1>11. CASE Release(c)
  BY <1>11 DEF Release, CallInv, ConnectionIsOwned, OutputIsCurrent,
     SuccessIsFinal, Earned, ReturnIsLast
<1>12. CASE CancelLands(c)
  <2>1. CASE phase[c] \in {"body", "handling"}
    BY <1>12, <2>1 DEF CancelLands, CallInv, ConnectionIsOwned, OutputIsCurrent, SuccessIsFinal,
                       Earned, ReturnIsLast
  <2>2. CASE phase[c] \in {"admitted", "connecting"}
    <3>1. Leave(c, "raised") /\ UNCHANGED <<after, conn>>
      BY <1>12, <2>2 DEF CancelLands
    <3>2. ~conn[c] /\ after[c] # "retry"
      BY <2>2 DEF CallInv, ConnectionIsOwned, OutputIsCurrent
    <3> QED BY <1>12, <2>2, <3>1, <3>2, LeaveKeeps DEF CancelLands
  <2>3. CASE phase[c] = "receiving"
    <3>1. Close(c, "raised") /\ UNCHANGED conn
      BY <1>12, <2>3 DEF CancelLands
    <3> QED BY <1>12, <2>3, <3>1, CloseKeeps DEF CancelLands
  <2> QED BY <1>12, <2>1, <2>2, <2>3 DEF CancelLands, CancelPoints
<1>13. CASE Refused(c)
  <2>1. ~conn[c] /\ after[c] # "retry" /\ phase[c] = "connecting"
    BY <1>13 DEF Refused, CallInv, ConnectionIsOwned, OutputIsCurrent
  <2>2. CASE MayRetry(c) /\ Retry(c) /\ UNCHANGED <<probe, slots>>
    <3>1. out[c] = <<>>
      BY <2>2, RetryIsSilent
    <3> QED BY <1>13, <2>1, <2>2, <3>1, RetryKeeps DEF Refused
  <2>3. CASE Leave(c, "failed") /\ UNCHANGED <<try, instance, cursor>>
    BY <1>13, <2>1, <2>3, LeaveKeeps DEF Refused
  <2> QED BY <1>13, <2>2, <2>3 DEF Refused
<1>14. CASE TimesOut(c)
  <2>1. CASE conn[c]
    <3>1. Close(c, "failed")
      BY <1>14, <2>1 DEF TimesOut
    <3> QED BY <1>14, <3>1, CloseKeeps DEF TimesOut
  <2>2. CASE ~conn[c]
    <3>1. Leave(c, "failed") /\ UNCHANGED after
      BY <1>14, <2>2 DEF TimesOut
    <3>2. after[c] # "retry"
      BY <1>14 DEF TimesOut, CallInv, OutputIsCurrent
    <3> QED BY <1>14, <2>2, <3>1, <3>2, LeaveKeeps DEF TimesOut
  <2> QED BY <2>1, <2>2
<1>15. CASE Responds(c)
  <2>1. CASE Go(c, "receiving") /\ UNCHANGED <<after, probe, slots>>
    BY <1>15, <2>1 DEF Responds, CallInv, ConnectionIsOwned, OutputIsCurrent, SuccessIsFinal,
                       Earned, ReturnIsLast
  <2>2. CASE Close(c, "failed")
    BY <1>15, <2>2, CloseKeeps DEF Responds
  <2> QED BY <1>15, <2>1, <2>2 DEF Responds
<1>16. CASE Yields(c)
  <2>1. PICK chunk \in Chunks :
          out' = [out EXCEPT ![c] = Append(@, [try |-> try[c], text |-> chunk.text,
                                               finish |-> chunk.finish])]
    BY <1>16 DEF Yields
  <2> DEFINE added == [try |-> try[c], text |-> chunk.text, finish |-> chunk.finish]
  <2>2. added.try = try[c] /\ out'[c] = Append(out[c], added) /\ out[c] \in Seq(Chunk)
    BY <2>1
  <2>3. added \in Chunk
    BY DEF Chunks, Chunk
  <2> HIDE DEF added
  <2>4. /\ phase[c] = "receiving" /\ phase'[c] = "receiving"
        /\ try'[c] = try[c] /\ after'[c] = after[c] /\ probe'[c] = probe[c]
        /\ conn'[c] = conn[c] /\ waiter'[c] = waiter[c]
    BY <1>16 DEF Yields, client
  <2>5. \A k \in DOMAIN out'[c] : out'[c][k].try = try[c]
    BY <2>2, <2>3 DEF CallInv, OutputIsCurrent
  <2> QED BY <2>4, <2>5
          DEF CallInv, ConnectionIsOwned, OutputIsCurrent, SuccessIsFinal, ReturnIsLast
<1>17. CASE ResponseEnds(c)
  <2>1. PICK how \in {"complete", "failed", "raised", "retry"} :
          Close(c, how) /\ (how = "retry" => MayRetry(c))
    BY <1>17 DEF ResponseEnds
  <2>2. how = "retry" => out[c] = <<>>
    BY <2>1, RetryIsSilent
  <2> QED BY <1>17, <2>1, <2>2, CloseKeeps DEF ResponseEnds
<1> QED BY <1>1, <1>2, <1>3, <1>4, <1>5, <1>6, <1>7, <1>8, <1>9, <1>10,
        <1>11, <1>12, <1>13, <1>14, <1>15, <1>16, <1>17
     DEF Server, Backend

-----------------------------------------------------------------------------
(* The counter.                                                            *)

Holding == {"admitted", "connecting", "receiving", "closing", "finishing"}

LEMMA SlotTaken ==
    ASSUME StreamTypes, SlotsAreHolders, NEW c \in Calls, ~HoldsSlot(c),
           NEW where \in Holding, Go(c, where), slots' = slots + 1
    PROVE  SlotsAreHolders'
<1>1. Holders' = Holders \cup {c}
  BY DEF Holders, HoldsSlot, Holding, Go, StreamTypes
<1>2. c \notin Holders
  BY DEF Holders
<1> QED BY <1>1, <1>2, FS_AddElement DEF SlotsAreHolders

LEMMA SlotGiven ==
    ASSUME StreamTypes, SlotsAreHolders, NEW c \in Calls, HoldsSlot(c),
           NEW where, where \notin Holding, Go(c, where), slots' = slots - 1
    PROVE  SlotsAreHolders'
<1>1. Holders' = Holders \ {c}
  BY DEF Holders, HoldsSlot, Holding, Go, StreamTypes
<1>2. c \in Holders
  BY DEF Holders
<1> QED BY <1>1, <1>2, FS_RemoveElement DEF SlotsAreHolders

LEMMA SlotKept ==
    ASSUME StreamTypes, SlotsAreHolders, NEW c \in Calls,
           NEW where, HoldsSlot(c) <=> where \in Holding, Go(c, where), slots' = slots
    PROVE  SlotsAreHolders'
<1>1. Holders' = Holders
  BY DEF Holders, HoldsSlot, Holding, Go, StreamTypes
<1> QED BY <1>1 DEF SlotsAreHolders

\* A plain call gives its slot back as it leaves the adapter, a stream keeps it.
LEMMA LeaveCounts ==
    ASSUME StreamTypes, SlotsAreHolders, NEW c \in Calls, HoldsSlot(c), NEW how, Leave(c, how)
    PROVE  SlotsAreHolders'
<1>1. CASE stream[c]
  <2>1. Go(c, "finishing") /\ slots' = slots
    BY <1>1 DEF Leave
  <2> QED BY <2>1, SlotKept DEF Holding
<1>2. CASE ~stream[c]
  <2>1. Go(c, "over") /\ slots' = slots - 1
    BY <1>2 DEF Leave
  <2> QED BY <2>1, SlotGiven DEF Holding
<1> QED BY <1>1, <1>2

LEMMA SlotsInductive ==
    ASSUME StreamTypes, SlotsAreHolders, [Next]_vars
    PROVE  SlotsAreHolders'
<1>1. ASSUME UNCHANGED <<phase, slots>> PROVE SlotsAreHolders'
  BY <1>1 DEF SlotsAreHolders, Holders, HoldsSlot
<1>2. ASSUME NEW c \in Calls, Arrive(c) PROVE SlotsAreHolders'
  BY <1>2, SlotKept DEF Arrive, HoldsSlot, Holding
<1>3. ASSUME NEW c \in Calls,
             HangUp(c) \/ PumpReceives(c) \/ PumpPuts(c) \/ WaitEnds(c) \/ Joined(c) \/ Yields(c)
      PROVE  SlotsAreHolders'
  BY <1>1, <1>3 DEF HangUp, PumpReceives, PumpPuts, WaitEnds, Joined, Yields
<1>4. ASSUME NEW c \in Calls, AppReads(c) PROVE SlotsAreHolders'
  <2>1. mailbox[c] \in Sent
    BY <1>4 DEF AppReads, StreamTypes
  <2>2. PICK where \in {"body", "handling", "over"} : Go(c, where)
    BY <1>4, <2>1 DEF AppReads, Sent
  <2>3. ~HoldsSlot(c) /\ where \notin Holding /\ slots' = slots
    BY <1>4 DEF AppReads, HoldsSlot, Holding
  <2> QED BY <2>2, <2>3, SlotKept
<1>5. ASSUME NEW c \in Calls, Admit(c) PROVE SlotsAreHolders'
  BY <1>5, SlotTaken DEF Admit, HoldsSlot, Holding
<1>6. ASSUME NEW c \in Calls, Begin(c) PROVE SlotsAreHolders'
  BY <1>6, SlotKept DEF Begin, HoldsSlot, Holding
<1>7. ASSUME NEW c \in Calls, Closed(c) PROVE SlotsAreHolders'
  <2>1. HoldsSlot(c)
    BY <1>7 DEF Closed, HoldsSlot
  <2>2. CASE Retry(c) /\ UNCHANGED <<probe, slots>>
    BY <2>1, <2>2, SlotKept DEF Retry, Holding
  <2>3. CASE Leave(c, after[c])
    BY <2>1, <2>3, LeaveCounts
  <2> QED BY <1>7, <2>2, <2>3 DEF Closed
<1>8. ASSUME NEW c \in Calls, Release(c) PROVE SlotsAreHolders'
  BY <1>8, SlotGiven DEF Release, HoldsSlot, Holding
<1>9. ASSUME NEW c \in Calls, CancelLands(c) PROVE SlotsAreHolders'
  <2>1. CASE phase[c] \in {"body", "handling"}
    BY <1>9, <2>1, SlotKept DEF CancelLands, HoldsSlot, Holding
  <2>2. CASE phase[c] \in {"admitted", "connecting"}
    <3>1. HoldsSlot(c) /\ Leave(c, "raised")
      BY <1>9, <2>2 DEF CancelLands, HoldsSlot
    <3> QED BY <3>1, LeaveCounts
  <2>3. CASE phase[c] = "receiving"
    BY <1>9, <2>3, SlotKept DEF CancelLands, Close, HoldsSlot, Holding
  <2> QED BY <1>9, <2>1, <2>2, <2>3 DEF CancelLands, CancelPoints
<1>10. ASSUME NEW c \in Calls, Refused(c) PROVE SlotsAreHolders'
  <2>1. HoldsSlot(c)
    BY <1>10 DEF Refused, HoldsSlot
  <2>2. CASE Retry(c) /\ UNCHANGED <<probe, slots>>
    BY <2>1, <2>2, SlotKept DEF Retry, Holding
  <2>3. CASE Leave(c, "failed")
    BY <2>1, <2>3, LeaveCounts
  <2> QED BY <1>10, <2>2, <2>3 DEF Refused
<1>11. ASSUME NEW c \in Calls, TimesOut(c) PROVE SlotsAreHolders'
  <2>1. HoldsSlot(c)
    BY <1>11 DEF TimesOut, HoldsSlot
  <2>2. CASE Close(c, "failed")
    BY <2>1, <2>2, SlotKept DEF Close, Holding
  <2>3. CASE Leave(c, "failed")
    BY <2>1, <2>3, LeaveCounts
  <2> QED BY <1>11, <2>2, <2>3 DEF TimesOut
<1>12. ASSUME NEW c \in Calls, Responds(c) PROVE SlotsAreHolders'
  <2>1. HoldsSlot(c)
    BY <1>12 DEF Responds, HoldsSlot
  <2> QED BY <1>12, <2>1, SlotKept DEF Responds, Close, Holding
<1>13. ASSUME NEW c \in Calls, ResponseEnds(c) PROVE SlotsAreHolders'
  <2>1. HoldsSlot(c)
    BY <1>13 DEF ResponseEnds, HoldsSlot
  <2> QED BY <1>13, <2>1, SlotKept DEF ResponseEnds, Close, Holding
<1>14. CASE OtherCallResolves
  BY <1>1, <1>14 DEF OtherCallResolves
<1>15. CASE UNCHANGED vars
  BY <1>1, <1>15 DEF vars
<1> QED BY <1>2, <1>3, <1>4, <1>5, <1>6, <1>7, <1>8, <1>9, <1>10, <1>11, <1>12, <1>13,
        <1>14, <1>15
     DEF Next, Server, Backend

-----------------------------------------------------------------------------
(* The theorems.                                                           *)

LEMMA Initially == Init => IInv
<1> SUFFICES ASSUME Init PROVE IInv
  OBVIOUS
<1>1. StreamTypes
  BY DEF Init, StreamTypes, Phases
<1>2. ASSUME NEW c \in Calls PROVE CallInv(c)
  <2>1. /\ phase[c] = "idle" /\ conn[c] = FALSE /\ out[c] = <<>> /\ after[c] = None
        /\ probe[c] = None /\ waiter[c] = "waiting"
    BY DEF Init
  <2>2. OutputIsCurrent(c)
    BY <2>1, CallsAssumption DEF OutputIsCurrent
  <2>3. SuccessIsFinal(c)
    BY <2>1, CallsAssumption DEF SuccessIsFinal
  <2> QED BY <2>1, <2>2, <2>3 DEF CallInv, ConnectionIsOwned, ReturnIsLast
<1>3. Holders = {} /\ slots = 0
  BY DEF Init, Holders, HoldsSlot
<1> QED BY <1>1, <1>2, <1>3, FS_EmptySet DEF IInv, SlotsAreHolders

LEMMA Inductive == IInv /\ [Next]_vars => IInv'
<1> SUFFICES ASSUME IInv, [Next]_vars PROVE IInv'
  OBVIOUS
<1>1. StreamTypes'
  BY TypesInductive DEF IInv
<1>2. ASSUME NEW d \in Calls PROVE CallInv(d)'
  <2>1. CASE \E c \in Calls : Arrive(c) \/ HangUp(c) \/ Server(c) \/ Backend(c)
    <3>1. PICK c \in Calls : Arrive(c) \/ HangUp(c) \/ Server(c) \/ Backend(c)
      BY <2>1
    <3>2. CASE d = c
      BY <3>1, <3>2, ActorKeeps DEF IInv
    <3>3. CASE d # c
      BY <3>1, <3>3, OthersUntouched, UntouchedKeeps DEF IInv
    <3> QED BY <3>2, <3>3
  <2>2. CASE OtherCallResolves \/ UNCHANGED vars
    <3>1. Untouched(d)
      BY <2>2 DEF OtherCallResolves, vars, adapter, client, Untouched
    <3> QED BY <3>1, UntouchedKeeps DEF IInv
  <2> QED BY <2>1, <2>2 DEF Next
<1>3. SlotsAreHolders'
  BY SlotsInductive DEF IInv
<1> QED BY <1>1, <1>2, <1>3 DEF IInv

THEOREM InvariantHolds == Spec => []IInv
<1> QED BY Initially, Inductive, PTL DEF Spec

\* The adapter's retry loop never repeats or continues what it has passed on: all
\* chunks a client gets come from one attempt, however often it retries.
THEOREM OneAttemptSpeaksHolds == Spec => []OneAttemptSpeaks
<1>1. IInv => OneAttemptSpeaks
  BY DEF IInv, CallInv, OutputIsCurrent, OneAttemptSpeaks
<1> QED BY <1>1, InvariantHolds, PTL

\* in_flight is the number of requests between admission and the return of their
\* slot, and no response is open without one, also when the client has hung up.
THEOREM SlotsCoverConnectionsHolds == Spec => []SlotsCoverConnections
<1>1. IInv => SlotsCoverConnections
  BY DEF IInv, CallInv, ConnectionIsOwned, SlotsAreHolders, Holders, HoldsSlot,
         SlotsCoverConnections
<1> QED BY <1>1, InvariantHolds, PTL

\* What chat_completions and the stream report to the health monitor as a success
\* had text, ended with "stop" and was closed, for every sequence of chunks.
THEOREM SuccessIsEarnedHolds == Spec => []SuccessIsEarned
<1>1. IInv => SuccessIsEarned
  BY DEF IInv, CallInv, ConnectionIsOwned, SuccessIsFinal, Earned, SuccessIsEarned
<1> QED BY <1>1, InvariantHolds, PTL

\* RequestLifetimeMiddleware returns only after the request task and the pump
\* are over and a close is never cut short, so no slot and no open response is
\* left behind.
THEOREM NothingOutlivesReturnHolds == Spec => []NothingOutlivesReturn
<1>1. IInv => NothingOutlivesReturn
  BY DEF IInv, CallInv, ReturnIsLast, ConnectionIsOwned, StreamTypes, HoldsSlot,
         NothingOutlivesReturn
<1> QED BY <1>1, InvariantHolds, PTL
=============================================================================
