----------------------------- MODULE BackendStream -----------------------------
(***************************************************************************)
(* One chat request from the socket to the backend and back: the           *)
(* middleware that owns the client's messages (api/lifetime.py), the       *)
(* adapter's attempts (backends/lmstudio.py; llamaserver.py is the same     *)
(* without aliases), the closing of responses (backends/http_stream.py) and *)
(* the accounting of a finished call (api/app.py).  Where a request may run *)
(* is Gateway's subject; here it is admitted to the one backend at once.    *)
(* The backend answers, fails or stays silent as it likes.                  *)
(***************************************************************************)
EXTENDS Integers, Sequences, FiniteSets

CONSTANTS
    Calls,
    Instances,    \* number of loaded instances behind the model's alias
    MaxRetries,
    MaxChunks,    \* bound: chunks of one attempt
    BodyParts,    \* bound: messages a request body comes in
    None

ASSUME CallsAssumption ==
    /\ Instances \in Nat \ {0}
    /\ MaxRetries \in Nat /\ MaxChunks \in Nat /\ BodyParts \in Nat \ {0}
    /\ None \notin BOOLEAN
    /\ None \notin {"part", "last", "gone", "length", "stop", "complete", "failed", "raised", "retry"}

VARIABLES
    phase,      \* where the request task is
    stream,     \* the request asks for a stream
    try,        \* number of the attempt
    instance,   \* what _resolve_model returned for the call
    conn,       \* the response of the attempt is open
    out,        \* chunks the adapter has yielded, with the attempt they came from
    after,      \* what the request does once its response is closed
    probe,      \* what the call reported to the health monitor, or None
    cursor,     \* _alias_cursor of the model
    slots,      \* in_flight of the backend
    cancel,     \* the request task was cancelled and has not noticed yet
    wire,       \* client messages the server has not received
    pump,       \* the pump: "receiving", "putting" or "over"
    held,       \* the message the pump is putting
    mailbox,    \* the queue of size one between pump and application
    waiter      \* the middleware: "waiting", "joining" or "returned"

adapter == <<stream, try, instance, conn, out, after, cursor>>
client == <<wire, pump, held, mailbox>>
vars == <<phase, adapter, probe, slots, cancel, client, waiter>>

\* A chunk carries text or not and a finish_reason or not; one with neither is
\* how usage is reported.
Chunks == [text : {TRUE}, finish : {None, "length"}] \cup [text : {FALSE}, finish : {None, "stop"}]
Go(c, where) == phase' = [phase EXCEPT ![c] = where]
HoldsSlot(c) == phase[c] \in {"admitted", "connecting", "receiving", "closing", "finishing"}

--------------------------------------------------------------------------------
(* The client and the middleware.                                          *)

\* A request arrives; its body is still on the wire.
Arrive(c) ==
    /\ phase[c] = "idle" /\ Go(c, "body")
    /\ \E parts \in 1..BodyParts :
         wire' = [wire EXCEPT ![c] = [k \in 1..parts |-> IF k = parts THEN "last" ELSE "part"]]
    /\ \E wanted \in BOOLEAN : stream' = [stream EXCEPT ![c] = wanted]
    /\ UNCHANGED <<try, instance, conn, out, after, cursor, probe, slots, cancel,
                   pump, held, mailbox, waiter>>

HangUp(c) ==
    /\ phase[c] # "idle" /\ waiter[c] # "returned"
    /\ "gone" \notin {wire[c][k] : k \in DOMAIN wire[c]} \cup {held[c]}
    /\ wire' = [wire EXCEPT ![c] = Append(@, "gone")]
    /\ UNCHANGED <<phase, adapter, probe, slots, cancel, pump, held, mailbox, waiter>>

PumpReceives(c) ==
    /\ phase[c] # "idle" /\ pump[c] = "receiving" /\ wire[c] # <<>>
    /\ held' = [held EXCEPT ![c] = Head(wire[c])]
    /\ wire' = [wire EXCEPT ![c] = Tail(@)]
    /\ pump' = [pump EXCEPT ![c] = "putting"]
    /\ UNCHANGED <<phase, adapter, probe, slots, cancel, mailbox, waiter>>

PumpPuts(c) ==
    /\ pump[c] = "putting" /\ mailbox[c] = None
    /\ mailbox' = [mailbox EXCEPT ![c] = held[c]]
    /\ pump' = [pump EXCEPT ![c] = IF held[c] = "gone" THEN "over" ELSE "receiving"]
    /\ UNCHANGED <<phase, adapter, probe, slots, cancel, wire, held, waiter>>

\* The application reads the whole body before the handler runs.
AppReads(c) ==
    /\ phase[c] = "body" /\ mailbox[c] # None /\ ~cancel[c]
    /\ mailbox' = [mailbox EXCEPT ![c] = None]
    /\ Go(c, CASE mailbox[c] = "part" -> "body"
               [] mailbox[c] = "last" -> "handling"
               [] mailbox[c] = "gone" -> "over")
    /\ UNCHANGED <<adapter, probe, slots, cancel, wire, pump, held, waiter>>

\* asyncio.wait ends when one of the two tasks is done, and the other is
\* cancelled.  Mutant: ALL_COMPLETED.
TaskDone_Both(c) == phase[c] = "over" /\ pump[c] = "over"
TaskDone(c) == phase[c] = "over" \/ pump[c] = "over"
WaitEnds(c) ==
    /\ waiter[c] = "waiting" /\ TaskDone(c)
    /\ waiter' = [waiter EXCEPT ![c] = "joining"]
    /\ cancel' = [cancel EXCEPT ![c] = phase[c] # "over"]
    /\ pump' = [pump EXCEPT ![c] = "over"]
    /\ UNCHANGED <<phase, adapter, probe, slots, wire, held, mailbox>>

\* Mutant: the middleware returns without joining the request it cancelled.
MayReturn_AtOnce(c) == TRUE
MayReturn(c) == phase[c] = "over" /\ pump[c] = "over"
Joined(c) ==
    /\ waiter[c] = "joining" /\ MayReturn(c)
    /\ waiter' = [waiter EXCEPT ![c] = "returned"]
    /\ UNCHANGED <<phase, adapter, probe, slots, cancel, client>>

--------------------------------------------------------------------------------
(* The handler and the adapter.                                            *)

Admit(c) ==
    /\ phase[c] = "handling" /\ ~cancel[c] /\ Go(c, "admitted")
    /\ slots' = slots + 1
    /\ UNCHANGED <<adapter, probe, cancel, client, waiter>>

Request(c, number, target) ==
    /\ try' = [try EXCEPT ![c] = number]
    /\ instance' = [instance EXCEPT ![c] = target]

\* _stream_chunks starts: the alias is resolved once, then the first attempt.
Begin(c) ==
    /\ phase[c] = "admitted" /\ ~cancel[c] /\ Go(c, "connecting")
    /\ Request(c, 1, cursor % Instances)
    /\ cursor' = (cursor % Instances) + 1
    /\ UNCHANGED <<stream, conn, out, after, probe, slots, cancel, client, waiter>>

\* A call this module does not follow resolves the alias.
OtherCallResolves ==
    /\ cursor' = (cursor % Instances) + 1
    /\ UNCHANGED <<phase, stream, try, instance, conn, out, after, probe, slots, cancel,
                   client, waiter>>

Retry(c) ==
    /\ Go(c, "connecting") /\ Request(c, try[c] + 1, instance[c])
    /\ UNCHANGED cursor

\* What complete() and the stream make of the chunks: whether there was any
\* text, and the last finish_reason, which complete() takes to be "stop" when no
\* chunk has one.
HasText(c) == \E k \in DOMAIN out[c] : out[c][k].text
FinishReason(c) ==
    LET finishes == {k \in DOMAIN out[c] : out[c][k].finish # None}
        last     == CHOOSE k \in finishes : \A j \in finishes : j <= k
    IN IF finishes # {} THEN out[c][last].finish ELSE IF stream[c] THEN None ELSE "stop"

\* Not _is_degenerate_completion.  Mutant: any finish_reason will do.
Healthy_AnyFinish(c) == HasText(c)
Healthy(c) == HasText(c) /\ FinishReason(c) = "stop"

\* The request leaves the adapter: with all chunks, with a BackendError, or
\* with another exception (a cancellation, a line that is no JSON).  A plain
\* call reports to the monitor and gives its slot back before it awaits again;
\* a stream reports only completions and is closed by SlotStream later.
Leave(c, how) ==
    /\ probe' = [probe EXCEPT ![c] =
                   IF how = "complete" THEN Healthy(c)
                   ELSE IF how = "failed" /\ ~stream[c] THEN FALSE ELSE @]
    /\ IF stream[c] THEN Go(c, "finishing") /\ UNCHANGED slots
       ELSE Go(c, "over") /\ slots' = slots - 1

\* Mutant: a transport error is retried although output was passed on.
MayRetry_Always(c) == try[c] <= MaxRetries
MayRetry(c) == try[c] <= MaxRetries /\ \A k \in DOMAIN out[c] : out[c][k].try # try[c]

\* The request leaves its response open behind it: close it first.
\* Mutant: the slot is given back before the response is closed.
Close_Later(c, how) ==
    /\ Leave(c, IF how = "retry" THEN "failed" ELSE how)
    /\ UNCHANGED after
Close(c, how) ==
    /\ after' = [after EXCEPT ![c] = how] /\ Go(c, "closing")
    /\ UNCHANGED <<probe, slots>>

\* No connection, or it is lost before the response starts.
Refused(c) ==
    /\ phase[c] = "connecting" /\ ~cancel[c]
    /\ \/ MayRetry(c) /\ Retry(c) /\ UNCHANGED <<probe, slots>>
       \/ ~MayRetry(c) /\ Leave(c, "failed") /\ UNCHANGED <<try, instance, cursor>>
    /\ UNCHANGED <<stream, conn, out, after, cancel, client, waiter>>

TimesOut(c) ==
    /\ phase[c] \in {"connecting", "receiving"} /\ ~cancel[c]
    /\ IF conn[c] THEN Close(c, "failed")
       ELSE Leave(c, "failed") /\ UNCHANGED after
    /\ UNCHANGED <<stream, try, instance, conn, out, cursor, cancel, client, waiter>>

\* A response starts; one that is not 2xx is read, closed and raised.
Responds(c) ==
    /\ phase[c] = "connecting" /\ ~cancel[c]
    /\ conn' = [conn EXCEPT ![c] = TRUE]
    /\ \/ Go(c, "receiving") /\ UNCHANGED <<after, probe, slots>>
       \/ Close(c, "failed")
    /\ UNCHANGED <<stream, try, instance, out, cursor, cancel, client, waiter>>

Yields(c) ==
    /\ phase[c] = "receiving" /\ ~cancel[c]
    /\ Cardinality({k \in DOMAIN out[c] : out[c][k].try = try[c]}) < MaxChunks
    /\ \E chunk \in Chunks :
         out' = [out EXCEPT ![c] = Append(@, [try |-> try[c], text |-> chunk.text,
                                              finish |-> chunk.finish])]
    /\ UNCHANGED <<phase, stream, try, instance, conn, after, cursor, probe, slots, cancel,
                   client, waiter>>

\* [DONE] or the end of the body; a line that is no JSON; a transport error.
ResponseEnds(c) ==
    /\ phase[c] = "receiving" /\ ~cancel[c]
    /\ \/ Close(c, "complete")
       \/ Close(c, "raised")
       \/ MayRetry(c) /\ Close(c, "retry")
       \/ ~MayRetry(c) /\ Close(c, "failed")
    /\ UNCHANGED <<stream, try, instance, conn, out, cursor, cancel, client, waiter>>

\* response.aclose() is over, and the request goes on up to its next await, also
\* when it was cancelled meanwhile: a plain call reports and gives its slot back.
Closed(c) ==
    /\ phase[c] = "closing"
    /\ conn' = [conn EXCEPT ![c] = FALSE]
    /\ after' = [after EXCEPT ![c] = None]
    /\ \/ after[c] = "retry" /\ Retry(c) /\ UNCHANGED <<probe, slots>>
       \/ after[c] # "retry" /\ Leave(c, after[c]) /\ UNCHANGED <<try, instance, cursor>>
    /\ UNCHANGED <<stream, out, cancel, client, waiter>>

\* SlotStream.aclose: the slot of a stream is given back once.
Release(c) ==
    /\ phase[c] = "finishing" /\ Go(c, "over")
    /\ slots' = slots - 1
    /\ cancel' = [cancel EXCEPT ![c] = FALSE]
    /\ UNCHANGED <<adapter, probe, client, waiter>>

\* Where a cancellation reaches the request.  The handler runs in child tasks of
\* BaseHTTPMiddleware's task groups, so the middleware's cancel comes to it through
\* their scopes, and a close is shielded from those: it is finished first, and the
\* cancellation lands at the next await.  Mutant: closing without the shield.
CancelPoints_NoShield == {"body", "handling", "admitted", "connecting", "receiving", "closing"}
CancelPoints == {"body", "handling", "admitted", "connecting", "receiving"}

CancelLands(c) ==
    /\ cancel[c] /\ phase[c] \in CancelPoints
    /\ cancel' = [cancel EXCEPT ![c] = FALSE]
    /\ CASE phase[c] \in {"body", "handling"} -> Go(c, "over") /\ UNCHANGED <<after, probe, slots>>
         [] phase[c] = "receiving" -> Close(c, "raised")
         [] OTHER -> Leave(c, "raised") /\ UNCHANGED after
    /\ UNCHANGED <<stream, try, instance, conn, out, cursor, client, waiter>>

Init ==
    /\ phase = [c \in Calls |-> "idle"] /\ stream = [c \in Calls |-> FALSE]
    /\ try = [c \in Calls |-> 0]
    /\ instance = [c \in Calls |-> 0] /\ conn = [c \in Calls |-> FALSE]
    /\ out = [c \in Calls |-> <<>>] /\ after = [c \in Calls |-> None]
    /\ probe = [c \in Calls |-> None] /\ cursor = 0 /\ slots = 0
    /\ cancel = [c \in Calls |-> FALSE] /\ wire = [c \in Calls |-> <<>>]
    /\ pump = [c \in Calls |-> "receiving"] /\ held = [c \in Calls |-> None]
    /\ mailbox = [c \in Calls |-> None] /\ waiter = [c \in Calls |-> "waiting"]

Server(c) ==
    \/ PumpReceives(c) \/ PumpPuts(c) \/ AppReads(c) \/ WaitEnds(c) \/ Joined(c)
    \/ Admit(c) \/ Begin(c) \/ Closed(c) \/ Release(c) \/ CancelLands(c)
Backend(c) == Refused(c) \/ TimesOut(c) \/ Responds(c) \/ Yields(c) \/ ResponseEnds(c)

Next ==
    \/ OtherCallResolves
    \/ \E c \in Calls : Arrive(c) \/ HangUp(c) \/ Server(c) \/ Backend(c)

Spec == Init /\ [][Next]_vars

\* The event loop runs every task that can run.  Nothing is assumed of clients
\* and backends: with LMSTUDIO_TIMEOUT unset a silent backend is waited for.
FairSpec == Spec /\ \A c \in Calls : WF_vars(Server(c))

--------------------------------------------------------------------------------
\* The client sees the output of one attempt: a retry never repeats or continues
\* what an earlier attempt has already passed on.
OneAttemptSpeaks ==
    \A c \in Calls : \A j, k \in DOMAIN out[c] : out[c][j].try = out[c][k].try

\* in_flight counts the requests that hold a slot, and every response that is
\* open at the backend belongs to one of them, also while a cancelled request closes.
SlotsCoverConnections ==
    /\ slots = Cardinality({c \in Calls : HoldsSlot(c)})
    /\ \A c \in Calls : conn[c] => HoldsSlot(c)

\* A call counts as a success of its backend only if it produced text, ended
\* with finish_reason "stop" (a plain call also without any), and its response was
\* closed before the success was reported.
SuccessIsEarned ==
    \A c \in Calls : probe[c] = TRUE =>
        /\ ~conn[c]
        /\ \E k \in DOMAIN out[c] : out[c][k].text
        /\ stream[c] => \E k \in DOMAIN out[c] : out[c][k].finish = "stop"
        /\ \A k \in DOMAIN out[c] : out[c][k].finish = "length" =>
             \E j \in DOMAIN out[c] : j > k /\ out[c][j].finish = "stop"

\* When the middleware has returned to the server, nothing of the request is
\* left: its slot is free and its response closed, wherever the client's hang-up
\* met it.
NothingOutlivesReturn ==
    \A c \in Calls : waiter[c] = "returned" =>
        ~HoldsSlot(c) /\ pump[c] = "over" /\ ~conn[c]

\* A client that hangs up frees the server: its request ends, also while the
\* backend says nothing at all and whatever is left of the body.
HangUpEnds ==
    \A c \in Calls :
        "gone" \in {wire[c][k] : k \in DOMAIN wire[c]} \cup {held[c]} ~> waiter[c] = "returned"
================================================================================
