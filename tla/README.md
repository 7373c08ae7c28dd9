# A TLA+ model of the llm-home-lab orchestrator

The orchestrator (`src/llm_home_lab`) is one asyncio process that accepts
OpenAI-style chat completions and serves them on the LAN nodes registered with
it. Around it are the wrapper that runs a command under a node lease, the
operator's dashboard, the key rotation script and the session stores. This
directory models the parts of them that keep state, checks the models with TLC on
small instances, and proves the central properties with TLAPS for every instance.

## 1. The system

| part | state it keeps | operations |
|---|---|---|
| node leases (`leases/book.py`) | one lease under two keys, `_by_host` and `_by_token`; expiry is lazy | reserve, require, is_held, view, heartbeat, release, force_release; lost at a restart |
| lease wrapper (`leases/runner.py`) | a token, a child process, a heartbeat thread | reserve, run, beat, interrupt, release |
| health monitor (`health/monitor.py`) | per backend: verdict, two run counters, start of the cooldown, last 20 outcomes | record_probe |
| health poller (`api/app.py`) | probes in flight, external loads by host | sweep (background loop, `/health/ready`), prune, evaluate alerts |
| scheduling queue (`scheduling/queue.py`) | tiers of per-session queues, a rotation per tier, eligibility callbacks | enqueue, cancel, dispatch |
| host registry (`registry/`) | `HostInfo` per node with `in_flight`; persisted except for `in_flight` | register, update, deregister, acquire_slot, release_slot |
| routing engine (`routing/engine.py`) | sticky session assignments | select_backend |
| chat gateway (`api/app.py`) | per request: discovered hosts, time waited, the slot | chat_completions, cut at every await |
| request lifetime (`api/lifetime.py`) | receive pump, mailbox of size one, request task | disconnect, cancel, close |
| backend adapters (`backends/`) | attempt number, alias cursor, open response | complete, stream, retry, close |
| external load probes (`registry/*load*.py`) | a cache per host with a time to live | probe |
| session, tool and workspace stores (`state/`) | SQLite tables, sequence numbers | append, record, capture, read, summarize, trim |
| context assembly (`context/`) | an LRU cache of assembled contexts | assemble |
| observability (`observability/`) | rolling windows, firing alerts | record, snapshot, evaluate |
| API keys (`security/`) | a key file with expiries; the copy the orchestrator loaded | authenticate, rotate |
| dashboard (`tui/app.py`) | known nodes, row order, chart groups, cursor, sort | poll, render, move, edit, remove, add |
| diagnostics, charts, `main.py`, demo workload | presentation, wiring | none that changes the others |

How they interact. A completion checks its lease token, **awaits** discovery,
checks the token again, and works out candidates from the lease book, the
health monitor and the `HostInfo` objects discovery returned. With candidates
it asks the routing engine and takes a slot in the registry at once; without,
it enqueues itself with a callback that recomputes its candidates and **awaits**
one sleep per poll until a dispatch scoped to itself succeeds, its time is up or
its lease ends. Then it **awaits** the backend, through the adapter's attempts,
and gives the slot back; its outcome is a probe for the health monitor and a
sample for the metrics. Between two awaits nothing else runs; at an await
everything may: other completions, the lease and node handlers, the poller's
sweeps, and the cancellation the lifetime middleware sends when the client goes
away. The stores are different: every call of theirs runs in a thread of its own,
on a connection of its own, so their reads and writes interleave too. The
dashboard and the wrapper are separate processes that talk to the orchestrator
over HTTP, and the rotation script shares a file with it.

What is hard about it, each at its line in `PROJECT.json` under `hazards`: state
that is read before an await and used after it; one lease kept under two keys
with an expiry nobody schedules; a rotation and a dictionary kept in step by
hand; waiters that may only remove themselves from a queue whose order is
decided by everybody's eligibility; slots given back on three paths, each
reached by completion, failure and cancellation; nodes that are replaced or
removed under running requests, probes and key presses; retries after partial
output; sequence numbers computed in one statement and used in another; files
that are emptied before they are written; restarts that keep some state and
forget the rest.

What makes each part correct: a node has at most one holder, for a bounded time,
and routing keeps its minimum (leases); a verdict changes only on an earned run
of probes (health); the queue holds exactly those who wait, is fair and never
blocks (queue); `in_flight` is what a node serves and admission respects leases
and capacity of that moment (gateway); every request ends, and leaves nothing
open (gateway, lifetime); what a client saw came from one attempt (adapters);
what was reported as stored stays and is shown in order (stores); alerts and load
figures converge to what the system is (poller); keys act on the row they were
pressed on and the screen catches up (dashboard); a rotation locks nobody out and
leaves no old key valid for ever (keys).

## 2. The modules

| module | models | uses |
|---|---|---|
| `ExclusiveLease` | abstract: one holder a node, no token twice, a ceiling on every hold | |
| `LeaseBook` | `NodeLeaseBook`, its clock, health and registration as its callers see them | `ExclusiveLease` (refinement) |
| `HealthMonitor` | `record_probe` in its four cases | |
| `QueueOps` | the queue's data structure and its three methods as operators | |
| `SchedulingQueue` | the queue with its callers: slots and eligibility that change | `QueueOps` |
| `Gateway` | `chat_completions` composed with registry, leases, verdicts, queue, routing, lifetime | `QueueOps` |
| `LeaseRunner` | `llm-home-lab-run`: two threads, a command, the orchestrator, Ctrl-C | |
| `BackendStream` | one call from the socket to the backend: middleware, pump, adapter, closing, accounting | |
| `HealthPolling` | overlapping sweeps, load caches, metrics window, alerts | |
| `ContextAssembly` | `assemble_context` and a definition of what it promises | |
| `SessionStore` | the SQLite stores of a session and the context cache, called from threads | `ContextAssembly` |
| `Dashboard` | the terminal dashboard against the orchestrator's node list | |
| `ApiKeys` | the key file, overlapping runs of the rotation script, the orchestrator's copy | |
| `HealthMonitor_proofs`, `SchedulingQueue_proofs`, `BackendStream_proofs`, `SessionStore_proofs`, `Dashboard_proofs`, `ApiKeys_proofs` | theorems | the component and TLAPS |
| `Leases_proofs` | theorems | `LeaseBook`, `LeaseRunner` and TLAPS |
| `Gateway_proofs` | theorems | `Gateway`, `SchedulingQueue_proofs` (instantiated) and TLAPS |
| `MCLeaseBook`, `MCSchedulingQueue`, `MCGateway`, `MCHealthPolling`, `MCSessionStore`, `MCDashboard`, `MCApiKeys` | instances for TLC | the component |

Operators whose comment says *Mutant* are plausible mistakes in the definition
that follows them. No specification uses them; replacing the definition by its
mutant makes TLC report the property named in `PROJECT.json`. Variables under
*History* are auxiliary: actions write them and only properties read them.

**LeaseBook.** `by_host` and `by_token` are the two dictionaries. Each operation
of the book is one action at time `now`: the book holds its lock and the handlers
never await inside it. `Reserve` covers the purge, the decision and the grant;
`serves` is the answer of model discovery and arbitrary, because it was awaited
before the decision. Requests the book rejects before it touches its state (an
empty holder, a ceiling out of range) are no steps. `issued` records the tokens
ever granted; `secrets.token_urlsafe` is taken to be collision free.

**HealthMonitor.** The fields of `BackendHealthState` are functions of the
backend. `last_failure` and the times in `history` are auxiliary. The code's
event list and log are left out.

**QueueOps / SchedulingQueue.** A session that is missing from a tier's
dictionary is one whose queue is empty. `Dispatched` is `dispatch` with its two
tests of free capacity as parameters. `Cancelled` removes the first entry of the
request, where the code filters: request ids are fresh, so there is at most one
(`NoRepeats` in the proof). `passed` is auxiliary.

**Gateway.** `pc[r]` says at which await request `r` is: `discovering`,
`queued`, `calling`, `streaming`, `closing`. `seen[r][h]` is what discovery
returned for `h`: `Current` while it is the registry's own object, so that `r`
sees every change of it, and the frozen record once `register`, PATCH or
`deregister` has replaced the object. `Restart` keeps the nodes, which are
persisted, and drops leases, verdicts, queue, sticky sessions, running requests
and `in_flight`. Health is a set of hosts that a recorded probe may or may not
change; when it does is `HealthMonitor`'s business. Leases follow the abstract
lease: granted to a free node, with a token never used before, ended at any time.
`tainted` records the nodes deregistered under a running request.
`Registrations` are the capacities and types a node may be registered with.
Candidates of a capacity of 0 (a division by zero) or of a type without factory (a
`KeyError`) raise (`CandidatesRaise`), after discovery or in a poll; a poll also
raises when its dispatch runs the callback of another waiter of that kind
(`CallbackRaises`). The request answers an error and leaves the queue.

**LeaseRunner.** `main` is where `run_leased` is, `beat` where the heartbeat
thread is. Every HTTP call is one step on the orchestrator and a later one in
which its answer comes back or an error does, so that a grant can be lost on the
way and a heartbeat can be under way while the lease is released. `Interrupt`
does what a `KeyboardInterrupt` does at each place: passed on to the command by
`_wait_for`, propagated after the `finally` block when it comes during the second
wait, fatal anywhere else. An exit status is named by what caused it;
`128 - code` keeps those apart. `late` is auxiliary: the join timed out and the
heartbeat thread was still in a heartbeat.

**BackendStream.** `phase[c]` says which await the request task is at: `body`,
`connecting`, `receiving`, `closing` and so on. The client's messages pass from
`wire` through the pump (`held`) into `mailbox`, whose size is one, to the
application. `Refused`, `TimesOut`, `Responds`, `Yields` and `ResponseEnds` are
what the backend can do to an attempt, and what the adapter then does: retry
before the first chunk, never after one and never after a timeout. `after` is
what happens once the response is closed, which is an await of its own. A chunk
is what the accounting tells apart: text or none, a finish reason or none.
`OtherCallResolves` is another call that moves the shared alias cursor. A
cancellation lands at `CancelPoints`, every await of the handler except the close
of a response: the handler runs in a child task of the HTTP middlewares' task
groups, so the lifetime middleware's `task.cancel()` reaches it as the
cancellation of an AnyIO scope, which the shield around the close holds back.
Admission and queueing are `Gateway`'s.

**HealthPolling.** A sweep starts a probe for every registered node and waits for
them (`sweep[s]`); the first probe that raises ends the sweep and leaves the
others running (`job`). `loop` is the background task, `ready` a call of
`/health/ready` that overlaps it. A probe first asks for health and then, if the
cache does not answer, for load; a registration is what a probe was started
with, so that an answer from a former address can arrive late. `BackendRaises` is
the probe of a node of a type without factory, `LoadRaises` a load probe of any
node that meets an answer it does not understand or an error it does not catch,
at any time. `Evaluated` is the
evaluator's pass over a snapshot; a node with capacity 0 or of a type without
factory makes the sweep raise before it. Times are kept as ages: the age of a
cache entry and of a sample grows with `Tick` until the age at which it stops
counting, which makes the model finite without stopping the clock.

**ContextAssembly / SessionStore.** `Scan` is the loop of the assembler, message by
message from the newest back (`Scanned` is its body), and `LongestFit` what it
promises. Sums and scan are recursive functions of the number of messages taken.
The keys of the cache, an `OrderedDict`, differ, so there is at most one hit. In the stores a call is a step that reads
(`SELECT MAX(seq)`, or the test a `summarize` makes) and a later step that writes
and commits; `thread[t]` holds what was read in between. `read_session` reads the
summary and then the messages, each in a snapshot of its own; `NthOf` is its
`ORDER BY`. Messages, tool
calls and captures are numbers, taken in order. `earlier[i]` is what was
committed when the call for `i` began, the real-time order the properties compare
with. `Restart` drops threads and cache and keeps the tables.

**Dashboard.** `pc` says what the timer's and the operator's task await: the node
list, the mount of a chart group, a PATCH, the operator's answer in a form.
`answer[t]` is the list a poll was given, which may be out of date when it is
rendered. A move is one PATCH a node whose known position differs, and polls run
between them. Other clients register, remove and position nodes at any time. The
node list is sorted by position and, being a stable sort, by registration within
one: a host's `Place` is the number of hosts listed before it. `RenderFails` is a
poll that meets a row it cannot draw, `ChartsFail` one that has drawn every row and
cannot compute the charts below them.
`chosen`, `moved`, `shifted` and `quiet` are history.

**ApiKeys.** A run of the script loads the file, rotates in memory, opens the file
for writing (which empties it), writes, and prints the key: five steps, and it can
be killed after each of them. `torn` says that another run wrote between this
run's open and its write, so that the two texts may end up mixed. `contested` says
that two runs overlapped. The orchestrator loads the file when it starts and
never again.

## 3. The runs

| run | instance | shows |
|---|---|---|
| `lease_book` | 3 hosts, 2 tokens, ttl 2, ceiling 3, minimum 1, 4 ticks | dictionaries stay twins (`Coherent`), grants keep the minimum (`GrantKeepsMinimum`), every hold ends (`EveryHoldEnds`), the book implements `ExclusiveLease` |
| `health` | 1 backend, thresholds 3 and 2, cooldown 2, 6 ticks, history of 4 | a verdict changes only on a full run of probes, the successes all after the cooldown of the latest failure (`VerdictEarned`), a backend whose failures stop comes back (`Recovers`) |
| `scheduling_queue` | 4 requests, 2 sessions, 2 tiers, 2 hosts, 1 request without a callback | queue, rotation and callbacks agree (`QueueMatchesWaiters`), nobody is passed twice (`NoSessionStarves`) |
| `gateway` | 2 nodes of 1 slot, 3 requests (plain, streaming, pinned), 1 poll | slots are neither lost nor given back twice (`SlotsMatch`), no queue entry is left behind (`QueueMatchesWaiters`), a slot is taken only as the leases of that moment allow (`AdmissionRespectsLease`) |
| `gateway_live` | 1 node of 0, 1 or 2 slots or of a type without factory, a streaming and a plain request with the token of one lease, 2 polls | a poll that raises, for itself or in the other's callback, leaves the queue (`QueueMatchesWaiters`), polls do not block each other (`ScopedPollsProgress`), every request is answered or refused (`EveryRequestEnds`) |
| `lease_runner` | one wrapper, 2 interrupts | a returned code means command over and release sent, it is the command's own, or "lost" if the lease ended or the heartbeat thread outlived its join, and a terminated command is never reported with its own status (`ReturnsClean`); until the release a loss is found only when the lease ended (`LossIsReal`), and it ends the run (`LostEndsRun`) |
| `backend_stream` | 1 call, 2 instances, 2 retries, 2 chunks an attempt, a body of 2 parts | output comes from one attempt (`OneAttemptSpeaks`), a slot covers every open response (`SlotsCoverConnections`), a success needs text, an end and a closed response (`SuccessIsEarned`), no pump, slot or open response is left when the middleware returns, a hang-up during the close included (`NothingOutlivesReturn`), a hang-up ends everything (`HangUpEnds`) |
| `health_polling` | 1 node with 4 registrations (two addresses, capacity 0, a type without factory), the loop and `/health/ready`, ttl 1, window 1, 1 sample, 1 error | listed alerts come to agree with saturation and availability (`AlertsSettle`), load figures with the node's address, and go when it goes (`LoadSettles`) |
| `sessions` | 2 threads, 4 messages, 3 tool calls, two of them in the terminal, 2 captures, 5 calls | what was reported as stored stays (`StoredIsKept`), order follows real time (`SeqFollowsTime`, `CurrentIsNewest`), reads miss only what is trimmed meanwhile (`ReadShowsAll`), summaries cover what they could know (`CoversOnlyKnown`), a context, cached or not, is the newest messages that fit (`CompactionIsTight`) |
| `seq_monotonic` | 1 thread, 4 messages, 5 calls | violated, see section 5 |
| `dashboard` | 3 nodes, 1 change by others, 1 failure, 2 keys | rendering passes never meet (`TrackedIsReady`), the app exits in one situation only (`ExitsOnlyWhenShifted`), keys act on the row they were pressed on (`ActsOnSelected`, `CursorStaysOnChosen`), a move is persisted as a whole (`MoveIsPersisted`), the screen catches up (`Settles`) |
| `api_keys` | 2 clients, 5 keys, 3 runs, grace 1, 2 ticks | no old key stays valid for ever (`OnePermanentKey`), none ends before its grace period (`NoGap`); unless runs overlapped, an expiry is not moved once it was saved (`ExpirySetOnce`) and a printed key is in the file (`PrintedIsSaved`) |

*Bounds.* `Horizon` stops the clock: every lease or cooldown that starts can end
before it (an action that starts one requires that), so expiry, the boundary
itself and what follows are all reached. Three hosts are the fewest with a
holder, a minimum and a spare. The thresholds of `health` are the code's
defaults. Three requests are the fewest in which a slot is held, a session mate
waits and a pinned request competes; two nodes are needed for sticky sessions,
load comparison and leases on somebody else's node. `MaxPolls` is the number of
polls before the dispatch timeout: two give a wait that is granted late and one
that is not granted. `HistoryLength` is one more than the longest threshold, so
the deque also forgets. Two interrupts are what the wrapper tells apart: one for
the command, one that ends the second wait. Two retries (the default) give a
first, a middle and a last attempt; two chunks one after which a failure must not
be retried; a body of two parts one message more than the mailbox holds. Five
calls of the stores are enough for two appends, a summary, a trim and an append
after it, and for two calls of one kind racing with a third; message lengths and
the two budgets are chosen so that rounding differs between the sum and the parts
and both ends of the scan are met. Three nodes are the fewest of which one moves
past another while a third stays; one change by others and one failure are enough
to upset any one await, and two keys to start a move and act again before it has
been drawn. One node is enough for the two sweepers to overlap on it and for
answers of a former address; two nodes are beyond what TLC checks for liveness in
minutes, so a probe that outlives the sweep another node's probe ended is not
reached. Three rotations let one supersede a key, one repeat within the grace
period and one overlap either.

*Deadlock* is not checked where the program may really stop: a wrapper that
returned, a call that is over, an orchestrator with no node left to sweep, stores
and scripts whose calls are used up, a dashboard that has exited.

*Symmetry.* `sessions` identifies threads and `api_keys` runs and unused keys;
both check invariants only.

*Fairness.* The clock advances (`Tick`). The poller probes every node without
end, so a node that answers keeps producing successes. The event loop runs each
task that is ready, so a request takes its next step: sleeps are bounded,
discovery and backend calls end because silence is cut off by the transport
timeouts (`main.py`, 1800 s of read silence, 10 s to connect; an operator who
disables the read timeout gives this up) and answers are finite. `backend_stream`
does without that assumption: only the server's own steps are fair there, and a
hang-up ends a call whose backend stays silent for ever. In `health_polling` the
loop starts its sweeps and every probe ends, since each is bounded by a timeout;
that load probes stop raising is no fairness but a premise of the two properties
(`LoadsUnderstood`), since a sweep that raises evaluates nothing;
nobody has to call `/health/ready`. In `dashboard` the timer ticks, requests end
(the client has timeouts) and a task that has its answer goes on; the operator
presses nothing unless he wants to. Disconnects, leases, probes that fail,
re-registration and restarts are never assumed fair. The wrapper's threads are
scheduled by the system and its HTTP calls are cut off after ten seconds; a
command may run for ever, but is assumed to end after SIGTERM or SIGKILL (the
wrapper does not escalate, so a command that ignores SIGTERM keeps it waiting).

## 4. The proofs

All are for arbitrary sets of hosts, tokens, backends, requests, sessions, threads,
calls, clients, keys and runs and for arbitrary limits, under the named assumptions
of each module: limits are naturals, positive where the code demands it; sentinels
(`None`, `Current`, `Nothing`) are not data; kinds of items are told apart; the
gateway has finitely many requests, because it counts them. Each invariant below was
checked with TLC on the instance of its run before it was proved.

* **Leases** (`Leases_proofs`). `TypeOK`, `Coherent` and `HoldBounded`
  together are inductive (`BookInvariant`); none is alone, since a drop through
  one key is right only if the twin is where the other key says. Added to it is
  that tokens in the book were issued, which makes a new token's entry vacant.
  `Refinement` maps lazy expiry to eager expiry: the abstract holder is the token
  of a lease that has not ended, so purging is a stutter, and a tick frees the
  leases that end with it. `MinimumKept` counts: the routable nodes after a grant
  are the active ones less the granted one.
* **Health** (`HealthMonitor_proofs`). `Hysteresis` with the types is inductive: an
  excluded backend counts its cooldown from its latest failure. `VerdictTheorem`
  needs besides that
  each run counter is backed by the last entries of the history (`Backed`), which
  shifts when the deque is full. It is stated for thresholds that do not exceed the
  length of the history (`HistoryIsEnough`; the code's are 3 and 2 of 20), since a
  longer run could not be read off the history at all.
* **Queue** (`SchedulingQueue_proofs`). `QueueOk` says of a queue that no request is
  in it twice, that each is in the tier and session it belongs to, and that a
  tier's rotation has exactly the sessions that wait there, each once. Every
  operation keeps it (`EnqueuedOk`, `CancelledOk`, `DispatchedOk`); the lemmas about
  sequences are about one removal or one addition, so that nothing has to be
  proved by induction. With it, who is queued is who waits
  (`QueueMatchesWaitersHolds`). `NoSessionStarvesHolds` needs the reason: a session
  that was passed by another is ahead of it in the rotation (`PassedIsAhead`), and
  a dispatch serves the first that can run, so the second turn cannot come before
  its own.
* **Gateway** (`Gateway_proofs`). `SlotAccounting`: a slot count equals the
  number of requests serving there on every untainted node. The strengthening
  says that a request with a slot has a node and that a node that serves somebody
  and is not registered is tainted; without it a registration could start from
  zero under a running request. `LeaseRespected` comes from the one step that
  admits, `Admit`, whose candidates are computed in the same step, after the await. `QueueFollowsWaiters` and `SomePollProgresses` rest on the queue's own
  lemmas: `SchedulingQueue_proofs` is instantiated with the gateway's requests, all
  of priority 0, its assumptions are proved of them, and `QueueOk` is carried
  through every handler. A scoped dispatch of the request that an unscoped one
  would pick picks it too, which is why somebody's poll admits it, or raises on a node
  that request may use itself.
* **Wrapper** (`Leases_proofs`, about `RunnerSpec`). `ReturnsClean` and `LossIsReal` are about two
  threads, a command and the orchestrator. The invariant says that what the
  heartbeat thread hears is true of the orchestrator until the wrapper sends its own
  release (`BeatIsTrue`), that a command was terminated only for a recorded loss
  (`EndIsExplained`), and what is done by the time the main thread has left its
  wait (`PastTheWait`), where a propagating `KeyboardInterrupt` is the one way to
  leave a command running. A code that is not the command's own is traced back to an
  ended lease or to a join that timed out (`late`).
* **Calls** (`BackendStream_proofs`). What one call does disturbs no other, so the
  invariant is a statement about each call and one about the shared slot count:
  an open response belongs to a call that receives or closes, and no cancellation
  lands at the close; output is that of the
  current attempt, and there is none when a retry is due (`OutputIsCurrent`); a
  success is reported after the last chunk and was earned; the middleware has seen
  both its tasks end. `SuccessIsEarned` also needs that the last finish reason is
  the one of the greatest position, which the least-number principle gives.
* **Stores** (`SessionStore_proofs`). Every call reads in one statement and writes
  in another. The invariant says what a call that has read may still rely on: an
  item stored before it began has at most the number it has seen
  (`RowsFollowTime`); the numbers given to messages have no gaps (`NoGaps`), so
  that what was covered when a summary was checked is known, or its row was trimmed
  and its number used again (`CoversAreKnown`); an item is carried by one call
  (`CarriedOnce`), and where it was put it stays or a trim has noted it
  (`KeptInPlace`). `ReadShowsAllHolds` adds that a read that knows its summary but
  not yet its messages knows only of stored ones, each of which has its row or was
  trimmed when the second snapshot is taken; that the `ORDER BY` of that snapshot
  leaves out no row is `EveryNumberHasAPlace`. `CompactionIsTightHolds` is about
  the assembler and its cache. The recursions define functions (`SumsExist`,
  `ScanExists`); after k messages the scan has kept the newest c, and goes on with
  c = k or has met one that does not fit (`ScanAt`); the price of the newest messages
  grows with their number, so nothing longer fits (`KeepsTheLongest`); and rounding
  up the characters of several messages together gives no more tokens than rounding
  each (`TogetherIsCheaper`), so what fits when priced apart is within the budget.
  The cache holds only contexts under keys of their own session and budget
  (`CacheIsTrue`), and a key has everything a context depends on (`KeyDecides`).
* **Dashboard** (`Dashboard_proofs`). The invariant has four parts. Of the tasks: at
  most one is in a poll (`OnePoll`), and every chart group known has its widgets
  except the one being mounted (`GroupsFollow`). Of the screen: `order` is that of the
  rows unless a move waits to be drawn, and has the same hosts unless nodes came or
  went (`TableFits`); the cursor is on the chosen host (`CursorOnChosen`); what a move
  looked up before an await is still there after it, again unless nodes came or went
  (`MoveFits`). Of the forms: the host in one was the selected one (`FormFits`). Of a
  move that nobody disturbs (`MoveWrites`): the positions it is done with are the
  indexes of their hosts, and for the others the screen and every answer under way
  show the position the orchestrator has, so that a PATCH is skipped only where none
  is needed. `MoveIsPersistedHolds` then needs that positions decide the order
  (`PositionsDecide`): a list without repetitions in which every host has its own
  index as its position is what `sorted()` returns, because the places of the hosts
  are a bijection with the numbers up to their count. The other four invariants follow
  from the first three parts.
* **Keys** (`ApiKeys_proofs`). `OnePermanentKey`, `NoGap`, `ExpirySetOnce` and
  `PrintedIsSaved` follow from one inductive invariant. What the properties say of
  the file has to be said of every copy of it that may become the file, the books
  of the runs included (`Single`, `Graceful`): that is what makes overlapping and
  dying runs harmless for the first two. For the other two the invariant adds
  that, as long as no runs have overlapped, at most one of them is between its
  load and its write (`Alone`); that what it is going to save repeats every expiry
  saved before (`Kept`) and has every key that was printed or is about to be
  (`Carried`). `Known` says that every key of a book was generated before, so that
  a new one is in none; `Named` that a run's own key is in its book.

What an induction over data would give is obtained here from the least-number
principle on a set: the least number up to which a statement fails is not 0 and not
the successor of one at which it holds (`UpTo`).

Every invariant and every safety property of an action that a run checks has a
theorem. Only model-checked is liveness (`EveryHoldEnds`, `Recovers`,
`EveryRequestEnds`, `LostEndsRun`, `HangUpEnds`, `AlertsSettle`, `LoadSettles`,
`Settles`), which is outside this prover's reach.

## 5. Where code and documents disagree, and what the properties exclude

The run `seq_monotonic` shows a disagreement with a document. `append_message`
numbers a message by `MAX(seq) + 1`, and `trim` may delete the message with the
highest number. After a summary up to the last message and a trim, the next
message gets a number that was used before, at or below what the summary covers,
and `read_session` leaves it out although no summary knows it. The session
specification says that `seq` is monotonic within a session.

Three more were met while modelling. They have no run of their own; the properties
around them name the case as their one exception, or stop short of it:

* *Torn read.* `read_session` takes the summary and then the messages, each in a
  snapshot of its own. When another thread summarizes and trims in between, a message
  that was there when the read began is in neither
  (`docs/specs/20260717-session-manager-core.md:35` says that a read gives the latest
  summary and every message after it). `ReadShowsAll`: a trim during the read is the
  only way to miss a message.
* *Lost lease.* The wrapper waits two seconds for its heartbeat thread, while a
  heartbeat may take ten. One that is still under way meets the lease the wrapper has
  just released, is rejected, and turns the exit code of a command that ended by
  itself into "lease lost" (`leases/runner.py:16` says that the code is returned
  unchanged). `ReturnsClean`: without such a heartbeat (`late`) "lost" means that the
  lease ended.
* *Full node.* A request reads `in_flight` from the objects discovery returned. A
  node that is registered again or patched meanwhile has a new object, the old one
  keeps showing a free slot, and requests are admitted to a node that is full
  (`docs/specs/20260717-multi-node-registry-and-scheduler.md:88` excludes full hosts).
  No property is about capacity: for the registry's own object it would repeat the
  guard that reads it.

Other places in which the models show something a reader might not expect. The
properties are stated so that these cases are outside them, each where it is said:

* *Queue.* `dispatch` looks at the head of each session only, so a request behind
  a head that cannot run waits although a later tier is served. The
  gateway itself enqueues everything with priority 0.
* *Slots.* A node that is deregistered and registered again while it serves a
  request starts from zero, and the request's end makes it -1 (`tainted` in
  `SlotsMatch`).
* *Errors.* A node with capacity 0 or of a type without factory makes the dispatch of
  any request raise whose turn runs the callback of a waiter that may use that node
  (`ScopedPollsProgress` allows for the error, `EveryRequestEnds` counts it as an
  answer).
* *Wrapper.* A heartbeat that meets the wrapper's own release is rejected (`LossIsReal`
  is about the time before the release). A Ctrl-C after the reservation and
  before the `try`, or during the join in the `finally` block, leaves the node held
  until the lease lapses (`ReturnsClean` is about runs that return).
* *Stores.* `CoversOnlyKnown` allows for a message that took the number of a trimmed
  one between the check of a summary and its write. A later summary may cover less
  than the one it replaces; `created_at` is taken before the thread that stores runs.
* *Adapters.* A plain call without a finish reason counts as finished with
  `stop`, a stream without one does not (`SuccessIsEarned` states both). A stream
  the backend breaks off records no probe.
* *Poller.* While one node has capacity 0 or a type without factory, every sweep
  raises before alerts are evaluated (`Sane`), and so does a sweep whose load probe
  raises (`LoadsUnderstood`). The alert of a node that is
  deregistered while it fires never resolves. A request that ends in an unhandled
  exception is no sample.
* *Dashboard.* A poll that draws another set of nodes between two PATCHes of a
  move makes the next lookup raise, and the app exits (`ExitsOnlyWhenShifted` says
  that nothing else does; no document promises the contrary of this case). A row that
  cannot be drawn ends the rendering with the cursor on the first row
  (`CursorStaysOnChosen` starts anew there).
  After a move whose closing poll failed or was skipped, keys act on the new order
  while the rows show the old one (`moved`). A move skips the PATCHes of the nodes
  whose known position is already right: when the known positions are out of date,
  because of an answer that was under way during an earlier move, a second move
  pressed before the first was drawn, or a node registered again, which clears its
  position, a PATCH that was needed can be skipped (`quiet`).
* *Keys.* Overlapping rotations can lose a key that was printed and move an expiry
  (`contested`). A save that is killed between emptying and writing the file leaves
  one with which the orchestrator does not start (`PrintedIsSaved` is about readable
  files). The documents promise neither, so no run states the contrary.

## 6. What is not modelled, and what is left

Not modelled: rewriting of lease paths and the settings (string handling, no
state); `main.py` apart from the key store (it reads the environment once; its
values are constants here); the text of `/metrics`, percentiles, counters per host
and the throughput log (sums and formatting nobody acts on); charts and the
dashboard's metrics parser (drawing and parsing without control); the demo
workload (a client); routing policies other than the one `main.py` configures;
path prefixes of API keys (static configuration); the registry's heartbeat, which
only writes `last_seen`; the SQL text.

Left: the health poller is checked for liveness only; the step invariants that its
two properties rest on are not stated.
