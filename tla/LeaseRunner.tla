----------------------------- MODULE LeaseRunner -----------------------------
(***************************************************************************)
(* llm-home-lab-run (leases/runner.py): reserve a node, run a command,     *)
(* renew the lease from a second thread, release it.  The main thread, the *)
(* heartbeat thread, the command, the orchestrator and a user who presses  *)
(* Ctrl-C interleave; every HTTP call is one step on the orchestrator and  *)
(* a later one in which its answer, or a transport error, comes back.      *)
(***************************************************************************)
EXTENDS Naturals

CONSTANTS None,
          MaxInterrupts   \* bound: how often the user presses Ctrl-C

ASSUME RunnerAssumption ==
    /\ MaxInterrupts \in Nat
    /\ None \notin {"granted", "refused", "received", "ok", "gone", "unreachable",
                    "lost", "not_started", "own", "INT", "TERM", "KILL"}

VARIABLES main,         \* where run_leased is
          reply,        \* the answer to the reservation, "received" once it is known
          beat,         \* where the heartbeat thread is
          answer,       \* what came back for its heartbeat
          stop,         \* the threading.Event
          lost,
          broken,       \* a KeyboardInterrupt is propagating
          command,      \* "none", "running" or "exited"
          signals,      \* the signals the command was sent
          ended_by,     \* how it ended: on its own, or by one of them
          lease,        \* on the orchestrator: "none", "held", "ended", "released"
          tried,        \* a release was sent
          exit,         \* what run_leased returned
          interrupts,   \* Ctrl-C so far
          \* History, read by properties only:
          late          \* the join timed out: the thread was still in a heartbeat

thread == <<beat, answer, lost>>
process == <<command, signals, ended_by>>
server == <<lease, tried>>
runner_vars == <<main, reply, thread, stop, broken, process, server, exit, interrupts, late>>

RunnerInit ==
    /\ main = "reserving" /\ reply = None
    /\ beat = "off" /\ answer = None
    /\ stop = FALSE /\ lost = FALSE /\ broken = FALSE
    /\ command = "none" /\ signals = {} /\ ended_by = None
    /\ lease = "none" /\ tried = FALSE
    /\ exit = None /\ interrupts = 0 /\ late = FALSE

Over == main \in {"returned", "aborted"}

\* Returning from main ends the process, and with it the daemon thread.
Return(code) ==
    /\ main' = "returned"
    /\ exit' = code
    /\ beat' = "off"
    /\ UNCHANGED <<answer, lost>>

------------------------------------------------------------------------------
\* The main thread.

\* The orchestrator decides; the answer is still under way.
ReserveServed ==
    /\ main = "reserving" /\ reply = None
    /\ \/ reply' = "granted" /\ lease' = "held"
       \/ reply' = "refused" /\ UNCHANGED lease
    /\ UNCHANGED <<main, thread, stop, broken, process, tried, exit, interrupts, late>>

Reserved ==
    /\ main = "reserving" /\ reply = "granted"
    /\ main' = "reserved"
    /\ reply' = "received"
    /\ UNCHANGED <<thread, stop, broken, process, server, exit, interrupts, late>>

\* Refused, or a transport error, which may hide a grant.
NotReserved ==
    /\ main = "reserving"
    /\ \/ reply = "refused" /\ Return("refused")
       \/ Return("unreachable")
    /\ UNCHANGED <<reply, stop, broken, process, server, interrupts, late>>

\* Popen; on OSError, _release and 127.
Launch ==
    /\ main = "reserved"
    /\ \/ main' = "launched" /\ command' = "running"
       \/ main' = "releasing" /\ UNCHANGED command
    /\ UNCHANGED <<reply, thread, stop, broken, signals, ended_by, server, exit, interrupts, late>>

\* The heartbeat thread starts, and the try block begins.
StartBeating ==
    /\ main = "launched"
    /\ main' = "waiting"
    /\ beat' = "waiting"
    /\ UNCHANGED <<reply, answer, lost, stop, broken, process, server, exit, interrupts, late>>

\* proc.wait() returns, in whichever of the three calls.
CommandDone ==
    /\ main \in {"waiting", "interrupted", "killing"}
    /\ command = "exited"
    /\ main' = "joining"
    /\ stop' = TRUE
    /\ UNCHANGED <<reply, thread, broken, process, server, exit, interrupts, late>>

\* Mutant: the command is given up without being killed.
KillCommand_Abandons ==
    /\ main = "interrupted" /\ command = "running"
    /\ main' = "joining"
    /\ stop' = TRUE
    /\ UNCHANGED <<reply, thread, broken, process, server, exit, interrupts, late>>

\* It did not end within five seconds of SIGINT.
KillCommand ==
    /\ main = "interrupted" /\ command = "running"
    /\ main' = "killing"
    /\ signals' = signals \cup {"KILL"}
    /\ UNCHANGED <<reply, thread, stop, broken, command, ended_by, server, exit, interrupts, late>>

\* beater.join(timeout): the thread has ended, or is still in a call.
Joined ==
    /\ main = "joining"
    /\ beat # "waiting"
    /\ main' = "releasing"
    /\ late' = (beat # "ended")
    /\ UNCHANGED <<reply, thread, stop, broken, process, server, exit, interrupts>>

\* _release: the orchestrator drops what is still held, or is not reached.
ReleaseServed ==
    /\ main = "releasing"
    /\ main' = "released"
    /\ lease' \in {lease, IF lease = "held" THEN "released" ELSE lease}
    /\ tried' = TRUE
    /\ UNCHANGED <<reply, thread, stop, broken, process, exit, interrupts, late>>

\* The end of run_leased: lost is read after the release, and a command that
\* ended by a signal gives 128 plus that signal.
ExitCode == IF command = "none" THEN "not_started" ELSE IF lost THEN "lost" ELSE ended_by

Finish ==
    /\ main = "released"
    /\ \/ /\ broken
          /\ main' = "aborted"
          /\ beat' = "off"
          /\ UNCHANGED <<answer, lost, exit>>
       \/ ~broken /\ Return(ExitCode)
    /\ UNCHANGED <<reply, stop, broken, process, server, interrupts, late>>

\* Ctrl-C: _wait_for passes the first one on; one that comes while it waits
\* again runs the finally block and then propagates; anywhere else it ends the
\* wrapper on the spot, from inside the finally block too.
Interrupt ==
    /\ ~Over
    /\ interrupts < MaxInterrupts
    /\ interrupts' = interrupts + 1
    /\ \/ /\ main = "waiting"
          /\ main' = "interrupted"
          /\ signals' = IF command = "running" THEN signals \cup {"INT"} ELSE signals
          /\ UNCHANGED <<beat, stop, broken>>
       \/ /\ main \in {"interrupted", "killing"}
          /\ main' = "joining" /\ stop' = TRUE /\ broken' = TRUE
          /\ UNCHANGED <<beat, signals>>
       \/ /\ main \notin {"waiting", "interrupted", "killing"}
          /\ main' = "aborted" /\ beat' = "off"
          /\ UNCHANGED <<stop, broken, signals>>
    /\ UNCHANGED <<reply, answer, lost, command, ended_by, server, exit, late>>

------------------------------------------------------------------------------
\* The heartbeat thread.

\* stop.wait times out, or the event is set.
BeatWakes ==
    /\ beat = "waiting"
    /\ beat' = IF stop THEN "ended" ELSE "calling"
    /\ UNCHANGED <<main, reply, answer, lost, stop, broken, process, server, exit,
                   interrupts, late>>

\* The heartbeat meets the lease on the orchestrator, or does not get there.
BeatServed ==
    /\ beat = "calling" /\ answer = None
    /\ answer' \in {IF lease = "held" THEN "ok" ELSE "gone", "unreachable"}
    /\ UNCHANGED <<main, reply, beat, lost, stop, broken, process, server, exit, interrupts, late>>

\* Mutant: the command is terminated first and the loss recorded second.
BeatReturns_TerminatesFirst ==
    /\ beat = "calling" /\ answer # None
    /\ answer' = None
    /\ beat' = IF answer = "gone" THEN "losing" ELSE "waiting"
    /\ signals' = IF answer = "gone" /\ command = "running"
                  THEN signals \cup {"TERM"} ELSE signals
    /\ UNCHANGED <<main, reply, lost, stop, broken, command, ended_by, server, exit,
                   interrupts, late>>

\* Mutant: an orchestrator that cannot be reached counts as a lost lease.
BeatReturns_ErrorIsLoss ==
    /\ beat = "calling" /\ answer # None
    /\ answer' = None
    /\ beat' = IF answer = "ok" THEN "waiting" ELSE "losing"
    /\ lost' = (lost \/ answer # "ok")
    /\ UNCHANGED <<main, reply, stop, broken, process, server, exit, interrupts, late>>

\* An error of the transport is logged and the next beat is tried.
BeatReturns ==
    /\ beat = "calling" /\ answer # None
    /\ answer' = None
    /\ beat' = IF answer = "gone" THEN "losing" ELSE "waiting"
    /\ lost' = (lost \/ answer = "gone")
    /\ UNCHANGED <<main, reply, stop, broken, process, server, exit, interrupts, late>>

\* Mutant: the command is left running.
Terminate_Skipped ==
    /\ beat = "losing"
    /\ beat' = "ended"
    /\ UNCHANGED <<main, reply, answer, lost, stop, broken, process, server, exit,
                   interrupts, late>>

\* proc.terminate(), which does nothing once the command was waited for.
Terminate ==
    /\ beat = "losing"
    /\ beat' = "ended"
    /\ signals' = IF command = "running" THEN signals \cup {"TERM"} ELSE signals
    /\ UNCHANGED <<main, reply, answer, lost, stop, broken, command, ended_by, server, exit,
                   interrupts, late>>

------------------------------------------------------------------------------
\* The command and the orchestrator.

\* It ends by itself or of a signal it was sent.
CommandExits ==
    /\ command = "running"
    /\ command' = "exited"
    /\ ended_by' \in signals \cup {"own"}
    /\ UNCHANGED <<main, reply, thread, stop, broken, signals, server, exit, interrupts, late>>

\* The lease lapses, reaches its ceiling, is forced open or dropped by a restart.
LeaseEnds ==
    /\ lease = "held"
    /\ lease' = "ended"
    /\ UNCHANGED <<main, reply, thread, stop, broken, process, tried, exit, interrupts, late>>

MainStep ==
    \/ ReserveServed \/ Reserved \/ NotReserved
    \/ Launch \/ StartBeating
    \/ CommandDone \/ KillCommand
    \/ Joined \/ ReleaseServed \/ Finish

BeatStep == BeatWakes \/ BeatServed \/ BeatReturns \/ Terminate

RunnerNext == MainStep \/ BeatStep \/ Interrupt \/ CommandExits \/ LeaseEnds

RunnerSpec == RunnerInit /\ [][RunnerNext]_runner_vars

\* Both threads are scheduled and HTTP calls have a timeout.  A command may run
\* for ever, but not after SIGTERM or SIGKILL.
FairRunnerSpec ==
    /\ RunnerSpec
    /\ WF_runner_vars(MainStep)
    /\ WF_runner_vars(BeatStep)
    /\ WF_runner_vars(signals \cap {"TERM", "KILL"} # {} /\ CommandExits)

------------------------------------------------------------------------------
\* Whatever the threads, the user and the orchestrator did: when run_leased
\* returns a code, the command is over and a release was sent.  The code is the
\* command's own, or "lost": that only if the orchestrator ended the lease or a
\* heartbeat outlived the two-second join (it meets the wrapper's own release, and
\* a command that ran to completion is reported as lost), and always if the wrapper
\* terminated the command.
ReturnsClean ==
    main = "returned" /\ reply = "received" =>
        /\ tried /\ command # "running"
        /\ \/ exit = IF command = "none" THEN "not_started" ELSE ended_by
           \/ exit = "lost" /\ (lease = "ended" \/ late)
        /\ ended_by = "TERM" => exit = "lost"

\* Whatever heartbeats time out, are delayed or fail: until the wrapper sends its
\* own release, a loss is recorded only when the orchestrator really ended the
\* lease.  (After it, a heartbeat that outlived the two-second join may meet the
\* released lease; the wrapper takes that for a loss.)
LossIsReal == lost => lease = "ended" \/ tried

\* A lease that is found lost ends the wrapper, also when the command would
\* run for ever.
LostEndsRun == lost ~> Over
==============================================================================
