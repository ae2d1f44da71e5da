---------------------------- MODULE BoundedChild ----------------------------
(***************************************************************************)
(* run_bounded_child_process on POSIX: one call launches a program in a     *)
(* process group of its own, captures what it writes, and gives up at a     *)
(* deadline, on cancellation, when a stream exceeds its limit or when a     *)
(* descendant keeps a stream open after the program has exited.  Before it  *)
(* returns it kills the group and reaps the program, or reports that it     *)
(* could not.                                                               *)
(*                                                                         *)
(* The program and its descendants do as they please: they write, close,    *)
(* fork, leave the group, exit or are killed from outside at any moment,    *)
(* and no fairness is assumed of them.  A process that was sent SIGKILL     *)
(* runs no further but may stay visible for a while.  With "foreign", some  *)
(* other part of the process reaps children.  The pipes carry units of data.*)
(***************************************************************************)
EXTENDS Naturals

CONSTANTS Child, Kids,      \* the program, and the processes it may fork
          Streams,          \* stdout and stderr, or only stdout when merged
          Limit,            \* the units of a stream that are retained
          MaxWrites         \* bound: the units written to a stream

ASSUME BoundedChildAssumption ==
    Child \notin Kids /\ Streams # {} /\ Limit \in Nat /\ MaxWrites \in Nat

Procs == {Child} \cup Kids

VARIABLES proc,     \* unborn, preexec, live, dying, zombie, reaped, stolen or dead
          own,      \* the processes in the program's group
          holds,    \* holds[s]: the processes that can write stream s
          code,     \* how the program ended: none, zero or bad (nonzero, or a signal)
          pipe,     \* pipe[s]: units written and not yet read
          wrote,    \* wrote[s]: units ever written
          diag,     \* the diagnostic pipe of the launch: silent, eof or failure
          clock,    \* cancel, deadline; the writer and cleanup grace periods
          first,    \* what happened first: the launch's outcome or a stop
          foreign,  \* somebody else reaps children too
          call,     \* the locals of the call
          got, fd, eof, overflow, readFailed    \* capture of each stream

system == <<proc, own, holds, code, pipe, wrote, diag, clock, first, foreign>>
capture == <<got, fd, eof, overflow, readFailed>>
vars == <<system, call, capture>>

Init ==
    /\ proc = [p \in Procs |-> "unborn"] /\ own = {} /\ code = "none"
    /\ holds = [s \in Streams |-> {}]
    /\ pipe = [s \in Streams |-> 0] /\ wrote = pipe
    /\ diag = "silent" /\ first = "none" /\ foreign \in BOOLEAN
    /\ clock = [cancel |-> FALSE, deadline |-> FALSE, writer |-> "off", cleanup |-> "off"]
    /\ call = [pc |-> "entry", error |-> "none", cleanupError |-> FALSE, complete |-> FALSE,
               started |-> FALSE, verified |-> FALSE, waitable |-> FALSE, reaped |-> FALSE,
               asked |-> FALSE, sent |-> FALSE, verify |-> FALSE]
    /\ got = [s \in Streams |-> 0] /\ fd = [s \in Streams |-> TRUE]
    /\ eof = [s \in Streams |-> FALSE] /\ overflow = eof /\ readFailed = eof

-----------------------------------------------------------------------------
(* The program, its descendants, the clock and the caller's cancellation.   *)

Live(p) == proc[p] = "live"
Present(p) == proc[p] \in {"preexec", "live", "dying", "zombie"}

\* A process ends: its streams are closed; a zombie stays in its group.
End(p) ==
    /\ proc' = [proc EXCEPT ![p] = IF p = Child THEN "zombie" ELSE "dead"]
    /\ own' = IF p = Child THEN own ELSE own \ {p}
    /\ holds' = [s \in Streams |-> holds[s] \ {p}]

Exec == /\ proc[Child] = "preexec"
        /\ proc' = [proc EXCEPT ![Child] = "live"] /\ diag' = "eof"
        /\ first' = IF first = "none" THEN "outcome" ELSE first
        /\ UNCHANGED <<own, holds, code, pipe, wrote, clock, foreign, call, capture>>

\* report_pre_exec_failure writes its record and exits; a program that is
\* killed from outside before it is executed closes the pipe without one.
ExecFails == /\ proc[Child] = "preexec"
             /\ End(Child) /\ code' = "bad"
             /\ diag' \in {"failure", "eof"}
             /\ first' = IF first = "none" THEN "outcome" ELSE first
             /\ UNCHANGED <<pipe, wrote, clock, foreign, call, capture>>

Write(p, s) == /\ Live(p) /\ p \in holds[s] /\ wrote[s] < MaxWrites
               /\ pipe' = [pipe EXCEPT ![s] = @ + 1]
               /\ wrote' = [wrote EXCEPT ![s] = @ + 1]
               /\ UNCHANGED <<proc, own, holds, code, diag, clock, first, foreign, call, capture>>

CloseStream(p, s) == /\ Live(p) /\ p \in holds[s]
                     /\ holds' = [holds EXCEPT ![s] = @ \ {p}]
                     /\ UNCHANGED <<proc, own, code, pipe, wrote, diag, clock, first, foreign, call, capture>>

Fork(p, k) == /\ Live(p) /\ proc[k] = "unborn"
              /\ proc' = [proc EXCEPT ![k] = "live"]
              /\ own' = IF p \in own THEN own \cup {k} ELSE own
              /\ holds' = [s \in Streams |-> IF p \in holds[s] THEN holds[s] \cup {k} ELSE holds[s]]
              /\ UNCHANGED <<code, pipe, wrote, diag, clock, first, foreign, call, capture>>

Leave(p) == /\ Live(p) /\ p \in own
            /\ own' = own \ {p}
            /\ UNCHANGED <<proc, holds, code, pipe, wrote, diag, clock, first, foreign, call, capture>>

Exit(p) == /\ Live(p)
           /\ End(p)
           /\ IF p = Child THEN code' \in {"zero", "bad"} ELSE UNCHANGED code
           /\ UNCHANGED <<pipe, wrote, diag, clock, first, foreign, call, capture>>

Die(p) == /\ proc[p] = "dying"
          /\ End(p)
          /\ UNCHANGED <<code, pipe, wrote, diag, clock, first, foreign, call, capture>>

Steal == /\ foreign /\ proc[Child] = "zombie"
         /\ proc' = [proc EXCEPT ![Child] = "stolen"] /\ own' = own \ {Child}
         /\ UNCHANGED <<holds, code, pipe, wrote, diag, clock, first, foreign, call, capture>>

Ring(t, from, to) == /\ clock[t] = from /\ clock' = [clock EXCEPT ![t] = to]
                     /\ UNCHANGED <<proc, own, holds, code, pipe, wrote, diag, foreign, call, capture>>

Stop(t) == Ring(t, FALSE, TRUE) /\ first' = IF first = "none" THEN "stop" ELSE first
Cancel == Stop("cancel")
DeadlinePasses == Stop("deadline")
GraceEnds(t) == Ring(t, "running", "over") /\ UNCHANGED first

Processes ==
    \/ Exec \/ ExecFails \/ Steal
    \/ \E p \in Procs :
          \/ Leave(p) \/ Exit(p) \/ Die(p)
          \/ \E s \in Streams : Write(p, s) \/ CloseStream(p, s)
          \/ \E k \in Kids : Fork(p, k)

-----------------------------------------------------------------------------
(* Pieces of the call.                                                      *)

At(pc) == call.pc = pc
Goto(pc) == call' = [call EXCEPT !.pc = pc] /\ UNCHANGED <<system, capture>>

\* set_primary_error keeps the first error; a cleanup error is one as well.
Primary(c, e) == [c EXCEPT !.error = IF @ = "none" THEN e ELSE @]
CleanupFailed(c) == [Primary(c, "cleanup_failed") EXCEPT !.cleanupError = TRUE]

Done(c) == [c EXCEPT !.pc = "done"]

\* waitpid takes the program's exit status and releases its number.
Wait == proc' = [proc EXCEPT ![Child] = "reaped"] /\ own' = own \ {Child}

Kill(ps) == [p \in Procs |-> IF p \in ps /\ proc[p] \in {"preexec", "live"} THEN "dying" ELSE proc[p]]
CodeAfter(ps) == IF Child \in ps /\ proc[Child] \in {"preexec", "live"} THEN "bad" ELSE code

\* select_posix_termination_scope: the group may be signalled while its
\* leader, not yet reaped, still reserves the number.
Scope(c) ==
    IF c.reaped \/ ~Present(Child) THEN "none"
    ELSE IF c.verified /\ (proc[Child] = "zombie" \/ Child \in own) THEN "group"
    ELSE "child"

Targets(c) == CASE Scope(c) = "none" -> {}
                [] Scope(c) = "child" -> {Child}
                [] Scope(c) = "group" -> own

\* Mutant: a delivered SIGKILL is taken for the end of the group.
SignalledUnverified(c) ==
    IF c.sent THEN c
    ELSE LET seen == [c EXCEPT !.sent = TRUE,
                               !.waitable = IF c.reaped THEN @ ELSE proc[Child] = "zombie"]
         IN IF Scope(c) = "group" THEN seen ELSE CleanupFailed(seen)

\* signal_tree_once, with terminate_child_tree inside; the cleanup grace
\* period starts when it has been run.
Signalled(c) ==
    IF c.sent THEN c
    ELSE LET seen == [c EXCEPT !.sent = TRUE,
                               !.waitable = IF c.reaped THEN @ ELSE proc[Child] = "zombie"]
         IN IF Scope(c) = "group" THEN [seen EXCEPT !.verify = TRUE] ELSE CleanupFailed(seen)

SignalOnce(c) ==
    IF c.sent THEN UNCHANGED system
    ELSE /\ proc' = Kill(Targets(c)) /\ code' = CodeAfter(Targets(c))
         /\ clock' = [clock EXCEPT !.cleanup = "running"]
         /\ UNCHANGED <<own, holds, pipe, wrote, diag, first, foreign>>

\* request_termination, and where the loop goes next.
Request(c, e, pc) ==
    LET why == [Primary(c, e) EXCEPT !.asked = TRUE]
    IN call' = [Signalled(why) EXCEPT !.pc = pc] /\ SignalOnce(c) /\ UNCHANGED capture

-----------------------------------------------------------------------------
(* Launch.                                                                  *)

\* launch_prevented: cancellation first, then the deadline.
Prevented == clock.cancel \/ clock.deadline
PreventedError == IF clock.cancel THEN "cancelled" ELSE "timeout"

Refuse == /\ At("entry") /\ Prevented
          /\ call' = [Done(call) EXCEPT !.error = PreventedError, !.complete = TRUE]
          /\ UNCHANGED <<system, capture>>

\* No process was created: a bad specification, no pipe, no fork.
LaunchFails == /\ At("entry")
               /\ call' = [Done(call) EXCEPT !.error = "spawn_failed", !.complete = TRUE]
               /\ UNCHANGED <<system, capture>>

\* _Fork and setpgid; the child still has to execute the program.  The
\* parent kills it at once if it cannot restore its signal mask.
ForkChild == /\ At("entry") /\ ~Prevented
             /\ proc' = [proc EXCEPT ![Child] = "preexec"] /\ own' = {Child}
             /\ holds' = [s \in Streams |-> {Child}]
             /\ \/ call' = [call EXCEPT !.pc = "poll"]
                \/ call' = [call EXCEPT !.pc = "kill", !.error = "spawn_failed"]
             /\ UNCHANGED <<code, pipe, wrote, diag, clock, first, foreign, capture>>

\* posix_spawn returns when the program has been executed.
PosixSpawn == /\ At("entry") /\ ~Prevented
              /\ proc' = [proc EXCEPT ![Child] = "live"] /\ own' = {Child} /\ diag' = "eof"
              /\ holds' = [s \in Streams |-> {Child}]
              /\ call' = [call EXCEPT !.pc = "validate", !.started = TRUE]
              /\ UNCHANGED <<code, pipe, wrote, clock, first, foreign, capture>>

\* complete_descriptor_spawn_handshake: an outcome that was published is
\* consumed before a cancellation or the deadline is acted upon, and looked
\* for once more after either was seen.
Outcome == diag # "silent"

Consume ==
    /\ \/ diag = "eof" /\ call' = [call EXCEPT !.pc = "validate", !.started = TRUE]
       \/ diag = "failure" /\ call' = [call EXCEPT !.pc = "kill", !.error = "spawn_failed"]
    /\ UNCHANGED <<system, capture>>

Poll == At("poll") /\ (Consume \/ (~Outcome /\ Goto("askCancel")))
AskCancel == At("askCancel") /\ Goto(IF clock.cancel THEN "recheckCancel" ELSE "askDeadline")
AskDeadline == At("askDeadline") /\ Goto(IF clock.deadline THEN "recheckDeadline" ELSE "poll")

\* Mutant: a cancellation is acted upon without looking for the outcome again.
RecheckNothing(pc, e) == /\ At(pc)
                         /\ call' = [call EXCEPT !.pc = "kill", !.error = e]
                         /\ UNCHANGED <<system, capture>>

Recheck(pc, e) == /\ At(pc)
                  /\ \/ Consume
                     \/ /\ ~Outcome
                        /\ call' = [call EXCEPT !.pc = "kill", !.error = e]
                        /\ UNCHANGED <<system, capture>>

RecheckCancel == Recheck("recheckCancel", "cancelled")
RecheckDeadline == Recheck("recheckDeadline", "timeout")

\* kill_and_reap_descriptor_child.
KillLaunched == /\ At("kill")
                /\ proc' = Kill(own \cup {Child}) /\ code' = CodeAfter({Child})
                /\ clock' = [clock EXCEPT !.cleanup = "running"]
                /\ call' = [call EXCEPT !.pc = "await"]
                /\ UNCHANGED <<own, holds, pipe, wrote, diag, first, foreign, capture>>

ReapLaunched ==
    /\ At("await") /\ UNCHANGED capture
    /\ \/ /\ proc[Child] = "zombie"
          /\ Wait
          /\ call' = [call EXCEPT !.pc = "absent", !.reaped = TRUE]
          /\ UNCHANGED <<holds, code, pipe, wrote, diag, clock, first, foreign>>
       \/ /\ proc[Child] = "stolen" \/ (proc[Child] = "dying" /\ clock.cleanup = "over")
          /\ call' = Done(CleanupFailed(call))
          /\ UNCHANGED system

LaunchedAbsent ==
    /\ At("absent")
    /\ \/ own = {} /\ call' = [Done(call) EXCEPT !.complete = TRUE]
       \/ own # {} /\ clock.cleanup = "over" /\ call' = Done(CleanupFailed(call))
    /\ UNCHANGED <<system, capture>>

-----------------------------------------------------------------------------
(* The loop that watches a started program.                                 *)

\* The group is verified before anything is read; a program that cannot be
\* observed, or has left its group, is terminated as far as that is safe.
Validate ==
    LET seen == [call EXCEPT !.waitable = proc[Child] = "zombie",
                             !.verified = Present(Child) /\ (proc[Child] = "zombie" \/ Child \in own)]
    IN /\ At("validate")
       /\ \/ /\ seen.verified
             /\ call' = [seen EXCEPT !.pc = "drain"] /\ UNCHANGED <<system, capture>>
          \/ ~seen.verified /\ Request(CleanupFailed(seen), "cleanup_failed", "drain")

Fits(s) == got[s] + pipe[s] <= Limit

\* Mutant: what does not fit is dropped in silence.
DrainDropping ==
    /\ At("drain")
    /\ pipe' = [s \in Streams |-> IF fd[s] THEN 0 ELSE pipe[s]]
    /\ got' = [s \in Streams |-> IF ~fd[s] THEN got[s] ELSE IF Fits(s) THEN got[s] + pipe[s] ELSE Limit]
    /\ eof' = [s \in Streams |-> eof[s] \/ (fd[s] /\ holds[s] = {})]
    /\ fd' = [s \in Streams |-> fd[s] /\ ~eof'[s]]
    /\ call' = [call EXCEPT !.pc = "observe"]
    /\ UNCHANGED <<proc, own, holds, code, wrote, diag, clock, first, foreign, overflow, readFailed>>

\* drain_stream on each open stream: all that is there is read and what fits
\* is retained; the end of the stream is seen once no writer is left, unless
\* the excess of this round ended the reading.
Drain ==
    /\ At("drain")
    /\ pipe' = [s \in Streams |-> IF fd[s] THEN 0 ELSE pipe[s]]
    /\ got' = [s \in Streams |-> IF ~fd[s] THEN got[s] ELSE IF Fits(s) THEN got[s] + pipe[s] ELSE Limit]
    /\ overflow' = [s \in Streams |-> overflow[s] \/ (fd[s] /\ ~Fits(s))]
    /\ eof' = [s \in Streams |-> eof[s] \/ (fd[s] /\ Fits(s) /\ holds[s] = {})]
    /\ fd' = [s \in Streams |-> fd[s] /\ ~eof'[s]]
    /\ call' = [(IF \E s \in Streams : fd[s] /\ ~Fits(s) THEN Primary(call, "overflow") ELSE call)
                  EXCEPT !.pc = "observe"]
    /\ UNCHANGED <<proc, own, holds, code, wrote, diag, clock, first, foreign, readFailed>>

\* read fails on a stream.
ReadFails(s) ==
    /\ At("drain") /\ fd[s]
    /\ fd' = [fd EXCEPT ![s] = FALSE] /\ readFailed' = [readFailed EXCEPT ![s] = TRUE]
    /\ call' = Primary(call, "read_failed")
    /\ UNCHANGED <<system, got, eof, overflow>>

Observe ==
    /\ At("observe")
    /\ \/ ~call.waitable /\ proc[Child] = "stolen" /\ Request(call, "wait_failed", "decide")
       \/ /\ call.waitable \/ proc[Child] # "stolen"
          /\ LET waitable == call.waitable \/ proc[Child] = "zombie"
             IN call' = [call EXCEPT !.waitable = waitable,
                    !.pc = IF waitable /\ \A s \in Streams : ~fd[s] THEN "settle" ELSE "decide"]
          /\ UNCHANGED <<system, capture>>

\* Mutant: the group is swept after its leader was reaped.
SettleLate ==
    /\ At("settle") /\ UNCHANGED capture
    /\ \/ /\ proc[Child] = "zombie"
          /\ Wait
          /\ call' = [call EXCEPT !.reaped = TRUE]
          /\ UNCHANGED <<holds, code, pipe, wrote, diag, clock, first, foreign>>
       \/ /\ call.reaped
          /\ proc' = Kill(own) /\ call' = [call EXCEPT !.pc = "final", !.sent = TRUE, !.verify = TRUE]
          /\ clock' = [clock EXCEPT !.cleanup = "running"]
          /\ UNCHANGED <<own, holds, code, pipe, wrote, diag, first, foreign>>

\* The program has exited and both streams are closed: its group is swept
\* while the leader still reserves the number, and only then is it reaped.
Settle ==
    /\ At("settle")
    /\ call' = [Signalled(call) EXCEPT !.pc = "reap"] /\ SignalOnce(call) /\ UNCHANGED capture

Reap ==
    /\ At("reap")
    /\ \/ /\ proc[Child] = "zombie"
          /\ Wait
          /\ call' = [call EXCEPT !.pc = "final", !.reaped = TRUE]
          /\ UNCHANGED <<holds, code, pipe, wrote, diag, clock, first, foreign, capture>>
       \/ /\ proc[Child] # "zombie"
          /\ Request([call EXCEPT !.waitable = FALSE], "wait_failed", "decide")

\* The rest of a round: a capture fault, then the cancellation, then the
\* deadline unless the program has exited, then a stream that stays open.
Fault == \E s \in Streams : overflow[s] \/ readFailed[s]
FaultError == IF \E s \in Streams : overflow[s] THEN "overflow" ELSE "read_failed"
Leak == call.waitable /\ \E s \in Streams : ~eof[s]

\* Mutant: a program that has exited is waited for until its streams close.
DecideWithoutGrace ==
    /\ At("decide") /\ ~call.asked
    /\ \/ Fault /\ Request(call, FaultError, "drain")
       \/ ~Fault /\ clock.cancel /\ Request(call, "cancelled", "drain")
       \/ ~Fault /\ ~clock.cancel /\ clock.deadline /\ ~call.waitable
          /\ Request(call, "timeout", "drain")
       \/ ~Fault /\ ~clock.cancel /\ (clock.deadline => call.waitable) /\ Goto("drain")

Decide ==
    /\ At("decide") /\ ~call.asked
    /\ \/ Fault /\ Request(call, FaultError, "drain")
       \/ ~Fault /\ clock.cancel /\ Request(call, "cancelled", "drain")
       \/ ~Fault /\ ~clock.cancel /\ clock.deadline /\ ~call.waitable
          /\ Request(call, "timeout", "drain")
       \/ ~Fault /\ ~clock.cancel /\ Leak /\ clock.writer = "over"
          /\ Request(call, "descendant_writer_leak", "drain")
       \/ /\ ~Fault /\ ~clock.cancel /\ Leak /\ clock.writer = "off"
          /\ clock' = [clock EXCEPT !.writer = "running"]
          /\ call' = [call EXCEPT !.pc = "drain"]
          /\ UNCHANGED <<proc, own, holds, code, pipe, wrote, diag, first, foreign, capture>>
       \/ /\ ~Fault /\ ~clock.cancel /\ (clock.deadline => call.waitable)
          /\ (Leak => clock.writer = "running")
          /\ Goto("drain")

\* Termination was requested: go on until the grace period is over, then
\* drop the streams that are still open.  A program that was reaped has left
\* the loop, so the cleanup has failed.
GiveUp ==
    /\ At("decide") /\ call.asked
    /\ \/ clock.cleanup # "over" /\ Goto("drain")
       \/ /\ clock.cleanup = "over"
          /\ fd' = [s \in Streams |-> FALSE]
          /\ call' = [CleanupFailed(call) EXCEPT !.pc = "final"]
          /\ UNCHANGED <<system, got, eof, overflow, readFailed>>

\* One last wait, and record_termination: bad_exit stands for normal_nonzero
\* and for signaled.
Recorded(c) == [c EXCEPT !.pc = "verify",
                         !.error = IF @ = "none" /\ code # "zero" THEN "bad_exit" ELSE @]

Final ==
    /\ At("final") /\ UNCHANGED capture
    /\ \/ call.reaped /\ call' = Recorded(call) /\ UNCHANGED system
       \/ /\ ~call.reaped /\ proc[Child] = "zombie"
          /\ Wait
          /\ call' = Recorded([call EXCEPT !.reaped = TRUE])
          /\ UNCHANGED <<holds, code, pipe, wrote, diag, clock, first, foreign>>
       \/ /\ ~call.reaped /\ proc[Child] # "zombie"
          /\ call' = [CleanupFailed(call) EXCEPT !.pc = "verify"]
          /\ UNCHANGED system

\* Delivery of SIGKILL is no receipt: the group has to vanish.
Verify ==
    LET ended == /\ call.reaped /\ ~call.cleanupError
                 /\ \A s \in Streams : eof[s]
    IN /\ At("verify")
       /\ \/ /\ ended /\ (call.verify => own = {})
             /\ call' = [Done(call) EXCEPT !.verify = FALSE, !.complete = TRUE]
          \/ /\ call.reaped /\ call.verify /\ own # {} /\ clock.cleanup = "over"
             /\ call' = Done(CleanupFailed(call))
          \/ /\ ~ended /\ (call.reaped /\ call.verify => own = {})
             /\ call' = Done(Primary(call, "cleanup_failed"))
       /\ UNCHANGED <<system, capture>>

Caller ==
    \/ Refuse \/ LaunchFails \/ ForkChild \/ PosixSpawn
    \/ Poll \/ AskCancel \/ AskDeadline \/ RecheckCancel \/ RecheckDeadline
    \/ KillLaunched \/ ReapLaunched \/ LaunchedAbsent
    \/ Validate \/ Drain \/ (\E s \in Streams : ReadFails(s)) \/ Observe \/ Settle \/ Reap
    \/ Decide \/ GiveUp \/ Final \/ Verify

Time == DeadlinePasses \/ GraceEnds("writer") \/ GraceEnds("cleanup")

\* What happens after the call has returned is of no interest.
World == ~At("done") /\ (Processes \/ Cancel \/ Time)

Next == Caller \/ World

Spec == Init /\ [][Next]_vars

\* The calling thread runs and time passes; nothing is assumed of the
\* program, of its descendants, or of the time a killed process takes.
FairSpec == Spec /\ WF_vars(Caller) /\ WF_vars(DeadlinePasses)
                 /\ WF_vars(GraceEnds("writer")) /\ WF_vars(GraceEnds("cleanup"))

-----------------------------------------------------------------------------
\* A call that says its cleanup is complete leaves nothing behind: the
\* program is reaped, nobody of its group is there, and nobody at all holds a
\* captured stream (cleanup_complete of a started program).
NothingLeftBehind ==
    At("done") /\ call.complete =>
        /\ own = {}
        /\ proc[Child] \in {"unborn", "reaped"}
        /\ call.started => \A s \in Streams : holds[s] = {}

\* BoundedChildProcessResult::succeeded() is the truth: the program exited
\* by itself with zero, every byte written by anybody was captured, and no
\* limit, stop, or other waiter had a part in it.
SuccessIsWhole ==
    At("done") /\ call.error = "none" =>
        /\ call.started /\ call.complete
        /\ code = "zero"
        /\ \A s \in Streams : eof[s] /\ got[s] = wrote[s]

\* A launch whose outcome was published before the caller cancelled or the
\* deadline passed is not turned into a cancellation or a timeout
\* (complete_descriptor_spawn_handshake looks again before it gives up).
PublishedOutcomeWins ==
    At("done") /\ ~call.started /\ call.error \in {"cancelled", "timeout"} => first = "stop"

\* SIGKILL is sent where the cleanup grace starts, whether it hits somebody
\* or not, or where somebody is hit.
Signals ==
    \/ clock.cleanup = "off" /\ clock'.cleanup = "running"
    \/ \E p \in Procs : proc'[p] = "dying" /\ proc[p] # "dying"

\* The call signals nothing after it has reaped the program itself, and by
\* that released the number: the sweep of the group comes before the wait, on
\* every path, and later the group is only probed.  A number that another
\* waiter has released is not covered: kill_and_reap_descriptor_child signals
\* it without asking.
NoSignalAfterReap == [][Signals => proc[Child] # "reaped" /\ ~call.reaped]_vars

\* Whatever the program and its descendants do, the call returns.
CallReturns == <>At("done")
=============================================================================
