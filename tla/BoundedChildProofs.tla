-------------------------- MODULE BoundedChildProofs --------------------------
(***************************************************************************)
(* What BoundedChild promises holds for any number of descendants, streams, *)
(* limits and bytes, whatever the program does.  The inductive invariant    *)
(* follows the call: up to the wait the program's number is reserved, from  *)
(* the sweep on either the group is to be seen to vanish or the cleanup has *)
(* failed, a stream that has ended stays empty, and as long as nothing was  *)
(* dropped what was captured and what is in the pipe is all that was        *)
(* written.                                                                 *)
(***************************************************************************)
EXTENDS BoundedChild, TLAPS

PCs == {"entry", "poll", "askCancel", "askDeadline", "recheckCancel", "recheckDeadline", "kill",
        "await", "absent", "validate", "drain", "observe", "settle", "reap", "decide", "final",
        "verify", "done"}
Errors == {"none", "cancelled", "timeout", "spawn_failed", "cleanup_failed", "overflow",
           "read_failed", "wait_failed", "descendant_writer_leak", "bad_exit"}
Grace == {"off", "running", "over"}
Fields == {"pc", "error", "cleanupError", "complete", "started", "verified", "waitable",
           "reaped", "asked", "sent", "verify"}
CallOK(c) == DOMAIN c = Fields /\ c.pc \in PCs /\ c.error \in Errors

SystemOK ==
    /\ proc \in [Procs -> {"unborn", "preexec", "live", "dying", "zombie", "reaped", "stolen", "dead"}]
    /\ own \subseteq Procs /\ holds \in [Streams -> SUBSET Procs]
    /\ pipe \in [Streams -> Nat] /\ wrote \in [Streams -> Nat]
    /\ diag \in {"silent", "eof", "failure"} /\ code \in {"none", "zero", "bad"}
    /\ first \in {"none", "outcome", "stop"}
    /\ clock \in [cancel : BOOLEAN, deadline : BOOLEAN, writer : Grace, cleanup : Grace]

CaptureOK ==
    /\ got \in [Streams -> Nat] /\ fd \in [Streams -> BOOLEAN]
    /\ eof \in [Streams -> BOOLEAN] /\ overflow \in [Streams -> BOOLEAN]
    /\ readFailed \in [Streams -> BOOLEAN]

\* Which stages of the call have no started program, and which have one.
Launching == {"entry", "poll", "askCancel", "askDeadline", "recheckCancel", "recheckDeadline",
              "kill", "await", "absent"}
Failing == {"kill", "await", "absent"}

StageInv ==
    /\ At("entry") => own = {} /\ proc[Child] = "unborn" /\ diag = "silent"
    /\ call.pc \in Launching => ~call.started
    /\ call.pc \notin Launching /\ ~At("done") => call.started
    /\ call.pc \in Failing => call.error # "none"
    /\ ~At("done") => ~call.complete
    /\ call.cleanupError => call.error # "none"

\* The program's number is reserved until this call reaps it, which is the
\* last thing it does to it.
ReapInv ==
    /\ call.reaped <=> proc[Child] = "reaped"
    /\ call.reaped => call.pc \in {"absent", "final", "verify", "done"}
    /\ At("absent") => call.reaped

\* From the sweep on, the group has to be seen to vanish or has failed to.
SweepInv ==
    /\ call.pc \in {"reap", "final", "verify"} => call.sent
    /\ call.asked => call.sent
    /\ call.sent /\ ~At("done") => call.verify \/ call.cleanupError

\* A stream that has ended is empty and has no writer; nothing is lost without
\* an error.
StreamInv ==
    \A s \in Streams :
        /\ At("entry") => ~eof[s]
        /\ eof[s] => ~fd[s] /\ pipe[s] = 0 /\ holds[s] = {}
        /\ overflow[s] => call.error # "none"
        /\ ~overflow[s] => got[s] + pipe[s] = wrote[s]

\* A launch is only given up for a stop that came before its outcome.
StopInv ==
    /\ clock.cancel \/ clock.deadline => first # "none"
    /\ diag = "silent" => first # "outcome"
    /\ At("recheckCancel") => clock.cancel
    /\ At("recheckDeadline") => clock.deadline
    /\ call.pc \in Failing \cup {"done"} /\ ~call.started /\ call.error \in {"cancelled", "timeout"}
          => first = "stop"

\* What the call says when it returns.
ResultInv ==
    /\ call.pc \in {"verify", "done"} /\ call.reaped /\ call.started /\ call.error = "none" => code = "zero"
    /\ At("done") /\ call.error = "none" => call.complete /\ call.started
    /\ At("done") /\ call.complete =>
          /\ own = {} /\ proc[Child] \in {"unborn", "reaped"}
          /\ call.started => call.reaped /\ \A s \in Streams : eof[s]

TypeOK == SystemOK /\ CaptureOK /\ CallOK(call)
IInv == TypeOK /\ StageInv /\ ReapInv /\ SweepInv /\ StreamInv /\ StopInv /\ ResultInv

-----------------------------------------------------------------------------
\* The invariant holds at first; below, one lemma per action says that it is kept.
LEMMA InitInv == Init => IInv
BY BoundedChildAssumption DEF Init, IInv, TypeOK, SystemOK, CaptureOK, CallOK, Fields, PCs,
   Errors, Grace, Procs, StageInv, ReapInv, SweepInv, StopInv, Launching, Failing, At,
   StreamInv, ResultInv

LEMMA StreamsKept ==
    ASSUME StreamInv, UNCHANGED <<holds, pipe, wrote, got, eof, overflow>>,
           \A s \in Streams : fd'[s] => fd[s],
           call'.pc # "entry", call.error # "none" => call'.error # "none"
    PROVE  StreamInv'
BY DEF StreamInv, At

\* SIGKILL is sent to some of the processes; nothing else changes but the clock.
LEMMA SignalEffect ==
    ASSUME SystemOK, NEW c, CallOK(c), SignalOnce(c)
    PROVE  /\ SystemOK'
           /\ proc'[Child] = "reaped" <=> proc[Child] = "reaped"
           /\ UNCHANGED <<own, holds, pipe, wrote, diag, first>>
           /\ clock'.cancel = clock.cancel /\ clock'.deadline = clock.deadline
<1>1. Targets(c) \subseteq Procs
  BY DEF Targets, Scope, Procs, SystemOK
<1>2. proc' \in [Procs -> {"unborn", "preexec", "live", "dying", "zombie", "reaped", "stolen", "dead"}]
  BY DEF SignalOnce, Kill, SystemOK, system
<1>3. proc'[Child] = "reaped" <=> proc[Child] = "reaped"
  BY DEF SignalOnce, Kill, SystemOK, system, Procs
<1>4. code' \in {"none", "zero", "bad"}
  BY DEF SignalOnce, CodeAfter, SystemOK, system
<1>5. clock' \in [cancel : BOOLEAN, deadline : BOOLEAN, writer : Grace, cleanup : Grace]
      /\ clock'.cancel = clock.cancel /\ clock'.deadline = clock.deadline
  BY DEF SignalOnce, Grace, SystemOK, system
<1>6. UNCHANGED <<own, holds, pipe, wrote, diag, first>>
  BY DEF SignalOnce, system
<1> QED
  BY <1>2, <1>3, <1>4, <1>5, <1>6 DEF SystemOK

\* The program is signalled once, and either its group is to be checked or the
\* cleanup has failed.
LEMMA SignalledCall ==
    ASSUME NEW c, CallOK(c)
    PROVE  /\ CallOK(Signalled(c)) /\ Signalled(c).sent
           /\ Signalled(c).pc = c.pc /\ Signalled(c).started = c.started
           /\ Signalled(c).complete = c.complete /\ Signalled(c).reaped = c.reaped
           /\ Signalled(c).asked = c.asked
           /\ (c.sent => c.verify \/ c.cleanupError) => Signalled(c).verify \/ Signalled(c).cleanupError
           /\ c.error # "none" => Signalled(c).error # "none"
           /\ (c.cleanupError => c.error # "none")
                 => (Signalled(c).cleanupError => Signalled(c).error # "none")
<1>1. CASE c.sent
  BY <1>1 DEF Signalled, CallOK, Fields, PCs, Errors
<1>2. CASE ~c.sent
  <2> DEFINE seen == [c EXCEPT !.sent = TRUE, !.waitable = IF c.reaped THEN @ ELSE proc[Child] = "zombie"]
  <2>1. CallOK(seen)
    BY DEF CallOK, Fields, PCs, Errors
  <2>2. CASE Scope(c) = "group"
    BY <1>2, <2>1, <2>2 DEF Signalled, CallOK, Fields, PCs, Errors
  <2>3. CASE Scope(c) # "group"
    BY <1>2, <2>1, <2>3 DEF Signalled, CleanupFailed, Primary, CallOK, Fields, PCs, Errors, Errors
  <2> QED
    BY <2>2, <2>3
<1> QED
  BY <1>1, <1>2

\* A termination is requested by a call that has a started program which it
\* has not reaped, and sends it on in the loop.
LEMMA RequestKeeps ==
    ASSUME IInv, NEW c, CallOK(c), NEW e \in Errors \ {"none"}, NEW to \in {"drain", "decide"},
           call.pc \in {"validate", "observe", "reap", "decide"},
           c.started, ~c.complete, ~c.reaped,
           c.sent => c.verify \/ c.cleanupError,
           c.cleanupError => c.error # "none",
           Request(c, e, to)
    PROVE  IInv'
<1> DEFINE why == [Primary(c, e) EXCEPT !.asked = TRUE]
<1>1. CallOK(why) /\ why.error # "none" /\ why.started /\ ~why.complete /\ ~why.reaped
      /\ (why.sent => why.verify \/ why.cleanupError)
  BY DEF Primary, CallOK, Fields, PCs, Errors, Errors
<1>2. /\ CallOK(Signalled(why)) /\ Signalled(why).sent /\ Signalled(why).error # "none"
      /\ Signalled(why).started /\ ~Signalled(why).complete /\ ~Signalled(why).reaped
      /\ Signalled(why).verify \/ Signalled(why).cleanupError
  <2> HIDE DEF why
  <2> QED
    BY <1>1, SignalledCall
<1>3. call' = [Signalled(why) EXCEPT !.pc = to]
  BY DEF Request
<1>4. /\ CallOK(call') /\ call'.pc = to /\ call'.sent /\ call'.error # "none" /\ call'.started
      /\ ~call'.complete /\ ~call'.reaped /\ (call'.verify \/ call'.cleanupError)
  <2> HIDE DEF why
  <2> QED
    BY <1>2, <1>3 DEF CallOK, Fields, PCs, Errors, PCs
<1>5. UNCHANGED capture
  BY DEF Request
<1>6. /\ SystemOK'
      /\ proc'[Child] = "reaped" <=> proc[Child] = "reaped"
      /\ UNCHANGED <<own, holds, pipe, wrote, diag, first>>
      /\ clock'.cancel = clock.cancel /\ clock'.deadline = clock.deadline
  BY SignalEffect DEF Request, IInv, TypeOK
<1>7. TypeOK'
  BY <1>4, <1>5, <1>6 DEF IInv, TypeOK, CaptureOK, capture
<1>8. StageInv' /\ SweepInv'
  BY <1>4, <1>6 DEF IInv, StageInv, SweepInv, Launching, Failing, At
<1>9. ReapInv'
  BY <1>4, <1>6 DEF IInv, ReapInv, At
<1>10. StreamInv'
  BY <1>4, <1>5, <1>6 DEF IInv, StreamInv, capture, At
<1>11. StopInv' /\ ResultInv'
  BY <1>4, <1>6 DEF IInv, StopInv, ResultInv, Failing, At
<1> QED
  BY <1>7, <1>8, <1>9, <1>10, <1>11 DEF IInv

LEMMA ExecKeeps == ASSUME IInv, ~At("done"), Exec PROVE IInv'
<1>1. TypeOK'
  BY BoundedChildAssumption DEF IInv, TypeOK, SystemOK, CaptureOK, CallOK, Fields, PCs, Errors,
     Grace, Procs, Exec, capture
<1>2. StageInv' /\ ReapInv' /\ SweepInv'
  BY BoundedChildAssumption DEF IInv, TypeOK, SystemOK, CaptureOK, CallOK, Fields, PCs, Errors,
     Grace, Procs, StageInv, ReapInv, SweepInv, StopInv, Launching, Failing, At, Exec, capture
<1>3. StreamInv'
  BY BoundedChildAssumption DEF IInv, TypeOK, SystemOK, CaptureOK, CallOK, Fields, PCs, Errors,
     Grace, Procs, StreamInv, StageInv, ReapInv, SweepInv, StopInv, Launching, Failing, At,
     Exec, capture
<1>4. StopInv' /\ ResultInv'
  BY BoundedChildAssumption DEF IInv, TypeOK, SystemOK, CaptureOK, CallOK, Fields, PCs, Errors,
     Grace, Procs, StageInv, ReapInv, SweepInv, StopInv, Launching, Failing, At, ResultInv,
     StreamInv, Exec, capture
<1> QED
  BY <1>1, <1>2, <1>3, <1>4 DEF IInv

LEMMA ExecFailsKeeps == ASSUME IInv, ~At("done"), ExecFails PROVE IInv'
<1>1. TypeOK'
  BY BoundedChildAssumption DEF IInv, TypeOK, SystemOK, CaptureOK, CallOK, Fields, PCs, Errors,
     Grace, Procs, ExecFails, capture, End
<1>2. StageInv' /\ ReapInv' /\ SweepInv'
  BY BoundedChildAssumption DEF IInv, TypeOK, SystemOK, CaptureOK, CallOK, Fields, PCs, Errors,
     Grace, Procs, StageInv, ReapInv, SweepInv, StopInv, Launching, Failing, At, ExecFails,
     capture, End
<1>3. StreamInv'
  BY BoundedChildAssumption DEF IInv, TypeOK, SystemOK, CaptureOK, CallOK, Fields, PCs, Errors,
     Grace, Procs, StreamInv, StageInv, ReapInv, SweepInv, StopInv, Launching, Failing, At,
     ExecFails, capture, End
<1>4. StopInv' /\ ResultInv'
  BY BoundedChildAssumption DEF IInv, TypeOK, SystemOK, CaptureOK, CallOK, Fields, PCs, Errors,
     Grace, Procs, StageInv, ReapInv, SweepInv, StopInv, Launching, Failing, At, ResultInv,
     StreamInv, ExecFails, capture, End
<1> QED
  BY <1>1, <1>2, <1>3, <1>4 DEF IInv

LEMMA StealKeeps == ASSUME IInv, ~At("done"), Steal PROVE IInv'
<1>1. TypeOK'
  BY BoundedChildAssumption DEF IInv, TypeOK, SystemOK, CaptureOK, CallOK, Fields, PCs, Errors,
     Grace, Procs, Steal, capture
<1>2. StageInv' /\ ReapInv' /\ SweepInv'
  BY BoundedChildAssumption DEF IInv, TypeOK, SystemOK, CaptureOK, CallOK, Fields, PCs, Errors,
     Grace, Procs, StageInv, ReapInv, SweepInv, StopInv, Launching, Failing, At, Steal, capture
<1>3. StreamInv'
  BY BoundedChildAssumption DEF IInv, TypeOK, SystemOK, CaptureOK, CallOK, Fields, PCs, Errors,
     Grace, Procs, StreamInv, StageInv, ReapInv, SweepInv, StopInv, Launching, Failing, At,
     Steal, capture
<1>4. StopInv' /\ ResultInv'
  BY BoundedChildAssumption DEF IInv, TypeOK, SystemOK, CaptureOK, CallOK, Fields, PCs, Errors,
     Grace, Procs, StageInv, ReapInv, SweepInv, StopInv, Launching, Failing, At, ResultInv,
     StreamInv, Steal, capture
<1> QED
  BY <1>1, <1>2, <1>3, <1>4 DEF IInv

LEMMA LeaveKeeps == ASSUME IInv, NEW p \in Procs, ~At("done"), Leave(p) PROVE IInv'
<1>1. TypeOK'
  BY BoundedChildAssumption DEF IInv, TypeOK, SystemOK, CaptureOK, CallOK, Fields, PCs, Errors,
     Grace, Procs, Leave, capture, Live
<1>2. StageInv' /\ ReapInv' /\ SweepInv'
  BY BoundedChildAssumption DEF IInv, TypeOK, SystemOK, CaptureOK, CallOK, Fields, PCs, Errors,
     Grace, Procs, StageInv, ReapInv, SweepInv, StopInv, Launching, Failing, At, Leave, capture,
     Live
<1>3. StreamInv'
  BY BoundedChildAssumption DEF IInv, TypeOK, SystemOK, CaptureOK, CallOK, Fields, PCs, Errors,
     Grace, Procs, StreamInv, StageInv, ReapInv, SweepInv, StopInv, Launching, Failing, At,
     Leave, capture, Live
<1>4. StopInv' /\ ResultInv'
  BY BoundedChildAssumption DEF IInv, TypeOK, SystemOK, CaptureOK, CallOK, Fields, PCs, Errors,
     Grace, Procs, StageInv, ReapInv, SweepInv, StopInv, Launching, Failing, At, ResultInv,
     StreamInv, Leave, capture, Live
<1> QED
  BY <1>1, <1>2, <1>3, <1>4 DEF IInv

LEMMA ExitKeeps == ASSUME IInv, NEW p \in Procs, ~At("done"), Exit(p) PROVE IInv'
<1>1. TypeOK'
  BY BoundedChildAssumption DEF IInv, TypeOK, SystemOK, CaptureOK, CallOK, Fields, PCs, Errors,
     Grace, Procs, Exit, capture, Live, End
<1>2. StageInv' /\ ReapInv' /\ SweepInv'
  BY BoundedChildAssumption DEF IInv, TypeOK, SystemOK, CaptureOK, CallOK, Fields, PCs, Errors,
     Grace, Procs, StageInv, ReapInv, SweepInv, StopInv, Launching, Failing, At, Exit, capture,
     Live, End
<1>3. StreamInv'
  BY BoundedChildAssumption DEF IInv, TypeOK, SystemOK, CaptureOK, CallOK, Fields, PCs, Errors,
     Grace, Procs, StreamInv, StageInv, ReapInv, SweepInv, StopInv, Launching, Failing, At,
     Exit, capture, Live, End
<1>4. StopInv' /\ ResultInv'
  BY BoundedChildAssumption DEF IInv, TypeOK, SystemOK, CaptureOK, CallOK, Fields, PCs, Errors,
     Grace, Procs, StageInv, ReapInv, SweepInv, StopInv, Launching, Failing, At, ResultInv,
     StreamInv, Exit, capture, Live, End
<1> QED
  BY <1>1, <1>2, <1>3, <1>4 DEF IInv

LEMMA DieKeeps == ASSUME IInv, NEW p \in Procs, ~At("done"), Die(p) PROVE IInv'
<1>1. TypeOK'
  BY BoundedChildAssumption DEF IInv, TypeOK, SystemOK, CaptureOK, CallOK, Fields, PCs, Errors,
     Grace, Procs, Die, capture, End
<1>2. StageInv' /\ ReapInv' /\ SweepInv'
  BY BoundedChildAssumption DEF IInv, TypeOK, SystemOK, CaptureOK, CallOK, Fields, PCs, Errors,
     Grace, Procs, StageInv, ReapInv, SweepInv, StopInv, Launching, Failing, At, Die, capture,
     End
<1>3. StreamInv'
  BY BoundedChildAssumption DEF IInv, TypeOK, SystemOK, CaptureOK, CallOK, Fields, PCs, Errors,
     Grace, Procs, StreamInv, StageInv, ReapInv, SweepInv, StopInv, Launching, Failing, At, Die,
     capture, End
<1>4. StopInv' /\ ResultInv'
  BY BoundedChildAssumption DEF IInv, TypeOK, SystemOK, CaptureOK, CallOK, Fields, PCs, Errors,
     Grace, Procs, StageInv, ReapInv, SweepInv, StopInv, Launching, Failing, At, ResultInv,
     StreamInv, Die, capture, End
<1> QED
  BY <1>1, <1>2, <1>3, <1>4 DEF IInv

LEMMA WriteKeeps == ASSUME IInv, NEW p \in Procs, NEW s \in Streams, ~At("done"), Write(p, s) PROVE IInv'
<1>1. TypeOK'
  BY BoundedChildAssumption DEF IInv, TypeOK, SystemOK, CaptureOK, CallOK, Fields, PCs, Errors,
     Grace, Procs, Write, capture, Live
<1>2. StageInv' /\ ReapInv' /\ SweepInv'
  BY BoundedChildAssumption DEF IInv, TypeOK, SystemOK, CaptureOK, CallOK, Fields, PCs, Errors,
     Grace, Procs, StageInv, ReapInv, SweepInv, StopInv, Launching, Failing, At, Write, capture,
     Live
<1>3. StreamInv'
  BY BoundedChildAssumption DEF IInv, TypeOK, SystemOK, CaptureOK, CallOK, Fields, PCs, Errors,
     Grace, Procs, StreamInv, StageInv, ReapInv, SweepInv, StopInv, Launching, Failing, At,
     Write, capture, Live
<1>4. StopInv' /\ ResultInv'
  BY BoundedChildAssumption DEF IInv, TypeOK, SystemOK, CaptureOK, CallOK, Fields, PCs, Errors,
     Grace, Procs, StageInv, ReapInv, SweepInv, StopInv, Launching, Failing, At, ResultInv,
     StreamInv, Write, capture, Live
<1> QED
  BY <1>1, <1>2, <1>3, <1>4 DEF IInv

LEMMA CloseStreamKeeps == ASSUME IInv, NEW p \in Procs, NEW s \in Streams, ~At("done"), CloseStream(p, s) PROVE IInv'
<1>1. TypeOK'
  BY BoundedChildAssumption DEF IInv, TypeOK, SystemOK, CaptureOK, CallOK, Fields, PCs, Errors,
     Grace, Procs, CloseStream, capture, Live
<1>2. StageInv' /\ ReapInv' /\ SweepInv'
  BY BoundedChildAssumption DEF IInv, TypeOK, SystemOK, CaptureOK, CallOK, Fields, PCs, Errors,
     Grace, Procs, StageInv, ReapInv, SweepInv, StopInv, Launching, Failing, At, CloseStream,
     capture, Live
<1>3. StreamInv'
  BY BoundedChildAssumption DEF IInv, TypeOK, SystemOK, CaptureOK, CallOK, Fields, PCs, Errors,
     Grace, Procs, StreamInv, StageInv, ReapInv, SweepInv, StopInv, Launching, Failing, At,
     CloseStream, capture, Live
<1>4. StopInv' /\ ResultInv'
  BY BoundedChildAssumption DEF IInv, TypeOK, SystemOK, CaptureOK, CallOK, Fields, PCs, Errors,
     Grace, Procs, StageInv, ReapInv, SweepInv, StopInv, Launching, Failing, At, ResultInv,
     StreamInv, CloseStream, capture, Live
<1> QED
  BY <1>1, <1>2, <1>3, <1>4 DEF IInv

LEMMA ForkKeeps == ASSUME IInv, NEW p \in Procs, NEW k \in Kids, ~At("done"), Fork(p, k) PROVE IInv'
<1>1. TypeOK'
  BY BoundedChildAssumption DEF IInv, TypeOK, SystemOK, CaptureOK, CallOK, Fields, PCs, Errors,
     Grace, Procs, Fork, capture, Live
<1>2. StageInv' /\ ReapInv' /\ SweepInv'
  BY BoundedChildAssumption DEF IInv, TypeOK, SystemOK, CaptureOK, CallOK, Fields, PCs, Errors,
     Grace, Procs, StageInv, ReapInv, SweepInv, StopInv, Launching, Failing, At, Fork, capture,
     Live
<1>3. StreamInv'
  BY BoundedChildAssumption DEF IInv, TypeOK, SystemOK, CaptureOK, CallOK, Fields, PCs, Errors,
     Grace, Procs, StreamInv, StageInv, ReapInv, SweepInv, StopInv, Launching, Failing, At,
     Fork, capture, Live
<1>4. StopInv' /\ ResultInv'
  BY BoundedChildAssumption DEF IInv, TypeOK, SystemOK, CaptureOK, CallOK, Fields, PCs, Errors,
     Grace, Procs, StageInv, ReapInv, SweepInv, StopInv, Launching, Failing, At, ResultInv,
     StreamInv, Fork, capture, Live
<1> QED
  BY <1>1, <1>2, <1>3, <1>4 DEF IInv

LEMMA CancelKeeps == ASSUME IInv, ~At("done"), Cancel PROVE IInv'
<1>1. TypeOK'
  <2>1. SystemOK'
    BY BoundedChildAssumption DEF IInv, TypeOK, SystemOK, CaptureOK, CallOK, Fields, PCs,
       Errors, Grace, Procs, Cancel, Stop, Ring, capture
  <2> QED
    BY <2>1 DEF IInv, TypeOK, SystemOK, CaptureOK, CallOK, Fields, PCs, Errors, Grace, Procs,
       Cancel, Stop, Ring, capture
<1>2. StageInv' /\ ReapInv' /\ SweepInv'
  BY BoundedChildAssumption DEF IInv, TypeOK, SystemOK, CaptureOK, CallOK, Fields, PCs, Errors,
     Grace, Procs, StageInv, ReapInv, SweepInv, StopInv, Launching, Failing, At, Cancel, Stop,
     Ring, capture
<1>3. StreamInv'
  BY BoundedChildAssumption DEF IInv, TypeOK, SystemOK, CaptureOK, CallOK, Fields, PCs, Errors,
     Grace, Procs, StreamInv, StageInv, ReapInv, SweepInv, StopInv, Launching, Failing, At,
     Cancel, Stop, Ring, capture
<1>4. StopInv' /\ ResultInv'
  BY BoundedChildAssumption DEF IInv, TypeOK, SystemOK, CaptureOK, CallOK, Fields, PCs, Errors,
     Grace, Procs, StageInv, ReapInv, SweepInv, StopInv, Launching, Failing, At, ResultInv,
     StreamInv, Cancel, Stop, Ring, capture
<1> QED
  BY <1>1, <1>2, <1>3, <1>4 DEF IInv

LEMMA DeadlinePassesKeeps == ASSUME IInv, ~At("done"), DeadlinePasses PROVE IInv'
<1>1. TypeOK'
  <2>1. SystemOK'
    BY BoundedChildAssumption DEF IInv, TypeOK, SystemOK, CaptureOK, CallOK, Fields, PCs,
       Errors, Grace, Procs, DeadlinePasses, Stop, Ring, capture
  <2> QED
    BY <2>1 DEF IInv, TypeOK, SystemOK, CaptureOK, CallOK, Fields, PCs, Errors, Grace, Procs,
       DeadlinePasses, Stop, Ring, capture
<1>2. StageInv' /\ ReapInv' /\ SweepInv'
  BY BoundedChildAssumption DEF IInv, TypeOK, SystemOK, CaptureOK, CallOK, Fields, PCs, Errors,
     Grace, Procs, StageInv, ReapInv, SweepInv, StopInv, Launching, Failing, At, DeadlinePasses,
     Stop, Ring, capture
<1>3. StreamInv'
  BY BoundedChildAssumption DEF IInv, TypeOK, SystemOK, CaptureOK, CallOK, Fields, PCs, Errors,
     Grace, Procs, StreamInv, StageInv, ReapInv, SweepInv, StopInv, Launching, Failing, At,
     DeadlinePasses, Stop, Ring, capture
<1>4. StopInv' /\ ResultInv'
  BY BoundedChildAssumption DEF IInv, TypeOK, SystemOK, CaptureOK, CallOK, Fields, PCs, Errors,
     Grace, Procs, StageInv, ReapInv, SweepInv, StopInv, Launching, Failing, At, ResultInv,
     StreamInv, DeadlinePasses, Stop, Ring, capture
<1> QED
  BY <1>1, <1>2, <1>3, <1>4 DEF IInv

LEMMA GraceEndsKeeps == ASSUME IInv, NEW t \in {"writer", "cleanup"}, ~At("done"), GraceEnds(t) PROVE IInv'
<1>1. TypeOK'
  BY BoundedChildAssumption DEF IInv, TypeOK, SystemOK, CaptureOK, CallOK, Fields, PCs, Errors,
     Grace, Procs, GraceEnds, Ring, capture
<1>2. StageInv' /\ ReapInv' /\ SweepInv'
  BY BoundedChildAssumption DEF IInv, TypeOK, SystemOK, CaptureOK, CallOK, Fields, PCs, Errors,
     Grace, Procs, StageInv, ReapInv, SweepInv, StopInv, Launching, Failing, At, GraceEnds,
     Ring, capture
<1>3. StreamInv'
  BY BoundedChildAssumption DEF IInv, TypeOK, SystemOK, CaptureOK, CallOK, Fields, PCs, Errors,
     Grace, Procs, StreamInv, StageInv, ReapInv, SweepInv, StopInv, Launching, Failing, At,
     GraceEnds, Ring, capture
<1>4. StopInv' /\ ResultInv'
  BY BoundedChildAssumption DEF IInv, TypeOK, SystemOK, CaptureOK, CallOK, Fields, PCs, Errors,
     Grace, Procs, StageInv, ReapInv, SweepInv, StopInv, Launching, Failing, At, ResultInv,
     StreamInv, GraceEnds, Ring, capture
<1> QED
  BY <1>1, <1>2, <1>3, <1>4 DEF IInv

LEMMA RefuseKeeps == ASSUME IInv, Refuse PROVE IInv'
<1>1. SystemOK'
  BY BoundedChildAssumption DEF IInv, TypeOK, SystemOK, CaptureOK, CallOK, Fields, PCs, Errors,
     Grace, Procs, StageInv, StopInv, At, Refuse, system, capture, Done, Prevented,
     PreventedError
<1>2. CaptureOK'
  BY BoundedChildAssumption DEF IInv, TypeOK, CaptureOK, Refuse, system, capture, At, Done,
     Prevented, PreventedError
<1>3. CallOK(call')
  BY BoundedChildAssumption DEF IInv, TypeOK, CallOK, Fields, PCs, Errors, Refuse, system,
     capture, At, Done, Prevented, PreventedError
<1>4. StageInv'
  BY BoundedChildAssumption DEF IInv, TypeOK, CallOK, Fields, PCs, Errors, StageInv, Launching,
     Failing, At, Refuse, system, capture, Done, Prevented, PreventedError
<1>5. ReapInv'
  BY BoundedChildAssumption DEF IInv, TypeOK, CallOK, Fields, PCs, Errors, SystemOK, Procs,
     StageInv, ReapInv, Launching, At, Refuse, system, capture, Done, Prevented, PreventedError
<1>6. SweepInv'
  BY BoundedChildAssumption DEF IInv, TypeOK, CallOK, Fields, PCs, Errors, SweepInv, At, Refuse,
     system, capture, Done, Prevented, PreventedError
<1>7. StreamInv'
  BY BoundedChildAssumption DEF IInv, TypeOK, CallOK, Fields, PCs, Errors, CaptureOK, SystemOK,
     StageInv, StreamInv, At, Refuse, system, capture, Done, Prevented, PreventedError
<1>8. StopInv'
  BY BoundedChildAssumption DEF IInv, TypeOK, CallOK, Fields, PCs, Errors, SystemOK, StopInv,
     StageInv, Launching, Failing, At, Refuse, system, capture, Done, Prevented, PreventedError
<1>9. ResultInv'
  BY BoundedChildAssumption DEF IInv, TypeOK, CallOK, Fields, PCs, Errors, SystemOK, Procs,
     StageInv, ReapInv, SweepInv, ResultInv, Launching, At, Refuse, system, capture, Done,
     Prevented, PreventedError
<1> QED
  BY <1>1, <1>2, <1>3, <1>4, <1>5, <1>6, <1>7, <1>8, <1>9 DEF IInv, TypeOK

LEMMA LaunchFailsKeeps == ASSUME IInv, LaunchFails PROVE IInv'
<1>1. SystemOK'
  BY BoundedChildAssumption DEF IInv, TypeOK, SystemOK, CaptureOK, CallOK, Fields, PCs, Errors,
     Grace, Procs, StageInv, StopInv, At, LaunchFails, system, capture, Done
<1>2. CaptureOK'
  BY BoundedChildAssumption DEF IInv, TypeOK, CaptureOK, LaunchFails, system, capture, At, Done
<1>3. CallOK(call')
  BY BoundedChildAssumption DEF IInv, TypeOK, CallOK, Fields, PCs, Errors, LaunchFails, system,
     capture, At, Done
<1>4. StageInv'
  BY BoundedChildAssumption DEF IInv, TypeOK, CallOK, Fields, PCs, Errors, StageInv, Launching,
     Failing, At, LaunchFails, system, capture, Done
<1>5. ReapInv'
  BY BoundedChildAssumption DEF IInv, TypeOK, CallOK, Fields, PCs, Errors, SystemOK, Procs,
     StageInv, ReapInv, Launching, At, LaunchFails, system, capture, Done
<1>6. SweepInv'
  BY BoundedChildAssumption DEF IInv, TypeOK, CallOK, Fields, PCs, Errors, SweepInv, At,
     LaunchFails, system, capture, Done
<1>7. StreamInv'
  BY BoundedChildAssumption DEF IInv, TypeOK, CallOK, Fields, PCs, Errors, CaptureOK, SystemOK,
     StageInv, StreamInv, At, LaunchFails, system, capture, Done
<1>8. StopInv'
  BY BoundedChildAssumption DEF IInv, TypeOK, CallOK, Fields, PCs, Errors, SystemOK, StopInv,
     StageInv, Launching, Failing, At, LaunchFails, system, capture, Done
<1>9. ResultInv'
  BY BoundedChildAssumption DEF IInv, TypeOK, CallOK, Fields, PCs, Errors, SystemOK, Procs,
     StageInv, ReapInv, SweepInv, ResultInv, Launching, At, LaunchFails, system, capture, Done
<1> QED
  BY <1>1, <1>2, <1>3, <1>4, <1>5, <1>6, <1>7, <1>8, <1>9 DEF IInv, TypeOK

LEMMA ForkChildKeeps == ASSUME IInv, ForkChild PROVE IInv'
<1>1. CASE call.pc = "entry" /\ call' = [call EXCEPT !.pc = "poll"]
  <2>1. SystemOK'
    BY <1>1, BoundedChildAssumption DEF IInv, TypeOK, SystemOK, CaptureOK, CallOK, Fields, PCs,
       Errors, Grace, Procs, StageInv, StopInv, At, ForkChild, capture, Prevented
  <2>2. CaptureOK'
    BY <1>1, BoundedChildAssumption DEF IInv, TypeOK, CaptureOK, ForkChild, capture, At,
       Prevented
  <2>3. CallOK(call')
    BY <1>1, BoundedChildAssumption DEF IInv, TypeOK, CallOK, Fields, PCs, Errors, ForkChild,
       capture, At, Prevented
  <2>4. StageInv'
    BY <1>1, BoundedChildAssumption DEF IInv, TypeOK, CallOK, Fields, PCs, Errors, StageInv,
       Launching, Failing, At, ForkChild, capture, Prevented
  <2>5. ReapInv'
    BY <1>1, BoundedChildAssumption DEF IInv, TypeOK, CallOK, Fields, PCs, Errors, SystemOK,
       Procs, StageInv, ReapInv, Launching, At, ForkChild, capture, Prevented
  <2>6. SweepInv'
    BY <1>1, BoundedChildAssumption DEF IInv, TypeOK, CallOK, Fields, PCs, Errors, SweepInv, At,
       ForkChild, capture, Prevented
  <2>7. StreamInv'
    BY <1>1, BoundedChildAssumption DEF IInv, TypeOK, CallOK, Fields, PCs, Errors, CaptureOK,
       SystemOK, StageInv, StreamInv, At, ForkChild, capture, Prevented
  <2>8. StopInv'
    BY <1>1, BoundedChildAssumption DEF IInv, TypeOK, CallOK, Fields, PCs, Errors, SystemOK,
       StopInv, StageInv, Launching, Failing, At, ForkChild, capture, Prevented
  <2>9. ResultInv'
    BY <1>1, BoundedChildAssumption DEF IInv, TypeOK, CallOK, Fields, PCs, Errors, SystemOK,
       Procs, StageInv, ReapInv, SweepInv, ResultInv, Launching, At, ForkChild, capture,
       Prevented
  <2> QED
    BY <2>1, <2>2, <2>3, <2>4, <2>5, <2>6, <2>7, <2>8, <2>9 DEF IInv, TypeOK
<1>2. CASE call.pc = "entry" /\ call' = [call EXCEPT !.pc = "kill", !.error = "spawn_failed"]
  <2>1. SystemOK'
    BY <1>2, BoundedChildAssumption DEF IInv, TypeOK, SystemOK, CaptureOK, CallOK, Fields, PCs,
       Errors, Grace, Procs, StageInv, StopInv, At, ForkChild, capture, Prevented
  <2>2. CaptureOK'
    BY <1>2, BoundedChildAssumption DEF IInv, TypeOK, CaptureOK, ForkChild, capture, At,
       Prevented
  <2>3. CallOK(call')
    BY <1>2, BoundedChildAssumption DEF IInv, TypeOK, CallOK, Fields, PCs, Errors, ForkChild,
       capture, At, Prevented
  <2>4. StageInv'
    BY <1>2, BoundedChildAssumption DEF IInv, TypeOK, CallOK, Fields, PCs, Errors, StageInv,
       Launching, Failing, At, ForkChild, capture, Prevented
  <2>5. ReapInv'
    BY <1>2, BoundedChildAssumption DEF IInv, TypeOK, CallOK, Fields, PCs, Errors, SystemOK,
       Procs, StageInv, ReapInv, Launching, At, ForkChild, capture, Prevented
  <2>6. SweepInv'
    BY <1>2, BoundedChildAssumption DEF IInv, TypeOK, CallOK, Fields, PCs, Errors, SweepInv, At,
       ForkChild, capture, Prevented
  <2>7. StreamInv'
    BY <1>2, BoundedChildAssumption DEF IInv, TypeOK, CallOK, Fields, PCs, Errors, CaptureOK,
       SystemOK, StageInv, StreamInv, At, ForkChild, capture, Prevented
  <2>8. StopInv'
    BY <1>2, BoundedChildAssumption DEF IInv, TypeOK, CallOK, Fields, PCs, Errors, SystemOK,
       StopInv, StageInv, Launching, Failing, At, ForkChild, capture, Prevented
  <2>9. ResultInv'
    BY <1>2, BoundedChildAssumption DEF IInv, TypeOK, CallOK, Fields, PCs, Errors, SystemOK,
       Procs, StageInv, ReapInv, SweepInv, ResultInv, Launching, At, ForkChild, capture,
       Prevented
  <2> QED
    BY <2>1, <2>2, <2>3, <2>4, <2>5, <2>6, <2>7, <2>8, <2>9 DEF IInv, TypeOK
<1> QED
  BY <1>1, <1>2 DEF ForkChild, At

LEMMA PosixSpawnKeeps == ASSUME IInv, PosixSpawn PROVE IInv'
<1>1. SystemOK'
  BY BoundedChildAssumption DEF IInv, TypeOK, SystemOK, CaptureOK, CallOK, Fields, PCs, Errors,
     Grace, Procs, StageInv, StopInv, At, PosixSpawn, capture, Prevented
<1>2. CaptureOK'
  BY BoundedChildAssumption DEF IInv, TypeOK, CaptureOK, PosixSpawn, capture, At, Prevented
<1>3. CallOK(call')
  BY BoundedChildAssumption DEF IInv, TypeOK, CallOK, Fields, PCs, Errors, PosixSpawn, capture,
     At, Prevented
<1>4. StageInv'
  BY BoundedChildAssumption DEF IInv, TypeOK, CallOK, Fields, PCs, Errors, StageInv, Launching,
     Failing, At, PosixSpawn, capture, Prevented
<1>5. ReapInv'
  BY BoundedChildAssumption DEF IInv, TypeOK, CallOK, Fields, PCs, Errors, SystemOK, Procs,
     StageInv, ReapInv, Launching, At, PosixSpawn, capture, Prevented
<1>6. SweepInv'
  BY BoundedChildAssumption DEF IInv, TypeOK, CallOK, Fields, PCs, Errors, SweepInv, At,
     PosixSpawn, capture, Prevented
<1>7. StreamInv'
  BY BoundedChildAssumption DEF IInv, TypeOK, CallOK, Fields, PCs, Errors, CaptureOK, SystemOK,
     StageInv, StreamInv, At, PosixSpawn, capture, Prevented
<1>8. StopInv'
  BY BoundedChildAssumption DEF IInv, TypeOK, CallOK, Fields, PCs, Errors, SystemOK, StopInv,
     StageInv, Launching, Failing, At, PosixSpawn, capture, Prevented
<1>9. ResultInv'
  BY BoundedChildAssumption DEF IInv, TypeOK, CallOK, Fields, PCs, Errors, SystemOK, Procs,
     StageInv, ReapInv, SweepInv, ResultInv, Launching, At, PosixSpawn, capture, Prevented
<1> QED
  BY <1>1, <1>2, <1>3, <1>4, <1>5, <1>6, <1>7, <1>8, <1>9 DEF IInv, TypeOK

LEMMA PollKeeps == ASSUME IInv, Poll PROVE IInv'
<1>1. SystemOK'
  BY BoundedChildAssumption DEF IInv, TypeOK, SystemOK, CaptureOK, CallOK, Fields, PCs, Errors,
     Grace, Procs, StageInv, StopInv, At, Poll, Goto, Outcome, Consume, system, capture
<1>2. CaptureOK'
  BY BoundedChildAssumption DEF IInv, TypeOK, CaptureOK, Poll, At, Goto, Outcome, Consume,
     system, capture
<1>3. CallOK(call')
  BY BoundedChildAssumption DEF IInv, TypeOK, CallOK, Fields, PCs, Errors, Poll, At, Goto,
     Outcome, Consume, system, capture
<1>4. StageInv'
  BY BoundedChildAssumption DEF IInv, TypeOK, CallOK, Fields, PCs, Errors, StageInv, Launching,
     Failing, At, Poll, Goto, Outcome, Consume, system, capture
<1>5. ReapInv'
  BY BoundedChildAssumption DEF IInv, TypeOK, CallOK, Fields, PCs, Errors, SystemOK, Procs,
     StageInv, ReapInv, Launching, At, Poll, Goto, Outcome, Consume, system, capture
<1>6. SweepInv'
  BY BoundedChildAssumption DEF IInv, TypeOK, CallOK, Fields, PCs, Errors, SweepInv, At, Poll,
     Goto, Outcome, Consume, system, capture
<1>7. StreamInv'
  <2>1. /\ UNCHANGED <<holds, pipe, wrote, got, eof, overflow>> /\ (\A s \in Streams : fd'[s] => fd[s])
         /\ call'.pc # "entry" /\ (call.error # "none" => call'.error # "none")
    BY BoundedChildAssumption DEF IInv, TypeOK, CallOK, Fields, PCs, Errors, CaptureOK, Poll,
       At, Goto, Outcome, Consume, system, capture
  <2> QED
    BY <2>1, StreamsKept DEF IInv
<1>8. StopInv'
  BY BoundedChildAssumption DEF IInv, TypeOK, CallOK, Fields, PCs, Errors, SystemOK, StopInv,
     StageInv, Launching, Failing, At, Poll, Goto, Outcome, Consume, system, capture
<1>9. ResultInv'
  BY BoundedChildAssumption DEF IInv, TypeOK, CallOK, Fields, PCs, Errors, SystemOK, Procs,
     StageInv, ReapInv, SweepInv, ResultInv, Launching, At, Poll, Goto, Outcome, Consume,
     system, capture
<1> QED
  BY <1>1, <1>2, <1>3, <1>4, <1>5, <1>6, <1>7, <1>8, <1>9 DEF IInv, TypeOK

LEMMA AskCancelKeeps == ASSUME IInv, AskCancel PROVE IInv'
<1>1. SystemOK'
  BY BoundedChildAssumption DEF IInv, TypeOK, SystemOK, CaptureOK, CallOK, Fields, PCs, Errors,
     Grace, Procs, StageInv, StopInv, At, AskCancel, Goto, system, capture
<1>2. CaptureOK'
  BY BoundedChildAssumption DEF IInv, TypeOK, CaptureOK, AskCancel, At, Goto, system, capture
<1>3. CallOK(call')
  BY BoundedChildAssumption DEF IInv, TypeOK, CallOK, Fields, PCs, Errors, AskCancel, At, Goto,
     system, capture
<1>4. StageInv'
  BY BoundedChildAssumption DEF IInv, TypeOK, CallOK, Fields, PCs, Errors, StageInv, Launching,
     Failing, At, AskCancel, Goto, system, capture
<1>5. ReapInv'
  BY BoundedChildAssumption DEF IInv, TypeOK, CallOK, Fields, PCs, Errors, SystemOK, Procs,
     StageInv, ReapInv, Launching, At, AskCancel, Goto, system, capture
<1>6. SweepInv'
  BY BoundedChildAssumption DEF IInv, TypeOK, CallOK, Fields, PCs, Errors, SweepInv, At,
     AskCancel, Goto, system, capture
<1>7. StreamInv'
  BY BoundedChildAssumption DEF IInv, TypeOK, CallOK, Fields, PCs, Errors, CaptureOK, SystemOK,
     StageInv, StreamInv, At, AskCancel, Goto, system, capture
<1>8. StopInv'
  BY BoundedChildAssumption DEF IInv, TypeOK, CallOK, Fields, PCs, Errors, SystemOK, StopInv,
     StageInv, Launching, Failing, At, AskCancel, Goto, system, capture
<1>9. ResultInv'
  BY BoundedChildAssumption DEF IInv, TypeOK, CallOK, Fields, PCs, Errors, SystemOK, Procs,
     StageInv, ReapInv, SweepInv, ResultInv, Launching, At, AskCancel, Goto, system, capture
<1> QED
  BY <1>1, <1>2, <1>3, <1>4, <1>5, <1>6, <1>7, <1>8, <1>9 DEF IInv, TypeOK

LEMMA AskDeadlineKeeps == ASSUME IInv, AskDeadline PROVE IInv'
<1>1. SystemOK'
  BY BoundedChildAssumption DEF IInv, TypeOK, SystemOK, CaptureOK, CallOK, Fields, PCs, Errors,
     Grace, Procs, StageInv, StopInv, At, AskDeadline, Goto, system, capture
<1>2. CaptureOK'
  BY BoundedChildAssumption DEF IInv, TypeOK, CaptureOK, AskDeadline, At, Goto, system, capture
<1>3. CallOK(call')
  BY BoundedChildAssumption DEF IInv, TypeOK, CallOK, Fields, PCs, Errors, AskDeadline, At,
     Goto, system, capture
<1>4. StageInv'
  BY BoundedChildAssumption DEF IInv, TypeOK, CallOK, Fields, PCs, Errors, StageInv, Launching,
     Failing, At, AskDeadline, Goto, system, capture
<1>5. ReapInv'
  BY BoundedChildAssumption DEF IInv, TypeOK, CallOK, Fields, PCs, Errors, SystemOK, Procs,
     StageInv, ReapInv, Launching, At, AskDeadline, Goto, system, capture
<1>6. SweepInv'
  BY BoundedChildAssumption DEF IInv, TypeOK, CallOK, Fields, PCs, Errors, SweepInv, At,
     AskDeadline, Goto, system, capture
<1>7. StreamInv'
  BY BoundedChildAssumption DEF IInv, TypeOK, CallOK, Fields, PCs, Errors, CaptureOK, SystemOK,
     StageInv, StreamInv, At, AskDeadline, Goto, system, capture
<1>8. StopInv'
  BY BoundedChildAssumption DEF IInv, TypeOK, CallOK, Fields, PCs, Errors, SystemOK, StopInv,
     StageInv, Launching, Failing, At, AskDeadline, Goto, system, capture
<1>9. ResultInv'
  BY BoundedChildAssumption DEF IInv, TypeOK, CallOK, Fields, PCs, Errors, SystemOK, Procs,
     StageInv, ReapInv, SweepInv, ResultInv, Launching, At, AskDeadline, Goto, system, capture
<1> QED
  BY <1>1, <1>2, <1>3, <1>4, <1>5, <1>6, <1>7, <1>8, <1>9 DEF IInv, TypeOK

LEMMA RecheckCancelKeeps == ASSUME IInv, RecheckCancel PROVE IInv'
<1>1. SystemOK'
  BY BoundedChildAssumption DEF IInv, TypeOK, SystemOK, CaptureOK, CallOK, Fields, PCs, Errors,
     Grace, Procs, StageInv, StopInv, At, RecheckCancel, Recheck, system, capture, Outcome,
     Consume
<1>2. CaptureOK'
  BY BoundedChildAssumption DEF IInv, TypeOK, CaptureOK, RecheckCancel, Recheck, system,
     capture, At, Outcome, Consume
<1>3. CallOK(call')
  BY BoundedChildAssumption DEF IInv, TypeOK, CallOK, Fields, PCs, Errors, RecheckCancel,
     Recheck, system, capture, At, Outcome, Consume
<1>4. StageInv'
  BY BoundedChildAssumption DEF IInv, TypeOK, CallOK, Fields, PCs, Errors, StageInv, Launching,
     Failing, At, RecheckCancel, Recheck, system, capture, Outcome, Consume
<1>5. ReapInv'
  BY BoundedChildAssumption DEF IInv, TypeOK, CallOK, Fields, PCs, Errors, SystemOK, Procs,
     StageInv, ReapInv, Launching, At, RecheckCancel, Recheck, system, capture, Outcome, Consume
<1>6. SweepInv'
  BY BoundedChildAssumption DEF IInv, TypeOK, CallOK, Fields, PCs, Errors, SweepInv, At,
     RecheckCancel, Recheck, system, capture, Outcome, Consume
<1>7. StreamInv'
  <2>1. /\ UNCHANGED <<holds, pipe, wrote, got, eof, overflow>> /\ (\A s \in Streams : fd'[s] => fd[s])
         /\ call'.pc # "entry" /\ (call.error # "none" => call'.error # "none")
    BY BoundedChildAssumption DEF IInv, TypeOK, CallOK, Fields, PCs, Errors, CaptureOK,
       RecheckCancel, Recheck, system, capture, At, Outcome, Consume
  <2> QED
    BY <2>1, StreamsKept DEF IInv
<1>8. StopInv'
  BY BoundedChildAssumption DEF IInv, TypeOK, CallOK, Fields, PCs, Errors, SystemOK, StopInv,
     StageInv, Launching, Failing, At, RecheckCancel, Recheck, system, capture, Outcome, Consume
<1>9. ResultInv'
  BY BoundedChildAssumption DEF IInv, TypeOK, CallOK, Fields, PCs, Errors, SystemOK, Procs,
     StageInv, ReapInv, SweepInv, ResultInv, Launching, At, RecheckCancel, Recheck, system,
     capture, Outcome, Consume
<1> QED
  BY <1>1, <1>2, <1>3, <1>4, <1>5, <1>6, <1>7, <1>8, <1>9 DEF IInv, TypeOK

LEMMA RecheckDeadlineKeeps == ASSUME IInv, RecheckDeadline PROVE IInv'
<1>1. SystemOK'
  BY BoundedChildAssumption DEF IInv, TypeOK, SystemOK, CaptureOK, CallOK, Fields, PCs, Errors,
     Grace, Procs, StageInv, StopInv, At, RecheckDeadline, Recheck, system, capture, Outcome,
     Consume
<1>2. CaptureOK'
  BY BoundedChildAssumption DEF IInv, TypeOK, CaptureOK, RecheckDeadline, Recheck, system,
     capture, At, Outcome, Consume
<1>3. CallOK(call')
  BY BoundedChildAssumption DEF IInv, TypeOK, CallOK, Fields, PCs, Errors, RecheckDeadline,
     Recheck, system, capture, At, Outcome, Consume
<1>4. StageInv'
  BY BoundedChildAssumption DEF IInv, TypeOK, CallOK, Fields, PCs, Errors, StageInv, Launching,
     Failing, At, RecheckDeadline, Recheck, system, capture, Outcome, Consume
<1>5. ReapInv'
  BY BoundedChildAssumption DEF IInv, TypeOK, CallOK, Fields, PCs, Errors, SystemOK, Procs,
     StageInv, ReapInv, Launching, At, RecheckDeadline, Recheck, system, capture, Outcome,
     Consume
<1>6. SweepInv'
  BY BoundedChildAssumption DEF IInv, TypeOK, CallOK, Fields, PCs, Errors, SweepInv, At,
     RecheckDeadline, Recheck, system, capture, Outcome, Consume
<1>7. StreamInv'
  <2>1. /\ UNCHANGED <<holds, pipe, wrote, got, eof, overflow>> /\ (\A s \in Streams : fd'[s] => fd[s])
         /\ call'.pc # "entry" /\ (call.error # "none" => call'.error # "none")
    BY BoundedChildAssumption DEF IInv, TypeOK, CallOK, Fields, PCs, Errors, CaptureOK,
       RecheckDeadline, Recheck, system, capture, At, Outcome, Consume
  <2> QED
    BY <2>1, StreamsKept DEF IInv
<1>8. StopInv'
  BY BoundedChildAssumption DEF IInv, TypeOK, CallOK, Fields, PCs, Errors, SystemOK, StopInv,
     StageInv, Launching, Failing, At, RecheckDeadline, Recheck, system, capture, Outcome,
     Consume
<1>9. ResultInv'
  BY BoundedChildAssumption DEF IInv, TypeOK, CallOK, Fields, PCs, Errors, SystemOK, Procs,
     StageInv, ReapInv, SweepInv, ResultInv, Launching, At, RecheckDeadline, Recheck, system,
     capture, Outcome, Consume
<1> QED
  BY <1>1, <1>2, <1>3, <1>4, <1>5, <1>6, <1>7, <1>8, <1>9 DEF IInv, TypeOK

LEMMA KillLaunchedKeeps == ASSUME IInv, KillLaunched PROVE IInv'
<1>1. SystemOK'
  BY BoundedChildAssumption DEF IInv, TypeOK, SystemOK, CaptureOK, CallOK, Fields, PCs, Errors,
     Grace, Procs, StageInv, StopInv, At, KillLaunched, capture, Kill, CodeAfter
<1>2. CaptureOK'
  BY BoundedChildAssumption DEF IInv, TypeOK, CaptureOK, KillLaunched, capture, At, Kill,
     CodeAfter, Procs
<1>3. CallOK(call')
  BY BoundedChildAssumption DEF IInv, TypeOK, CallOK, Fields, PCs, Errors, KillLaunched,
     capture, At, Kill, CodeAfter, Procs
<1>4. StageInv'
  BY BoundedChildAssumption DEF IInv, TypeOK, CallOK, Fields, PCs, Errors, StageInv, Launching,
     Failing, At, KillLaunched, capture, Kill, CodeAfter, Procs
<1>5. ReapInv'
  BY BoundedChildAssumption DEF IInv, TypeOK, CallOK, Fields, PCs, Errors, SystemOK, Procs,
     StageInv, ReapInv, Launching, At, KillLaunched, capture, Kill, CodeAfter
<1>6. SweepInv'
  BY BoundedChildAssumption DEF IInv, TypeOK, CallOK, Fields, PCs, Errors, SweepInv, At,
     KillLaunched, capture, Kill, CodeAfter, Procs
<1>7. StreamInv'
  BY BoundedChildAssumption DEF IInv, TypeOK, CallOK, Fields, PCs, Errors, CaptureOK, SystemOK,
     StageInv, StreamInv, At, KillLaunched, capture, Kill, CodeAfter, Procs
<1>8. StopInv'
  BY BoundedChildAssumption DEF IInv, TypeOK, CallOK, Fields, PCs, Errors, SystemOK, StopInv,
     StageInv, Launching, Failing, At, KillLaunched, capture, Kill, CodeAfter, Procs
<1>9. ResultInv'
  BY BoundedChildAssumption DEF IInv, TypeOK, CallOK, Fields, PCs, Errors, SystemOK, Procs,
     StageInv, ReapInv, SweepInv, ResultInv, Launching, At, KillLaunched, capture, Kill,
     CodeAfter
<1> QED
  BY <1>1, <1>2, <1>3, <1>4, <1>5, <1>6, <1>7, <1>8, <1>9 DEF IInv, TypeOK

LEMMA ReapLaunchedKeeps == ASSUME IInv, ReapLaunched PROVE IInv'
<1>1. SystemOK'
  BY BoundedChildAssumption DEF IInv, TypeOK, SystemOK, CaptureOK, CallOK, Fields, PCs, Errors,
     Grace, Procs, StageInv, StopInv, At, ReapLaunched, system, capture, CleanupFailed, Done,
     Wait, Primary
<1>2. CaptureOK'
  BY BoundedChildAssumption DEF IInv, TypeOK, CaptureOK, ReapLaunched, system, capture, At,
     CleanupFailed, Done, Wait, Primary
<1>3. CallOK(call')
  BY BoundedChildAssumption DEF IInv, TypeOK, CallOK, Fields, PCs, Errors, ReapLaunched, system,
     capture, At, CleanupFailed, Done, Wait, Primary
<1>4. StageInv'
  BY BoundedChildAssumption DEF IInv, TypeOK, CallOK, Fields, PCs, Errors, StageInv, Launching,
     Failing, At, ReapLaunched, system, capture, CleanupFailed, Done, Wait, Primary
<1>5. ReapInv'
  BY BoundedChildAssumption DEF IInv, TypeOK, CallOK, Fields, PCs, Errors, SystemOK, Procs,
     StageInv, ReapInv, Launching, At, ReapLaunched, system, capture, CleanupFailed, Done, Wait,
     Primary
<1>6. SweepInv'
  BY BoundedChildAssumption DEF IInv, TypeOK, CallOK, Fields, PCs, Errors, SweepInv, At,
     ReapLaunched, system, capture, CleanupFailed, Done, Wait, Primary
<1>7. StreamInv'
  <2>1. /\ UNCHANGED <<holds, pipe, wrote, got, eof, overflow>> /\ (\A s \in Streams : fd'[s] => fd[s])
         /\ call'.pc # "entry" /\ (call.error # "none" => call'.error # "none")
    BY BoundedChildAssumption DEF IInv, TypeOK, CallOK, Fields, PCs, Errors, CaptureOK,
       ReapLaunched, system, capture, At, CleanupFailed, Done, Wait, Primary
  <2> QED
    BY <2>1, StreamsKept DEF IInv
<1>8. StopInv'
  BY BoundedChildAssumption DEF IInv, TypeOK, CallOK, Fields, PCs, Errors, SystemOK, StopInv,
     StageInv, Launching, Failing, At, ReapLaunched, system, capture, CleanupFailed, Done, Wait,
     Primary
<1>9. ResultInv'
  BY BoundedChildAssumption DEF IInv, TypeOK, CallOK, Fields, PCs, Errors, SystemOK, Procs,
     StageInv, ReapInv, SweepInv, ResultInv, Launching, At, ReapLaunched, system, capture,
     CleanupFailed, Done, Wait, Primary
<1> QED
  BY <1>1, <1>2, <1>3, <1>4, <1>5, <1>6, <1>7, <1>8, <1>9 DEF IInv, TypeOK

LEMMA LaunchedAbsentKeeps == ASSUME IInv, LaunchedAbsent PROVE IInv'
<1>1. CASE own = {} /\ call' = [Done(call) EXCEPT !.complete = TRUE]
  <2>1. SystemOK'
    BY <1>1, BoundedChildAssumption DEF IInv, TypeOK, SystemOK, CaptureOK, CallOK, Fields, PCs,
       Errors, Grace, Procs, StageInv, StopInv, At, LaunchedAbsent, system, capture,
       CleanupFailed, Done, Primary
  <2>2. CaptureOK'
    BY <1>1, BoundedChildAssumption DEF IInv, TypeOK, CaptureOK, LaunchedAbsent, system,
       capture, At, CleanupFailed, Done, Primary
  <2>3. CallOK(call')
    BY <1>1, BoundedChildAssumption DEF IInv, TypeOK, CallOK, Fields, PCs, Errors,
       LaunchedAbsent, system, capture, At, CleanupFailed, Done, Primary
  <2>4. StageInv'
    BY <1>1, BoundedChildAssumption DEF IInv, TypeOK, CallOK, Fields, PCs, Errors, StageInv,
       Launching, Failing, At, LaunchedAbsent, system, capture, CleanupFailed, Done, Primary
  <2>5. ReapInv'
    BY <1>1, BoundedChildAssumption DEF IInv, TypeOK, CallOK, Fields, PCs, Errors, SystemOK,
       Procs, StageInv, ReapInv, Launching, At, LaunchedAbsent, system, capture, CleanupFailed,
       Done, Primary
  <2>6. SweepInv'
    BY <1>1, BoundedChildAssumption DEF IInv, TypeOK, CallOK, Fields, PCs, Errors, SweepInv, At,
       LaunchedAbsent, system, capture, CleanupFailed, Done, Primary
  <2>7. StreamInv'
    <3>1. /\ UNCHANGED <<holds, pipe, wrote, got, eof, overflow>> /\ (\A s \in Streams : fd'[s] => fd[s])
           /\ call'.pc # "entry" /\ (call.error # "none" => call'.error # "none")
      BY <1>1, BoundedChildAssumption DEF IInv, TypeOK, CallOK, Fields, PCs, Errors, CaptureOK,
         LaunchedAbsent, system, capture, At, CleanupFailed, Done, Primary
    <3> QED
      BY <3>1, StreamsKept DEF IInv
  <2>8. StopInv'
    BY <1>1, BoundedChildAssumption DEF IInv, TypeOK, CallOK, Fields, PCs, Errors, SystemOK,
       StopInv, StageInv, Launching, Failing, At, LaunchedAbsent, system, capture,
       CleanupFailed, Done, Primary
  <2>9. ResultInv'
    <3>1. call'.pc = "done" /\ ~call'.started /\ call'.reaped /\ call'.error # "none"
      BY <1>1 DEF IInv, TypeOK, CallOK, Fields, StageInv, ReapInv, Launching, Failing, LaunchedAbsent, At, Done
    <3>2. own' = {} /\ proc'[Child] = "reaped"
      BY <1>1 DEF IInv, ReapInv, LaunchedAbsent, At, system
    <3> QED
      BY <3>1, <3>2 DEF ResultInv, At
  <2> QED
    BY <2>1, <2>2, <2>3, <2>4, <2>5, <2>6, <2>7, <2>8, <2>9 DEF IInv, TypeOK
<1>2. CASE own # {} /\ call' = Done(CleanupFailed(call))
  <2>1. SystemOK'
    BY <1>2, BoundedChildAssumption DEF IInv, TypeOK, SystemOK, CaptureOK, CallOK, Fields, PCs,
       Errors, Grace, Procs, StageInv, StopInv, At, LaunchedAbsent, system, capture,
       CleanupFailed, Done, Primary
  <2>2. CaptureOK'
    BY <1>2, BoundedChildAssumption DEF IInv, TypeOK, CaptureOK, LaunchedAbsent, system,
       capture, At, CleanupFailed, Done, Primary
  <2>3. CallOK(call')
    BY <1>2, BoundedChildAssumption DEF IInv, TypeOK, CallOK, Fields, PCs, Errors,
       LaunchedAbsent, system, capture, At, CleanupFailed, Done, Primary
  <2>4. StageInv'
    BY <1>2, BoundedChildAssumption DEF IInv, TypeOK, CallOK, Fields, PCs, Errors, StageInv,
       Launching, Failing, At, LaunchedAbsent, system, capture, CleanupFailed, Done, Primary
  <2>5. ReapInv'
    BY <1>2, BoundedChildAssumption DEF IInv, TypeOK, CallOK, Fields, PCs, Errors, SystemOK,
       Procs, StageInv, ReapInv, Launching, At, LaunchedAbsent, system, capture, CleanupFailed,
       Done, Primary
  <2>6. SweepInv'
    BY <1>2, BoundedChildAssumption DEF IInv, TypeOK, CallOK, Fields, PCs, Errors, SweepInv, At,
       LaunchedAbsent, system, capture, CleanupFailed, Done, Primary
  <2>7. StreamInv'
    <3>1. /\ UNCHANGED <<holds, pipe, wrote, got, eof, overflow>> /\ (\A s \in Streams : fd'[s] => fd[s])
           /\ call'.pc # "entry" /\ (call.error # "none" => call'.error # "none")
      BY <1>2, BoundedChildAssumption DEF IInv, TypeOK, CallOK, Fields, PCs, Errors, CaptureOK,
         LaunchedAbsent, system, capture, At, CleanupFailed, Done, Primary
    <3> QED
      BY <3>1, StreamsKept DEF IInv
  <2>8. StopInv'
    BY <1>2, BoundedChildAssumption DEF IInv, TypeOK, CallOK, Fields, PCs, Errors, SystemOK,
       StopInv, StageInv, Launching, Failing, At, LaunchedAbsent, system, capture,
       CleanupFailed, Done, Primary
  <2>9. ResultInv'
    BY <1>2, BoundedChildAssumption DEF IInv, TypeOK, CallOK, Fields, PCs, Errors, SystemOK,
       Procs, StageInv, ReapInv, SweepInv, ResultInv, Launching, At, LaunchedAbsent, system,
       capture, CleanupFailed, Done, Primary
  <2> QED
    BY <2>1, <2>2, <2>3, <2>4, <2>5, <2>6, <2>7, <2>8, <2>9 DEF IInv, TypeOK
<1> QED
  BY <1>1, <1>2 DEF LaunchedAbsent

LEMMA ValidateKeeps == ASSUME IInv, Validate PROVE IInv'
<1> DEFINE seen == [call EXCEPT !.waitable = proc[Child] = "zombie",
                 !.verified = Present(Child) /\ (proc[Child] = "zombie" \/ Child \in own)]
           c == CleanupFailed(seen)
<1>1. CallOK(seen)
  BY DEF IInv, TypeOK, SystemOK, CaptureOK, CallOK, Fields, PCs, Errors, Grace, Procs
<1>2. /\ CallOK(c) /\ c.started /\ ~c.complete /\ ~c.reaped
      /\ (c.sent => c.verify \/ c.cleanupError) /\ (c.cleanupError => c.error # "none")
  BY <1>1 DEF IInv, TypeOK, SystemOK, CaptureOK, CallOK, Fields, PCs, Errors, Grace, Procs,
     StageInv, ReapInv, SweepInv, Launching, At, Validate, CleanupFailed, Primary
<1>3. CASE Request(c, "cleanup_failed", "drain")
  <2> HIDE DEF c
  <2> QED
    BY <1>2, <1>3, RequestKeeps DEF Validate, At, Errors
<1>4. CASE call' = [seen EXCEPT !.pc = "drain"] /\ UNCHANGED <<system, capture>>
  <2>1. SystemOK'
    BY <1>1, <1>4, BoundedChildAssumption DEF IInv, TypeOK, SystemOK, CaptureOK, CallOK, Fields,
       PCs, Errors, Grace, Procs, StageInv, StopInv, At, Validate, Goto, system, capture, Wait
  <2>2. CaptureOK'
    BY <1>1, <1>4, BoundedChildAssumption DEF IInv, TypeOK, CaptureOK, Validate, Goto, system,
       capture, Wait
  <2>3. CallOK(call')
    BY <1>1, <1>4, BoundedChildAssumption DEF IInv, TypeOK, CallOK, Fields, PCs, Errors,
       Validate, Goto, system, capture, Wait
  <2>4. StageInv'
    BY <1>1, <1>4, BoundedChildAssumption DEF IInv, TypeOK, CallOK, Fields, PCs, Errors,
       StageInv, Launching, Failing, At, Validate, Goto, system, capture, Wait
  <2>5. ReapInv'
    BY <1>1, <1>4, BoundedChildAssumption DEF IInv, TypeOK, CallOK, Fields, PCs, Errors,
       SystemOK, Procs, StageInv, ReapInv, Launching, At, Validate, Goto, system, capture, Wait
  <2>6. SweepInv'
    BY <1>1, <1>4, BoundedChildAssumption DEF IInv, TypeOK, CallOK, Fields, PCs, Errors,
       SweepInv, At, Validate, Goto, system, capture, Wait
  <2>7. StreamInv'
    BY <1>1, <1>4, BoundedChildAssumption DEF IInv, TypeOK, CallOK, Fields, PCs, Errors,
       CaptureOK, SystemOK, StageInv, StreamInv, At, Validate, Goto, system, capture, Wait
  <2>8. StopInv'
    BY <1>1, <1>4, BoundedChildAssumption DEF IInv, TypeOK, CallOK, Fields, PCs, Errors,
       SystemOK, StopInv, StageInv, Launching, Failing, At, Validate, Goto, system, capture,
       Wait
  <2>9. ResultInv'
    BY <1>1, <1>4, BoundedChildAssumption DEF IInv, TypeOK, CallOK, Fields, PCs, Errors,
       SystemOK, Procs, StageInv, ReapInv, SweepInv, ResultInv, Launching, At, Validate, Goto,
       system, capture, Wait
  <2> QED
    BY <2>1, <2>2, <2>3, <2>4, <2>5, <2>6, <2>7, <2>8, <2>9 DEF IInv, TypeOK
<1> QED
  BY <1>3, <1>4 DEF Validate

LEMMA DrainKeeps == ASSUME IInv, Drain PROVE IInv'
<1>1. SystemOK'
  BY BoundedChildAssumption DEF IInv, TypeOK, SystemOK, CaptureOK, CallOK, Fields, PCs, Errors,
     Grace, Procs, StageInv, StopInv, At, Drain, Primary, Fits
<1>2. CaptureOK'
  BY BoundedChildAssumption DEF IInv, TypeOK, CaptureOK, SystemOK, Drain, At, Primary, Fits
<1>3. CallOK(call')
  BY BoundedChildAssumption DEF IInv, TypeOK, CallOK, Fields, PCs, Errors, Drain, At, Primary,
     Fits
<1>4. StageInv'
  BY BoundedChildAssumption DEF IInv, TypeOK, CallOK, Fields, PCs, Errors, StageInv, Launching,
     Failing, At, Drain, Primary, Fits
<1>5. ReapInv'
  BY BoundedChildAssumption DEF IInv, TypeOK, CallOK, Fields, PCs, Errors, SystemOK, Procs,
     StageInv, ReapInv, Launching, At, Drain, Primary, Fits
<1>6. SweepInv'
  BY BoundedChildAssumption DEF IInv, TypeOK, CallOK, Fields, PCs, Errors, SweepInv, At, Drain,
     Primary, Fits
<1>7. StreamInv'
  BY BoundedChildAssumption DEF IInv, TypeOK, CallOK, Fields, PCs, Errors, CaptureOK, SystemOK,
     StageInv, StreamInv, At, Drain, Primary, Fits
<1>8. StopInv'
  BY BoundedChildAssumption DEF IInv, TypeOK, CallOK, Fields, PCs, Errors, SystemOK, StopInv,
     StageInv, Launching, Failing, At, Drain, Primary, Fits
<1>9. ResultInv'
  BY BoundedChildAssumption DEF IInv, TypeOK, CallOK, Fields, PCs, Errors, SystemOK, Procs,
     StageInv, ReapInv, SweepInv, ResultInv, Launching, At, Drain, Primary, Fits
<1> QED
  BY <1>1, <1>2, <1>3, <1>4, <1>5, <1>6, <1>7, <1>8, <1>9 DEF IInv, TypeOK

LEMMA ReadFailsKeeps == ASSUME IInv, NEW s \in Streams, ReadFails(s) PROVE IInv'
<1>1. SystemOK'
  BY BoundedChildAssumption DEF IInv, TypeOK, SystemOK, CaptureOK, CallOK, Fields, PCs, Errors,
     Grace, Procs, StageInv, StopInv, At, ReadFails, system, Primary
<1>2. CaptureOK'
  BY BoundedChildAssumption DEF IInv, TypeOK, CaptureOK, ReadFails, system, At, Primary
<1>3. CallOK(call')
  BY BoundedChildAssumption DEF IInv, TypeOK, CallOK, Fields, PCs, Errors, ReadFails, system,
     At, Primary
<1>4. StageInv'
  BY BoundedChildAssumption DEF IInv, TypeOK, CallOK, Fields, PCs, Errors, StageInv, Launching,
     Failing, At, ReadFails, system, Primary
<1>5. ReapInv'
  BY BoundedChildAssumption DEF IInv, TypeOK, CallOK, Fields, PCs, Errors, SystemOK, Procs,
     StageInv, ReapInv, Launching, At, ReadFails, system, Primary
<1>6. SweepInv'
  BY BoundedChildAssumption DEF IInv, TypeOK, CallOK, Fields, PCs, Errors, SweepInv, At,
     ReadFails, system, Primary
<1>7. StreamInv'
  BY BoundedChildAssumption DEF IInv, TypeOK, CallOK, Fields, PCs, Errors, CaptureOK, SystemOK,
     StageInv, StreamInv, At, ReadFails, system, Primary
<1>8. StopInv'
  BY BoundedChildAssumption DEF IInv, TypeOK, CallOK, Fields, PCs, Errors, SystemOK, StopInv,
     StageInv, Launching, Failing, At, ReadFails, system, Primary
<1>9. ResultInv'
  BY BoundedChildAssumption DEF IInv, TypeOK, CallOK, Fields, PCs, Errors, SystemOK, Procs,
     StageInv, ReapInv, SweepInv, ResultInv, Launching, At, ReadFails, system, Primary
<1> QED
  BY <1>1, <1>2, <1>3, <1>4, <1>5, <1>6, <1>7, <1>8, <1>9 DEF IInv, TypeOK

LEMMA ObserveKeeps == ASSUME IInv, Observe PROVE IInv'
<1> DEFINE c == call
<1>1. /\ CallOK(c) /\ c.started /\ ~c.complete /\ ~c.reaped
      /\ (c.sent => c.verify \/ c.cleanupError) /\ (c.cleanupError => c.error # "none")
  BY DEF IInv, TypeOK, SystemOK, CaptureOK, CallOK, Fields, PCs, Errors, Grace, Procs, StageInv,
     ReapInv, SweepInv, Launching, At, Observe
<1>2. CASE Request(call, "wait_failed", "decide")
  BY <1>1, <1>2, RequestKeeps DEF Observe, At, Errors
<1>3. CASE ~Request(call, "wait_failed", "decide")
  <2>1. SystemOK'
    BY <1>3, BoundedChildAssumption DEF IInv, TypeOK, SystemOK, CaptureOK, CallOK, Fields, PCs,
       Errors, Grace, Procs, StageInv, StopInv, At, Observe, Goto, system, capture, Wait
  <2>2. CaptureOK'
    BY <1>3, BoundedChildAssumption DEF IInv, TypeOK, CaptureOK, Observe, Goto, system, capture,
       Wait
  <2>3. CallOK(call')
    BY <1>3, BoundedChildAssumption DEF IInv, TypeOK, CallOK, Fields, PCs, Errors, Observe,
       Goto, system, capture, Wait
  <2>4. StageInv'
    BY <1>3, BoundedChildAssumption DEF IInv, TypeOK, CallOK, Fields, PCs, Errors, StageInv,
       Launching, Failing, At, Observe, Goto, system, capture, Wait
  <2>5. ReapInv'
    BY <1>3, BoundedChildAssumption DEF IInv, TypeOK, CallOK, Fields, PCs, Errors, SystemOK,
       Procs, StageInv, ReapInv, Launching, At, Observe, Goto, system, capture, Wait
  <2>6. SweepInv'
    BY <1>3, BoundedChildAssumption DEF IInv, TypeOK, CallOK, Fields, PCs, Errors, SweepInv, At,
       Observe, Goto, system, capture, Wait
  <2>7. StreamInv'
    <3>1. /\ UNCHANGED <<holds, pipe, wrote, got, eof, overflow>> /\ (\A s \in Streams : fd'[s] => fd[s])
           /\ call'.pc # "entry" /\ (call.error # "none" => call'.error # "none")
      BY <1>3, BoundedChildAssumption DEF IInv, TypeOK, CallOK, Fields, PCs, Errors, CaptureOK,
         Observe, Goto, system, capture, Wait
    <3> QED
      BY <3>1, StreamsKept DEF IInv
  <2>8. StopInv'
    BY <1>3, BoundedChildAssumption DEF IInv, TypeOK, CallOK, Fields, PCs, Errors, SystemOK,
       StopInv, StageInv, Launching, Failing, At, Observe, Goto, system, capture, Wait
  <2>9. ResultInv'
    BY <1>3, BoundedChildAssumption DEF IInv, TypeOK, CallOK, Fields, PCs, Errors, SystemOK,
       Procs, StageInv, ReapInv, SweepInv, ResultInv, Launching, At, Observe, Goto, system,
       capture, Wait
  <2> QED
    BY <2>1, <2>2, <2>3, <2>4, <2>5, <2>6, <2>7, <2>8, <2>9 DEF IInv, TypeOK
<1> QED
  BY <1>2, <1>3

LEMMA SettleKeeps == ASSUME IInv, Settle PROVE IInv'
<1>1. /\ CallOK(call) /\ call.started /\ ~call.complete /\ ~call.reaped
      /\ (call.sent => call.verify \/ call.cleanupError) /\ (call.cleanupError => call.error # "none")
  BY DEF IInv, TypeOK, SystemOK, CaptureOK, CallOK, Fields, PCs, Errors, Grace, Procs, StageInv,
     ReapInv, SweepInv, Launching, At, Settle
<1>2. /\ call' = [Signalled(call) EXCEPT !.pc = "reap"] /\ UNCHANGED capture
  BY DEF Settle
<1>3. /\ CallOK(call') /\ call'.pc = "reap" /\ call'.sent /\ call'.started /\ ~call'.complete
      /\ ~call'.reaped /\ (call'.verify \/ call'.cleanupError)
      /\ (call'.cleanupError => call'.error # "none") /\ (call.error # "none" => call'.error # "none")
  BY <1>1, <1>2, SignalledCall DEF CallOK, Fields, PCs, Errors, PCs
<1>4. /\ SystemOK'
      /\ proc'[Child] = "reaped" <=> proc[Child] = "reaped"
      /\ UNCHANGED <<own, holds, pipe, wrote, diag, first>>
      /\ clock'.cancel = clock.cancel /\ clock'.deadline = clock.deadline
  BY SignalEffect DEF Settle, IInv, TypeOK
<1>5. TypeOK'
  BY <1>2, <1>3, <1>4 DEF IInv, TypeOK, CaptureOK, capture
<1>6. StageInv' /\ ReapInv' /\ SweepInv'
  BY <1>1, <1>3, <1>4 DEF IInv, StageInv, ReapInv, SweepInv, Launching, Failing, At
<1>7. StreamInv'
  BY <1>2, <1>3, <1>4 DEF IInv, StreamInv, capture, At
<1>8. StopInv' /\ ResultInv'
  BY <1>3, <1>4 DEF IInv, StopInv, ResultInv, Failing, At
<1> QED
  BY <1>5, <1>6, <1>7, <1>8 DEF IInv

LEMMA ReapKeeps == ASSUME IInv, Reap PROVE IInv'
<1> DEFINE c == [call EXCEPT !.waitable = FALSE]
<1>1. /\ CallOK(c) /\ c.started /\ ~c.complete /\ ~c.reaped
      /\ (c.sent => c.verify \/ c.cleanupError) /\ (c.cleanupError => c.error # "none")
  BY DEF IInv, TypeOK, SystemOK, CaptureOK, CallOK, Fields, PCs, Errors, Grace, Procs, StageInv,
     ReapInv, SweepInv, Launching, At, Reap
<1>2. CASE Request(c, "wait_failed", "decide")
  <2> HIDE DEF c
  <2> QED
    BY <1>1, <1>2, RequestKeeps DEF Reap, At, Errors
<1>3. CASE ~Request(c, "wait_failed", "decide")
  <2>1. SystemOK'
    BY <1>3, BoundedChildAssumption DEF IInv, TypeOK, SystemOK, CaptureOK, CallOK, Fields, PCs,
       Errors, Grace, Procs, StageInv, StopInv, At, Reap, Goto, system, capture, Wait
  <2>2. CaptureOK'
    BY <1>3, BoundedChildAssumption DEF IInv, TypeOK, CaptureOK, Reap, Goto, system, capture,
       Wait
  <2>3. CallOK(call')
    BY <1>3, BoundedChildAssumption DEF IInv, TypeOK, CallOK, Fields, PCs, Errors, Reap, Goto,
       system, capture, Wait
  <2>4. StageInv'
    BY <1>3, BoundedChildAssumption DEF IInv, TypeOK, CallOK, Fields, PCs, Errors, StageInv,
       Launching, Failing, At, Reap, Goto, system, capture, Wait
  <2>5. ReapInv'
    BY <1>3, BoundedChildAssumption DEF IInv, TypeOK, CallOK, Fields, PCs, Errors, SystemOK,
       Procs, StageInv, ReapInv, Launching, At, Reap, Goto, system, capture, Wait
  <2>6. SweepInv'
    BY <1>3, BoundedChildAssumption DEF IInv, TypeOK, CallOK, Fields, PCs, Errors, SweepInv, At,
       Reap, Goto, system, capture, Wait
  <2>7. StreamInv'
    <3>1. /\ UNCHANGED <<holds, pipe, wrote, got, eof, overflow>> /\ (\A s \in Streams : fd'[s] => fd[s])
           /\ call'.pc # "entry" /\ (call.error # "none" => call'.error # "none")
      BY <1>3, BoundedChildAssumption DEF IInv, TypeOK, CallOK, Fields, PCs, Errors, CaptureOK,
         Reap, Goto, system, capture, Wait
    <3> QED
      BY <3>1, StreamsKept DEF IInv
  <2>8. StopInv'
    BY <1>3, BoundedChildAssumption DEF IInv, TypeOK, CallOK, Fields, PCs, Errors, SystemOK,
       StopInv, StageInv, Launching, Failing, At, Reap, Goto, system, capture, Wait
  <2>9. ResultInv'
    BY <1>3, BoundedChildAssumption DEF IInv, TypeOK, CallOK, Fields, PCs, Errors, SystemOK,
       Procs, StageInv, ReapInv, SweepInv, ResultInv, Launching, At, Reap, Goto, system,
       capture, Wait
  <2> QED
    BY <2>1, <2>2, <2>3, <2>4, <2>5, <2>6, <2>7, <2>8, <2>9 DEF IInv, TypeOK
<1> QED
  BY <1>2, <1>3

LEMMA DecideKeeps == ASSUME IInv, Decide PROVE IInv'
<1> DEFINE c == call
<1>1. /\ CallOK(c) /\ c.started /\ ~c.complete /\ ~c.reaped
      /\ (c.sent => c.verify \/ c.cleanupError) /\ (c.cleanupError => c.error # "none")
  BY DEF IInv, TypeOK, SystemOK, CaptureOK, CallOK, Fields, PCs, Errors, Grace, Procs, StageInv,
     ReapInv, SweepInv, Launching, At, Decide
<1>2. ASSUME NEW e \in Errors \ {"none"}, Request(call, e, "drain") PROVE IInv'
  BY <1>1, <1>2, RequestKeeps DEF Decide, At
<1>3. CASE \/ Request(call, FaultError, "drain") \/ Request(call, "cancelled", "drain")
          \/ Request(call, "timeout", "drain") \/ Request(call, "descendant_writer_leak", "drain")
  BY <1>2, <1>3 DEF FaultError, Errors
<1>4. CASE /\ clock' = [clock EXCEPT !.writer = "running"]
          /\ call' = [call EXCEPT !.pc = "drain"]
          /\ UNCHANGED <<proc, own, holds, code, pipe, wrote, diag, first, foreign, capture>>
  <2>1. SystemOK'
    BY <1>4, BoundedChildAssumption DEF IInv, TypeOK, SystemOK, CaptureOK, CallOK, Fields, PCs,
       Errors, Grace, Procs, StageInv, StopInv, At, Decide, Goto, system, capture, Wait
  <2>2. CaptureOK'
    BY <1>4, BoundedChildAssumption DEF IInv, TypeOK, CaptureOK, Decide, Goto, system, capture,
       Wait
  <2>3. CallOK(call')
    BY <1>4, BoundedChildAssumption DEF IInv, TypeOK, CallOK, Fields, PCs, Errors, Decide, Goto,
       system, capture, Wait
  <2>4. StageInv'
    BY <1>4, BoundedChildAssumption DEF IInv, TypeOK, CallOK, Fields, PCs, Errors, StageInv,
       Launching, Failing, At, Decide, Goto, system, capture, Wait
  <2>5. ReapInv'
    BY <1>4, BoundedChildAssumption DEF IInv, TypeOK, CallOK, Fields, PCs, Errors, SystemOK,
       Procs, StageInv, ReapInv, Launching, At, Decide, Goto, system, capture, Wait
  <2>6. SweepInv'
    BY <1>4, BoundedChildAssumption DEF IInv, TypeOK, CallOK, Fields, PCs, Errors, SweepInv, At,
       Decide, Goto, system, capture, Wait
  <2>7. StreamInv'
    BY <1>4, BoundedChildAssumption DEF IInv, TypeOK, CallOK, Fields, PCs, Errors, CaptureOK,
       SystemOK, StageInv, StreamInv, At, Decide, Goto, system, capture, Wait
  <2>8. StopInv'
    BY <1>4, BoundedChildAssumption DEF IInv, TypeOK, CallOK, Fields, PCs, Errors, SystemOK,
       StopInv, StageInv, Launching, Failing, At, Decide, Goto, system, capture, Wait
  <2>9. ResultInv'
    BY <1>4, BoundedChildAssumption DEF IInv, TypeOK, CallOK, Fields, PCs, Errors, SystemOK,
       Procs, StageInv, ReapInv, SweepInv, ResultInv, Launching, At, Decide, Goto, system,
       capture, Wait
  <2> QED
    BY <2>1, <2>2, <2>3, <2>4, <2>5, <2>6, <2>7, <2>8, <2>9 DEF IInv, TypeOK
<1>5. CASE Goto("drain")
  <2>1. SystemOK'
    BY <1>5, BoundedChildAssumption DEF IInv, TypeOK, SystemOK, CaptureOK, CallOK, Fields, PCs,
       Errors, Grace, Procs, StageInv, StopInv, At, Decide, Goto, system, capture, Wait
  <2>2. CaptureOK'
    BY <1>5, BoundedChildAssumption DEF IInv, TypeOK, CaptureOK, Decide, Goto, system, capture,
       Wait
  <2>3. CallOK(call')
    BY <1>5, BoundedChildAssumption DEF IInv, TypeOK, CallOK, Fields, PCs, Errors, Decide, Goto,
       system, capture, Wait
  <2>4. StageInv'
    BY <1>5, BoundedChildAssumption DEF IInv, TypeOK, CallOK, Fields, PCs, Errors, StageInv,
       Launching, Failing, At, Decide, Goto, system, capture, Wait
  <2>5. ReapInv'
    BY <1>5, BoundedChildAssumption DEF IInv, TypeOK, CallOK, Fields, PCs, Errors, SystemOK,
       Procs, StageInv, ReapInv, Launching, At, Decide, Goto, system, capture, Wait
  <2>6. SweepInv'
    BY <1>5, BoundedChildAssumption DEF IInv, TypeOK, CallOK, Fields, PCs, Errors, SweepInv, At,
       Decide, Goto, system, capture, Wait
  <2>7. StreamInv'
    BY <1>5, BoundedChildAssumption DEF IInv, TypeOK, CallOK, Fields, PCs, Errors, CaptureOK,
       SystemOK, StageInv, StreamInv, At, Decide, Goto, system, capture, Wait
  <2>8. StopInv'
    BY <1>5, BoundedChildAssumption DEF IInv, TypeOK, CallOK, Fields, PCs, Errors, SystemOK,
       StopInv, StageInv, Launching, Failing, At, Decide, Goto, system, capture, Wait
  <2>9. ResultInv'
    BY <1>5, BoundedChildAssumption DEF IInv, TypeOK, CallOK, Fields, PCs, Errors, SystemOK,
       Procs, StageInv, ReapInv, SweepInv, ResultInv, Launching, At, Decide, Goto, system,
       capture, Wait
  <2> QED
    BY <2>1, <2>2, <2>3, <2>4, <2>5, <2>6, <2>7, <2>8, <2>9 DEF IInv, TypeOK
<1> QED
  BY <1>3, <1>4, <1>5 DEF Decide

LEMMA GiveUpKeeps == ASSUME IInv, GiveUp PROVE IInv'
<1>1. SystemOK'
  BY BoundedChildAssumption DEF IInv, TypeOK, SystemOK, CaptureOK, CallOK, Fields, PCs, Errors,
     Grace, Procs, StageInv, StopInv, At, GiveUp, system, Goto, CleanupFailed, capture, Primary
<1>2. CaptureOK'
  BY BoundedChildAssumption DEF IInv, TypeOK, CaptureOK, GiveUp, system, At, Goto,
     CleanupFailed, capture, Primary
<1>3. CallOK(call')
  BY BoundedChildAssumption DEF IInv, TypeOK, CallOK, Fields, PCs, Errors, GiveUp, system, At,
     Goto, CleanupFailed, capture, Primary
<1>4. StageInv'
  BY BoundedChildAssumption DEF IInv, TypeOK, CallOK, Fields, PCs, Errors, StageInv, Launching,
     Failing, At, GiveUp, system, Goto, CleanupFailed, capture, Primary
<1>5. ReapInv'
  BY BoundedChildAssumption DEF IInv, TypeOK, CallOK, Fields, PCs, Errors, SystemOK, Procs,
     StageInv, ReapInv, Launching, At, GiveUp, system, Goto, CleanupFailed, capture, Primary
<1>6. SweepInv'
  BY BoundedChildAssumption DEF IInv, TypeOK, CallOK, Fields, PCs, Errors, SweepInv, At, GiveUp,
     system, Goto, CleanupFailed, capture, Primary
<1>7. StreamInv'
  <2>1. /\ UNCHANGED <<holds, pipe, wrote, got, eof, overflow>> /\ (\A s \in Streams : fd'[s] => fd[s])
         /\ call'.pc # "entry" /\ (call.error # "none" => call'.error # "none")
    BY BoundedChildAssumption DEF IInv, TypeOK, CallOK, Fields, PCs, Errors, CaptureOK, GiveUp,
       system, At, Goto, CleanupFailed, capture, Primary
  <2> QED
    BY <2>1, StreamsKept DEF IInv
<1>8. StopInv'
  BY BoundedChildAssumption DEF IInv, TypeOK, CallOK, Fields, PCs, Errors, SystemOK, StopInv,
     StageInv, Launching, Failing, At, GiveUp, system, Goto, CleanupFailed, capture, Primary
<1>9. ResultInv'
  BY BoundedChildAssumption DEF IInv, TypeOK, CallOK, Fields, PCs, Errors, SystemOK, Procs,
     StageInv, ReapInv, SweepInv, ResultInv, Launching, At, GiveUp, system, Goto, CleanupFailed,
     capture, Primary
<1> QED
  BY <1>1, <1>2, <1>3, <1>4, <1>5, <1>6, <1>7, <1>8, <1>9 DEF IInv, TypeOK

LEMMA FinalKeeps == ASSUME IInv, Final PROVE IInv'
<1>1. CASE call.reaped /\ call' = Recorded(call)
  <2>1. SystemOK'
    BY <1>1, BoundedChildAssumption DEF IInv, TypeOK, SystemOK, CaptureOK, CallOK, Fields, PCs,
       Errors, Grace, Procs, StageInv, StopInv, At, Final, system, capture, CleanupFailed, Wait,
       Recorded, Primary
  <2>2. CaptureOK'
    BY <1>1, BoundedChildAssumption DEF IInv, TypeOK, CaptureOK, Final, system, capture, At,
       CleanupFailed, Wait, Recorded, Primary
  <2>3. CallOK(call')
    BY <1>1, BoundedChildAssumption DEF IInv, TypeOK, CallOK, Fields, PCs, Errors, Final,
       system, capture, At, CleanupFailed, Wait, Recorded, Primary
  <2>4. StageInv'
    BY <1>1, BoundedChildAssumption DEF IInv, TypeOK, CallOK, Fields, PCs, Errors, StageInv,
       Launching, Failing, At, Final, system, capture, CleanupFailed, Wait, Recorded, Primary
  <2>5. ReapInv'
    BY <1>1, BoundedChildAssumption DEF IInv, TypeOK, CallOK, Fields, PCs, Errors, SystemOK,
       Procs, StageInv, ReapInv, Launching, At, Final, system, capture, CleanupFailed, Wait,
       Recorded, Primary
  <2>6. SweepInv'
    BY <1>1, BoundedChildAssumption DEF IInv, TypeOK, CallOK, Fields, PCs, Errors, SweepInv, At,
       Final, system, capture, CleanupFailed, Wait, Recorded, Primary
  <2>7. StreamInv'
    <3>1. /\ UNCHANGED <<holds, pipe, wrote, got, eof, overflow>> /\ (\A s \in Streams : fd'[s] => fd[s])
           /\ call'.pc # "entry" /\ (call.error # "none" => call'.error # "none")
      BY <1>1, BoundedChildAssumption DEF IInv, TypeOK, CallOK, Fields, PCs, Errors, CaptureOK,
         Final, system, capture, At, CleanupFailed, Wait, Recorded, Primary
    <3> QED
      BY <3>1, StreamsKept DEF IInv
  <2>8. StopInv'
    BY <1>1, BoundedChildAssumption DEF IInv, TypeOK, CallOK, Fields, PCs, Errors, SystemOK,
       StopInv, StageInv, Launching, Failing, At, Final, system, capture, CleanupFailed, Wait,
       Recorded, Primary
  <2>9. ResultInv'
    BY <1>1, BoundedChildAssumption DEF IInv, TypeOK, CallOK, Fields, PCs, Errors, SystemOK,
       Procs, StageInv, ReapInv, SweepInv, ResultInv, Launching, At, Final, system, capture,
       CleanupFailed, Wait, Recorded, Primary
  <2> QED
    BY <2>1, <2>2, <2>3, <2>4, <2>5, <2>6, <2>7, <2>8, <2>9 DEF IInv, TypeOK
<1>2. CASE ~call.reaped /\ call' = Recorded([call EXCEPT !.reaped = TRUE])
  <2>1. SystemOK'
    BY <1>2, BoundedChildAssumption DEF IInv, TypeOK, SystemOK, CaptureOK, CallOK, Fields, PCs,
       Errors, Grace, Procs, StageInv, StopInv, At, Final, system, capture, CleanupFailed, Wait,
       Recorded, Primary
  <2>2. CaptureOK'
    BY <1>2, BoundedChildAssumption DEF IInv, TypeOK, CaptureOK, Final, system, capture, At,
       CleanupFailed, Wait, Recorded, Primary
  <2>3. CallOK(call')
    BY <1>2, BoundedChildAssumption DEF IInv, TypeOK, CallOK, Fields, PCs, Errors, Final,
       system, capture, At, CleanupFailed, Wait, Recorded, Primary
  <2>4. StageInv'
    BY <1>2, BoundedChildAssumption DEF IInv, TypeOK, CallOK, Fields, PCs, Errors, StageInv,
       Launching, Failing, At, Final, system, capture, CleanupFailed, Wait, Recorded, Primary
  <2>5. ReapInv'
    BY <1>2, BoundedChildAssumption DEF IInv, TypeOK, CallOK, Fields, PCs, Errors, SystemOK,
       Procs, StageInv, ReapInv, Launching, At, Final, system, capture, CleanupFailed, Wait,
       Recorded, Primary
  <2>6. SweepInv'
    BY <1>2, BoundedChildAssumption DEF IInv, TypeOK, CallOK, Fields, PCs, Errors, SweepInv, At,
       Final, system, capture, CleanupFailed, Wait, Recorded, Primary
  <2>7. StreamInv'
    <3>1. /\ UNCHANGED <<holds, pipe, wrote, got, eof, overflow>> /\ (\A s \in Streams : fd'[s] => fd[s])
           /\ call'.pc # "entry" /\ (call.error # "none" => call'.error # "none")
      BY <1>2, BoundedChildAssumption DEF IInv, TypeOK, CallOK, Fields, PCs, Errors, CaptureOK,
         Final, system, capture, At, CleanupFailed, Wait, Recorded, Primary
    <3> QED
      BY <3>1, StreamsKept DEF IInv
  <2>8. StopInv'
    BY <1>2, BoundedChildAssumption DEF IInv, TypeOK, CallOK, Fields, PCs, Errors, SystemOK,
       StopInv, StageInv, Launching, Failing, At, Final, system, capture, CleanupFailed, Wait,
       Recorded, Primary
  <2>9. ResultInv'
    BY <1>2, BoundedChildAssumption DEF IInv, TypeOK, CallOK, Fields, PCs, Errors, SystemOK,
       Procs, StageInv, ReapInv, SweepInv, ResultInv, Launching, At, Final, system, capture,
       CleanupFailed, Wait, Recorded, Primary
  <2> QED
    BY <2>1, <2>2, <2>3, <2>4, <2>5, <2>6, <2>7, <2>8, <2>9 DEF IInv, TypeOK
<1>3. CASE ~call.reaped /\ call' = [CleanupFailed(call) EXCEPT !.pc = "verify"]
  <2>1. SystemOK'
    BY <1>3, BoundedChildAssumption DEF IInv, TypeOK, SystemOK, CaptureOK, CallOK, Fields, PCs,
       Errors, Grace, Procs, StageInv, StopInv, At, Final, system, capture, CleanupFailed, Wait,
       Recorded, Primary
  <2>2. CaptureOK'
    BY <1>3, BoundedChildAssumption DEF IInv, TypeOK, CaptureOK, Final, system, capture, At,
       CleanupFailed, Wait, Recorded, Primary
  <2>3. CallOK(call')
    BY <1>3, BoundedChildAssumption DEF IInv, TypeOK, CallOK, Fields, PCs, Errors, Final,
       system, capture, At, CleanupFailed, Wait, Recorded, Primary
  <2>4. StageInv'
    BY <1>3, BoundedChildAssumption DEF IInv, TypeOK, CallOK, Fields, PCs, Errors, StageInv,
       Launching, Failing, At, Final, system, capture, CleanupFailed, Wait, Recorded, Primary
  <2>5. ReapInv'
    BY <1>3, BoundedChildAssumption DEF IInv, TypeOK, CallOK, Fields, PCs, Errors, SystemOK,
       Procs, StageInv, ReapInv, Launching, At, Final, system, capture, CleanupFailed, Wait,
       Recorded, Primary
  <2>6. SweepInv'
    BY <1>3, BoundedChildAssumption DEF IInv, TypeOK, CallOK, Fields, PCs, Errors, SweepInv, At,
       Final, system, capture, CleanupFailed, Wait, Recorded, Primary
  <2>7. StreamInv'
    <3>1. /\ UNCHANGED <<holds, pipe, wrote, got, eof, overflow>> /\ (\A s \in Streams : fd'[s] => fd[s])
           /\ call'.pc # "entry" /\ (call.error # "none" => call'.error # "none")
      BY <1>3, BoundedChildAssumption DEF IInv, TypeOK, CallOK, Fields, PCs, Errors, CaptureOK,
         Final, system, capture, At, CleanupFailed, Wait, Recorded, Primary
    <3> QED
      BY <3>1, StreamsKept DEF IInv
  <2>8. StopInv'
    BY <1>3, BoundedChildAssumption DEF IInv, TypeOK, CallOK, Fields, PCs, Errors, SystemOK,
       StopInv, StageInv, Launching, Failing, At, Final, system, capture, CleanupFailed, Wait,
       Recorded, Primary
  <2>9. ResultInv'
    BY <1>3, BoundedChildAssumption DEF IInv, TypeOK, CallOK, Fields, PCs, Errors, SystemOK,
       Procs, StageInv, ReapInv, SweepInv, ResultInv, Launching, At, Final, system, capture,
       CleanupFailed, Wait, Recorded, Primary
  <2> QED
    BY <2>1, <2>2, <2>3, <2>4, <2>5, <2>6, <2>7, <2>8, <2>9 DEF IInv, TypeOK
<1> QED
  BY <1>1, <1>2, <1>3 DEF Final

LEMMA VerifyKeeps == ASSUME IInv, Verify PROVE IInv'
<1>1. CASE call' = [Done(call) EXCEPT !.verify = FALSE, !.complete = TRUE]
  <2>1. SystemOK'
    BY <1>1, BoundedChildAssumption DEF IInv, TypeOK, SystemOK, CaptureOK, CallOK, Fields, PCs,
       Errors, Grace, Procs, StageInv, StopInv, At, Verify, system, capture, Primary,
       CleanupFailed, Done
  <2>2. CaptureOK'
    BY <1>1, BoundedChildAssumption DEF IInv, TypeOK, CaptureOK, Verify, system, capture, At,
       Primary, CleanupFailed, Done
  <2>3. CallOK(call')
    BY <1>1, BoundedChildAssumption DEF IInv, TypeOK, CallOK, Fields, PCs, Errors, Verify,
       system, capture, At, Primary, CleanupFailed, Done
  <2>4. StageInv'
    BY <1>1, BoundedChildAssumption DEF IInv, TypeOK, CallOK, Fields, PCs, Errors, StageInv,
       Launching, Failing, At, Verify, system, capture, Primary, CleanupFailed, Done
  <2>5. ReapInv'
    BY <1>1, BoundedChildAssumption DEF IInv, TypeOK, CallOK, Fields, PCs, Errors, SystemOK,
       Procs, StageInv, ReapInv, Launching, At, Verify, system, capture, Primary, CleanupFailed,
       Done
  <2>6. SweepInv'
    BY <1>1, BoundedChildAssumption DEF IInv, TypeOK, CallOK, Fields, PCs, Errors, SweepInv, At,
       Verify, system, capture, Primary, CleanupFailed, Done
  <2>7. StreamInv'
    <3>1. /\ UNCHANGED <<holds, pipe, wrote, got, eof, overflow>> /\ (\A s \in Streams : fd'[s] => fd[s])
           /\ call'.pc # "entry" /\ (call.error # "none" => call'.error # "none")
      BY <1>1, BoundedChildAssumption DEF IInv, TypeOK, CallOK, Fields, PCs, Errors, CaptureOK,
         Verify, system, capture, At, Primary, CleanupFailed, Done
    <3> QED
      BY <3>1, StreamsKept DEF IInv
  <2>8. StopInv'
    BY <1>1, BoundedChildAssumption DEF IInv, TypeOK, CallOK, Fields, PCs, Errors, SystemOK,
       StopInv, StageInv, Launching, Failing, At, Verify, system, capture, Primary,
       CleanupFailed, Done
  <2>9. ResultInv'
    BY <1>1, BoundedChildAssumption DEF IInv, TypeOK, CallOK, Fields, PCs, Errors, SystemOK,
       Procs, StageInv, ReapInv, SweepInv, ResultInv, Launching, At, Verify, system, capture,
       Primary, CleanupFailed, Done
  <2> QED
    BY <2>1, <2>2, <2>3, <2>4, <2>5, <2>6, <2>7, <2>8, <2>9 DEF IInv, TypeOK
<1>2. CASE call' = Done(CleanupFailed(call))
  <2>1. SystemOK'
    BY <1>2, BoundedChildAssumption DEF IInv, TypeOK, SystemOK, CaptureOK, CallOK, Fields, PCs,
       Errors, Grace, Procs, StageInv, StopInv, At, Verify, system, capture, Primary,
       CleanupFailed, Done
  <2>2. CaptureOK'
    BY <1>2, BoundedChildAssumption DEF IInv, TypeOK, CaptureOK, Verify, system, capture, At,
       Primary, CleanupFailed, Done
  <2>3. CallOK(call')
    BY <1>2, BoundedChildAssumption DEF IInv, TypeOK, CallOK, Fields, PCs, Errors, Verify,
       system, capture, At, Primary, CleanupFailed, Done
  <2>4. StageInv'
    BY <1>2, BoundedChildAssumption DEF IInv, TypeOK, CallOK, Fields, PCs, Errors, StageInv,
       Launching, Failing, At, Verify, system, capture, Primary, CleanupFailed, Done
  <2>5. ReapInv'
    BY <1>2, BoundedChildAssumption DEF IInv, TypeOK, CallOK, Fields, PCs, Errors, SystemOK,
       Procs, StageInv, ReapInv, Launching, At, Verify, system, capture, Primary, CleanupFailed,
       Done
  <2>6. SweepInv'
    BY <1>2, BoundedChildAssumption DEF IInv, TypeOK, CallOK, Fields, PCs, Errors, SweepInv, At,
       Verify, system, capture, Primary, CleanupFailed, Done
  <2>7. StreamInv'
    <3>1. /\ UNCHANGED <<holds, pipe, wrote, got, eof, overflow>> /\ (\A s \in Streams : fd'[s] => fd[s])
           /\ call'.pc # "entry" /\ (call.error # "none" => call'.error # "none")
      BY <1>2, BoundedChildAssumption DEF IInv, TypeOK, CallOK, Fields, PCs, Errors, CaptureOK,
         Verify, system, capture, At, Primary, CleanupFailed, Done
    <3> QED
      BY <3>1, StreamsKept DEF IInv
  <2>8. StopInv'
    BY <1>2, BoundedChildAssumption DEF IInv, TypeOK, CallOK, Fields, PCs, Errors, SystemOK,
       StopInv, StageInv, Launching, Failing, At, Verify, system, capture, Primary,
       CleanupFailed, Done
  <2>9. ResultInv'
    BY <1>2, BoundedChildAssumption DEF IInv, TypeOK, CallOK, Fields, PCs, Errors, SystemOK,
       Procs, StageInv, ReapInv, SweepInv, ResultInv, Launching, At, Verify, system, capture,
       Primary, CleanupFailed, Done
  <2> QED
    BY <2>1, <2>2, <2>3, <2>4, <2>5, <2>6, <2>7, <2>8, <2>9 DEF IInv, TypeOK
<1>3. CASE call' = Done(Primary(call, "cleanup_failed"))
  <2>1. SystemOK'
    BY <1>3, BoundedChildAssumption DEF IInv, TypeOK, SystemOK, CaptureOK, CallOK, Fields, PCs,
       Errors, Grace, Procs, StageInv, StopInv, At, Verify, system, capture, Primary,
       CleanupFailed, Done
  <2>2. CaptureOK'
    BY <1>3, BoundedChildAssumption DEF IInv, TypeOK, CaptureOK, Verify, system, capture, At,
       Primary, CleanupFailed, Done
  <2>3. CallOK(call')
    BY <1>3, BoundedChildAssumption DEF IInv, TypeOK, CallOK, Fields, PCs, Errors, Verify,
       system, capture, At, Primary, CleanupFailed, Done
  <2>4. StageInv'
    BY <1>3, BoundedChildAssumption DEF IInv, TypeOK, CallOK, Fields, PCs, Errors, StageInv,
       Launching, Failing, At, Verify, system, capture, Primary, CleanupFailed, Done
  <2>5. ReapInv'
    BY <1>3, BoundedChildAssumption DEF IInv, TypeOK, CallOK, Fields, PCs, Errors, SystemOK,
       Procs, StageInv, ReapInv, Launching, At, Verify, system, capture, Primary, CleanupFailed,
       Done
  <2>6. SweepInv'
    BY <1>3, BoundedChildAssumption DEF IInv, TypeOK, CallOK, Fields, PCs, Errors, SweepInv, At,
       Verify, system, capture, Primary, CleanupFailed, Done
  <2>7. StreamInv'
    <3>1. /\ UNCHANGED <<holds, pipe, wrote, got, eof, overflow>> /\ (\A s \in Streams : fd'[s] => fd[s])
           /\ call'.pc # "entry" /\ (call.error # "none" => call'.error # "none")
      BY <1>3, BoundedChildAssumption DEF IInv, TypeOK, CallOK, Fields, PCs, Errors, CaptureOK,
         Verify, system, capture, At, Primary, CleanupFailed, Done
    <3> QED
      BY <3>1, StreamsKept DEF IInv
  <2>8. StopInv'
    BY <1>3, BoundedChildAssumption DEF IInv, TypeOK, CallOK, Fields, PCs, Errors, SystemOK,
       StopInv, StageInv, Launching, Failing, At, Verify, system, capture, Primary,
       CleanupFailed, Done
  <2>9. ResultInv'
    BY <1>3, BoundedChildAssumption DEF IInv, TypeOK, CallOK, Fields, PCs, Errors, SystemOK,
       Procs, StageInv, ReapInv, SweepInv, ResultInv, Launching, At, Verify, system, capture,
       Primary, CleanupFailed, Done
  <2> QED
    BY <2>1, <2>2, <2>3, <2>4, <2>5, <2>6, <2>7, <2>8, <2>9 DEF IInv, TypeOK
<1> QED
  BY <1>1, <1>2, <1>3 DEF Verify

LEMMA StepKeeps == IInv /\ [Next]_vars => IInv'
<1> SUFFICES ASSUME IInv, [Next]_vars PROVE IInv'
  OBVIOUS
<1>1. CASE UNCHANGED vars
  BY <1>1 DEF vars, system, capture, IInv, TypeOK, SystemOK, CaptureOK, CallOK, Fields, PCs,
     Errors, Grace, Procs, StageInv, ReapInv, SweepInv, StopInv, Launching, Failing, At,
     StreamInv, ResultInv
<1>2. CASE Caller
  BY <1>2, RefuseKeeps, LaunchFailsKeeps, ForkChildKeeps, PosixSpawnKeeps, PollKeeps,
     AskCancelKeeps, AskDeadlineKeeps, RecheckCancelKeeps, RecheckDeadlineKeeps,
     KillLaunchedKeeps, ReapLaunchedKeeps, LaunchedAbsentKeeps, ValidateKeeps, DrainKeeps,
     ReadFailsKeeps, ObserveKeeps, SettleKeeps, ReapKeeps, DecideKeeps, GiveUpKeeps, FinalKeeps,
     VerifyKeeps DEF Caller
<1>3. CASE World
  BY <1>3, ExecKeeps, ExecFailsKeeps, StealKeeps, LeaveKeeps, ExitKeeps, DieKeeps, WriteKeeps,
     CloseStreamKeeps, ForkKeeps, CancelKeeps, DeadlinePassesKeeps, GraceEndsKeeps DEF World,
     Processes, Time
<1> QED
  BY <1>1, <1>2, <1>3 DEF Next

LEMMA Invariance == Spec => []IInv
<1>1. Init => IInv
  BY InitInv
<1>2. IInv /\ [Next]_vars => IInv'
  BY StepKeeps
<1> QED
  BY <1>1, <1>2, PTL DEF Spec

-----------------------------------------------------------------------------
\* A call that reports a complete cleanup has reaped the program, its group is
\* gone, and nobody holds a captured stream.
THEOREM NothingIsLeft == Spec => []NothingLeftBehind
<1>1. IInv => NothingLeftBehind
  BY DEF IInv, StreamInv, ResultInv, NothingLeftBehind, TypeOK, SystemOK, CaptureOK, At
<1> QED
  BY <1>1, Invariance, PTL

\* A success is the whole output of a program that ended by itself with zero.
THEOREM SuccessIsTrue == Spec => []SuccessIsWhole
<1>1. IInv => SuccessIsWhole
  BY DEF IInv, TypeOK, SystemOK, CaptureOK, CallOK, Fields, PCs, Errors, Grace, Procs, StageInv,
     ReapInv, SweepInv, StopInv, Launching, Failing, At, StreamInv, ResultInv, SuccessIsWhole
<1> QED
  BY <1>1, Invariance, PTL

\* A launch whose outcome came first is not reported as cancelled or timed out.
THEOREM OutcomeWins == Spec => []PublishedOutcomeWins
<1>1. IInv => PublishedOutcomeWins
  BY DEF IInv, StopInv, PublishedOutcomeWins, At
<1> QED
  BY <1>1, Invariance, PTL

-----------------------------------------------------------------------------
\* A step that signals is one of the call before it has reaped.
LEMMA SignalsBeforeWait ==
    ASSUME IInv, [Next]_vars, Signals
    PROVE  proc[Child] # "reaped" /\ ~call.reaped
<1>1. CASE UNCHANGED vars
  BY <1>1 DEF vars, system, Signals
<1>2. CASE World
  BY <1>2 DEF IInv, TypeOK, SystemOK, Procs, World, Processes, Time, Cancel, CloseStream,
     DeadlinePasses, Die, End, Exec, ExecFails, Exit, Fork, GraceEnds, Leave, Live, Ring, Steal,
     Stop, Write, capture, Signals
<1>3. CASE Caller
  BY <1>3 DEF IInv, ReapInv, Caller, AskCancel, AskDeadline, At, CleanupFailed, CodeAfter,
     Consume, Decide, Done, Drain, Fault, FaultError, Final, Fits, ForkChild, GiveUp, Goto,
     Kill, KillLaunched, LaunchFails, LaunchedAbsent, Leak, Observe, Outcome, Poll, PosixSpawn,
     Present, Prevented, PreventedError, Primary, Procs, ReadFails, Reap, ReapLaunched, Recheck,
     RecheckCancel, RecheckDeadline, Recorded, Refuse, Request, Scope, Settle, SignalOnce,
     Signalled, Targets, Validate, Verify, Wait, capture, system, Signals
<1> QED
  BY <1>1, <1>2, <1>3 DEF Next

\* The call sends no signal once it has reaped the program.
THEOREM SignalsPrecedeReap == Spec => NoSignalAfterReap
<1>1. IInv /\ [Next]_vars => [Signals => proc[Child] # "reaped" /\ ~call.reaped]_vars
  BY SignalsBeforeWait
<1> QED
  BY <1>1, Invariance, PTL DEF Spec, NoSignalAfterReap
===============================================================================
