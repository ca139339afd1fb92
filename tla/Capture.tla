------------------------------- MODULE Capture -------------------------------
(***************************************************************************)
(* Per-trial output capture (src/capture.rs, Unix) and the runner around   *)
(* it (run_with_observability in src/runner.rs).  Capture forces one test  *)
(* thread, so trials run one after the other; what interleaves is the      *)
(* trial's body, a child process it may leave behind, and the thread that  *)
(* drains the pipe.                                                        *)
(*                                                                         *)
(* Descriptors 1 and 2 point at the terminal (0) or at the write end of    *)
(* trial n's pipe (n).  Rust's stdout is line buffered in the process:     *)
(* what a print! leaves in `obuf` is written by the next flush, to         *)
(* whatever descriptor 1 is by then; stderr is not buffered.               *)
(***************************************************************************)
EXTENDS Integers, Sequences

CONSTANTS
    NTrials,        \* trials run, one after the other
    MaxWrites,      \* bound: writes of each trial to each stream, and by its child
    PipeSize,       \* chunks a pipe holds
    Faults          \* the system calls that may fail

ASSUME CaptureAssumption ==
    /\ NTrials \in Nat \ {0} /\ PipeSize \in Nat \ {0}
    /\ MaxWrites \in [1 .. NTrials -> [{"out", "err", "child"} -> Nat]]
    /\ Faults \subseteq {"dup", "pipe", "dup2out", "dup2err", "rollback",
                         "spawnDrain", "spawnTrial", "read", "restore"}

VARIABLES
    pc,         \* where the runner is in the current trial
    trial,      \* the current trial; 0 before the first
    fd,         \* fd[1], fd[2]: 0 the terminal, n the pipe of trial n
    saved,      \* sys::Saved holds open duplicates of the terminal
    writer,     \* the PipeWriter of the current trial is still open
    obuf,       \* the process's stdout buffer
    pipe,       \* pipe[n]: chunks written and not read yet
    reader,     \* reader[n]: the drain thread of trial n
    got,        \* got[n]: what the drain thread has read
    child,      \* child[n]: the trial's child process runs and holds pipe n
    wrote,      \* wrote[n][s]: how many chunks were written to stream s
    verdict,    \* verdict[n]: how the trial thread ended
    term,       \* what the terminal shows
    status      \* of the process

vars == <<pc, trial, fd, saved, writer, obuf, pipe, reader, got, child, wrote,
          verdict, term, status>>

Trials == 1 .. NTrials
Streams == {"out", "err", "child"}

\* A chunk of output: a trial's (stream and number) or a line of the runner.
Chunk(n, s, k) == [by |-> n, stream |-> s, num |-> k]
Line(n, what) == [by |-> 0, stream |-> what, num |-> n]

CaptureVars == <<fd, saved, writer>>
IOVars == <<obuf, pipe, term>>
DrainVars == <<reader, got>>
BodyVars == <<child, wrote, verdict>>

-----------------------------------------------------------------------------
(* Descriptors and pipes *)

\* A write into pipe n fails with EPIPE once its read end is closed, which is
\* when drain_pipe has failed, or when the thread was never spawned and its
\* closure, which owned the PipeReader, was dropped.
Broken(n) == n # 0 /\ reader[n] \in {"failed", "unspawned"}

\* A write of `chunks`, one write for the kernel, to descriptor d: to the
\* terminal, or into a pipe that has room.  Blocks (is not enabled) while the
\* pipe is full.
Write(d, chunks) ==
    IF fd[d] = 0 THEN term' = term \o chunks /\ UNCHANGED pipe
    ELSE /\ ~Broken(fd[d])
         /\ Len(pipe[fd[d]]) < PipeSize
         /\ pipe' = [pipe EXCEPT ![fd[d]] = @ \o chunks]
         /\ UNCHANGED term

\* Nobody holds the write end of pipe n.
WriteEndClosed(n) ==
    /\ \A d \in {1, 2} : fd[d] # n
    /\ ~child[n] /\ ~(writer /\ n = trial)

-----------------------------------------------------------------------------
Init ==
    /\ pc = "idle" /\ trial = 0 /\ status = "running"
    /\ fd = [d \in {1, 2} |-> 0] /\ saved = FALSE /\ writer = FALSE
    /\ obuf = <<>> /\ pipe = [n \in Trials |-> <<>>] /\ term = <<>>
    /\ reader = [n \in Trials |-> "none"] /\ got = [n \in Trials |-> <<>>]
    /\ child = [n \in Trials |-> FALSE]
    /\ wrote = [n \in Trials |-> [s \in Streams |-> 0]]
    /\ verdict = [n \in Trials |-> "none"]

Goto(l) == pc' = l /\ UNCHANGED <<trial, status>>
Abort == status' = "aborted" /\ pc' = "over" /\ UNCHANGED trial

(* The dispatching thread picks the next trial and prints its name on      *)
(* stdout, where it waits in the line buffer; then the "starting" line.    *)
NextTrial ==
    /\ pc = "idle" /\ trial < NTrials
    /\ trial' = trial + 1 /\ pc' = "flushBegin"
    /\ obuf' = Append(obuf, Line(trial + 1, "name"))
    /\ Write(2, <<Line(trial + 1, "starting")>>)
    /\ UNCHANGED <<CaptureVars, DrainVars, BodyVars, status>>

-----------------------------------------------------------------------------
(* FdCapture::begin *)

\* Mutant: begin without its flush
FlushBeginMissing ==
    /\ pc = "flushBegin" /\ Goto("save")
    /\ UNCHANGED <<IOVars, CaptureVars, DrainVars, BodyVars>>

\* stdout_guard.flush(), before the descriptors are swapped.
FlushBegin ==
    /\ pc = "flushBegin"
    /\ Write(1, obuf) /\ obuf' = <<>>
    /\ Goto("save")
    /\ UNCHANGED <<CaptureVars, DrainVars, BodyVars>>

\* sys::save: two dups; when the second fails the first is closed.
Save ==
    /\ pc = "save"
    /\ \/ saved' = TRUE /\ Goto("pipe")
       \/ "dup" \in Faults /\ saved' = FALSE /\ Goto("fatal")
    /\ UNCHANGED <<fd, writer, IOVars, DrainVars, BodyVars>>

\* os_pipe::pipe()?: on an error the saved descriptors stay open.
MakePipe ==
    /\ pc = "pipe"
    /\ \/ writer' = TRUE /\ Goto("dup2out")
       \/ "pipe" \in Faults /\ writer' = FALSE /\ Goto("fatal")
    /\ UNCHANGED <<fd, saved, IOVars, DrainVars, BodyVars>>

\* redirect_to_pipe returned Err: the writer is dropped, the reader too, and
\* begin closes the saved descriptors.
RedirectErr == saved' = FALSE /\ writer' = FALSE /\ Goto("fatal")

\* sys::redirect_to_pipe, step 1.
RedirectStdout ==
    /\ pc = "dup2out"
    /\ \/ fd' = [fd EXCEPT ![1] = trial] /\ Goto("dup2err")
          /\ UNCHANGED <<saved, writer>>
       \/ "dup2out" \in Faults /\ RedirectErr /\ UNCHANGED fd
    /\ UNCHANGED <<IOVars, DrainVars, BodyVars>>

\* Mutant: the writer outlives the redirection
RedirectKeepsWriter ==
    /\ pc = "dup2err"
    /\ fd' = [fd EXCEPT ![2] = trial] /\ Goto("spawnDrain")
    /\ UNCHANGED <<saved, writer, IOVars, DrainVars, BodyVars>>

\* sys::redirect_to_pipe, step 2, with the rollback of step 1.
RedirectStderr ==
    /\ pc = "dup2err"
    /\ \/ /\ fd' = [fd EXCEPT ![2] = trial] /\ writer' = FALSE
          /\ Goto("spawnDrain") /\ UNCHANGED <<saved, term>>
       \/ /\ "dup2err" \in Faults
          /\ fd' = [fd EXCEPT ![1] = 0]
          /\ RedirectErr /\ UNCHANGED term
       \/ /\ "rollback" \in Faults
          /\ term' = Append(term, Line(trial, "broken"))  \* abort_with_broken_stdio
          /\ Abort /\ UNCHANGED <<fd, saved, writer>>
    /\ UNCHANGED <<obuf, pipe, DrainVars, BodyVars>>

\* The drain thread.  On an error begin returns with `?`: nothing restores the
\* descriptors, and dropping the closure closes the read end.
SpawnDrain ==
    /\ pc = "spawnDrain"
    /\ \/ reader' = [reader EXCEPT ![trial] = "draining"] /\ Goto("spawnTrial")
       \/ /\ "spawnDrain" \in Faults
          /\ reader' = [reader EXCEPT ![trial] = "unspawned"] /\ Goto("fatal")
    /\ UNCHANGED <<CaptureVars, IOVars, got, BodyVars>>

\* The runner's Err arm: two eprintln!, then abort().  An eprintln! that cannot
\* write panics instead, and libtest-mimic turns the panic into a failed trial.
Fatal ==
    /\ pc = "fatal"
    /\ IF Broken(fd[2])
       THEN /\ verdict' = [verdict EXCEPT ![trial] = "fail"]
            /\ Goto("report") /\ UNCHANGED <<pipe, term>>
       ELSE /\ Write(2, <<Line(trial, "fatal")>>) /\ Abort
            /\ UNCHANGED verdict
    /\ UNCHANGED <<CaptureVars, obuf, DrainVars, child, wrote>>

-----------------------------------------------------------------------------
(* The trial thread: the test's body, and a child process it may spawn *)

SpawnTrial ==
    /\ pc = "spawnTrial"
    /\ \/ Goto("body") /\ UNCHANGED verdict
       \/ /\ "spawnTrial" \in Faults
          /\ verdict' = [verdict EXCEPT ![trial] = "unspawned"] /\ Goto("flushEnd")
    /\ UNCHANGED <<CaptureVars, IOVars, DrainVars, child, wrote>>

MayWrite(s) == wrote[trial][s] < MaxWrites[trial][s]
Wrote(n, s) == wrote' = [wrote EXCEPT ![n][s] = wrote[n][s] + 1]
ChunkOf(n, s) == Chunk(n, s, wrote[n][s] + 1)

\* print!: no newline, so the chunk stays in the stdout buffer.
BodyPrint ==
    /\ pc = "body" /\ MayWrite("out")
    /\ obuf' = Append(obuf, ChunkOf(trial, "out")) /\ Wrote(trial, "out")
    /\ UNCHANGED <<pc, trial, status, pipe, term, CaptureVars, DrainVars, child, verdict>>

\* println!: the buffer and the line are written.
BodyPrintln ==
    /\ pc = "body" /\ MayWrite("out")
    /\ Write(1, Append(obuf, ChunkOf(trial, "out"))) /\ obuf' = <<>>
    /\ Wrote(trial, "out")
    /\ UNCHANGED <<pc, trial, status, CaptureVars, DrainVars, child, verdict>>

BodyEprintln ==
    /\ pc = "body" /\ MayWrite("err")
    /\ Write(2, <<ChunkOf(trial, "err")>>) /\ Wrote(trial, "err")
    /\ UNCHANGED <<pc, trial, status, obuf, CaptureVars, DrainVars, child, verdict>>

BodySpawnsChild ==
    /\ pc = "body" /\ ~child[trial] /\ wrote[trial]["child"] = 0
    /\ child' = [child EXCEPT ![trial] = TRUE]
    /\ UNCHANGED <<pc, trial, status, IOVars, CaptureVars, DrainVars, wrote, verdict>>

\* A println! into a broken pipe panics, and so ends the body.  The line joins
\* what the buffer already held, which stays there.
BodyPrintFails ==
    /\ pc = "body" /\ Broken(trial) /\ MayWrite("out")
    /\ Wrote(trial, "out")
    /\ obuf' = IF obuf = <<>> THEN <<>> ELSE Append(obuf, ChunkOf(trial, "out"))
    /\ verdict' = [verdict EXCEPT ![trial] = "fail"]
    /\ Goto("flushEnd")
    /\ UNCHANGED <<pipe, term, CaptureVars, DrainVars, child>>

BodyEnds ==
    /\ pc = "body"
    /\ \E v \in {"pass", "fail"} : verdict' = [verdict EXCEPT ![trial] = v]
    /\ Goto("flushEnd")
    /\ UNCHANGED <<IOVars, CaptureVars, DrainVars, child, wrote>>

\* The child inherited descriptors 1 and 2, both the trial's pipe.
ChildWrites(n) ==
    /\ status = "running"
    /\ child[n] /\ wrote[n]["child"] < MaxWrites[n]["child"]
    /\ ~Broken(n) /\ Len(pipe[n]) < PipeSize
    /\ pipe' = [pipe EXCEPT ![n] = Append(@, ChunkOf(n, "child"))]
    /\ Wrote(n, "child")
    /\ UNCHANGED <<pc, trial, status, obuf, term, CaptureVars, DrainVars, child, verdict>>

ChildExits(n) ==
    /\ status = "running" /\ child[n]
    /\ child' = [child EXCEPT ![n] = FALSE]
    /\ UNCHANGED <<pc, trial, status, IOVars, CaptureVars, DrainVars, wrote, verdict>>

-----------------------------------------------------------------------------
(* The drain thread: drain_pipe's read_to_end *)

DrainReads(n) ==
    /\ status = "running" /\ reader[n] = "draining" /\ pipe[n] # <<>>
    /\ got' = [got EXCEPT ![n] = Append(@, Head(pipe[n]))]
    /\ pipe' = [pipe EXCEPT ![n] = Tail(@)]
    /\ UNCHANGED <<pc, trial, status, obuf, term, CaptureVars, reader, BodyVars>>

DrainEof(n) ==
    /\ status = "running" /\ reader[n] = "draining"
    /\ pipe[n] = <<>> /\ WriteEndClosed(n)
    /\ reader' = [reader EXCEPT ![n] = "done"]
    /\ UNCHANGED <<pc, trial, status, IOVars, CaptureVars, got, BodyVars>>

\* Any other error: the thread returns Err, which carries no bytes.
DrainFails(n) ==
    /\ status = "running" /\ reader[n] = "draining" /\ "read" \in Faults
    /\ reader' = [reader EXCEPT ![n] = "failed"]
    /\ UNCHANGED <<pc, trial, status, IOVars, CaptureVars, got, BodyVars>>

-----------------------------------------------------------------------------
(* FdCapture::end, and what the runner prints after it *)

\* Mutant: end without its flush: the bytes are written after the restore
FlushEndMissing ==
    /\ pc = "flushEnd" /\ Goto("restore")
    /\ UNCHANGED <<IOVars, CaptureVars, DrainVars, BodyVars>>

\* The flush that carries the body's last unfinished line into the pipe.  Its
\* error is ignored, and then the bytes stay in the buffer.
FlushEnd ==
    /\ pc = "flushEnd"
    /\ IF obuf = <<>> \/ Broken(trial) THEN UNCHANGED IOVars
       ELSE Write(1, obuf) /\ obuf' = <<>>
    /\ Goto("restore")
    /\ UNCHANGED <<CaptureVars, DrainVars, BodyVars>>

\* sys::restore tries both descriptors; an error aborts.  close_saved.
Restore ==
    /\ pc = "restore"
    /\ \/ /\ fd' = [d \in {1, 2} |-> 0] /\ saved' = FALSE
          /\ Goto("join") /\ UNCHANGED term
       \/ /\ "restore" \in Faults
          /\ \E failed \in {{1}, {2}, {1, 2}} :
                /\ fd' = [d \in {1, 2} |-> IF d \in failed THEN fd[d] ELSE 0]
                /\ term' = IF 2 \in failed THEN term
                           ELSE Append(term, Line(trial, "broken"))
          /\ saved' = saved /\ Abort
    /\ UNCHANGED <<writer, obuf, pipe, DrainVars, BodyVars>>

\* Mutant: the drain thread is detached, as Drop does, and not joined
JoinDetached ==
    /\ pc = "join" /\ Goto("verdict")
    /\ UNCHANGED <<IOVars, CaptureVars, DrainVars, BodyVars>>

\* handle.join() and captured_bytes_or_warn: a failed drain leaves no bytes.
Join ==
    /\ pc = "join" /\ reader[trial] \in {"done", "failed"}
    /\ IF reader[trial] = "failed"
       THEN /\ got' = [got EXCEPT ![trial] = <<>>]
            /\ term' = Append(term, Line(trial, "warning"))
       ELSE UNCHANGED <<got, term>>
    /\ Goto("verdict")
    /\ UNCHANGED <<obuf, pipe, CaptureVars, reader, BodyVars>>

\* dump_captured_bytes
Dump(n) == IF got[n] = <<>> THEN <<>>
           ELSE <<Line(n, "captured")>> \o got[n] \o <<Line(n, "end capture")>>

\* The verdict line, then the capture of a trial that failed; a trial thread
\* that was not spawned has its capture and the panic message only.
Verdict ==
    /\ pc = "verdict"
    /\ Write(2, CASE verdict[trial] = "pass" -> <<Line(trial, "pass")>>
                  [] verdict[trial] = "unspawned" ->
                        Dump(trial) \o <<Line(trial, "unspawned")>>
                  [] OTHER -> <<Line(trial, "fail")>> \o Dump(trial))
    /\ Goto("report")
    /\ UNCHANGED <<obuf, CaptureVars, DrainVars, BodyVars>>

\* libtest-mimic completes the trial's line on stdout.  It cannot when the
\* descriptor is a broken pipe: its printer panics and the process dies.
Report ==
    /\ pc = "report"
    /\ IF Broken(fd[1])
       THEN status' = "died" /\ pc' = "over" /\ UNCHANGED <<trial, IOVars>>
       ELSE /\ Write(1, Append(obuf, Line(trial, "result"))) /\ obuf' = <<>>
            /\ Goto("idle")
    /\ UNCHANGED <<CaptureVars, DrainVars, BodyVars>>

ExitProcess ==
    /\ pc = "idle" /\ trial = NTrials
    /\ pc' = "over" /\ status' = "exited"
    /\ UNCHANGED <<trial, IOVars, CaptureVars, DrainVars, BodyVars>>

Finished == pc = "over" /\ UNCHANGED vars

Runner ==
    \/ NextTrial \/ FlushBegin \/ Save \/ MakePipe \/ RedirectStdout
    \/ RedirectStderr \/ SpawnDrain \/ Fatal \/ SpawnTrial
    \/ FlushEnd \/ Restore \/ Join \/ Verdict \/ Report \/ ExitProcess

Body == BodyPrint \/ BodyPrintln \/ BodyEprintln \/ BodyPrintFails
        \/ BodySpawnsChild \/ BodyEnds

Drain(n) == DrainReads(n) \/ DrainEof(n) \/ DrainFails(n)

Next ==
    \/ Runner \/ Body \/ Finished
    \/ \E n \in Trials : ChildWrites(n) \/ ChildExits(n) \/ Drain(n)

\* The runner and the drain threads are threads of a live process, and no read
\* error has to come to their rescue; a body ends and a child exits by the
\* contract of capture.rs, "No long-lived child processes".
Fairness ==
    /\ WF_vars(Runner) /\ WF_vars(BodyEnds)
    /\ \A n \in Trials : WF_vars(DrainReads(n) \/ DrainEof(n)) /\ WF_vars(ChildExits(n))

Spec == Init /\ [][Next]_vars /\ Fairness

-----------------------------------------------------------------------------
(* Properties *)

\* Every variable of run_with_observability and FdCapture has a value of its
\* type, a pipe never holds more than its size and one write, and the PipeWriter
\* does not outlive redirect_to_pipe.
TypeOK ==
    /\ trial \in 0 .. NTrials /\ status \in {"running", "aborted", "died", "exited"}
    /\ fd \in [{1, 2} -> 0 .. NTrials] /\ saved \in BOOLEAN /\ writer \in BOOLEAN
    /\ reader \in [Trials -> {"none", "draining", "done", "failed", "unspawned"}]
    /\ child \in [Trials -> BOOLEAN]
    /\ \A n \in Trials, s \in Streams : wrote[n][s] \in 0 .. MaxWrites[n][s]
    /\ verdict \in [Trials -> {"none", "pass", "fail", "unspawned"}]
    /\ \A n \in Trials : Len(pipe[n]) <= PipeSize + MaxWrites[n]["out"]
    /\ status = "running" <=> pc # "over"
    /\ writer => pc \in {"dup2out", "dup2err", "over"}

\* The chunks of q are what trial n wrote to each stream s, the first sent[s]
\* of them: nothing else, none missing, and each stream in its order.
Delivers(q, n, sent) ==
    /\ \A i \in DOMAIN q : \E s \in Streams : \E k \in 1 .. sent[s] : q[i] = Chunk(n, s, k)
    /\ \A s \in Streams : \A k \in 1 .. sent[s] : \E i \in DOMAIN q : q[i] = Chunk(n, s, k)
    /\ \A i, j \in DOMAIN q : i < j /\ q[i].stream = q[j].stream => q[i].num < q[j].num

\* What FdCapture::end returns is what the trial wrote to each stream, in order
\* and to the last byte: the unfinished line the stdout buffer still held and
\* what a child wrote after the body had ended included, and nothing of the
\* runner's or of another trial's.  Only a failed drain loses output.
CaptureIsComplete ==
    pc = "verdict" /\ reader[trial] = "done" => Delivers(got[trial], trial, wrote[trial])

ReportOf(n) ==
    <<Line(n, "starting"), Line(n, "name")>>
    \o (CASE verdict[n] = "pass" -> <<Line(n, "pass")>>
          [] verdict[n] = "fail" -> <<Line(n, "fail")>> \o Dump(n)
          [] OTHER -> Dump(n) \o <<Line(n, "unspawned")>>)
    \o <<Line(n, "result")>>

\* The trial a chunk or a line is about.
TrialOf(c) == IF c.by = 0 THEN c.num ELSE c.by

\* What the terminal shows of trial n is r, in one piece.
Shows(n, r) ==
    \E a \in 0 .. Len(term) - Len(r) : \A i \in DOMAIN term :
        IF TrialOf(term[i]) = n THEN i - a \in DOMAIN r /\ term[i] = r[i - a]
        ELSE i - a \notin DOMAIN r

\* Between two trials the terminal shows, for each trial so far and in order,
\* exactly the runner's lines and, for a failed one only, its captured output:
\* no chunk of a passing test escapes and no line of the runner is swallowed by
\* a capture.  A failed drain is the exception.
TerminalShowsTheRun ==
    pc = "idle" /\ (\A n \in 1 .. trial : reader[n] = "done") =>
        /\ \A i \in DOMAIN term : TrialOf(term[i]) \in 1 .. trial
        /\ \A i, j \in DOMAIN term : i < j => TrialOf(term[i]) <= TrialOf(term[j])
        /\ \A n \in 1 .. trial : Shows(n, ReportOf(n))

\* Between two trials both descriptors are the terminal again and nothing of
\* the capture is left: no saved duplicate, no pipe end, no drain thread, no
\* child that could still write into it, whichever calls have failed; and no
\* PipeWriter ever outlives redirect_to_pipe (TypeOK).
NothingLeftOpen ==
    TypeOK /\ (pc = "idle" =>
        /\ fd = [d \in {1, 2} |-> 0] /\ ~saved /\ ~writer
        /\ \A n \in 1 .. trial :
              \/ reader[n] = "done" /\ ~child[n] /\ pipe[n] = <<>>
              \/ reader[n] = "failed")

\* Whatever fails, the run comes to an end: end's join cannot wait for a drain
\* thread that waits for the runner, however small the pipe.
RunEnds == <>(pc = "over")

\* runner.rs: when capture setup fails the runner says so on stderr, "refusing
\* to run test with unknown stdio state; aborting", and aborts.
SetupFailureAborts ==
    pc = "over" /\ (\E n \in 1 .. trial : verdict[n] = "none" \/ reader[n] = "unspawned")
        => status = "aborted"

=============================================================================
