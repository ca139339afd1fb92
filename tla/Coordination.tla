---------------------------- MODULE Coordination ----------------------------
(***************************************************************************)
(* Cross-process coordination of serial tests through the `running` table  *)
(* of a shared SQLite database: coordinate(), clean_stale_entries(),       *)
(* register() and TestRegistration's Drop, run by the trial threads of any *)
(* number of test processes.  A process may die at any moment; its rows    *)
(* stay behind until another test's transaction cleans them.               *)
(*                                                                         *)
(* SQLite is modelled by what the code relies on: one write lock (in WAL   *)
(* mode BEGIN EXCLUSIVE excludes other writers only), a transaction that   *)
(* works on its own version of the table and is discarded by ROLLBACK or   *)
(* by the death of its process, SQLITE_BUSY for whoever asks for the lock  *)
(* while it is held.  BUSY changes nothing: the code sleeps and asks again *)
(* (coordinate's loop, retry_busy), so it is not a step.  A row is         *)
(* identified with the test execution that inserted it: AUTOINCREMENT      *)
(* never hands out an id twice in one file.                                *)
(* The file itself stays in place here; MovedDb takes that away.           *)
(***************************************************************************)
EXTENDS SerialRules, FiniteSets, Naturals

CONSTANTS
  Test,      \* test executions
  Proc,      \* test processes; one skuld instance_id each
  Pid,       \* operating system process ids
  ProcOf,    \* the process that runs a test
  PidOf,     \* the PID of a process; the OS may give a dead one's to another
  Threads,   \* trial threads of a process (1 under capture)
  LabelsOf,  \* the resolved labels of a test
  SerialOf,  \* its effective serial declaration, fixtures merged in
  DbFaults,  \* may statements fail with an error other than BUSY at BEGIN?
  None       \* nobody holds the write lock

ASSUME ConstantsAssumption ==
  /\ ProcOf \in [Test -> Proc]
  /\ PidOf \in [Proc -> Pid]
  /\ Threads \in [Proc -> Nat \ {0}]
  /\ LabelsOf \in [Test -> Everything]
  /\ SerialOf \in [Test -> Declared]
  /\ DbFaults \in BOOLEAN
  /\ None \notin Test

VARIABLES
  proc,       \* "unborn", "alive" or "dead", per process
  pc,         \* where a test's trial thread is
  unwinding,  \* is a trial thread unwinding from a panic of the body?
  outcome,    \* how the trial was reported
  violations, \* tests whose failed cleanup was downgraded and recorded
  exit,       \* how a process ended
  db,         \* the committed rows of the `running` table
  writer,     \* who holds SQLite's write lock
  view,       \* the rows as the open transaction sees them
  unprobed    \* instances clean_stale_entries has yet to look at

dbVars == <<db, writer, view, unprobed>>
reportVars == <<unwinding, outcome, violations, exit>>
vars == <<proc, pc, reportVars, dbVars>>

PC == {"idle", "begin", "txn", "running", "unregister", "done", "killed"}

\* A thread that is past its start and before its end.
Active(t) == pc[t] \notin {"idle", "done", "killed"}

TestsOf(p) == {t \in Test : ProcOf[t] = p}

\* The row register() inserts for a test; coordinate() stores to_storage(filter).
Row(t) == [labels |-> LabelsOf[t], serial |-> ToStorage(SerialOf[t])]

\* is_pid_alive: some process with that PID exists, whichever it is.
IsPidAlive(pid) == \E q \in Proc : proc[q] = "alive" /\ PidOf[q] = pid

Init ==
  /\ proc = [p \in Proc |-> "unborn"]
  /\ pc = [t \in Test |-> "idle"]
  /\ unwinding = [t \in Test |-> FALSE]
  /\ outcome = [t \in Test |-> "none"]
  /\ violations = {}
  /\ exit = [p \in Proc |-> "none"]
  /\ db = {} /\ view = {} /\ unprobed = {}
  /\ writer = None

Goto(t, l) == pc' = [pc EXCEPT ![t] = l]

\* The open transaction is over: its lock and its version of the table go.
EndTxn ==
  /\ writer' = None
  /\ view' = {}
  /\ unprobed' = {}

-----------------------------------------------------------------------------
(* Processes.                                                              *)

\* The operating system starts a test process under a PID nobody is using.
StartProcess(p) ==
  /\ proc[p] = "unborn"
  /\ ~IsPidAlive(PidOf[p])
  /\ proc' = [proc EXCEPT ![p] = "alive"]
  /\ UNCHANGED <<pc, reportVars, dbVars>>

\* The process is killed: its threads are gone, SQLite drops its transaction
\* and lock, its committed rows stay.
Crash(p) ==
  /\ proc[p] = "alive"
  /\ proc' = [proc EXCEPT ![p] = "dead"]
  /\ exit' = [exit EXCEPT ![p] = "killed"]
  /\ pc' = [t \in Test |-> IF ProcOf[t] = p /\ pc[t] # "done" THEN "killed" ELSE pc[t]]
  /\ IF writer \in TestsOf(p) THEN EndTxn ELSE UNCHANGED <<writer, view, unprobed>>
  /\ UNCHANGED <<unwinding, outcome, violations, db>>

\* run_tests returns once every trial has ended; the recorded violations are
\* added to the failures the process exits with.
Exit(p) ==
  /\ proc[p] = "alive"
  /\ \A t \in TestsOf(p) : pc[t] = "done"
  /\ proc' = [proc EXCEPT ![p] = "dead"]
  /\ exit' = [exit EXCEPT ![p] =
       IF (\A t \in TestsOf(p) : outcome[t] = "pass") /\ TestsOf(p) \cap violations = {}
       THEN "ok" ELSE "failed"]
  /\ UNCHANGED <<pc, unwinding, outcome, violations, dbVars>>

-----------------------------------------------------------------------------
(* coordinate(): block until the test can start, then register it.         *)

\* A trial thread is started while one of the process's threads is free.
StartTrial(t) ==
  /\ pc[t] = "idle"
  /\ proc[ProcOf[t]] = "alive"
  /\ Cardinality({u \in TestsOf(ProcOf[t]) : Active(u)}) < Threads[ProcOf[t]]
  /\ Goto(t, "begin")
  /\ UNCHANGED <<proc, reportVars, dbVars>>

\* Mutant: BEGIN DEFERRED, which takes no lock.
BeginDeferred(t) ==
  /\ pc[t] = "begin"
  /\ writer' = t
  /\ view' = db
  /\ unprobed' = {ProcOf[u] : u \in db} \ {ProcOf[t]}
  /\ Goto(t, "txn")
  /\ UNCHANGED <<proc, reportVars, db>>

\* BEGIN EXCLUSIVE; clean_stale_entries selects the other instances' ids.
BeginExclusive(t) ==
  /\ pc[t] = "begin"
  /\ writer = None
  /\ writer' = t
  /\ view' = db
  /\ unprobed' = {ProcOf[u] : u \in db} \ {ProcOf[t]}
  /\ Goto(t, "txn")
  /\ UNCHANGED <<proc, reportVars, db>>

\* Mutant: the DELETE of a dead instance's rows has lost its WHERE clause.
ProbeDeletesAll(t, q) ==
  /\ pc[t] = "txn"
  /\ q \in unprobed
  /\ unprobed' = unprobed \ {q}
  /\ view' = IF IsPidAlive(PidOf[q]) THEN view ELSE {}
  /\ UNCHANGED <<proc, pc, reportVars, db, writer>>

\* clean_stale_entries asks for one instance's PID and deletes its rows if no
\* process has it.
ProbeInstance(t, q) ==
  /\ pc[t] = "txn"
  /\ q \in unprobed
  /\ unprobed' = unprobed \ {q}
  /\ view' = IF IsPidAlive(PidOf[q]) THEN view ELSE view \ TestsOf(q)
  /\ UNCHANGED <<proc, pc, reportVars, db, writer>>

\* can_start, asked of the cleaned table.
MayStart(t) == CanStart({Row(u) : u \in view}, LabelsOf[t], ToStorage(SerialOf[t]))

\* register and COMMIT: the row and the cleaning become visible together.
Register(t) ==
  /\ pc[t] = "txn"
  /\ unprobed = {}
  /\ MayStart(t)
  /\ db' = view \cup {t}
  /\ EndTxn
  /\ Goto(t, "running")
  /\ UNCHANGED <<proc, reportVars>>

\* Mutant: the wait starts without the ROLLBACK.
BlockedInTxn(t) ==
  /\ pc[t] = "txn"
  /\ unprobed = {}
  /\ ~MayStart(t)
  /\ Goto(t, "begin")
  /\ UNCHANGED <<proc, reportVars, dbVars>>

\* can_start said no: ROLLBACK, which undoes the cleaning too, and sleep.
Blocked(t) ==
  /\ pc[t] = "txn"
  /\ unprobed = {}
  /\ ~MayStart(t)
  /\ EndTxn
  /\ Goto(t, "begin")
  /\ UNCHANGED <<proc, reportVars, db>>

\* A statement inside the transaction reports BUSY: ROLLBACK, sleep, start over.
TxnBusy(t) ==
  /\ DbFaults
  /\ pc[t] = "txn"
  /\ EndTxn
  /\ Goto(t, "begin")
  /\ UNCHANGED <<proc, reportVars, db>>

\* Any other error: ROLLBACK and panic, so the trial fails before its body.
TxnError(t) ==
  /\ DbFaults
  /\ pc[t] = "txn"
  /\ EndTxn
  /\ Goto(t, "done")
  /\ outcome' = [outcome EXCEPT ![t] = "fail"]
  /\ UNCHANGED <<proc, unwinding, violations, exit, db>>

-----------------------------------------------------------------------------
(* The body, and TestRegistration's Drop when it returns or unwinds.       *)

BodyEnds(t, panicked) ==
  /\ pc[t] = "running"
  /\ unwinding' = [unwinding EXCEPT ![t] = panicked]
  /\ Goto(t, "unregister")
  /\ UNCHANGED <<proc, outcome, violations, exit, dbVars>>

\* Mutant: the row is deleted by instance_id instead of by id.
UnregisterInstance(t) ==
  /\ pc[t] = "unregister"
  /\ writer = None
  /\ db' = db \ TestsOf(ProcOf[t])
  /\ outcome' = [outcome EXCEPT ![t] = IF unwinding[t] THEN "fail" ELSE "pass"]
  /\ Goto(t, "done")
  /\ UNCHANGED <<proc, unwinding, violations, exit, writer, view, unprobed>>

\* DELETE FROM running WHERE id = ?, a transaction of its own.
Unregister(t) ==
  /\ pc[t] = "unregister"
  /\ writer = None
  /\ db' = db \ {t}
  /\ outcome' = [outcome EXCEPT ![t] = IF unwinding[t] THEN "fail" ELSE "pass"]
  /\ Goto(t, "done")
  /\ UNCHANGED <<proc, unwinding, violations, exit, writer, view, unprobed>>

\* Mutant: Drop warns about every failed DELETE and records none.
UnregisterWarns(t) ==
  /\ DbFaults
  /\ pc[t] = "unregister"
  /\ outcome' = [outcome EXCEPT ![t] = IF unwinding[t] THEN "fail" ELSE "pass"]
  /\ Goto(t, "done")
  /\ UNCHANGED <<proc, unwinding, violations, exit, dbVars>>

\* Any other error panics: the trial fails, or, if the thread is unwinding
\* already, the panic is downgraded and recorded.  The row stays.
UnregisterError(t) ==
  /\ DbFaults
  /\ pc[t] = "unregister"
  /\ violations' = IF unwinding[t] THEN violations \cup {t} ELSE violations
  /\ outcome' = [outcome EXCEPT ![t] = "fail"]
  /\ Goto(t, "done")
  /\ UNCHANGED <<proc, unwinding, exit, dbVars>>

-----------------------------------------------------------------------------

ProcStep(p) == StartProcess(p) \/ Crash(p) \/ Exit(p)

TestStep(t) ==
  \/ StartTrial(t) \/ BeginExclusive(t)
  \/ \E q \in Proc : ProbeInstance(t, q)
  \/ Register(t) \/ Blocked(t) \/ TxnBusy(t) \/ TxnError(t)
  \/ \E panicked \in BOOLEAN : BodyEnds(t, panicked)
  \/ Unregister(t) \/ UnregisterError(t)

\* Every process has ended and nothing is left to start.
Finished ==
  /\ \A p \in Proc : proc[p] = "dead"
  /\ UNCHANGED vars

Next ==
  \/ \E p \in Proc : ProcStep(p)
  \/ \E t \in Test : TestStep(t)
  \/ Finished

SafeSpec == Init /\ [][Next]_vars

(***************************************************************************)
(* Threads are scheduled, bodies end, processes whose tests are done exit. *)
(* Strong fairness of the two requests for the write lock: each is retried *)
(* for ever with a growing sleep and every holder lets the lock go, so a   *)
(* request that keeps finding the lock free is eventually made then.       *)
(* BUSY from a statement of a transaction that already has the lock does   *)
(* not come back for ever.                                                 *)
(***************************************************************************)
Fairness ==
  /\ \A p \in Proc : WF_vars(StartProcess(p)) /\ WF_vars(Exit(p))
  /\ \A t \in Test :
       /\ WF_vars(StartTrial(t))
       /\ SF_vars(BeginExclusive(t))
       /\ WF_vars(\E q \in Proc : ProbeInstance(t, q))
       /\ WF_vars(Register(t)) /\ WF_vars(Blocked(t))
       /\ WF_vars(\E panicked \in BOOLEAN : BodyEnds(t, panicked))
       /\ SF_vars(Unregister(t))
       /\ <>[][~TxnBusy(t)]_vars

Spec == SafeSpec /\ Fairness
-----------------------------------------------------------------------------
(* Properties.                                                             *)

TypeOK ==
  /\ proc \in [Proc -> {"unborn", "alive", "dead"}]
  /\ pc \in [Test -> PC]
  /\ unwinding \in [Test -> BOOLEAN]
  /\ outcome \in [Test -> {"none", "pass", "fail"}]
  /\ violations \in SUBSET Test
  /\ exit \in [Proc -> {"none", "ok", "failed", "killed"}]
  /\ db \in SUBSET Test
  /\ writer \in Test \cup {None}
  /\ view \in SUBSET Test
  /\ unprobed \in SUBSET Proc

\* From COMMIT to the DELETE of Drop: the body and the teardown of its fixtures.
Registered(t) == pc[t] \in {"running", "unregister"}

\* No two conflicting tests overlap, whichever processes they belong to,
\* whoever dies meanwhile: what `serial` promises (can_start, clean_stale_entries
\* and the transaction around them).
MutualExclusion ==
  \A t, u \in Test :
    t # u /\ Registered(t) /\ Registered(u) => ~Conflicts(Row(t), Row(u))

\* A registered test belongs to a living process and has a row to be seen by.
RegisteredHasRow ==
  \A t \in Test : Registered(t) => t \in db /\ proc[ProcOf[t]] = "alive"

\* The write lock is held exactly by the thread inside its transaction.
WriterInTxn ==
  \A t \in Test : pc[t] = "txn" <=> writer = t

\* While a transaction is open the table does not change under it, and what it
\* has cleaned away belongs to the dead.
ViewIsCleanedDb ==
  writer # None =>
    /\ view \subseteq db
    /\ \A u \in db \ view : proc[ProcOf[u]] = "dead"

\* A thread that has started belongs to a process that was alive when it did.
ActiveIsAlive ==
  \A t \in Test : Active(t) => proc[ProcOf[t]] = "alive"

\* A row belongs to a registered test, to a thread killed with its process, or
\* to a test that failed because its DELETE did.
RowsExplained ==
  \A t \in db :
    \/ Registered(t)
    \/ pc[t] = "killed" /\ proc[ProcOf[t]] = "dead"
    \/ pc[t] = "done" /\ outcome[t] = "fail" /\ proc[ProcOf[t]] # "unborn"

\* Success is reported by a process that is gone and whose tests all passed.
OkExplained ==
  \A p \in Proc : exit[p] = "ok" =>
    /\ proc[p] = "dead"
    /\ \A t \in TestsOf(p) : pc[t] = "done" /\ outcome[t] = "pass"

\* The inductive invariant behind MutualExclusion and SuccessLeavesNoRow.
IInv ==
  /\ TypeOK
  /\ RegisteredHasRow
  /\ RowsExplained
  /\ OkExplained
  /\ WriterInTxn
  /\ ViewIsCleanedDb
  /\ ActiveIsAlive
  /\ MutualExclusion

\* A committed row goes only by its own test's DELETE or after its process has
\* died: clean_stale_entries never deletes the row of a living test.
LiveRowsStay ==
  [][\A t \in db \ db' :
       proc[ProcOf[t]] = "dead" \/ (pc[t] = "unregister" /\ pc'[t] = "done")]_vars

\* A process that reports success has left nothing in the table: a failed
\* DELETE shows as a failed trial or as a recorded violation (Drop,
\* fail_on_violations).
SuccessLeavesNoRow ==
  \A p \in Proc : exit[p] = "ok" => TestsOf(p) \cap db = {}

\* The abstract view: a test is waiting from its first BEGIN to its COMMIT and
\* running from there until Drop has deleted its row.
phase ==
  [t \in Test |->
     IF pc[t] = "idle" THEN "idle"
     ELSE IF pc[t] \in {"begin", "txn"} THEN "waiting"
     ELSE IF Registered(t) THEN "running"
     ELSE "ended"]

Excludes(t, u) == Conflicts(Row(t), Row(u))

SE == INSTANCE SerialExec WITH st <- phase, Excludes <- Excludes

\* Coordination implements the safety of SerialExec: the database, the polling
\* and the cleaning never let a test start beside one it excludes.
ImplementsSerialExec == SE!SafeSpec

\* The row of an ended test whose DELETE failed, in a process that goes on: no
\* transaction, of that process or of another, cleans it away.
LeakInTheWay(t) ==
  \E u \in db : pc[u] = "done" /\ proc[ProcOf[u]] = "alive" /\ Excludes(t, u)

\* Every test that called coordinate() ends, crashed neighbours, a contended
\* lock and failing statements notwithstanding.  The one thing that can hold
\* it up for good is a row that Drop failed to delete in a process that lives
\* on, its own perhaps: that failure is never resolved before the exit.
EveryTestEnds ==
  \A t \in Test :
    phase[t] \in {"waiting", "running"} ~>
      \/ phase[t] = "ended"
      \/ phase[t] = "waiting" /\ LeakInTheWay(t)

\* "Delete entries from the `running` table whose process is no longer alive"
\* (clean_stale_entries), with instance_id() "handling PID reuse": nobody waits
\* for ever beside the row of a dead process.
DeadRowsDoNotBlock ==
  \A t, u \in Test :
    ~<>[](pc[t] \in {"begin", "txn"} /\ u \in db /\ proc[ProcOf[u]] = "dead")
=============================================================================
