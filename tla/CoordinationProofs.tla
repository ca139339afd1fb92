------------------------- MODULE CoordinationProofs -------------------------
(***************************************************************************)
(* Proofs about Coordination for every set of tests, processes, PIDs and   *)
(* labels, whatever the tests declare and however PIDs are reused.         *)
(***************************************************************************)
EXTENDS Coordination, TLAPS

-----------------------------------------------------------------------------
(* The blocking rule.                                                      *)

\* to_storage returns a stored form for everything a test may declare.
LEMMA ToStorageType ==
  ASSUME NEW f \in Declared
  PROVE  ToStorage(f) \in Stored
<1>1. CASE f \in {SerialNone, SerialAll}
  BY <1>1 DEF ToStorage, Stored
<1>2. CASE f \notin {SerialNone, SerialAll}
  <2>1. PICK S \in SUBSET Everything : f = Expr(S)
    BY <1>2 DEF Declared
  <2>2. f.sat = S
    BY <2>1 DEF Expr
  <2>. QED
    BY <1>2, <2>1, <2>2 DEF ToStorage, Stored, IsTautology, IsContradiction
<1>. QED  BY <1>1, <1>2

\* A stored form is the one or the other sentinel or an expression, never two.
LEMMA StoredCases ==
  ASSUME NEW f \in Stored
  PROVE  \/ f = SerialNone /\ f # SerialAll /\ f.kind # "expr"
         \/ f = SerialAll /\ f # SerialNone /\ f.kind # "expr"
         \/ f # SerialNone /\ f # SerialAll /\ f.kind = "expr"
<1>1. SerialNone.kind = "none" /\ SerialAll.kind = "all"
  BY DEF SerialNone, SerialAll
<1>2. CASE f \in {SerialNone, SerialAll}
  BY <1>1, <1>2
<1>3. CASE f \notin {SerialNone, SerialAll}
  <2>1. PICK S \in SUBSET Everything : f = Expr(S)
    BY <1>3 DEF Stored
  <2>2. f.kind = "expr"
    BY <2>1 DEF Expr
  <2>. QED  BY <1>3, <2>2
<1>. QED  BY <1>2, <1>3

\* can_start accepts a test exactly when cargo-skuld's `conflicts` finds no
\* running row it conflicts with: the two implementations of the rule, one
\* asked of a table and one of a pair, agree on every stored form.
THEOREM CanStartIffNoConflict ==
  ASSUME NEW R \in SUBSET StoredRow, NEW m \in StoredRow
  PROVE  CanStart(R, m.labels, m.serial) <=> \A r \in R : ~Conflicts(m, r)
<1>1. \A r \in R \cup {m} : r.serial \in Stored
  BY DEF StoredRow
<1>2. CASE m.serial = SerialAll
  BY <1>2 DEF CanStart, Conflicts
<1>3. CASE m.serial = SerialNone
  BY <1>1, <1>3, StoredCases DEF CanStart, Conflicts
<1>4. CASE m.serial.kind = "expr" /\ m.serial # SerialAll /\ m.serial # SerialNone
  BY <1>1, <1>4, StoredCases DEF CanStart, Conflicts
<1>. QED  BY <1>1, <1>2, <1>3, <1>4, StoredCases

\* The conflict relation has no direction.
LEMMA ConflictsSymmetric ==
  ASSUME NEW a, NEW b
  PROVE  Conflicts(a, b) <=> Conflicts(b, a)
BY DEF Conflicts

\* What one filter says of one set of labels.
Bars(f, labels) == f = SerialAll \/ (f # SerialNone /\ Matches(f, labels))

\* A declared filter is a sentinel or an expression, never two of them.
LEMMA DeclaredCases ==
  ASSUME NEW f \in Declared
  PROVE  \/ f = SerialNone /\ f # SerialAll
         \/ f = SerialAll /\ f # SerialNone
         \/ f # SerialNone /\ f # SerialAll /\ f.sat \in SUBSET Everything /\ f = Expr(f.sat)
<1>1. SerialNone.kind = "none" /\ SerialAll.kind = "all" /\ \A S : Expr(S).kind = "expr" /\ Expr(S).sat = S
  BY DEF SerialNone, SerialAll, Expr
<1>2. SerialNone # SerialAll /\ \A S : Expr(S) # SerialNone /\ Expr(S) # SerialAll
  BY <1>1
<1>3. CASE f \in {SerialNone, SerialAll}
  BY <1>2, <1>3
<1>4. CASE f \notin {SerialNone, SerialAll}
  <2>1. PICK S \in SUBSET Everything : f = Expr(S)
    BY <1>4 DEF Declared
  <2>2. f.sat = S
    BY <1>1, <2>1
  <2>. QED  BY <1>4, <2>1, <2>2
<1>. QED  BY <1>3, <1>4

\* to_storage keeps what a filter excludes: a tautology becomes "*", and what
\* accepts nothing becomes "".
LEMMA StorageExcludesTheSame ==
  ASSUME NEW f \in Declared, NEW labels \in Everything
  PROVE  Bars(ToStorage(f), labels) <=> Bars(f, labels)
<1>0. SerialNone # SerialAll
  BY DEF SerialNone, SerialAll
<1>1. CASE f \in {SerialNone, SerialAll}
  BY <1>1 DEF ToStorage
<1>2. CASE f \notin {SerialNone, SerialAll} /\ f.sat = Everything
  BY <1>0, <1>2 DEF ToStorage, Bars, Matches, IsTautology
<1>3. CASE f \notin {SerialNone, SerialAll} /\ f.sat = {}
  <2>1. Everything # {}
    OBVIOUS
  <2>. QED  BY <1>0, <1>3, <2>1 DEF ToStorage, Bars, Matches, IsTautology, IsContradiction
<1>4. CASE f \notin {SerialNone, SerialAll} /\ f.sat \notin {Everything, {}}
  BY <1>4 DEF ToStorage, IsTautology, IsContradiction
<1>. QED  BY <1>1, <1>2, <1>3, <1>4

LEMMA MergeExcludesBoth ==
  ASSUME NEW f \in Declared, NEW g \in Declared, NEW labels \in Everything
  PROVE  /\ MergeSerialFilters(f, g) \in Declared
         /\ Bars(MergeSerialFilters(f, g), labels) <=> Bars(f, labels) \/ Bars(g, labels)
<1>0. SerialNone # SerialAll /\ ~Bars(SerialNone, labels) /\ Bars(SerialAll, labels)
  BY DEF SerialNone, SerialAll, Bars
<1>1. CASE f = SerialNone \/ g = SerialNone
  BY <1>0, <1>1 DEF MergeSerialFilters
<1>2. CASE f # SerialNone /\ g # SerialNone /\ (f = SerialAll \/ g = SerialAll)
  <2>1. MergeSerialFilters(f, g) = SerialAll
    BY <1>2 DEF MergeSerialFilters
  <2>. QED  BY <1>0, <1>2, <2>1 DEF Declared
<1>3. CASE f \notin {SerialNone, SerialAll} /\ g \notin {SerialNone, SerialAll}
  <2>1. f.sat \in SUBSET Everything /\ g.sat \in SUBSET Everything
    BY <1>3, DeclaredCases
  <2>2. PICK S : S = f.sat \cup g.sat
    OBVIOUS
  <2>3. MergeSerialFilters(f, g) = Expr(S) /\ S \in SUBSET Everything
    BY <1>3, <2>1, <2>2 DEF MergeSerialFilters
  <2>4. Expr(S).sat = S /\ Expr(S).kind = "expr" /\ SerialNone.kind = "none" /\ SerialAll.kind = "all"
    BY DEF Expr, SerialNone, SerialAll
  <2>5. Expr(S) # SerialNone /\ Expr(S) # SerialAll
    BY <2>4
  <2>6. Expr(S) \in Declared
    BY <2>3 DEF Declared
  <2>7. Bars(Expr(S), labels) <=> labels \in f.sat \/ labels \in g.sat
    BY <2>2, <2>4, <2>5 DEF Bars, Matches
  <2>8. (Bars(f, labels) <=> labels \in f.sat) /\ (Bars(g, labels) <=> labels \in g.sat)
    BY <1>3 DEF Bars, Matches
  <2>. QED  BY <2>3, <2>6, <2>7, <2>8
<1>. QED  BY <1>1, <1>2, <1>3

\* merge_serial_filters, then to_storage: a test conflicts with a row under the
\* filter merged with a fixture's exactly when it would under one of the two.
\* Merging never loosens, never tightens, and its order does not matter, also
\* where the union of two filters turns into "*".
THEOREM MergingAddsUp ==
  ASSUME NEW f \in Declared, NEW g \in Declared, NEW labels \in Everything, NEW r \in StoredRow
  PROVE  LET With(h) == [labels |-> labels, serial |-> ToStorage(h)]
         IN  Conflicts(With(MergeSerialFilters(f, g)), r)
               <=> Conflicts(With(f), r) \/ Conflicts(With(g), r)
<1>1. r.labels \in Everything
  BY DEF StoredRow
<1>2. ASSUME NEW h \in Declared
      PROVE  Conflicts([labels |-> labels, serial |-> ToStorage(h)], r)
               <=> Bars(h, r.labels) \/ Bars(r.serial, labels)
  <2>1. Conflicts([labels |-> labels, serial |-> ToStorage(h)], r)
          <=> Bars(ToStorage(h), r.labels) \/ Bars(r.serial, labels)
    BY DEF Conflicts, Bars
  <2>. QED  BY <1>1, <2>1, StorageExcludesTheSame
<1>3. MergeSerialFilters(f, g) \in Declared
  BY MergeExcludesBoth
<1>4. Bars(MergeSerialFilters(f, g), r.labels) <=> Bars(f, r.labels) \/ Bars(g, r.labels)
  BY <1>1, MergeExcludesBoth
<1>. QED  BY <1>2, <1>3, <1>4

\* Every test's row is a stored row.
LEMMA RowType ==
  ASSUME NEW t \in Test
  PROVE  /\ Row(t) \in StoredRow
         /\ Row(t).labels = LabelsOf[t]
         /\ Row(t).serial = ToStorage(SerialOf[t])
<1>1. LabelsOf[t] \in Everything /\ SerialOf[t] \in Declared
  BY ConstantsAssumption
<1>2. ToStorage(SerialOf[t]) \in Stored
  BY <1>1, ToStorageType
<1>. QED  BY <1>1, <1>2 DEF Row, StoredRow

\* What can_start's answer means for the rows the transaction sees.
LEMMA MayStartMeansNoConflict ==
  ASSUME NEW t \in Test, view \in SUBSET Test, MayStart(t)
  PROVE  \A u \in view : ~Conflicts(Row(t), Row(u))
<1>1. {Row(u) : u \in view} \in SUBSET StoredRow
  BY RowType
<1>2. CanStart({Row(u) : u \in view}, Row(t).labels, Row(t).serial)
  BY RowType DEF MayStart
<1>3. \A r \in {Row(u) : u \in view} : ~Conflicts(Row(t), r)
  BY <1>1, <1>2, RowType, CanStartIffNoConflict
<1>. QED  BY <1>3

-----------------------------------------------------------------------------
(* Type correctness.                                                       *)

\* The initial values have their types.
LEMMA InitTypeOK == Init => TypeOK
BY ConstantsAssumption DEF Init, TypeOK, PC

\* Every action gives each variable a value of its type.
LEMMA NextTypeOK == TypeOK /\ [Next]_vars => TypeOK'
<1> SUFFICES ASSUME TypeOK, [Next]_vars PROVE TypeOK'
  OBVIOUS
<1> USE ConstantsAssumption DEF TypeOK, PC, dbVars, reportVars, Goto, EndTxn
<1>1. ASSUME NEW p \in Proc, StartProcess(p) PROVE TypeOK'
  BY <1>1 DEF StartProcess
<1>2. ASSUME NEW p \in Proc, Crash(p) PROVE TypeOK'
  BY <1>2 DEF Crash
<1>3. ASSUME NEW p \in Proc, Exit(p) PROVE TypeOK'
  BY <1>3 DEF Exit
<1>4. ASSUME NEW t \in Test, StartTrial(t) PROVE TypeOK'
  BY <1>4 DEF StartTrial
<1>5. ASSUME NEW t \in Test, BeginExclusive(t) PROVE TypeOK'
  BY <1>5 DEF BeginExclusive
<1>6. ASSUME NEW t \in Test, NEW q \in Proc, ProbeInstance(t, q) PROVE TypeOK'
  BY <1>6 DEF ProbeInstance
<1>7. ASSUME NEW t \in Test, Register(t) PROVE TypeOK'
  BY <1>7 DEF Register
<1>8. ASSUME NEW t \in Test, Blocked(t) PROVE TypeOK'
  BY <1>8 DEF Blocked
<1>9. ASSUME NEW t \in Test, TxnBusy(t) \/ TxnError(t) PROVE TypeOK'
  BY <1>9 DEF TxnBusy, TxnError
<1>10. ASSUME NEW t \in Test, NEW b \in BOOLEAN, BodyEnds(t, b) PROVE TypeOK'
  BY <1>10 DEF BodyEnds
<1>11. ASSUME NEW t \in Test, Unregister(t) \/ UnregisterError(t) PROVE TypeOK'
  BY <1>11 DEF Unregister, UnregisterError
<1>12. ASSUME UNCHANGED vars PROVE TypeOK'
  BY <1>12 DEF vars
<1>. QED
  BY <1>1, <1>2, <1>3, <1>4, <1>5, <1>6, <1>7, <1>8, <1>9, <1>10, <1>11, <1>12
  DEF Next, ProcStep, TestStep, Finished

\* Every variable keeps its type, for every instance of the constants.
THEOREM TypeCorrect == SafeSpec => []TypeOK
BY InitTypeOK, NextTypeOK, PTL DEF SafeSpec

-----------------------------------------------------------------------------
(* Mutual exclusion.                                                       *)

\* At first no test is registered and the table is empty.
LEMMA InitIInv == Init => IInv
<1> SUFFICES ASSUME Init PROVE IInv
  OBVIOUS
<1>1. TypeOK
  BY InitTypeOK
<1>2. \A t \in Test : pc[t] = "idle" /\ writer # t /\ writer = None
  BY ConstantsAssumption DEF Init
<1>. QED
  BY <1>1, <1>2 DEF IInv, RegisteredHasRow, WriterInTxn, ViewIsCleanedDb,
                    ActiveIsAlive, MutualExclusion, Registered, Active, Init,
                    RowsExplained, OkExplained

\* Processes that start, die or exit register nobody: a dead process takes its
\* threads, its lock and its transaction with it and leaves its rows.
LEMMA ProcIInv ==
  ASSUME IInv, NEW p \in Proc, ProcStep(p)
  PROVE  IInv'
<1> USE ConstantsAssumption
    DEF IInv, TypeOK, RegisteredHasRow, WriterInTxn, ViewIsCleanedDb, ActiveIsAlive,
        RowsExplained, OkExplained, Registered, Active, PC, dbVars, reportVars, TestsOf
<1>1. TypeOK'
  BY NextTypeOK DEF Next
<1>2. CASE StartProcess(p)
  <2>1. MutualExclusion'
    BY <1>2 DEF StartProcess, MutualExclusion, Row
  <2>. QED  BY <1>1, <1>2, <2>1 DEF StartProcess
<1>3. CASE Crash(p)
  <2>1. \A t \in Test : Registered(t)' => Registered(t) /\ ProcOf[t] # p
    BY <1>3 DEF Crash
  <2>2. MutualExclusion'
    BY <1>3, <2>1 DEF Crash, MutualExclusion, Row
  <2>3. RegisteredHasRow'
    BY <1>3, <2>1 DEF Crash
  <2>4. WriterInTxn'
    BY <1>3 DEF Crash, EndTxn
  <2>5. ViewIsCleanedDb'
    BY <1>3 DEF Crash, EndTxn
  <2>6. ActiveIsAlive'
    BY <1>3 DEF Crash
  <2>7. RowsExplained'
    BY <1>3 DEF Crash
  <2>8. OkExplained'
    BY <1>3 DEF Crash
  <2>. QED  BY <1>1, <2>2, <2>3, <2>4, <2>5, <2>6, <2>7, <2>8
<1>4. CASE Exit(p)
  <2>1. \A t \in Test : Registered(t) => ProcOf[t] # p
    BY <1>4 DEF Exit
  <2>2. MutualExclusion'
    BY <1>4 DEF Exit, MutualExclusion, Row
  <2>. QED  BY <1>1, <1>4, <2>1, <2>2 DEF Exit
<1>. QED  BY <1>2, <1>3, <1>4 DEF ProcStep

\* COMMIT is the only step that can put two conflicting tests side by side: a
\* registered test has its row in db, its process lives, so the row is still
\* in the cleaned view that can_start was asked about.
LEMMA RegisterIInv ==
  ASSUME IInv, NEW t \in Test, Register(t)
  PROVE  IInv'
<1>1. TypeOK'
  BY NextTypeOK DEF Next, TestStep, IInv
<1>2. \A u \in Test \ {t} : Registered(u)' <=> Registered(u)
  BY DEF Register, Goto, Registered, IInv, TypeOK
<1>3. writer = t /\ writer # None
  BY ConstantsAssumption DEF Register, IInv, WriterInTxn
<1>4. \A u \in Test : Registered(u) => u \in view
  BY <1>3 DEF IInv, RegisteredHasRow, ViewIsCleanedDb
<1>5. \A u \in Test \ {t} : Registered(u)' => ~Conflicts(Row(t), Row(u))
  BY <1>2, <1>4, MayStartMeansNoConflict DEF Register, IInv, TypeOK
<1>6. MutualExclusion'
  <2> SUFFICES ASSUME NEW u \in Test, NEW v \in Test, u # v, Registered(u)', Registered(v)'
               PROVE  ~Conflicts(Row(u), Row(v))
    BY DEF MutualExclusion, Row
  <2>1. CASE u = t
    BY <1>5, <2>1
  <2>2. CASE v = t
    BY <1>5, <2>2, ConflictsSymmetric
  <2>3. CASE u # t /\ v # t
    BY <1>2, <2>3 DEF IInv, MutualExclusion
  <2>. QED  BY <2>1, <2>2, <2>3
<1>7. ActiveIsAlive /\ proc[ProcOf[t]] = "alive"
  BY DEF IInv, ActiveIsAlive, Active, Register
<1>8. RegisteredHasRow'
  BY <1>2, <1>4, <1>7 DEF Register, IInv, RegisteredHasRow, reportVars
<1>9. WriterInTxn' /\ ViewIsCleanedDb'
  BY <1>3, ConstantsAssumption
  DEF Register, EndTxn, Goto, IInv, TypeOK, WriterInTxn, ViewIsCleanedDb
<1>10. ActiveIsAlive'
  BY <1>7 DEF Register, Goto, IInv, TypeOK, ActiveIsAlive, Active
<1>11. RowsExplained'
  BY <1>3, <1>7
  DEF Register, Goto, IInv, TypeOK, ViewIsCleanedDb, RowsExplained, Registered, reportVars
<1>12. OkExplained'
  BY DEF Register, Goto, IInv, TypeOK, OkExplained, TestsOf, reportVars
<1>. QED  BY <1>1, <1>6, <1>8, <1>9, <1>10, <1>11, <1>12 DEF IInv

\* The other steps of a trial thread register nobody.
LEMMA TestIInv ==
  ASSUME IInv, NEW t \in Test, TestStep(t)
  PROVE  IInv'
<1> USE ConstantsAssumption
    DEF IInv, TypeOK, RegisteredHasRow, WriterInTxn, ViewIsCleanedDb, ActiveIsAlive,
        RowsExplained, OkExplained, Registered, Active, PC, dbVars, reportVars, TestsOf, Goto, EndTxn
<1>1. TypeOK'
  BY NextTypeOK DEF Next
<1>2. ASSUME \A u \in Test : Registered(u)' => Registered(u)
      PROVE  MutualExclusion'
  BY <1>2 DEF MutualExclusion, Row
<1>3. CASE StartTrial(t)
  BY <1>1, <1>2, <1>3 DEF StartTrial
<1>4. CASE BeginExclusive(t)
  BY <1>1, <1>2, <1>4 DEF BeginExclusive
<1>5. ASSUME NEW q \in Proc, ProbeInstance(t, q) PROVE IInv'
  <2>1. ViewIsCleanedDb'
    <3>1. CASE IsPidAlive(PidOf[q])
      BY <1>5, <3>1 DEF ProbeInstance
    <3>2. CASE ~IsPidAlive(PidOf[q])
      <4>1. proc[q] # "alive"
        BY <3>2 DEF IsPidAlive
      <4>2. \A u \in db : proc[ProcOf[u]] # "unborn"
        OBVIOUS
      <4>. QED  BY <1>5, <3>2, <4>1, <4>2 DEF ProbeInstance
    <3>. QED  BY <3>1, <3>2
  <2>. QED  BY <1>1, <1>2, <1>5, <2>1 DEF ProbeInstance
<1>6. CASE Register(t)
  BY <1>6, RegisterIInv
<1>7. CASE Blocked(t) \/ TxnBusy(t) \/ TxnError(t)
  BY <1>1, <1>2, <1>7 DEF Blocked, TxnBusy, TxnError
<1>8. ASSUME NEW b \in BOOLEAN, BodyEnds(t, b) PROVE IInv'
  BY <1>1, <1>2, <1>8 DEF BodyEnds
<1>9. CASE Unregister(t)
  BY <1>1, <1>2, <1>9 DEF Unregister
<1>10. CASE UnregisterError(t)
  BY <1>1, <1>2, <1>10 DEF UnregisterError
<1>. QED
  BY <1>3, <1>4, <1>5, <1>6, <1>7, <1>8, <1>9, <1>10 DEF TestStep

\* A step of any kind, or none, keeps the inductive invariant.
LEMMA NextIInv == IInv /\ [Next]_vars => IInv'
<1> SUFFICES ASSUME IInv, [Next]_vars PROVE IInv'
  OBVIOUS
<1>1. CASE \E p \in Proc : ProcStep(p)
  BY <1>1, ProcIInv
<1>2. CASE \E t \in Test : TestStep(t)
  BY <1>2, TestIInv
<1>3. CASE UNCHANGED vars
  BY <1>3 DEF vars, dbVars, reportVars, IInv, TypeOK, RegisteredHasRow, RowsExplained,
              OkExplained, WriterInTxn, ViewIsCleanedDb, ActiveIsAlive, MutualExclusion,
              Registered, Active, Row
<1>. QED  BY <1>1, <1>2, <1>3 DEF Next, Finished

\* The inductive invariant holds in every reachable state.
THEOREM Inductive == SafeSpec => []IInv
BY InitIInv, NextIInv, PTL DEF SafeSpec

\* No two conflicting tests are ever registered at once, for any number of
\* tests and processes, any labels and filters, whoever dies and however PIDs
\* are reused: `serial` holds across processes.
THEOREM SerialHolds == SafeSpec => []MutualExclusion
<1>1. IInv => MutualExclusion
  BY DEF IInv
<1>. QED  BY <1>1, Inductive, PTL

\* A process that exits with success has left no row behind.
THEOREM SuccessIsClean == SafeSpec => []SuccessLeavesNoRow
<1>1. IInv => SuccessLeavesNoRow
  BY DEF IInv, RowsExplained, OkExplained, SuccessLeavesNoRow, TestsOf, Registered
<1>. QED  BY <1>1, Inductive, PTL

-----------------------------------------------------------------------------
(* The life of a row.                                                      *)

\* A committed row is deleted by its own test or after its process died,
\* never by another test's clean_stale_entries while its owner lives.
THEOREM LiveRowsAreSafe == SafeSpec => LiveRowsStay
<1> DEFINE A == \A t \in db \ db' :
                  proc[ProcOf[t]] = "dead" \/ (pc[t] = "unregister" /\ pc'[t] = "done")
<1>1. ASSUME IInv, NEW p \in Proc, ProcStep(p) PROVE A
  BY <1>1 DEF ProcStep, StartProcess, Crash, Exit, dbVars
<1>2. ASSUME IInv, NEW t \in Test, Register(t) PROVE A
  BY <1>2, ConstantsAssumption DEF Register, IInv, WriterInTxn, ViewIsCleanedDb
<1>3. ASSUME IInv, NEW t \in Test, Unregister(t) PROVE A
  BY <1>3 DEF Unregister, Goto, IInv, TypeOK
<1>4. ASSUME IInv, NEW t \in Test, TestStep(t), ~Register(t), ~Unregister(t) PROVE A
  BY <1>4 DEF TestStep, StartTrial, BeginExclusive, ProbeInstance, Blocked, TxnBusy,
              TxnError, BodyEnds, UnregisterError, dbVars
<1>5. IInv /\ [Next]_vars => [A]_vars
  BY <1>1, <1>2, <1>3, <1>4 DEF Next, Finished
<1>6. LiveRowsStay <=> [][A]_vars
  BY DEF LiveRowsStay
<1>. QED  BY <1>5, <1>6, Inductive, PTL DEF SafeSpec

-----------------------------------------------------------------------------
(* Coordination implements the safety part of SerialExec.                  *)

\* Every step is an Ask, a Start or an End of the abstract specification, or
\* changes nothing it can see.
LEMMA StepRefines == IInv /\ [Next]_vars => [SE!Next]_phase
<1> SUFFICES ASSUME IInv, [Next]_vars PROVE SE!Next \/ phase' = phase
  OBVIOUS
<1> USE ConstantsAssumption
    DEF IInv, TypeOK, PC, phase, Registered, dbVars, reportVars, Goto
<1>1. ASSUME NEW p \in Proc, StartProcess(p) \/ Exit(p) PROVE phase' = phase
  BY <1>1 DEF StartProcess, Exit
<1>2. ASSUME NEW p \in Proc, Crash(p) PROVE SE!Next \/ phase' = phase
  <2> DEFINE S == {t \in TestsOf(p) : phase[t] # "ended"}
  <2>1. phase' = [t \in Test |-> IF t \in S THEN "ended" ELSE phase[t]]
    BY <1>2 DEF Crash, TestsOf
  <2>2. CASE S = {}
    BY <2>1, <2>2, ZenonT(40)
  <2>3. CASE S # {}
    BY <2>1, <2>3 DEF SE!Next, SE!End, TestsOf
  <2>. QED  BY <2>2, <2>3
<1>3. ASSUME NEW t \in Test, StartTrial(t) PROVE SE!Next
  <2>1. SE!Ask(t)
    BY <1>3 DEF StartTrial, SE!Ask
  <2>. QED  BY <2>1 DEF SE!Next
<1>4. ASSUME NEW t \in Test, Register(t) PROVE SE!Next
  <2>1. writer = t /\ writer # None
    BY <1>4 DEF Register, WriterInTxn
  <2>2. \A u \in Test : Registered(u) => u \in view
    BY <2>1 DEF RegisteredHasRow, ViewIsCleanedDb
  <2>3. \A u \in Test \ {t} : phase[u] = "running" => ~Excludes(t, u)
    BY <1>4, <2>2, MayStartMeansNoConflict DEF Register, Excludes
  <2>4. phase[t] = "waiting" /\ phase' = [phase EXCEPT ![t] = "running"]
    BY <1>4 DEF Register
  <2>. QED  BY <2>3, <2>4 DEF SE!Next, SE!Start
<1>5. ASSUME NEW t \in Test, TxnError(t) \/ Unregister(t) \/ UnregisterError(t)
      PROVE  SE!Next
  <2>1. /\ phase[t] # "ended"
        /\ phase' = [u \in Test |-> IF u \in {t} THEN "ended" ELSE phase[u]]
    BY <1>5 DEF TxnError, Unregister, UnregisterError
  <2>2. SE!End({t})
    BY <2>1 DEF SE!End
  <2>. QED  BY <2>2 DEF SE!Next
<1>6. ASSUME NEW t \in Test, BeginExclusive(t) \/ Blocked(t) \/ TxnBusy(t)
      PROVE  phase' = phase
  BY <1>6 DEF BeginExclusive, Blocked, TxnBusy
<1>7. ASSUME NEW t \in Test, NEW q \in Proc, ProbeInstance(t, q) PROVE phase' = phase
  BY <1>7 DEF ProbeInstance
<1>8. ASSUME NEW t \in Test, NEW b \in BOOLEAN, BodyEnds(t, b) PROVE phase' = phase
  BY <1>8 DEF BodyEnds
<1>9. ASSUME UNCHANGED vars PROVE phase' = phase
  BY <1>9 DEF vars
<1>. QED
  BY <1>1, <1>2, <1>3, <1>4, <1>5, <1>6, <1>7, <1>8, <1>9
  DEF Next, ProcStep, TestStep, Finished

\* The polling, cleaning, crash-prone protocol over the database never shows a
\* behaviour that the one-line promise of SerialExec forbids.
THEOREM Refinement == SafeSpec => ImplementsSerialExec
<1>1. Init => SE!Init
  BY DEF Init, SE!Init, phase
<1>. QED
  BY <1>1, StepRefines, Inductive, PTL DEF SafeSpec, ImplementsSerialExec, SE!SafeSpec
=============================================================================
