-------------------------- MODULE MigrationProofs --------------------------
(***************************************************************************)
(* Proofs about Migration for any number of openers and of tests of an     *)
(* older skuld, whatever they have declared and however they fail.         *)
(***************************************************************************)
EXTENDS Migration, TLAPS

-----------------------------------------------------------------------------
(* The rule does not see the spelling of a filter.                         *)

\* What a filter says about a test with these labels; a conflict is one of
\* two filters saying so.
Excludes(f, labels) == f = SerialAll \/ (f # SerialNone /\ Matches(f, labels))

\* The values a declared filter may have, by their kinds.
LEMMA DeclaredCases ==
  ASSUME NEW f \in Declared
  PROVE  \/ f = SerialNone /\ f # SerialAll /\ f.kind = "none"
         \/ f = SerialAll /\ f # SerialNone /\ f.kind = "all"
         \/ f # SerialNone /\ f # SerialAll /\ f.kind = "expr" /\ f.sat \in SUBSET Everything
<1>1. SerialNone.kind = "none" /\ SerialAll.kind = "all"
  BY DEF SerialNone, SerialAll
<1>2. CASE f \in {SerialNone, SerialAll}
  BY <1>1, <1>2
<1>3. CASE f \notin {SerialNone, SerialAll}
  <2>1. PICK S \in SUBSET Everything : f = Expr(S)
    BY <1>3 DEF Declared
  <2>2. f.kind = "expr" /\ f.sat = S
    BY <2>1 DEF Expr
  <2>. QED  BY <1>3, <2>2
<1>. QED  BY <1>2, <1>3

\* to_storage returns something that could have been declared, and what it
\* returns it leaves alone.
LEMMA ToStorageIdempotent ==
  ASSUME NEW f \in Declared
  PROVE  ToStorage(f) \in Declared /\ ToStorage(ToStorage(f)) = ToStorage(f)
BY DEF ToStorage, Declared

\* A tautology spelled "*" and a contradiction spelled "" exclude the same
\* tests as the expressions did.
LEMMA ToStorageExcludesTheSame ==
  ASSUME NEW f \in Declared, NEW labels \in Everything
  PROVE  Excludes(ToStorage(f), labels) <=> Excludes(f, labels)
<1>1. SerialNone # SerialAll
  BY DEF SerialNone, SerialAll
<1>2. CASE f \in {SerialNone, SerialAll}
  BY <1>2 DEF ToStorage
<1>3. CASE f \notin {SerialNone, SerialAll}
  BY <1>1, <1>3 DEF ToStorage, IsTautology, IsContradiction, Excludes, Matches
<1>. QED  BY <1>2, <1>3

\* A conflict is one of the two filters excluding the other test.
LEMMA ConflictsByExcludes ==
  ASSUME NEW f, NEW g, NEW L, NEW M
  PROVE  Conflicts([labels |-> L, serial |-> f], [labels |-> M, serial |-> g])
           <=> Excludes(f, M) \/ Excludes(g, L)
BY DEF Conflicts, Excludes

\* can_start's answer, for one of the rows it has seen.
LEMMA CanStartExcludesNobody ==
  ASSUME NEW R, NEW L \in Everything, NEW f \in Declared, CanStart(R, L, f),
         NEW r \in R, r.serial \in Declared
  PROVE  ~Excludes(f, r.labels) /\ ~Excludes(r.serial, L)
BY DeclaredCases DEF CanStart, Excludes

\* "Unparseable" is nothing a filter can mean.
LEMMA UnparseableIsNotDeclared == Unparseable \notin Declared
<1>1. Unparseable.kind = "bad"
  BY DEF Unparseable
<1>. QED  BY <1>1, DeclaredCases

-----------------------------------------------------------------------------
(* The inductive invariant.                                                *)

IsFcn(f) == f = [x \in DOMAIN f |-> f[x]]
SameRule(t, text) == text.serial \in {DeclaredBy(t), ToStorage(DeclaredBy(t))}
Clean(text) ==
  \/ text.serial \in {SerialNone, SerialAll, Unparseable}
  \/ text.canonical /\ text.serial = ToStorage(text.serial)

\* TypeOK, with the types of the functions themselves.
Types ==
  /\ TypeOK
  /\ pc \in [Test -> OpenerPc \cup {"idle"}]
  /\ current \in [Opener -> 0..SCHEMA_VERSION]
  /\ todo \in [Opener -> SUBSET Test]
  /\ declared \in [Legacy -> Text]
  /\ writer \in Opener \cup {Nobody}
  /\ IsFcn(rows)

\* A row is that of a test that runs, or that died running, and excludes what
\* its test declared, in one spelling or the other.
RowsExplained ==
  \A t \in DOMAIN rows : pc[t] \in {"running", "dead"} /\ SameRule(t, rows[t])

RunningHasRow == \A t \in Test : pc[t] = "running" => t \in DOMAIN rows

\* Nobody writes beside the migration, which changes spellings only.
ViewExplained ==
  writer # Nobody =>
    /\ view = [version |-> view.version, rows |-> view.rows]
    /\ IsFcn(view.rows) /\ DOMAIN view.rows = DOMAIN rows
    /\ \A t \in DOMAIN rows : view.rows[t] \in Text /\ SameRule(t, view.rows[t])

Snapshot == [version |-> version, rows |-> rows]

\* How far the migration has come.  The scrub is decided by the version read
\* before the transaction; that it agrees with the one read inside, and that the
\* early return commits what it found, is the heart of MigrationIsOneStep.
Progress ==
  \A p \in Opener :
    /\ pc[p] \in {"begin", "recheck", "scrub"} => current[p] = 0
    /\ pc[p] = "recheck" => view = Snapshot
    /\ pc[p] = "scrub" => version = 0 /\ \A t \in DOMAIN view.rows \ todo[p] : Clean(view.rows[t])
    /\ pc[p] = "commit" =>
         \/ view = Snapshot
         \/ version = 0 /\ view.version = SCHEMA_VERSION /\ \A t \in DOMAIN view.rows : Clean(view.rows[t])

RunningTests == {t \in Test : pc[t] = "running" /\ DeclaredBy(t) # Unparseable}

IInv ==
  /\ Types /\ RowsExplained /\ RunningHasRow /\ ViewExplained /\ Progress
  /\ Apart(RunningTests)

\* Older tests that run when the first process comes are apart already, and
\* their rows are what they declared.
LEMMA InitIInv == Init => IInv
<1> SUFFICES ASSUME Init PROVE IInv
  OBVIOUS
<1>1. PICK S \in SUBSET Legacy :
        /\ Apart({t \in S : declared[t] \notin {x \in Text : x.serial = Unparseable}})
        /\ rows = [t \in S |-> declared[t]]
        /\ pc = [t \in Test |-> IF t \in S THEN "running" ELSE IF t \in Legacy THEN "idle" ELSE "version"]
  BY DEF Init
<1>2. declared \in [Legacy -> Text] /\ \A t \in Legacy : t \in Test /\ DeclaredBy(t) = declared[t].serial
  BY MigrationAssumption DEF Init, Test, DeclaredBy
<1>3. Types
  <2>1. pc \in [Test -> OpenerPc \cup {"idle"}] /\ \A p \in Opener : pc[p] = "version"
    BY <1>1, MigrationAssumption DEF OpenerPc, InTxn, Test
  <2>2. \A t \in Legacy : pc[t] \in {"idle", "running"}
    BY <1>1, <1>2
  <2>3. \A t \in DOMAIN rows : t \in Test /\ rows[t] \in Text
    BY <1>1, <1>2
  <2>4. IsFcn(rows)
    BY <1>1 DEF IsFcn
  <2>. QED
    BY <1>2, <2>1, <2>2, <2>3, <2>4, MigrationAssumption
    DEF Types, TypeOK, Init, SCHEMA_VERSION, OpenerPc, InTxn, Test
<1>4. RowsExplained /\ RunningHasRow
  BY <1>1, <1>2 DEF RowsExplained, RunningHasRow, SameRule
<1>5. ViewExplained /\ Progress
  BY <1>1, MigrationAssumption DEF ViewExplained, Progress, Init, Test
<1>6. Apart(RunningTests)
  <2>1. RunningTests = {t \in S : declared[t] \notin {x \in Text : x.serial = Unparseable}}
    BY <1>1, <1>2 DEF RunningTests, Test
  <2>. QED  BY <1>1, <2>1
<1>. QED  BY <1>3, <1>4, <1>5, <1>6 DEF IInv

\* What a new row's test excludes, and what excludes it, by the rows of the
\* tests that are running.
LEMMA StartKeepsApart ==
  ASSUME IInv, NEW t \in Test, NEW f \in Declared,
         f \in {DeclaredBy(t), ToStorage(DeclaredBy(t))}, DeclaredBy(t) \in Declared,
         MayStart(t, f),
         RunningTests' \subseteq RunningTests \cup {t}, UNCHANGED declared
  PROVE  Apart(RunningTests)'
<1>1. ASSUME NEW u \in RunningTests
      PROVE  ~Excludes(DeclaredBy(t), LabelsOf[u]) /\ ~Excludes(DeclaredBy(u), LabelsOf[t])
  <2>1. u \in Test /\ u \in DOMAIN rows /\ pc[u] = "running" /\ SameRule(u, rows[u])
    BY DEF RunningTests, IInv, RunningHasRow, RowsExplained
  <2>2. DeclaredBy(u) \in Declared
    BY <2>1, MigrationAssumption DEF RunningTests, DeclaredBy, IInv, Types, Text, Test
  <2>3. rows[u].serial \in Declared
    BY <2>1, <2>2, ToStorageIdempotent DEF SameRule
  <2>4. LabelsOf[u] \in Everything /\ LabelsOf[t] \in Everything
    BY <2>1, MigrationAssumption
  <2>5. ~Excludes(f, LabelsOf[u]) /\ ~Excludes(rows[u].serial, LabelsOf[t])
    <3> DEFINE r == RowOf(u, rows[u])
               R == {RowOf(v, rows[v]) : v \in {v \in DOMAIN rows : pc[v] # "dead"}}
    <3>1. r \in R
      BY <2>1
    <3>2. r.serial = rows[u].serial /\ r.labels = LabelsOf[u]
      BY DEF RowOf
    <3>3. CanStart(R, LabelsOf[t], f)
      BY DEF MayStart
    <3> HIDE DEF r, R
    <3>. QED  BY <2>3, <2>4, <3>1, <3>2, <3>3, CanStartExcludesNobody
  <2>. QED  BY <2>1, <2>2, <2>4, <2>5, ToStorageExcludesTheSame DEF SameRule
<1>2. \A u \in Test : DeclaredBy(u)' = DeclaredBy(u)
  BY DEF DeclaredBy
<1>3. SUFFICES ASSUME NEW u \in RunningTests', NEW v \in RunningTests', u # v
               PROVE  ~Excludes(DeclaredBy(u), LabelsOf[v]) /\ ~Excludes(DeclaredBy(v), LabelsOf[u])
  BY <1>2, ConflictsByExcludes DEF Apart, RunningTests
<1>4. CASE u \in RunningTests /\ v \in RunningTests
  BY <1>3, <1>4, ConflictsByExcludes DEF IInv, Apart
<1>5. CASE u = t \/ v = t
  BY <1>1, <1>3, <1>5
<1>. QED  BY <1>4, <1>5

\* When nobody starts, nobody new has to be kept apart.
LEMMA NobodyStartsKeepsApart ==
  ASSUME Apart(RunningTests), RunningTests' \subseteq RunningTests, UNCHANGED declared
  PROVE  Apart(RunningTests)'
BY DEF Apart, DeclaredBy

-----------------------------------------------------------------------------
(* Tests start, end and die.                                               *)

\* A test that starts finds nobody it excludes, by the rows as they are spelled
\* at that moment.
LEMMA StartIInv ==
  ASSUME IInv,
         (\E t \in Legacy : LegacyStart(t)) \/ (\E p \in Opener : Coordinate(p))
  PROVE  IInv'
<1>1. PICK t \in Test, text \in Text, S \in SUBSET {u \in DOMAIN rows : pc[u] = "dead"} :
        /\ pc[t] \in {"idle", "ask"} /\ writer = Nobody
        /\ text.serial \in Declared /\ DeclaredBy(t) \in Declared
        /\ text.serial \in {DeclaredBy(t), ToStorage(DeclaredBy(t))}
        /\ MayStart(t, text.serial)
        /\ rows' = Set(Without(rows, S), t, text)
        /\ pc' = [pc EXCEPT ![t] = "running"]
        /\ UNCHANGED <<version, writer, view, current, todo, declared>>
  <2>1. ASSUME NEW t \in Legacy, LegacyStart(t)
        PROVE  /\ t \in Test /\ declared[t] \in Text /\ declared[t].serial \in Declared
               /\ DeclaredBy(t) = declared[t].serial
               /\ rows = Without(rows, {})
    BY <2>1, MigrationAssumption DEF LegacyStart, IInv, Types, Text, Test, DeclaredBy, Without, IsFcn
  <2>2. ASSUME NEW p \in Opener, Coordinate(p)
        PROVE  /\ p \in Test /\ DeclaredBy(p) = SerialOf[p] /\ SerialOf[p] \in Declared
               /\ ToStorage(SerialOf[p]) \in Declared
               /\ [serial |-> ToStorage(SerialOf[p]), canonical |-> TRUE] \in Text
    BY <2>2, MigrationAssumption, ToStorageIdempotent DEF Test, DeclaredBy, Text
  <2>3. CASE \E t \in Legacy : LegacyStart(t)
    <3>1. PICK t \in Legacy : LegacyStart(t)
      BY <2>3
    <3>2. rows' = Set(Without(rows, {}), t, declared[t])
      BY <2>1, <3>1 DEF LegacyStart
    <3>3. /\ pc[t] = "idle" /\ writer = Nobody /\ MayStart(t, declared[t].serial)
          /\ pc' = [pc EXCEPT ![t] = "running"]
          /\ UNCHANGED <<version, writer, view, current, todo, declared>>
      BY <3>1 DEF LegacyStart
    <3>4. t \in Test /\ declared[t] \in Text /\ {} \in SUBSET {u \in DOMAIN rows : pc[u] = "dead"}
      BY <2>1, <3>1
    <3>. QED  BY <2>1, <3>1, <3>2, <3>3, <3>4, Zenon
  <2>4. CASE \E p \in Opener : Coordinate(p)
    BY <2>2, <2>4 DEF Coordinate
  <2>. QED  BY <2>3, <2>4
<1>2. /\ DOMAIN rows' = (DOMAIN rows \ S) \cup {t} /\ t \notin DOMAIN rows
      /\ rows'[t] = text
      /\ \A u \in DOMAIN rows \ S : rows'[u] = rows[u]
      /\ IsFcn(rows)'
  BY <1>1 DEF Set, Without, IsFcn, IInv, RowsExplained
<1>3. /\ \A u \in Test \ {t} : pc'[u] = pc[u]
      /\ pc'[t] = "running"
      /\ pc' \in [Test -> OpenerPc \cup {"idle"}]
  BY <1>1 DEF IInv, Types, OpenerPc, InTxn
<1>4. Types'
  BY <1>1, <1>2, <1>3, MigrationAssumption DEF IInv, Types, TypeOK, OpenerPc, InTxn, Test
<1>5. \A u \in Test : DeclaredBy(u)' = DeclaredBy(u)
  BY <1>1 DEF DeclaredBy
<1>6. RowsExplained' /\ RunningHasRow'
  BY <1>1, <1>2, <1>3, <1>5 DEF IInv, Types, TypeOK, RowsExplained, RunningHasRow, SameRule
<1>7. ViewExplained'
  BY <1>1 DEF ViewExplained
<1>8. Progress'
  <2>1. \A p \in Opener : pc[p] \notin InTxn /\ p \in Test
    BY <1>1, MigrationAssumption DEF IInv, Types, TypeOK, Test
  <2>. QED  BY <1>1, <1>3, <2>1 DEF IInv, Progress, InTxn
<1>9. RunningTests' \subseteq RunningTests \cup {t}
  BY <1>3, <1>5 DEF RunningTests
<1>10. Apart(RunningTests)'
  BY <1>1, <1>9, StartKeepsApart
<1>. QED  BY <1>4, <1>6, <1>7, <1>8, <1>10 DEF IInv

\* A test that ends takes its row along, and only when nobody migrates.
LEMMA UnregisterIInv ==
  ASSUME IInv, NEW t \in Test, Unregister(t)
  PROVE  IInv'
<1>1. /\ DOMAIN rows' = DOMAIN rows \ {t}
      /\ \A u \in DOMAIN rows' : rows'[u] = rows[u]
      /\ IsFcn(rows)'
  BY DEF Unregister, Without, IsFcn
<1>2. /\ \A u \in Test \ {t} : pc'[u] = pc[u]
      /\ pc[t] = "running" /\ pc'[t] = "ended"
      /\ pc' \in [Test -> OpenerPc \cup {"idle"}]
  BY DEF Unregister, IInv, Types, OpenerPc, InTxn
<1>3. Types'
  BY <1>1, <1>2, MigrationAssumption DEF Unregister, IInv, Types, TypeOK, OpenerPc, InTxn, Test
<1>4. \A u \in Test : DeclaredBy(u)' = DeclaredBy(u)
  BY DEF Unregister, DeclaredBy
<1>5. RowsExplained' /\ RunningHasRow'
  BY <1>1, <1>2, <1>4 DEF IInv, Types, TypeOK, RowsExplained, RunningHasRow, SameRule
<1>6. ViewExplained'
  BY DEF Unregister, ViewExplained
<1>7. Progress'
  <2>1. \A p \in Opener : pc[p] \notin InTxn /\ p \in Test
    BY MigrationAssumption DEF Unregister, IInv, Types, TypeOK, Test
  <2>. QED  BY <1>2, <2>1 DEF Unregister, IInv, Progress, InTxn
<1>8. Apart(RunningTests)'
  BY <1>2, <1>4, NobodyStartsKeepsApart DEF IInv, Unregister, RunningTests
<1>. QED  BY <1>3, <1>5, <1>6, <1>7, <1>8 DEF IInv

\* Whoever fails or dies gives up the write lock and his half-done work, and
\* leaves the committed rows as they are.
LEMMA LeaveIInv ==
  ASSUME IInv, NEW t \in Test, (StatementFails(t) /\ t \in Opener) \/ Dies(t)
  PROVE  IInv'
<1>1. PICK how \in {"panicked", "dead"} :
        /\ Leave(t, how) /\ pc[t] \notin {"idle", "ended", "panicked", "dead"}
        /\ how = "panicked" => t \in Opener /\ pc[t] # "running"
  BY DEF StatementFails, Dies, InTxn
<1>2. /\ \A u \in Test \ {t} : pc'[u] = pc[u]
      /\ pc'[t] = how
      /\ pc' \in [Test -> OpenerPc \cup {"idle"}]
  BY <1>1 DEF Leave, IInv, Types, OpenerPc, InTxn
<1>3. UNCHANGED <<version, rows, current, declared>>
  BY <1>1 DEF Leave
<1>4. IF writer = t THEN writer' = Nobody ELSE UNCHANGED <<writer, view>>
  BY <1>1 DEF Leave
<1>5. /\ todo' \in [Opener -> SUBSET Test]
      /\ \A p \in Opener : todo'[p] = IF p = t THEN {} ELSE todo[p]
  BY <1>1 DEF Leave, IInv, Types
<1>6. writer # Nobody => writer \in Opener /\ pc[writer] \in InTxn
  BY DEF IInv, Types, TypeOK
<1>7. t \in Legacy => how = "dead" /\ writer # t
  BY <1>1, MigrationAssumption DEF IInv, Types, Test
<1>8. Types'
  <2>1. IsFcn(rows)'
    BY <1>3 DEF IInv, Types, IsFcn
  <2>2. \A p \in Opener : pc'[p] \in InTxn <=> writer' = p
    BY <1>2, <1>4, <1>6, MigrationAssumption DEF IInv, Types, TypeOK, InTxn, Test
  <2>3. \A p \in Opener : todo'[p] # {} => pc'[p] = "scrub" /\ todo'[p] \subseteq DOMAIN view'.rows
    BY <1>2, <1>4, <1>5, MigrationAssumption DEF IInv, Types, TypeOK, InTxn, Test
  <2>4. \A p \in Opener : pc'[p] \in OpenerPc
    BY <1>2, MigrationAssumption DEF IInv, Types, TypeOK, OpenerPc, Test
  <2>5. \A u \in Legacy : pc'[u] \in {"idle", "running", "ended", "dead"}
    BY <1>2, <1>7, MigrationAssumption DEF IInv, Types, TypeOK, Test
  <2>6. writer' \in Opener \cup {Nobody}
    BY <1>4 DEF IInv, Types
  <2>. QED
    BY <1>2, <1>3, <1>5, <2>1, <2>2, <2>3, <2>4, <2>5, <2>6 DEF IInv, Types, TypeOK
<1>9. \A u \in Test : DeclaredBy(u)' = DeclaredBy(u)
  BY <1>3 DEF DeclaredBy
<1>10. RowsExplained' /\ RunningHasRow'
  BY <1>1, <1>2, <1>3, <1>9 DEF IInv, Types, TypeOK, RowsExplained, RunningHasRow, SameRule
<1>11. ViewExplained'
  <2>1. CASE writer = t
    BY <1>4, <2>1 DEF ViewExplained
  <2>2. CASE writer # t
    BY <1>3, <1>4, <1>9, <2>2 DEF IInv, Types, TypeOK, ViewExplained, SameRule, IsFcn
  <2>. QED  BY <2>1, <2>2
<1>12. Progress'
  <2> SUFFICES ASSUME NEW p \in Opener, p # t, pc[p] = pc'[p]
               PROVE  /\ pc[p] \in {"begin", "recheck", "scrub"} => current[p] = 0
                      /\ pc[p] \in InTxn => UNCHANGED view /\ todo'[p] = todo[p]
    BY <1>2, <1>3, MigrationAssumption DEF IInv, Progress, Snapshot, InTxn, Test
  <2>. QED  BY <1>4, <1>5 DEF IInv, Progress, Types, TypeOK
<1>13. Apart(RunningTests)'
  BY <1>2, <1>3, <1>9, NobodyStartsKeepsApart DEF IInv, RunningTests
<1>. QED  BY <1>8, <1>10, <1>11, <1>12, <1>13 DEF IInv

-----------------------------------------------------------------------------
(* The migration.                                                          *)

\* Scrubbing a row changes its spelling at most.
LEMMA ScrubbedText ==
  ASSUME NEW t \in Test, NEW text \in Text, SameRule(t, text)
  PROVE  Scrubbed(text) \in Text /\ SameRule(t, Scrubbed(text)) /\ Clean(Scrubbed(text))
<1>1. CASE text.serial = Unparseable
  BY <1>1 DEF Scrubbed, Clean
<1>2. CASE text.serial # Unparseable
  <2>1. text.serial \in Declared
    BY <1>2 DEF Text
  <2>2. Scrubbed(text) = [serial |-> ToStorage(text.serial), canonical |-> TRUE]
    BY <1>2 DEF Scrubbed
  <2>3. Scrubbed(text) \in Text /\ Clean(Scrubbed(text))
    BY <2>1, <2>2, ToStorageIdempotent DEF Text, Clean
  <2>4. CASE text.serial = DeclaredBy(t)
    BY <2>2, <2>3, <2>4 DEF SameRule
  <2>5. CASE text.serial = ToStorage(DeclaredBy(t)) /\ DeclaredBy(t) \in Declared
    BY <2>2, <2>3, <2>5, ToStorageIdempotent DEF SameRule
  <2>6. CASE DeclaredBy(t) \notin Declared
    <3>1. ToStorage(DeclaredBy(t)) # DeclaredBy(t) => ToStorage(DeclaredBy(t)) \in {SerialAll, SerialNone}
      BY DEF ToStorage
    <3>2. \A f \in {SerialAll, SerialNone} : ToStorage(f) = f
      BY DEF ToStorage
    <3>. QED  BY <2>2, <2>3, <2>4, <3>1, <3>2 DEF SameRule
  <2>. QED  BY <2>3, <2>4, <2>5, <2>6 DEF SameRule
<1>. QED  BY <1>1, <1>2

\* A step of the migration before COMMIT works on the view and leaves what
\* others see alone.
LEMMA MigrateIInv ==
  ASSUME IInv, NEW p \in Opener,
         ReadVersion(p) \/ BeginImmediate(p) \/ Recheck(p) \/ BumpVersion(p)
           \/ (\E t \in Legacy : ScrubRow(p, t))
  PROVE  IInv'
<1>1. UNCHANGED <<version, rows, declared>>
  BY DEF ReadVersion, BeginImmediate, Recheck, BumpVersion, ScrubRow
<1>2. \A u \in Test : DeclaredBy(u)' = DeclaredBy(u)
  BY <1>1 DEF DeclaredBy
<1>3. p \in Test /\ p \notin Legacy /\ p # Nobody
  BY MigrationAssumption DEF Test
<1>4. /\ \A u \in Test \ {p} : pc'[u] = pc[u]
      /\ pc[p] \notin {"running", "dead"} /\ pc'[p] \notin {"running", "dead"}
      /\ pc'[p] \in OpenerPc /\ pc' \in [Test -> OpenerPc \cup {"idle"}]
  BY <1>3 DEF ReadVersion, BeginImmediate, Recheck, BumpVersion, ScrubRow, IInv, Types, OpenerPc, InTxn
<1>5. RowsExplained' /\ RunningHasRow'
  BY <1>1, <1>2, <1>4 DEF IInv, Types, TypeOK, RowsExplained, RunningHasRow, SameRule
<1>6. Apart(RunningTests)'
  BY <1>1, <1>2, <1>4, NobodyStartsKeepsApart DEF IInv, RunningTests
<1>7. IsFcn(rows)' /\ (\A t \in DOMAIN rows' : t \in Test /\ rows'[t] \in Text)
  BY <1>1 DEF IInv, Types, TypeOK, IsFcn
<1>8. \A t \in Legacy : pc'[t] = pc[t]
  BY <1>3, <1>4 DEF Test
<1>9. ASSUME UNCHANGED view, writer' = writer
      PROVE  ViewExplained'
  BY <1>1, <1>2, <1>9 DEF IInv, Types, TypeOK, ViewExplained, SameRule, IsFcn
<1>10. version \in {0, 1} /\ SCHEMA_VERSION = 1
  BY DEF IInv, Types, TypeOK, SCHEMA_VERSION
<1>11. \A q \in Opener \ {p} : pc[q] \in InTxn => writer = q
  BY DEF IInv, Types, TypeOK
<1>0. \A q \in Opener : q # Nobody /\ q \in Test
  BY MigrationAssumption DEF Test
<1>12. CASE ReadVersion(p)
  <2>1. Types'
    BY <1>1, <1>3, <1>4, <1>7, <1>8, <1>10, <1>12
    DEF ReadVersion, IInv, Types, TypeOK, InTxn, OpenerPc, Test
  <2>2. Progress'
    BY <1>1, <1>3, <1>4, <1>10, <1>12 DEF ReadVersion, IInv, Types, Progress, Snapshot, Test
  <2>. QED  BY <1>5, <1>6, <1>9, <1>12, <2>1, <2>2 DEF IInv, ReadVersion
<1>13. CASE BeginImmediate(p)
  <2>1. view' = Snapshot' /\ writer' = p
    BY <1>1, <1>13 DEF BeginImmediate, Snapshot
  <2>2. Types'
    <3>1. \A q \in Opener : pc[q] \notin InTxn /\ todo'[q] = {}
      BY <1>0, <1>13 DEF BeginImmediate, IInv, Types, TypeOK, InTxn
    <3>2. pc'[p] = "recheck" /\ \A q \in Opener : pc'[q] \in InTxn <=> writer' = q
      BY <1>3, <1>4, <1>13, <2>1, <3>1 DEF BeginImmediate, IInv, Types, InTxn, Test
    <3>. QED
      BY <1>1, <1>3, <1>4, <1>7, <1>8, <1>10, <1>13, <3>1, <3>2
      DEF BeginImmediate, IInv, Types, TypeOK, OpenerPc, Test
  <2>3. ViewExplained'
    BY <1>1, <1>2, <1>7, <1>13, <2>1
    DEF Snapshot, IInv, Types, TypeOK, ViewExplained, RowsExplained, SameRule, IsFcn
  <2>4. Progress'
    <3>1. \A q \in Opener \ {p} : pc'[q] = pc[q] /\ pc[q] \notin InTxn
      BY <1>0, <1>4, <1>11, <1>13 DEF BeginImmediate
    <3>2. pc[p] = "begin" /\ pc'[p] = "recheck" /\ UNCHANGED <<current, todo>>
      BY <1>3, <1>13 DEF BeginImmediate, IInv, Types
    <3>. QED  BY <1>1, <2>1, <3>1, <3>2 DEF IInv, Progress, InTxn
  <2>. QED  BY <1>5, <1>6, <2>2, <2>3, <2>4 DEF IInv
<1>14. CASE Recheck(p)
  <2>1. writer = p /\ view = Snapshot /\ current[p] = 0 /\ DOMAIN view.rows = DOMAIN rows
    BY <1>3, <1>14 DEF Recheck, IInv, Types, TypeOK, InTxn, Progress, ViewExplained
  <2>2. view.version = version /\ view.rows = rows
    BY <2>1 DEF Snapshot
  <2>3. Types'
    BY <1>1, <1>3, <1>4, <1>7, <1>8, <1>10, <1>14, <2>1
    DEF Recheck, Selected, IInv, Types, TypeOK, InTxn, OpenerPc, Test
  <2>4. Progress'
    <3>1. pc'[p] = "scrub" =>
            version = 0 /\ todo'[p] = {t \in DOMAIN view.rows : view.rows[t].serial \notin {SerialNone, SerialAll}}
      BY <1>3, <1>10, <1>14, <2>1, <2>2 DEF Recheck, Selected, IInv, Types
    <3>2. pc'[p] = "scrub" => \A t \in DOMAIN view.rows \ todo'[p] : Clean(view.rows[t])
      BY <3>1 DEF Clean
    <3>3. pc'[p] \in {"scrub", "commit"} /\ UNCHANGED <<view, current>> /\ view = Snapshot'
      BY <1>1, <1>3, <1>14, <2>1 DEF Recheck, IInv, Types, Snapshot
    <3>4. \A q \in Opener \ {p} : pc'[q] = pc[q] /\ todo'[q] = todo[q] /\ pc[q] \notin InTxn
      BY <1>4, <1>11, <1>14, <2>1 DEF Recheck, IInv, Types, Test
    <3>. QED  BY <1>1, <2>1, <3>1, <3>2, <3>3, <3>4 DEF IInv, Progress, InTxn
  <2>. QED  BY <1>5, <1>6, <1>9, <1>14, <2>3, <2>4 DEF IInv, Recheck
<1>15. CASE BumpVersion(p)
  <2>1. writer = p /\ version = 0 /\ todo[p] = {} /\ DOMAIN view.rows = DOMAIN rows
        /\ \A t \in DOMAIN view.rows : Clean(view.rows[t])
    BY <1>3, <1>15 DEF BumpVersion, IInv, Types, TypeOK, InTxn, Progress, ViewExplained
  <2>2. view' = [version |-> SCHEMA_VERSION, rows |-> view.rows]
    BY <1>3, <1>15, <2>1 DEF BumpVersion, IInv, ViewExplained
  <2>3. view'.version = SCHEMA_VERSION /\ view'.rows = view.rows
    BY <2>2
  <2>4. Types'
    BY <1>1, <1>3, <1>4, <1>7, <1>8, <1>10, <1>15, <2>1, <2>3
    DEF BumpVersion, IInv, Types, TypeOK, InTxn, OpenerPc, Test
  <2>5. ViewExplained'
    BY <1>1, <1>2, <1>3, <2>1, <2>2, <2>3
    DEF IInv, Types, TypeOK, ViewExplained, SameRule, IsFcn
  <2>6. Progress'
    <3>1. \A q \in Opener \ {p} : pc'[q] = pc[q] /\ pc[q] \notin InTxn
      BY <1>4, <1>11, <2>1 DEF Test
    <3>2. pc'[p] = "commit" /\ UNCHANGED current
      BY <1>3, <1>15 DEF BumpVersion, IInv, Types
    <3>. QED  BY <1>1, <2>1, <2>3, <3>1, <3>2 DEF IInv, Progress, InTxn
  <2>. QED  BY <1>5, <1>6, <2>4, <2>5, <2>6 DEF IInv
<1>16. ASSUME NEW t \in Legacy, ScrubRow(p, t) PROVE IInv'
  <2>1. writer = p /\ version = 0 /\ DOMAIN view.rows = DOMAIN rows /\ IsFcn(view.rows)
        /\ view = [version |-> view.version, rows |-> view.rows] /\ t \in DOMAIN rows /\ t \in Test
    BY <1>3, <1>16 DEF ScrubRow, IInv, Types, TypeOK, InTxn, Progress, ViewExplained, Test
  <2>2. view' = [version |-> view.version, rows |-> [view.rows EXCEPT ![t] = Scrubbed(view.rows[t])]]
    BY <1>16, <2>1 DEF ScrubRow
  <2>3. /\ view'.version = view.version /\ DOMAIN view'.rows = DOMAIN view.rows
        /\ IsFcn(view'.rows)
        /\ \A u \in DOMAIN rows : view'.rows[u] = IF u = t THEN Scrubbed(view.rows[t]) ELSE view.rows[u]
    BY <2>1, <2>2 DEF IsFcn
  <2>4. \A u \in DOMAIN rows : view.rows[u] \in Text /\ SameRule(u, view.rows[u])
    BY <1>3, <2>1 DEF IInv, ViewExplained
  <2>5. Scrubbed(view.rows[t]) \in Text /\ SameRule(t, Scrubbed(view.rows[t])) /\ Clean(Scrubbed(view.rows[t]))
    BY <2>1, <2>4, ScrubbedText
  <2>6. todo' = [todo EXCEPT ![p] = @ \ {t}] /\ pc[p] = "scrub" /\ UNCHANGED <<pc, writer, current>>
    BY <1>16 DEF ScrubRow
  <2>7. Types'
    BY <1>1, <1>3, <1>4, <1>7, <1>8, <2>1, <2>3, <2>6
    DEF IInv, Types, TypeOK, InTxn, OpenerPc, Test
  <2>8. ViewExplained'
    <3>1. view' = [version |-> view'.version, rows |-> view'.rows]
      BY <2>2
    <3>2. \A u \in DOMAIN rows : view'.rows[u] \in Text /\ SameRule(u, view.rows[u])'
      BY <1>2, <2>3, <2>4, <2>5 DEF SameRule, IInv, Types, TypeOK
    <3>. QED  BY <1>1, <2>1, <2>3, <3>1, <3>2 DEF ViewExplained
  <2>9. Progress'
    <3>1. \A q \in Opener \ {p} : pc[q] \notin InTxn /\ todo'[q] = todo[q]
      BY <1>11, <2>1, <2>6 DEF IInv, Types
    <3>2. todo'[p] = todo[p] \ {t}
      BY <2>6 DEF IInv, Types
    <3>3. \A u \in DOMAIN view.rows \ todo[p] : Clean(view.rows[u])
      BY <2>6 DEF IInv, Progress
    <3>4. \A u \in DOMAIN view'.rows \ todo'[p] : Clean(view'.rows[u])
      BY <2>1, <2>3, <2>5, <3>2, <3>3
    <3>. QED  BY <1>1, <2>1, <2>6, <3>1, <3>4 DEF IInv, Progress, InTxn
  <2>. QED  BY <1>5, <1>6, <2>7, <2>8, <2>9 DEF IInv
<1>. QED  BY <1>12, <1>13, <1>14, <1>15, <1>16

\* COMMIT shows everybody the view: either what was there before, or the same
\* rules in their new spelling.
LEMMA CommitIInv ==
  ASSUME IInv, NEW p \in Opener, CommitMigration(p)
  PROVE  IInv'
<1>1. \A q \in Opener : q \in Test /\ q # Nobody /\ q \notin Legacy
  BY MigrationAssumption DEF Test
<1>2. /\ pc[p] = "commit" /\ version' = view.version /\ rows' = view.rows
      /\ writer' = Nobody /\ pc' = [pc EXCEPT ![p] = "ask"]
      /\ UNCHANGED <<current, todo, declared>>
  BY DEF CommitMigration
<1>3. writer = p /\ \A q \in Opener \ {p} : pc[q] \notin InTxn
  BY <1>2 DEF IInv, Types, TypeOK, InTxn
<1>4. /\ IsFcn(rows)' /\ DOMAIN rows' = DOMAIN rows
      /\ \A t \in DOMAIN rows : t \in Test /\ rows'[t] \in Text /\ SameRule(t, rows'[t])
  BY <1>1, <1>2, <1>3 DEF IInv, ViewExplained, Types, TypeOK, IsFcn
<1>5. version' \in 0..SCHEMA_VERSION
  BY <1>2 DEF IInv, Types, TypeOK, Progress, Snapshot, SCHEMA_VERSION
<1>6. /\ \A u \in Test \ {p} : pc'[u] = pc[u]
      /\ pc'[p] = "ask" /\ pc' \in [Test -> OpenerPc \cup {"idle"}]
  BY <1>1, <1>2 DEF IInv, Types, OpenerPc, InTxn
<1>7. \A q \in Opener : pc'[q] \notin InTxn /\ todo'[q] = {}
  BY <1>1, <1>2, <1>3, <1>6 DEF IInv, Types, TypeOK, InTxn
<1>8. \A u \in Test : DeclaredBy(u)' = DeclaredBy(u)
  BY <1>2 DEF DeclaredBy
<1>9. Types'
  BY <1>1, <1>2, <1>4, <1>5, <1>6, <1>7 DEF IInv, Types, TypeOK, OpenerPc, Test
<1>10. RowsExplained' /\ RunningHasRow'
  BY <1>2, <1>4, <1>6, <1>8 DEF IInv, RowsExplained, RunningHasRow, SameRule
<1>11. ViewExplained'
  BY <1>2 DEF ViewExplained
<1>12. Progress'
  BY <1>1, <1>2, <1>6, <1>7 DEF IInv, Progress, InTxn
<1>13. Apart(RunningTests)'
  BY <1>2, <1>6, <1>8, NobodyStartsKeepsApart DEF IInv, RunningTests
<1>. QED  BY <1>9, <1>10, <1>11, <1>12, <1>13 DEF IInv

-----------------------------------------------------------------------------
(* The theorems.                                                           *)

\* Every step of anybody preserves the invariant.
LEMMA NextIInv == IInv /\ [Next]_vars => IInv'
<1> SUFFICES ASSUME IInv, [Next]_vars PROVE IInv'
  OBVIOUS
<1>1. ASSUME NEW p \in Opener, CommitMigration(p) PROVE IInv'
  BY <1>1, CommitIInv
<1>2. ASSUME NEW p \in Opener, (Migrate(p) /\ ~CommitMigration(p)) \/ BeginImmediate(p) PROVE IInv'
  BY <1>2, MigrateIInv DEF Migrate
<1>3. ASSUME (\E t \in Legacy : LegacyStart(t)) \/ (\E p \in Opener : Coordinate(p)) PROVE IInv'
  BY <1>3, StartIInv
<1>4. ASSUME NEW t \in Test, Unregister(t) PROVE IInv'
  BY <1>4, UnregisterIInv
<1>5. ASSUME NEW t \in Test, (StatementFails(t) /\ t \in Opener) \/ Dies(t) PROVE IInv'
  BY <1>5, LeaveIInv
<1>6. ASSUME UNCHANGED vars PROVE IInv'
  BY <1>6 DEF vars, IInv, Types, TypeOK, RowsExplained, RunningHasRow, ViewExplained, Progress, Snapshot,
              SameRule, DeclaredBy, RunningTests, Apart, IsFcn
<1>7. Opener \subseteq Test
  BY DEF Test
<1>. QED  BY <1>1, <1>2, <1>3, <1>4, <1>5, <1>6, <1>7 DEF Next, Finished

\* Rows keep the rules of their tests, and the migration's view differs from
\* the committed rows in spelling only, in every reachable state.
THEOREM RulesAreKept == Spec => []IInv
<1>1. Init => IInv
  BY InitIInv
<1>2. IInv /\ [Next]_vars => IInv'
  BY NextIInv
<1>. QED  BY <1>1, <1>2, PTL DEF Spec

\* Tests of the old and the new skuld that exclude one another never overlap,
\* however often migrate_schema is interrupted and whoever attempts it.
THEOREM ExclusionSurvivesMigration == Spec => []ExclusionSurvives
<1>1. IInv => ExclusionSurvives
  BY DEF IInv, Types, ExclusionSurvives, RunningTests
<1>. QED  BY <1>1, RulesAreKept, PTL

\* Scrub and version become visible together, and once: the version that
\* decided the scrub, read before BEGIN IMMEDIATE, is never a stale one.
THEOREM MigrationIsAtomic == Spec => MigrationIsOneStep
<1> DEFINE A == /\ (\E t \in DOMAIN rows \cap DOMAIN rows' : rows'[t] # rows[t]) =>
                     version = 0 /\ version' = SCHEMA_VERSION
                /\ version' > version =>
                     \A t \in DOMAIN rows' :
                       \/ rows'[t].serial \in {SerialNone, SerialAll, Unparseable}
                       \/ rows'[t].canonical /\ rows'[t].serial = ToStorage(rows'[t].serial)
<1>1. IInv /\ [Next]_vars => [A]_vars
  <2> SUFFICES ASSUME IInv, Next PROVE A
    OBVIOUS
  <2>1. version \in Int /\ ~(version > version)
    BY DEF IInv, Types, TypeOK, SCHEMA_VERSION
  <2>2. ASSUME UNCHANGED version, \A t \in DOMAIN rows \cap DOMAIN rows' : rows'[t] = rows[t]
        PROVE  A
    BY <2>1, <2>2
  <2>3. ASSUME NEW p \in Opener, CommitMigration(p) PROVE A
    <3>1. CASE view = Snapshot
      BY <2>2, <2>3, <3>1 DEF CommitMigration, Snapshot
    <3>2. CASE version = 0 /\ view.version = SCHEMA_VERSION /\ \A t \in DOMAIN view.rows : Clean(view.rows[t])
      BY <2>3, <3>2 DEF CommitMigration, Clean
    <3>. QED  BY <2>3, <3>1, <3>2 DEF CommitMigration, IInv, Progress
  <2>4. ASSUME NEW t \in Legacy, LegacyStart(t) PROVE A
    BY <2>2, <2>4 DEF LegacyStart, Set, IInv, RowsExplained
  <2>5. ASSUME NEW p \in Opener, Coordinate(p) PROVE A
    BY <2>2, <2>5 DEF Coordinate, Set, Without, IInv, RowsExplained
  <2>6. ASSUME NEW t \in Test, Unregister(t) PROVE A
    BY <2>2, <2>6 DEF Unregister, Without
  <2>7. ASSUME UNCHANGED <<version, rows>> PROVE A
    BY <2>2, <2>7
  <2>8. ASSUME NEW p \in Opener, Migrate(p) \/ BeginImmediate(p) \/ StatementFails(p) PROVE A
    BY <2>3, <2>7, <2>8
    DEF Migrate, ReadVersion, Recheck, BumpVersion, ScrubRow, BeginImmediate, StatementFails, Leave
  <2>9. ASSUME NEW t \in Test, Dies(t) PROVE A
    BY <2>7, <2>9 DEF Dies, Leave
  <2> HIDE DEF A
  <2>. QED  BY <2>4, <2>5, <2>6, <2>7, <2>8, <2>9 DEF Next, Finished, vars
<1>. QED  BY <1>1, RulesAreKept, PTL DEF Spec, MigrationIsOneStep
=============================================================================
