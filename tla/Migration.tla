----------------------------- MODULE Migration -----------------------------
(***************************************************************************)
(* migrate_schema beside running tests.                                    *)
(*                                                                         *)
(* Tests of an older skuld (Legacy) have rows whose serial filter is the   *)
(* text as it was declared.  The first process of this skuld to open the   *)
(* database rewrites them and raises the schema version, in one            *)
(* transaction.  A stored filter is its meaning (see SerialRules) and      *)
(* whether it is spelled in the canonical way.                             *)
(*                                                                         *)
(* The init lock, which keeps openers apart as long as its directory is    *)
(* not replaced, is left out: the migration has a lock of its own, and it  *)
(* must do.  Checks for a moved database are in MovedDb; here a failed     *)
(* check is one more failing statement.                                    *)
(***************************************************************************)
EXTENDS Integers, FiniteSets, SerialRules

CONSTANTS
  Opener,          \* processes of this skuld, each with one test
  Legacy,          \* tests of processes of an older skuld
  LabelsOf,        \* labels of every test
  SerialOf,        \* serial declaration of every opener's test
  LegacySerial,    \* LegacySerial[t]: what a legacy test may have declared, spelling included
  Faults           \* may statements fail?

SCHEMA_VERSION == 1
Nobody == "nobody"
Test == Opener \cup Legacy
Text == [serial : Declared \cup {Unparseable}, canonical : BOOLEAN]

ASSUME MigrationAssumption ==
  /\ Opener \cap Legacy = {} /\ Nobody \notin Test
  /\ LabelsOf \in [Test -> Everything]
  /\ SerialOf \in [Opener -> Declared]
  /\ LegacySerial \in [Legacy -> SUBSET Text]
  /\ Faults \in BOOLEAN

VARIABLES
  version,     \* PRAGMA user_version
  rows,        \* rows[t]: the text in t's row, for the tests that have one
  writer,      \* who holds SQLite's write lock
  view,        \* the writer's [version, rows]
  pc,          \* pc[t]; openers: "version", "begin", "recheck", "scrub", "commit",
               \* "ask", "running", "ended", "panicked", "dead"; legacy: "idle", "running", "ended", "dead"
  current,     \* current[p]: the version read before BEGIN IMMEDIATE
  todo,        \* todo[p]: rows the scrub has selected and not yet looked at
  declared     \* declared[t]: what a legacy test has declared

vars == <<version, rows, writer, view, pc, current, todo, declared>>

-----------------------------------------------------------------------------
Empty == [t \in {} |-> {}]
NoView == [version |-> 0, rows |-> Empty]
Set(f, t, v) == [u \in DOMAIN f \cup {t} |-> IF u = t THEN v ELSE f[u]]
Without(f, S) == [u \in DOMAIN f \ S |-> f[u]]

\* A row as can_start sees it.
RowOf(t, text) == [labels |-> LabelsOf[t], serial |-> text.serial]
DeclaredBy(t) == IF t \in Opener THEN SerialOf[t] ELSE declared[t].serial

\* clean_stale_entries, then can_start.
MayStart(t, serial) ==
  CanStart({RowOf(u, rows[u]) : u \in {u \in DOMAIN rows : pc[u] # "dead"}}, LabelsOf[t], serial)

\* Legacy tests that run when the first process opens the database exclude
\* one another, as they do under every version.
Apart(S) ==
  \A t, u \in S : t # u =>
    ~Conflicts([labels |-> LabelsOf[t], serial |-> DeclaredBy(t)],
               [labels |-> LabelsOf[u], serial |-> DeclaredBy(u)])

Init ==
  /\ version \in {0, SCHEMA_VERSION}
  /\ declared \in {d \in [Legacy -> Text] : \A t \in Legacy : d[t] \in LegacySerial[t]}
  /\ \E S \in SUBSET Legacy :
       /\ Apart({t \in S : declared[t] \notin {x \in Text : x.serial = Unparseable}})
       /\ rows = [t \in S |-> declared[t]]
       /\ pc = [t \in Test |-> IF t \in S THEN "running" ELSE IF t \in Legacy THEN "idle" ELSE "version"]
  /\ writer = Nobody /\ view = NoView
  /\ current = [p \in Opener |-> 0]
  /\ todo = [p \in Opener |-> {}]

-----------------------------------------------------------------------------
(* Tests.                                                                  *)

\* An older skuld starts a test by the same rule and stores what was declared.
LegacyStart(t) ==
  /\ pc[t] = "idle" /\ writer = Nobody
  /\ declared[t].serial # Unparseable
  /\ MayStart(t, declared[t].serial)
  /\ rows' = Set(rows, t, declared[t])
  /\ pc' = [pc EXCEPT ![t] = "running"]
  /\ UNCHANGED <<version, writer, view, current, todo, declared>>

\* coordinate, one transaction: clean, decide, register.
Coordinate(p) ==
  /\ pc[p] = "ask" /\ writer = Nobody
  /\ MayStart(p, ToStorage(SerialOf[p]))
  /\ rows' = Set(Without(rows, {u \in DOMAIN rows : pc[u] = "dead"}), p,
                 [serial |-> ToStorage(SerialOf[p]), canonical |-> TRUE])
  /\ pc' = [pc EXCEPT ![p] = "running"]
  /\ UNCHANGED <<version, writer, view, current, todo, declared>>

\* TestRegistration::drop, of either skuld.
Unregister(t) ==
  /\ pc[t] = "running" /\ writer = Nobody
  /\ rows' = Without(rows, {t})
  /\ pc' = [pc EXCEPT ![t] = "ended"]
  /\ UNCHANGED <<version, writer, view, current, todo, declared>>

-----------------------------------------------------------------------------
(* migrate_schema.                                                         *)

ReadVersion(p) ==
  /\ pc[p] = "version"
  /\ current' = [current EXCEPT ![p] = version]
  /\ pc' = [pc EXCEPT ![p] = IF version >= SCHEMA_VERSION THEN "ask" ELSE "begin"]
  /\ UNCHANGED <<version, rows, writer, view, todo, declared>>

BeginImmediate(p) ==
  /\ pc[p] = "begin" /\ writer = Nobody
  /\ writer' = p
  /\ view' = [version |-> version, rows |-> rows]
  /\ pc' = [pc EXCEPT ![p] = "recheck"]
  /\ UNCHANGED <<version, rows, current, todo, declared>>

Selected(p) ==
  IF current[p] < 1
  THEN {t \in DOMAIN view.rows : view.rows[t].serial \notin {SerialNone, SerialAll}}
  ELSE {}

\* Mutant: the version is not read again.
RecheckNothing(p) ==
  /\ pc[p] = "recheck"
  /\ pc' = [pc EXCEPT ![p] = "scrub"]
  /\ todo' = [todo EXCEPT ![p] = Selected(p)]
  /\ UNCHANGED <<version, rows, writer, view, current, declared>>

\* Mutant: the early return forgets the transaction.
RecheckReturns(p) ==
  /\ pc[p] = "recheck"
  /\ IF view.version >= SCHEMA_VERSION
     THEN pc' = [pc EXCEPT ![p] = "ask"] /\ UNCHANGED todo
     ELSE /\ pc' = [pc EXCEPT ![p] = "scrub"]
          /\ todo' = [todo EXCEPT ![p] = Selected(p)]
  /\ UNCHANGED <<version, rows, writer, view, current, declared>>

\* Somebody else may have migrated since; otherwise the scrub's SELECT.
Recheck(p) ==
  /\ pc[p] = "recheck"
  /\ IF view.version >= SCHEMA_VERSION
     THEN pc' = [pc EXCEPT ![p] = "commit"] /\ UNCHANGED todo
     ELSE /\ pc' = [pc EXCEPT ![p] = "scrub"]
          /\ todo' = [todo EXCEPT ![p] = Selected(p)]
  /\ UNCHANGED <<version, rows, writer, view, current, declared>>

\* Mutant: a contradiction keeps its expression and a tautology is taken for one.
ScrubbedWrong(text) ==
  IF text.serial = Unparseable THEN text
  ELSE [serial |-> IF IsTautology(text.serial) THEN SerialNone ELSE ToStorage(text.serial), canonical |-> TRUE]

\* The new text of a row: canonical, a tautology as "*", a contradiction as "";
\* what does not parse is left alone.
Scrubbed(text) ==
  IF text.serial = Unparseable THEN text
  ELSE [serial |-> ToStorage(text.serial), canonical |-> TRUE]

ScrubRow(p, t) ==
  /\ pc[p] = "scrub" /\ t \in todo[p]
  /\ view' = [view EXCEPT !.rows[t] = Scrubbed(@)]
  /\ todo' = [todo EXCEPT ![p] = @ \ {t}]
  /\ UNCHANGED <<version, rows, writer, pc, current, declared>>

BumpVersion(p) ==
  /\ pc[p] = "scrub" /\ todo[p] = {}
  /\ view' = [view EXCEPT !.version = SCHEMA_VERSION]
  /\ pc' = [pc EXCEPT ![p] = "commit"]
  /\ UNCHANGED <<version, rows, writer, current, todo, declared>>

CommitMigration(p) ==
  /\ pc[p] = "commit"
  /\ version' = view.version /\ rows' = view.rows
  /\ writer' = Nobody /\ view' = NoView
  /\ pc' = [pc EXCEPT ![p] = "ask"]
  /\ UNCHANGED <<current, todo, declared>>

-----------------------------------------------------------------------------
(* Failures.  An open transaction goes with its connection.                *)
InTxn == {"recheck", "scrub", "commit"}
Leave(t, how) ==
  /\ pc' = [pc EXCEPT ![t] = how]
  /\ IF writer = t THEN writer' = Nobody /\ view' = NoView ELSE UNCHANGED <<writer, view>>
  /\ todo' = [p \in Opener |-> IF p = t THEN {} ELSE todo[p]]
  /\ UNCHANGED <<version, rows, current, declared>>

\* A statement fails, COMMIT included: or_panic, or commit_migration after a
\* ROLLBACK.
StatementFails(p) == Faults /\ pc[p] \in InTxn \cup {"version", "begin", "ask"} /\ Leave(p, "panicked")

\* A process dies; its row, if it has one, stays.
Dies(t) == pc[t] \notin {"idle", "ended", "panicked", "dead"} /\ Leave(t, "dead")

Finished ==
  /\ \A p \in Opener : pc[p] \in {"ended", "panicked", "dead"}
  /\ UNCHANGED vars

Migrate(p) ==
  \/ ReadVersion(p) \/ Recheck(p) \/ BumpVersion(p) \/ CommitMigration(p)
  \/ \E t \in Legacy : ScrubRow(p, t)

Next ==
  \/ \E p \in Opener :
       \/ Migrate(p) \/ BeginImmediate(p) \/ Coordinate(p) \/ StatementFails(p)
  \/ \E t \in Legacy : LegacyStart(t)
  \/ \E t \in Test : Unregister(t) \/ Dies(t)
  \/ Finished

\* BEGIN IMMEDIATE, coordinate and the DELETE poll for the write lock without
\* a limit; bodies end.  Older tests need not start.
Fairness ==
  /\ \A p \in Opener : WF_vars(Migrate(p)) /\ SF_vars(BeginImmediate(p)) /\ SF_vars(Coordinate(p))
  /\ \A t \in Test : SF_vars(Unregister(t))

Spec == Init /\ [][Next]_vars /\ Fairness

-----------------------------------------------------------------------------
OpenerPc == InTxn \cup {"version", "begin", "ask", "running", "ended", "panicked", "dead"}

\* Types; and the write lock is held by exactly the opener that is inside the
\* migration's transaction.
TypeOK ==
  /\ version \in 0..SCHEMA_VERSION
  /\ \A t \in DOMAIN rows : t \in Test /\ rows[t] \in Text
  /\ \A p \in Opener : pc[p] \in OpenerPc /\ current[p] \in 0..SCHEMA_VERSION
  /\ \A t \in Legacy : pc[t] \in {"idle", "running", "ended", "dead"}
  /\ \A p \in Opener : todo[p] # {} => pc[p] = "scrub" /\ todo[p] \subseteq DOMAIN view.rows
  /\ \A p \in Opener : pc[p] \in InTxn <=> writer = p

\* A migration, however interrupted and however many processes attempt it,
\* never changes what a running test excludes: tests of the old and the new
\* skuld that exclude one another by what they declared do not overlap, and the
\* write lock is with the opener that migrates (TypeOK).
ExclusionSurvives ==
  TypeOK /\ Apart({t \in Test : pc[t] = "running" /\ DeclaredBy(t) # Unparseable})

\* The scrub and the new version become visible together, once: no committed
\* row is rewritten except by the step that takes the version from 0 to 1, and
\* that step leaves every row that parses spelled as register would spell it.
MigrationIsOneStep ==
  [][/\ (\E t \in DOMAIN rows \cap DOMAIN rows' : rows'[t] # rows[t]) =>
          version = 0 /\ version' = SCHEMA_VERSION
     /\ version' > version =>
          \A t \in DOMAIN rows' :
            \/ rows'[t].serial \in {SerialNone, SerialAll, Unparseable}
            \/ rows'[t].canonical /\ rows'[t].serial = ToStorage(rows'[t].serial)]_vars

\* Every opener migrates or sees that it need not, and gets its turn, unless
\* it fails or dies: nobody is left waiting behind a transaction that nobody
\* will end.
EveryOpenerEnds ==
  \A p \in Opener : <>(pc[p] \in {"ended", "panicked", "dead"})
=============================================================================
