---------------------------- MODULE SerialRules ----------------------------
(***************************************************************************)
(* The blocking rule of skuld's serial tests as pure operators.            *)
(*                                                                         *)
(* A label filter is represented by what it accepts: the set of label sets *)
(* it matches ("sat").  Two expressions with the same meaning are the same *)
(* value, which is what LabelFilter's canonical (BDD) form provides.  The  *)
(* two sentinels of the `serial` field, "" and "*", and a string that does *)
(* not parse are kinds of their own because the code treats them by name.  *)
(***************************************************************************)
CONSTANT Label

SerialNone == [kind |-> "none", sat |-> {}]
SerialAll == [kind |-> "all", sat |-> {}]
Expr(S) == [kind |-> "expr", sat |-> S]
Unparseable == [kind |-> "bad", sat |-> {}]

Everything == SUBSET Label

\* What a test or a fixture may declare: validate_serial_filters has rejected
\* everything that does not parse.
Declared == {SerialNone, SerialAll} \cup {Expr(S) : S \in SUBSET Everything}

\* LabelFilter::is_tautology, is_contradiction, matches
IsTautology(f) == f.sat = Everything
IsContradiction(f) == f.sat = {}
Matches(f, labels) == labels \in f.sat

(***************************************************************************)
(* The form a filter has in the database and in the nextest metadata dump. *)
(***************************************************************************)
ToStorage(f) ==
  IF f \in {SerialNone, SerialAll} THEN f
  ELSE IF IsTautology(f) THEN SerialAll
  ELSE IF IsContradiction(f) THEN SerialNone
  ELSE f

\* What ToStorage can return, and the rows register() can write.
Stored == {SerialNone, SerialAll} \cup {Expr(S) : S \in (SUBSET Everything) \ {{}, Everything}}
StoredRow == [labels : Everything, serial : Stored]

(***************************************************************************)
(* A test's serial declaration combined with one of its fixtures'.         *)
(***************************************************************************)
MergeSerialFilters(a, b) ==
  IF a = SerialNone THEN b
  ELSE IF b = SerialNone THEN a
  ELSE IF SerialAll \in {a, b} THEN SerialAll
  ELSE Expr(a.sat \cup b.sat)

\* Mutant: a waiting test asks only whether the running ones' filters match it.
CanStartIgnoresOwn(R, labels, serial) ==
  /\ \A r \in R : r.serial # SerialAll
  /\ \A r \in R : r.serial.kind = "expr" => ~Matches(r.serial, labels)
  /\ serial = SerialAll => R = {}

(***************************************************************************)
(* May a test with these labels and this stored filter start while the     *)
(* rows R are in the `running` table?  The four queries of can_start, in   *)
(* their order: (a) a global-serial row, (b) a row whose filter matches    *)
(* me, (c) I am global-serial and anything runs, (d) a row my filter       *)
(* matches.  A row whose filter does not parse is skipped by (b) only.     *)
(***************************************************************************)
CanStart(R, labels, serial) ==
  /\ \A r \in R : r.serial # SerialAll
  /\ \A r \in R : r.serial.kind = "expr" => ~Matches(r.serial, labels)
  /\ serial = SerialAll => R = {}
  /\ serial.kind = "expr" => \A r \in R : ~Matches(serial, r.labels)

\* Mutant: only the first test's filter is consulted.
ConflictsOneWay(a, b) ==
  \/ a.serial = SerialAll \/ b.serial = SerialAll
  \/ a.serial # SerialNone /\ Matches(a.serial, b.labels)

(***************************************************************************)
(* cargo-skuld's pairwise conflict test, from which it builds the nextest  *)
(* groups.  It is written independently of can_start.                      *)
(***************************************************************************)
Conflicts(a, b) ==
  \/ a.serial = SerialAll \/ b.serial = SerialAll
  \/ a.serial # SerialNone /\ Matches(a.serial, b.labels)
  \/ b.serial # SerialNone /\ Matches(b.serial, a.labels)
=============================================================================
