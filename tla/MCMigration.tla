---------------------------- MODULE MCMigration ----------------------------
(* One label.  Two processes migrate at once; two older tests declared a    *)
(* tautology, a contradiction, "a" in an old spelling, "*", nothing, or     *)
(* something that no longer parses.                                         *)
EXTENDS Migration

HasA == {{"a"}}
MCLabelsOf == [t \in Test |-> IF t \in {"o1", "l1"} THEN {"a"} ELSE {}]
MCSerialOf == [p \in Opener |-> IF p = "o1" THEN SerialNone ELSE Expr(HasA)]
Spelled(f) == [serial |-> f, canonical |-> FALSE]
Canonical(f) == [serial |-> f, canonical |-> TRUE]
MCLegacySerial ==
  [t \in Legacy |->
     IF t = "l1"
     THEN {Spelled(Expr({{"a"}, {}})), Spelled(Expr({})), Spelled(Expr(HasA)), Spelled(Unparseable)}
     ELSE {Spelled(Expr({{"a"}, {}})), Spelled(Expr(HasA)), Canonical(SerialNone), Canonical(SerialAll)}]
=============================================================================
