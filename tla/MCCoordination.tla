--------------------------- MODULE MCCoordination ---------------------------
(***************************************************************************)
(* Instances of Coordination.  Tests: t1 labelled a, t2 serial = a, t3     *)
(* with neither label nor filter, t4 serial = a itself and !a through a    *)
(* fixture, so with everything.  t4 excludes t2, in its own process, and   *)
(* t1 and t3, in another; t1 and t2, of two processes, exclude each other; *)
(* t3 may overlap with t1, in its process, and with t2, in another.        *)
(***************************************************************************)
EXTENDS Coordination

CONSTANTS a, p1, p2, t1, t2, t3, t4

LabelA == {a}
OnlyA == Expr({{a}})
NotA == Expr({{}})

Tests3 == {t1, t2, t3}
Tests4 == {t1, t2, t3, t4}
Procs == {p1, p2}

ProcOf4 == [t \in Tests4 |-> IF t \in {t1, t3} THEN p1 ELSE p2]
ProcOf3 == [t \in Tests3 |-> ProcOf4[t]]

Labels4 == [t \in Tests4 |-> IF t = t1 THEN {a} ELSE {}]
Labels3 == [t \in Tests3 |-> Labels4[t]]

Own(t) == IF t \in {t1, t3} THEN SerialNone ELSE OnlyA
Fixture(t) == IF t = t4 THEN NotA ELSE SerialNone
Serial4 == [t \in Tests4 |-> MergeSerialFilters(Own(t), Fixture(t))]
Serial3 == [t \in Tests3 |-> Serial4[t]]

\* Every process has a PID of its own ...
DistinctPids == [p \in Procs |-> p]

\* ... or p2 starts after p1 has died and is given p1's PID.
ReusedPid == [p \in Procs |-> p1]

TwoThreads == [p \in Procs |-> 2]
=============================================================================
