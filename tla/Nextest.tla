------------------------------- MODULE Nextest -------------------------------
(***************************************************************************)
(* `cargo skuld nextest run`: cargo-skuld probes every test binary with    *)
(* --list, builds one max-threads = 1 group per connected component of the *)
(* conflict graph, writes the tool config and starts nextest, which runs   *)
(* every test in a process of its own.  The processes still coordinate     *)
(* through the database; the groups exist so that none has to wait there.  *)
(* nextest itself is external, modelled from what the config asks of it.   *)
(***************************************************************************)
EXTENDS SerialRules, Requirements, Naturals, FiniteSets

CONSTANTS
    Binary, Test,
    BinaryOf,       \* the binary a test is in
    LabelsOf,       \* a test's effective labels ...
    SerialOf,       \* ... and serial filter
    Pos,            \* its place in the collected metadata
    NeedsOf,        \* the requirements of a test and of its fixtures
    Ignored,        \* the statically ignored tests
    ProbesFail,     \* whether probing a binary may fail
    Slots           \* nextest's --test-threads

ASSUME NextestAssumption ==
    /\ IsFiniteSet(Test) /\ BinaryOf \in [Test -> Binary] /\ LabelsOf \in [Test -> SUBSET Label]
    /\ Pos \in [Test -> Nat] /\ \A t, u \in Test : Pos[t] = Pos[u] => t = u
    /\ SerialOf \in [Test -> Declared] /\ NeedsOf \in [Test -> SUBSET Requirement]
    /\ Ignored \subseteq Test /\ ProbesFail \in BOOLEAN /\ Slots \in Nat \ {0}

VARIABLES
    runIgnored, \* nextest was given --run-ignored all
    phase,      \* of cargo skuld nextest run
    probed,     \* the binaries collect_metadata is done with
    listed,     \* the tests in the metadata it collected
    partition,  \* the UnionFind of build_groups, as the classes it stands for
    left,       \* the pairs its loops have yet to compare
    groups,     \* the groups of the tool config
    state       \* each test under nextest

vars == <<runIgnored, met, phase, probed, listed, partition, left, groups, state>>

Row(t) == [labels |-> LabelsOf[t], serial |-> ToStorage(SerialOf[t])]

\* The ignored flag the runner gives a test if it is asked now.
Available(t) == t \notin Ignored /\ NeedsOf[t] \subseteq met

Init ==
    /\ met \in SUBSET Requirement /\ runIgnored \in BOOLEAN
    /\ phase = "probe" /\ probed = {} /\ listed = {}
    /\ partition = {} /\ left = {} /\ groups = {}
    /\ state = [t \in Test |-> "unknown"]

\* At any time until the run is over.
RequirementChanges ==
    /\ phase # "over" /\ RequirementsChange
    /\ UNCHANGED <<runIgnored, phase, probed, listed, partition, left, groups, state>>

-----------------------------------------------------------------------------
(* cargo-skuld *)

\* collect_metadata for one binary: its --list run writes the dump ...
ProbeBinary(b) ==
    /\ phase = "probe" /\ b \notin probed
    /\ probed' = probed \union {b}
    /\ listed' = listed \union {t \in Test : BinaryOf[t] = b /\ Available(t)}
    /\ UNCHANGED <<runIgnored, met, phase, partition, left, groups, state>>

\* ... or it cannot be spawned, takes too long, fails, or leaves no usable dump,
\* and the binary is skipped with a warning.
SkipBinary(b) ==
    /\ ProbesFail /\ phase = "probe" /\ b \notin probed
    /\ probed' = probed \union {b}
    /\ UNCHANGED <<runIgnored, met, phase, listed, partition, left, groups, state>>

\* collect_metadata is done, and build_groups starts with every test alone.
StartGrouping ==
    /\ phase = "probe" /\ probed = Binary
    /\ phase' = "group"
    /\ partition' = {{t} : t \in listed}
    /\ left' = {p \in listed \X listed : Pos[p[1]] < Pos[p[2]]}
    /\ UNCHANGED <<runIgnored, met, probed, listed, groups, state>>

\* The inner loop's order: by the first test, then by the second.
Before(p, q) == Pos[p[1]] < Pos[q[1]] \/ (p[1] = q[1] /\ Pos[p[2]] < Pos[q[2]])

\* UnionFind::union: the classes of t and u become one.
Union(t, u) ==
    LET touched == {c \in partition : t \in c \/ u \in c}
    IN  (partition \ touched) \union {UNION touched}

\* Mutant: a group per conflicting pair
ComparePairAlone(p) ==
    /\ phase = "group" /\ p \in left /\ \A q \in left \ {p} : Before(p, q)
    /\ left' = left \ {p}
    /\ partition' = IF Conflicts(Row(p[1]), Row(p[2])) THEN partition \union {{p[1], p[2]}} ELSE partition
    /\ UNCHANGED <<runIgnored, met, phase, probed, listed, groups, state>>

\* One iteration: every pair is compared once, the earlier test first.
ComparePair(p) ==
    /\ phase = "group" /\ p \in left /\ \A q \in left \ {p} : Before(p, q)
    /\ left' = left \ {p}
    /\ partition' = IF Conflicts(Row(p[1]), Row(p[2])) THEN Union(p[1], p[2]) ELSE partition
    /\ UNCHANGED <<runIgnored, met, phase, probed, listed, groups, state>>

\* The components of more than one test, render_tool_config, the file written
\* and nextest started.
WriteConfig ==
    /\ phase = "group" /\ left = {}
    /\ groups' = {c \in partition : Cardinality(c) > 1}
    /\ phase' = "list"
    /\ UNCHANGED <<runIgnored, met, probed, listed, partition, left, state>>

Generate == StartGrouping \/ (\E p \in left : ComparePair(p)) \/ WriteConfig

-----------------------------------------------------------------------------
(* nextest and the test processes *)

\* nextest lists the binaries again, and leaves out what is ignored now.
NextestLists ==
    /\ phase = "list" /\ phase' = "run"
    /\ state' = [t \in Test |-> IF runIgnored \/ Available(t) THEN "queued" ELSE "done"]
    /\ UNCHANGED <<runIgnored, met, probed, listed, partition, left, groups>>

Active == {t \in Test : state[t] \in {"started", "running"}}
Running == {t \in Test : state[t] = "running"}

StartTest(t) ==
    /\ phase = "run" /\ state[t] = "queued" /\ Cardinality(Active) < Slots
    /\ \A g \in groups : t \in g => g \cap Active = {}
    /\ state' = [state EXCEPT ![t] = "started"]
    /\ UNCHANGED <<runIgnored, met, phase, probed, listed, partition, left, groups>>

\* The process evaluates the requirements once more: ignored, it ends at once.
TestIgnored(t) ==
    /\ state[t] = "started" /\ ~runIgnored /\ ~Available(t)
    /\ state' = [state EXCEPT ![t] = "done"]
    /\ UNCHANGED <<runIgnored, met, phase, probed, listed, partition, left, groups>>

\* Mutant: a waiting process counts: the row is there before the check
MayStartAmongActive(t) ==
    CanStart({Row(u) : u \in Active \ {t}}, Row(t).labels, Row(t).serial)

MayStart(t) == CanStart({Row(u) : u \in Running}, Row(t).labels, Row(t).serial)

\* coordinate: the row is inserted when can_start agrees, or the process waits.
RegisterTest(t) ==
    /\ state[t] = "started" /\ (runIgnored \/ Available(t)) /\ MayStart(t)
    /\ state' = [state EXCEPT ![t] = "running"]
    /\ UNCHANGED <<runIgnored, met, phase, probed, listed, partition, left, groups>>

TestEnds(t) ==
    /\ state[t] = "running"
    /\ state' = [state EXCEPT ![t] = "done"]
    /\ UNCHANGED <<runIgnored, met, phase, probed, listed, partition, left, groups>>

RunOver ==
    /\ phase = "run" /\ \A t \in Test : state[t] = "done"
    /\ phase' = "over"
    /\ UNCHANGED <<runIgnored, met, probed, listed, partition, left, groups, state>>

Finished == phase = "over" /\ UNCHANGED vars

Process(t) == TestIgnored(t) \/ RegisterTest(t) \/ TestEnds(t)

Next ==
    \/ RequirementChanges \/ Generate \/ NextestLists \/ RunOver \/ Finished
    \/ \E b \in Binary : ProbeBinary(b) \/ SkipBinary(b)
    \/ \E t \in Test : StartTest(t) \/ Process(t)

\* Probing has a timeout, nextest starts what it can, and a test process goes on
\* to its end; a blocked one retries.
Fairness ==
    /\ WF_vars(Generate) /\ WF_vars(NextestLists) /\ WF_vars(RunOver)
    /\ \A b \in Binary : WF_vars(ProbeBinary(b) \/ SkipBinary(b))
    /\ \A t \in Test : WF_vars(StartTest(t)) /\ WF_vars(Process(t))

Spec == Init /\ [][Next]_vars /\ Fairness

-----------------------------------------------------------------------------
(* Properties *)

\* Every variable has its type, and a group is never a single test.
TypeOK ==
    /\ met \subseteq Requirement /\ runIgnored \in BOOLEAN
    /\ probed \subseteq Binary /\ listed \subseteq Test
    /\ phase \in {"probe", "group", "list", "run", "over"}
    /\ partition \subseteq SUBSET listed /\ left \subseteq listed \X listed
    /\ groups \subseteq SUBSET listed /\ \A g \in groups : Cardinality(g) > 1
    /\ state \in [Test -> {"unknown", "queued", "started", "running", "done"}]

ConflictIn(t, u) == Conflicts(Row(t), Row(u))

\* No part of the class is without a conflict with the rest of it.
Connected(class) ==
    \A S \in (SUBSET class) \ {{}, class} : \E t \in S, u \in class \ S : ConflictIn(t, u)

\* The groups build_groups emits are the connected components of the conflict
\* graph with more than one test: conflicting tests share a group, no two groups
\* overlap, and a group holds no two tests that a chain of conflicts does not
\* link (TypeOK: no group is a single test).
GroupsAreComponents ==
    /\ TypeOK
    /\ phase \in {"list", "run", "over"} =>
        /\ \A t, u \in listed : t # u /\ ConflictIn(t, u) => \E g \in groups : {t, u} \subseteq g
        /\ \A g, h \in groups : g = h \/ g \cap h = {}
        /\ \A g \in groups : Connected(g)

\* A test that cargo-skuld listed never waits in coordinate for another listed
\* test, so it never occupies one of nextest's slots while it waits.  Whatever
\* requirements did meanwhile, only tests missing from the dump can block it: an
\* ignored one that nextest was told to run, one of a binary that was skipped,
\* and one that was unavailable when its binary was probed.
ListedNeverWait ==
    \A t \in listed : state[t] = "started" =>
        \A u \in listed \cap Running : CanStart({Row(u)}, Row(t).labels, Row(t).serial)

\* nextest's slots and Skuld's table together do not deadlock: every test ends,
\* those left out of every group and waiting inside a slot included.
RunEnds == <>(phase = "over")

=============================================================================
