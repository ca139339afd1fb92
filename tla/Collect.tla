------------------------------- MODULE Collect -------------------------------
(***************************************************************************)
(* What the runner does between the start of a test binary and its first   *)
(* trial: TestRunner::run_tests validates the registered tests, turns each *)
(* one that SKULD_LABELS selects into a trial with its effective labels    *)
(* and serial filter (its own and those of every fixture it reaches),      *)
(* marks it ignored when a requirement is not met, and with --list dumps   *)
(* the metadata that cargo-skuld builds nextest groups from.               *)
(*                                                                         *)
(* A registry is a function from fixture names to their definitions, a     *)
(* module path or a trial name the sequence of its `::` segments.  The     *)
(* recursion over the fixture graph is a loop of actions with the calls    *)
(* that are still to be made on a stack.                                   *)
(***************************************************************************)
EXTENDS SerialRules, Requirements, Naturals, Sequences, SequencesExt

CONSTANTS
    FixtureName, Segment,
    Registries,     \* the fixture registries considered
    Programs,       \* the sequences of inventory tests considered
    Dynamics,       \* the sequences of TestRunner::add tests considered
    ModuleDefaults, \* default_labels!: a function from module paths to labels
    Filters,        \* the values of SKULD_LABELS considered
    NoName          \* no display_name

FixtureDef ==
    [deps : Seq(FixtureName), labels : Seq(Label), serial : Declared, requires : SUBSET Requirement]
TestDef ==
    [name : Segment, module : Seq(Segment) \ {<<>>}, display : {NoName} \union Seq(Segment),
     requires : SUBSET Requirement, fixtures : Seq(FixtureName), ignore : BOOLEAN,
     labels : Seq(Label), explicit : BOOLEAN, serial : Declared]
DynTest == [name : Seq(Segment), labels : Seq(Label), serial : Declared, ignored : BOOLEAN]

\* Nothing is asked of the graph: the properties do not need what
\* validate_fixture_graph checks, that dependencies are registered and acyclic.
InputsAreTyped ==
    /\ \A r \in Registries : DOMAIN r \subseteq FixtureName /\ \A f \in DOMAIN r : r[f] \in FixtureDef
    /\ \A p \in Programs : p \in Seq(TestDef)
    /\ \A d \in Dynamics : d \in Seq(DynTest)
    /\ \A m \in DOMAIN ModuleDefaults : m \in Seq(Segment) /\ ModuleDefaults[m] \in Seq(Label)
    /\ Filters \subseteq Declared

ASSUME CollectAssumption == InputsAreTyped

-----------------------------------------------------------------------------
(* A test's effective labels, serial filter and name *)

\* own_labels: the explicit ones, or those of the longest module that is the
\* test's or an ancestor of it.
OwnLabels(def) ==
    LET covers == {m \in DOMAIN ModuleDefaults : IsPrefix(m, def.module)}
    IN  IF def.explicit \/ covers = {} THEN def.labels
        ELSE ModuleDefaults[CHOOSE m \in covers : \A n \in covers : Len(n) <= Len(m)]

\* push_unique: what is there already is not pushed again.
PushUnique(dst, src) ==
    LET upto[i \in 0 .. Len(src)] ==
            IF i = 0 THEN dst
            ELSE IF src[i] \in Range(upto[i - 1]) THEN upto[i - 1]
            ELSE Append(upto[i - 1], src[i])
    IN  upto[Len(src)]

\* The effective labels and serial filter of a test, from what its fixtures
\* were found to bring.
ResolveLabels(def, inherited) == PushUnique(PushUnique(<<>>, OwnLabels(def)), inherited.labels)
EffectiveSerial(def, inherited) == MergeSerialFilters(def.serial, inherited.serial)

EffectiveTrialName(def, libtestNames) ==
    IF def.display # NoName THEN def.display
    ELSE IF libtestNames THEN Append(Tail(def.module), def.name)
    ELSE <<def.name>>

-----------------------------------------------------------------------------
VARIABLES
    reg, defs, dynamic, filter, libtestNames,   \* this run's inputs
    stage, pos,     \* how far run_tests has come
    stack,          \* the calls of walk still to be made, the next one first
    visited,        \* walk's set of names
    found,          \* what the fixtures visited so far bring
    trials,         \* the trials built so far
    metadata,       \* the entries for the nextest dump
    unavailable     \* the names in the Unavailable report

inputs == <<reg, defs, dynamic, filter, libtestNames>>
walking == <<stack, visited, found>>
collectVars == <<inputs, met, stage, pos, walking, trials, metadata, unavailable>>

Nothing == [labels |-> <<>>, serial |-> SerialNone, requires |-> {}]

CollectInit ==
    /\ reg \in Registries /\ defs \in Programs /\ dynamic \in Dynamics
    /\ filter \in Filters /\ libtestNames \in BOOLEAN
    /\ met \in SUBSET Requirement
    /\ stage = "validate" /\ pos = 1
    /\ stack = <<>> /\ visited = {} /\ found = Nothing
    /\ trials = <<>> /\ metadata = <<>> /\ unavailable = {}

ChangeWhileCollecting ==
    /\ stage \in {"inventory", "walk", "dynamic"}
    /\ RequirementsChange
    /\ UNCHANGED <<inputs, stage, pos, walking, trials, metadata, unavailable>>

-----------------------------------------------------------------------------
(* Walking the fixture graph (src/fixture.rs).  The labels, the serial      *)
(* filter and the requirements are collected by a walk each; all three make *)
(* the same visits, so they are one here.                                   *)

\* walk_fixture_deps: the fixtures the test names, in their order.
StartWalk ==
    /\ stage = "inventory" /\ pos \in DOMAIN defs
    /\ stage' = "walk" /\ stack' = defs[pos].fixtures
    /\ UNCHANGED <<inputs, met, pos, visited, found, trials, metadata, unavailable>>

\* The visitors of collect_fixture_labels, _serial and _requires.
Visit(def) ==
    [labels |-> PushUnique(found.labels, def.labels),
     serial |-> IF def.serial = SerialNone THEN found.serial
                ELSE MergeSerialFilters(found.serial, def.serial),
     requires |-> found.requires \union def.requires]

\* Mutant: the walk stops at the fixtures a test names itself
WalkDirectOnly ==
    /\ stage = "walk" /\ stack # <<>>
    /\ stack' = Tail(stack)
    /\ found' = IF Head(stack) \in DOMAIN reg \ visited THEN Visit(reg[Head(stack)]) ELSE found
    /\ visited' = visited \union {Head(stack)}
    /\ UNCHANGED <<inputs, met, stage, pos, trials, metadata, unavailable>>

\* One call of walk: each reachable fixture is visited once, in pre-order, and a
\* name that is not registered is skipped.  A debug build asserts that only a test
\* names one: validate_fixture_graph has refused such a dependency of a fixture.
Walk ==
    /\ stage = "walk" /\ stack # <<>>
    /\ LET name == Head(stack)
       IN  /\ visited' = visited \union {name}
           /\ IF name \in DOMAIN reg \ visited
              THEN stack' = reg[name].deps \o Tail(stack) /\ found' = Visit(reg[name])
              ELSE stack' = Tail(stack) /\ UNCHANGED found
    /\ UNCHANGED <<inputs, met, stage, pos, trials, metadata, unavailable>>

-----------------------------------------------------------------------------
(* run_tests *)

TrialNames ==
    [i \in DOMAIN defs |-> EffectiveTrialName(defs[i], libtestNames)]
    \o [i \in DOMAIN dynamic |-> dynamic[i].name]

\* validate_trial_names, before anything is selected: every test counts.
ValidateTrialNames ==
    /\ stage = "validate"
    /\ stage' = IF IsInjective(TrialNames) THEN "inventory" ELSE "panicked"
    /\ UNCHANGED <<inputs, met, pos, walking, trials, metadata, unavailable>>

Selected(labels) == filter = SerialNone \/ Matches(filter, Range(labels))

Trial(name, labels, serial, ignored) ==
    [name |-> name, labels |-> labels, serial |-> serial, ignored |-> ignored]

\* The form both the dump and the database use.
MetadataOf(trial) ==
    [name |-> trial.name, labels |-> Range(trial.labels), serial |-> ToStorage(trial.serial)]

\* Mutant: the dump has the test's own declaration, not the effective one
AddTrialOwnSerial(trial) ==
    /\ trials' = Append(trials, trial)
    /\ metadata' = IF trial.ignored THEN metadata
                   ELSE Append(metadata, [MetadataOf(trial) EXCEPT !.serial = ToStorage(
                          IF pos \in DOMAIN defs THEN defs[pos].serial ELSE trial.serial)])

AddTrial(trial) ==
    /\ trials' = Append(trials, trial)
    /\ metadata' = IF trial.ignored THEN metadata ELSE Append(metadata, MetadataOf(trial))

Unmet(def) == (def.requires \union found.requires) \ met

\* The rest of one iteration of collect_inventory_tests.  A statically ignored
\* test's requirements are not evaluated, and it is not reported as unavailable.
CollectInventoryTest ==
    /\ stage = "walk" /\ stack = <<>>
    /\ LET def == defs[pos]
           labels == ResolveLabels(def, found)
           name == EffectiveTrialName(def, libtestNames)
           missing == ~def.ignore /\ Unmet(def) # {}
       IN  IF Selected(labels)
           THEN /\ AddTrial(Trial(name, labels, EffectiveSerial(def, found), def.ignore \/ missing))
                /\ unavailable' = IF missing THEN unavailable \union {name} ELSE unavailable
           ELSE UNCHANGED <<trials, metadata, unavailable>>
    /\ stage' = "inventory" /\ pos' = pos + 1
    /\ visited' = {} /\ found' = Nothing
    /\ UNCHANGED <<inputs, met, stack>>

InventoryDone ==
    /\ stage = "inventory" /\ pos > Len(defs)
    /\ stage' = "dynamic" /\ pos' = 1
    /\ UNCHANGED <<inputs, met, walking, trials, metadata, unavailable>>

\* One iteration of collect_dynamic_tests: no fixtures and no requirements.
CollectDynamicTest ==
    /\ stage = "dynamic" /\ pos \in DOMAIN dynamic
    /\ LET d == dynamic[pos]
       IN  IF Selected(d.labels)
           THEN AddTrial(Trial(d.name, d.labels, d.serial, d.ignored))
           ELSE UNCHANGED <<trials, metadata>>
    /\ pos' = pos + 1
    /\ UNCHANGED <<inputs, met, stage, walking, unavailable>>

\* --list writes the dump; otherwise the trials are handed to libtest-mimic.
DynamicDone ==
    /\ stage = "dynamic" /\ pos > Len(dynamic)
    /\ stage' = "collected" /\ pos' = 1
    /\ UNCHANGED <<inputs, met, walking, trials, metadata, unavailable>>

CollectFinished == stage \in {"panicked", "collected"} /\ UNCHANGED collectVars

CollectNext ==
    \/ ChangeWhileCollecting \/ ValidateTrialNames \/ StartWalk \/ Walk
    \/ CollectInventoryTest \/ InventoryDone \/ CollectDynamicTest \/ DynamicDone
    \/ CollectFinished

CollectSpec == CollectInit /\ [][CollectNext]_collectVars

-----------------------------------------------------------------------------
(* Properties *)

\* Reference: the fixtures a test depends on, as the least set that holds the
\* registered ones among `names` and is closed under dependency.
Closed(S, names) ==
    /\ Range(names) \cap DOMAIN reg \subseteq S
    /\ \A f \in S : Range(reg[f].deps) \cap DOMAIN reg \subseteq S
Reachable(names) ==
    {f \in DOMAIN reg : \A S \in SUBSET DOMAIN reg : Closed(S, names) => f \in S}

Blocks(f, labels) == f = SerialAll \/ (f.kind = "expr" /\ Matches(f, labels))

EffectiveLabels(def) ==
    Range(OwnLabels(def)) \union UNION {Range(reg[f].labels) : f \in Reachable(def.fixtures)}

\* The trials made of the i-th inventory test.
TrialsOf(i) == {j \in DOMAIN trials : trials[j].name = EffectiveTrialName(defs[i], libtestNames)}

\* The tests whose iteration is over.
Processed == IF stage \in {"validate", "panicked"} THEN {}
             ELSE IF stage \in {"inventory", "walk"} THEN 1 .. (pos - 1) ELSE DOMAIN defs

TrialType ==
    [name : Seq(Segment), labels : Seq(Label), serial : Declared, ignored : BOOLEAN]

\* The collected trials, metadata and report have their types; what is walked is
\* the fixtures of a test, and the locals of the walk are gone after it.
CollectTypeOK ==
    /\ stage \in {"validate", "inventory", "walk", "dynamic", "collected", "panicked"}
    /\ pos \in Nat \ {0} /\ (stage = "walk" => pos \in DOMAIN defs)
    /\ met \subseteq Requirement
    /\ stack \in Seq(FixtureName) /\ visited \subseteq FixtureName
    /\ found \in [labels : Seq(Label), serial : Declared, requires : SUBSET Requirement]
    /\ stage # "walk" => stack = <<>> /\ visited = {} /\ found = Nothing
    /\ trials \in Seq(TrialType)
    /\ metadata \in Seq([name : Seq(Segment), labels : SUBSET Label, serial : Stored])
    /\ unavailable \subseteq {trials[i].name : i \in DOMAIN trials}

\* Inheritance is by the transitive closure.  A test is a trial, and one trial,
\* exactly when SKULD_LABELS matches its effective labels, those inherited
\* through any chain of fixtures included; the trial carries just these labels,
\* none of them twice; and it excludes exactly the tests that its own serial
\* declaration, or that of some fixture it reaches, excludes: merging along the
\* walk loses none and adds none.
InheritanceIsTheClosure ==
  \A i \in Processed :
    /\ TrialsOf(i) # {} <=> filter = SerialNone \/ EffectiveLabels(defs[i]) \in filter.sat
    /\ \A j, k \in TrialsOf(i) : j = k
    /\ \A j \in TrialsOf(i) :
        /\ Range(trials[j].labels) = EffectiveLabels(defs[i]) /\ IsInjective(trials[j].labels)
        /\ LET filters == {defs[i].serial} \union {reg[f].serial : f \in Reachable(defs[i].fixtures)}
           IN  \A labels \in SUBSET Label :
                  Blocks(ToStorage(trials[j].serial), labels) <=> \E f \in filters : Blocks(f, labels)

Runnable == {j \in DOMAIN trials : ~trials[j].ignored}
EntriesOf(j) == {m \in DOMAIN metadata : metadata[m].name = trials[j].name}
RowOf(t) == [labels |-> Range(t.labels), serial |-> ToStorage(t.serial)]

\* The dump predicts the database: it has one entry for each trial that will
\* run, found by its name, and none for others; and for two of them, cargo-skuld's
\* conflict test on their entries agrees with can_start on the rows they will
\* register.
DumpPredictsCoordination ==
    /\ CollectTypeOK
    /\ \A m \in DOMAIN metadata : \E j \in Runnable : m \in EntriesOf(j)
    /\ \A j \in Runnable : \E m \in EntriesOf(j) : EntriesOf(j) = {m}
    /\ \A j, k \in Runnable : j # k =>
          \A m \in EntriesOf(j), n \in EntriesOf(k) :
              Conflicts(metadata[m], metadata[n])
                <=> ~CanStart({RowOf(trials[j])}, RowOf(trials[k]).labels, RowOf(trials[k]).serial)

\* A trial runs only if every requirement of the test and of the fixtures it
\* reaches was met when run_tests asked.
RunnableWasAvailable ==
    [][\A i \in DOMAIN defs :
          stage = "walk" /\ pos = i /\ Len(metadata') > Len(metadata)
             => defs[i].requires \union UNION {reg[f].requires : f \in Reachable(defs[i].fixtures)}
                    \subseteq met]_collectVars
=============================================================================
