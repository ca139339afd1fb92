------------------------------ MODULE Fixtures ------------------------------
(***************************************************************************)
(* The life of fixture values in one test process: fixture_get with its    *)
(* three scopes, the setup of dependencies, TestScope's Drop, the body     *)
(* closure the #[skuld::test] macro builds (should_panic included) and     *)
(* cleanup_process_fixtures.                                               *)
(*                                                                         *)
(* A value is the number of the setup call that made it, and remembers the *)
(* cached values that setup was given.  A trial thread carries a stack of  *)
(* frames, one per fixture it is getting.  The process store's mutex is    *)
(* held for one step at a time: setup runs outside it.                     *)
(***************************************************************************)
EXTENDS Naturals, Sequences, FiniteSets, SequencesExt

CONSTANTS
  Test,        \* trials, each on a thread of its own
  Fixture,     \* registered fixtures
  ScopeOf,     \* "variable", "test" or "process"
  DepsOf,      \* the fixtures a setup function asks for, in order
  UsesOf,      \* the fixtures a test function asks for, in order
  ShouldPanic, \* tests with #[should_panic]
  SetupFails,  \* fixtures whose setup may return Err
  DropPanics   \* fixtures whose Drop may panic

\* FixtureScope's order.
Rank(scope) == CASE scope = "variable" -> 0 [] scope = "test" -> 1 [] scope = "process" -> 2

Deps(f) == ToSet(DepsOf[f])

\* validate_fixture_graph: dependencies exist, none is of a narrower scope, and
\* none leads back to its dependent.
ValidateFixtureGraph ==
  /\ \A f \in Fixture : Deps(f) \subseteq Fixture
  /\ \A f \in Fixture : \A d \in Deps(f) : Rank(ScopeOf[d]) >= Rank(ScopeOf[f])
  /\ \A S \in (SUBSET Fixture) \ {{}} : \E f \in S : Deps(f) \cap S = {}

ASSUME FixturesAssumption ==
  /\ ScopeOf \in [Fixture -> {"variable", "test", "process"}]
  /\ DepsOf \in [Fixture -> Seq(Fixture)] /\ UsesOf \in [Test -> Seq(Fixture)]
  /\ ShouldPanic \subseteq Test
  /\ SetupFails \subseteq Fixture /\ DropPanics \subseteq Fixture
  /\ ValidateFixtureGraph

VARIABLES
  vals,      \* every value made so far: [fix, uses, by], by the test whose thread ran setup
  live,      \* the values not dropped yet
  store,     \* PROCESS_FIXTURES.entries, oldest first
  poisoned,  \* has a thread panicked with the store's mutex held?
  cache,     \* TEST_FIXTURES of a thread, oldest first
  handles,   \* the FixtureHandles a test holds that own their value
  todo,      \* the parameters a test has yet to get
  given,     \* the values a test's parameters refer to
  stack,     \* the setup calls in progress on a test's thread
  pc,        \* where a test is
  body,      \* how its body ended
  unwinding, \* is its thread unwinding?
  outcome,   \* how its trial was reported
  run        \* the process: "main", "tests", "cleanup", "over", "aborted"

heap == <<vals, live, store, poisoned>>
vars == <<heap, cache, handles, todo, given, stack, pc, body, unwinding, outcome, run>>

Fix(v) == vals[v].fix

\* Mutant: trials run on the thread that dispatches them
ThreadShared(t) == CHOOSE u \in Test : TRUE

\* The thread whose TEST_FIXTURES a trial uses: a fresh one for every trial.
Thread(t) == t

\* The entry a name is cached under, if any.
Cached(entries, f) == {v \in ToSet(entries) : Fix(v) = f}

Frame(f) == [fix |-> f, stage |-> "lookup", need |-> DepsOf[f], uses |-> {}, owned |-> <<>>, mine |-> 0]

Init ==
  /\ vals = <<>> /\ live = {} /\ store = <<>> /\ poisoned = FALSE
  /\ cache = [t \in Test |-> <<>>]
  /\ handles = [t \in Test |-> <<>>]
  /\ todo = UsesOf
  /\ given = [t \in Test |-> {}]
  /\ stack = [t \in Test |-> <<>>]
  /\ pc = [t \in Test |-> "idle"]
  /\ body = [t \in Test |-> "none"]
  /\ unwinding = [t \in Test |-> FALSE]
  /\ outcome = [t \in Test |-> "none"]
  /\ run = "main"

Goto(t, l) == pc' = [pc EXCEPT ![t] = l]
Top(t) == Head(stack[t])

-----------------------------------------------------------------------------
(* main(), before it runs the tests.                                       *)

\* warm_up: the main thread builds a process fixture, after those it depends on.
WarmUp(f) ==
  /\ run = "main"
  /\ ScopeOf[f] = "process" /\ Cached(store, f) = {}
  /\ \A d \in Deps(f) : Cached(store, d) # {}
  /\ vals' = Append(vals, [fix |-> f, uses |-> UNION {Cached(store, d) : d \in Deps(f)}, by |-> "main"])
  /\ live' = live \cup {Len(vals')}
  /\ store' = Append(store, Len(vals'))
  /\ UNCHANGED <<poisoned, cache, handles, todo, given, stack, pc, body, unwinding, outcome, run>>

\* Its setup fails, and main panics: there is no test and no cleanup.
WarmUpFails(f) ==
  /\ run = "main"
  /\ f \in SetupFails /\ ScopeOf[f] = "process" /\ Cached(store, f) = {}
  /\ \A d \in Deps(f) : Cached(store, d) # {}
  /\ run' = "over"
  /\ UNCHANGED <<heap, cache, handles, todo, given, stack, pc, body, unwinding, outcome>>

\* run_tests.
RunTests ==
  /\ run = "main"
  /\ run' = "tests"
  /\ UNCHANGED <<heap, cache, handles, todo, given, stack, pc, body, unwinding, outcome>>

-----------------------------------------------------------------------------
(* fixture_get.                                                            *)

\* enter_test_scope, before any fixture_get of the test.
EnterTestScope(t) ==
  /\ run = "tests"
  /\ pc[t] = "idle"
  /\ Goto(t, "setup")
  /\ UNCHANGED <<heap, cache, handles, todo, given, stack, body, unwinding, outcome, run>>

\* The test's next parameter, or the next dependency of the setup in progress.
FixtureGet(t) ==
  /\ run = "tests"
  /\ pc[t] = "setup"
  /\ \/ /\ stack[t] = <<>> /\ todo[t] # <<>>
        /\ stack' = [stack EXCEPT ![t] = <<Frame(Head(todo[t]))>>]
        /\ todo' = [todo EXCEPT ![t] = Tail(@)]
     \/ /\ stack[t] # <<>> /\ Top(t).stage = "setup" /\ Top(t).need # <<>>
        /\ stack' = [stack EXCEPT ![t] =
             <<Frame(Head(Top(t).need))>> \o [stack[t] EXCEPT ![1].need = Tail(@)]]
        /\ UNCHANGED todo
  /\ UNCHANGED <<heap, cache, handles, given, pc, body, unwinding, outcome, run>>

\* The innermost fixture_get returns v to the setup, or the test, that called
\* it; a variable-scoped value comes with the handle that owns it.
Return(t, v) ==
  LET rest  == Tail(stack[t])
      owner == ScopeOf[Top(t).fix] = "variable"
  IN  IF rest = <<>>
      THEN /\ stack' = [stack EXCEPT ![t] = <<>>]
           /\ given' = [given EXCEPT ![t] = @ \cup {v}]
           /\ handles' = IF owner THEN [handles EXCEPT ![t] = Append(@, v)] ELSE handles
      ELSE /\ stack' = [stack EXCEPT ![t] =
                <<IF owner THEN [Head(rest) EXCEPT !.owned = Append(@, v)]
                  ELSE [Head(rest) EXCEPT !.uses = @ \cup {v}]>> \o Tail(rest)]
           /\ UNCHANGED <<given, handles>>

\* A panic inside a setup, or in the code around it: the thread unwinds through
\* the frames of the setups in progress (see LeaveFrame).
Unwind(t, frames) ==
  /\ stack' = [stack EXCEPT ![t] = frames]
  /\ unwinding' = [unwinding EXCEPT ![t] = TRUE]
  /\ Goto(t, "teardown")
  /\ UNCHANGED handles

\* The innermost setup call of a running test, at this stage.
InSetup(t, stage) ==
  /\ run = "tests"
  /\ pc[t] = "setup" /\ stack[t] # <<>>
  /\ Top(t).stage = stage

\* lock().unwrap() of the process store fails.
LockFails(f) == ScopeOf[f] = "process" /\ poisoned

\* ensure_test_fixture and ensure_process_fixture look before they build.
Lookup(t) ==
  /\ InSetup(t, "lookup")
  /\ LET f == Top(t).fix
         hit == IF ScopeOf[f] = "test" THEN Cached(cache[Thread(t)], f)
                ELSE IF ScopeOf[f] = "process" THEN Cached(store, f)
                ELSE {}
     IN  IF LockFails(f)
         THEN Unwind(t, stack[t]) /\ UNCHANGED given
         ELSE /\ IF hit # {}
                 THEN \E v \in hit : Return(t, v)
                 ELSE /\ stack' = [stack EXCEPT ![t][1].stage = "setup"]
                      /\ UNCHANGED <<given, handles>>
              /\ UNCHANGED <<pc, unwinding>>
  /\ UNCHANGED <<heap, cache, todo, body, outcome, run>>

\* (def.setup)() is about to return a value ...
SetupOk(t) ==
  /\ InSetup(t, "setup") /\ Top(t).need = <<>>
  /\ vals' = Append(vals, [fix |-> Top(t).fix, uses |-> Top(t).uses, by |-> t])
  /\ live' = live \cup {Len(vals')}
  /\ stack' = [stack EXCEPT ![t][1] = [@ EXCEPT !.stage = "return", !.mine = Len(vals')]]
  /\ UNCHANGED <<store, poisoned, cache, handles, todo, given, pc, body, unwinding, outcome, run>>

\* ... or an Err ...
SetupErr(t) ==
  /\ InSetup(t, "setup") /\ Top(t).need = <<>>
  /\ Top(t).fix \in SetupFails
  /\ stack' = [stack EXCEPT ![t][1].stage = "return"]
  /\ UNCHANGED <<heap, cache, handles, todo, given, pc, body, unwinding, outcome, run>>

\* ... or it panics.
SetupPanics(t) ==
  /\ InSetup(t, "setup") /\ Top(t).need = <<>>
  /\ Top(t).fix \in SetupFails
  /\ Unwind(t, stack[t])
  /\ UNCHANGED <<heap, cache, todo, given, body, outcome, run>>

\* The handles of its own dependencies drop as it returns.  If one panics, the
\* value being returned is dropped with the frame or leaked: Rust promises
\* neither.
DropDependency(t, panics) ==
  /\ InSetup(t, "return") /\ Top(t).owned # <<>>
  /\ panics => Fix(Last(Top(t).owned)) \in DropPanics
  /\ live' = live \ {Last(Top(t).owned)}
  /\ LET left == [stack[t] EXCEPT ![1].owned = Front(@)]
     IN  IF panics
         THEN \/ Unwind(t, left)
              \/ Top(t).mine # 0 /\ Unwind(t, [left EXCEPT ![1].owned = <<Top(t).mine>> \o @])
         ELSE stack' = [stack EXCEPT ![t] = left] /\ UNCHANGED <<handles, pc, unwinding>>
  /\ UNCHANGED <<vals, store, poisoned, cache, todo, given, body, outcome, run>>

\* "fixture {name} setup failed".
SetupFailed(t) ==
  /\ InSetup(t, "return") /\ Top(t).owned = <<>> /\ Top(t).mine = 0
  /\ Unwind(t, stack[t])
  /\ UNCHANGED <<heap, cache, todo, given, body, outcome, run>>

\* The value is handed out, or cached for the test.
Store(t) ==
  /\ InSetup(t, "return") /\ Top(t).owned = <<>> /\ Top(t).mine # 0
  /\ ScopeOf[Top(t).fix] # "process"
  /\ cache' = IF ScopeOf[Top(t).fix] = "test" THEN [cache EXCEPT ![Thread(t)] = Append(@, Top(t).mine)] ELSE cache
  /\ Return(t, Top(t).mine)
  /\ UNCHANGED <<heap, todo, pc, body, unwinding, outcome, run>>

\* Mutant: the value a lost race has freed is returned all the same.
PublishReturnsOwn(t, panics) ==
  /\ InSetup(t, "return") /\ Top(t).owned = <<>> /\ Top(t).mine # 0
  /\ ScopeOf[Top(t).fix] = "process" /\ ~panics
  /\ IF Cached(store, Top(t).fix) = {}
     THEN store' = Append(store, Top(t).mine) /\ UNCHANGED live
     ELSE live' = live \ {Top(t).mine} /\ UNCHANGED store
  /\ Return(t, Top(t).mine)
  /\ UNCHANGED <<vals, poisoned, cache, todo, pc, body, unwinding, outcome, run>>

\* The second half of ensure_process_fixture, under the mutex.  A value another
\* thread has stored meanwhile wins; this thread's own is dropped then and
\* there, and poisons the mutex if its Drop panics.
Publish(t, panics) ==
  /\ InSetup(t, "return") /\ Top(t).owned = <<>> /\ Top(t).mine # 0
  /\ LET f == Top(t).fix
         v == Top(t).mine
         lost == Cached(store, f) # {}
     IN  /\ ScopeOf[f] = "process"
         /\ panics => lost /\ ~poisoned /\ f \in DropPanics
         /\ store' = IF poisoned \/ lost THEN store ELSE Append(store, v)
         /\ live' = IF lost /\ ~poisoned THEN live \ {v} ELSE live
         /\ poisoned' = (poisoned \/ panics)
         /\ IF poisoned'
            THEN Unwind(t, stack[t]) /\ UNCHANGED given
            ELSE /\ \E w \in (IF lost THEN Cached(store, f) ELSE {v}) : Return(t, w)
                 /\ UNCHANGED <<pc, unwinding>>
  /\ UNCHANGED <<vals, cache, todo, body, outcome, run>>

-----------------------------------------------------------------------------
(* The body closure and its teardown.                                      *)

Ending == {"returned", "panicked", "mispanicked"}

\* The test function returns, panics, or panics with a message other than the
\* one its should_panic names.
RunBody(t, how) ==
  /\ run = "tests"
  /\ pc[t] = "setup" /\ stack[t] = <<>> /\ todo[t] = <<>>
  /\ body' = [body EXCEPT ![t] = how]
  /\ unwinding' = [unwinding EXCEPT ![t] = (how # "returned")]
  /\ Goto(t, "teardown")
  /\ UNCHANGED <<heap, cache, handles, todo, given, stack, outcome, run>>

\* One of the test's values is dropped.  A Drop that panics starts an unwind;
\* in a thread that is unwinding already it aborts the process.
DropValue(t, v, panics) ==
  /\ panics => Fix(v) \in DropPanics
  /\ live' = live \ {v}
  /\ given' = [given EXCEPT ![t] = {}]
  /\ IF panics /\ unwinding[t]
     THEN run' = "aborted" /\ UNCHANGED unwinding
     ELSE unwinding' = [unwinding EXCEPT ![t] = @ \/ panics] /\ UNCHANGED run

\* The handles of an interrupted setup drop, the newest first ...
DropInFrame(t, panics) ==
  /\ run = "tests"
  /\ pc[t] = "teardown" /\ stack[t] # <<>> /\ Top(t).owned # <<>>
  /\ DropValue(t, Last(Top(t).owned), panics)
  /\ stack' = [stack EXCEPT ![t][1].owned = Front(@)]
  /\ UNCHANGED <<vals, store, poisoned, cache, handles, todo, pc, body, outcome>>

\* ... and the unwind goes on in the setup, or the test, that called it.
LeaveFrame(t) ==
  /\ run = "tests"
  /\ pc[t] = "teardown" /\ stack[t] # <<>> /\ Top(t).owned = <<>>
  /\ stack' = [stack EXCEPT ![t] = Tail(@)]
  /\ UNCHANGED <<heap, cache, handles, todo, given, pc, body, unwinding, outcome, run>>

\* Handles drop in the reverse of their order; a panic does not stop the rest.
DropHandle(t, panics) ==
  /\ run = "tests"
  /\ pc[t] = "teardown" /\ stack[t] = <<>> /\ handles[t] # <<>>
  /\ DropValue(t, Last(handles[t]), panics)
  /\ handles' = [handles EXCEPT ![t] = Front(@)]
  /\ UNCHANGED <<vals, store, poisoned, cache, todo, stack, pc, body, outcome>>

\* Mutant: TestScope's Drop reclaims the oldest entry first.
ReclaimOldest(t, panics) ==
  /\ run = "tests"
  /\ pc[t] = "teardown" /\ stack[t] = <<>> /\ handles[t] = <<>> /\ cache[Thread(t)] # <<>>
  /\ DropValue(t, Head(cache[Thread(t)]), panics)
  /\ cache' = [cache EXCEPT ![Thread(t)] = Tail(@)]
  /\ pc' = IF panics THEN [pc EXCEPT ![t] = "end"] ELSE pc
  /\ UNCHANGED <<vals, store, poisoned, handles, todo, stack, body, outcome>>

\* TestScope's Drop reclaims the newest entry; if that panics, the loop is left
\* and the entries that remain are never reclaimed.
ReclaimEntry(t, panics) ==
  /\ run = "tests"
  /\ pc[t] = "teardown" /\ stack[t] = <<>> /\ handles[t] = <<>> /\ cache[Thread(t)] # <<>>
  /\ DropValue(t, Last(cache[Thread(t)]), panics)
  /\ cache' = [cache EXCEPT ![Thread(t)] = Front(@)]
  /\ pc' = IF panics THEN [pc EXCEPT ![t] = "end"] ELSE pc
  /\ UNCHANGED <<vals, store, poisoned, handles, todo, stack, body, outcome>>

\* Mutant: any panic caught around the body satisfies should_panic.
EndTestLax(t) ==
  /\ run = "tests"
  /\ \/ pc[t] = "end"
     \/ pc[t] = "teardown" /\ stack[t] = <<>> /\ handles[t] = <<>> /\ cache[Thread(t)] = <<>>
  /\ outcome' = [outcome EXCEPT ![t] =
       IF (t \in ShouldPanic /\ unwinding[t] /\ body[t] # "none")
          \/ (t \notin ShouldPanic /\ ~unwinding[t])
       THEN "pass" ELSE "fail"]
  /\ Goto(t, "done")
  /\ UNCHANGED <<heap, cache, handles, todo, given, stack, body, unwinding, run>>

\* The closure returns or unwinds.  should_panic contracts for a panic of the
\* body with the right message; one of the setup, or of the teardown of a body
\* that returned, fails.
EndTest(t) ==
  /\ run = "tests"
  /\ \/ pc[t] = "end"
     \/ pc[t] = "teardown" /\ stack[t] = <<>> /\ handles[t] = <<>> /\ cache[Thread(t)] = <<>>
  /\ outcome' = [outcome EXCEPT ![t] =
       IF \/ t \in ShouldPanic /\ body[t] = "panicked"
          \/ t \notin ShouldPanic /\ ~unwinding[t]
       THEN "pass" ELSE "fail"]
  /\ Goto(t, "done")
  /\ UNCHANGED <<heap, cache, handles, todo, given, stack, body, unwinding, run>>

-----------------------------------------------------------------------------
(* cleanup_process_fixtures, after libtest_mimic::run has joined every     *)
(* trial.                                                                  *)

TestsOver ==
  /\ run = "tests"
  /\ \A t \in Test : pc[t] = "done"
  /\ run' = "cleanup"
  /\ UNCHANGED <<heap, cache, handles, todo, given, stack, pc, body, unwinding, outcome>>

\* The newest process fixture is dropped; a panic ends the run there.
CleanupProcessFixture(panics) ==
  /\ run = "cleanup" /\ ~poisoned /\ store # <<>>
  /\ panics => Fix(Last(store)) \in DropPanics
  /\ live' = live \ {Last(store)}
  /\ store' = Front(store)
  /\ poisoned' = panics
  /\ run' = IF panics THEN "over" ELSE run
  /\ UNCHANGED <<vals, cache, handles, todo, given, stack, pc, body, unwinding, outcome>>

\* Nothing is left, or the poisoned mutex panics at once.
CleanupDone ==
  /\ run = "cleanup" /\ (poisoned \/ store = <<>>)
  /\ run' = "over"
  /\ UNCHANGED <<heap, cache, handles, todo, given, stack, pc, body, unwinding, outcome>>

Finished ==
  /\ run \in {"over", "aborted"}
  /\ UNCHANGED vars

-----------------------------------------------------------------------------

TestStep(t) ==
  \/ EnterTestScope(t) \/ FixtureGet(t) \/ Lookup(t)
  \/ SetupOk(t) \/ SetupErr(t) \/ SetupPanics(t) \/ SetupFailed(t) \/ Store(t) \/ LeaveFrame(t)
  \/ \E how \in Ending : RunBody(t, how)
  \/ \E panics \in BOOLEAN :
       \/ DropDependency(t, panics) \/ Publish(t, panics)
       \/ DropInFrame(t, panics) \/ DropHandle(t, panics) \/ ReclaimEntry(t, panics)
  \/ EndTest(t)

Next ==
  \/ \E t \in Test : TestStep(t)
  \/ \E f \in Fixture : WarmUp(f) \/ WarmUpFails(f)
  \/ RunTests \/ TestsOver \/ CleanupDone \/ Finished
  \/ \E panics \in BOOLEAN : CleanupProcessFixture(panics)

Spec == Init /\ [][Next]_vars
-----------------------------------------------------------------------------
(* Properties.                                                             *)

TypeOK ==
  /\ \A v \in DOMAIN vals : Fix(v) \in Fixture /\ vals[v].uses \subseteq 1 .. v - 1
  /\ live \subseteq DOMAIN vals
  /\ \A v \in ToSet(store) : v \in DOMAIN vals /\ ScopeOf[Fix(v)] = "process"
  /\ poisoned \in BOOLEAN
  /\ \A t \in Test :
       /\ \A v \in ToSet(cache[Thread(t)]) : v \in DOMAIN vals /\ ScopeOf[Fix(v)] = "test"
       /\ ToSet(handles[t]) \cup given[t] \subseteq DOMAIN vals
       /\ pc[t] \in {"idle", "setup", "teardown", "end", "done"}
       /\ body[t] \in Ending \cup {"none"}
       /\ unwinding[t] \in BOOLEAN
       /\ outcome[t] \in {"none", "pass", "fail"}
  /\ run \in {"main", "tests", "cleanup", "over", "aborted"}

\* What a test or a setup in progress has been given is never a dropped value,
\* whichever thread won the race to build a process fixture; the stores hold
\* values of their own scope (TypeOK).
GivenIsLive ==
  TypeOK /\ (run = "tests" => \A t \in Test :
    /\ given[t] \subseteq live
    /\ \A i \in 1 .. Len(stack[t]) : stack[t][i].uses \subseteq live)

\* Tests that use a process fixture use the same value, though two of them may
\* have built one at the same time; and no test is given a test-scoped value
\* that another one made, though a panicking Drop leaves entries behind in
\* TEST_FIXTURES.
ScopeDecidesSharing ==
  /\ \A t, u \in Test : \A v \in given[t], w \in given[u] :
       Fix(v) = Fix(w) /\ ScopeOf[Fix(v)] = "process" => v = w
  /\ \A t \in Test : \A v \in given[t] \cup UNION {stack[t][i].uses : i \in DOMAIN stack[t]} :
       ScopeOf[Fix(v)] = "test" => vals[v].by = t

\* A fixture is torn down while the cached fixtures its setup was given are
\* still there: the LIFO order of TestScope's Drop and of the process cleanup,
\* across threads.
DependenciesOutlive ==
  [][\A v \in live \ live' : vals[v].uses \subseteq live]_vars

\* A should_panic test passes only by a panic of its own body, any other test
\* only if nothing panicked: an error in a setup or a teardown never passes,
\* and fixtures that a panicking Drop makes TestScope leave behind never go
\* unnoticed.
VerdictIsTheBodys ==
  \A t \in Test : outcome[t] = "pass" =>
    /\ IF t \in ShouldPanic THEN body[t] = "panicked"
       ELSE body[t] = "returned" /\ ~unwinding[t]
    /\ ToSet(cache[Thread(t)]) \cap live = {}
=============================================================================
