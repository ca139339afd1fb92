------------------------------- MODULE Guards -------------------------------
(***************************************************************************)
(* The built-in fixtures that change state outside the test: CwdGuard      *)
(* (src/fixtures/cwd.rs), EnvGuard (src/fixtures/env.rs) and TempDir       *)
(* (src/fixtures/temp_dir.rs).  Tests that use the guards are serial, so   *)
(* they run one after another in the process; each gets fresh guards and   *)
(* may leave something behind for the next.  A body may catch a panic of a  *)
(* call it makes.  A temporary directory is a pair <<parent, name>>; they  *)
(* are not nested.                                                         *)
(***************************************************************************)
EXTENDS Naturals, Sequences, SequencesExt

CONSTANTS
    Dir, Home,          \* directories; where the process was started
    Tmp,                \* std::env::temp_dir()
    Here,               \* the relative path "."
    Name,               \* names tempfile may draw
    Key, Value, Unset,  \* environment variables and what they may hold
    Refused,            \* keys that set_var and remove_var panic on: "", "A=B", a NUL in it
    BadValue,           \* a value that set_var panics on: a NUL in it
    Orders,             \* the orders in which a test may get its test-scoped fixtures
    NTests,             \* bound: tests run in the process
    MaxTemps,           \* bound: TempDirs a test holds at once
    MaxOps              \* bound: calls a test makes

ASSUME GuardsAssumption ==
    /\ {Home, Tmp} \subseteq Dir /\ Here \notin Dir /\ Unset \notin Value
    /\ Refused \subseteq Key /\ BadValue \notin Value \union {Unset}
    /\ \A s \in Orders : s \in Seq({"cwd", "env", "other"}) /\ {"cwd", "env"} \subseteq ToSet(s)
    /\ Dir \intersect (Dir \X Name) = {} /\ Name # {}
    /\ NTests \in Nat \ {0} /\ MaxTemps \in Nat /\ MaxOps \in Nat

VARIABLES
    cwd,        \* the process's working directory
    gone,       \* directories that have been removed
    stack,      \* CwdGuard::stack
    poisoned,   \* its mutex
    env,        \* the process's environment
    original,   \* EnvGuard::original, a sequence of <<key, old value>>
    fs,         \* the temporary directories that exist, others' too
    others,     \* history: those that were there before this process
    temps,      \* the TempDirs the test holds: the `created` of each
    stray,      \* history: those whose removal failed, with a warning or an error
    scope,      \* the fixtures TestScope's loop has yet to pop, the newest last
    found,      \* history: directory and environment as this test found them
    faults,     \* history: what went wrong in this test ...
    skipped,    \* ... and the guards whose Drop has not been run to its end
    phase, tests, ops

cwdVars == <<cwd, stack, poisoned>>
envVars == <<env, original>>
tempVars == <<fs, others, temps, stray>>
history == <<found, faults, skipped>>
vars == <<cwdVars, gone, envVars, tempVars, scope, history, phase, tests, ops>>

Exists(p) == IF p \in Dir THEN p \notin gone ELSE p \in fs

Init ==
    /\ cwd = Home /\ gone = {} /\ stack = <<>> /\ poisoned = FALSE
    /\ env \in {e \in [Key -> Value \union {Unset}] : \A k \in Refused : e[k] = Unset}
    /\ original = <<>>
    /\ others \in SUBSET {<<d, CHOOSE n \in Name : TRUE>> : d \in Dir \ {Home}}
    /\ fs = others /\ temps = <<>> /\ stray = {}
    /\ scope = <<>> /\ found = [cwd |-> cwd, env |-> env] /\ faults = {} /\ skipped = {}
    /\ phase = "idle" /\ tests = 0 /\ ops = 0

\* CwdGuard::new needs the working directory to exist; EnvGuard::new.
SetUp ==
    /\ phase = "idle" /\ tests < NTests /\ Exists(cwd)
    /\ tests' = tests + 1 /\ ops' = 0 /\ phase' = "body"
    /\ stack' = <<cwd>> /\ poisoned' = FALSE /\ original' = <<>>
    /\ found' = [cwd |-> cwd, env |-> env] /\ faults' = {} /\ skipped' = {}
    /\ UNCHANGED <<cwd, gone, env, tempVars, scope>>

SetUpFails ==
    /\ phase = "idle" /\ tests < NTests /\ ~Exists(cwd)
    /\ tests' = tests + 1
    /\ UNCHANGED <<cwdVars, gone, envVars, tempVars, scope, history, phase, ops>>

InBody == phase = "body" /\ ops < MaxOps
Returns == phase' = phase /\ ops' = ops + 1
Leaving == phase \in {"returned", "unwinding"}
Panics == phase' \in {"body", "unwinding"} /\ ops' = ops + 1

-----------------------------------------------------------------------------
(* CwdGuard *)

\* Mutant: set keeps the mutex locked while it changes directory
CwdSetHoldsLock(d) ==
    /\ InBody
    /\ IF ~Exists(cwd) \/ poisoned THEN Panics /\ UNCHANGED cwdVars
       ELSE /\ stack' = Append(stack, cwd)
            /\ IF ~Exists(d) THEN Panics /\ poisoned' = TRUE /\ UNCHANGED cwd
               ELSE cwd' = d /\ Returns /\ UNCHANGED poisoned
    /\ UNCHANGED <<gone, envVars, tempVars, scope, history, tests>>

\* set: the current directory is pushed before the change that may fail.
CwdSet(d) ==
    /\ InBody
    /\ IF ~Exists(cwd) \/ poisoned THEN Panics /\ UNCHANGED <<cwd, stack>>
       ELSE /\ stack' = Append(stack, cwd)
            /\ IF ~Exists(d) THEN Panics /\ UNCHANGED cwd
               ELSE cwd' = d /\ Returns
    /\ UNCHANGED <<poisoned, gone, envVars, tempVars, scope, history, tests>>

\* back: pops, and changes to what it popped.  The mutex is held by the whole
\* statement, so the panic of `expect` on an empty stack poisons it.  To pop the
\* directory that CwdGuard::new put there is a fault: no set is left to undo.
CwdBack ==
    /\ InBody
    /\ IF poisoned \/ stack = <<>> THEN Panics /\ poisoned' = TRUE /\ UNCHANGED <<cwd, stack, faults>>
       ELSE /\ stack' = Front(stack) /\ UNCHANGED poisoned
            /\ faults' = IF Len(stack) = 1 THEN faults \union {"back"} ELSE faults
            /\ IF ~Exists(Last(stack)) THEN Panics /\ UNCHANGED cwd
               ELSE cwd' = Last(stack) /\ Returns
    /\ UNCHANGED <<gone, envVars, tempVars, scope, found, skipped, tests>>

\* The body changes directory itself, or a directory is removed.
RawChdir(d) ==
    /\ InBody /\ Exists(d) /\ cwd' = d /\ Returns
    /\ UNCHANGED <<stack, poisoned, gone, envVars, tempVars, scope, history, tests>>

RemoveDir(d) ==
    /\ InBody /\ d # Home /\ d \notin gone /\ gone' = gone \union {d} /\ Returns
    /\ fs' = {p \in fs : p[1] # d}
    /\ UNCHANGED <<cwdVars, envVars, others, temps, stray, scope, history, tests>>

-----------------------------------------------------------------------------
(* EnvGuard *)

\* set and remove (v = Unset): the old value is recorded, then changed.  A key
\* that the system refuses stays recorded when the change panics.
EnvSet(k, v) ==
    /\ InBody
    /\ original' = Append(original, <<k, env[k]>>)
    /\ faults' = IF k \in Refused THEN faults \union {"key"} ELSE faults
    /\ IF k \in Refused \/ v = BadValue THEN Panics /\ UNCHANGED env
       ELSE env' = [env EXCEPT ![k] = v] /\ Returns
    /\ UNCHANGED <<cwdVars, gone, tempVars, scope, found, skipped, tests>>

-----------------------------------------------------------------------------
(* TempDir *)

\* Where the kernel finds a path now.
At(p) == IF p[1] = Here THEN <<cwd, p[2]>> ELSE p

\* Mutant: a relative parent is kept as it was given
AsGiven(parent) == parent

\* with_prefix_in: std::path::absolute.
Absolute(parent) == IF parent = Here THEN cwd ELSE parent

\* Mutant: create_dir_all, which is content with a directory that is there
FreeOrNot(parent) == Name

\* create_with: a taken name is AlreadyExists, and tempfile draws another.
Free(parent) == {n \in Name : At(<<parent, n>>) \notin fs}

\* TempDir::new and new_in, whose error the test unwraps, and the temp_dir
\* fixture, whose error fails the test.
NewIn(parent) ==
    /\ InBody /\ Len(temps) < MaxTemps /\ (parent = Here => cwd \in Dir)
    /\ LET d == Absolute(parent)
       IN  IF ~Exists(IF d = Here THEN cwd ELSE d) \/ Free(d) = {} THEN Panics /\ UNCHANGED <<fs, temps>>
           ELSE \E n \in Free(d) :
                  /\ fs' = fs \union {At(<<d, n>>)}
                  /\ temps' = Append(temps, <<d, n>>) /\ Returns
    /\ UNCHANGED <<cwdVars, gone, envVars, others, stray, scope, history, tests>>

\* The temp_dir fixture cannot canonicalize its path: the new TempDir is dropped
\* on the way out, which may fail in turn.
CanonicalizeFails(fails) ==
    /\ InBody /\ Exists(Tmp)
    /\ \E n \in Free(Tmp) :
         /\ fs' = IF fails THEN fs \union {<<Tmp, n>>} ELSE fs
         /\ stray' = IF fails THEN stray \union {<<Tmp, n>>} ELSE stray
    /\ phase' = "unwinding" /\ ops' = ops + 1
    /\ UNCHANGED <<cwdVars, gone, envVars, others, temps, scope, history, tests>>

\* remove_dir_all: it may fail, and fails if nothing is there.
RemoveDirAll(p, fails) ==
    /\ fs' = IF fails THEN fs ELSE fs \ {At(p)}
    /\ stray' = IF fails /\ At(p) \in fs THEN stray \union {At(p)} ELSE stray

\* close: the path is taken out before the removal, so Drop does not try again.
Close(fails) ==
    /\ InBody /\ temps # <<>>
    /\ temps' = Front(temps)
    /\ RemoveDirAll(Last(temps), fails)
    /\ IF fails \/ At(Last(temps)) \notin fs THEN Panics ELSE Returns
    /\ UNCHANGED <<cwdVars, gone, envVars, others, scope, history, tests>>

\* TempDir's Drop, of locals and of variable-scoped fixtures: before the scope's.
DropTemp(fails) ==
    /\ Leaving /\ temps # <<>>
    /\ temps' = Front(temps)
    /\ RemoveDirAll(Last(temps), fails)
    /\ UNCHANGED <<cwdVars, gone, envVars, others, scope, history, phase, tests, ops>>

-----------------------------------------------------------------------------
(* The end of the test (src/fixture.rs): TestScope's Drop pops the          *)
(* test-scoped fixtures, the newest first.  "other" is one that is neither  *)
(* guard.                                                                   *)

BodyEnds ==
    /\ phase = "body" /\ phase' \in {"returned", "unwinding"}
    /\ UNCHANGED <<cwdVars, gone, envVars, tempVars, scope, history, tests, ops>>

\* The order in which the test has got them matters from here on.
EnterScopeDrop ==
    /\ Leaving /\ temps = <<>> /\ scope = <<>>
    /\ scope' \in Orders
    /\ UNCHANGED <<cwdVars, gone, envVars, tempVars, history, phase, tests, ops>>

Dropping(fixture) == scope # <<>> /\ Last(scope) = fixture

\* The entry is dropped; after the last one the test is over.
Dropped ==
    /\ scope' = Front(scope)
    /\ phase' = IF Len(scope) = 1 THEN "idle" ELSE phase
    /\ UNCHANGED skipped

\* The Drop of the newest entry panics.  While unwinding that aborts the process;
\* otherwise the loop ends, and what has not been popped never is: the next
\* test's thread has a list of its own.
ScopePanics ==
    /\ scope' = <<>>
    /\ phase' = IF phase = "unwinding" THEN "aborted" ELSE "idle"
    /\ skipped' = ToSet(scope) \ {"other"}

DropOther(panics) ==
    /\ Dropping("other")
    /\ IF panics THEN ScopePanics /\ faults' = faults \union {"drop"} ELSE Dropped /\ UNCHANGED faults
    /\ UNCHANGED <<cwdVars, gone, envVars, tempVars, found, tests, ops>>

\* EnvGuard's Drop: the entries in reverse order, one step for each.  No other
\* Drop runs before the last of them is undone.
DropEnv ==
    /\ Dropping("env") /\ original # <<>>
    /\ LET entry == Last(original)
       IN  IF entry[1] \in Refused
           THEN ScopePanics /\ UNCHANGED envVars
           ELSE /\ env' = [env EXCEPT ![entry[1]] = entry[2]]
                /\ original' = Front(original)
                /\ UNCHANGED <<scope, phase, skipped>>
    /\ UNCHANGED <<cwdVars, gone, tempVars, found, faults, tests, ops>>

EnvDropped ==
    /\ Dropping("env") /\ original = <<>>
    /\ Dropped
    /\ UNCHANGED <<cwdVars, gone, envVars, tempVars, found, faults, tests, ops>>

\* Mutant: Drop returns to the last entry, as back would
DropCwdLast ==
    /\ Dropping("cwd")
    /\ cwd' = IF stack # <<>> /\ Exists(Last(stack)) THEN Last(stack) ELSE cwd
    /\ Dropped
    /\ UNCHANGED <<stack, poisoned, gone, envVars, tempVars, found, faults, tests, ops>>

\* CwdGuard's Drop.  get_mut().unwrap() panics on a poisoned mutex; a directory
\* that is not there any more is not an error.
DropCwd ==
    /\ Dropping("cwd")
    /\ IF poisoned THEN ScopePanics /\ UNCHANGED cwd
       ELSE /\ cwd' = IF stack # <<>> /\ Exists(Head(stack)) THEN Head(stack) ELSE cwd
            /\ Dropped
    /\ UNCHANGED <<stack, poisoned, gone, envVars, tempVars, found, faults, tests, ops>>

Finished ==
    /\ phase = "aborted" \/ (phase = "idle" /\ tests = NTests)
    /\ UNCHANGED vars

Next ==
    \/ SetUp \/ SetUpFails \/ CwdBack \/ BodyEnds \/ EnterScopeDrop
    \/ DropEnv \/ EnvDropped \/ DropCwd \/ Finished
    \/ \E d \in Dir : RawChdir(d) \/ RemoveDir(d)
    \/ \E d \in Dir \union ToSet(temps) : CwdSet(d)
    \/ \E parent \in {Here, Tmp} : NewIn(parent)
    \/ \E fails \in BOOLEAN : CanonicalizeFails(fails) \/ Close(fails) \/ DropTemp(fails) \/ DropOther(fails)
    \/ \E k \in Key, v \in Value \union {Unset, BadValue} : EnvSet(k, v)

Spec == Init /\ [][Next]_vars

-----------------------------------------------------------------------------
(* Properties *)

\* The variables have their types, and until a back without a set the stack has
\* the directory the test has found at its bottom.
TypeOK ==
    /\ cwd \in Dir \union (Dir \X Name) /\ gone \subseteq Dir \ {Home}
    /\ env \in [Key -> Value \union {Unset}] /\ poisoned \in BOOLEAN
    /\ others \union fs \union stray \union ToSet(temps) \subseteq Dir \X Name
    /\ phase \in {"idle", "body", "returned", "unwinding", "aborted"}
    /\ faults \subseteq {"back", "key", "drop"} /\ skipped \subseteq {"cwd", "env"}
    /\ phase = "body" /\ "back" \notin faults => stack # <<>> /\ Head(stack) = found.cwd

\* A guard whose Drop is run to its end leaves what the test has found: every
\* variable as it was, however often a key was set and removed; the directory,
\* if it still exists and no back has taken it off the stack, also after panics,
\* removed directories, a temp_dir removed around it and changes behind the
\* guard's back; and whatever earlier tests have left changed.
ProcessRestored ==
    /\ TypeOK
    /\ phase = "idle" /\ "env" \notin skipped => env = found.env
    /\ phase = "idle" /\ "cwd" \notin skipped /\ "back" \notin faults /\ Exists(found.cwd)
          => cwd = found.cwd

\* A guard's Drop is cut short, or the process aborts in it, for a cause of this
\* very test only: the Drop of another fixture panicked, EnvGuard has to restore
\* a key that the system refuses, or CwdGuard's mutex was poisoned by going back
\* further than set.  A missing directory, a value that the system refuses or a
\* panic the test has caught does not get there, and EnvGuard is not skipped for
\* CwdGuard's sake, nor the other way round, unless that one fails itself.
TeardownNeedsFault ==
    phase = "aborted" \/ skipped # {} =>
        \/ "drop" \in faults
        \/ "key" \in faults /\ "env" \in skipped
        \/ "back" \in faults /\ "cwd" \in skipped

\* When a test is over every temporary directory it made is gone, except those
\* whose removal failed and was reported, wherever the test has moved the
\* working directory and however it ended.
TempDirsRemoved == phase = "idle" => fs \subseteq others \union stray

\* A TempDir never removes a directory it has not made: not one whose name it
\* drew again, nor one a later working directory would make of its path.
OthersStay == [][(others \intersect fs) \ fs' # {} => gone' # gone]_vars
=============================================================================
