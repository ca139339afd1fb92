---------------------------- MODULE GuardsProofs ----------------------------
(***************************************************************************)
(* Proofs about Guards for any number of tests and of calls in each, any   *)
(* directories, variables and values.                                      *)
(***************************************************************************)
EXTENDS Guards, SequenceTheorems, TLAPS

Path == Dir \union (Dir \X Name)

-----------------------------------------------------------------------------
(* Sequences that are used as stacks.                                      *)

\* What pop leaves.
LEMMA FrontOfSeq ==
  ASSUME NEW S, NEW s \in Seq(S), s # <<>>
  PROVE  /\ Front(s) \in Seq(S) /\ Len(Front(s)) = Len(s) - 1 /\ Len(s) \in Nat \ {0}
         /\ \A i \in 1 .. Len(s) - 1 : Front(s)[i] = s[i]
         /\ Last(s) \in S /\ Last(s) = s[Len(s)]
<1>1. Len(s) \in Nat \ {0} /\ \A i \in 1 .. Len(s) : s[i] \in S
  BY EmptySeq, LenProperties
<1>2. \A i \in 1 .. Len(s) - 1 : s[i] \in S
  BY <1>1
<1>3. /\ Front(s) \in Seq(S) /\ Len(Front(s)) = IF 1 <= Len(s) - 1 THEN Len(s) - 1 - 1 + 1 ELSE 0
      /\ \A i \in 1 .. Len(s) - 1 - 1 + 1 : Front(s)[i] = s[1 + i - 1]
  BY <1>1, <1>2, SubSeqProperties DEF Front
<1>4. \A i \in 1 .. Len(s) - 1 : Front(s)[i] = s[i]
  BY <1>1, <1>3
<1>5. Last(s) \in S /\ Last(s) = s[Len(s)]
  BY <1>1 DEF Last
<1>6. Len(Front(s)) = Len(s) - 1
  <2>1. \A n \in Nat \ {0} : (IF 1 <= n - 1 THEN n - 1 - 1 + 1 ELSE 0) = n - 1
    OBVIOUS
  <2>. QED  BY <1>1, <1>3, <2>1, Zenon
<1>. QED  BY <1>1, <1>3, <1>4, <1>5, <1>6, Zenon

\* What push leaves.
LEMMA AppendToSeq ==
  ASSUME NEW S, NEW s \in Seq(S), NEW e \in S
  PROVE  /\ Append(s, e) \in Seq(S) /\ Len(Append(s, e)) = Len(s) + 1 /\ Len(s) \in Nat
         /\ \A i \in 1 .. Len(s) : Append(s, e)[i] = s[i]
         /\ Append(s, e)[Len(s) + 1] = e
OBVIOUS

\* The elements of a stack that is pushed to or popped from.
LEMMA ToSetOfStack ==
  ASSUME NEW S, NEW s \in Seq(S)
  PROVE  /\ ToSet(s) \subseteq S /\ ToSet(<<>>) = {}
         /\ \A e \in S : ToSet(Append(s, e)) = ToSet(s) \union {e}
         /\ s # <<>> => ToSet(s) = ToSet(Front(s)) \union {Last(s)}
<1>1. ToSet(s) \subseteq S /\ ToSet(<<>>) = {}
  BY DEF ToSet
<1>2. ASSUME NEW e \in S PROVE ToSet(Append(s, e)) = ToSet(s) \union {e}
  <2>1. DOMAIN Append(s, e) = DOMAIN s \union {Len(s) + 1} /\ DOMAIN s = 1 .. Len(s) /\ Len(s) \in Nat
    OBVIOUS
  <2>2. (\A i \in DOMAIN s : Append(s, e)[i] = s[i]) /\ Append(s, e)[Len(s) + 1] = e
    BY <2>1, AppendToSeq
  <2>. QED  BY <2>1, <2>2 DEF ToSet
<1>3. ASSUME s # <<>> PROVE ToSet(s) = ToSet(Front(s)) \union {Last(s)}
  <2>1. DOMAIN s = DOMAIN Front(s) \union {Len(s)} /\ DOMAIN Front(s) = 1 .. Len(s) - 1
    <3>1. /\ Front(s) \in Seq(S) /\ Len(Front(s)) = Len(s) - 1 /\ Len(s) \in Nat \ {0}
      BY <1>3, FrontOfSeq
    <3>2. DOMAIN s = 1 .. Len(s) /\ DOMAIN Front(s) = 1 .. Len(Front(s))
      BY <3>1, LenProperties
    <3>. QED  BY <3>1, <3>2
  <2>2. (\A i \in DOMAIN Front(s) : Front(s)[i] = s[i]) /\ Last(s) = s[Len(s)]
    BY <1>3, <2>1, FrontOfSeq
  <2>. QED  BY <2>1, <2>2 DEF ToSet
<1>. QED  BY <1>1, <1>2, <1>3

-----------------------------------------------------------------------------
(* The inductive invariant, a part for each guard.                         *)

Active == phase \in {"body", "returned", "unwinding"}
Fixture == {"cwd", "env", "other"}
Entry == Key \X (Value \union {Unset})

Types ==
  /\ cwd \in Path /\ gone \subseteq Dir \ {Home} /\ poisoned \in BOOLEAN /\ stack \in Seq(Path)
  /\ env \in [Key -> Value \union {Unset}] /\ original \in Seq(Entry)
  /\ others \subseteq Dir \X Name /\ fs \subseteq Dir \X Name /\ stray \subseteq Dir \X Name
  /\ temps \in Seq(Dir \X Name)
  /\ scope \in Seq(Fixture) /\ found \in [cwd : Path, env : [Key -> Value \union {Unset}]]
  /\ faults \subseteq {"back", "key", "drop"} /\ skipped \subseteq {"cwd", "env"}
  /\ phase \in {"idle", "body", "returned", "unwinding", "aborted"}

\* Until a back without a set the directory the test has found stays at the
\* bottom of the stack, and the mutex is whole; once CwdGuard is dropped the
\* process is back there.
CwdIsFound == "back" \notin faults /\ Exists(found.cwd) => cwd = found.cwd

CwdInv ==
  /\ Active /\ "back" \notin faults => ~poisoned /\ Len(stack) >= 1 /\ stack[1] = found.cwd
  /\ scope # <<>> /\ "cwd" \notin ToSet(scope) => CwdIsFound
  /\ phase = "idle" /\ "cwd" \notin skipped => CwdIsFound

\* The earliest entry of a key holds what the test has found; a key without an
\* entry has that value; once EnvGuard is dropped there are no entries.
EnvInv ==
  /\ \A k \in Key : (\A i \in 1 .. Len(original) : original[i][1] # k) => env[k] = found.env[k]
  /\ \A i \in 1 .. Len(original) :
       (\A j \in 1 .. i - 1 : original[j][1] # original[i][1]) => original[i][2] = found.env[original[i][1]]
  /\ \A i \in 1 .. Len(original) : original[i][1] \in Refused => "key" \in faults
  /\ scope # <<>> /\ "env" \notin ToSet(scope) => original = <<>>
  /\ phase = "idle" /\ "env" \notin skipped => original = <<>>

\* What is there was there before, is held by the test, or could not be
\* removed; what was there before is there, except in removed directories, and
\* no TempDir holds it.
TempInv ==
  /\ fs \subseteq others \union stray \union ToSet(temps)
  /\ \A p \in others : p[1] \notin gone => p \in fs
  /\ ToSet(temps) \intersect others = {}
  /\ phase = "idle" => temps = <<>>

\* TestScope's loop runs after the locals are dropped, and ends early with cause.
ScopeInv ==
  /\ scope # <<>> => Leaving /\ temps = <<>>
  /\ TeardownNeedsFault

IInv == Types /\ CwdInv /\ EnvInv /\ TempInv /\ ScopeInv

\* Nothing is set up, nothing is changed.
LEMMA InitIInv == Init => IInv
<1> SUFFICES ASSUME Init PROVE IInv
  OBVIOUS
<1>1. Types
  <2>1. (CHOOSE n \in Name : TRUE) \in Name
    BY GuardsAssumption
  <2>2. others \subseteq Dir \X Name
    BY <2>1 DEF Init
  <2>3. <<>> \in Seq(Path) /\ <<>> \in Seq(Entry) /\ <<>> \in Seq(Dir \X Name) /\ <<>> \in Seq(Fixture)
    OBVIOUS
  <2>4. env \in [Key -> Value \union {Unset}] /\ cwd \in Path
    BY GuardsAssumption DEF Init, Path
  <2>5. found \in [cwd : Path, env : [Key -> Value \union {Unset}]]
    BY <2>4 DEF Init
  <2>. QED  BY <2>2, <2>3, <2>4, <2>5 DEF Init, Types
<1>2. CwdInv
  BY DEF Init, CwdInv, CwdIsFound, Active
<1>3. EnvInv
  BY DEF Init, EnvInv
<1>4. TempInv /\ ScopeInv
  BY DEF Init, TempInv, ScopeInv, TeardownNeedsFault, ToSet
<1>. QED  BY <1>1, <1>2, <1>3, <1>4 DEF IInv

-----------------------------------------------------------------------------
(* The steps by what they do to TestScope's loop.                          *)

\* A step of the body, or of the Drop of its locals: the loop has not begun, and
\* the test is not over.
Local ==
  /\ Active /\ Active' /\ scope = <<>> /\ UNCHANGED <<scope, found, skipped>>

\* A step of the loop: an entry is dropped, or its Drop panics, and what is not
\* dropped is skipped; either way the entry was the newest.
Popping(fixture) ==
  /\ Active /\ scope # <<>> /\ fixture \in ToSet(scope)
  /\ UNCHANGED <<gone, fs, others, temps, stray, found>>
  /\ \/ scope' \in Seq(Fixture) /\ ToSet(scope) = ToSet(scope') \union {fixture}
        /\ (scope' = <<>> => phase' = "idle" /\ ToSet(scope) = {fixture}) /\ (scope' # <<>> => UNCHANGED phase)
        /\ UNCHANGED skipped
     \/ scope' = <<>> /\ phase' \in {"idle", "aborted"} /\ skipped' = ToSet(scope) \ {"other"}

LEMMA LocalSteps ==
  ASSUME IInv
  PROVE  /\ BodyEnds \/ CwdBack => Local
         /\ \A d : RawChdir(d) \/ RemoveDir(d) \/ CwdSet(d) \/ NewIn(d) => Local
         /\ \A fails : CanonicalizeFails(fails) \/ Close(fails) \/ DropTemp(fails) => Local
         /\ \A k, v : EnvSet(k, v) => Local
<1>1. phase = "body" \/ temps # <<>> => scope = <<>>
  BY DEF IInv, ScopeInv, Leaving
<1>2. BodyEnds \/ CwdBack => Local
  BY <1>1 DEF BodyEnds, CwdBack, InBody, Panics, Returns, Local, Active, history
<1>3. ASSUME NEW d, RawChdir(d) \/ RemoveDir(d) \/ CwdSet(d) \/ NewIn(d) PROVE Local
  BY <1>1, <1>3 DEF RawChdir, RemoveDir, CwdSet, NewIn, InBody, Panics, Returns, Local, Active, history
<1>4. ASSUME NEW fails, CanonicalizeFails(fails) \/ Close(fails) \/ DropTemp(fails) PROVE Local
  BY <1>1, <1>4 DEF CanonicalizeFails, Close, DropTemp, InBody, Panics, Returns, Leaving, Local, Active, history
<1>5. ASSUME NEW k, NEW v, EnvSet(k, v) PROVE Local
  BY <1>1, <1>5 DEF EnvSet, InBody, Panics, Returns, Local, Active, history
<1>. QED  BY <1>2, <1>3, <1>4, <1>5

LEMMA PoppingSteps ==
  ASSUME IInv
  PROVE  /\ \A panics : DropOther(panics) => Popping("other")
         /\ EnvDropped \/ (DropEnv /\ Last(original)[1] \in Refused) => Popping("env")
         /\ DropCwd => Popping("cwd")
<1> DEFINE Pops(f) == Dropping(f) /\ (Dropped \/ ScopePanics) /\ UNCHANGED <<gone, fs, others, temps, stray, found>>
<1>1. ASSUME NEW f, Pops(f) PROVE Popping(f)
  <2>1. /\ scope \in Seq(Fixture) /\ scope # <<>> /\ Last(scope) = f /\ Active
        /\ phase \in {"returned", "unwinding"}
    BY <1>1 DEF Dropping, IInv, Types, ScopeInv, Leaving, Active
  <2>2. /\ ToSet(scope) = ToSet(Front(scope)) \union {f} /\ Front(scope) \in Seq(Fixture)
        /\ Len(Front(scope)) = Len(scope) - 1 /\ Len(scope) \in Nat \ {0}
    BY <2>1, ToSetOfStack, FrontOfSeq
  <2>3. Len(scope) = 1 <=> Front(scope) = <<>>
    BY <2>2
  <2>4. Front(scope) = <<>> => ToSet(scope) = {f}
    BY <2>2 DEF ToSet
  <2>5. CASE Dropped
    BY <1>1, <2>1, <2>2, <2>3, <2>4, <2>5 DEF Dropped, Popping
  <2>6. CASE ScopePanics
    BY <1>1, <2>1, <2>2, <2>6 DEF ScopePanics, Popping
  <2>. QED  BY <1>1, <2>5, <2>6
<1>2. ASSUME NEW panics, DropOther(panics) PROVE Pops("other")
  BY <1>2 DEF DropOther, tempVars
<1>3. ASSUME EnvDropped \/ (DropEnv /\ Last(original)[1] \in Refused) PROVE Pops("env")
  BY <1>3 DEF EnvDropped, DropEnv, tempVars
<1>4. ASSUME DropCwd PROVE Pops("cwd")
  BY <1>4 DEF DropCwd, tempVars
<1> HIDE DEF Pops
<1>. QED  BY <1>1, <1>2, <1>3, <1>4

-----------------------------------------------------------------------------
(* One part at a time: what a step does to its guard.                      *)

\* The working directory and its stack.
LEMMA NextCwd ==
  ASSUME IInv, Next
  PROVE  CwdInv' /\ cwd' \in Path /\ gone' \subseteq Dir \ {Home} /\ poisoned' \in BOOLEAN
           /\ stack' \in Seq(Path)
<1> DEFINE Good == CwdInv /\ cwd \in Path /\ gone \subseteq Dir \ {Home} /\ poisoned \in BOOLEAN
                     /\ stack \in Seq(Path)
<1> SUFFICES Good'
  OBVIOUS
<1>0. /\ CwdInv /\ cwd \in Path /\ gone \subseteq Dir \ {Home} /\ poisoned \in BOOLEAN
      /\ stack \in Seq(Path) /\ Len(stack) \in Nat
  BY DEF IInv, Types
<1>1. ASSUME Local, UNCHANGED <<stack, poisoned>>, "back" \in faults => "back" \in faults',
             cwd' \in Path, gone' \subseteq Dir \ {Home}
      PROVE  Good'
  BY <1>0, <1>1 DEF CwdInv, Active, Local
<1>2. ASSUME NEW f, f # "cwd", Popping(f), UNCHANGED <<cwd, stack, poisoned>>,
             "back" \in faults => "back" \in faults'
      PROVE  Good'
  <2>1. Exists(found.cwd)' <=> Exists(found.cwd)
    BY <1>2 DEF Popping, Exists
  <2>2. CwdIsFound => CwdIsFound'
    BY <1>2, <2>1 DEF CwdIsFound, Popping
  <2>3. scope' # <<>> => phase' = phase /\ ("cwd" \notin ToSet(scope') => "cwd" \notin ToSet(scope))
    BY <1>2 DEF Popping
  <2>4. phase' = "idle" /\ "cwd" \notin skipped' => scope # <<>> /\ "cwd" \notin ToSet(scope)
    BY <1>2 DEF Popping, Active
  <2>5. Active' => Active
    BY <1>2 DEF Popping
  <2>. QED  BY <1>0, <1>2, <2>2, <2>3, <2>4, <2>5 DEF CwdInv, Popping
<1>3. CASE SetUp
  <2>1. stack' = <<cwd>> /\ <<cwd>> \in Seq(Path) /\ Len(<<cwd>>) = 1 /\ <<cwd>>[1] = cwd
    BY <1>0, <1>3 DEF SetUp
  <2>2. found'.cwd = cwd /\ poisoned' = FALSE /\ phase' = "body" /\ UNCHANGED <<cwd, gone, scope>> /\ scope = <<>>
    BY <1>3 DEF SetUp, IInv, ScopeInv, Leaving
  <2>3. stack' \in Seq(Path) /\ Len(stack') = 1 /\ stack'[1] = found'.cwd
    BY <2>1, <2>2
  <2>4. scope' = <<>> /\ ~poisoned' /\ Len(stack') >= 1 /\ phase' # "idle"
    BY <2>2, <2>3
  <2>5. CwdInv'
    BY <2>3, <2>4, Zenon DEF CwdInv
  <2>. QED  BY <1>0, <2>2, <2>3, <2>5
<1>4. ASSUME NEW d \in Path, CwdSet(d) PROVE Good'
  <2>1. Local /\ cwd' \in Path /\ UNCHANGED <<poisoned, gone, faults>>
    BY <1>0, <1>4, LocalSteps DEF CwdSet, history
  <2>2. CASE UNCHANGED stack
    BY <1>0, <1>1, <2>1, <2>2
  <2>3. CASE stack' = Append(stack, cwd)
    <3>1. /\ stack' \in Seq(Path) /\ Len(stack') = Len(stack) + 1 /\ Len(stack) \in Nat
          /\ Len(stack) >= 1 => stack'[1] = stack[1]
      BY <1>0, <2>3, AppendToSeq
    <3>. QED  BY <1>0, <2>1, <3>1 DEF CwdInv, Local, Active
  <2>. QED  BY <1>4, <2>2, <2>3 DEF CwdSet
<1>5. CASE CwdBack
  <2>1. Local /\ UNCHANGED <<gone, found>>
    BY <1>5, LocalSteps DEF CwdBack
  <2>2. CASE poisoned \/ stack = <<>>
    <3>1. "back" \in faults
      BY <1>0, <2>1, <2>2 DEF CwdInv, Local
    <3>. QED  BY <1>0, <1>5, <2>1, <2>2, <3>1 DEF CwdBack, CwdInv, Local, Active
  <2>3. CASE ~poisoned /\ stack # <<>>
    <3>1. /\ stack' = Front(stack) /\ UNCHANGED poisoned /\ (UNCHANGED cwd \/ cwd' = Last(stack))
          /\ faults' = IF Len(stack) = 1 THEN faults \union {"back"} ELSE faults
      BY <1>5, <2>3 DEF CwdBack
    <3>2. /\ stack' \in Seq(Path) /\ Len(stack') = Len(stack) - 1 /\ Len(stack) \in Nat \ {0}
          /\ \A i \in 1 .. Len(stack) - 1 : stack'[i] = stack[i]
          /\ Last(stack) \in Path
      BY <1>0, <2>3, <3>1, FrontOfSeq
    <3>3. "back" \notin faults' => Len(stack) # 1 /\ "back" \notin faults
      BY <3>1
    <3>. QED  BY <1>0, <2>1, <2>3, <3>1, <3>2, <3>3 DEF CwdInv, Local, Active
  <2>. QED  BY <2>2, <2>3
<1>6. ASSUME NEW d \in Dir, RawChdir(d) \/ RemoveDir(d) PROVE Good'
  <2>1. Local
    BY <1>6, LocalSteps
  <2>. QED  BY <1>0, <1>1, <1>6, <2>1 DEF RawChdir, RemoveDir, history, cwdVars, Path
<1>7. CASE DropCwd
  <2>1. Popping("cwd") /\ UNCHANGED <<stack, poisoned, faults>>
    BY <1>7, PoppingSteps DEF DropCwd
  <2>2. cwd' \in Path
    <3>1. stack # <<>> => Head(stack) \in Path
      BY <1>0
    <3>. QED  BY <1>0, <1>7, <3>1 DEF DropCwd
  <2>3. ~poisoned => CwdIsFound'
    <3>1. SUFFICES ASSUME ~poisoned, "back" \notin faults, Exists(found.cwd) PROVE cwd' = found.cwd
      BY <2>1 DEF CwdIsFound, Popping, Exists
    <3>2. stack # <<>> /\ Head(stack) = found.cwd
      BY <1>0, <2>1, <3>1 DEF CwdInv, Popping
    <3>. QED  BY <1>7, <3>1, <3>2 DEF DropCwd
  <2>4. poisoned => scope' = <<>> /\ skipped' = ToSet(scope) \ {"other"}
    BY <1>7 DEF DropCwd, ScopePanics
  <2>5. poisoned => "cwd" \in skipped'
    BY <2>1, <2>4 DEF Popping
  <2>6. Active' => Active
    BY <2>1 DEF Popping
  <2>. QED  BY <1>0, <2>1, <2>2, <2>3, <2>4, <2>5, <2>6 DEF CwdInv, Popping
<1>8. CASE EnterScopeDrop
  <2>1. /\ UNCHANGED <<cwd, stack, poisoned, gone, fs, found, faults, skipped, phase>>
        /\ phase # "idle" /\ "cwd" \in ToSet(scope')
    BY <1>8, GuardsAssumption DEF EnterScopeDrop, Leaving, cwdVars, tempVars, history
  <2>. QED  BY <1>0, <2>1 DEF CwdInv, Active
<1>9. CASE (DropEnv /\ Last(original)[1] \notin Refused) \/ SetUpFails \/ Finished
  <2>1. UNCHANGED <<cwd, stack, poisoned, gone, fs, found, faults, skipped, phase, scope>>
    BY <1>9 DEF DropEnv, SetUpFails, Finished, vars, cwdVars, tempVars, history
  <2>. QED  BY <1>0, <2>1 DEF CwdInv, CwdIsFound, Exists, Active
<1>10. CASE BodyEnds
  BY <1>0, <1>1, <1>10, LocalSteps DEF BodyEnds, cwdVars, history
<1>11. ASSUME NEW d, NewIn(d) PROVE Good'
  BY <1>0, <1>1, <1>11, LocalSteps DEF NewIn, cwdVars, history
<1>12. ASSUME NEW fails, CanonicalizeFails(fails) \/ Close(fails) \/ DropTemp(fails) PROVE Good'
  <2>1. Local
    BY <1>12, LocalSteps
  <2>. QED  BY <1>0, <1>1, <1>12, <2>1 DEF CanonicalizeFails, Close, DropTemp, cwdVars, history
<1>13. ASSUME NEW k, NEW v, EnvSet(k, v) PROVE Good'
  BY <1>0, <1>1, <1>13, LocalSteps DEF EnvSet, cwdVars
<1>14. ASSUME NEW panics, DropOther(panics) PROVE Good'
  BY <1>2, <1>14, PoppingSteps DEF DropOther, cwdVars
<1>15. CASE EnvDropped \/ (DropEnv /\ Last(original)[1] \in Refused)
  BY <1>2, <1>15, PoppingSteps DEF EnvDropped, DropEnv, cwdVars
<1>16. \A d \in Dir \union ToSet(temps) : d \in Path
  BY ToSetOfStack DEF IInv, Types, Path
<1> HIDE DEF Good
<1>17. ASSUME NEW d \in Dir \union ToSet(temps), CwdSet(d) PROVE Good'
  BY <1>4, <1>16, <1>17
<1>. QED
  <2>1. CASE SetUp \/ SetUpFails \/ CwdBack \/ BodyEnds \/ EnterScopeDrop \/ DropEnv \/ EnvDropped \/ DropCwd \/ Finished
    BY <1>3, <1>5, <1>7, <1>8, <1>9, <1>10, <1>15, <2>1
  <2>. QED  BY <1>6, <1>11, <1>12, <1>13, <1>14, <1>17, <2>1 DEF Next

\* The environment and the entries that will restore it.
LEMMA NextEnv ==
  ASSUME IInv, Next
  PROVE  EnvInv' /\ env' \in [Key -> Value \union {Unset}] /\ original' \in Seq(Entry)
<1> DEFINE Good == EnvInv /\ env \in [Key -> Value \union {Unset}] /\ original \in Seq(Entry)
<1> SUFFICES Good'
  OBVIOUS
<1>0. EnvInv /\ env \in [Key -> Value \union {Unset}] /\ found.env \in [Key -> Value \union {Unset}]
        /\ original \in Seq(Entry) /\ Len(original) \in Nat
  BY DEF IInv, Types
<1>1. ASSUME Local, UNCHANGED <<env, original>>, "key" \in faults => "key" \in faults'
      PROVE  Good'
  BY <1>0, <1>1 DEF EnvInv, Local, Active
<1>2. ASSUME NEW f, f # "env" \/ original = <<>> \/ (scope' = <<>> /\ "env" \in skipped'), Popping(f),
             UNCHANGED <<env, original>>, "key" \in faults => "key" \in faults'
      PROVE  Good'
  <2>1. scope' # <<>> /\ "env" \notin ToSet(scope') => original = <<>>
    BY <1>0, <1>2 DEF Popping, EnvInv
  <2>2. phase' = "idle" /\ "env" \notin skipped' => original = <<>>
    BY <1>0, <1>2 DEF Popping, EnvInv, Active
  <2>. QED  BY <1>0, <1>2, <2>1, <2>2 DEF EnvInv, Popping
<1>3. CASE SetUp
  <2>1. original' = <<>> /\ <<>> \in Seq(Entry) /\ env' = env /\ found'.env = env /\ Len(<<>>) = 0
    BY <1>3 DEF SetUp
  <2>. QED  BY <1>0, <2>1 DEF EnvInv
<1>4. ASSUME NEW k \in Key, NEW v \in Value \union {Unset, BadValue}, EnvSet(k, v) PROVE Good'
  <2>1. /\ original' = Append(original, <<k, env[k]>>)
        /\ UNCHANGED env \/ (v # BadValue /\ env' = [env EXCEPT ![k] = v])
        /\ Local /\ ("key" \in faults => "key" \in faults') /\ (k \in Refused => "key" \in faults')
    BY <1>4, LocalSteps DEF EnvSet
  <2>2. <<k, env[k]>> \in Entry
    BY <1>0 DEF Entry
  <2>3. PICK n \in Nat, e \in Entry : n = Len(original) /\ e = <<k, env[k]>> /\ e[1] = k /\ e[2] = env[k]
    BY <1>0, <2>2
  <2>4. /\ original' \in Seq(Entry) /\ Len(original') = n + 1 /\ original'[n + 1] = e
        /\ \A i \in 1 .. n : original'[i] = original[i]
    BY <1>0, <2>1, <2>3, AppendToSeq
  <2>5. UNCHANGED found /\ env' \in [Key -> Value \union {Unset}] /\ \A j \in Key \ {k} : env'[j] = env[j]
    BY <1>0, <2>1 DEF Local
  <2>6. ASSUME NEW j \in Key, \A i \in 1 .. n + 1 : original'[i][1] # j PROVE env'[j] = found'.env[j]
    <3>1. original'[n + 1][1] # j /\ \A i \in 1 .. n : original[i][1] # j
      BY <2>4, <2>6
    <3>. QED  BY <1>0, <2>3, <2>4, <2>5, <3>1 DEF EnvInv
  <2>7. ASSUME NEW i \in 1 .. n + 1, \A j \in 1 .. i - 1 : original'[j][1] # original'[i][1]
        PROVE  original'[i][2] = found'.env[original'[i][1]]
    <3>1. CASE i \in 1 .. n
      <4>1. \A j \in 1 .. i - 1 : original[j][1] # original[i][1]
        BY <2>3, <2>4, <2>7, <3>1
      <4>. QED  BY <1>0, <2>3, <2>4, <2>5, <3>1, <4>1 DEF EnvInv
    <3>2. CASE i = n + 1
      <4>1. \A j \in 1 .. n : original[j][1] # k
        BY <2>3, <2>4, <2>7, <3>2
      <4>. QED  BY <1>0, <2>3, <2>4, <2>5, <3>2, <4>1 DEF EnvInv
    <3>. QED  BY <2>3, <3>1, <3>2
  <2>8. ASSUME NEW i \in 1 .. n + 1, original'[i][1] \in Refused PROVE "key" \in faults'
    <3>1. CASE i \in 1 .. n
      BY <1>0, <2>1, <2>3, <2>4, <2>8, <3>1 DEF EnvInv
    <3>2. CASE i = n + 1
      BY <2>1, <2>3, <2>4, <2>8, <3>2
    <3>. QED  BY <2>3, <3>1, <3>2
  <2>. QED  BY <2>1, <2>4, <2>5, <2>6, <2>7, <2>8 DEF EnvInv, Local, Active
<1>5. CASE DropEnv /\ Last(original)[1] \notin Refused
  <2>1. /\ original # <<>> /\ env' = [env EXCEPT ![Last(original)[1]] = Last(original)[2]]
        /\ original' = Front(original) /\ UNCHANGED <<found, faults, skipped, scope, phase>>
        /\ scope # <<>> /\ Last(scope) = "env" /\ phase # "idle" /\ scope \in Seq(Fixture)
    BY <1>5 DEF DropEnv, Dropping, IInv, Types, ScopeInv, Leaving
  <2>2. "env" \in ToSet(scope)
    BY <2>1, ToSetOfStack
  <2>3. PICK n \in Nat, k \in Key, v \in Value \union {Unset} :
          /\ Len(original) = n + 1 /\ original[n + 1] = <<k, v>> /\ Last(original) = <<k, v>>
          /\ original' \in Seq(Entry) /\ Len(original') = n
          /\ \A i \in 1 .. n : original'[i] = original[i]
    <3>1. /\ Front(original) \in Seq(Entry) /\ Len(Front(original)) = Len(original) - 1 /\ Len(original) \in Nat \ {0}
          /\ \A i \in 1 .. Len(original) - 1 : Front(original)[i] = original[i]
          /\ Last(original) \in Entry /\ Last(original) = original[Len(original)]
      BY <1>0, <2>1, FrontOfSeq
    <3>2. PICK n \in Nat : Len(original) = n + 1 /\ Len(original) - 1 = n
      BY <3>1
    <3>3. PICK k \in Key, v \in Value \union {Unset} : Last(original) = <<k, v>>
      BY <3>1 DEF Entry
    <3>. QED  BY <2>1, <3>1, <3>2, <3>3
  <2>4. original[n + 1][1] = k /\ original[n + 1][2] = v /\ Last(original)[1] = k /\ Last(original)[2] = v
    BY <2>3
  <2>5. env' = [env EXCEPT ![k] = v]
    BY <2>1, <2>4
  <2>6. ASSUME NEW j \in Key, \A i \in 1 .. n : original'[i][1] # j PROVE env'[j] = found.env[j]
    <3>1. \A i \in 1 .. n : original[i][1] # j
      BY <2>3, <2>6
    <3>2. CASE j = k
      <4>1. \A i \in 1 .. (n + 1) - 1 : original[i][1] # original[n + 1][1]
        BY <2>4, <3>1, <3>2
      <4>2. v = found.env[k]
        BY <1>0, <2>3, <2>4, <4>1 DEF EnvInv
      <4>. QED  BY <1>0, <2>5, <3>2, <4>2
    <3>3. CASE j # k
      <4>1. \A i \in 1 .. n + 1 : original[i][1] # j
        BY <2>4, <3>1, <3>3
      <4>. QED  BY <1>0, <2>3, <2>5, <3>3, <4>1 DEF EnvInv
    <3>. QED  BY <3>2, <3>3
  <2>7. ASSUME NEW i \in 1 .. n, \A j \in 1 .. i - 1 : original'[j][1] # original'[i][1]
        PROVE  original'[i][2] = found.env[original'[i][1]]
    <3>1. \A j \in 1 .. i - 1 : original[j][1] # original[i][1]
      BY <2>3, <2>7
    <3>2. i \in 1 .. Len(original) /\ original'[i] = original[i]
      BY <2>3
    <3>3. original[i][2] = found.env[original[i][1]]
      BY <1>0, <3>1, <3>2 DEF EnvInv
    <3>. QED  BY <3>2, <3>3
  <2>8. \A i \in 1 .. n : original'[i][1] \in Refused => "key" \in faults
    BY <1>0, <2>3 DEF EnvInv
  <2>. QED  BY <1>0, <2>1, <2>2, <2>3, <2>5, <2>6, <2>7, <2>8 DEF EnvInv
<1>6. CASE DropEnv /\ Last(original)[1] \in Refused
  <2>1. Popping("env") /\ scope' = <<>> /\ skipped' = ToSet(scope) \ {"other"} /\ UNCHANGED <<env, original, faults>>
    BY <1>6, PoppingSteps DEF DropEnv, ScopePanics, envVars
  <2>2. "env" \in skipped'
    BY <2>1 DEF Popping
  <2>. QED  BY <1>2, <2>1, <2>2
<1>7. CASE EnvDropped
  BY <1>2, <1>7, PoppingSteps DEF EnvDropped, envVars
<1>8. CASE EnterScopeDrop
  <2>1. UNCHANGED <<env, original, found, faults, skipped, phase>> /\ phase # "idle" /\ "env" \in ToSet(scope')
    BY <1>8, GuardsAssumption DEF EnterScopeDrop, Leaving, envVars, history
  <2>. QED  BY <1>0, <2>1 DEF EnvInv
<1>9. CASE SetUpFails \/ Finished
  <2>1. UNCHANGED <<env, original, found, faults, skipped, phase, scope>>
    BY <1>9 DEF SetUpFails, Finished, vars, envVars, history
  <2>. QED  BY <1>0, <2>1 DEF EnvInv
<1>10. CASE BodyEnds \/ CwdBack
  BY <1>1, <1>10, LocalSteps DEF BodyEnds, CwdBack, envVars, history
<1>11. ASSUME NEW d, CwdSet(d) \/ RawChdir(d) \/ RemoveDir(d) \/ NewIn(d) PROVE Good'
  <2>1. Local
    BY <1>11, LocalSteps
  <2>. QED  BY <1>1, <1>11, <2>1 DEF CwdSet, RawChdir, RemoveDir, NewIn, envVars, history
<1>12. ASSUME NEW fails, CanonicalizeFails(fails) \/ Close(fails) \/ DropTemp(fails) PROVE Good'
  <2>1. Local
    BY <1>12, LocalSteps
  <2>. QED  BY <1>1, <1>12, <2>1 DEF CanonicalizeFails, Close, DropTemp, envVars, history
<1>13. ASSUME NEW panics, DropOther(panics) PROVE Good'
  BY <1>2, <1>13, PoppingSteps DEF DropOther, envVars
<1>14. CASE DropCwd
  BY <1>2, <1>14, PoppingSteps DEF DropCwd, envVars
<1> HIDE DEF Good
<1>. QED
  <2>1. CASE SetUp \/ SetUpFails \/ CwdBack \/ BodyEnds \/ EnterScopeDrop \/ DropEnv \/ EnvDropped \/ DropCwd \/ Finished
    BY <1>3, <1>5, <1>6, <1>7, <1>8, <1>9, <1>10, <1>14, <2>1
  <2>. QED  BY <1>4, <1>11, <1>12, <1>13, <2>1 DEF Next

\* The temporary directories.
LEMMA NextTemp ==
  ASSUME IInv, Next
  PROVE  TempInv' /\ others' \subseteq Dir \X Name /\ fs' \subseteq Dir \X Name /\ stray' \subseteq Dir \X Name
           /\ temps' \in Seq(Dir \X Name)
<1> DEFINE Good == TempInv /\ others \subseteq Dir \X Name /\ fs \subseteq Dir \X Name /\ stray \subseteq Dir \X Name
                     /\ temps \in Seq(Dir \X Name)
<1> SUFFICES Good'
  OBVIOUS
<1>0. /\ TempInv /\ others \subseteq Dir \X Name /\ fs \subseteq Dir \X Name /\ stray \subseteq Dir \X Name
      /\ temps \in Seq(Dir \X Name)
  BY DEF IInv, Types
<1>1. \A p \in Dir \X Name : At(p) = p
  BY GuardsAssumption DEF At
<1>2. ASSUME UNCHANGED <<fs, others, temps, stray, gone>>, phase' = "idle" => phase = "idle" \/ temps = <<>>
      PROVE  Good'
  BY <1>0, <1>2 DEF TempInv
<1>3. ASSUME NEW d \in Dir, RemoveDir(d) PROVE Good'
  <2>1. fs' = {p \in fs : p[1] # d} /\ gone' = gone \union {d} /\ UNCHANGED <<others, temps, stray>> /\ phase' = "body"
    BY <1>3 DEF RemoveDir, InBody, Returns
  <2>. QED  BY <1>0, <2>1 DEF TempInv
<1>4. ASSUME NEW parent \in {Here, Tmp}, NewIn(parent) PROVE Good'
  <2>1. PICK d \in Dir : d = Absolute(parent) /\ d # Here
    BY <1>4, GuardsAssumption DEF NewIn, Absolute
  <2>2. UNCHANGED <<others, stray, gone>> /\ phase' # "idle"
    BY <1>4 DEF NewIn, InBody, Panics, Returns
  <2>3. CASE UNCHANGED <<fs, temps>>
    BY <1>0, <2>2, <2>3 DEF TempInv
  <2>4. CASE ~(UNCHANGED <<fs, temps>>)
    <3>1. PICK n \in Free(d) : Exists(d) /\ fs' = fs \union {At(<<d, n>>)} /\ temps' = Append(temps, <<d, n>>)
      BY <1>4, <2>1, <2>4 DEF NewIn
    <3>2. PICK p \in Dir \X Name : p = <<d, n>> /\ p[1] = d /\ At(p) = p
      BY <1>1, <3>1 DEF Free
    <3>3. p \notin fs /\ d \notin gone
      BY <3>1, <3>2 DEF Free, Exists
    <3>4. p \notin others
      BY <1>0, <3>2, <3>3 DEF TempInv
    <3>5. temps' \in Seq(Dir \X Name) /\ ToSet(temps') = ToSet(temps) \union {p} /\ fs' = fs \union {p}
      <4>1. temps' = Append(temps, p) /\ fs' = fs \union {p}
        BY <3>1, <3>2
      <4>2. Append(temps, p) \in Seq(Dir \X Name)
        BY <1>0, AppendToSeq
      <4>3. ToSet(Append(temps, p)) = ToSet(temps) \union {p}
        BY <1>0, ToSetOfStack
      <4>. QED  BY <4>1, <4>2, <4>3
    <3>. QED  BY <1>0, <2>2, <3>4, <3>5 DEF TempInv
  <2>. QED  BY <2>3, <2>4
<1>5. ASSUME NEW fails \in BOOLEAN, CanonicalizeFails(fails) PROVE Good'
  <2>1. UNCHANGED <<others, temps, gone>> /\ phase' # "idle"
    BY <1>5 DEF CanonicalizeFails, InBody, Panics
  <2>2. PICK n \in Name : \/ UNCHANGED <<fs, stray>>
                          \/ fs' = fs \union {<<Tmp, n>>} /\ stray' = stray \union {<<Tmp, n>>}
    <3>1. PICK n \in Name : /\ fs' = IF fails THEN fs \union {<<Tmp, n>>} ELSE fs
                            /\ stray' = IF fails THEN stray \union {<<Tmp, n>>} ELSE stray
      BY <1>5 DEF CanonicalizeFails, Free
    <3>. QED  BY <3>1
  <2>3. <<Tmp, n>> \in Dir \X Name
    BY GuardsAssumption
  <2>. QED  BY <1>0, <2>1, <2>2, <2>3 DEF TempInv
<1>6. ASSUME NEW fails \in BOOLEAN, Close(fails) \/ DropTemp(fails) PROVE Good'
  <2>1. UNCHANGED <<others, gone>> /\ phase' # "idle" /\ temps # <<>> /\ temps' = Front(temps) /\ RemoveDirAll(Last(temps), fails)
    BY <1>6 DEF Close, DropTemp, InBody, Panics, Returns, Leaving
  <2>2. PICK p \in Dir \X Name : p = Last(temps) /\ At(p) = p
    BY <1>0, <1>1, <2>1, FrontOfSeq, ZenonT(40)
  <2>3. temps' \in Seq(Dir \X Name) /\ ToSet(temps) = ToSet(temps') \union {p}
    BY <1>0, <2>1, <2>2, FrontOfSeq, ToSetOfStack
  <2>4. \/ fs' = fs \ {p} /\ UNCHANGED stray
        \/ UNCHANGED fs /\ stray' = stray \union {p}
        \/ UNCHANGED <<fs, stray>> /\ p \notin fs
    BY <2>1, <2>2 DEF RemoveDirAll
  <2>. QED  BY <1>0, <2>1, <2>3, <2>4 DEF TempInv
<1>7. ASSUME NEW f, Popping(f) PROVE Good'
  <2>1. temps = <<>>
    BY <1>7 DEF Popping, IInv, ScopeInv
  <2>. QED  BY <1>2, <1>7, <2>1 DEF Popping
<1>8. CASE SetUp \/ SetUpFails \/ BodyEnds \/ EnterScopeDrop \/ Finished \/ CwdBack
  BY <1>2, <1>8 DEF SetUp, SetUpFails, BodyEnds, EnterScopeDrop, Finished, CwdBack, InBody, Panics, Returns, vars, tempVars
<1>9. CASE DropEnv /\ Last(original)[1] \notin Refused
  BY <1>2, <1>9 DEF DropEnv, tempVars
<1>10. ASSUME NEW d, CwdSet(d) \/ RawChdir(d) PROVE Good'
  BY <1>2, <1>10 DEF CwdSet, RawChdir, InBody, Panics, Returns, tempVars
<1>11. ASSUME NEW k, NEW v, EnvSet(k, v) PROVE Good'
  BY <1>2, <1>11 DEF EnvSet, InBody, Panics, Returns, tempVars
<1>12. CASE EnvDropped \/ DropCwd \/ \E panics : DropOther(panics)
  BY <1>7, <1>12, PoppingSteps
<1>13. CASE DropEnv /\ Last(original)[1] \in Refused
  BY <1>7, <1>13, PoppingSteps
<1> HIDE DEF Good
<1>. QED
  <2>1. CASE SetUp \/ SetUpFails \/ CwdBack \/ BodyEnds \/ EnterScopeDrop \/ DropEnv \/ EnvDropped \/ DropCwd \/ Finished
    BY <1>8, <1>9, <1>12, <1>13, <2>1
  <2>. QED  BY <1>3, <1>4, <1>5, <1>6, <1>10, <1>11, <1>12, <2>1 DEF Next

\* TestScope's loop, and what makes it end early.
LEMMA NextScope ==
  ASSUME IInv, Next
  PROVE  /\ ScopeInv' /\ scope' \in Seq(Fixture)
         /\ found' \in [cwd : Path, env : [Key -> Value \union {Unset}]]
         /\ faults' \subseteq {"back", "key", "drop"} /\ skipped' \subseteq {"cwd", "env"}
         /\ phase' \in {"idle", "body", "returned", "unwinding", "aborted"}
<1> DEFINE Good == /\ ScopeInv /\ scope \in Seq(Fixture)
                   /\ found \in [cwd : Path, env : [Key -> Value \union {Unset}]]
                   /\ faults \subseteq {"back", "key", "drop"} /\ skipped \subseteq {"cwd", "env"}
                   /\ phase \in {"idle", "body", "returned", "unwinding", "aborted"}
<1> SUFFICES Good'
  OBVIOUS
<1>0. /\ ScopeInv /\ scope \in Seq(Fixture) /\ ToSet(scope) \subseteq Fixture
      /\ found \in [cwd : Path, env : [Key -> Value \union {Unset}]]
      /\ faults \subseteq {"back", "key", "drop"} /\ skipped \subseteq {"cwd", "env"}
      /\ phase \in {"idle", "body", "returned", "unwinding", "aborted"}
  BY ToSetOfStack DEF IInv, Types
<1>1. ASSUME Local, faults' = faults \/ faults' = faults \union {"back"} \/ faults' = faults \union {"key"}
      PROVE  Good'
  <2>1. phase' \in {"idle", "body", "returned", "unwinding", "aborted"} /\ phase' # "aborted"
    BY <1>1 DEF Local, Active
  <2>. QED  BY <1>0, <1>1, <2>1 DEF Local, ScopeInv, TeardownNeedsFault
\* The cause of an early end, when it comes.
<1>2. ASSUME NEW f \in Fixture, Popping(f), f = "other" \/ UNCHANGED faults,
             f = "other" => faults' = faults \/ faults' = faults \union {"drop"},
             \/ Dropped
             \/ f = "other" /\ "drop" \in faults'
             \/ f = "env" /\ "key" \in faults /\ ScopePanics
             \/ f = "cwd" /\ "back" \in faults /\ ScopePanics
      PROVE  Good'
  <2>1. temps' = temps /\ (scope' # <<>> => phase' = phase /\ scope # <<>>)
    BY <1>2 DEF Popping
  <2>2. scope' # <<>> => Leaving' /\ temps' = <<>>
    BY <1>0, <2>1 DEF ScopeInv, Leaving
  <2>3. faults \subseteq faults' /\ faults' \subseteq {"back", "key", "drop"}
    BY <1>0, <1>2
  <2>4. /\ skipped' \subseteq {"cwd", "env"} /\ scope' \in Seq(Fixture)
        /\ phase' \in {"idle", "body", "returned", "unwinding", "aborted"}
    <3>1. <<>> \in Seq(Fixture) /\ ToSet(scope) \ {"other"} \subseteq {"cwd", "env"}
      BY <1>0 DEF Fixture
    <3>. QED  BY <1>0, <1>2, <3>1 DEF Popping
  <2>5. TeardownNeedsFault'
    <3>1. CASE Dropped
      <4>1. phase' # "aborted" /\ UNCHANGED skipped
        BY <1>2, <3>1 DEF Dropped, Popping, Active
      <4>. QED  BY <1>0, <2>3, <4>1 DEF ScopeInv, TeardownNeedsFault
    <3>2. CASE ScopePanics
      <4>1. f \in ToSet(scope) /\ skipped' = ToSet(scope) \ {"other"}
        BY <1>2, <3>2 DEF ScopePanics, Popping
      <4>. QED  BY <1>2, <2>3, <3>1, <4>1 DEF TeardownNeedsFault
    <3>. QED  BY <1>2, <3>1, <3>2 DEF TeardownNeedsFault
  <2>. QED  BY <1>0, <1>2, <2>2, <2>3, <2>4, <2>5 DEF ScopeInv, Popping
<1>3. CASE SetUp
  <2>1. scope' = <<>> /\ phase' = "body" /\ skipped' = {} /\ faults' = {} /\ found' = [cwd |-> cwd, env |-> env]
    BY <1>3 DEF SetUp, IInv, ScopeInv, Leaving
  <2>2. found' \in [cwd : Path, env : [Key -> Value \union {Unset}]]
    BY <2>1 DEF IInv, Types
  <2>. QED  BY <2>1, <2>2 DEF ScopeInv, TeardownNeedsFault
<1>4. CASE SetUpFails \/ Finished
  <2>1. UNCHANGED <<scope, temps, found, faults, skipped, phase>>
    BY <1>4 DEF SetUpFails, Finished, vars, tempVars, history
  <2>. QED  BY <1>0, <2>1 DEF ScopeInv, Leaving, TeardownNeedsFault
<1>5. CASE EnterScopeDrop
  <2>1. /\ UNCHANGED <<temps, found, faults, skipped, phase>> /\ Leaving /\ temps = <<>> /\ scope' \in Seq(Fixture)
    BY <1>5, GuardsAssumption DEF EnterScopeDrop, tempVars, history, Fixture
  <2>. QED  BY <1>0, <2>1 DEF ScopeInv, Leaving, TeardownNeedsFault
<1>6. CASE DropEnv /\ Last(original)[1] \notin Refused
  <2>1. UNCHANGED <<scope, temps, found, faults, skipped, phase>>
    BY <1>6 DEF DropEnv, tempVars
  <2>. QED  BY <1>0, <2>1 DEF ScopeInv, Leaving, TeardownNeedsFault
<1>7. CASE DropEnv /\ Last(original)[1] \in Refused
  <2>1. "key" \in faults
    <3>1. original # <<>> /\ original \in Seq(Entry)
      BY <1>7 DEF DropEnv, IInv, Types
    <3>2. Last(original) = original[Len(original)] /\ Len(original) \in Nat \ {0}
      BY <3>1, FrontOfSeq
    <3>. QED  BY <1>7, <3>2 DEF IInv, EnvInv
  <2>2. Popping("env") /\ UNCHANGED faults /\ ScopePanics
    BY <1>7, PoppingSteps DEF DropEnv
  <2>. QED  BY <1>2, <2>1, <2>2 DEF Fixture
<1>8. CASE EnvDropped
  BY <1>2, <1>8, PoppingSteps DEF EnvDropped, Fixture
<1>9. CASE DropCwd
  <2>1. Popping("cwd") /\ UNCHANGED faults /\ (Dropped \/ (poisoned /\ ScopePanics))
    BY <1>9, PoppingSteps DEF DropCwd
  <2>2. poisoned => "back" \in faults
    BY <2>1 DEF Popping, IInv, CwdInv
  <2>. QED  BY <1>2, <2>1, <2>2 DEF Fixture
<1>10. ASSUME NEW panics, DropOther(panics) PROVE Good'
  BY <1>2, <1>10, PoppingSteps DEF DropOther, Fixture
<1>11. CASE BodyEnds \/ CwdBack
  BY <1>1, <1>11, LocalSteps DEF BodyEnds, CwdBack, history
<1>12. ASSUME NEW d, CwdSet(d) \/ RawChdir(d) \/ RemoveDir(d) \/ NewIn(d) PROVE Good'
  <2>1. Local
    BY <1>12, LocalSteps
  <2>. QED  BY <1>1, <1>12, <2>1 DEF CwdSet, RawChdir, RemoveDir, NewIn, history
<1>13. ASSUME NEW fails, CanonicalizeFails(fails) \/ Close(fails) \/ DropTemp(fails) PROVE Good'
  <2>1. Local
    BY <1>13, LocalSteps
  <2>. QED  BY <1>1, <1>13, <2>1 DEF CanonicalizeFails, Close, DropTemp, history
<1>14. ASSUME NEW k, NEW v, EnvSet(k, v) PROVE Good'
  BY <1>1, <1>14, LocalSteps DEF EnvSet
<1> HIDE DEF Good
<1>. QED
  <2>1. CASE SetUp \/ SetUpFails \/ CwdBack \/ BodyEnds \/ EnterScopeDrop \/ DropEnv \/ EnvDropped \/ DropCwd \/ Finished
    BY <1>3, <1>4, <1>5, <1>6, <1>7, <1>8, <1>9, <1>11, <2>1
  <2>. QED  BY <1>10, <1>12, <1>13, <1>14, <2>1 DEF Next

-----------------------------------------------------------------------------
(* The theorems.                                                           *)

\* The parts together.
LEMMA NextIInv == IInv /\ [Next]_vars => IInv'
<1> SUFFICES ASSUME IInv, [Next]_vars PROVE IInv'
  OBVIOUS
<1>1. CASE Next
  BY <1>1, NextCwd, NextEnv, NextTemp, NextScope DEF IInv, Types
<1>2. CASE UNCHANGED vars
  BY <1>2 DEF vars, cwdVars, envVars, tempVars, history, IInv, Types, CwdInv, CwdIsFound, EnvInv, TempInv, ScopeInv,
              TeardownNeedsFault, Exists, Leaving, Active
<1>. QED  BY <1>1, <1>2

\* Stacks, environment and temporary directories stay as IInv says, whatever
\* the bodies call, wherever they panic, and wherever TestScope's loop ends.
THEOREM GuardsKeepTheOriginals == Spec => []IInv
<1>1. Init => IInv
  BY InitIInv
<1>2. IInv /\ [Next]_vars => IInv'
  BY NextIInv
<1>. QED  BY <1>1, <1>2, PTL DEF Spec

\* A guard that TestScope has dropped to its end has given the process back
\* what the test found.
THEOREM ProcessIsRestored == Spec => []ProcessRestored
<1>1. IInv => ProcessRestored
  <2> SUFFICES ASSUME IInv PROVE ProcessRestored
    OBVIOUS
  <2>1. ToSet(temps) \subseteq Dir \X Name
    BY ToSetOfStack DEF IInv, Types
  <2>2. phase = "body" /\ "back" \notin faults => stack # <<>> /\ Head(stack) = found.cwd
    <3>1. phase = "body" /\ "back" \notin faults => stack \in Seq(Path) /\ Len(stack) >= 1 /\ stack[1] = found.cwd
      BY DEF IInv, Types, CwdInv, Active
    <3>. QED  BY <3>1
  <2>3. TypeOK
    BY <2>1, <2>2 DEF IInv, Types, TypeOK, Path
  <2>4. phase = "idle" /\ "env" \notin skipped => env = found.env
    <3>1. phase = "idle" /\ "env" \notin skipped => original = <<>> /\ \A k \in Key : env[k] = found.env[k]
      BY DEF IInv, EnvInv
    <3>. QED  BY <3>1 DEF IInv, Types
  <2>. QED  BY <2>3, <2>4 DEF ProcessRestored, IInv, CwdInv, CwdIsFound
<1>. QED  BY <1>1, GuardsKeepTheOriginals, PTL

\* The guards' Drop fails, and the process aborts in it, for the causes that
\* TeardownNeedsFault names.
THEOREM TeardownFailsForCause == Spec => []TeardownNeedsFault
<1>1. IInv => TeardownNeedsFault
  BY DEF IInv, ScopeInv
<1>. QED  BY <1>1, GuardsKeepTheOriginals, PTL

\* TempDir's Drop and close leave nothing they have not reported.
THEOREM NoTempDirStays == Spec => []TempDirsRemoved
<1>1. IInv => TempDirsRemoved
  BY DEF IInv, TempInv, TempDirsRemoved, ToSet
<1>. QED  BY <1>1, GuardsKeepTheOriginals, PTL

\* A TempDir removes what it has made and nothing else.
THEOREM OthersAreSafe == Spec => OthersStay
<1> DEFINE A == (others \intersect fs) \ fs' # {} => gone' # gone
<1>1. IInv /\ [Next]_vars => [A]_vars
  <2> SUFFICES ASSUME IInv, Next PROVE A
    OBVIOUS
  <2>1. ASSUME fs \subseteq fs' PROVE A
    BY <2>1
  <2>2. ASSUME NEW d \in Dir, RemoveDir(d) PROVE A
    BY <2>2 DEF RemoveDir
  <2>3. ASSUME NEW fails \in BOOLEAN, Close(fails) \/ DropTemp(fails) PROVE A
    <3>1. temps # <<>> /\ RemoveDirAll(Last(temps), fails) /\ temps \in Seq(Dir \X Name)
      BY <2>3 DEF Close, DropTemp, IInv, Types
    <3>2. PICK p \in Dir \X Name : p = Last(temps) /\ At(p) = p /\ p \in ToSet(temps)
      BY <3>1, FrontOfSeq, ToSetOfStack, GuardsAssumption DEF At
    <3>3. p \notin others
      BY <3>2 DEF IInv, TempInv
    <3>. QED  BY <3>1, <3>2, <3>3 DEF RemoveDirAll
  <2>4. ASSUME NEW fails, CanonicalizeFails(fails) PROVE A
    BY <2>1, <2>4 DEF CanonicalizeFails
  <2>5. ASSUME NEW parent, NewIn(parent) PROVE A
    BY <2>1, <2>5 DEF NewIn
  <2>6. CASE SetUp \/ SetUpFails \/ BodyEnds \/ EnterScopeDrop \/ DropCwd \/ DropEnv \/ EnvDropped \/ Finished \/ CwdBack
    BY <2>1, <2>6 DEF SetUp, SetUpFails, BodyEnds, EnterScopeDrop, DropCwd, DropEnv, EnvDropped, Finished, CwdBack,
                      vars, tempVars
  <2>7. ASSUME NEW d, CwdSet(d) \/ RawChdir(d) PROVE A
    BY <2>1, <2>7 DEF CwdSet, RawChdir, tempVars
  <2>8. ASSUME NEW k, NEW v, EnvSet(k, v) PROVE A
    BY <2>1, <2>8 DEF EnvSet, tempVars
  <2>9. ASSUME NEW panics, DropOther(panics) PROVE A
    BY <2>1, <2>9 DEF DropOther, tempVars
  <2> HIDE DEF A
  <2>. QED  BY <2>2, <2>3, <2>4, <2>5, <2>6, <2>7, <2>8, <2>9 DEF Next
<1>. QED  BY <1>1, GuardsKeepTheOriginals, PTL DEF Spec, OthersStay
=============================================================================
