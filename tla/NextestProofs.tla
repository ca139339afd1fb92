---------------------------- MODULE NextestProofs ----------------------------
(***************************************************************************)
(* Proofs along the way of a test into a nextest group.  First Collect,    *)
(* the test binary: what it makes trials of, and what its --list dump says *)
(* of them, for every program and every fixture graph, accepted by         *)
(* validate_fixture_graph or not.  Then Nextest, cargo-skuld and nextest:  *)
(* the groups made of the dumps, for every finite set of tests, every      *)
(* labelling and every order of the metadata, whatever requirements do     *)
(* meanwhile.                                                              *)
(***************************************************************************)
EXTENDS Collect, Nextest, SequenceTheorems, WellFoundedInduction, FiniteSetTheorems, TLAPS

-----------------------------------------------------------------------------
(* Induction.  The library's least-number principle takes the property as  *)
(* an operator, which the provers cannot instantiate; over sets it follows *)
(* from the well-foundedness of <.                                         *)

\* A set of numbers that is not empty has a least one.
LEMMA LeastNatural ==
  ASSUME NEW T, T \subseteq Nat, T # {}
  PROVE  \E x \in T : \A y \in T : x <= y
<1>1. PICK R : R = OpToRel(<, Nat)
  OBVIOUS
<1>2. IsWellFoundedOn(R, Nat)
  BY <1>1, NatLessThanWellFounded
<1>3. PICK x \in T : \A y \in T : ~(<<y, x>> \in R)
  BY <1>2, WFMin
<1>4. ASSUME NEW y \in T, y < x PROVE FALSE
  <2>1. <<y, x>> \in R
    BY <1>1, <1>4 DEF OpToRel
  <2>. QED  BY <1>3, <2>1
<1>5. \A y \in T : ~(y < x)
  BY <1>4
<1>. QED  BY <1>5

\* A set that has 0 and the successor of each of its numbers has them all.
LEMMA SetInduction ==
  ASSUME NEW T, 0 \in T, \A n \in Nat : n \in T => n + 1 \in T
  PROVE  Nat \subseteq T
<1>1. SUFFICES ASSUME Nat \ T # {} PROVE FALSE
  OBVIOUS
<1>2. PICK x \in Nat \ T : \A y \in Nat \ T : x <= y
  BY <1>1, LeastNatural
<1>. QED  BY <1>2

-----------------------------------------------------------------------------
(* push_unique                                                             *)

\* One iteration, and a function that is what n of them compute.
Push(dst, label) == IF label \in Range(dst) THEN dst ELSE Append(dst, label)
IsLoop(g, n, dst, src) == g = [i \in 0 .. n |-> IF i = 0 THEN dst ELSE Push(g[i - 1], src[i])]

\* There is such a function for every number of iterations.
LEMMA LoopExists ==
  ASSUME NEW dst, NEW src
  PROVE  \A n \in Nat : \E g : IsLoop(g, n, dst, src)
<1> DEFINE T == {n \in Nat : \E g : IsLoop(g, n, dst, src)}
<1>1. 0 \in T
  <2>1. IsLoop([i \in 0 .. 0 |-> dst], 0, dst, src)
    BY DEF IsLoop
  <2>. QED  BY <2>1
<1>2. ASSUME NEW n \in Nat, n \in T PROVE n + 1 \in T
  <2>1. PICK g : IsLoop(g, n, dst, src)
    BY <1>2
  <2>2. PICK h : h = [i \in 0 .. n + 1 |-> IF i <= n THEN g[i] ELSE Push(g[n], src[n + 1])]
    OBVIOUS
  <2>3. \A i \in 0 .. n : h[i] = g[i] /\ g[i] = IF i = 0 THEN dst ELSE Push(g[i - 1], src[i])
    BY <2>1, <2>2 DEF IsLoop
  <2>4. h[n + 1] = Push(h[n], src[n + 1])
    BY <2>2, <2>3
  <2>5. ASSUME NEW i \in 0 .. n + 1
        PROVE  h[i] = IF i = 0 THEN dst ELSE Push(h[i - 1], src[i])
    <3>1. CASE i = n + 1
      BY <2>4, <3>1
    <3>2. CASE i = 0
      BY <2>3, <3>2
    <3>3. CASE i # n + 1 /\ i # 0
      <4>1. i \in 0 .. n /\ i - 1 \in 0 .. n
        BY <3>3
      <4>. QED  BY <2>3, <3>3, <4>1, Zenon
    <3>. QED  BY <3>1, <3>2, <3>3
  <2>6. DOMAIN h = 0 .. n + 1 /\ h = [i \in 0 .. n + 1 |-> h[i]]
    BY <2>2
  <2>7. h = [i \in 0 .. n + 1 |-> IF i = 0 THEN dst ELSE Push(h[i - 1], src[i])]
    BY <2>5, <2>6
  <2>. QED  BY <2>7 DEF IsLoop
<1>. QED
  <2>1. Nat \subseteq T
    <3> HIDE DEF T
    <3>. QED  BY <1>1, <1>2, SetInduction
  <2>. QED  BY <2>1

\* push_unique computes what its loop does.
LEMMA PushUniqueIsLoop ==
  ASSUME NEW dst, NEW src, Len(src) \in Nat
  PROVE  \E g : IsLoop(g, Len(src), dst, src) /\ PushUnique(dst, src) = g[Len(src)]
<1>1. PICK g : g = CHOOSE h : IsLoop(h, Len(src), dst, src)
  OBVIOUS
<1>2. IsLoop(g, Len(src), dst, src)
  BY <1>1, LoopExists
<1>3. PushUnique(dst, src) = g[Len(src)]
  BY <1>1 DEF PushUnique, IsLoop, Push
<1>. QED  BY <1>2, <1>3

\* What Append does to the elements of a sequence.
LEMMA AppendElements ==
  ASSUME NEW S, NEW s \in Seq(S), NEW e \in S
  PROVE  /\ Append(s, e) \in Seq(S) /\ DOMAIN Append(s, e) = DOMAIN s \union {Len(s) + 1}
         /\ Len(Append(s, e)) = Len(s) + 1 /\ Len(s) + 1 \notin DOMAIN s
         /\ (\A i \in DOMAIN s : Append(s, e)[i] = s[i]) /\ Append(s, e)[Len(s) + 1] = e
         /\ Range(Append(s, e)) = Range(s) \union {e}
<1>1. /\ Append(s, e) \in Seq(S) /\ DOMAIN Append(s, e) = DOMAIN s \union {Len(s) + 1}
      /\ Len(Append(s, e)) = Len(s) + 1 /\ Len(s) + 1 \notin DOMAIN s
      /\ (\A i \in DOMAIN s : Append(s, e)[i] = s[i]) /\ Append(s, e)[Len(s) + 1] = e
  OBVIOUS
<1>2. Range(Append(s, e)) = Range(s) \union {e}
  BY <1>1 DEF Range
<1>. QED  BY <1>1, <1>2, Zenon

\* One iteration adds one label, unless it is there.
LEMMA PushOne ==
  ASSUME NEW S, NEW dst \in Seq(S), NEW e \in S
  PROVE  /\ Push(dst, e) \in Seq(S) /\ Range(Push(dst, e)) = Range(dst) \union {e}
         /\ IsInjective(dst) => IsInjective(Push(dst, e))
<1>1. CASE e \in Range(dst)
  BY <1>1 DEF Push
<1>2. CASE e \notin Range(dst)
  <2>1. Push(dst, e) = Append(dst, e)
    BY <1>2 DEF Push
  <2>2. ASSUME IsInjective(dst) PROVE IsInjective(Append(dst, e))
    <3>1. \A i \in DOMAIN dst : dst[i] # e
      BY <1>2 DEF Range
    <3>. QED  BY <2>2, <3>1, AppendElements DEF IsInjective
  <2>. QED  BY <2>1, <2>2, AppendElements
<1>. QED  BY <1>1, <1>2

\* push_unique adds the labels of src to those of dst, and makes no duplicates.
LEMMA PushUniqueElements ==
  ASSUME NEW S, NEW dst \in Seq(S), NEW src \in Seq(S)
  PROVE  /\ PushUnique(dst, src) \in Seq(S)
         /\ Range(PushUnique(dst, src)) = Range(dst) \union Range(src)
         /\ IsInjective(dst) => IsInjective(PushUnique(dst, src))
<1>1. Len(src) \in Nat /\ DOMAIN src = 1 .. Len(src) /\ \A i \in 1 .. Len(src) : src[i] \in S
  BY LenProperties
<1>2. PICK g : IsLoop(g, Len(src), dst, src) /\ PushUnique(dst, src) = g[Len(src)]
  BY <1>1, PushUniqueIsLoop
<1> DEFINE Good(n) == /\ g[n] \in Seq(S)
                      /\ Range(g[n]) = Range(dst) \union {src[i] : i \in 1 .. n}
                      /\ IsInjective(dst) => IsInjective(g[n])
           T == {n \in Nat : n <= Len(src) => Good(n)}
<1>3. 0 \in T
  <2>1. g[0] = dst
    BY <1>1, <1>2 DEF IsLoop
  <2>2. {src[i] : i \in 1 .. 0} = {}
    OBVIOUS
  <2>. QED  BY <2>1, <2>2
<1>4. ASSUME NEW n \in Nat, n \in T PROVE n + 1 \in T
  <2>1. SUFFICES ASSUME n + 1 <= Len(src) PROVE Good(n + 1)
    BY DEF Good
  <2>2. Good(n)
    BY <1>1, <1>4, <2>1
  <2>3. g[n + 1] = Push(g[n], src[n + 1]) /\ src[n + 1] \in S
    <3>1. n + 1 \in 0 .. Len(src) /\ n + 1 \in 1 .. Len(src) /\ n + 1 # 0 /\ n + 1 - 1 = n
      BY <1>1, <2>1
    <3>. QED  BY <1>1, <1>2, <3>1 DEF IsLoop
  <2>4. {src[i] : i \in 1 .. n + 1} = {src[i] : i \in 1 .. n} \union {src[n + 1]}
    <3>1. 1 .. n + 1 = (1 .. n) \union {n + 1}
      OBVIOUS
    <3>. QED  BY <3>1
  <2>5. PICK q \in Seq(S) : q = g[n]
    BY <2>2
  <2>6. PICK e \in S : e = src[n + 1]
    BY <2>3
  <2>7. Push(q, e) \in Seq(S) /\ Range(Push(q, e)) = Range(q) \union {e}
    BY PushOne
  <2>8. IsInjective(q) => IsInjective(Push(q, e))
    BY PushOne
  <2>. QED  BY <2>2, <2>3, <2>4, <2>5, <2>6, <2>7, <2>8, Zenon
<1>5. Nat \subseteq T
  <2> HIDE DEF T
  <2>. QED  BY <1>3, <1>4, SetInduction
<1>6. Good(Len(src))
  <2> HIDE DEF Good
  <2>. QED  BY <1>1, <1>5
<1>7. Range(src) = {src[i] : i \in 1 .. Len(src)}
  BY <1>1 DEF Range
<1>. QED  BY <1>2, <1>6, <1>7

-----------------------------------------------------------------------------
(* Serial filters                                                          *)

\* A declared filter is a sentinel or an expression, and never both.
LEMMA DeclaredCases ==
  ASSUME NEW f \in Declared
  PROVE  /\ SerialNone # SerialAll /\ f.sat \in SUBSET Everything
         /\ f.kind = "expr" <=> f \notin {SerialNone, SerialAll}
         /\ f \notin {SerialNone, SerialAll} => f = Expr(f.sat)
<1>1. /\ SerialNone.kind = "none" /\ SerialAll.kind = "all" /\ SerialNone.sat = {} /\ SerialAll.sat = {}
      /\ \A S : Expr(S).kind = "expr" /\ Expr(S).sat = S
  BY DEF SerialNone, SerialAll, Expr
<1>2. CASE f \in {SerialNone, SerialAll}
  BY <1>1, <1>2
<1>3. CASE f \notin {SerialNone, SerialAll}
  <2>1. PICK S \in SUBSET Everything : f = Expr(S)
    BY <1>3 DEF Declared
  <2>. QED  BY <1>1, <1>3, <2>1
<1>. QED  BY <1>2, <1>3

\* to_storage returns a stored form that excludes what the filter excludes.
LEMMA StorageBlocksTheSame ==
  ASSUME NEW f \in Declared
  PROVE  /\ ToStorage(f) \in Stored
         /\ \A labels \in Everything : Blocks(ToStorage(f), labels) <=> Blocks(f, labels)
<1>1. CASE f \in {SerialNone, SerialAll}
  BY <1>1 DEF ToStorage, Stored
<1>2. CASE f \notin {SerialNone, SerialAll} /\ f.sat = Everything
  <2>1. ToStorage(f) = SerialAll
    BY <1>2 DEF ToStorage, IsTautology
  <2>. QED  BY <1>2, <2>1, DeclaredCases DEF Stored, Blocks, Matches
<1>3. CASE f \notin {SerialNone, SerialAll} /\ f.sat = {}
  <2>0. Everything # {}
    BY DEF Everything
  <2>1. ToStorage(f) = SerialNone
    BY <1>3, <2>0 DEF ToStorage, IsTautology, IsContradiction
  <2>2. SerialNone.kind = "none" /\ SerialNone # SerialAll
    BY DEF SerialNone, SerialAll
  <2>. QED  BY <1>3, <2>1, <2>2 DEF Stored, Blocks, Matches
<1>4. CASE f \notin {SerialNone, SerialAll} /\ f.sat \notin {Everything, {}}
  <2>1. ToStorage(f) = f
    BY <1>4 DEF ToStorage, IsTautology, IsContradiction
  <2>2. f.sat \in (SUBSET Everything) \ {{}, Everything} /\ f = Expr(f.sat)
    BY <1>4, DeclaredCases
  <2>. QED  BY <2>1, <2>2 DEF Stored
<1>. QED  BY <1>1, <1>2, <1>3, <1>4

\* merge_serial_filters excludes what either filter excludes.
LEMMA MergeBlocksBoth ==
  ASSUME NEW f \in Declared, NEW g \in Declared
  PROVE  /\ MergeSerialFilters(f, g) \in Declared
         /\ \A labels \in Everything :
               Blocks(MergeSerialFilters(f, g), labels) <=> Blocks(f, labels) \/ Blocks(g, labels)
<1>0. /\ SerialNone # SerialAll
      /\ \A labels : ~Blocks(SerialNone, labels) /\ Blocks(SerialAll, labels)
  BY DEF SerialNone, SerialAll, Blocks
<1>1. CASE f = SerialNone \/ g = SerialNone
  BY <1>0, <1>1 DEF MergeSerialFilters
<1>2. CASE f # SerialNone /\ g # SerialNone /\ (f = SerialAll \/ g = SerialAll)
  <2>1. MergeSerialFilters(f, g) = SerialAll
    BY <1>2 DEF MergeSerialFilters
  <2>. QED  BY <1>0, <1>2, <2>1 DEF Declared
<1>3. CASE f \notin {SerialNone, SerialAll} /\ g \notin {SerialNone, SerialAll}
  <2>1. f.kind = "expr" /\ g.kind = "expr" /\ f.sat \in SUBSET Everything /\ g.sat \in SUBSET Everything
    BY <1>3, DeclaredCases
  <2>2. PICK S : S = f.sat \cup g.sat
    OBVIOUS
  <2>3. MergeSerialFilters(f, g) = Expr(S) /\ S \in SUBSET Everything
    BY <1>3, <2>1, <2>2 DEF MergeSerialFilters
  <2>4. Expr(S) \in Declared
    BY <2>3 DEF Declared
  <2>5. Expr(S).kind = "expr" /\ Expr(S).sat = S /\ Expr(S) # SerialAll
    BY DEF Expr, SerialAll
  <2>. QED  BY <1>3, <2>1, <2>2, <2>3, <2>4, <2>5 DEF Blocks, Matches
<1>. QED  BY <1>1, <1>2, <1>3

\* For stored filters, can_start of one row is the absence of a conflict.
LEMMA CanStartIsNoConflict ==
  ASSUME NEW f \in Stored, NEW g \in Stored, NEW ls, NEW ms, NEW r, NEW e, NEW d,
         r = [labels |-> ls, serial |-> f],
         e.labels = ls, e.serial = f, d.labels = ms, d.serial = g
  PROVE  Conflicts(e, d) <=> ~CanStart({r}, ms, g)
<1>1. f \in Declared /\ g \in Declared
  BY DEF Stored, Declared
<1>2. /\ f.kind = "expr" <=> f \notin {SerialNone, SerialAll}
      /\ g.kind = "expr" <=> g \notin {SerialNone, SerialAll}
      /\ SerialNone # SerialAll
  BY <1>1, DeclaredCases
<1>3. r.labels = ls /\ r.serial = f /\ {r} # {}
  OBVIOUS
<1>4. CanStart({r}, ms, g) <=> /\ f # SerialAll
                               /\ f.kind = "expr" => ~Matches(f, ms)
                               /\ g # SerialAll
                               /\ g.kind = "expr" => ~Matches(g, ls)
  BY <1>3 DEF CanStart
<1>5. Conflicts(e, d) <=> \/ f = SerialAll \/ g = SerialAll
                          \/ f # SerialNone /\ Matches(f, ms)
                          \/ g # SerialNone /\ Matches(g, ls)
  BY DEF Conflicts
<1>. QED  BY <1>2, <1>4, <1>5

-----------------------------------------------------------------------------
(* Labels and names                                                        *)

\* The modules that cover a test have a longest one, so own_labels is defined.
LEMMA OwnLabelsType ==
  ASSUME InputsAreTyped, NEW def \in TestDef
  PROVE  OwnLabels(def) \in Seq(Label)
<1>1. def.labels \in Seq(Label) /\ def.module \in Seq(Segment) /\ Len(def.module) \in Nat
  BY DEF TestDef
<1>2. PICK covers : covers = {m \in DOMAIN ModuleDefaults : IsPrefix(m, def.module)}
  OBVIOUS
<1>3. CASE def.explicit \/ covers = {}
  BY <1>1, <1>2, <1>3 DEF OwnLabels
<1>4. CASE ~def.explicit /\ covers # {}
  <2>1. \A m \in covers : Len(m) \in Nat /\ Len(m) <= Len(def.module) /\ ModuleDefaults[m] \in Seq(Label)
    BY <1>2, LenProperties DEF InputsAreTyped, IsPrefix
  <2>2. PICK T : T = {Len(def.module) - Len(m) : m \in covers}
    OBVIOUS
  <2>3. T \subseteq Nat /\ T # {}
    BY <1>1, <1>4, <2>1, <2>2
  <2>4. PICK x \in T : \A y \in T : x <= y
    BY <2>3, LeastNatural
  <2>5. PICK m \in covers : x = Len(def.module) - Len(m)
    BY <2>2
  <2>6. \A n \in covers : Len(n) <= Len(m)
    <3>1. SUFFICES ASSUME NEW n \in covers PROVE Len(n) <= Len(m)
      OBVIOUS
    <3>2. Len(def.module) - Len(m) <= Len(def.module) - Len(n)
      BY <2>2, <2>4, <2>5
    <3>. QED  BY <1>1, <2>1, <3>2
  <2>7. PICK c : c = CHOOSE d \in covers : \A n \in covers : Len(n) <= Len(d)
    OBVIOUS
  <2>8. c \in covers
    BY <2>6, <2>7
  <2>9. OwnLabels(def) = ModuleDefaults[c]
    BY <1>2, <1>4, <2>7 DEF OwnLabels
  <2>. QED  BY <2>1, <2>8, <2>9
<1>. QED  BY <1>3, <1>4

\* The name of a trial is a path.
LEMMA TrialNameType ==
  ASSUME NEW def \in TestDef, NEW libtest
  PROVE  EffectiveTrialName(def, libtest) \in Seq(Segment)
<1>1. /\ def.module \in Seq(Segment) /\ def.module # <<>> /\ def.name \in Segment
      /\ def.display # NoName => def.display \in Seq(Segment)
  BY DEF TestDef
<1>2. Tail(def.module) \in Seq(Segment)
  BY <1>1, HeadTailProperties
<1>3. Append(Tail(def.module), def.name) \in Seq(Segment) /\ <<def.name>> \in Seq(Segment)
  BY <1>1, <1>2
<1>. QED  BY <1>1, <1>3 DEF EffectiveTrialName

-----------------------------------------------------------------------------
(* The inductive invariant                                                 *)

\* This run's inputs are among those considered, and stay.
InputsFit ==
  /\ InputsAreTyped
  /\ reg \in Registries /\ defs \in Programs /\ dynamic \in Dynamics
  /\ filter \in Filters /\ libtestNames \in BOOLEAN

\* The walk is on its way to the closure: nothing outside it is visited or will
\* be, and what is still missing is reached from the stack.
OnTheWay ==
  stage = "walk" =>
    /\ (visited \union Range(stack)) \cap DOMAIN reg \subseteq Reachable(defs[pos].fixtures)
    /\ Range(defs[pos].fixtures) \cap DOMAIN reg \subseteq visited \union Range(stack)
    /\ \A f \in visited \cap DOMAIN reg :
          Range(reg[f].deps) \cap DOMAIN reg \subseteq visited \union Range(stack)

\* What was found is what the fixtures visited so far bring.
FoundIsVisited ==
  LET V == visited \cap DOMAIN reg
  IN  /\ IsInjective(found.labels) /\ Range(found.labels) = UNION {Range(reg[f].labels) : f \in V}
      /\ found.requires = UNION {reg[f].requires : f \in V}
      /\ \A labels \in Everything : Blocks(found.serial, labels) <=> \E f \in V : Blocks(reg[f].serial, labels)

\* The place of the next test among all of them.
Cursor == IF stage \in {"validate", "inventory", "walk"} THEN pos
          ELSE IF stage = "dynamic" THEN Len(defs) + pos ELSE Len(defs) + Len(dynamic) + 1

\* The trials come from the tests before the next one, each from another.
InOrder ==
  /\ stage \in {"validate", "panicked"} => trials = <<>> /\ pos = 1
  /\ stage \notin {"validate", "panicked"} => IsInjective(TrialNames)
  /\ stage \in {"inventory", "walk"} => pos <= Len(defs) + 1
  /\ stage = "dynamic" => pos <= Len(dynamic) + 1
  /\ \A j \in DOMAIN trials : \E k \in DOMAIN TrialNames : k < Cursor /\ trials[j].name = TrialNames[k]
  /\ \A j, k \in DOMAIN trials : trials[j].name = trials[k].name => j = k

\* The entries of the dump are those of the trials that will run, once each.
DumpIsComplete ==
  /\ \A m \in DOMAIN metadata : \E j \in Runnable : metadata[m] = MetadataOf(trials[j])
  /\ \A j \in Runnable : \E m \in DOMAIN metadata : metadata[m] = MetadataOf(trials[j])
  /\ \A m, n \in DOMAIN metadata : metadata[m].name = metadata[n].name => m = n

(***************************************************************************)
(* The inductive invariant of Collect.  What a trial inherits is decided   *)
(* by loops, so it needs what holds inside them: the walk and the closure, *)
(* the accumulators and the fixtures visited.  That a test has one trial   *)
(* needs the order of the names, which validate_trial_names made distinct. *)
(***************************************************************************)
CollectInv == /\ InputsFit /\ CollectTypeOK /\ OnTheWay /\ FoundIsVisited /\ InOrder /\ DumpIsComplete
              /\ InheritanceIsTheClosure

\* What the types of the inputs give for this run.
LEMMA InputTypes ==
  ASSUME InputsFit
  PROVE  /\ DOMAIN reg \subseteq FixtureName
         /\ \A f \in DOMAIN reg : /\ reg[f] \in FixtureDef /\ reg[f].deps \in Seq(FixtureName)
                                  /\ reg[f].labels \in Seq(Label) /\ reg[f].serial \in Declared
                                  /\ reg[f].requires \subseteq Requirement
         /\ defs \in Seq(TestDef) /\ Len(defs) \in Nat /\ DOMAIN defs = 1 .. Len(defs)
         /\ \A i \in DOMAIN defs : /\ defs[i] \in TestDef /\ defs[i].fixtures \in Seq(FixtureName)
                                   /\ defs[i].serial \in Declared /\ defs[i].ignore \in BOOLEAN
         /\ dynamic \in Seq(DynTest) /\ Len(dynamic) \in Nat /\ DOMAIN dynamic = 1 .. Len(dynamic)
         /\ \A i \in DOMAIN dynamic : dynamic[i] \in DynTest /\ dynamic[i].name \in Seq(Segment)
<1>1. /\ DOMAIN reg \subseteq FixtureName /\ \A f \in DOMAIN reg : reg[f] \in FixtureDef
      /\ defs \in Seq(TestDef) /\ dynamic \in Seq(DynTest)
  BY DEF InputsFit, InputsAreTyped
<1>2. \A f \in DOMAIN reg : /\ reg[f].deps \in Seq(FixtureName)
                            /\ reg[f].labels \in Seq(Label) /\ reg[f].serial \in Declared
                            /\ reg[f].requires \subseteq Requirement
  BY <1>1 DEF FixtureDef
<1>3. /\ Len(defs) \in Nat /\ DOMAIN defs = 1 .. Len(defs) /\ \A i \in DOMAIN defs : defs[i] \in TestDef
      /\ Len(dynamic) \in Nat /\ DOMAIN dynamic = 1 .. Len(dynamic)
      /\ \A i \in DOMAIN dynamic : dynamic[i] \in DynTest
  BY <1>1, LenProperties, ElementOfSeq
<1>4. \A i \in DOMAIN defs : /\ defs[i].fixtures \in Seq(FixtureName)
                             /\ defs[i].serial \in Declared /\ defs[i].ignore \in BOOLEAN
  BY <1>3 DEF TestDef
<1>5. \A i \in DOMAIN dynamic : dynamic[i].name \in Seq(Segment)
  BY <1>3 DEF DynTest
<1>. QED  BY <1>1, <1>2, <1>3, <1>4, <1>5

\* The names validate_trial_names compares.
LEMMA TrialNamesAre ==
  ASSUME InputsFit
  PROVE  /\ DOMAIN TrialNames = 1 .. Len(defs) + Len(dynamic)
         /\ \A i \in DOMAIN defs : /\ i \in DOMAIN TrialNames
                                   /\ TrialNames[i] = EffectiveTrialName(defs[i], libtestNames)
         /\ \A i \in DOMAIN dynamic : /\ Len(defs) + i \in DOMAIN TrialNames
                                      /\ TrialNames[Len(defs) + i] = dynamic[i].name
<1>1. /\ Len(defs) \in Nat /\ DOMAIN defs = 1 .. Len(defs) /\ \A i \in DOMAIN defs : defs[i] \in TestDef
      /\ Len(dynamic) \in Nat /\ DOMAIN dynamic = 1 .. Len(dynamic)
      /\ \A i \in DOMAIN dynamic : dynamic[i].name \in Seq(Segment)
  BY InputTypes
<1>2. PICK p : p = [i \in DOMAIN defs |-> EffectiveTrialName(defs[i], libtestNames)]
  OBVIOUS
<1>3. PICK q : q = [i \in DOMAIN dynamic |-> dynamic[i].name]
  OBVIOUS
<1>4. p \in Seq(Seq(Segment)) /\ Len(p) = Len(defs)
  BY <1>1, <1>2, TrialNameType
<1>5. q \in Seq(Seq(Segment)) /\ Len(q) = Len(dynamic)
  BY <1>1, <1>3
<1>6. TrialNames = p \o q
  BY <1>2, <1>3 DEF TrialNames
<1>7. /\ DOMAIN (p \o q) = 1 .. Len(defs) + Len(dynamic)
      /\ \A i \in 1 .. Len(defs) + Len(dynamic) : (p \o q)[i] = IF i <= Len(p) THEN p[i] ELSE q[i - Len(p)]
  <2>1. PICK N : N = Seq(Segment)
    OBVIOUS
  <2>2. p \in Seq(N) /\ q \in Seq(N)
    BY <1>4, <1>5, <2>1
  <2>3. /\ p \o q \in Seq(N) /\ Len(p \o q) = Len(p) + Len(q)
        /\ \A i \in 1 .. Len(p) + Len(q) : (p \o q)[i] = IF i <= Len(p) THEN p[i] ELSE q[i - Len(p)]
    BY <2>2, ConcatProperties
  <2>4. DOMAIN (p \o q) = 1 .. Len(p \o q)
    BY <2>3, LenProperties
  <2>. QED  BY <1>4, <1>5, <2>3, <2>4
<1>8. ASSUME NEW i \in DOMAIN defs PROVE i \in DOMAIN TrialNames /\ TrialNames[i] = p[i]
  BY <1>1, <1>4, <1>6, <1>7
<1>9. ASSUME NEW i \in DOMAIN dynamic
      PROVE  Len(defs) + i \in DOMAIN TrialNames /\ TrialNames[Len(defs) + i] = q[i]
  <2>1. /\ Len(defs) + i \in 1 .. Len(defs) + Len(dynamic)
        /\ ~(Len(defs) + i <= Len(defs)) /\ Len(defs) + i - Len(defs) = i
    BY <1>1
  <2>. QED  BY <1>4, <1>6, <1>7, <2>1
<1>. QED  BY <1>2, <1>3, <1>6, <1>7, <1>8, <1>9

-----------------------------------------------------------------------------
(* The closure                                                             *)

\* Reachable is closed, and it is the least set that is.
LEMMA ReachableIsClosed ==
  ASSUME NEW names
  PROVE  /\ Reachable(names) \subseteq DOMAIN reg
         /\ Range(names) \cap DOMAIN reg \subseteq Reachable(names)
         /\ \A f \in Reachable(names) : Range(reg[f].deps) \cap DOMAIN reg \subseteq Reachable(names)
         /\ \A S \in SUBSET DOMAIN reg : Closed(S, names) => Reachable(names) \subseteq S
<1>1. /\ Reachable(names) \subseteq DOMAIN reg
      /\ \A S \in SUBSET DOMAIN reg : Closed(S, names) => Reachable(names) \subseteq S
  BY DEF Reachable
<1>2. ASSUME NEW f \in Range(names) \cap DOMAIN reg PROVE f \in Reachable(names)
  BY DEF Reachable, Closed
<1>3. ASSUME NEW f \in Reachable(names), NEW d \in Range(reg[f].deps) \cap DOMAIN reg
      PROVE  d \in Reachable(names)
  <2>1. ASSUME NEW S \in SUBSET DOMAIN reg, Closed(S, names) PROVE d \in S
    <3>1. f \in S
      BY <2>1 DEF Reachable
    <3>. QED  BY <2>1, <3>1 DEF Closed
  <2>. QED  BY <2>1 DEF Reachable
<1>. QED  BY <1>1, <1>2, <1>3

\* When no call is left, the walk has visited exactly the closure.
LEMMA WalkEndsAtTheClosure ==
  ASSUME CollectInv, stage = "walk", stack = <<>>
  PROVE  visited \cap DOMAIN reg = Reachable(defs[pos].fixtures)
<1>1. Range(stack) = {}
  BY DEF Range
<1>2. visited \cap DOMAIN reg \subseteq Reachable(defs[pos].fixtures)
  BY <1>1 DEF CollectInv, OnTheWay
<1>3. Closed(visited \cap DOMAIN reg, defs[pos].fixtures)
  BY <1>1 DEF CollectInv, OnTheWay, Closed
<1>4. Reachable(defs[pos].fixtures) \subseteq visited \cap DOMAIN reg
  BY <1>3, ReachableIsClosed
<1>. QED  BY <1>2, <1>4

-----------------------------------------------------------------------------
(* Steps                                                                   *)

\* What depends on the inputs alone does not change.
LEMMA InputsStay ==
  ASSUME UNCHANGED inputs
  PROVE  /\ reg' = reg /\ defs' = defs /\ dynamic' = dynamic /\ filter' = filter
         /\ libtestNames' = libtestNames /\ TrialNames' = TrialNames
         /\ \A names : Reachable(names)' = Reachable(names)
         /\ \A def : EffectiveLabels(def)' = EffectiveLabels(def)
         /\ InputsFit => InputsFit'
<1>1. reg' = reg /\ defs' = defs /\ dynamic' = dynamic /\ filter' = filter /\ libtestNames' = libtestNames
  BY DEF inputs
<1>2. TrialNames' = TrialNames
  BY <1>1 DEF TrialNames
<1>3. \A names : Reachable(names)' = Reachable(names)
  BY <1>1 DEF Reachable, Closed
<1>4. \A def : EffectiveLabels(def)' = EffectiveLabels(def)
  <2>1. SUFFICES ASSUME NEW def PROVE EffectiveLabels(def)' = EffectiveLabels(def)
    OBVIOUS
  <2>2. Reachable(def.fixtures)' = Reachable(def.fixtures)
    BY <1>3
  <2>. QED  BY <1>1, <2>2 DEF EffectiveLabels
<1>5. InputsFit => InputsFit'
  BY <1>1 DEF InputsFit
<1>. QED  BY <1>1, <1>2, <1>3, <1>4, <1>5

\* What InheritanceIsTheClosure says of one test.
Inherits(i) ==
  /\ TrialsOf(i) # {} <=> filter = SerialNone \/ EffectiveLabels(defs[i]) \in filter.sat
  /\ \A j, k \in TrialsOf(i) : j = k
  /\ \A j \in TrialsOf(i) :
      /\ Range(trials[j].labels) = EffectiveLabels(defs[i]) /\ IsInjective(trials[j].labels)
      /\ LET filters == {defs[i].serial} \union {reg[f].serial : f \in Reachable(defs[i].fixtures)}
         IN  \A labels \in SUBSET Label :
                Blocks(ToStorage(trials[j].serial), labels) <=> \E f \in filters : Blocks(f, labels)

\* A test's part stays as long as its trial does and no other gets its name.
LEMMA InheritsStays ==
  ASSUME UNCHANGED inputs, NEW i, Inherits(i), TrialsOf(i)' = TrialsOf(i),
         \A j \in TrialsOf(i) : trials'[j] = trials[j]
  PROVE  Inherits(i)'
<1>1. /\ reg' = reg /\ defs' = defs /\ filter' = filter
      /\ Reachable(defs[i].fixtures)' = Reachable(defs[i].fixtures)
      /\ EffectiveLabels(defs[i])' = EffectiveLabels(defs[i])
  <2>1. reg' = reg /\ defs' = defs /\ filter' = filter
    BY InputsStay
  <2>2. PICK d : d = defs[i]
    OBVIOUS
  <2>3. Reachable(d.fixtures)' = Reachable(d.fixtures) /\ EffectiveLabels(d)' = EffectiveLabels(d)
    BY InputsStay
  <2>. QED  BY <2>1, <2>2, <2>3
<1>2. TrialsOf(i)' # {} <=> filter' = SerialNone \/ EffectiveLabels(defs[i])' \in filter'.sat
  BY <1>1 DEF Inherits
<1>3. \A j, k \in TrialsOf(i)' : j = k
  BY DEF Inherits
<1>4. ASSUME NEW j \in TrialsOf(i)'
      PROVE  /\ Range(trials'[j].labels) = EffectiveLabels(defs[i])' /\ IsInjective(trials'[j].labels)
             /\ LET filters == {defs'[i].serial} \union {reg'[f].serial : f \in Reachable(defs[i].fixtures)'}
                IN  \A labels \in SUBSET Label :
                       Blocks(ToStorage(trials'[j].serial), labels) <=> \E f \in filters : Blocks(f, labels)
  BY <1>1, <1>4 DEF Inherits
<1>. QED  BY <1>2, <1>3, <1>4 DEF Inherits

\* Steps that add no trial and finish no test.
LEMMA NothingCollected ==
  ASSUME CollectInv, UNCHANGED <<inputs, trials, metadata>>, Processed' \subseteq Processed
  PROVE  InputsFit' /\ DumpIsComplete' /\ InheritanceIsTheClosure'
<1>1. InputsFit'
  BY InputsStay DEF CollectInv
<1>2. DumpIsComplete'
  BY DEF CollectInv, DumpIsComplete, Runnable
<1>3. ASSUME NEW i \in Processed' PROVE Inherits(i)'
  <2>1. Inherits(i)
    BY <1>3 DEF CollectInv, InheritanceIsTheClosure, Inherits
  <2>2. TrialsOf(i)' = TrialsOf(i)
    BY InputsStay DEF TrialsOf
  <2>. QED  BY <2>1, <2>2, InheritsStays
<1>4. InheritanceIsTheClosure'
  BY <1>3 DEF InheritanceIsTheClosure, Inherits
<1>. QED  BY <1>1, <1>2, <1>4

\* At the start nothing is collected.
LEMMA CollectInitHolds ==
  ASSUME CollectInit
  PROVE  CollectInv
<1>1. InputsFit
  BY CollectAssumption DEF CollectInit, InputsFit
<1>2. SerialNone \in Declared /\ ~(SerialNone.kind = "expr") /\ SerialNone # SerialAll
  BY DEF Declared, SerialNone, SerialAll
<1>3. CollectTypeOK
  BY <1>2 DEF CollectInit, CollectTypeOK, Nothing
<1>4. OnTheWay /\ InheritanceIsTheClosure
  BY DEF CollectInit, OnTheWay, InheritanceIsTheClosure, Processed
<1>5. FoundIsVisited
  BY <1>2 DEF CollectInit, FoundIsVisited, Nothing, Range, IsInjective, Blocks
<1>6. InOrder
  BY DEF CollectInit, InOrder
<1>7. DumpIsComplete
  BY DEF CollectInit, DumpIsComplete, Runnable
<1>. QED  BY <1>1, <1>3, <1>4, <1>5, <1>6, <1>7 DEF CollectInv

\* One lemma for each action that adds no trial: they move the stage, the
\* requirements or the walk.
LEMMA ChangeWhileCollectingKeeps ==
  ASSUME CollectInv, ChangeWhileCollecting
  PROVE  CollectInv'
<1>1. /\ UNCHANGED <<inputs, stage, pos, stack, visited, found, trials, metadata, unavailable>>
      /\ met' \subseteq Requirement
  BY DEF ChangeWhileCollecting, RequirementsChange, walking
<1>2. Processed' = Processed
  BY <1>1, InputsStay DEF Processed
<1>3. InputsFit' /\ DumpIsComplete' /\ InheritanceIsTheClosure'
  BY <1>1, <1>2, NothingCollected
<1>4. CollectTypeOK'
  BY <1>1, InputsStay DEF CollectInv, CollectTypeOK
<1>5. OnTheWay'
  BY <1>1, InputsStay DEF CollectInv, OnTheWay
<1>6. FoundIsVisited'
  BY <1>1, InputsStay DEF CollectInv, FoundIsVisited
<1>7. InOrder'
  BY <1>1, InputsStay DEF CollectInv, InOrder, Cursor
<1>. QED  BY <1>3, <1>4, <1>5, <1>6, <1>7 DEF CollectInv

LEMMA ValidateKeeps ==
  ASSUME CollectInv, ValidateTrialNames
  PROVE  CollectInv'
<1>1. /\ UNCHANGED <<inputs, met, pos, stack, visited, found, trials, metadata, unavailable>>
      /\ stage = "validate" /\ stage' = IF IsInjective(TrialNames) THEN "inventory" ELSE "panicked"
  BY DEF ValidateTrialNames, walking
<1>2. pos = 1 /\ trials = <<>> /\ Len(defs) \in Nat
  BY <1>1, InputTypes DEF CollectInv, InOrder
<1>3. Processed' = {}
  BY <1>1, <1>2 DEF Processed
<1>4. InputsFit' /\ DumpIsComplete' /\ InheritanceIsTheClosure'
  BY <1>1, <1>3, NothingCollected
<1>5. CollectTypeOK'
  BY <1>1, InputsStay DEF CollectInv, CollectTypeOK
<1>6. OnTheWay'
  BY <1>1 DEF OnTheWay
<1>7. FoundIsVisited'
  BY <1>1, InputsStay DEF CollectInv, FoundIsVisited
<1>8. InOrder'
  BY <1>1, <1>2, InputsStay DEF CollectInv, InOrder
<1>. QED  BY <1>4, <1>5, <1>6, <1>7, <1>8 DEF CollectInv

LEMMA StartWalkKeeps ==
  ASSUME CollectInv, StartWalk
  PROVE  CollectInv'
<1>1. /\ UNCHANGED <<inputs, met, pos, visited, found, trials, metadata, unavailable>>
      /\ stage = "inventory" /\ stage' = "walk" /\ pos \in DOMAIN defs /\ stack' = defs[pos].fixtures
  BY DEF StartWalk
<1>2. Processed' = Processed
  BY <1>1 DEF Processed
<1>3. InputsFit' /\ DumpIsComplete' /\ InheritanceIsTheClosure'
  BY <1>1, <1>2, NothingCollected
<1>4. visited = {} /\ found = Nothing /\ stack' \in Seq(FixtureName)
  BY <1>1, InputTypes DEF CollectInv, CollectTypeOK
<1>5. CollectTypeOK'
  BY <1>1, <1>4, InputsStay DEF CollectInv, CollectTypeOK
<1>6. OnTheWay'
  <2>1. PICK names : names = defs[pos].fixtures
    OBVIOUS
  <2>2. Reachable(names)' = Reachable(names) /\ Range(names) \cap DOMAIN reg \subseteq Reachable(names)
    BY <1>1, InputsStay, ReachableIsClosed
  <2>. QED  BY <1>1, <1>4, <2>1, <2>2, InputsStay DEF OnTheWay
<1>7. FoundIsVisited'
  BY <1>1, InputsStay DEF CollectInv, FoundIsVisited
<1>8. InOrder'
  BY <1>1, InputsStay DEF CollectInv, InOrder, Cursor
<1>. QED  BY <1>3, <1>5, <1>6, <1>7, <1>8 DEF CollectInv

LEMMA InventoryDoneKeeps ==
  ASSUME CollectInv, InventoryDone
  PROVE  CollectInv'
<1>1. /\ UNCHANGED <<inputs, met, stack, visited, found, trials, metadata, unavailable>>
      /\ stage = "inventory" /\ stage' = "dynamic" /\ pos > Len(defs) /\ pos' = 1
  BY DEF InventoryDone, walking
<1>2. pos = Len(defs) + 1 /\ Len(defs) \in Nat /\ Len(dynamic) \in Nat /\ DOMAIN defs = 1 .. Len(defs)
  <2>1. Len(defs) \in Nat /\ Len(dynamic) \in Nat /\ DOMAIN defs = 1 .. Len(defs)
    BY InputTypes DEF CollectInv
  <2>2. pos \in Nat /\ pos <= Len(defs) + 1
    BY <1>1 DEF CollectInv, InOrder, CollectTypeOK
  <2>. QED  BY <1>1, <2>1, <2>2
<1>3. Processed' = Processed
  BY <1>1, <1>2, InputsStay DEF Processed
<1>4. InputsFit' /\ DumpIsComplete' /\ InheritanceIsTheClosure'
  BY <1>1, <1>3, NothingCollected
<1>5. CollectTypeOK'
  BY <1>1, InputsStay DEF CollectInv, CollectTypeOK
<1>6. OnTheWay'
  BY <1>1 DEF OnTheWay
<1>7. FoundIsVisited'
  BY <1>1, InputsStay DEF CollectInv, FoundIsVisited
<1>8. InOrder'
  <2>1. Cursor' = Cursor
    BY <1>1, <1>2, InputsStay DEF Cursor
  <2>. QED  BY <1>1, <1>2, <2>1, InputsStay DEF CollectInv, InOrder
<1>. QED  BY <1>4, <1>5, <1>6, <1>7, <1>8 DEF CollectInv

LEMMA DynamicDoneKeeps ==
  ASSUME CollectInv, DynamicDone
  PROVE  CollectInv'
<1>1. /\ UNCHANGED <<inputs, met, stack, visited, found, trials, metadata, unavailable>>
      /\ stage = "dynamic" /\ stage' = "collected" /\ pos > Len(dynamic) /\ pos' = 1
  BY DEF DynamicDone, walking
<1>2. pos = Len(dynamic) + 1 /\ Len(defs) \in Nat /\ Len(dynamic) \in Nat
  <2>1. Len(defs) \in Nat /\ Len(dynamic) \in Nat
    BY InputTypes DEF CollectInv
  <2>2. pos \in Nat /\ pos <= Len(dynamic) + 1
    BY <1>1 DEF CollectInv, InOrder, CollectTypeOK
  <2>. QED  BY <1>1, <2>1, <2>2
<1>3. Processed' = Processed
  BY <1>1, <1>2, InputsStay DEF Processed
<1>4. InputsFit' /\ DumpIsComplete' /\ InheritanceIsTheClosure'
  BY <1>1, <1>3, NothingCollected
<1>5. CollectTypeOK'
  BY <1>1, InputsStay DEF CollectInv, CollectTypeOK
<1>6. OnTheWay'
  BY <1>1 DEF OnTheWay
<1>7. FoundIsVisited'
  BY <1>1, InputsStay DEF CollectInv, FoundIsVisited
<1>8. InOrder'
  <2>1. Cursor' = Cursor
    BY <1>1, <1>2, InputsStay DEF Cursor
  <2>. QED  BY <1>1, <1>2, <2>1, InputsStay DEF CollectInv, InOrder
<1>. QED  BY <1>4, <1>5, <1>6, <1>7, <1>8 DEF CollectInv

\* The elements of the stack after a call.
LEMMA StackElements ==
  ASSUME NEW S, NEW s \in Seq(S), s # <<>>
  PROVE  /\ Head(s) \in S /\ Tail(s) \in Seq(S) /\ Range(s) = {Head(s)} \union Range(Tail(s))
         /\ \A d \in Seq(S) : d \o Tail(s) \in Seq(S) /\ Range(d \o Tail(s)) = Range(d) \union Range(Tail(s))
<1>1. /\ Head(s) \in S /\ Tail(s) \in Seq(S) /\ Len(Tail(s)) = Len(s) - 1 /\ Len(s) \in Nat \ {0}
      /\ \A i \in 1 .. Len(Tail(s)) : Tail(s)[i] = s[i + 1]
      /\ Head(s) = s[1]
  BY HeadTailProperties, EmptySeq
<1>2. DOMAIN s = 1 .. Len(s) /\ DOMAIN Tail(s) = 1 .. Len(s) - 1
  BY <1>1, LenProperties
<1>3. Range(s) = {Head(s)} \union Range(Tail(s))
  <2>1. ASSUME NEW x \in Range(s) PROVE x \in {Head(s)} \union Range(Tail(s))
    <3>1. PICK i \in 1 .. Len(s) : x = s[i]
      BY <1>2 DEF Range
    <3>2. CASE i = 1
      BY <1>1, <3>1, <3>2
    <3>3. CASE i # 1
      <4>1. i - 1 \in 1 .. Len(s) - 1 /\ (i - 1) + 1 = i
        BY <1>1, <3>3
      <4>2. x = Tail(s)[i - 1]
        BY <1>1, <3>1, <4>1
      <4>. QED  BY <1>2, <4>1, <4>2 DEF Range
    <3>. QED  BY <3>2, <3>3
  <2>2. ASSUME NEW x \in Range(Tail(s)) PROVE x \in Range(s)
    <3>1. PICK i \in 1 .. Len(s) - 1 : x = Tail(s)[i]
      BY <1>2 DEF Range
    <3>2. i + 1 \in 1 .. Len(s) /\ x = s[i + 1]
      BY <1>1, <3>1
    <3>. QED  BY <1>2, <3>2 DEF Range
  <2>3. Head(s) \in Range(s)
    BY <1>1, <1>2 DEF Range
  <2>. QED  BY <2>1, <2>2, <2>3
<1>4. ASSUME NEW d \in Seq(S), NEW t \in Seq(S)
      PROVE  d \o t \in Seq(S) /\ Range(d \o t) = Range(d) \union Range(t)
  <2>1. /\ d \o t \in Seq(S) /\ Len(d \o t) = Len(d) + Len(t) /\ Len(d) \in Nat /\ Len(t) \in Nat
        /\ \A i \in 1 .. Len(d) + Len(t) : (d \o t)[i] = IF i <= Len(d) THEN d[i] ELSE t[i - Len(d)]
        /\ DOMAIN d = 1 .. Len(d) /\ DOMAIN t = 1 .. Len(t) /\ DOMAIN (d \o t) = 1 .. Len(d) + Len(t)
    BY ConcatProperties, LenProperties
  <2>2. ASSUME NEW x \in Range(d \o t) PROVE x \in Range(d) \union Range(t)
    <3>1. PICK i \in 1 .. Len(d) + Len(t) : x = (d \o t)[i]
      BY <2>1 DEF Range
    <3>2. CASE i <= Len(d)
      <4>1. i \in 1 .. Len(d) /\ x = d[i]
        BY <2>1, <3>1, <3>2
      <4>. QED  BY <2>1, <4>1 DEF Range
    <3>3. CASE ~(i <= Len(d))
      <4>1. i - Len(d) \in 1 .. Len(t) /\ x = t[i - Len(d)]
        BY <2>1, <3>1, <3>3
      <4>. QED  BY <2>1, <4>1 DEF Range
    <3>. QED  BY <3>2, <3>3
  <2>3. ASSUME NEW x \in Range(d) PROVE x \in Range(d \o t)
    <3>1. PICK i \in 1 .. Len(d) : x = d[i]
      BY <2>1 DEF Range
    <3>2. i \in 1 .. Len(d) + Len(t) /\ x = (d \o t)[i]
      BY <2>1, <3>1
    <3>. QED  BY <2>1, <3>2 DEF Range
  <2>4. ASSUME NEW x \in Range(t) PROVE x \in Range(d \o t)
    <3>1. PICK i \in 1 .. Len(t) : x = t[i]
      BY <2>1 DEF Range
    <3>2. i + Len(d) \in 1 .. Len(d) + Len(t) /\ ~(i + Len(d) <= Len(d)) /\ (i + Len(d)) - Len(d) = i
      BY <2>1
    <3>3. x = (d \o t)[i + Len(d)]
      BY <2>1, <3>1, <3>2
    <3>. QED  BY <2>1, <3>2, <3>3 DEF Range
  <2>. QED  BY <2>1, <2>2, <2>3, <2>4
<1>. QED  BY <1>1, <1>3, <1>4

\* One visit adds what the fixture brings.
LEMMA VisitAdds ==
  ASSUME CollectInv, NEW f \in DOMAIN reg
  PROVE  LET new == Visit(reg[f])
         IN  /\ new \in [labels : Seq(Label), serial : Declared, requires : SUBSET Requirement]
             /\ IsInjective(new.labels) /\ Range(new.labels) = Range(found.labels) \union Range(reg[f].labels)
             /\ new.requires = found.requires \union reg[f].requires
             /\ \A labels \in Everything :
                   Blocks(new.serial, labels) <=> Blocks(found.serial, labels) \/ Blocks(reg[f].serial, labels)
<1>1. /\ reg[f].labels \in Seq(Label) /\ reg[f].serial \in Declared /\ reg[f].requires \subseteq Requirement
      /\ found.labels \in Seq(Label) /\ found.serial \in Declared /\ found.requires \subseteq Requirement
      /\ IsInjective(found.labels)
  BY InputTypes DEF CollectInv, CollectTypeOK, FoundIsVisited
<1>2. PICK new : new = Visit(reg[f])
  OBVIOUS
<1>3. /\ new.labels = PushUnique(found.labels, reg[f].labels)
      /\ new.serial = IF reg[f].serial = SerialNone THEN found.serial
                      ELSE MergeSerialFilters(found.serial, reg[f].serial)
      /\ new.requires = found.requires \union reg[f].requires
      /\ new = [labels |-> new.labels, serial |-> new.serial, requires |-> new.requires]
  BY <1>2 DEF Visit
<1>4. /\ new.labels \in Seq(Label) /\ IsInjective(new.labels)
      /\ Range(new.labels) = Range(found.labels) \union Range(reg[f].labels)
  BY <1>1, <1>3, PushUniqueElements
<1>5. /\ new.serial \in Declared
      /\ \A labels \in Everything :
            Blocks(new.serial, labels) <=> Blocks(found.serial, labels) \/ Blocks(reg[f].serial, labels)
  <2>1. CASE reg[f].serial = SerialNone
    <3>1. \A labels : ~Blocks(SerialNone, labels)
      BY DEF Blocks, SerialNone, SerialAll
    <3>. QED  BY <1>1, <1>3, <2>1, <3>1
  <2>2. CASE reg[f].serial # SerialNone
    BY <1>1, <1>3, <2>2, MergeBlocksBoth
  <2>. QED  BY <2>1, <2>2
<1>6. new \in [labels : Seq(Label), serial : Declared, requires : SUBSET Requirement]
  BY <1>1, <1>3, <1>4, <1>5
<1>. QED  BY <1>2, <1>3, <1>4, <1>5, <1>6

\* A call of walk: a fixture that is visited leaves the stack and its
\* dependencies come onto it, so that the closure stays in reach.
LEMMA WalkKeeps ==
  ASSUME CollectInv, Walk
  PROVE  CollectInv'
<1> DEFINE name == Head(stack)
           F == DOMAIN reg
           names == defs[pos].fixtures
<1>1. /\ UNCHANGED <<inputs, met, stage, pos, trials, metadata, unavailable>>
      /\ stage = "walk" /\ stack # <<>> /\ visited' = visited \union {name}
      /\ reg' = reg /\ defs' = defs
  BY InputsStay DEF Walk
<1>2. /\ stack \in Seq(FixtureName) /\ visited \subseteq FixtureName /\ name \in FixtureName
      /\ Tail(stack) \in Seq(FixtureName) /\ Range(stack) = {name} \union Range(Tail(stack))
  BY <1>1, StackElements DEF CollectInv, CollectTypeOK
<1>3. /\ (visited \union Range(stack)) \cap F \subseteq Reachable(names)
      /\ Range(names) \cap F \subseteq visited \union Range(stack)
      /\ \A f \in visited \cap F : Range(reg[f].deps) \cap F \subseteq visited \union Range(stack)
  BY <1>1 DEF CollectInv, OnTheWay
<1>4. Reachable(names)' = Reachable(names)
  <2>1. PICK ns : ns = names
    OBVIOUS
  <2>2. Reachable(ns)' = Reachable(ns)
    BY <1>1, InputsStay
  <2>. QED  BY <1>1, <2>1, <2>2
<1>5. Processed' = Processed
  BY <1>1 DEF Processed
<1>6. InputsFit' /\ DumpIsComplete' /\ InheritanceIsTheClosure'
  BY <1>1, <1>5, NothingCollected
<1>7. InOrder'
  BY <1>1, InputsStay DEF CollectInv, InOrder, Cursor
<1>8. CASE name \in F \ visited
  <2>1. stack' = reg[name].deps \o Tail(stack) /\ found' = Visit(reg[name])
    BY <1>8 DEF Walk
  <2>2. reg[name].deps \in Seq(FixtureName)
    BY <1>8, InputTypes DEF CollectInv
  <2>3. stack' \in Seq(FixtureName) /\ Range(stack') = Range(reg[name].deps) \union Range(Tail(stack))
    BY <1>1, <1>2, <2>1, <2>2, StackElements
  <2>4. name \in Reachable(names) /\ Range(reg[name].deps) \cap F \subseteq Reachable(names)
    BY <1>2, <1>3, <1>8, ReachableIsClosed
  <2>5. OnTheWay'
    <3>1. (visited' \union Range(stack')) \cap F \subseteq Reachable(names)
      BY <1>1, <1>2, <1>3, <2>3, <2>4
    <3>2. Range(names) \cap F \subseteq visited' \union Range(stack')
      BY <1>1, <1>2, <1>3, <2>3
    <3>3. \A f \in visited' \cap F : Range(reg[f].deps) \cap F \subseteq visited' \union Range(stack')
      BY <1>1, <1>2, <1>3, <2>3
    <3>. QED  BY <1>1, <1>4, <3>1, <3>2, <3>3 DEF OnTheWay
  <2>6. /\ found' \in [labels : Seq(Label), serial : Declared, requires : SUBSET Requirement]
        /\ IsInjective(found'.labels)
        /\ Range(found'.labels) = Range(found.labels) \union Range(reg[name].labels)
        /\ found'.requires = found.requires \union reg[name].requires
        /\ \A labels \in Everything :
              Blocks(found'.serial, labels) <=> Blocks(found.serial, labels) \/ Blocks(reg[name].serial, labels)
    BY <1>8, <2>1, VisitAdds
  <2>7. visited' \cap F = (visited \cap F) \union {name}
    BY <1>1, <1>8
  <2>8. FoundIsVisited'
    <3>1. Range(found'.labels) = UNION {Range(reg[f].labels) : f \in visited' \cap F}
      BY <2>6, <2>7 DEF CollectInv, FoundIsVisited
    <3>2. found'.requires = UNION {reg[f].requires : f \in visited' \cap F}
      BY <2>6, <2>7 DEF CollectInv, FoundIsVisited
    <3>3. \A labels \in Everything :
             Blocks(found'.serial, labels) <=> \E f \in visited' \cap F : Blocks(reg[f].serial, labels)
      BY <2>6, <2>7 DEF CollectInv, FoundIsVisited
    <3>. QED  BY <1>1, <2>6, <3>1, <3>2, <3>3 DEF FoundIsVisited
  <2>9. CollectTypeOK'
    BY <1>1, <1>2, <2>3, <2>6 DEF CollectInv, CollectTypeOK
  <2>. QED  BY <1>6, <1>7, <2>5, <2>8, <2>9 DEF CollectInv
<1>9. CASE name \notin F \ visited
  <2>1. stack' = Tail(stack) /\ found' = found
    BY <1>9 DEF Walk
  <2>2. visited' \cap F = visited \cap F /\ (visited' \union Range(stack')) = visited \union Range(stack)
    BY <1>1, <1>2, <1>9, <2>1
  <2>3. OnTheWay'
    BY <1>1, <1>3, <1>4, <2>2 DEF OnTheWay
  <2>4. FoundIsVisited'
    BY <1>1, <2>1, <2>2 DEF CollectInv, FoundIsVisited
  <2>5. CollectTypeOK'
    BY <1>1, <1>2, <2>1 DEF CollectInv, CollectTypeOK
  <2>. QED  BY <1>6, <1>7, <2>3, <2>4, <2>5 DEF CollectInv
<1>. QED  BY <1>8, <1>9

-----------------------------------------------------------------------------
(* A trial is added                                                        *)

EntryType == [name : Seq(Segment), labels : SUBSET Label, serial : Stored]

\* No trial has the name of the test whose turn it is.
LEMMA NameIsNew ==
  ASSUME CollectInv, stage \in {"walk", "dynamic"}, Cursor \in DOMAIN TrialNames
  PROVE  \A j \in DOMAIN trials : trials[j].name # TrialNames[Cursor]
<1>1. SUFFICES ASSUME NEW j \in DOMAIN trials, trials[j].name = TrialNames[Cursor] PROVE FALSE
  OBVIOUS
<1>2. PICK k \in DOMAIN TrialNames : k < Cursor /\ trials[j].name = TrialNames[k]
  BY DEF CollectInv, InOrder
<1>3. IsInjective(TrialNames)
  BY DEF CollectInv, InOrder
<1>4. k = Cursor
  BY <1>1, <1>2, <1>3 DEF IsInjective
<1>5. DOMAIN TrialNames \subseteq Nat
  BY TrialNamesAre, InputTypes DEF CollectInv
<1>. QED  BY <1>2, <1>4, <1>5

\* What AddTrial does to trials and metadata.
LEMMA Added ==
  ASSUME CollectInv, NEW t \in TrialType, AddTrial(t)
  PROVE  /\ trials' \in Seq(TrialType) /\ DOMAIN trials' = DOMAIN trials \union {Len(trials) + 1}
         /\ Len(trials) + 1 \notin DOMAIN trials /\ trials'[Len(trials) + 1] = t
         /\ \A j \in DOMAIN trials : trials'[j] = trials[j]
         /\ metadata' \in Seq(EntryType)
         /\ t.ignored => metadata' = metadata
         /\ ~t.ignored => /\ DOMAIN metadata' = DOMAIN metadata \union {Len(metadata) + 1}
                          /\ metadata'[Len(metadata) + 1] = MetadataOf(t)
                          /\ \A m \in DOMAIN metadata : metadata'[m] = metadata[m]
<1>1. trials \in Seq(TrialType) /\ metadata \in Seq(EntryType)
  BY DEF CollectInv, CollectTypeOK, EntryType
<1>2. /\ t.name \in Seq(Segment) /\ t.labels \in Seq(Label) /\ t.serial \in Declared
      /\ t.ignored \in BOOLEAN
  BY DEF TrialType
<1>3. MetadataOf(t) \in EntryType
  <2>1. Range(t.labels) \subseteq Label
    BY <1>2, LenProperties, ElementOfSeq DEF Range
  <2>2. ToStorage(t.serial) \in Stored
    BY <1>2, StorageBlocksTheSame
  <2>. QED  BY <1>2, <2>1, <2>2 DEF MetadataOf, EntryType
<1>4. trials' = Append(trials, t) /\ metadata' = IF t.ignored THEN metadata ELSE Append(metadata, MetadataOf(t))
  BY DEF AddTrial
<1>5. /\ trials' \in Seq(TrialType) /\ DOMAIN trials' = DOMAIN trials \union {Len(trials) + 1}
      /\ Len(trials) + 1 \notin DOMAIN trials /\ trials'[Len(trials) + 1] = t
      /\ \A j \in DOMAIN trials : trials'[j] = trials[j]
  BY <1>1, <1>4, AppendElements
<1>6. CASE t.ignored
  BY <1>1, <1>4, <1>5, <1>6
<1>7. CASE ~t.ignored
  <2>1. metadata' = Append(metadata, MetadataOf(t))
    BY <1>4, <1>7
  <2>2. PICK e \in EntryType : e = MetadataOf(t)
    BY <1>3
  <2>3. /\ metadata' \in Seq(EntryType) /\ DOMAIN metadata' = DOMAIN metadata \union {Len(metadata) + 1}
        /\ metadata'[Len(metadata) + 1] = e /\ \A m \in DOMAIN metadata : metadata'[m] = metadata[m]
    BY <1>1, <2>1, <2>2, AppendElements
  <2>. QED  BY <1>5, <1>7, <2>2, <2>3
<1>. QED  BY <1>6, <1>7

\* The dump stays complete, and its names stay different.
LEMMA AddedDump ==
  ASSUME CollectInv, NEW t \in TrialType, AddTrial(t), \A j \in DOMAIN trials : trials[j].name # t.name
  PROVE  DumpIsComplete'
<1>1. t.ignored \in BOOLEAN /\ MetadataOf(t).name = t.name /\ \A u : MetadataOf(u).name = u.name
  BY DEF TrialType, MetadataOf
<1>2. /\ DOMAIN trials' = DOMAIN trials \union {Len(trials) + 1}
      /\ trials'[Len(trials) + 1] = t /\ Len(trials) + 1 \notin DOMAIN trials
      /\ \A j \in DOMAIN trials : trials'[j] = trials[j]
  BY Added
<1>3. DumpIsComplete
  BY DEF CollectInv
<1>4. \A m \in DOMAIN metadata : metadata[m].name # t.name
  BY <1>1, <1>3 DEF DumpIsComplete, Runnable
<1>5. CASE t.ignored
  <2>1. metadata' = metadata
    BY <1>5, Added
  <2>2. Runnable' = Runnable
    BY <1>2, <1>5 DEF Runnable
  <2>3. \A j \in Runnable : trials'[j] = trials[j]
    BY <1>2 DEF Runnable
  <2>. QED  BY <1>3, <2>1, <2>2, <2>3 DEF DumpIsComplete
<1>6. CASE ~t.ignored
  <2>1. /\ DOMAIN metadata' = DOMAIN metadata \union {Len(metadata) + 1}
        /\ metadata'[Len(metadata) + 1] = MetadataOf(t)
        /\ \A m \in DOMAIN metadata : metadata'[m] = metadata[m]
    BY <1>6, Added
  <2>2. Runnable' = Runnable \union {Len(trials) + 1}
    BY <1>2, <1>6 DEF Runnable
  <2>3. \A j \in Runnable : trials'[j] = trials[j]
    BY <1>2 DEF Runnable
  <2>4. \A m \in DOMAIN metadata' : \E j \in Runnable' : metadata'[m] = MetadataOf(trials'[j])
    BY <1>2, <1>3, <2>1, <2>2, <2>3 DEF DumpIsComplete
  <2>5. \A j \in Runnable' : \E m \in DOMAIN metadata' : metadata'[m] = MetadataOf(trials'[j])
    BY <1>2, <1>3, <2>1, <2>2, <2>3 DEF DumpIsComplete
  <2>6. \A m, n \in DOMAIN metadata' : metadata'[m].name = metadata'[n].name => m = n
    BY <1>1, <1>3, <1>4, <2>1 DEF DumpIsComplete
  <2>. QED  BY <2>4, <2>5, <2>6 DEF DumpIsComplete
<1>. QED  BY <1>1, <1>5, <1>6

\* The trials of the tests, by their names.
LEMMA AddedNames ==
  ASSUME CollectInv, NEW t \in TrialType, AddTrial(t), UNCHANGED inputs, stage \in {"walk", "dynamic"},
         Cursor \in DOMAIN TrialNames, t.name = TrialNames[Cursor], Cursor' = Cursor + 1
  PROVE  /\ \A j \in DOMAIN trials' :
               \E k \in DOMAIN TrialNames' : k < Cursor' /\ trials'[j].name = TrialNames'[k]
         /\ \A j, k \in DOMAIN trials' : trials'[j].name = trials'[k].name => j = k
         /\ \A i \in DOMAIN defs : i # Cursor => TrialsOf(i)' = TrialsOf(i)
         /\ \A i \in DOMAIN defs : i = Cursor => TrialsOf(i)' = {Len(trials) + 1}
<1>1. TrialNames' = TrialNames /\ defs' = defs /\ libtestNames' = libtestNames
  BY InputsStay
<1>2. /\ DOMAIN trials' = DOMAIN trials \union {Len(trials) + 1}
      /\ trials'[Len(trials) + 1] = t /\ Len(trials) + 1 \notin DOMAIN trials
      /\ \A j \in DOMAIN trials : trials'[j] = trials[j]
  BY Added
<1>3. \A j \in DOMAIN trials : trials[j].name # t.name
  BY NameIsNew
<1>4. DOMAIN TrialNames \subseteq Nat /\ IsInjective(TrialNames)
  BY TrialNamesAre, InputTypes DEF CollectInv, InOrder
<1>5. \A i \in DOMAIN defs :
            i \in DOMAIN TrialNames /\ TrialNames[i] = EffectiveTrialName(defs[i], libtestNames)
  BY TrialNamesAre DEF CollectInv
<1>6. ASSUME NEW j \in DOMAIN trials'
      PROVE  \E k \in DOMAIN TrialNames' : k < Cursor' /\ trials'[j].name = TrialNames'[k]
  <2>1. CASE j \in DOMAIN trials
    <3>1. PICK k \in DOMAIN TrialNames : k < Cursor /\ trials[j].name = TrialNames[k]
      BY <2>1 DEF CollectInv, InOrder
    <3>2. k < Cursor'
      BY <1>4, <3>1
    <3>. QED  BY <1>1, <1>2, <2>1, <3>1, <3>2
  <2>2. CASE j = Len(trials) + 1
    <3>1. Cursor < Cursor'
      BY <1>4
    <3>. QED  BY <1>1, <1>2, <2>2, <3>1
  <2>. QED  BY <1>2, <2>1, <2>2
<1>7. \A j, k \in DOMAIN trials' : trials'[j].name = trials'[k].name => j = k
  BY <1>2, <1>3 DEF CollectInv, InOrder
<1>8. ASSUME NEW i \in DOMAIN defs, i # Cursor PROVE TrialsOf(i)' = TrialsOf(i)
  <2>1. t.name # EffectiveTrialName(defs[i], libtestNames)
    BY <1>4, <1>5, <1>8 DEF IsInjective
  <2>. QED  BY <1>1, <1>2, <2>1 DEF TrialsOf
<1>9. ASSUME NEW i \in DOMAIN defs, i = Cursor PROVE TrialsOf(i)' = {Len(trials) + 1}
  <2>1. t.name = EffectiveTrialName(defs[i], libtestNames)
    BY <1>5, <1>9
  <2>2. {j \in DOMAIN trials' : trials'[j].name = EffectiveTrialName(defs[i], libtestNames)} = {Len(trials) + 1}
    BY <1>2, <1>3, <2>1
  <2>. QED  BY <1>1, <2>2 DEF TrialsOf
<1>. QED  BY <1>6, <1>7, <1>8, <1>9

\* When the walk is over: the labels and the filter of the test's trial.
LEMMA WalkedTrial ==
  ASSUME CollectInv, stage = "walk", stack = <<>>
  PROVE  LET def == defs[pos]
             labels == ResolveLabels(def, found)
             serial == EffectiveSerial(def, found)
             filters == {def.serial} \union {reg[f].serial : f \in Reachable(def.fixtures)}
         IN  /\ labels \in Seq(Label) /\ IsInjective(labels) /\ Range(labels) = EffectiveLabels(def)
             /\ serial \in Declared
             /\ \A ls \in Everything : Blocks(ToStorage(serial), ls) <=> \E f \in filters : Blocks(f, ls)
             /\ found.requires = UNION {reg[f].requires : f \in Reachable(def.fixtures)}
<1> DEFINE def == defs[pos]
           labels == ResolveLabels(def, found)
           serial == EffectiveSerial(def, found)
           filters == {def.serial} \union {reg[f].serial : f \in Reachable(def.fixtures)}
<1>1. InputsAreTyped /\ pos \in DOMAIN defs /\ def \in TestDef /\ def.serial \in Declared
  BY InputTypes DEF CollectInv, CollectTypeOK, InputsFit
<1>2. visited \cap DOMAIN reg = Reachable(def.fixtures)
  BY WalkEndsAtTheClosure
<1>3. /\ found.labels \in Seq(Label) /\ found.serial \in Declared
      /\ Range(found.labels) = UNION {Range(reg[f].labels) : f \in Reachable(def.fixtures)}
      /\ found.requires = UNION {reg[f].requires : f \in Reachable(def.fixtures)}
      /\ \A ls \in Everything :
            Blocks(found.serial, ls) <=> \E f \in Reachable(def.fixtures) : Blocks(reg[f].serial, ls)
  BY <1>2 DEF CollectInv, FoundIsVisited, CollectTypeOK
<1>4. labels \in Seq(Label) /\ IsInjective(labels) /\ Range(labels) = EffectiveLabels(def)
  <2>1. PICK own \in Seq(Label) : own = OwnLabels(def)
    BY <1>1, OwnLabelsType
  <2>2. PICK e \in Seq(Label) : e = <<>> /\ DOMAIN e = {}
    <3>1. <<>> \in Seq(Label) /\ DOMAIN <<>> = {}
      BY EmptySeq
    <3>. QED  BY <3>1, Zenon
  <2>3. PICK q : q = PushUnique(e, own)
    OBVIOUS
  <2>4. q \in Seq(Label) /\ Range(q) = Range(own) /\ IsInjective(q)
    <3>1. Range(e) = {} /\ IsInjective(e)
      BY <2>2 DEF Range, IsInjective
    <3>2. /\ PushUnique(e, own) \in Seq(Label) /\ Range(PushUnique(e, own)) = Range(e) \union Range(own)
          /\ IsInjective(e) => IsInjective(PushUnique(e, own))
      BY PushUniqueElements
    <3>. QED  BY <2>3, <3>1, <3>2
  <2>5. /\ PushUnique(q, found.labels) \in Seq(Label) /\ IsInjective(PushUnique(q, found.labels))
        /\ Range(PushUnique(q, found.labels)) = Range(own) \union Range(found.labels)
    BY <1>3, <2>4, PushUniqueElements
  <2>6. labels = PushUnique(q, found.labels)
    BY <2>1, <2>2, <2>3 DEF ResolveLabels
  <2>7. EffectiveLabels(def) = Range(own) \union Range(found.labels)
    BY <1>3, <2>1 DEF EffectiveLabels
  <2>. QED  BY <2>5, <2>6, <2>7
<1>5. /\ serial \in Declared
      /\ \A ls \in Everything : Blocks(ToStorage(serial), ls) <=> \E f \in filters : Blocks(f, ls)
  <2>1. serial = MergeSerialFilters(def.serial, found.serial)
    BY DEF EffectiveSerial
  <2>2. /\ serial \in Declared
        /\ \A ls \in Everything : Blocks(serial, ls) <=> Blocks(def.serial, ls) \/ Blocks(found.serial, ls)
    BY <1>1, <1>3, <2>1, MergeBlocksBoth
  <2>3. \A ls \in Everything : Blocks(ToStorage(serial), ls) <=> Blocks(serial, ls)
    BY <2>2, StorageBlocksTheSame
  <2>4. \A ls \in Everything :
           (\E f \in filters : Blocks(f, ls)) <=> Blocks(def.serial, ls) \/ Blocks(found.serial, ls)
    BY <1>3
  <2>. QED  BY <2>2, <2>3, <2>4
<1>. QED  BY <1>3, <1>4, <1>5

\* A step that collects the next test, with or without a trial, keeps the order.
LEMMA StepInOrder ==
  ASSUME CollectInv, UNCHANGED inputs, stage \in {"walk", "dynamic"}, Cursor \in DOMAIN TrialNames,
         Cursor' = Cursor + 1, stage' = (IF stage = "walk" THEN "inventory" ELSE stage), pos' = pos + 1,
         stage = "dynamic" => pos \in DOMAIN dynamic,
         /\ \A j \in DOMAIN trials' :
               \E k \in DOMAIN TrialNames' : k < Cursor' /\ trials'[j].name = TrialNames'[k]
         /\ \A j, k \in DOMAIN trials' : trials'[j].name = trials'[k].name => j = k
  PROVE  InOrder'
<1>1. /\ Len(defs) \in Nat /\ DOMAIN defs = 1 .. Len(defs) /\ Len(dynamic) \in Nat
      /\ DOMAIN dynamic = 1 .. Len(dynamic) /\ pos \in Nat
  BY InputTypes DEF CollectInv, CollectTypeOK
<1>2. defs' = defs /\ dynamic' = dynamic /\ TrialNames' = TrialNames /\ IsInjective(TrialNames)
  BY InputsStay DEF CollectInv, InOrder
<1>3. /\ stage = "walk" => pos' <= Len(defs) + 1
      /\ stage = "dynamic" => pos' <= Len(dynamic) + 1
  BY <1>1 DEF CollectInv, CollectTypeOK
<1>. QED  BY <1>2, <1>3 DEF InOrder

\* The end of an iteration of collect_inventory_tests: the test has the trial
\* the closure asks for, or none, and no other test's trials change.
LEMMA CollectInventoryTestKeeps ==
  ASSUME CollectInv, CollectInventoryTest
  PROVE  CollectInv'
<1> DEFINE def == defs[pos]
           labels == ResolveLabels(def, found)
           serial == EffectiveSerial(def, found)
           name == EffectiveTrialName(def, libtestNames)
           missing == ~def.ignore /\ Unmet(def) # {}
           t == Trial(name, labels, serial, def.ignore \/ missing)
<1>1. /\ UNCHANGED inputs /\ met' = met /\ stack' = stack /\ visited' = {} /\ found' = Nothing
      /\ stage = "walk" /\ stack = <<>> /\ stage' = "inventory" /\ pos' = pos + 1
      /\ reg' = reg /\ defs' = defs /\ filter' = filter /\ libtestNames' = libtestNames
  BY InputsStay DEF CollectInventoryTest
<1>2. /\ pos \in DOMAIN defs /\ def \in TestDef /\ def.ignore \in BOOLEAN
      /\ pos \in Nat \ {0} /\ DOMAIN defs = 1 .. Len(defs) /\ Len(defs) \in Nat
  BY <1>1, InputTypes DEF CollectInv, CollectTypeOK
<1>3. Cursor = pos /\ Cursor' = Cursor + 1 /\ Cursor \in DOMAIN TrialNames /\ TrialNames[Cursor] = name
  BY <1>1, <1>2, TrialNamesAre DEF CollectInv, Cursor
<1>4. /\ labels \in Seq(Label) /\ IsInjective(labels) /\ Range(labels) = EffectiveLabels(def)
      /\ serial \in Declared
      /\ \A ls \in Everything : Blocks(ToStorage(serial), ls) <=>
            \E f \in {def.serial} \union {reg[f].serial : f \in Reachable(def.fixtures)} : Blocks(f, ls)
  BY <1>1, WalkedTrial
<1>5. t \in TrialType /\ t.name = name /\ t.labels = labels /\ t.serial = serial
  <2>1. name \in Seq(Segment)
    BY <1>2, TrialNameType
  <2>2. (def.ignore \/ missing) \in BOOLEAN
    OBVIOUS
  <2>3. PICK b \in BOOLEAN : b = (def.ignore \/ missing)
    BY <2>2
  <2>4. PICK ls \in Seq(Label) : ls = labels
    BY <1>4
  <2>5. PICK sr \in Declared : sr = serial
    BY <1>4
  <2>6. t = [name |-> name, labels |-> ls, serial |-> sr, ignored |-> b]
    BY <2>3, <2>4, <2>5 DEF Trial
  <2> HIDE DEF t, name, labels, serial
  <2>. QED  BY <2>1, <2>3, <2>4, <2>5, <2>6 DEF TrialType
<1>6. Selected(labels) <=> filter = SerialNone \/ EffectiveLabels(def) \in filter.sat
  BY <1>4 DEF Selected, Matches
<1>7. InputsFit' /\ OnTheWay'
  BY <1>1, InputsStay DEF CollectInv, OnTheWay
<1>8. FoundIsVisited'
  <2>1. ~(SerialNone.kind = "expr") /\ SerialNone # SerialAll
    BY DEF SerialNone, SerialAll
  <2>. QED  BY <1>1, <2>1 DEF FoundIsVisited, Nothing, Range, IsInjective, Blocks
<1>9. Processed' = Processed \union {pos} /\ pos \notin Processed /\ Processed \subseteq DOMAIN defs
  BY <1>1, <1>2 DEF Processed
<1>10. \A i \in Processed : Inherits(i)
  BY DEF CollectInv, InheritanceIsTheClosure, Inherits
<1>11. /\ trials' \in Seq(TrialType) /\ metadata' \in Seq(EntryType)
       /\ unavailable' \subseteq {trials'[i].name : i \in DOMAIN trials'}
       => CollectTypeOK'
  <2>1. pos' \in Nat \ {0}
    BY <1>1, <1>2
  <2>2. SerialNone \in Declared
    BY DEF Declared
  <2>3. Nothing \in [labels : Seq(Label), serial : Declared, requires : SUBSET Requirement]
    BY <2>2 DEF Nothing
  <2>. QED  BY <1>1, <2>1, <2>3 DEF CollectInv, CollectTypeOK, EntryType
<1>12. CASE Selected(labels)
  <2>1. AddTrial(t) /\ unavailable' = IF missing THEN unavailable \union {name} ELSE unavailable
    BY <1>12 DEF CollectInventoryTest
  <2>2. \A j \in DOMAIN trials : trials[j].name # t.name
    BY <1>1, <1>3, <1>5, NameIsNew
  <2> HIDE DEF t
  <2>3. DumpIsComplete'
    BY <1>5, <2>1, <2>2, AddedDump
  <2>4. /\ trials' \in Seq(TrialType) /\ DOMAIN trials' = DOMAIN trials \union {Len(trials) + 1}
        /\ trials'[Len(trials) + 1] = t /\ Len(trials) + 1 \notin DOMAIN trials
        /\ \A j \in DOMAIN trials : trials'[j] = trials[j]
        /\ metadata' \in Seq(EntryType)
    BY <1>5, <2>1, Added
  <2>5. /\ \A j \in DOMAIN trials' :
              \E k \in DOMAIN TrialNames' : k < Cursor' /\ trials'[j].name = TrialNames'[k]
        /\ \A j, k \in DOMAIN trials' : trials'[j].name = trials'[k].name => j = k
        /\ \A i \in DOMAIN defs : i # Cursor => TrialsOf(i)' = TrialsOf(i)
        /\ \A i \in DOMAIN defs : i = Cursor => TrialsOf(i)' = {Len(trials) + 1}
    BY <1>1, <1>3, <1>5, <2>1, AddedNames
  <2>6. InOrder'
    BY <1>1, <1>3, <2>5, StepInOrder
  <2>7. CollectTypeOK'
    <3>1. unavailable \subseteq {trials[i].name : i \in DOMAIN trials}
      BY DEF CollectInv, CollectTypeOK
    <3>2. unavailable' \subseteq {trials'[i].name : i \in DOMAIN trials'}
      BY <1>5, <2>1, <2>4, <3>1
    <3>. QED  BY <1>11, <2>4, <3>2
  <2>8. ASSUME NEW i \in Processed' PROVE Inherits(i)'
    <3>1. CASE i # pos
      <4>1. i \in Processed /\ Inherits(i) /\ TrialsOf(i)' = TrialsOf(i)
        BY <1>3, <1>9, <1>10, <2>5, <2>8, <3>1
      <4>2. \A j \in TrialsOf(i) : trials'[j] = trials[j]
        BY <2>4 DEF TrialsOf
      <4>. QED  BY <1>1, <4>1, <4>2, InheritsStays
    <3>2. CASE i = pos
      <4>1. i \in DOMAIN defs /\ TrialsOf(i)' = {Len(trials) + 1}
        BY <1>2, <1>3, <2>5, <3>2
      <4>2. PICK d : d = defs[i]
        OBVIOUS
      <4>3. Reachable(d.fixtures)' = Reachable(d.fixtures) /\ EffectiveLabels(d)' = EffectiveLabels(d)
        BY <1>1, InputsStay
      <4>4. /\ EffectiveLabels(defs[i])' = EffectiveLabels(def)
            /\ Reachable(defs[i].fixtures)' = Reachable(def.fixtures)
        BY <1>1, <3>2, <4>2, <4>3
      <4>5. filter = SerialNone \/ EffectiveLabels(def) \in filter.sat
        BY <1>6, <1>12
      <4>6. TrialsOf(i)' # {} <=> filter' = SerialNone \/ EffectiveLabels(defs[i])' \in filter'.sat
        BY <1>1, <4>1, <4>4, <4>5
      <4>7. \A j, k \in TrialsOf(i)' : j = k
        BY <4>1
      <4>8. ASSUME NEW j \in TrialsOf(i)'
            PROVE  /\ Range(trials'[j].labels) = EffectiveLabels(defs[i])' /\ IsInjective(trials'[j].labels)
                   /\ LET filters == {defs'[i].serial} \union {reg'[f].serial :
                         f \in Reachable(defs[i].fixtures)'}
                      IN  \A ls \in SUBSET Label :
                             Blocks(ToStorage(trials'[j].serial), ls) <=> \E f \in filters : Blocks(f, ls)
        <5>1. trials'[j].labels = labels /\ trials'[j].serial = serial
          BY <1>5, <2>4, <4>1, <4>8
        <5>2. Range(trials'[j].labels) = EffectiveLabels(defs[i])' /\ IsInjective(trials'[j].labels)
          BY <1>4, <4>4, <5>1
        <5>3. {defs'[i].serial} \union {reg'[f].serial : f \in Reachable(defs[i].fixtures)'}
                = {def.serial} \union {reg[f].serial : f \in Reachable(def.fixtures)}
          BY <1>1, <3>2, <4>4
        <5>. QED  BY <1>4, <5>1, <5>2, <5>3 DEF Everything
      <4>. QED  BY <4>6, <4>7, <4>8 DEF Inherits
    <3>. QED  BY <3>1, <3>2
  <2>9. InheritanceIsTheClosure'
    BY <2>8 DEF InheritanceIsTheClosure, Inherits
  <2>. QED  BY <1>7, <1>8, <2>3, <2>6, <2>7, <2>9 DEF CollectInv
<1>13. CASE ~Selected(labels)
  <2>1. UNCHANGED <<trials, metadata, unavailable>>
    BY <1>13 DEF CollectInventoryTest
  <2>2. DumpIsComplete'
    BY <2>1 DEF CollectInv, DumpIsComplete, Runnable
  <2>3. CollectTypeOK'
    BY <1>11, <2>1 DEF CollectInv, CollectTypeOK, EntryType
  <2>4. InOrder'
    <3>1. /\ TrialNames' = TrialNames /\ DOMAIN TrialNames \subseteq Nat
      BY <1>1, InputsStay, TrialNamesAre, InputTypes DEF CollectInv
    <3>2. \A k \in DOMAIN TrialNames : k < Cursor => k < Cursor'
      BY <1>3, <3>1
    <3>3. /\ \A j \in DOMAIN trials' :
                \E k \in DOMAIN TrialNames' : k < Cursor' /\ trials'[j].name = TrialNames'[k]
          /\ \A j, k \in DOMAIN trials' : trials'[j].name = trials'[k].name => j = k
      BY <2>1, <3>1, <3>2 DEF CollectInv, InOrder
    <3>. QED  BY <1>1, <1>3, <3>3, StepInOrder
  <2>5. TrialsOf(pos) = {}
    BY <1>1, <1>3, NameIsNew DEF TrialsOf
  <2>6. \A i : TrialsOf(i)' = TrialsOf(i)
    BY <1>1, <2>1 DEF TrialsOf
  <2>7. Inherits(pos)
    BY <1>6, <1>13, <2>5 DEF Inherits
  <2>8. ASSUME NEW i \in Processed' PROVE Inherits(i)'
    <3>1. Inherits(i)
      BY <1>9, <1>10, <2>7, <2>8
    <3>. QED  BY <1>1, <2>1, <2>6, <3>1, InheritsStays
  <2>9. InheritanceIsTheClosure'
    BY <2>8 DEF InheritanceIsTheClosure, Inherits
  <2>. QED  BY <1>7, <1>8, <2>2, <2>3, <2>4, <2>9 DEF CollectInv
<1>. QED  BY <1>12, <1>13

\* An iteration of collect_dynamic_tests changes no inventory test's trials: the
\* names are distinct.
LEMMA CollectDynamicTestKeeps ==
  ASSUME CollectInv, CollectDynamicTest
  PROVE  CollectInv'
<1> DEFINE d == dynamic[pos]
           t == Trial(d.name, d.labels, d.serial, d.ignored)
<1>1. /\ UNCHANGED inputs /\ UNCHANGED <<met, stage, stack, visited, found, unavailable>>
      /\ stage = "dynamic" /\ pos \in DOMAIN dynamic /\ pos' = pos + 1
      /\ reg' = reg /\ defs' = defs /\ dynamic' = dynamic
  BY InputsStay DEF CollectDynamicTest, walking
<1>2. /\ d \in DynTest /\ pos \in Nat \ {0} /\ Len(defs) \in Nat /\ DOMAIN defs = 1 .. Len(defs)
      /\ DOMAIN dynamic = 1 .. Len(dynamic) /\ Len(dynamic) \in Nat
  BY <1>1, InputTypes DEF CollectInv, CollectTypeOK
<1>3. /\ Cursor = Len(defs) + pos /\ Cursor' = Cursor + 1 /\ Cursor \in DOMAIN TrialNames
      /\ TrialNames[Cursor] = d.name /\ Cursor \notin DOMAIN defs
  <2>1. Len(defs) + pos \in DOMAIN TrialNames /\ TrialNames[Len(defs) + pos] = d.name
    BY <1>1, TrialNamesAre DEF CollectInv
  <2>2. Cursor = Len(defs) + pos /\ Cursor' = Len(defs) + (pos + 1)
    BY <1>1 DEF Cursor
  <2>. QED  BY <1>2, <2>1, <2>2
<1>4. t \in TrialType /\ t.name = d.name
  BY <1>2 DEF DynTest, TrialType, Trial
<1>5. InputsFit' /\ OnTheWay' /\ FoundIsVisited'
  BY <1>1, InputsStay DEF CollectInv, OnTheWay, FoundIsVisited
<1>6. Processed' = Processed /\ Processed \subseteq DOMAIN defs
  BY <1>1 DEF Processed
<1>7. \A i \in Processed : Inherits(i)
  BY DEF CollectInv, InheritanceIsTheClosure, Inherits
<1>8. /\ trials' \in Seq(TrialType) /\ metadata' \in Seq(EntryType)
      /\ unavailable' \subseteq {trials'[i].name : i \in DOMAIN trials'}
      => CollectTypeOK'
  <2>1. pos' \in Nat \ {0}
    BY <1>1, <1>2
  <2>. QED  BY <1>1, <2>1 DEF CollectInv, CollectTypeOK, EntryType
<1>9. CASE Selected(d.labels)
  <2>1. AddTrial(t)
    BY <1>9 DEF CollectDynamicTest
  <2>2. \A j \in DOMAIN trials : trials[j].name # t.name
    BY <1>1, <1>3, <1>4, NameIsNew
  <2> HIDE DEF t
  <2>3. DumpIsComplete'
    BY <1>4, <2>1, <2>2, AddedDump
  <2>4. /\ trials' \in Seq(TrialType) /\ DOMAIN trials' = DOMAIN trials \union {Len(trials) + 1}
        /\ \A j \in DOMAIN trials : trials'[j] = trials[j]
        /\ metadata' \in Seq(EntryType)
    BY <1>4, <2>1, Added
  <2>5. /\ \A j \in DOMAIN trials' :
              \E k \in DOMAIN TrialNames' : k < Cursor' /\ trials'[j].name = TrialNames'[k]
        /\ \A j, k \in DOMAIN trials' : trials'[j].name = trials'[k].name => j = k
        /\ \A i \in DOMAIN defs : i # Cursor => TrialsOf(i)' = TrialsOf(i)
    BY <1>1, <1>3, <1>4, <2>1, AddedNames
  <2>6. InOrder'
    BY <1>1, <1>3, <2>5, StepInOrder
  <2>7. CollectTypeOK'
    <3>1. unavailable \subseteq {trials[i].name : i \in DOMAIN trials}
      BY DEF CollectInv, CollectTypeOK
    <3>2. unavailable' \subseteq {trials'[i].name : i \in DOMAIN trials'}
      BY <1>1, <2>4, <3>1
    <3>. QED  BY <1>8, <2>4, <3>2
  <2>8. ASSUME NEW i \in Processed' PROVE Inherits(i)'
    <3>1. Inherits(i) /\ TrialsOf(i)' = TrialsOf(i)
      BY <1>3, <1>6, <1>7, <2>5, <2>8
    <3>2. \A j \in TrialsOf(i) : trials'[j] = trials[j]
      BY <2>4 DEF TrialsOf
    <3>. QED  BY <1>1, <3>1, <3>2, InheritsStays
  <2>9. InheritanceIsTheClosure'
    BY <2>8 DEF InheritanceIsTheClosure, Inherits
  <2>. QED  BY <1>5, <2>3, <2>6, <2>7, <2>9 DEF CollectInv
<1>10. CASE ~Selected(d.labels)
  <2>1. UNCHANGED <<trials, metadata>>
    BY <1>10 DEF CollectDynamicTest
  <2>2. DumpIsComplete' /\ InheritanceIsTheClosure'
    BY <1>1, <1>6, <2>1, NothingCollected
  <2>3. CollectTypeOK'
    BY <1>1, <1>8, <2>1 DEF CollectInv, CollectTypeOK, EntryType
  <2>4. InOrder'
    <3>1. /\ TrialNames' = TrialNames /\ DOMAIN TrialNames \subseteq Nat
      BY <1>1, InputsStay, TrialNamesAre, InputTypes DEF CollectInv
    <3>2. \A k \in DOMAIN TrialNames : k < Cursor => k < Cursor'
      BY <1>3, <3>1
    <3>3. /\ \A j \in DOMAIN trials' :
                \E k \in DOMAIN TrialNames' : k < Cursor' /\ trials'[j].name = TrialNames'[k]
          /\ \A j, k \in DOMAIN trials' : trials'[j].name = trials'[k].name => j = k
      BY <2>1, <3>1, <3>2 DEF CollectInv, InOrder
    <3>. QED  BY <1>1, <1>3, <3>3, StepInOrder
  <2>. QED  BY <1>5, <2>2, <2>3, <2>4 DEF CollectInv
<1>. QED  BY <1>9, <1>10

-----------------------------------------------------------------------------
(* Theorems                                                                *)

LEMMA StutterKeeps ==
  ASSUME CollectInv, UNCHANGED collectVars
  PROVE  CollectInv'
<1>1. UNCHANGED <<inputs, met, stage, pos, stack, visited, found, trials, metadata, unavailable>>
  BY DEF collectVars, walking
<1>2. Processed' = Processed
  BY <1>1, InputsStay DEF Processed
<1>3. InputsFit' /\ DumpIsComplete' /\ InheritanceIsTheClosure'
  BY <1>1, <1>2, NothingCollected
<1>4. CollectTypeOK'
  BY <1>1, InputsStay DEF CollectInv, CollectTypeOK
<1>5. OnTheWay' /\ FoundIsVisited'
  BY <1>1, InputsStay DEF CollectInv, OnTheWay, FoundIsVisited
<1>6. InOrder'
  BY <1>1, InputsStay DEF CollectInv, InOrder, Cursor
<1>. QED  BY <1>3, <1>4, <1>5, <1>6 DEF CollectInv

\* For every program, every fixture registry and every SKULD_LABELS, whatever
\* the requirements do: the walk is always on its way to the closure, and
\* trials, dump and report agree with the tests done so far.
THEOREM CollectKeepsItsInvariant == CollectSpec => []CollectInv
<1>1. CollectInit => CollectInv
  BY CollectInitHolds
<1>2. CollectInv /\ [CollectNext]_collectVars => CollectInv'
  <2>1. SUFFICES ASSUME CollectInv, [CollectNext]_collectVars PROVE CollectInv'
    OBVIOUS
  <2>2. CASE ChangeWhileCollecting
    BY <2>1, <2>2, ChangeWhileCollectingKeeps
  <2>3. CASE ValidateTrialNames
    BY <2>1, <2>3, ValidateKeeps
  <2>4. CASE StartWalk
    BY <2>1, <2>4, StartWalkKeeps
  <2>5. CASE Walk
    BY <2>1, <2>5, WalkKeeps
  <2>6. CASE CollectInventoryTest
    BY <2>1, <2>6, CollectInventoryTestKeeps
  <2>7. CASE InventoryDone
    BY <2>1, <2>7, InventoryDoneKeeps
  <2>8. CASE CollectDynamicTest
    BY <2>1, <2>8, CollectDynamicTestKeeps
  <2>9. CASE DynamicDone
    BY <2>1, <2>9, DynamicDoneKeeps
  <2>10. CASE CollectFinished \/ UNCHANGED collectVars
    BY <2>1, <2>10, StutterKeeps DEF CollectFinished
  <2>. QED  BY <2>1, <2>2, <2>3, <2>4, <2>5, <2>6, <2>7, <2>8, <2>9, <2>10 DEF CollectNext
<1>. QED  BY <1>1, <1>2, PTL DEF CollectSpec

\* collect_inventory_tests selects by, and gives each trial, exactly the labels
\* and the exclusions of the test and of all fixtures it reaches.  That does not
\* rest on the graph being acyclic or its dependencies registered.
THEOREM TrialsInheritTheClosure == CollectSpec => []InheritanceIsTheClosure
<1>1. CollectInv => InheritanceIsTheClosure
  BY DEF CollectInv
<1>. QED  BY <1>1, CollectKeepsItsInvariant, PTL

\* The dump agrees with can_start in every state of the invariant.
LEMMA DumpPredicts ==
  ASSUME CollectInv
  PROVE  DumpPredictsCoordination
<1>1. CollectTypeOK /\ DumpIsComplete
  BY DEF CollectInv
<1>2. \A j \in DOMAIN trials : trials[j] \in TrialType /\ trials[j].serial \in Declared
  <2>1. \A j \in DOMAIN trials : trials[j] \in TrialType
    BY <1>1, LenProperties, ElementOfSeq DEF CollectTypeOK
  <2>. QED  BY <2>1 DEF TrialType
<1>3. \A u : /\ MetadataOf(u).name = u.name /\ MetadataOf(u).labels = Range(u.labels)
             /\ MetadataOf(u).serial = ToStorage(u.serial)
  BY DEF MetadataOf
<1>4. \A j, k \in DOMAIN trials : trials[j].name = trials[k].name => j = k
  BY DEF CollectInv, InOrder
<1>5. \A m \in DOMAIN metadata : \E j \in Runnable : m \in EntriesOf(j)
  BY <1>1, <1>3 DEF DumpIsComplete, EntriesOf
<1>6. ASSUME NEW j \in Runnable, NEW m \in EntriesOf(j) PROVE metadata[m] = MetadataOf(trials[j])
  <2>1. m \in DOMAIN metadata /\ metadata[m].name = trials[j].name /\ j \in DOMAIN trials
    BY <1>6 DEF EntriesOf, Runnable
  <2>2. PICK k \in Runnable : metadata[m] = MetadataOf(trials[k])
    BY <1>1, <2>1 DEF DumpIsComplete
  <2>3. k = j
    BY <1>3, <1>4, <2>1, <2>2 DEF Runnable
  <2>. QED  BY <2>2, <2>3
<1>7. \A j \in Runnable : \E m \in EntriesOf(j) : EntriesOf(j) = {m}
  <2>1. SUFFICES ASSUME NEW j \in Runnable PROVE \E m \in EntriesOf(j) : EntriesOf(j) = {m}
    OBVIOUS
  <2>2. PICK m \in DOMAIN metadata : metadata[m] = MetadataOf(trials[j])
    BY <1>1 DEF DumpIsComplete
  <2>3. m \in EntriesOf(j)
    BY <1>3, <2>2 DEF EntriesOf
  <2>4. \A n \in EntriesOf(j) : n = m
    BY <1>1, <2>3 DEF EntriesOf, DumpIsComplete
  <2>. QED  BY <2>3, <2>4
<1>8. ASSUME NEW j \in Runnable, NEW k \in Runnable, NEW m \in EntriesOf(j), NEW n \in EntriesOf(k)
      PROVE  Conflicts(metadata[m], metadata[n])
                <=> ~CanStart({RowOf(trials[j])}, RowOf(trials[k]).labels, RowOf(trials[k]).serial)
  <2>1. metadata[m] = MetadataOf(trials[j]) /\ metadata[n] = MetadataOf(trials[k])
    BY <1>6
  <2>2. PICK f \in Stored : f = ToStorage(trials[j].serial)
    BY <1>2, StorageBlocksTheSame DEF Runnable
  <2>3. PICK g \in Stored : g = ToStorage(trials[k].serial)
    BY <1>2, StorageBlocksTheSame DEF Runnable
  <2>4. PICK ls, ms : ls = Range(trials[j].labels) /\ ms = Range(trials[k].labels)
    OBVIOUS
  <2>5. PICK r : r = [labels |-> ls, serial |-> f]
    OBVIOUS
  <2>6. RowOf(trials[j]) = r /\ RowOf(trials[k]).labels = ms /\ RowOf(trials[k]).serial = g
    BY <2>2, <2>3, <2>4, <2>5 DEF RowOf
  <2>7. /\ metadata[m].labels = ls /\ metadata[m].serial = f
        /\ metadata[n].labels = ms /\ metadata[n].serial = g
    BY <1>3, <2>1, <2>2, <2>3, <2>4
  <2>8. Conflicts(metadata[m], metadata[n]) <=> ~CanStart({r}, ms, g)
    BY <2>5, <2>7, CanStartIsNoConflict
  <2>. QED  BY <2>6, <2>8
<1>. QED  BY <1>1, <1>5, <1>7, <1>8 DEF DumpPredictsCoordination

\* The metadata that --list dumps has one entry for each trial that will run, and
\* cargo-skuld's conflict test on two entries says what can_start will say.
THEOREM DumpPredictsTheTable == CollectSpec => []DumpPredictsCoordination
<1>1. CollectInv => DumpPredictsCoordination
  BY DumpPredicts
<1>. QED  BY <1>1, CollectKeepsItsInvariant, PTL

\* The declarations that count for a test: its own and those of its fixtures.
DeclaredFilters(i) == {defs[i].serial} \union {reg[f].serial : f \in Reachable(defs[i].fixtures)}

\* Two tests exclude each other when a declaration of one matches the other.
Excluded(i, k) ==
  \/ \E f \in DeclaredFilters(i) : Blocks(f, EffectiveLabels(defs[k]))
  \/ \E f \in DeclaredFilters(k) : Blocks(f, EffectiveLabels(defs[i]))

\* What can_start answers for the row of one trial and another trial is what the
\* declarations of their tests say.
RowsFollowDeclarations ==
  \A i, k \in Processed : \A j \in TrialsOf(i), m \in TrialsOf(k) :
     Excluded(i, k)
       <=> ~CanStart({RowOf(trials[j])}, RowOf(trials[m]).labels, RowOf(trials[m]).serial)

\* Merging, to_storage and can_start together decide by what was declared: for
\* every program, a running trial keeps another from starting exactly when a
\* serial declaration of one of the tests, or of a fixture it reaches, matches
\* the other's own and inherited labels.
THEOREM DeclarationsDecide == CollectSpec => []RowsFollowDeclarations
<1>1. ASSUME CollectInv PROVE RowsFollowDeclarations
  <2>1. SUFFICES ASSUME NEW i \in Processed, NEW k \in Processed,
                        NEW j \in TrialsOf(i), NEW m \in TrialsOf(k)
                 PROVE  Excluded(i, k) <=> ~CanStart({RowOf(trials[j])}, RowOf(trials[m]).labels,
                                                     RowOf(trials[m]).serial)
    BY DEF RowsFollowDeclarations
  <2>2. PICK ls, ms, f, g : /\ ls = Range(trials[j].labels) /\ ms = Range(trials[m].labels)
                            /\ f = ToStorage(trials[j].serial) /\ g = ToStorage(trials[m].serial)
    OBVIOUS
  <2>3. InheritanceIsTheClosure
    BY <1>1 DEF CollectInv
  <2>4. /\ ls = EffectiveLabels(defs[i])
        /\ \A labels \in SUBSET Label :
              Blocks(f, labels) <=> \E h \in DeclaredFilters(i) : Blocks(h, labels)
    BY <2>2, <2>3 DEF InheritanceIsTheClosure, DeclaredFilters
  <2>5. /\ ms = EffectiveLabels(defs[k])
        /\ \A labels \in SUBSET Label :
              Blocks(g, labels) <=> \E h \in DeclaredFilters(k) : Blocks(h, labels)
    BY <2>2, <2>3 DEF InheritanceIsTheClosure, DeclaredFilters
  <2>6. j \in DOMAIN trials /\ m \in DOMAIN trials /\ CollectTypeOK
    BY <1>1 DEF TrialsOf, CollectInv
  <2>7. trials[j] \in TrialType /\ trials[m] \in TrialType
    BY <2>6, LenProperties, ElementOfSeq DEF CollectTypeOK
  <2>8. trials[j].labels \in Seq(Label) /\ trials[m].labels \in Seq(Label)
    BY <2>7 DEF TrialType
  <2>9. ls \in SUBSET Label /\ ms \in SUBSET Label
    BY <2>2, <2>8, LenProperties, ElementOfSeq DEF Range
  <2>10. RowOf(trials[j]) = [labels |-> ls, serial |-> f]
         /\ RowOf(trials[m]).labels = ms /\ RowOf(trials[m]).serial = g
    BY <2>2 DEF RowOf
  <2>11. Excluded(i, k) <=> Blocks(f, ms) \/ Blocks(g, ls)
    BY <2>4, <2>5, <2>9 DEF Excluded
  <2>12. PICK r : r = [labels |-> ls, serial |-> f]
    OBVIOUS
  <2>13. r.labels = ls /\ r.serial = f
    BY <2>12
  <2>14. CanStart({r}, ms, g) <=> ~Blocks(f, ms) /\ ~Blocks(g, ls)
    BY <2>13 DEF CanStart, Blocks
  <2>. QED  BY <2>10, <2>11, <2>12, <2>14
<1>. QED  BY <1>1, CollectKeepsItsInvariant, PTL

\* run_tests makes no trial runnable while a requirement of the test, or of a
\* fixture it reaches through any chain, is unmet.
THEOREM RunnableTrialsWereAvailable == CollectSpec => RunnableWasAvailable
<1>1. ASSUME CollectInv, [CollectNext]_collectVars, NEW i \in DOMAIN defs,
             stage = "walk", pos = i, Len(metadata') > Len(metadata)
      PROVE  defs[i].requires \union UNION {reg[f].requires : f \in Reachable(defs[i].fixtures)} \subseteq met
  <2>1. Len(metadata) \in Nat /\ metadata' # metadata
    BY <1>1, LenProperties DEF CollectInv, CollectTypeOK
  <2>2. CollectInventoryTest
    BY <1>1, <2>1 DEF CollectNext, collectVars, ChangeWhileCollecting, ValidateTrialNames,
        StartWalk, Walk, InventoryDone,
                      CollectDynamicTest, DynamicDone, CollectFinished
  <2> DEFINE def == defs[pos]
             missing == ~def.ignore /\ Unmet(def) # {}
             t == Trial(EffectiveTrialName(def, libtestNames), ResolveLabels(def, found),
                        EffectiveSerial(def, found), def.ignore \/ missing)
  <2>3. AddTrial(t)
    BY <2>1, <2>2 DEF CollectInventoryTest
  <2>4. ~t.ignored
    BY <2>1, <2>3 DEF AddTrial
  <2>5. Unmet(def) = {}
    BY <2>4 DEF Trial
  <2>6. found.requires = UNION {reg[f].requires : f \in Reachable(def.fixtures)}
    BY <1>1, <2>2, WalkedTrial DEF CollectInventoryTest
  <2>. QED  BY <1>1, <2>5, <2>6 DEF Unmet
<1>2. CollectInv /\ [CollectNext]_collectVars =>
        [\A i \in DOMAIN defs :
           stage = "walk" /\ pos = i /\ Len(metadata') > Len(metadata)
             => defs[i].requires \union UNION {reg[f].requires : f \in Reachable(defs[i].fixtures)}
                    \subseteq met]_collectVars
  BY <1>1
<1>. QED  BY <1>2, CollectKeepsItsInvariant, PTL DEF CollectSpec, RunnableWasAvailable
-----------------------------------------------------------------------------
(* Nextest: the conflict test and can_start.                               *)

\* to_storage returns a stored form for everything a test may declare.
LEMMA StoredForm ==
  ASSUME NEW f \in Declared
  PROVE  ToStorage(f) \in Stored
<1>1. CASE f \in {SerialNone, SerialAll}
  BY <1>1 DEF ToStorage, Stored
<1>2. CASE f \notin {SerialNone, SerialAll}
  <2>1. PICK S \in SUBSET Everything : f = Expr(S)
    BY <1>2 DEF Declared
  <2>2. f.sat = S
    BY <2>1 DEF Expr
  <2>. QED
    BY <1>2, <2>1, <2>2 DEF ToStorage, Stored, IsTautology, IsContradiction
<1>. QED  BY <1>1, <1>2

\* A stored filter that is no sentinel is an expression, and a sentinel is not.
LEMMA StoredKinds ==
  ASSUME NEW f \in Stored
  PROVE  /\ f.kind = "expr" <=> f \notin {SerialNone, SerialAll}
         /\ SerialNone # SerialAll
<1>1. SerialNone.kind = "none" /\ SerialAll.kind = "all"
  BY DEF SerialNone, SerialAll
<1>2. CASE f \in {SerialNone, SerialAll}
  BY <1>1, <1>2
<1>3. CASE f \notin {SerialNone, SerialAll}
  <2>1. PICK S \in SUBSET Everything : f = Expr(S)
    BY <1>3 DEF Stored
  <2>. QED  BY <1>1, <1>3, <2>1 DEF Expr
<1>. QED  BY <1>2, <1>3

\* A test that does not conflict with another may start while that one runs.
LEMMA NoConflictMayStart ==
  ASSUME NEW t \in Test, NEW u \in Test, ~ConflictIn(t, u)
  PROVE  CanStart({Row(u)}, Row(t).labels, Row(t).serial)
<1>1. SerialOf[t] \in Declared /\ SerialOf[u] \in Declared
  BY NextestAssumption
<1>2. Row(t).serial \in Stored /\ Row(u).serial \in Stored
  BY <1>1, StoredForm DEF Row
<1>3. ~Conflicts(Row(t), Row(u))
  BY DEF ConflictIn
<1>4. CASE Row(t).serial = SerialNone
  BY <1>2, <1>3, <1>4, StoredKinds DEF CanStart, Conflicts
<1>5. CASE Row(t).serial # SerialNone
  BY <1>2, <1>3, <1>5, StoredKinds DEF CanStart, Conflicts
<1>. QED  BY <1>4, <1>5

\* The conflict relation has no direction.
LEMMA ConflictsBothWays ==
  ASSUME NEW t, NEW u
  PROVE  ConflictIn(t, u) <=> ConflictIn(u, t)
BY DEF ConflictIn, Conflicts

-----------------------------------------------------------------------------
(* The classes of the union-find.                                          *)

\* The classes are disjoint and hold every listed test ...
Covering ==
  /\ \A t \in listed : \E c \in partition : t \in c
  /\ \A c, d \in partition : c = d \/ c \cap d = {}

\* ... each is connected by conflicts ...
Linked == \A c \in partition : Connected(c)

\* ... and two conflicting tests are in one class, or are yet to be compared.
Compared ==
  \A t, u \in listed : t # u /\ ConflictIn(t, u) =>
    (\E c \in partition : {t, u} \subseteq c) \/ <<t, u>> \in left \/ <<u, t>> \in left

(***************************************************************************)
(* The inductive invariant.  The loops of build_groups need what the       *)
(* finished groups say together with what is left to compare; a group that *)
(* is running needs that at most one of its tests is active, which nextest *)
(* keeps and which says nothing about conflicts.                           *)
(***************************************************************************)
IInv ==
  /\ TypeOK
  /\ phase # "probe" => Covering /\ Linked /\ Compared
  /\ phase \in {"list", "run", "over"} =>
       left = {} /\ groups = {c \in partition : Cardinality(c) > 1}
  /\ phase \in {"probe", "group"} => groups = {}
  /\ phase \in {"probe", "group", "list"} => Active = {}
  /\ \A g \in groups : \A t, u \in g \cap Active : t = u

\* A union of two connected classes with a conflict between them is connected.
LEMMA UnionIsConnected ==
  ASSUME NEW C, NEW D, NEW t \in C, NEW u \in D,
         Connected(C), Connected(D), ConflictIn(t, u)
  PROVE  Connected(C \union D)
<1>1. SUFFICES ASSUME NEW S \in (SUBSET (C \union D)) \ {{}, C \union D}
               PROVE  \E x \in S, y \in (C \union D) \ S : ConflictIn(x, y)
  BY DEF Connected
<1>2. CASE S \cap C \notin {{}, C}
  <2>1. S \cap C \in (SUBSET C) \ {{}, C}
    BY <1>2
  <2>2. PICK x \in S \cap C, y \in C \ (S \cap C) : ConflictIn(x, y)
    BY <2>1 DEF Connected
  <2>. QED  BY <2>2
<1>3. CASE S \cap D \notin {{}, D}
  <2>1. S \cap D \in (SUBSET D) \ {{}, D}
    BY <1>3
  <2>2. PICK x \in S \cap D, y \in D \ (S \cap D) : ConflictIn(x, y)
    BY <2>1 DEF Connected
  <2>. QED  BY <2>2
<1>4. CASE S \cap C \in {{}, C} /\ S \cap D \in {{}, D}
  <2>1. \/ t \in S /\ u \notin S
        \/ u \in S /\ t \notin S
    <3>1. CASE t \in S /\ u \in S
      <4>1. C \subseteq S /\ D \subseteq S
        BY <1>4, <3>1
      <4>. QED  BY <1>1, <4>1
    <3>2. CASE t \notin S /\ u \notin S
      <4>1. S \cap C = {} /\ S \cap D = {}
        BY <1>4, <3>2
      <4>. QED  BY <1>1, <4>1
    <3>. QED  BY <3>1, <3>2
  <2>2. ConflictIn(u, t)
    BY ConflictsBothWays
  <2>. QED  BY <2>1, <2>2
<1>. QED  BY <1>2, <1>3, <1>4

\* Union replaces the two classes by their union and touches no other.
LEMMA UnionFacts ==
  ASSUME Covering, NEW t \in listed, NEW u \in listed
  PROVE  \E C, D \in partition :
           /\ t \in C /\ u \in D
           /\ Union(t, u) = (partition \ {C, D}) \union {C \union D}
<1>1. PICK C \in partition : t \in C
  BY DEF Covering
<1>2. PICK D \in partition : u \in D
  BY DEF Covering
<1>3. {c \in partition : t \in c \/ u \in c} = {C, D}
  BY <1>1, <1>2 DEF Covering
<1>4. UNION {C, D} = C \union D
  OBVIOUS
<1>5. Union(t, u) = (partition \ {C, D}) \union {C \union D}
  BY <1>3, <1>4 DEF Union
<1>. QED  BY <1>1, <1>2, <1>5

\* A class with two tests in it becomes a group.
LEMMA TwoAreMany ==
  ASSUME NEW C \in SUBSET Test, NEW t \in C, NEW u \in C, t # u
  PROVE  Cardinality(C) > 1
<1>1. IsFiniteSet(C)
  BY NextestAssumption, FS_Subset
<1>2. Cardinality(C) \in Nat
  BY <1>1, FS_CardinalityType
<1>3. Cardinality(C) # 0
  BY <1>1, FS_EmptySet
<1>4. Cardinality(C) # 1
  BY <1>1, FS_Singleton
<1>. QED  BY <1>2, <1>3, <1>4

-----------------------------------------------------------------------------
(* Every step keeps the invariant.                                         *)

LEMMA InitHolds == Init => IInv
<1>. SUFFICES ASSUME Init PROVE IInv
  OBVIOUS
<1>1. TypeOK
  BY DEF Init, TypeOK
<1>2. Active = {}
  BY DEF Init, Active
<1>. QED  BY <1>1, <1>2 DEF Init, IInv

LEMMA ProbeKeeps ==
  ASSUME IInv, NEW b \in Binary, ProbeBinary(b) \/ SkipBinary(b)
  PROVE  IInv'
<1>1. /\ phase = "probe" /\ phase' = "probe"
      /\ probed' = probed \union {b} /\ listed \subseteq listed' /\ listed' \subseteq Test
      /\ UNCHANGED <<runIgnored, met, partition, left, groups, state>>
  BY DEF ProbeBinary, SkipBinary, IInv, TypeOK
<1>2. TypeOK'
  <2>1. TypeOK
    BY DEF IInv
  <2>2. groups' = {}
    BY <1>1 DEF IInv
  <2>. QED  BY <1>1, <2>1, <2>2 DEF TypeOK
<1>3. Active' = Active
  BY <1>1 DEF Active
<1>. QED  BY <1>1, <1>2, <1>3 DEF IInv

LEMMA StartGroupingKeeps ==
  ASSUME IInv, StartGrouping
  PROVE  IInv'
<1>1. /\ phase = "probe" /\ phase' = "group" /\ partition' = {{t} : t \in listed}
      /\ left' = {p \in listed \X listed : Pos[p[1]] < Pos[p[2]]}
      /\ UNCHANGED <<runIgnored, met, probed, listed, groups, state>>
  BY DEF StartGrouping
<1>2. TypeOK'
  BY <1>1 DEF IInv, TypeOK
<1>3. Active' = {} /\ groups' = {}
  BY <1>1 DEF IInv, Active
<1>4. Covering'
  BY <1>1, ZenonT(40) DEF Covering
<1>5. Linked'
  <2>1. SUFFICES ASSUME NEW t \in listed PROVE Connected({t})'
    BY <1>1 DEF Linked
  <2>2. (SUBSET {t}) \ {{}, {t}} = {}
    OBVIOUS
  <2>. QED  BY <2>2 DEF Connected
<1>6. Compared'
  <2>1. SUFFICES ASSUME NEW t \in listed, NEW u \in listed, t # u
                 PROVE  <<t, u>> \in left' \/ <<u, t>> \in left'
    BY <1>1 DEF Compared
  <2>2. t \in Test /\ u \in Test
    BY DEF IInv, TypeOK
  <2>3. Pos[t] \in Nat /\ Pos[u] \in Nat /\ Pos[t] # Pos[u]
    BY <2>1, <2>2, NextestAssumption
  <2>4. Pos[t] < Pos[u] \/ Pos[u] < Pos[t]
    BY <2>3
  <2>. QED  BY <1>1, <2>4
<1>. QED  BY <1>1, <1>2, <1>3, <1>4, <1>5, <1>6 DEF IInv

LEMMA ComparePairKeeps ==
  ASSUME IInv, NEW p \in left, ComparePair(p)
  PROVE  IInv'
<1>1. /\ phase = "group" /\ phase' = "group" /\ left' = left \ {p}
      /\ partition' = IF ConflictIn(p[1], p[2]) THEN Union(p[1], p[2]) ELSE partition
      /\ UNCHANGED <<runIgnored, met, probed, listed, groups, state>>
  BY DEF ComparePair, ConflictIn
<1>2. Covering /\ Linked /\ Compared /\ TypeOK /\ Active = {} /\ groups = {}
  BY <1>1 DEF IInv
<1>3. PICK t \in listed, u \in listed : p = <<t, u>>
  BY <1>2 DEF TypeOK
<1>4. Active' = {} /\ groups' = {}
  BY <1>1, <1>2 DEF Active
<1>5. CASE ConflictIn(t, u)
  <2>1. PICK C \in partition, D \in partition :
          /\ t \in C /\ u \in D
          /\ Union(t, u) = (partition \ {C, D}) \union {C \union D}
    BY <1>2, UnionFacts
  <2>2. partition' = (partition \ {C, D}) \union {C \union D}
    BY <1>1, <1>3, <1>5, <2>1
  <2>3. \A c \in partition : \E d \in partition' : c \subseteq d
    BY <2>2, ZenonT(40)
  <2>4. TypeOK'
    BY <1>1, <1>2, <2>2 DEF TypeOK
  <2>5. Covering'
    <3>1. \A x \in listed : \E d \in partition' : x \in d
      BY <1>2, <2>3 DEF Covering
    <3>2. \A c \in partition \ {C, D} : c \cap (C \union D) = {}
      BY <1>2, <2>1 DEF Covering
    <3>3. \A c, d \in partition' : c = d \/ c \cap d = {}
      BY <1>2, <2>2, <3>2 DEF Covering
    <3>. QED  BY <1>1, <3>1, <3>3 DEF Covering
  <2>6. Linked'
    <3>1. Connected(C \union D)
      BY <1>2, <1>5, <2>1, UnionIsConnected DEF Linked
    <3>2. \A c \in partition' : Connected(c)
      BY <1>2, <2>2, <3>1 DEF Linked
    <3>. QED  BY <3>2 DEF Linked, Connected
  <2>7. Compared'
    <3>1. C \union D \in partition' /\ {t, u} \subseteq C \union D
      BY <2>1, <2>2
    <3>2. SUFFICES ASSUME NEW x \in listed, NEW y \in listed, x # y, ConflictIn(x, y)
                   PROVE  \/ \E c \in partition' : {x, y} \subseteq c
                          \/ <<x, y>> \in left' \/ <<y, x>> \in left'
      BY <1>1 DEF Compared, ConflictIn, Row
    <3>3. CASE {x, y} = {t, u}
      BY <3>1, <3>3
    <3>4. CASE {x, y} # {t, u}
      <4>1. <<x, y>> # p /\ <<y, x>> # p
        BY <1>3, <3>4
      <4>2. (\E c \in partition : {x, y} \subseteq c) \/ <<x, y>> \in left \/ <<y, x>> \in left
        BY <1>2, <3>2 DEF Compared
      <4>. QED  BY <1>1, <2>3, <4>1, <4>2
    <3>. QED  BY <3>3, <3>4
  <2>. QED  BY <1>1, <1>4, <2>4, <2>5, <2>6, <2>7 DEF IInv
<1>6. CASE ~ConflictIn(t, u)
  <2>1. partition' = partition
    BY <1>1, <1>3, <1>6
  <2>2. TypeOK'
    BY <1>1, <1>2, <2>1 DEF TypeOK
  <2>3. Covering'
    BY <1>1, <1>2, <2>1 DEF Covering
  <2>4. Linked'
    BY <1>2, <2>1 DEF Linked, Connected
  <2>5. Compared'
    <3>1. SUFFICES ASSUME NEW x \in listed, NEW y \in listed, x # y, ConflictIn(x, y)
                   PROVE  \/ \E c \in partition : {x, y} \subseteq c
                          \/ <<x, y>> \in left' \/ <<y, x>> \in left'
      BY <1>1, <2>1 DEF Compared, ConflictIn, Row
    <3>2. ConflictIn(y, x)
      BY <3>1, ConflictsBothWays
    <3>3. <<x, y>> # p /\ <<y, x>> # p
      BY <1>3, <1>6, <3>1, <3>2
    <3>. QED  BY <1>1, <1>2, <3>1, <3>3 DEF Compared
  <2>. QED  BY <1>1, <1>4, <2>2, <2>3, <2>4, <2>5 DEF IInv
<1>. QED  BY <1>5, <1>6

\* The classes say the same while neither they nor the pairs left change.
LEMMA ClassesStay ==
  ASSUME Covering /\ Linked /\ Compared, UNCHANGED <<listed, partition, left>>
  PROVE  (Covering /\ Linked /\ Compared)'
<1>1. Covering'
  BY DEF Covering
<1>2. Linked'
  BY DEF Linked, Connected
<1>3. Compared'
  BY DEF Compared, ConflictIn, Row
<1>. QED  BY <1>1, <1>2, <1>3

LEMMA WriteConfigKeeps ==
  ASSUME IInv, WriteConfig
  PROVE  IInv'
<1>1. /\ phase = "group" /\ phase' = "list" /\ left = {}
      /\ groups' = {c \in partition : Cardinality(c) > 1}
      /\ UNCHANGED <<runIgnored, met, probed, listed, partition, left, state>>
  BY DEF WriteConfig
<1>2. TypeOK'
  BY <1>1 DEF IInv, TypeOK
<1>3. Active' = {}
  BY <1>1 DEF IInv, Active
<1>4. (Covering /\ Linked /\ Compared)'
  BY <1>1, ClassesStay DEF IInv
<1>. QED  BY <1>1, <1>2, <1>3, <1>4 DEF IInv

\* Under nextest only the phase, the requirements and the tests move, and a
\* test becomes active only where no other test of its groups is.
LEMMA RunningKeeps ==
  ASSUME IInv, UNCHANGED <<runIgnored, probed, listed, partition, left, groups>>,
         met' \subseteq Requirement,
         state' \in [Test -> {"unknown", "queued", "started", "running", "done"}],
         \/ phase' = phase
         \/ phase = "list" /\ phase' = "run"
         \/ phase = "run" /\ phase' = "over",
         phase' \in {"probe", "group", "list"} => Active' = {},
         \/ Active' \subseteq Active
         \/ \E t \in Test : /\ Active' \subseteq Active \union {t}
                            /\ \A g \in groups : t \in g => g \cap Active = {}
  PROVE  IInv'
<1>1. TypeOK'
  BY DEF IInv, TypeOK
<1>2. phase \in {"probe", "group", "list", "run", "over"}
  BY DEF IInv, TypeOK
<1>3. phase' # "probe" => (Covering /\ Linked /\ Compared)'
  BY <1>2, ClassesStay DEF IInv
<1>4. \A g \in groups' : \A t, u \in g \cap Active' : t = u
  BY DEF IInv
<1>. QED  BY <1>1, <1>2, <1>3, <1>4 DEF IInv

LEMMA NextKeeps == IInv /\ [Next]_vars => IInv'
<1>. SUFFICES ASSUME IInv, [Next]_vars PROVE IInv'
  OBVIOUS
<1>. USE DEF TypeOK
<1>0. /\ met \subseteq Requirement
      /\ state \in [Test -> {"unknown", "queued", "started", "running", "done"}]
      /\ phase \in {"probe", "group", "list"} => Active = {}
  BY DEF IInv
<1>1. CASE Generate
  BY <1>1, StartGroupingKeeps, ComparePairKeeps, WriteConfigKeeps DEF Generate
<1>2. CASE \E b \in Binary : ProbeBinary(b) \/ SkipBinary(b)
  BY <1>2, ProbeKeeps
<1>3. CASE RequirementChanges
  BY <1>0, <1>3, RunningKeeps DEF RequirementChanges, RequirementsChange, Active
<1>4. CASE NextestLists
  <2>1. Active' = {}
    BY <1>4 DEF NextestLists, Active
  <2>2. state' \in [Test -> {"unknown", "queued", "started", "running", "done"}]
    BY <1>4 DEF NextestLists
  <2>. QED  BY <1>0, <1>4, <2>1, <2>2, RunningKeeps DEF NextestLists
<1>5. CASE RunOver
  BY <1>0, <1>5, RunningKeeps DEF RunOver, Active
<1>6. CASE Finished \/ UNCHANGED vars
  BY <1>0, <1>6, RunningKeeps DEF Finished, vars, Active
<1>7. ASSUME NEW t \in Test, StartTest(t) PROVE IInv'
  <2>1. Active' \subseteq Active \union {t}
    BY <1>0, <1>7 DEF StartTest, Active
  <2>2. \A g \in groups : t \in g => g \cap Active = {}
    BY <1>7 DEF StartTest
  <2>3. state' \in [Test -> {"unknown", "queued", "started", "running", "done"}]
    BY <1>0, <1>7 DEF StartTest
  <2>. QED  BY <1>0, <1>7, <2>1, <2>2, <2>3, RunningKeeps DEF StartTest
<1>8. ASSUME NEW t \in Test, Process(t) PROVE IInv'
  <2>0. /\ state[t] \in {"started", "running"}
        /\ state' \in [Test -> {"unknown", "queued", "started", "running", "done"}]
        /\ \A u \in Test \ {t} : state'[u] = state[u]
        /\ UNCHANGED <<runIgnored, met, phase, probed, listed, partition, left, groups>>
    BY <1>0, <1>8 DEF Process, TestIgnored, RegisterTest, TestEnds
  <2>1. Active' \subseteq Active
    BY <2>0 DEF Active
  <2>. QED  BY <1>0, <2>0, <2>1, RunningKeeps
<1>. QED  BY <1>1, <1>2, <1>3, <1>4, <1>5, <1>6, <1>7, <1>8 DEF Next

-----------------------------------------------------------------------------
(* Theorems.                                                               *)

\* The loops of build_groups keep the classes disjoint and connected and never
\* lose a conflict, and nextest never has two tests of a group active at once.
THEOREM GroupingKeepsItsInvariant == Spec => []IInv
<1>. QED  BY InitHolds, NextKeeps, PTL DEF Spec

\* What build_groups writes to the tool config are exactly the components of
\* the conflict graph with more than one test.
THEOREM GroupsAreTheComponents == Spec => []GroupsAreComponents
<1>1. IInv => GroupsAreComponents
  <2>. SUFFICES ASSUME IInv, phase \in {"list", "run", "over"}
                PROVE  GroupsAreComponents
    BY DEF IInv, GroupsAreComponents
  <2>1. /\ TypeOK /\ Covering /\ Linked /\ Compared
        /\ left = {} /\ groups = {c \in partition : Cardinality(c) > 1}
    BY DEF IInv
  <2>2. ASSUME NEW t \in listed, NEW u \in listed, t # u, ConflictIn(t, u)
        PROVE  \E g \in groups : {t, u} \subseteq g
    <3>1. PICK c \in partition : {t, u} \subseteq c
      BY <2>1, <2>2 DEF Compared
    <3>2. c \in SUBSET Test
      BY <2>1 DEF TypeOK
    <3>3. Cardinality(c) > 1
      BY <2>2, <3>1, <3>2, TwoAreMany
    <3>. QED  BY <2>1, <3>1, <3>3
  <2>3. \A g, h \in groups : g = h \/ g \cap h = {}
    BY <2>1 DEF Covering
  <2>4. \A g \in groups : Connected(g)
    BY <2>1 DEF Linked
  <2>. QED  BY <2>1, <2>2, <2>3, <2>4 DEF GroupsAreComponents
<1>. QED  BY <1>1, GroupingKeepsItsInvariant, PTL

\* A test in the metadata never waits in coordinate for another one that is in
\* it, however requirements change between the probe and the run.
THEOREM ListedTestsNeverWait == Spec => []ListedNeverWait
<1>1. IInv /\ GroupsAreComponents => ListedNeverWait
  <2>. SUFFICES ASSUME IInv, GroupsAreComponents, NEW t \in listed, state[t] = "started",
                       NEW u \in listed \cap Running
                PROVE  CanStart({Row(u)}, Row(t).labels, Row(t).serial)
    BY DEF ListedNeverWait
  <2>1. t \in Test /\ u \in Test /\ t # u /\ t \in Active /\ u \in Active
    BY DEF IInv, TypeOK, Active, Running
  <2>2. phase \in {"list", "run", "over"}
    BY <2>1 DEF IInv, TypeOK
  <2>3. ~ConflictIn(t, u)
    <3>. SUFFICES ASSUME ConflictIn(t, u) PROVE FALSE
      OBVIOUS
    <3>1. PICK g \in groups : {t, u} \subseteq g
      BY <2>1, <2>2 DEF GroupsAreComponents
    <3>. QED  BY <2>1, <3>1 DEF IInv
  <2>. QED  BY <2>1, <2>3, NoConflictMayStart
<1>. QED  BY <1>1, GroupingKeepsItsInvariant, GroupsAreTheComponents, PTL

=============================================================================
