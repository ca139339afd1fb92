--------------------------- MODULE FixturesProofs ---------------------------
(***************************************************************************)
(* Proofs about Fixtures, for every set of tests, every fixture graph that *)
(* validate_fixture_graph accepts, and any failing setups and panicking    *)
(* drops.                                                                  *)
(*                                                                         *)
(* The inductive invariant is about ownership.  A value that may be        *)
(* dropped while tests run is private to the thread that made it: it is in *)
(* no store, and nobody else was given it.  What a setup was given is in   *)
(* the process store, or in the cache of its own thread, and both are      *)
(* emptied from the end.                                                   *)
(***************************************************************************)
EXTENDS Fixtures, SequenceTheorems, TLAPS

Value == [fix : Fixture, uses : SUBSET Nat, by : Test \cup {"main"}]
SetupFrame == [fix : Fixture, stage : {"lookup", "setup", "return"}, need : Seq(Fixture),
               uses : SUBSET Nat, owned : Seq(Nat), mine : Nat]

Types ==
  /\ vals \in Seq(Value) /\ live \subseteq DOMAIN vals
  /\ store \in Seq(Nat) /\ poisoned \in BOOLEAN
  /\ cache \in [Test -> Seq(Nat)] /\ handles \in [Test -> Seq(Nat)]
  /\ todo \in [Test -> Seq(Fixture)] /\ given \in [Test -> SUBSET Nat]
  /\ stack \in [Test -> Seq(SetupFrame)]
  /\ pc \in [Test -> {"idle", "setup", "teardown", "end", "done"}]
  /\ body \in [Test -> Ending \cup {"none"}]
  /\ unwinding \in [Test -> BOOLEAN]
  /\ outcome \in [Test -> {"none", "pass", "fail"}]
  /\ run \in {"main", "tests", "cleanup", "over", "aborted"}
  /\ \A v \in DOMAIN vals : vals[v].uses \subseteq 1 .. v - 1

\* The process store: one live value for a fixture, after those it uses.
StoreInv ==
  /\ \A i \in 1 .. Len(store) :
       /\ store[i] \in live /\ ScopeOf[Fix(store[i])] = "process"
       /\ \A u \in vals[store[i]].uses : \E j \in 1 .. (i - 1) : u = store[j]
  /\ \A i, j \in 1 .. Len(store) : Fix(store[i]) = Fix(store[j]) => i = j

\* A value of t's own thread that is in no store.
Private(t, v) ==
  /\ v \in DOMAIN vals /\ vals[v].by = t
  /\ v \notin ToSet(store) /\ v \notin ToSet(cache[t])

\* What a setup on t's thread can have been given.
Avail(t) == ToSet(store) \cup ToSet(cache[t])

\* The thread's test fixtures, each after those it uses.
CacheInv(t) ==
  /\ \A i \in 1 .. Len(cache[t]) :
       /\ cache[t][i] \in live /\ vals[cache[t][i]].by = t
       /\ \A u \in vals[cache[t][i]].uses : u \in ToSet(store) \/ \E j \in 1 .. (i - 1) : u = cache[t][j]
  /\ \A i, j \in 1 .. Len(cache[t]) : cache[t][i] = cache[t][j] => i = j

\* A setup in progress: the frame's own values are private.
FrameInv(t, fr) ==
  /\ ToSet(fr.need) \subseteq Deps(fr.fix)
  /\ fr.uses \subseteq Avail(t)
  /\ ScopeOf[fr.fix] = "process" => fr.uses \subseteq ToSet(store)
  /\ \A v \in ToSet(fr.owned) :
       /\ Private(t, v) /\ vals[v].uses \subseteq Avail(t)
       /\ pc[t] = "setup" => v \notin given[t]

\* The value a setup is about to return.
MineInv(t) ==
  stack[t] # <<>> /\ pc[t] = "setup" =>
    /\ Top(t).stage # "return" => Top(t).mine = 0
    /\ \A m \in Nat \ {0} : m = Top(t).mine =>
         /\ Private(t, m) /\ m \in live /\ m \notin given[t] /\ m \notin ToSet(handles[t])
         /\ vals[m].fix = Top(t).fix /\ vals[m].uses = Top(t).uses
         /\ \A fr \in ToSet(stack[t]) : m \notin ToSet(fr.owned)

\* The setups in progress, from the innermost: each was asked for by the next.
StackInv(t) ==
  /\ \A fr \in ToSet(stack[t]) : FrameInv(t, fr)
  /\ pc[t] = "setup" => \A i \in 2 .. Len(stack[t]) :
       /\ stack[t][i].stage = "setup" /\ stack[t][i].mine = 0
       /\ stack[t][i - 1].fix \in Deps(stack[t][i].fix)
  /\ MineInv(t)

OwnInv(t) ==
  /\ \A v \in ToSet(handles[t]) : Private(t, v) /\ vals[v].uses \subseteq Avail(t)
  /\ \A v \in given[t] :
       /\ v \in live
       /\ IF ScopeOf[Fix(v)] = "process" THEN v \in ToSet(store) ELSE vals[v].by = t

\* A trial's way to its verdict.
WayInv(t) ==
  /\ pc[t] \in {"idle", "end", "done"} => stack[t] = <<>> /\ handles[t] = <<>>
  /\ pc[t] = "idle" => given[t] = {} /\ cache[t] = <<>>
  /\ pc[t] \in {"idle", "setup"} => body[t] = "none" /\ ~unwinding[t]
  /\ pc[t] \in {"teardown", "end", "done"} /\ ~unwinding[t] => body[t] = "returned"
  /\ body[t] \in {"panicked", "mispanicked"} => unwinding[t]
  /\ pc[t] = "end" /\ run # "aborted" => unwinding[t] /\ body[t] # "panicked"
  /\ outcome[t] # "none" => pc[t] = "done"
  /\ outcome[t] = "pass" =>
       /\ IF t \in ShouldPanic THEN body[t] = "panicked" ELSE body[t] = "returned" /\ ~unwinding[t]
       /\ cache[t] = <<>>

\* Typed contents, in every state.
Contents(t) ==
  /\ \A v \in ToSet(cache[t]) : v \in DOMAIN vals /\ ScopeOf[Fix(v)] = "test"
  /\ ToSet(handles[t]) \cup given[t] \subseteq DOMAIN vals

RunInv ==
  /\ run = "main" => \A t \in Test : pc[t] = "idle"
  /\ run = "cleanup" => \A t \in Test : pc[t] = "done"

Thr(t) == CacheInv(t) /\ StackInv(t) /\ OwnInv(t)

IInv ==
  /\ Types /\ StoreInv /\ RunInv
  /\ \A t \in Test : WayInv(t) /\ Contents(t)
  /\ run \notin {"cleanup", "over"} => \A t \in Test : Thr(t)
  /\ ScopeDecidesSharing

-----------------------------------------------------------------------------
(* Sequences.                                                              *)

LEMMA ToSetElements ==
  ASSUME NEW S, NEW s \in Seq(S)
  PROVE  /\ ToSet(s) \subseteq S
         /\ \A x : x \in ToSet(s) <=> \E i \in 1 .. Len(s) : x = s[i]
BY DEF ToSet

LEMMA AppendSet ==
  ASSUME NEW S, NEW s \in Seq(S), NEW x \in S
  PROVE  /\ Append(s, x) \in Seq(S) /\ ToSet(Append(s, x)) = ToSet(s) \cup {x}
         /\ Len(Append(s, x)) = Len(s) + 1 /\ Append(s, x)[Len(s) + 1] = x
         /\ \A i \in 1 .. Len(s) : Append(s, x)[i] = s[i]
<1>1. /\ Append(s, x) \in Seq(S) /\ Len(Append(s, x)) = Len(s) + 1 /\ Append(s, x)[Len(s) + 1] = x
      /\ \A i \in 1 .. Len(s) : Append(s, x)[i] = s[i]
  BY AppendProperties
<1>2. \A i : i \in 1 .. (Len(s) + 1) <=> i \in 1 .. Len(s) \/ i = Len(s) + 1
  BY LenProperties
<1>3. DOMAIN s = 1 .. Len(s) /\ DOMAIN Append(s, x) = 1 .. (Len(s) + 1)
  BY <1>1, LenProperties
<1>4. ToSet(Append(s, x)) = ToSet(s) \cup {x}
  BY <1>1, <1>2, <1>3 DEF ToSet
<1> QED  BY <1>1, <1>4

LEMMA AppendRange ==
  ASSUME NEW S, NEW s \in Seq(S), NEW x \in S
  PROVE  ToSet(Append(s, x)) = ToSet(s) \cup {x}
BY AppendSet

\* Front and Last.
LEMMA FrontLast ==
  ASSUME NEW S, NEW s \in Seq(S), s # <<>>
  PROVE  /\ Front(s) \in Seq(S) /\ Len(Front(s)) = Len(s) - 1 /\ Len(s) \in Nat \ {0}
         /\ \A i \in 1 .. (Len(s) - 1) : Front(s)[i] = s[i]
         /\ ToSet(Front(s)) \subseteq ToSet(s) /\ Last(s) \in ToSet(s) /\ Last(s) \in S
         /\ Last(s) = s[Len(s)]
<1>1. Len(s) \in Nat \ {0}
  BY EmptySeq, LenProperties
<1>2. /\ Front(s) \in Seq(S) /\ Len(Front(s)) = Len(s) - 1
      /\ \A i \in 1 .. (Len(s) - 1) : Front(s)[i] = s[i]
  <2>1. \A i \in 1 .. (Len(s) - 1) : s[i] \in S
    BY <1>1, ElementOfSeq
  <2>2. /\ Front(s) \in Seq(S) /\ Len(Front(s)) = IF 1 <= Len(s) - 1 THEN Len(s) - 1 - 1 + 1 ELSE 0
        /\ \A i \in 1 .. Len(s) - 1 - 1 + 1 : Front(s)[i] = s[1 + i - 1]
    BY <2>1, <1>1, SubSeqProperties DEF Front
  <2>3. \A i \in 1 .. (Len(s) - 1) : Front(s)[i] = s[i]
    BY <1>1, <2>2
  <2>4. \A n \in Nat \ {0} : (IF 1 <= n - 1 THEN n - 1 - 1 + 1 ELSE 0) = n - 1
    OBVIOUS
  <2>5. Len(Front(s)) = Len(s) - 1
    BY <1>1, <2>2, <2>4, Zenon
  <2> QED  BY <2>2, <2>3, <2>5, Zenon
<1>3. Last(s) = s[Len(s)] /\ Len(s) \in 1 .. Len(s)
  BY <1>1 DEF Last
<1>4. Last(s) \in ToSet(s) /\ Last(s) \in S
  BY <1>1, <1>3, ToSetElements, ElementOfSeq
<1>5. ToSet(Front(s)) \subseteq ToSet(s)
  <2>1. \A i \in 1 .. (Len(s) - 1) : i \in 1 .. Len(s)
    BY <1>1
  <2> QED  BY <1>2, <2>1, ToSetElements
<1> QED  BY <1>1, <1>2, <1>3, <1>4, <1>5

\* Head and Tail.
LEMMA HeadTail ==
  ASSUME NEW S, NEW s \in Seq(S), s # <<>>
  PROVE  /\ Tail(s) \in Seq(S) /\ Len(Tail(s)) = Len(s) - 1 /\ Len(s) \in Nat \ {0}
         /\ \A i \in 1 .. (Len(s) - 1) : Tail(s)[i] = s[i + 1]
         /\ ToSet(Tail(s)) \subseteq ToSet(s) /\ Head(s) \in ToSet(s) /\ Head(s) \in S
         /\ Head(s) = s[1]
<1>1. Len(s) \in Nat \ {0}
  BY EmptySeq, LenProperties
<1>2. /\ Tail(s) \in Seq(S) /\ Len(Tail(s)) = Len(s) - 1
      /\ \A i \in 1 .. (Len(s) - 1) : Tail(s)[i] = s[i + 1]
      /\ Head(s) = s[1] /\ Head(s) \in S
  BY <1>1, HeadTailProperties
<1>3. Head(s) \in ToSet(s)
  BY <1>1, <1>2, ToSetElements
<1>4. ToSet(Tail(s)) \subseteq ToSet(s)
  <2> SUFFICES ASSUME NEW x \in ToSet(Tail(s)) PROVE x \in ToSet(s)
    OBVIOUS
  <2>0. \A y : y \in ToSet(Tail(s)) <=> \E i \in 1 .. Len(Tail(s)) : y = Tail(s)[i]
    BY <1>2, ToSetElements, Zenon
  <2>1. PICK i \in 1 .. Len(Tail(s)) : x = Tail(s)[i]
    BY <2>0
  <2>2. i \in 1 .. (Len(s) - 1) /\ i + 1 \in 1 .. Len(s)
    BY <1>1, <1>2, <2>1
  <2>3. x = s[i + 1]
    BY <1>2, <2>1, <2>2
  <2> QED  BY <2>2, <2>3, ToSetElements
<1> QED  BY <1>1, <1>2, <1>3, <1>4

\* A new first element.
LEMMA ConsSet ==
  ASSUME NEW S, NEW s \in Seq(S), NEW x \in S
  PROVE  /\ <<x>> \o s \in Seq(S) /\ Len(<<x>> \o s) = Len(s) + 1 /\ <<x>> \o s # <<>>
         /\ (<<x>> \o s)[1] = x /\ \A i \in 2 .. (Len(s) + 1) : (<<x>> \o s)[i] = s[i - 1]
         /\ ToSet(<<x>> \o s) = {x} \cup ToSet(s) /\ Head(<<x>> \o s) = x
<1>1. <<x>> \in Seq(S) /\ Len(<<x>>) = 1 /\ <<x>>[1] = x
  OBVIOUS
<1>2. PICK q : q = <<x>> \o s
  OBVIOUS
<1>3. /\ q \in Seq(S) /\ Len(q) = Len(s) + 1 /\ q[1] = x
      /\ \A i \in 2 .. (Len(s) + 1) : q[i] = s[i - 1]
  BY <1>1, <1>2, ConcatProperties, LenProperties
<1>4. q # <<>> /\ Head(q) = x
  BY <1>3, LenProperties
<1>5. ToSet(q) = {x} \cup ToSet(s)
  <2>1. Len(s) \in Nat
    BY LenProperties
  <2>2. ASSUME NEW y \in ToSet(q) PROVE y \in {x} \cup ToSet(s)
    <3>1. PICK i \in 1 .. Len(q) : y = q[i]
      BY <1>3, ToSetElements
    <3>2. CASE i = 1
      BY <3>1, <3>2, <1>3
    <3>3. CASE i # 1
      <4>1. i \in 2 .. (Len(s) + 1) /\ i - 1 \in 1 .. Len(s)
        BY <1>3, <2>1, <3>1, <3>3
      <4> QED  BY <4>1, <3>1, <1>3, ToSetElements
    <3> QED  BY <3>2, <3>3
  <2>3. ASSUME NEW y \in ToSet(s) PROVE y \in ToSet(q)
    <3>1. PICK i \in 1 .. Len(s) : y = s[i]
      BY ToSetElements
    <3>2. i + 1 \in 2 .. (Len(s) + 1) /\ i + 1 \in 1 .. Len(q) /\ i + 1 - 1 = i
      BY <1>3, <2>1
    <3>3. q[i + 1] = y
      BY <1>3, <3>1, <3>2
    <3> QED  BY <1>3, <3>2, <3>3, ToSetElements
  <2>4. x \in ToSet(q)
    <3>1. 1 \in 1 .. Len(q)
      BY <1>3, <2>1
    <3> QED  BY <3>1, <1>3, ToSetElements
  <2> QED  BY <2>2, <2>3, <2>4
<1> QED  BY <1>2, <1>3, <1>4, <1>5

\* Another first element.
LEMMA NewFirst ==
  ASSUME NEW S, NEW s \in Seq(S), s # <<>>, NEW x \in S, NEW q, q = [s EXCEPT ![1] = x]
  PROVE  /\ q \in Seq(S) /\ Len(q) = Len(s) /\ q[1] = x /\ \A i \in 2 .. Len(s) : q[i] = s[i]
         /\ \A y \in ToSet(q) : y = x \/ y \in ToSet(s)
<1>1. Len(s) \in Nat \ {0}
  BY HeadTail
<1>2. q \in Seq(S) /\ Len(q) = Len(s) /\ q[1] = x /\ \A i \in 2 .. Len(s) : q[i] = s[i]
  BY <1>1
<1>3. ASSUME NEW y \in ToSet(q) PROVE y = x \/ y \in ToSet(s)
  <2>0. DOMAIN q = 1 .. Len(q)
    BY <1>2, LenProperties
  <2>1. PICK i \in 1 .. Len(q) : y = q[i]
    BY <1>3, <2>0, Zenon DEF ToSet
  <2>2. CASE i = 1
    BY <1>2, <2>1, <2>2
  <2>3. CASE i # 1
    <3>1. i \in 2 .. Len(s) /\ i \in 1 .. Len(s)
      BY <1>1, <1>2, <2>1, <2>3
    <3> QED  BY <1>2, <2>1, <3>1, ToSetElements
  <2> QED  BY <2>2, <2>3
<1> QED  BY <1>2, <1>3

-----------------------------------------------------------------------------
(* What every step of t's thread leaves alone.                             *)

Leaves(t) ==
  /\ \A v \in DOMAIN vals : v \in DOMAIN vals' /\ vals'[v] = vals[v]
  /\ ToSet(store) \subseteq ToSet(store')
  /\ \A v \in ToSet(store') \ ToSet(store) : vals'[v].by = t
  /\ \A v \in live \ live' : vals[v].by = t /\ v \notin ToSet(store)
  /\ \A u \in Test \ {t} :
       /\ cache'[u] = cache[u] /\ handles'[u] = handles[u] /\ given'[u] = given[u]
       /\ stack'[u] = stack[u] /\ pc'[u] = pc[u] /\ body'[u] = body[u]
       /\ unwinding'[u] = unwinding[u] /\ outcome'[u] = outcome[u]

\* A frame keeps its part of the invariant while its values stay private.
LEMMA FrameStays ==
  ASSUME NEW t \in Test, NEW fr, FrameInv(t, fr),
         \A v \in DOMAIN vals : v \in DOMAIN vals' /\ vals'[v] = vals[v],
         ToSet(store) \subseteq ToSet(store'), ToSet(cache[t]) \subseteq ToSet(cache'[t]),
         \A v \in ToSet(fr.owned) : Private(t, v) => v \notin ToSet(store') /\ v \notin ToSet(cache'[t]),
         pc'[t] = "setup" => pc[t] = "setup" /\ \A v \in ToSet(fr.owned) : v \notin given'[t]
  PROVE  FrameInv(t, fr)'
BY DEF FrameInv, Private, Avail, Deps, ToSet

\* The other threads.
LEMMA OthersKeep ==
  ASSUME IInv, run = "tests", NEW t \in Test, Leaves(t), NEW u \in Test \ {t}
  PROVE  Thr(u)' /\ WayInv(u)' /\ Contents(u)'
<1>0. Thr(u) /\ WayInv(u) /\ Contents(u) /\ u \in Test /\ u # t
  BY DEF IInv
<1>1. /\ cache'[u] = cache[u] /\ handles'[u] = handles[u] /\ given'[u] = given[u]
      /\ stack'[u] = stack[u] /\ pc'[u] = pc[u] /\ body'[u] = body[u]
      /\ unwinding'[u] = unwinding[u] /\ outcome'[u] = outcome[u]
  BY DEF Leaves
<1>2. /\ \A v \in DOMAIN vals : v \in DOMAIN vals' /\ vals'[v] = vals[v]
      /\ ToSet(store) \subseteq ToSet(store')
      /\ \A v \in ToSet(store') \ ToSet(store) : vals'[v].by = t
      /\ \A v \in live \ live' : vals[v].by = t /\ v \notin ToSet(store)
  BY DEF Leaves
<1>3. live \subseteq DOMAIN vals
  BY DEF IInv, Types
<1>4. \A v : Private(u, v) => Private(u, v)'
  BY <1>0, <1>1, <1>2 DEF Private, ToSet
<1>5. ToSet(cache[u])' = ToSet(cache[u]) /\ ToSet(handles[u])' = ToSet(handles[u])
      /\ ToSet(stack[u])' = ToSet(stack[u])
  BY <1>1 DEF ToSet
<1>6. CacheInv(u)'
  BY <1>0, <1>1, <1>2, <1>3 DEF Thr, CacheInv
<1>7. StackInv(u)'
  <2>1. ASSUME NEW fr \in ToSet(stack[u]) PROVE FrameInv(u, fr)'
    <3>1. FrameInv(u, fr)
      BY <1>0 DEF Thr, StackInv
    <3>2. /\ \A v \in ToSet(fr.owned) : Private(u, v) => v \notin ToSet(store') /\ v \notin ToSet(cache'[u])
          /\ pc'[u] = "setup" => pc[u] = "setup" /\ \A v \in ToSet(fr.owned) : v \notin given'[u]
      BY <1>1, <1>4, <3>1 DEF FrameInv, Private, ToSet
    <3> QED  BY <3>1, <3>2, <1>0, <1>1, <1>2, FrameStays DEF ToSet
  <2>2. Top(u)' = Top(u)
    BY <1>1 DEF Top
  <2>3. MineInv(u)'
    <3>1. \A v \in live : vals[v].by = u => v \in live'
      BY <1>0, <1>2
    <3> QED  BY <1>0, <1>1, <1>2, <1>4, <1>5, <2>2, <3>1 DEF Thr, StackInv, MineInv, Private
  <2> QED  BY <1>0, <1>1, <1>5, <2>1, <2>3 DEF Thr, StackInv, Deps, ToSet
<1>8. OwnInv(u)'
  <2>1. OwnInv(u)
    BY <1>0 DEF Thr
  <2>2. \A v \in ToSet(handles[u]) : Private(u, v)' /\ (vals[v].uses \subseteq Avail(u))'
    BY <2>1, <1>2, <1>4, <1>5 DEF OwnInv, Avail, Private
  <2>3. ASSUME NEW v \in given[u]
        PROVE  /\ v \in live'
               /\ IF ScopeOf[vals'[v].fix] = "process" THEN v \in ToSet(store') ELSE vals'[v].by = u
    BY <2>1, <1>0, <1>2, <1>3 DEF OwnInv, Fix
  <2> QED  BY <1>1, <1>5, <2>2, <2>3 DEF OwnInv, Fix
<1>9. WayInv(u)'
  BY <1>0, <1>1 DEF WayInv
<1>10. Contents(u)'
  BY <1>0, <1>1, <1>2, <1>5 DEF Contents, Fix
<1> QED  BY <1>6, <1>7, <1>8, <1>9, <1>10 DEF Thr

Housed == StoreInv /\ Types /\ \A t \in Test : Thr(t) /\ Contents(t)

\* Sharing follows from where the values are.
LEMMA SharingFollows ==
  Housed => ScopeDecidesSharing
<1> SUFFICES ASSUME Housed PROVE ScopeDecidesSharing
  OBVIOUS
<1> USE DEF Housed
<1>1. store \in Seq(Nat)
  BY DEF Types
<1>2. ASSUME NEW t \in Test, NEW u \in Test, NEW v \in given[t], NEW w \in given[u],
             Fix(v) = Fix(w), ScopeOf[Fix(v)] = "process"
      PROVE  v = w
  <2>1. v \in ToSet(store) /\ w \in ToSet(store)
    BY <1>2 DEF Thr, OwnInv
  <2>2. PICK i \in 1 .. Len(store) : v = store[i]
    BY <1>1, <2>1, ToSetElements
  <2>3. PICK j \in 1 .. Len(store) : w = store[j]
    BY <1>1, <2>1, ToSetElements
  <2> QED  BY <1>2, <2>2, <2>3 DEF StoreInv
<1>3. ASSUME NEW t \in Test, NEW v \in given[t], ScopeOf[Fix(v)] = "test"
      PROVE  vals[v].by = t
  BY <1>3 DEF Thr, OwnInv
<1>4. ASSUME NEW t \in Test, NEW i \in DOMAIN stack[t], NEW v \in stack[t][i].uses,
             ScopeOf[Fix(v)] = "test"
      PROVE  vals[v].by = t
  <2>1. v \in Avail(t)
    <3>1. stack[t][i] \in ToSet(stack[t])
      BY DEF ToSet
    <3> QED  BY <3>1 DEF Thr, StackInv, FrameInv
  <2>2. v \notin ToSet(store)
    <3> SUFFICES ASSUME v \in ToSet(store) PROVE FALSE
      OBVIOUS
    <3>1. PICK k \in 1 .. Len(store) : v = store[k]
      BY <1>1, ToSetElements
    <3> QED  BY <1>4, <3>1 DEF StoreInv
  <2>3. v \in ToSet(cache[t]) /\ cache[t] \in Seq(Nat)
    BY <2>1, <2>2 DEF Avail, Types
  <2>4. PICK k \in 1 .. Len(cache[t]) : v = cache[t][k]
    BY <2>3, ToSetElements
  <2> QED  BY <2>4 DEF Thr, CacheInv
<1> QED  BY <1>2, <1>3, <1>4 DEF ScopeDecidesSharing

\* A step of t's thread keeps the invariant if t's own part holds after it.
LEMMA StepKeeps ==
  ASSUME IInv, run = "tests", NEW t \in Test, Leaves(t), Types', StoreInv',
         WayInv(t)', Contents(t)', Thr(t)', run' \in {"tests", "aborted"}
  PROVE  IInv'
<1>1. \A u \in Test \ {t} : Thr(u)' /\ WayInv(u)' /\ Contents(u)'
  BY OthersKeep
<1>2. \A u \in Test : Thr(u)' /\ WayInv(u)' /\ Contents(u)'
  BY <1>1
<1>3. RunInv'
  BY DEF RunInv
<1>4. Housed'
  BY <1>2 DEF Housed
<1>5. Housed' => ScopeDecidesSharing'
  BY SharingFollows, PTL
<1> QED  BY <1>2, <1>3, <1>4, <1>5 DEF IInv

-----------------------------------------------------------------------------
(* The steps of a trial.                                                   *)

\* No setup is in progress, and no value moves.
LEMMA NothingMoves ==
  ASSUME IInv, run = "tests", NEW t \in Test, stack[t] = <<>>,
         UNCHANGED <<heap, cache, handles, given, stack>>
  PROVE  StoreInv' /\ Thr(t)' /\ Contents(t)'
<1> USE DEF heap
<1>1. StoreInv'
  BY DEF IInv, StoreInv, Fix
<1>2. CacheInv(t)'
  BY SMTT(40) DEF IInv, Thr, CacheInv, ToSet
<1>3. StackInv(t)'
  <2>1. stack'[t] = <<>> /\ ToSet(stack'[t]) = {} /\ Len(stack'[t]) = 0
    BY DEF ToSet
  <2>2. \A i \in 2 .. 0 : FALSE
    OBVIOUS
  <2> QED  BY <2>1, <2>2 DEF StackInv, MineInv
<1>4. OwnInv(t)'
  BY DEF IInv, Thr, OwnInv, Private, Avail, ToSet, Fix
<1>5. Contents(t)'
  BY DEF IInv, Contents, ToSet, Fix
<1> QED  BY <1>1, <1>2, <1>3, <1>4, <1>5 DEF Thr

LEMMA EnterTestScopeKeeps ==
  ASSUME IInv, NEW t \in Test, EnterTestScope(t)
  PROVE  IInv'
<1> USE DEF EnterTestScope, Goto, heap
<1>0. Types /\ WayInv(t) /\ run = "tests"
  BY DEF IInv
<1>1. stack[t] = <<>>
  BY <1>0 DEF WayInv
<1>2. StoreInv' /\ Thr(t)' /\ Contents(t)'
  BY <1>0, <1>1, NothingMoves
<1>3. Types'
  BY <1>0 DEF Types
<1>4. WayInv(t)'
  BY <1>0 DEF Types, WayInv
<1>5. Leaves(t)
  BY <1>0 DEF Types, Leaves, ToSet
<1> QED  BY <1>0, <1>2, <1>3, <1>4, <1>5, StepKeeps

LEMMA RunBodyKeeps ==
  ASSUME IInv, NEW t \in Test, NEW how \in Ending, RunBody(t, how)
  PROVE  IInv'
<1> USE DEF RunBody, Goto, heap
<1>0. Types /\ WayInv(t) /\ run = "tests" /\ stack[t] = <<>>
  BY DEF IInv
<1>2. StoreInv' /\ Thr(t)' /\ Contents(t)'
  BY <1>0, NothingMoves
<1>3. Types'
  BY <1>0 DEF Types
<1>4. WayInv(t)'
  BY <1>0 DEF Types, WayInv, Ending
<1>5. Leaves(t)
  BY <1>0 DEF Types, Leaves, ToSet
<1> QED  BY <1>0, <1>2, <1>3, <1>4, <1>5, StepKeeps

LEMMA EndTestKeeps ==
  ASSUME IInv, NEW t \in Test, EndTest(t)
  PROVE  IInv'
<1> USE DEF EndTest, Goto, heap, Thread
<1>0. Types /\ WayInv(t) /\ run = "tests" /\ stack[t] = <<>> /\ handles[t] = <<>>
  BY DEF IInv, WayInv
<1>2. StoreInv' /\ Thr(t)' /\ Contents(t)'
  BY <1>0, NothingMoves
<1>3. Types'
  BY <1>0 DEF Types
<1>4. WayInv(t)'
  BY <1>0 DEF Types, WayInv, Ending
<1>5. Leaves(t)
  BY <1>0 DEF Types, Leaves, ToSet
<1> QED  BY <1>0, <1>2, <1>3, <1>4, <1>5, StepKeeps

LEMMA StoreStays ==
  ASSUME StoreInv, vals' = vals, store' = store, \A i \in 1 .. Len(store) : store[i] \in live'
  PROVE  StoreInv'
<1>1. StoreInv' <=> /\ \A i \in 1 .. Len(store) :
                        /\ store[i] \in live' /\ ScopeOf[Fix(store[i])] = "process"
                        /\ \A u \in vals[store[i]].uses : \E j \in 1 .. (i - 1) : u = store[j]
                   /\ \A i, j \in 1 .. Len(store) : Fix(store[i]) = Fix(store[j]) => i = j
  BY DEF StoreInv, Fix
<1> QED  BY <1>1, Zenon DEF StoreInv

LEMMA CacheStays ==
  ASSUME NEW t \in Test, CacheInv(t), vals' = vals, cache'[t] = cache[t],
         ToSet(store) \subseteq ToSet(store'), \A i \in 1 .. Len(cache[t]) : cache[t][i] \in live'
  PROVE  CacheInv(t)'
<1>1. CacheInv(t)' <=>
        /\ \A i \in 1 .. Len(cache[t]) :
             /\ cache[t][i] \in live' /\ vals[cache[t][i]].by = t
             /\ \A u \in vals[cache[t][i]].uses :
                  u \in ToSet(store') \/ \E j \in 1 .. (i - 1) : u = cache[t][j]
        /\ \A i, j \in 1 .. Len(cache[t]) : cache[t][i] = cache[t][j] => i = j
  BY DEF CacheInv, ToSet
<1> QED  BY <1>1, Zenon DEF CacheInv

\* Dropping private values leaves the stores as they are.
LEMMA DropsSpareStores ==
  ASSUME IInv, run = "tests", NEW t \in Test,
         \A v \in live \ live' : Private(t, v), UNCHANGED <<vals, store, cache>>
  PROVE  StoreInv' /\ CacheInv(t)'
<1>0. /\ StoreInv /\ CacheInv(t) /\ store \in Seq(Nat) /\ cache[t] \in Seq(Nat)
  BY DEF IInv, Thr, Types
<1>1. \A v \in live : v \in ToSet(store) \/ v \in ToSet(cache[t]) => v \in live'
  BY DEF Private
<1>2. StoreInv'
  <2>1. \A i \in 1 .. Len(store) : store[i] \in ToSet(store)
    BY <1>0, ToSetElements
  <2>2. \A i \in 1 .. Len(store) : store[i] \in live'
    BY <1>0, <1>1, <2>1 DEF StoreInv
  <2> QED  BY <1>0, <2>2, StoreStays
<1>3. CacheInv(t)'
  <2>1. \A i \in 1 .. Len(cache[t]) : cache[t][i] \in ToSet(cache[t])
    BY <1>0, ToSetElements
  <2>2. \A i \in 1 .. Len(cache[t]) : cache[t][i] \in live'
    BY <1>0, <1>1, <2>1 DEF CacheInv
  <2> QED  BY <1>0, <2>2, CacheStays
<1> QED  BY <1>2, <1>3

\* And if nobody was given them, nothing else is harmed.
LEMMA DropsAreSafe ==
  ASSUME IInv, run = "tests", NEW t \in Test,
         \A v \in live \ live' : Private(t, v) /\ v \notin given'[t],
         UNCHANGED <<vals, store, cache>>,
         given'[t] \subseteq given[t], ToSet(handles'[t]) \subseteq ToSet(handles[t])
  PROVE  StoreInv' /\ CacheInv(t)' /\ OwnInv(t)' /\ Contents(t)'
<1>0. OwnInv(t) /\ Contents(t)
  BY DEF IInv, Thr
<1>1. StoreInv' /\ CacheInv(t)'
  BY DropsSpareStores
<1>2. OwnInv(t)'
  <2>1. \A v \in given'[t] : v \in live'
    BY <1>0 DEF OwnInv
  <2> QED  BY <1>0, <2>1 DEF OwnInv, Private, Avail, Fix
<1>3. Contents(t)'
  BY <1>0 DEF Contents, Fix
<1> QED  BY <1>1, <1>2, <1>3

\* The thread starts to unwind.
LEMMA UnwindKeeps ==
  ASSUME IInv, run = "tests", NEW t \in Test, pc[t] = "setup",
         NEW frames \in Seq(SetupFrame), Unwind(t, frames),
         \A fr \in ToSet(frames) : FrameInv(t, fr)',
         live' \subseteq live, \A v \in live \ live' : Private(t, v) /\ v \notin given[t],
         poisoned' \in BOOLEAN,
         UNCHANGED <<vals, store, cache, todo, given, body, outcome, run>>
  PROVE  IInv'
<1> USE DEF Unwind, Goto
<1>0. Types /\ WayInv(t)
  BY DEF IInv
<1>1. Types'
  BY <1>0 DEF Types
<1>2. WayInv(t)'
  BY <1>0 DEF Types, WayInv
<1>3. StoreInv' /\ CacheInv(t)' /\ OwnInv(t)' /\ Contents(t)'
  BY DropsAreSafe
<1>4. StackInv(t)'
  <2>1. stack'[t] = frames /\ pc'[t] = "teardown"
    BY <1>0 DEF Types
  <2> QED  BY <2>1 DEF StackInv, MineInv
<1>5. Leaves(t)
  BY <1>0 DEF Types, Leaves, ToSet, Private
<1> QED  BY <1>1, <1>2, <1>3, <1>4, <1>5, StepKeeps DEF Thr

\* A frame while nothing moves between the stores.
LEMMA FrameSits ==
  ASSUME NEW t \in Test, NEW fr, FrameInv(t, fr), UNCHANGED <<vals, store, cache>>,
         pc'[t] = "setup" => pc[t] = "setup" /\ given'[t] \subseteq given[t]
  PROVE  FrameInv(t, fr)'
BY DEF FrameInv, Private, Avail, ToSet, Deps

LEMMA SetupPanicsKeeps ==
  ASSUME IInv, NEW t \in Test, SetupPanics(t) \/ SetupFailed(t)
  PROVE  IInv'
<1> USE DEF SetupPanics, SetupFailed, InSetup, heap
<1>0. run = "tests" /\ pc[t] = "setup" /\ Types /\ Unwind(t, stack[t]) /\ Thr(t)
  BY DEF IInv
<1>1. stack[t] \in Seq(SetupFrame) /\ poisoned' \in BOOLEAN
  BY <1>0 DEF Types
<1>2. pc'[t] # "setup"
  BY <1>0 DEF Types, Unwind, Goto
<1>3. \A fr \in ToSet(stack[t]) : FrameInv(t, fr)'
  BY <1>0, <1>2, FrameSits DEF Thr, StackInv
<1> QED  BY <1>0, <1>1, <1>3, UnwindKeeps

-----------------------------------------------------------------------------
(* fixture_get returns.                                                    *)

\* A step of t's thread that does no more to the stores, and to the values
\* alive, than move or drop the value its innermost setup has made.
Settles(t) ==
  /\ run = "tests" /\ pc[t] = "setup" /\ stack[t] # <<>>
  /\ vals' = vals /\ live' \subseteq live /\ poisoned' \in BOOLEAN
  /\ store' \in Seq(Nat) /\ cache' \in [Test -> Seq(Nat)]
  /\ \A u \in Test \ {t} : cache'[u] = cache[u]
  /\ ToSet(store) \subseteq ToSet(store') /\ ToSet(cache[t]) \subseteq ToSet(cache'[t])
  /\ \A x \in ToSet(store') : x \notin ToSet(store) => x # 0 /\ x = Top(t).mine
  /\ \A x \in ToSet(cache'[t]) : x \notin ToSet(cache[t]) =>
       x # 0 /\ x = Top(t).mine /\ ScopeOf[Top(t).fix] = "test"
  /\ \A x \in live \ live' : x # 0 /\ x = Top(t).mine
  /\ StoreInv' /\ CacheInv(t)'

\* What the step may return: a value of that fixture, kept where its scope says.
Handed(t, v) ==
  /\ v \in live' /\ vals[v].fix = Top(t).fix
  /\ ScopeOf[Top(t).fix] = "process" => v \in ToSet(store')
  /\ ScopeOf[Top(t).fix] = "test" => v \in ToSet(cache'[t])
  /\ ScopeOf[Top(t).fix] = "variable" =>
       Private(t, v)' /\ vals[v].uses \subseteq Avail(t)' /\ v \notin given[t]

\* The value made by the innermost setup, if any, is nowhere yet.
LEMMA MineIsNew ==
  ASSUME IInv, NEW t \in Test, run = "tests", pc[t] = "setup", stack[t] # <<>>,
         NEW x, x # 0, x = Top(t).mine
  PROVE  /\ Private(t, x) /\ x \in live /\ x \notin given[t] /\ x \notin ToSet(handles[t])
         /\ vals[x].fix = Top(t).fix /\ vals[x].uses = Top(t).uses /\ x \in Nat
         /\ \A fr \in ToSet(stack[t]) : x \notin ToSet(fr.owned)
         /\ Top(t).stage = "return"
<1>1. Top(t) \in SetupFrame
  BY HeadTail DEF IInv, Types, Top
<1>2. x \in Nat \ {0}
  BY <1>1 DEF SetupFrame
<1>3. MineInv(t)
  BY DEF IInv, Thr, StackInv
<1> QED  BY <1>1, <1>2, <1>3 DEF MineInv

\* The setups in progress keep their part.
LEMMA FramesSettle ==
  ASSUME IInv, NEW t \in Test, Settles(t), NEW fr \in ToSet(stack[t]),
         pc' = pc, given'[t] = given[t]
  PROVE  FrameInv(t, fr)'
<1>1. FrameInv(t, fr)
  BY DEF IInv, Thr, StackInv, Settles
<1>2. \A v \in ToSet(fr.owned) : v # 0 => v # Top(t).mine
  BY MineIsNew DEF Settles
<1>3. \A v \in ToSet(fr.owned) : Private(t, v) => v \notin ToSet(store') /\ v \notin ToSet(cache'[t])
  BY <1>2 DEF Settles, Private
<1>4. pc[t] = "setup" => \A v \in ToSet(fr.owned) : v \notin given'[t]
  BY <1>1 DEF FrameInv
<1> QED  BY <1>1, <1>3, <1>4, FrameStays DEF Settles

\* The handles the test holds, and what it was given, too.
LEMMA OwnSettles ==
  ASSUME IInv, NEW t \in Test, Settles(t)
  PROVE  /\ \A v \in ToSet(handles[t]) : Private(t, v)' /\ vals'[v].uses \subseteq Avail(t)'
         /\ \A v \in given[t] :
              /\ v \in live'
              /\ IF ScopeOf[Fix(v)'] = "process" THEN v \in ToSet(store)' ELSE vals'[v].by = t
         /\ \A v \in ToSet(cache'[t]) : v \in DOMAIN vals' /\ ScopeOf[Fix(v)'] = "test"
<1>0. OwnInv(t) /\ Contents(t) /\ run = "tests" /\ pc[t] = "setup" /\ stack[t] # <<>>
  BY DEF IInv, Thr, Settles
<1>1. \A x \in ToSet(handles[t]) : Private(t, x) /\ ~(x # 0 /\ x = Top(t).mine)
  BY <1>0, MineIsNew DEF OwnInv
<1>2. \A v \in ToSet(handles[t]) : Private(t, v)'
  BY <1>1 DEF Settles, Private
<1>3. \A v \in ToSet(handles[t]) : vals'[v].uses \subseteq Avail(t)'
  BY <1>0 DEF Settles, OwnInv, Avail
<1>4. \A v \in given[t] : ~(v # 0 /\ v = Top(t).mine)
  BY <1>0, MineIsNew
<1>5. \A v \in given[t] : v \in live'
  BY <1>0, <1>4 DEF Settles, OwnInv
<1>6. \A v \in given[t] : IF ScopeOf[Fix(v)'] = "process" THEN v \in ToSet(store)' ELSE vals'[v].by = t
  BY <1>0 DEF Settles, OwnInv, Fix
<1>7. ASSUME NEW v \in ToSet(cache'[t]) PROVE v \in DOMAIN vals' /\ ScopeOf[Fix(v)'] = "test"
  <2>1. CASE v \in ToSet(cache[t])
    BY <1>0, <2>1 DEF Contents, Settles, Fix
  <2>2. CASE v \notin ToSet(cache[t])
    <3>1. v # 0 /\ v = Top(t).mine /\ ScopeOf[Top(t).fix] = "test"
      BY <2>2 DEF Settles
    <3>2. Private(t, v) /\ vals[v].fix = Top(t).fix
      BY <1>0, <3>1, MineIsNew
    <3> QED  BY <3>1, <3>2 DEF Settles, Private, Fix
  <2> QED  BY <2>1, <2>2
<1> QED  BY <1>2, <1>3, <1>5, <1>6, <1>7

\* A dependency of a process fixture is one.
LEMMA ProcessNeedsProcess ==
  ASSUME NEW f \in Fixture, NEW d \in Deps(f), ScopeOf[f] = "process"
  PROVE  d \in Fixture /\ ScopeOf[d] = "process"
<1>1. d \in Fixture /\ Rank(ScopeOf[d]) >= 2 /\ ScopeOf[d] \in {"variable", "test", "process"}
  BY FixturesAssumption DEF ValidateFixtureGraph, Rank
<1> QED  BY <1>1 DEF Rank

\* What the value handed out is to the test.
LEMMA HandedIsOwn ==
  ASSUME IInv, NEW t \in Test, Settles(t), NEW v, Handed(t, v)
  PROVE  /\ v \in Nat /\ v \in live' /\ v \in DOMAIN vals'
         /\ IF ScopeOf[Fix(v)'] = "process" THEN v \in ToSet(store)' ELSE vals'[v].by = t
         /\ ScopeOf[Top(t).fix] # "variable" => v \in Avail(t)'
<1>0. Types /\ Top(t) \in SetupFrame
  BY HeadTail DEF IInv, Types, Settles, Top
<1>1. v \in DOMAIN vals' /\ v \in Nat /\ v \in live'
  BY <1>0 DEF Types, Settles, Handed
<1>2. ScopeOf[Top(t).fix] \in {"variable", "test", "process"}
  BY <1>0, FixturesAssumption DEF SetupFrame
<1>3. CASE ScopeOf[Top(t).fix] = "test"
  <2>1. cache'[t] \in Seq(Nat) /\ v \in ToSet(cache'[t])
    BY <1>3 DEF Settles, Handed
  <2>2. PICK i \in 1 .. Len(cache'[t]) : v = cache'[t][i]
    BY <2>1, ToSetElements
  <2>3. vals'[v].by = t
    BY <2>2 DEF Settles, CacheInv
  <2> QED  BY <1>1, <1>3, <2>1, <2>3 DEF Handed, Settles, Fix, Avail
<1> QED  BY <1>1, <1>2, <1>3 DEF Handed, Settles, Fix, Avail, Private

LEMMA ReturnsToTest ==
  ASSUME IInv, NEW t \in Test, Settles(t), NEW v, Handed(t, v), Return(t, v),
         Tail(stack[t]) = <<>>,
         UNCHANGED <<todo, pc, body, unwinding, outcome, run>>
  PROVE  IInv'
<1>0. /\ Types /\ WayInv(t) /\ Contents(t) /\ OwnInv(t)
      /\ run = "tests" /\ pc[t] = "setup" /\ stack[t] # <<>>
  BY DEF IInv, Thr, Settles
<1>1. /\ v \in Nat /\ v \in live' /\ v \in DOMAIN vals'
      /\ IF ScopeOf[Fix(v)'] = "process" THEN v \in ToSet(store)' ELSE vals'[v].by = t
  BY HandedIsOwn
<1>2. /\ stack' = [stack EXCEPT ![t] = <<>>]
      /\ given' = [given EXCEPT ![t] = @ \cup {v}]
      /\ \/ ScopeOf[Top(t).fix] = "variable" /\ handles' = [handles EXCEPT ![t] = Append(@, v)]
         \/ handles' = handles
  BY DEF Return
<1>3. handles[t] \in Seq(Nat)
  BY <1>0 DEF Types
<1>4. /\ handles' \in [Test -> Seq(Nat)]
      /\ \A x \in ToSet(handles'[t]) : \/ x \in ToSet(handles[t])
                                       \/ x = v /\ ScopeOf[Top(t).fix] = "variable"
      /\ \A u \in Test \ {t} : handles'[u] = handles[u]
  <2>1. CASE ScopeOf[Top(t).fix] = "variable" /\ handles' = [handles EXCEPT ![t] = Append(@, v)]
    <3>1. handles'[t] = Append(handles[t], v)
      BY <1>0, <2>1 DEF Types
    <3>2. ToSet(Append(handles[t], v)) = ToSet(handles[t]) \cup {v}
      BY <1>1, <1>3, AppendRange
    <3> QED  BY <1>0, <1>1, <2>1, <3>1, <3>2 DEF Types
  <2> QED  BY <1>0, <1>2, <2>1 DEF Types
<1>5. /\ \A x \in ToSet(handles[t]) : Private(t, x)' /\ vals'[x].uses \subseteq Avail(t)'
      /\ \A x \in given[t] :
           /\ x \in live'
           /\ IF ScopeOf[Fix(x)'] = "process" THEN x \in ToSet(store)' ELSE vals'[x].by = t
      /\ \A x \in ToSet(cache'[t]) : x \in DOMAIN vals' /\ ScopeOf[Fix(x)'] = "test"
  BY OwnSettles
<1>6. given'[t] = given[t] \cup {v} /\ stack'[t] = <<>>
  BY <1>0, <1>2 DEF Types
<1>7. OwnInv(t)'
  <2>1. \A x \in ToSet(handles'[t]) : Private(t, x)' /\ vals'[x].uses \subseteq Avail(t)'
    BY <1>4, <1>5 DEF Handed, Settles
  <2>2. \A x \in given'[t] :
           /\ x \in live'
           /\ IF ScopeOf[Fix(x)'] = "process" THEN x \in ToSet(store)' ELSE vals'[x].by = t
    BY <1>1, <1>5, <1>6
  <2> QED  BY <2>1, <2>2 DEF OwnInv
<1>8. StackInv(t)'
  <2>1. stack'[t] = <<>> /\ ToSet(stack'[t]) = {} /\ Len(stack'[t]) = 0
    BY <1>6 DEF ToSet
  <2>2. \A i \in 2 .. 0 : FALSE
    OBVIOUS
  <2> QED  BY <2>1, <2>2 DEF StackInv, MineInv
<1>9. Types'
  <2>1. given' \in [Test -> SUBSET Nat]
    BY <1>0, <1>1, <1>2 DEF Types
  <2>2. stack' \in [Test -> Seq(SetupFrame)]
    <3>1. <<>> \in Seq(SetupFrame)
      OBVIOUS
    <3> QED  BY <1>0, <1>2, <3>1 DEF Types
  <2> QED  BY <1>0, <1>4, <2>1, <2>2 DEF Types, Settles
<1>10. WayInv(t)'
  BY <1>0 DEF WayInv
<1>11. Contents(t)'
  <2>1. ToSet(handles'[t]) \cup given'[t] \subseteq DOMAIN vals'
    BY <1>0, <1>1, <1>4, <1>6 DEF Contents, Settles
  <2> QED  BY <2>1, <1>5 DEF Contents
<1>12. Leaves(t)
  <2>1. /\ \A x \in ToSet(store') \ ToSet(store) : vals'[x].by = t
        /\ \A x \in live \ live' : vals[x].by = t /\ x \notin ToSet(store)
    BY <1>0, MineIsNew DEF Settles, Private
  <2> QED  BY <1>0, <1>2, <1>4, <2>1 DEF Leaves, Settles, Types
<1> QED  BY <1>0, <1>7, <1>8, <1>9, <1>10, <1>11, <1>12, StepKeeps DEF Thr, Settles

LEMMA ReturnsToSetup ==
  ASSUME IInv, NEW t \in Test, Settles(t), NEW v, Handed(t, v), Return(t, v),
         Tail(stack[t]) # <<>>,
         UNCHANGED <<todo, pc, body, unwinding, outcome, run>>
  PROVE  IInv'
<1>0. /\ Types /\ WayInv(t) /\ Contents(t) /\ OwnInv(t) /\ StackInv(t)
      /\ run = "tests" /\ pc[t] = "setup" /\ stack[t] # <<>> /\ stack[t] \in Seq(SetupFrame)
  BY DEF IInv, Thr, Settles, Types
<1>1. /\ v \in Nat /\ v \in live' /\ v \in DOMAIN vals'
      /\ ScopeOf[Top(t).fix] # "variable" => v \in Avail(t)'
  BY HandedIsOwn
<1>2. PICK rest : rest = Tail(stack[t])
  OBVIOUS
<1>3. /\ rest \in Seq(SetupFrame) /\ Len(rest) = Len(stack[t]) - 1 /\ rest # <<>>
      /\ \A i \in 1 .. (Len(stack[t]) - 1) : rest[i] = stack[t][i + 1]
      /\ ToSet(rest) \subseteq ToSet(stack[t]) /\ Top(t) = stack[t][1]
      /\ Len(stack[t]) \in Nat \ {0}
  BY <1>0, <1>2, HeadTail DEF Top
<1>4. PICK fr : fr = Head(rest)
  OBVIOUS
<1>5. PICK after : after = Tail(rest)
  OBVIOUS
<1>6. /\ fr \in SetupFrame /\ fr \in ToSet(stack[t]) /\ fr = stack[t][2] /\ Len(stack[t]) >= 2
      /\ after \in Seq(SetupFrame) /\ Len(after) = Len(stack[t]) - 2
      /\ \A i \in 1 .. (Len(stack[t]) - 2) : after[i] = stack[t][i + 2]
      /\ ToSet(after) \subseteq ToSet(stack[t])
  <2>1. /\ fr \in SetupFrame /\ fr \in ToSet(rest) /\ fr = rest[1] /\ Len(rest) \in Nat \ {0}
        /\ after \in Seq(SetupFrame) /\ Len(after) = Len(rest) - 1
        /\ \A i \in 1 .. (Len(rest) - 1) : after[i] = rest[i + 1]
        /\ ToSet(after) \subseteq ToSet(rest)
    BY <1>3, <1>4, <1>5, HeadTail
  <2> QED  BY <1>3, <2>1
<1>7. PICK fr2 : fr2 = IF ScopeOf[Top(t).fix] = "variable" THEN [fr EXCEPT !.owned = Append(@, v)]
                       ELSE [fr EXCEPT !.uses = @ \cup {v}]
  OBVIOUS
<1>8. stack' = [stack EXCEPT ![t] = <<fr2>> \o after] /\ given' = given /\ handles' = handles
  BY <1>2, <1>3, <1>4, <1>5, <1>7 DEF Return
<1>9. /\ fr2 \in SetupFrame /\ fr2.fix = fr.fix /\ fr2.stage = fr.stage /\ fr2.need = fr.need
      /\ fr2.mine = fr.mine
      /\ fr2.uses = fr.uses \/ (fr2.uses = fr.uses \cup {v} /\ ScopeOf[Top(t).fix] # "variable")
      /\ fr2.owned = fr.owned \/ (fr2.owned = Append(fr.owned, v) /\ ScopeOf[Top(t).fix] = "variable")
  <2>1. fr.owned \in Seq(Nat) /\ Append(fr.owned, v) \in Seq(Nat)
    BY <1>1, <1>6 DEF SetupFrame
  <2> QED  BY <1>1, <1>6, <1>7, <2>1 DEF SetupFrame
<1>10. \A x \in ToSet(fr2.owned) : x \in ToSet(fr.owned) \/ (x = v /\ ScopeOf[Top(t).fix] = "variable")
  <2>1. fr.owned \in Seq(Nat)
    BY <1>6 DEF SetupFrame
  <2>2. ToSet(Append(fr.owned, v)) = ToSet(fr.owned) \cup {v}
    BY <1>1, <2>1, AppendRange
  <2> QED  BY <1>9, <2>2
<1>11. PICK st : st = <<fr2>> \o after
  OBVIOUS
<1>12. /\ stack'[t] = st /\ st \in Seq(SetupFrame) /\ Len(st) = Len(stack[t]) - 1 /\ st[1] = fr2
       /\ \A i \in 2 .. Len(st) : st[i] = stack[t][i + 1]
       /\ ToSet(st) = {fr2} \cup ToSet(after) /\ Head(st) = fr2 /\ st # <<>>
  <2>1. /\ st \in Seq(SetupFrame) /\ Len(st) = Len(after) + 1 /\ st[1] = fr2
        /\ \A i \in 2 .. (Len(after) + 1) : st[i] = after[i - 1]
        /\ ToSet(st) = {fr2} \cup ToSet(after) /\ Head(st) = fr2 /\ st # <<>>
    BY <1>6, <1>9, <1>11, ConsSet
  <2>2. ASSUME NEW i \in 2 .. Len(st) PROVE st[i] = stack[t][i + 1]
    <3>1. i - 1 \in 1 .. (Len(stack[t]) - 2) /\ i \in 2 .. (Len(after) + 1) /\ i - 1 + 2 = i + 1
      BY <1>3, <1>6, <2>1, <2>2
    <3> QED  BY <1>6, <2>1, <3>1
  <2>3. stack'[t] = st
    BY <1>0, <1>8, <1>11 DEF Types
  <2>4. Len(st) = Len(stack[t]) - 1
    BY <1>3, <1>6, <2>1
  <2> QED  BY <2>1, <2>2, <2>3, <2>4
<1>13. \A x \in ToSet(stack[t]) : FrameInv(t, x)'
  BY <1>8, FramesSettle
<1>14. Top(t).fix \in Deps(fr.fix) /\ fr.stage = "setup" /\ fr.mine = 0 /\ fr.fix \in Fixture
  <2>1. 2 \in 2 .. Len(stack[t]) /\ 2 - 1 = 1
    BY <1>3, <1>6
  <2>2. stack[t][2 - 1].fix \in Deps(stack[t][2].fix) /\ stack[t][2].stage = "setup" /\ stack[t][2].mine = 0
    BY <1>0, <2>1 DEF StackInv
  <2> QED  BY <1>3, <1>6, <2>1, <2>2 DEF SetupFrame
<1>15. FrameInv(t, fr2)'
  <2>1. FrameInv(t, fr)'
    BY <1>6, <1>13
  <2>2. fr2.uses \subseteq Avail(t)'
    BY <2>1, <1>1, <1>9 DEF FrameInv
  <2>3. ScopeOf[fr2.fix] = "process" => fr2.uses \subseteq ToSet(store')
    <3>1. SUFFICES ASSUME ScopeOf[fr.fix] = "process" PROVE fr2.uses \subseteq ToSet(store')
      BY <1>9
    <3>2. v \in ToSet(store')
      BY <1>14, <3>1, ProcessNeedsProcess DEF Handed
    <3> QED  BY <2>1, <1>9, <3>1, <3>2 DEF FrameInv
  <2>4. \A x \in ToSet(fr2.owned) :
           Private(t, x)' /\ vals'[x].uses \subseteq Avail(t)' /\ (pc'[t] = "setup" => x \notin given'[t])
    BY <2>1, <1>8, <1>10 DEF FrameInv, Handed, Settles
  <2> QED  BY <2>1, <2>2, <2>3, <2>4, <1>9 DEF FrameInv, Deps
<1>16. StackInv(t)'
  <2>1. \A x \in ToSet(stack'[t]) : FrameInv(t, x)'
    BY <1>6, <1>12, <1>13, <1>15
  <2>2. ASSUME NEW i \in 2 .. Len(st)
        PROVE  st[i].stage = "setup" /\ st[i].mine = 0 /\ st[i - 1].fix \in Deps(st[i].fix)
    <3>1. i + 1 \in 2 .. Len(stack[t]) /\ i + 1 - 1 = i /\ st[i] = stack[t][i + 1]
      BY <1>3, <1>12, <2>2
    <3>2. st[i].stage = "setup" /\ st[i].mine = 0 /\ stack[t][i].fix \in Deps(st[i].fix)
      <4>1. \A k \in 2 .. Len(stack[t]) :
              /\ stack[t][k].stage = "setup" /\ stack[t][k].mine = 0
              /\ stack[t][k - 1].fix \in Deps(stack[t][k].fix)
        BY <1>0 DEF StackInv
      <4> QED  BY <3>1, <4>1
    <3>3. st[i - 1].fix = stack[t][i].fix
      <4>1. CASE i = 2
        BY <1>6, <1>9, <1>12, <4>1
      <4>2. CASE i # 2
        <5>1. i - 1 \in 2 .. Len(st) /\ i - 1 + 1 = i
          BY <1>3, <1>12, <2>2, <4>2
        <5> QED  BY <1>12, <5>1
      <4> QED  BY <4>1, <4>2
    <3> QED  BY <3>2, <3>3
  <2>3. MineInv(t)'
    <3>1. Top(t)' = fr2 /\ fr2.mine = 0
      BY <1>9, <1>12, <1>14 DEF Top
    <3> QED  BY <3>1 DEF MineInv
  <2> QED  BY <1>12, <2>1, <2>2, <2>3 DEF StackInv, Deps
<1>17. OwnInv(t)' /\ Contents(t)'
  BY <1>0, <1>8, OwnSettles DEF OwnInv, Contents, Settles
<1>18. Types'
  <2>1. stack' \in [Test -> Seq(SetupFrame)]
    BY <1>0, <1>8, <1>11, <1>12 DEF Types
  <2> QED  BY <1>0, <1>8, <2>1 DEF Types, Settles
<1>19. WayInv(t)'
  BY <1>0 DEF WayInv
<1>20. Leaves(t)
  <2>1. /\ \A x \in ToSet(store') \ ToSet(store) : vals'[x].by = t
        /\ \A x \in live \ live' : vals[x].by = t /\ x \notin ToSet(store)
    BY <1>0, MineIsNew, SMTT(40) DEF Settles, Private
  <2> QED  BY <1>0, <1>8, <2>1 DEF Leaves, Settles, Types
<1> QED  BY <1>0, <1>16, <1>17, <1>18, <1>19, <1>20, StepKeeps DEF Thr, Settles

\* A step that settles its value and returns.
LEMMA ReturnKeeps ==
  ASSUME IInv, NEW t \in Test, Settles(t), NEW v, Handed(t, v), Return(t, v),
         UNCHANGED <<todo, pc, body, unwinding, outcome, run>>
  PROVE  IInv'
BY ReturnsToTest, ReturnsToSetup

-----------------------------------------------------------------------------
(* Steps inside a setup.                                                   *)

\* A step of a setup that makes no value and moves none.
LEMMA QuietSettles ==
  ASSUME IInv, NEW t \in Test, run = "tests", pc[t] = "setup", stack[t] # <<>>,
         UNCHANGED <<heap, cache>>
  PROVE  Settles(t)
<1>1. UNCHANGED <<vals, store, cache>> /\ live' = live /\ poisoned' = poisoned
  BY DEF heap
<1>2. StoreInv' /\ CacheInv(t)'
  BY <1>1, DropsSpareStores
<1>3. Types
  BY DEF IInv
<1> QED  BY <1>1, <1>2, <1>3 DEF Settles, Types

\* The innermost setup moves on, and the ones that called it stay.
LEMMA TopMoves ==
  ASSUME IInv, NEW t \in Test, run = "tests", pc[t] = "setup", pc'[t] = "setup", stack[t] # <<>>,
         NEW fr2 \in SetupFrame, fr2.fix = Top(t).fix,
         stack' = [stack EXCEPT ![t] = [stack[t] EXCEPT ![1] = fr2]],
         \A fr \in ToSet(stack[t]) : FrameInv(t, fr)', FrameInv(t, fr2)',
         fr2.stage # "return" => fr2.mine = 0,
         \A m \in Nat \ {0} : m = fr2.mine =>
           /\ Private(t, m)' /\ m \in live' /\ m \notin given'[t] /\ m \notin ToSet(handles'[t])
           /\ vals'[m].fix = fr2.fix /\ vals'[m].uses = fr2.uses
           /\ \A fr \in ToSet(stack[t]) \cup {fr2} : m \notin ToSet(fr.owned)
  PROVE  StackInv(t)' /\ stack' \in [Test -> Seq(SetupFrame)]
<1>0. Types /\ StackInv(t) /\ stack[t] \in Seq(SetupFrame)
  BY DEF IInv, Thr, Types
<1>1. PICK st : st = [stack[t] EXCEPT ![1] = fr2]
  OBVIOUS
<1>2. Len(stack[t]) \in Nat \ {0} /\ Top(t) = stack[t][1] /\ Top(t) \in SetupFrame
  BY <1>0, HeadTail DEF Top
<1>3. /\ st \in Seq(SetupFrame) /\ Len(st) = Len(stack[t]) /\ st[1] = fr2
      /\ \A i \in 2 .. Len(stack[t]) : st[i] = stack[t][i]
  BY <1>0, <1>1, <1>2
<1>4. stack'[t] = st /\ stack' \in [Test -> Seq(SetupFrame)]
  BY <1>0, <1>1, <1>3 DEF Types
<1>5. st # <<>> /\ Head(st) = fr2
  BY <1>2, <1>3, HeadTail
<1>6. \A x \in ToSet(st) : x \in ToSet(stack[t]) \cup {fr2}
  BY <1>0, <1>1, NewFirst
<1>7. \A x \in ToSet(stack'[t]) : FrameInv(t, x)'
  BY <1>4, <1>6
<1>8. ASSUME NEW i \in 2 .. Len(st)
      PROVE  st[i].stage = "setup" /\ st[i].mine = 0 /\ st[i - 1].fix \in Deps(st[i].fix)
  <2>1. \A k \in 2 .. Len(stack[t]) :
          /\ stack[t][k].stage = "setup" /\ stack[t][k].mine = 0
          /\ stack[t][k - 1].fix \in Deps(stack[t][k].fix)
    BY <1>0 DEF StackInv
  <2>2. st[i] = stack[t][i] /\ i \in 2 .. Len(stack[t])
    BY <1>3, <1>8
  <2>3. st[i - 1].fix = stack[t][i - 1].fix
    <3>1. CASE i = 2
      BY <1>2, <1>3, <3>1
    <3>2. CASE i # 2
      <4>1. i - 1 \in 2 .. Len(stack[t])
        BY <1>2, <1>3, <1>8, <3>2
      <4> QED  BY <1>3, <4>1
    <3> QED  BY <3>1, <3>2
  <2> QED  BY <2>1, <2>2, <2>3
<1>9. MineInv(t)'
  <2>1. Top(t)' = fr2
    BY <1>4, <1>5 DEF Top
  <2>2. \A fr \in ToSet(stack'[t]) : fr \in ToSet(stack[t]) \cup {fr2}
    BY <1>4, <1>6
  <2> QED  BY <2>1, <2>2 DEF MineInv
<1> QED  BY <1>4, <1>7, <1>8, <1>9 DEF StackInv, Deps

\* Only the innermost setup changes.
LEMMA QuietTopKeeps ==
  ASSUME IInv, NEW t \in Test, run = "tests", pc[t] = "setup", stack[t] # <<>>,
         UNCHANGED <<heap, cache, handles, todo, given, pc, body, unwinding, outcome, run>>,
         StackInv(t)', stack' \in [Test -> Seq(SetupFrame)],
         \A u \in Test \ {t} : stack'[u] = stack[u]
  PROVE  IInv'
<1>0. Types /\ WayInv(t)
  BY DEF IInv
<1>1. StoreInv' /\ CacheInv(t)' /\ OwnInv(t)' /\ Contents(t)'
  BY DropsAreSafe DEF heap
<1>2. Types'
  BY <1>0 DEF Types, heap
<1>3. WayInv(t)'
  BY <1>0 DEF WayInv
<1>4. Leaves(t)
  BY DEF Leaves, heap, ToSet
<1> QED  BY <1>1, <1>2, <1>3, <1>4, StepKeeps DEF Thr

LEMMA SetupErrKeeps ==
  ASSUME IInv, NEW t \in Test, SetupErr(t)
  PROVE  IInv'
<1> USE DEF SetupErr, InSetup
<1>0. /\ Types /\ StackInv(t) /\ run = "tests" /\ pc[t] = "setup" /\ stack[t] # <<>>
      /\ stack[t] \in Seq(SetupFrame) /\ UNCHANGED <<heap, cache>>
  BY DEF IInv, Thr, Types
<1>1. Top(t) \in SetupFrame /\ Top(t) = stack[t][1] /\ Len(stack[t]) \in Nat \ {0} /\ Top(t) \in ToSet(stack[t])
  BY <1>0, HeadTail DEF Top
<1>2. PICK fr2 : fr2 = [Top(t) EXCEPT !.stage = "return"]
  OBVIOUS
<1>3. /\ fr2 \in SetupFrame /\ fr2.fix = Top(t).fix /\ fr2.need = Top(t).need
      /\ fr2.uses = Top(t).uses /\ fr2.owned = Top(t).owned /\ fr2.mine = Top(t).mine
      /\ fr2.stage = "return"
  BY <1>1, <1>2 DEF SetupFrame
<1>4. stack' = [stack EXCEPT ![t] = [stack[t] EXCEPT ![1] = fr2]]
  BY <1>0, <1>1, <1>2 DEF Types
<1>5. Settles(t)
  BY <1>0, QuietSettles
<1>6. \A fr \in ToSet(stack[t]) : FrameInv(t, fr)'
  BY <1>5, FramesSettle
<1>7. FrameInv(t, fr2)'
  BY <1>1, <1>3, <1>6 DEF FrameInv
<1>8. fr2.mine = 0
  BY <1>0, <1>3 DEF StackInv, MineInv
<1>9. StackInv(t)' /\ stack' \in [Test -> Seq(SetupFrame)]
  BY <1>0, <1>3, <1>4, <1>6, <1>7, <1>8, TopMoves
<1>10. \A u \in Test \ {t} : stack'[u] = stack[u]
  BY <1>0, <1>4 DEF Types
<1> QED  BY <1>0, <1>9, <1>10, QuietTopKeeps

LEMMA LookupKeeps ==
  ASSUME IInv, NEW t \in Test, Lookup(t)
  PROVE  IInv'
<1> USE DEF InSetup, Thread
<1>0. /\ Types /\ StoreInv /\ CacheInv(t) /\ StackInv(t)
      /\ run = "tests" /\ pc[t] = "setup" /\ stack[t] # <<>>
      /\ stack[t] \in Seq(SetupFrame) /\ UNCHANGED <<heap, cache, todo, body, outcome, run>>
      /\ store \in Seq(Nat) /\ cache[t] \in Seq(Nat) /\ live \subseteq DOMAIN vals
  BY DEF IInv, Thr, Types, Lookup
<1>1. Top(t) \in SetupFrame /\ Top(t) = stack[t][1] /\ Len(stack[t]) \in Nat \ {0} /\ Top(t) \in ToSet(stack[t])
  BY <1>0, HeadTail DEF Top
<1>2. Settles(t)
  BY <1>0, QuietSettles
<1>3. CASE LockFails(Top(t).fix)
  <2>1. Unwind(t, stack[t]) /\ UNCHANGED given
    BY <1>3 DEF Lookup
  <2>2. pc'[t] # "setup" /\ poisoned' \in BOOLEAN /\ UNCHANGED <<vals, store, cache>> /\ live' = live
    BY <1>0, <2>1 DEF Types, Unwind, Goto, heap
  <2>3. \A fr \in ToSet(stack[t]) : FrameInv(t, fr)'
    BY <1>0, <2>2, FrameSits DEF StackInv
  <2> QED  BY <1>0, <2>1, <2>2, <2>3, UnwindKeeps
<1>4. CASE ~LockFails(Top(t).fix)
  <2> DEFINE hit == IF ScopeOf[Top(t).fix] = "test" THEN Cached(cache[t], Top(t).fix)
                    ELSE IF ScopeOf[Top(t).fix] = "process" THEN Cached(store, Top(t).fix)
                    ELSE {}
  <2>0. /\ UNCHANGED <<pc, unwinding>>
        /\ \/ \E v \in hit : Return(t, v)
           \/ stack' = [stack EXCEPT ![t][1].stage = "setup"] /\ hit = {} /\ UNCHANGED <<given, handles>>
    BY <1>4 DEF Lookup
  <2>1. ASSUME NEW v \in hit, Return(t, v) PROVE IInv'
    <3>0. /\ vals[v].fix = Top(t).fix
          /\ \/ ScopeOf[Top(t).fix] = "test" /\ v \in ToSet(cache[t])
             \/ ScopeOf[Top(t).fix] = "process" /\ v \in ToSet(store)
      BY <2>1 DEF Cached, Fix
    <3>1. v \in live
      <4>1. ASSUME NEW x \in ToSet(cache[t]) PROVE x \in live
        <5>1. PICK i \in 1 .. Len(cache[t]) : x = cache[t][i]
          BY <1>0, ToSetElements
        <5> QED  BY <1>0, <5>1 DEF CacheInv
      <4>2. \A x \in ToSet(store) : x \in live
        BY <1>0, ToSetElements, SMTT(40) DEF StoreInv
      <4> QED  BY <3>0, <4>1, <4>2
    <3>2. Handed(t, v)
      BY <1>0, <3>0, <3>1 DEF Handed, heap
    <3> QED  BY <1>0, <1>2, <2>0, <2>1, <3>2, ReturnKeeps
  <2>2. CASE stack' = [stack EXCEPT ![t][1].stage = "setup"] /\ UNCHANGED <<given, handles>>
    <3>0. Top(t).stage = "lookup"
      BY DEF Lookup
    <3>2. PICK fr2 : fr2 = [Top(t) EXCEPT !.stage = "setup"]
      OBVIOUS
    <3>3. /\ fr2 \in SetupFrame /\ fr2.fix = Top(t).fix /\ fr2.need = Top(t).need
          /\ fr2.uses = Top(t).uses /\ fr2.owned = Top(t).owned /\ fr2.mine = Top(t).mine
          /\ fr2.stage = "setup"
      BY <1>1, <3>2 DEF SetupFrame
    <3>4. stack' = [stack EXCEPT ![t] = [stack[t] EXCEPT ![1] = fr2]]
      BY <1>0, <1>1, <2>2, <3>2 DEF Types
    <3>6. \A fr \in ToSet(stack[t]) : FrameInv(t, fr)'
      BY <1>2, <2>0, <2>2, FramesSettle
    <3>7. FrameInv(t, fr2)'
      BY <1>1, <3>3, <3>6 DEF FrameInv
    <3>8. fr2.mine = 0
      BY <1>0, <3>0, <3>3 DEF StackInv, MineInv
    <3>9. StackInv(t)' /\ stack' \in [Test -> Seq(SetupFrame)]
      BY <1>0, <2>0, <3>3, <3>4, <3>6, <3>7, <3>8, TopMoves
    <3>10. \A u \in Test \ {t} : stack'[u] = stack[u]
      BY <1>0, <3>4 DEF Types
    <3> QED  BY <1>0, <2>0, <2>2, <3>9, <3>10, QuietTopKeeps
  <2> QED  BY <2>0, <2>1, <2>2
<1> QED  BY <1>3, <1>4

LEMMA SetupOkKeeps ==
  ASSUME IInv, NEW t \in Test, SetupOk(t)
  PROVE  IInv'
<1> USE DEF InSetup
<1>0. /\ Types /\ StoreInv /\ CacheInv(t) /\ StackInv(t) /\ OwnInv(t) /\ Contents(t) /\ WayInv(t)
      /\ run = "tests" /\ pc[t] = "setup" /\ stack[t] # <<>>
      /\ UNCHANGED <<store, poisoned, cache, handles, todo, given, pc, body, unwinding, outcome, run>>
      /\ stack[t] \in Seq(SetupFrame)
  BY DEF IInv, Thr, Types, SetupOk
<1>1. Top(t) \in SetupFrame /\ Top(t) = stack[t][1] /\ Len(stack[t]) \in Nat \ {0} /\ Top(t) \in ToSet(stack[t])
  BY <1>0, HeadTail DEF Top
<1>2. PICK new : new = [fix |-> Top(t).fix, uses |-> Top(t).uses, by |-> t]
  OBVIOUS
<1>3. PICK n : n = Len(vals) + 1
  OBVIOUS
<1>4. new \in Value /\ new.by = t /\ new.fix = Top(t).fix /\ new.uses = Top(t).uses
  BY <1>1, <1>2 DEF SetupFrame, Value
<1>5. /\ vals' = Append(vals, new) /\ vals' \in Seq(Value) /\ Len(vals') = n /\ n \in Nat \ {0}
      /\ DOMAIN vals = 1 .. (n - 1) /\ DOMAIN vals' = 1 .. n /\ vals'[n] = new
      /\ \A v \in DOMAIN vals : v \in DOMAIN vals' /\ vals'[v] = vals[v] /\ v # n
  BY <1>0, <1>2, <1>3, <1>4 DEF Types, SetupOk
<1>6. live' = live \cup {n}
  BY <1>5 DEF SetupOk
<1>7. PICK fr2 : fr2 = [Top(t) EXCEPT !.stage = "return", !.mine = n]
  OBVIOUS
<1>8. /\ fr2 \in SetupFrame /\ fr2.fix = Top(t).fix /\ fr2.need = Top(t).need
      /\ fr2.uses = Top(t).uses /\ fr2.owned = Top(t).owned /\ fr2.mine = n
      /\ fr2.stage = "return"
  BY <1>1, <1>5, <1>7 DEF SetupFrame
<1>9. stack' = [stack EXCEPT ![t] = [stack[t] EXCEPT ![1] = fr2]]
  <2>1. stack' = [stack EXCEPT ![t][1] = [@ EXCEPT !.stage = "return", !.mine = n]]
    BY <1>5 DEF SetupOk
  <2> QED  BY <1>0, <1>1, <1>7, <2>1 DEF Types
<1>10. \A v \in ToSet(store) \cup ToSet(cache[t]) \cup given[t] \cup ToSet(handles[t]) : v \in DOMAIN vals
  <2>1. store \in Seq(Nat) /\ live \subseteq DOMAIN vals
    BY <1>0 DEF Types
  <2>2. \A v \in ToSet(store) : v \in DOMAIN vals
    BY <1>0, <2>1, ToSetElements DEF StoreInv
  <2> QED  BY <1>0, <2>2 DEF Contents
<1>11. \A v : Private(t, v) => Private(t, v)'
  BY <1>0, <1>5 DEF Private, ToSet
<1>12. \A fr \in ToSet(stack[t]) : FrameInv(t, fr)'
  <2>1. ASSUME NEW fr \in ToSet(stack[t]) PROVE FrameInv(t, fr)'
    <3>1. FrameInv(t, fr)
      BY <1>0 DEF StackInv
    <3>2. \A v \in ToSet(fr.owned) : Private(t, v) => v \notin ToSet(store') /\ v \notin ToSet(cache'[t])
      BY <1>0 DEF Private
    <3>3. \A v \in ToSet(fr.owned) : v \notin given'[t]
      BY <1>0, <3>1 DEF FrameInv
    <3> QED  BY <1>0, <1>5, <3>1, <3>2, <3>3, FrameStays
  <2> QED  BY <2>1
<1>13. FrameInv(t, fr2)'
  BY <1>1, <1>8, <1>12 DEF FrameInv
<1>14. /\ Private(t, n)' /\ n \in live' /\ n \notin given'[t] /\ n \notin ToSet(handles'[t])
       /\ vals'[n].fix = fr2.fix /\ vals'[n].uses = fr2.uses
  <2>1. n \notin DOMAIN vals
    BY <1>5
  <2>2. Private(t, n)'
    BY <1>0, <1>4, <1>5, <1>10, <2>1 DEF Private
  <2> QED  BY <1>0, <1>4, <1>5, <1>6, <1>8, <1>10, <2>1, <2>2
<1>15. \A fr \in ToSet(stack[t]) \cup {fr2} : n \notin ToSet(fr.owned)
  <2>1. n \notin DOMAIN vals
    BY <1>5
  <2>2. \A fr \in ToSet(stack[t]) : n \notin ToSet(fr.owned)
    BY <1>0, <2>1 DEF StackInv, FrameInv, Private
  <2> QED  BY <1>1, <1>8, <2>2
<1>16. StackInv(t)' /\ stack' \in [Test -> Seq(SetupFrame)]
  BY <1>0, <1>8, <1>9, <1>12, <1>13, <1>14, <1>15, TopMoves
<1>17. Types'
  <2>1. \A v \in DOMAIN vals' : vals'[v].uses \subseteq 1 .. v - 1
    <3>1. ASSUME NEW v \in DOMAIN vals' PROVE vals'[v].uses \subseteq 1 .. v - 1
      <4>1. CASE v = n
        <5>1. FrameInv(t, Top(t))
          BY <1>0, <1>1 DEF StackInv
        <5>2. Top(t).uses \subseteq DOMAIN vals
          BY <5>1, <1>10 DEF FrameInv, Avail
        <5> QED  BY <4>1, <5>2, <1>4, <1>5
      <4>2. CASE v # n
        <5>1. v \in DOMAIN vals
          BY <1>5, <3>1, <4>2
        <5> QED  BY <1>0, <1>5, <5>1 DEF Types
      <4> QED  BY <4>1, <4>2
    <3> QED  BY <3>1
  <2>2. live' \subseteq DOMAIN vals'
    BY <1>0, <1>5, <1>6 DEF Types
  <2> QED  BY <1>0, <1>5, <1>16, <2>1, <2>2 DEF Types
<1>18. StoreInv'
  <2>1. \A i \in 1 .. Len(store) : store[i] \in live /\ store[i] \in DOMAIN vals
    BY <1>0 DEF StoreInv, Types
  <2>2. \A i \in 1 .. Len(store) : store[i] \in live' /\ vals'[store[i]] = vals[store[i]]
    BY <1>5, <1>6, <2>1
  <2>3. ASSUME NEW i \in 1 .. Len(store)
        PROVE  /\ store[i] \in live' /\ ScopeOf[vals'[store[i]].fix] = "process"
               /\ \A u \in vals'[store[i]].uses : \E j \in 1 .. (i - 1) : u = store[j]
    <3>1. /\ ScopeOf[vals[store[i]].fix] = "process"
          /\ \A u \in vals[store[i]].uses : \E j \in 1 .. (i - 1) : u = store[j]
      BY <1>0, Zenon DEF StoreInv, Fix
    <3> QED  BY <3>1, <2>2, Zenon
  <2>4. \A i, j \in 1 .. Len(store) : vals'[store[i]].fix = vals'[store[j]].fix => i = j
    BY <1>0, <2>2 DEF StoreInv, Fix
  <2> QED  BY <1>0, <2>3, <2>4 DEF StoreInv, Fix
<1>19. CacheInv(t)'
  <2>1. \A i \in 1 .. Len(cache[t]) : cache[t][i] \in live /\ cache[t][i] \in DOMAIN vals
    BY <1>0 DEF CacheInv, Types
  <2>2. \A i \in 1 .. Len(cache[t]) : cache[t][i] \in live' /\ vals'[cache[t][i]] = vals[cache[t][i]]
    BY <1>5, <1>6, <2>1
  <2>3. ASSUME NEW i \in 1 .. Len(cache[t])
        PROVE  /\ cache[t][i] \in live' /\ vals'[cache[t][i]].by = t
               /\ \A u \in vals'[cache[t][i]].uses :
                    u \in ToSet(store) \/ \E j \in 1 .. (i - 1) : u = cache[t][j]
    <3>1. /\ vals[cache[t][i]].by = t
          /\ \A u \in vals[cache[t][i]].uses :
               u \in ToSet(store) \/ \E j \in 1 .. (i - 1) : u = cache[t][j]
      BY <1>0, Zenon DEF CacheInv
    <3> QED  BY <2>2, <3>1, Zenon
  <2>4. \A i, j \in 1 .. Len(cache[t]) : cache[t][i] = cache[t][j] => i = j
    BY <1>0 DEF CacheInv
  <2>5. CacheInv(t)' <=>
          /\ \A i \in 1 .. Len(cache[t]) :
               /\ cache[t][i] \in live' /\ vals'[cache[t][i]].by = t
               /\ \A u \in vals'[cache[t][i]].uses :
                    u \in ToSet(store) \/ \E j \in 1 .. (i - 1) : u = cache[t][j]
          /\ \A i, j \in 1 .. Len(cache[t]) : cache[t][i] = cache[t][j] => i = j
    BY <1>0 DEF CacheInv, ToSet
  <2> QED  BY <2>3, <2>4, <2>5, Zenon
<1>20. OwnInv(t)' /\ Contents(t)'
  <2>1. OwnInv(t)'
    BY <1>0, <1>5, <1>6, <1>10, <1>11 DEF OwnInv, Avail, Fix
  <2>2. Contents(t)'
    BY <1>0, <1>5, <1>10 DEF Contents, Fix
  <2> QED  BY <2>1, <2>2
<1>21. WayInv(t)'
  BY <1>0 DEF WayInv
<1>22. Leaves(t)
  BY <1>0, <1>5, <1>6, <1>9 DEF Leaves, Types
<1> QED  BY <1>0, <1>16, <1>17, <1>18, <1>19, <1>20, <1>21, <1>22, StepKeeps DEF Thr

LEMMA FixtureGetKeeps ==
  ASSUME IInv, NEW t \in Test, FixtureGet(t)
  PROVE  IInv'
<1>0. /\ Types /\ StackInv(t) /\ WayInv(t) /\ run = "tests" /\ pc[t] = "setup"
      /\ UNCHANGED <<heap, cache, handles, given, pc, body, unwinding, outcome, run>>
      /\ stack[t] \in Seq(SetupFrame) /\ todo[t] \in Seq(Fixture)
  BY DEF IInv, Thr, Types, FixtureGet
<1>1. ASSUME NEW f \in Fixture
      PROVE  Frame(f) \in SetupFrame /\ FrameInv(t, Frame(f))' /\ Frame(f).mine = 0 /\ Frame(f).fix = f
  <2>1. Frame(f) \in SetupFrame /\ Frame(f).mine = 0 /\ Frame(f).fix = f
    BY FixturesAssumption DEF Frame, SetupFrame
  <2>2. ToSet(Frame(f).need) = Deps(f) /\ Frame(f).uses = {} /\ ToSet(Frame(f).owned) = {}
    BY DEF Frame, Deps, ToSet
  <2> QED  BY <2>1, <2>2 DEF FrameInv, Deps
<1>2. StoreInv' /\ CacheInv(t)' /\ OwnInv(t)' /\ Contents(t)'
  BY <1>0, DropsAreSafe DEF heap
<1>3. WayInv(t)'
  BY <1>0 DEF WayInv
<1>4. StackInv(t)' /\ stack' \in [Test -> Seq(SetupFrame)] /\ todo' \in [Test -> Seq(Fixture)]
      /\ \A u \in Test \ {t} : stack'[u] = stack[u]
  <2>1. CASE /\ stack[t] = <<>> /\ todo[t] # <<>>
             /\ stack' = [stack EXCEPT ![t] = <<Frame(Head(todo[t]))>>]
             /\ todo' = [todo EXCEPT ![t] = Tail(@)]
    <3>1. PICK f : f = Head(todo[t])
      OBVIOUS
    <3>2. f \in Fixture /\ Tail(todo[t]) \in Seq(Fixture)
      BY <1>0, <2>1, <3>1, HeadTail
    <3>3. PICK fr : fr = Frame(f)
      OBVIOUS
    <3>4. fr \in SetupFrame /\ FrameInv(t, fr)' /\ fr.mine = 0
      BY <1>1, <3>2, <3>3
    <3>5. stack'[t] = <<fr>> /\ <<fr>> \in Seq(SetupFrame) /\ Len(<<fr>>) = 1 /\ Head(<<fr>>) = fr
          /\ ToSet(<<fr>>) = {fr}
      BY <1>0, <2>1, <3>1, <3>3, <3>4 DEF Types, ToSet
    <3>6. MineInv(t)'
      BY <3>4, <3>5 DEF MineInv, Top
    <3>7. \A i \in 2 .. 1 : FALSE
      OBVIOUS
    <3>8. StackInv(t)'
      BY <3>4, <3>5, <3>6, <3>7 DEF StackInv
    <3> QED  BY <1>0, <2>1, <3>1, <3>2, <3>3, <3>5, <3>8 DEF Types
  <2>2. CASE /\ stack[t] # <<>> /\ Top(t).stage = "setup" /\ Top(t).need # <<>>
             /\ stack' = [stack EXCEPT ![t] = <<Frame(Head(Top(t).need))>> \o [stack[t] EXCEPT ![1].need = Tail(@)]]
             /\ UNCHANGED todo
    <3>1. /\ Top(t) \in SetupFrame /\ Top(t) = stack[t][1] /\ Len(stack[t]) \in Nat \ {0}
          /\ Top(t) \in ToSet(stack[t])
      BY <1>0, <2>2, HeadTail DEF Top
    <3>2. PICK f : f = Head(Top(t).need)
      OBVIOUS
    <3>3. Top(t).need \in Seq(Fixture)
      BY <3>1 DEF SetupFrame
    <3>4. f \in Fixture /\ f \in ToSet(Top(t).need) /\ Tail(Top(t).need) \in Seq(Fixture)
          /\ ToSet(Tail(Top(t).need)) \subseteq ToSet(Top(t).need)
      BY <2>2, <3>2, <3>3, HeadTail
    <3>5. FrameInv(t, Top(t))
      BY <1>0, <3>1 DEF StackInv
    <3>6. f \in Deps(Top(t).fix)
      BY <3>4, <3>5 DEF FrameInv
    <3>7. PICK fr2 : fr2 = [Top(t) EXCEPT !.need = Tail(@)]
      OBVIOUS
    <3>8. /\ fr2 \in SetupFrame /\ fr2.fix = Top(t).fix /\ fr2.need = Tail(Top(t).need)
          /\ fr2.uses = Top(t).uses /\ fr2.owned = Top(t).owned /\ fr2.mine = Top(t).mine
          /\ fr2.stage = "setup"
      BY <2>2, <3>1, <3>4, <3>7 DEF SetupFrame
    <3>9. PICK old : old = [stack[t] EXCEPT ![1] = fr2]
      OBVIOUS
    <3>10. /\ old \in Seq(SetupFrame) /\ Len(old) = Len(stack[t]) /\ old[1] = fr2
           /\ \A i \in 2 .. Len(stack[t]) : old[i] = stack[t][i]
      BY <1>0, <3>1, <3>8, <3>9
    <3>11. PICK fr : fr = Frame(f)
      OBVIOUS
    <3>12. fr \in SetupFrame /\ FrameInv(t, fr)' /\ fr.mine = 0 /\ fr.fix = f
      BY <1>1, <3>4, <3>11
    <3>13. PICK st : st = <<fr>> \o old
      OBVIOUS
    <3>14. stack' = [stack EXCEPT ![t] = st]
      <4>1. [stack[t] EXCEPT ![1].need = Tail(@)] = old
        BY <1>0, <3>1, <3>7, <3>9
      <4>2. stack' = [stack EXCEPT ![t] = <<Frame(Head(Top(t).need))>> \o [stack[t] EXCEPT ![1].need = Tail(@)]]
        BY <2>2
      <4> QED  BY <4>1, <4>2, <3>2, <3>11, <3>13
    <3>15. /\ st \in Seq(SetupFrame) /\ Len(st) = Len(old) + 1 /\ st # <<>>
           /\ st[1] = fr /\ \A i \in 2 .. (Len(old) + 1) : st[i] = old[i - 1]
           /\ ToSet(st) = {fr} \cup ToSet(old) /\ Head(st) = fr
      BY <3>10, <3>12, <3>13, ConsSet
    <3>16. stack'[t] = st /\ stack' \in [Test -> Seq(SetupFrame)] /\ \A u \in Test \ {t} : stack'[u] = stack[u]
      BY <1>0, <3>14, <3>15 DEF Types
    <3>17. Settles(t)
      BY <1>0, <2>2, QuietSettles
    <3>18. \A x \in ToSet(stack[t]) : FrameInv(t, x)'
      BY <1>0, <3>17, FramesSettle
    <3>19. FrameInv(t, fr2)'
      BY <3>1, <3>4, <3>8, <3>18 DEF FrameInv
    <3>20. ASSUME NEW x \in ToSet(st) PROVE FrameInv(t, x)'
      <4>1. CASE x = fr
        BY <3>12, <4>1
      <4>2. CASE x \in ToSet(old)
        <5>1. PICK i \in 1 .. Len(old) : x = old[i]
          BY <3>10, <4>2, ToSetElements
        <5>2. CASE i = 1
          BY <3>10, <3>19, <5>1, <5>2
        <5>3. CASE i # 1
          <6>1. i \in 2 .. Len(stack[t]) /\ i \in 1 .. Len(stack[t])
            BY <3>1, <3>10, <5>1, <5>3
          <6>2. x \in ToSet(stack[t])
            BY <1>0, <3>10, <5>1, <6>1, ToSetElements
          <6> QED  BY <3>18, <6>2
        <5> QED  BY <5>2, <5>3
      <4> QED  BY <3>15, <3>20, <4>1, <4>2
    <3>21. Top(t).mine = 0
      BY <1>0, <2>2 DEF StackInv, MineInv
    <3>22. ASSUME NEW i \in 2 .. Len(st)
           PROVE  st[i].stage = "setup" /\ st[i].mine = 0 /\ st[i - 1].fix \in Deps(st[i].fix)
      <4>1. \A k \in 2 .. Len(stack[t]) :
              /\ stack[t][k].stage = "setup" /\ stack[t][k].mine = 0
              /\ stack[t][k - 1].fix \in Deps(stack[t][k].fix)
        BY <1>0 DEF StackInv
      <4>2. st[i] = old[i - 1]
        BY <3>15, <3>22
      <4>3. CASE i = 2
        BY <3>6, <3>8, <3>10, <3>12, <3>15, <3>21, <4>2, <4>3
      <4>4. CASE i # 2
        <5>1. i - 1 \in 2 .. Len(stack[t]) /\ i - 1 \in 2 .. (Len(old) + 1)
          BY <3>1, <3>10, <3>15, <3>22, <4>4
        <5>2. st[i] = stack[t][i - 1] /\ st[i - 1] = old[i - 1 - 1]
          BY <3>10, <3>15, <4>2, <5>1
        <5>3. old[i - 1 - 1].fix = stack[t][i - 1 - 1].fix
          <6>1. CASE i = 3
            BY <3>1, <3>8, <3>10, <6>1
          <6>2. CASE i # 3
            <7>1. i - 1 - 1 \in 2 .. Len(stack[t])
              BY <3>1, <5>1, <6>2
            <7> QED  BY <3>10, <7>1
          <6> QED  BY <6>1, <6>2
        <5> QED  BY <4>1, <5>1, <5>2, <5>3
      <4> QED  BY <4>3, <4>4
    <3>23. MineInv(t)'
      BY <3>12, <3>15, <3>16 DEF MineInv, Top
    <3>24. StackInv(t)'
      BY <3>16, <3>20, <3>22, <3>23 DEF StackInv, Deps
    <3> QED  BY <1>0, <2>2, <3>16, <3>24 DEF Types
  <2> QED  BY <2>1, <2>2 DEF FixtureGet
<1>5. Types'
  BY <1>0, <1>4 DEF Types, heap
<1>6. Leaves(t)
  BY <1>0, <1>4 DEF Leaves, heap, ToSet
<1> QED  BY <1>0, <1>2, <1>3, <1>4, <1>5, <1>6, StepKeeps DEF Thr

\* The frame without some of its handles, or with the value it has made.
LEMMA FrameDrops ==
  ASSUME NEW t \in Test, NEW fr, NEW fr2, FrameInv(t, fr)',
         fr2.fix = fr.fix, fr2.need = fr.need, fr2.uses = fr.uses,
         \A v \in ToSet(fr2.owned) : v \in ToSet(fr.owned)
           \/ (Private(t, v)' /\ vals'[v].uses = fr.uses /\ pc'[t] # "setup")
  PROVE  FrameInv(t, fr2)'
BY DEF FrameInv, Deps

LEMMA DropDependencyKeeps ==
  ASSUME IInv, NEW t \in Test, NEW panics \in BOOLEAN, DropDependency(t, panics)
  PROVE  IInv'
<1>0. /\ Types /\ StackInv(t) /\ WayInv(t) /\ run = "tests" /\ pc[t] = "setup" /\ stack[t] # <<>>
      /\ UNCHANGED <<vals, store, poisoned, cache, todo, given, body, outcome, run>>
      /\ stack[t] \in Seq(SetupFrame) /\ Top(t).owned # <<>> /\ Top(t).stage = "return"
  BY DEF IInv, Thr, Types, DropDependency, InSetup
<1>1. /\ Top(t) \in SetupFrame /\ Top(t) = stack[t][1] /\ Len(stack[t]) \in Nat \ {0}
      /\ Top(t) \in ToSet(stack[t])
  BY <1>0, HeadTail DEF Top
<1>2. PICK v : v = Last(Top(t).owned)
  OBVIOUS
<1>3. Top(t).owned \in Seq(Nat)
  BY <1>1 DEF SetupFrame
<1>4. /\ Front(Top(t).owned) \in Seq(Nat) /\ v \in ToSet(Top(t).owned)
      /\ ToSet(Front(Top(t).owned)) \subseteq ToSet(Top(t).owned)
  BY <1>0, <1>2, <1>3, FrontLast
<1>5. FrameInv(t, Top(t))
  BY <1>0, <1>1 DEF StackInv
<1>6. Private(t, v) /\ v \notin given[t] /\ live' = live \ {v}
  BY <1>0, <1>2, <1>4, <1>5 DEF FrameInv, DropDependency
<1>7. PICK fr2 : fr2 = [Top(t) EXCEPT !.owned = Front(@)]
  OBVIOUS
<1>8. /\ fr2 \in SetupFrame /\ fr2.fix = Top(t).fix /\ fr2.need = Top(t).need
      /\ fr2.uses = Top(t).uses /\ fr2.owned = Front(Top(t).owned) /\ fr2.mine = Top(t).mine
      /\ fr2.stage = "return"
  BY <1>0, <1>1, <1>4, <1>7 DEF SetupFrame
<1>9. PICK left : left = [stack[t] EXCEPT ![1] = fr2]
  OBVIOUS
<1>10. left = [stack[t] EXCEPT ![1].owned = Front(@)]
  BY <1>0, <1>1, <1>7, <1>9
<1>11. \/ Unwind(t, left)
       \/ Top(t).mine # 0 /\ Unwind(t, [left EXCEPT ![1].owned = <<Top(t).mine>> \o @])
       \/ stack' = [stack EXCEPT ![t] = left] /\ UNCHANGED <<handles, pc, unwinding>>
  BY <1>10 DEF DropDependency
<1>12. pc'[t] = "setup" => pc' = pc
  BY <1>0, <1>11 DEF Types, Unwind, Goto
<1>13. \A fr \in ToSet(stack[t]) : FrameInv(t, fr)'
  BY <1>0, FrameSits DEF StackInv
<1>14. FrameInv(t, fr2)'
  BY <1>1, <1>4, <1>8, <1>13, FrameDrops
<1>15. /\ left \in Seq(SetupFrame) /\ Len(left) = Len(stack[t]) /\ left[1] = fr2
       /\ \A i \in 2 .. Len(stack[t]) : left[i] = stack[t][i]
  BY <1>0, <1>1, <1>8, <1>9
<1>16. \A x \in SetupFrame : \A q : q = [stack[t] EXCEPT ![1] = x] =>
         q \in Seq(SetupFrame) /\ \A y \in ToSet(q) : y = x \/ y \in ToSet(stack[t])
  BY <1>0, NewFirst
<1>17. /\ live' \subseteq live /\ \A w \in live \ live' : Private(t, w) /\ w \notin given[t]
       /\ poisoned' \in BOOLEAN
  BY <1>0, <1>6 DEF Types
<1>18. CASE Unwind(t, left)
  <2>1. \A y \in ToSet(left) : FrameInv(t, y)'
    BY <1>8, <1>9, <1>13, <1>14, <1>16
  <2> QED  BY <1>0, <1>15, <1>17, <1>18, <2>1, UnwindKeeps
<1>19. CASE Top(t).mine # 0 /\ Unwind(t, [left EXCEPT ![1].owned = <<Top(t).mine>> \o @])
  <2>1. PICK m : m = Top(t).mine
    OBVIOUS
  <2>2. /\ m \in Nat /\ Private(t, m) /\ vals[m].uses = Top(t).uses
    BY <1>0, <1>19, <2>1, MineIsNew
  <2>3. PICK q : q = <<m>> \o Front(Top(t).owned)
    OBVIOUS
  <2>4. q \in Seq(Nat) /\ ToSet(q) = {m} \cup ToSet(Front(Top(t).owned))
    BY <1>4, <2>2, <2>3, ConsSet
  <2>5. PICK fr3 : fr3 = [fr2 EXCEPT !.owned = q]
    OBVIOUS
  <2>6. /\ fr3 \in SetupFrame /\ fr3.fix = Top(t).fix /\ fr3.need = Top(t).need
        /\ fr3.uses = Top(t).uses /\ fr3.owned = q
    BY <1>8, <2>4, <2>5 DEF SetupFrame
  <2>7. PICK left3 : left3 = [stack[t] EXCEPT ![1] = fr3]
    OBVIOUS
  <2>8. left3 = [left EXCEPT ![1].owned = <<Top(t).mine>> \o @]
    <3>1. [left EXCEPT ![1].owned = <<Top(t).mine>> \o @] = [left EXCEPT ![1] = [fr2 EXCEPT !.owned = <<Top(t).mine>> \o @]]
      BY <1>1, <1>15
    <3>2. [fr2 EXCEPT !.owned = <<Top(t).mine>> \o @] = fr3
      BY <1>8, <2>1, <2>3, <2>5
    <3>3. [left EXCEPT ![1] = fr3] = left3
      BY <1>0, <1>1, <1>8, <1>9, <2>6, <2>7
    <3> QED  BY <3>1, <3>2, <3>3
  <2>9. pc'[t] # "setup" /\ Unwind(t, left3)
    BY <1>0, <1>19, <2>8 DEF Types, Unwind, Goto
  <2>10. Private(t, m)' /\ vals'[m].uses = Top(t).uses
    BY <1>0, <2>2 DEF Private
  <2>11. FrameInv(t, fr3)'
    BY <1>1, <1>4, <1>13, <2>4, <2>6, <2>9, <2>10, FrameDrops
  <2>12. left3 \in Seq(SetupFrame) /\ \A y \in ToSet(left3) : FrameInv(t, y)'
    BY <1>13, <1>16, <2>6, <2>7, <2>11
  <2> QED  BY <1>0, <1>17, <2>9, <2>12, UnwindKeeps
<1>20. CASE stack' = [stack EXCEPT ![t] = left] /\ UNCHANGED <<handles, pc, unwinding>>
  <2>1. ASSUME NEW m \in Nat \ {0}, m = fr2.mine
        PROVE  /\ Private(t, m)' /\ m \in live' /\ m \notin given'[t] /\ m \notin ToSet(handles'[t])
               /\ vals'[m].fix = fr2.fix /\ vals'[m].uses = fr2.uses
               /\ \A fr \in ToSet(stack[t]) \cup {fr2} : m \notin ToSet(fr.owned)
    <3>1. /\ Private(t, m) /\ m \in live /\ m \notin given[t] /\ m \notin ToSet(handles[t])
          /\ vals[m].fix = Top(t).fix /\ vals[m].uses = Top(t).uses
          /\ \A fr \in ToSet(stack[t]) : m \notin ToSet(fr.owned)
      BY <1>0, <1>8, <2>1, MineIsNew
    <3>2. m # v
      BY <1>1, <1>4, <3>1
    <3>3. Private(t, m)'
      BY <1>0, <3>1 DEF Private
    <3> QED  BY <1>0, <1>1, <1>4, <1>6, <1>8, <1>20, <3>1, <3>2, <3>3
  <2>2. StackInv(t)' /\ stack' \in [Test -> Seq(SetupFrame)]
    BY <1>0, <1>8, <1>9, <1>13, <1>14, <1>20, <2>1, TopMoves
  <2>3. StoreInv' /\ CacheInv(t)' /\ OwnInv(t)' /\ Contents(t)'
    BY <1>0, <1>17, <1>20, DropsAreSafe
  <2>4. Types'
    BY <1>0, <1>6, <1>20, <2>2 DEF Types
  <2>5. WayInv(t)'
    BY <1>0, <1>20 DEF WayInv
  <2>6. Leaves(t)
    BY <1>0, <1>6, <1>20 DEF Leaves, Types, ToSet, Private
  <2> QED  BY <1>0, <2>2, <2>3, <2>4, <2>5, <2>6, StepKeeps DEF Thr
<1> QED  BY <1>11, <1>18, <1>19, <1>20

\* The value a setup has made, once its own handles are gone.
LEMMA MineUses ==
  ASSUME IInv, NEW t \in Test, run = "tests", pc[t] = "setup", stack[t] # <<>>,
         NEW m, m = Top(t).mine, m # 0
  PROVE  /\ vals[m].uses \subseteq Avail(t)
         /\ ScopeOf[Top(t).fix] = "process" => vals[m].uses \subseteq ToSet(store)
<1>1. vals[m].uses = Top(t).uses
  BY MineIsNew
<1>2. Top(t) \in ToSet(stack[t])
  BY HeadTail DEF IInv, Types, Top
<1>3. FrameInv(t, Top(t))
  BY <1>2 DEF IInv, Thr, StackInv
<1> QED  BY <1>1, <1>3 DEF FrameInv

LEMMA StoreKeeps ==
  ASSUME IInv, NEW t \in Test, Store(t)
  PROVE  IInv'
<1> USE DEF InSetup, Thread
<1>0. /\ Types /\ StoreInv /\ CacheInv(t) /\ run = "tests" /\ pc[t] = "setup" /\ stack[t] # <<>>
      /\ UNCHANGED <<heap, todo, pc, body, unwinding, outcome, run>> /\ Return(t, Top(t).mine)
      /\ cache[t] \in Seq(Nat) /\ ScopeOf[Top(t).fix] # "process"
  BY DEF IInv, Thr, Types, Store
<1>1. PICK m : m = Top(t).mine
  OBVIOUS
<1>2. /\ m # 0 /\ Private(t, m) /\ m \in live /\ m \notin given[t] /\ m \in Nat
      /\ vals[m].fix = Top(t).fix /\ vals[m].uses \subseteq Avail(t)
  BY <1>0, <1>1, MineIsNew, MineUses DEF Store
<1>3. CASE ScopeOf[Top(t).fix] # "test"
  <2>1. cache' = cache
    BY <1>3 DEF Store
  <2>2. Settles(t)
    BY <1>0, <2>1, QuietSettles
  <2>3. Handed(t, m)
    <3>1. Private(t, m)' /\ vals[m].uses \subseteq Avail(t)'
      BY <1>0, <1>2, <2>1 DEF Private, Avail, ToSet, heap
    <3> QED  BY <1>0, <1>2, <1>3, <3>1 DEF Handed, heap
  <2> QED  BY <1>0, <1>1, <2>2, <2>3, ReturnKeeps
<1>4. CASE ScopeOf[Top(t).fix] = "test"
  <2>1. cache' = [cache EXCEPT ![t] = Append(cache[t], m)]
    BY <1>1, <1>4 DEF Store
  <2>2. PICK c : c = Append(cache[t], m)
    OBVIOUS
  <2>3. PICK n : n = Len(cache[t])
    OBVIOUS
  <2>4. /\ c \in Seq(Nat) /\ ToSet(c) = ToSet(cache[t]) \cup {m} /\ n \in Nat
        /\ Len(c) = n + 1 /\ c[n + 1] = m /\ \A i \in 1 .. n : c[i] = cache[t][i]
    BY <1>0, <1>2, <2>2, <2>3, AppendSet
  <2>5. cache'[t] = c /\ cache' \in [Test -> Seq(Nat)] /\ \A u \in Test \ {t} : cache'[u] = cache[u]
    BY <1>0, <2>1, <2>2, <2>4 DEF Types
  <2>6. vals' = vals /\ live' = live /\ store' = store /\ poisoned' = poisoned
    BY <1>0 DEF heap
  <2>7. StoreInv'
    <3>1. \A i \in 1 .. Len(store) : store[i] \in live'
      BY <1>0, <2>6 DEF StoreInv
    <3> QED  BY <1>0, <2>6, <3>1, StoreStays
  <2>8. CacheInv(t)'
    <3>1. ASSUME NEW i \in 1 .. Len(c)
          PROVE  /\ c[i] \in live /\ vals[c[i]].by = t
                 /\ \A u \in vals[c[i]].uses : u \in ToSet(store) \/ \E j \in 1 .. (i - 1) : u = c[j]
      <4>1. CASE i = n + 1
        <5>0. \A u \in ToSet(cache[t]) : \E j \in 1 .. n : u = cache[t][j]
          BY <1>0, <2>3, ToSetElements
        <5>1. \A u \in vals[m].uses : u \in ToSet(store) \/ \E j \in 1 .. n : u = c[j]
          BY <1>2, <2>4, <5>0 DEF Avail
        <5>2. i - 1 = n /\ c[i] = m
          BY <2>4, <4>1
        <5> QED  BY <1>2, <5>1, <5>2 DEF Private
      <4>2. CASE i # n + 1
        <5>1. i \in 1 .. n /\ c[i] = cache[t][i] /\ \A j \in 1 .. (i - 1) : c[j] = cache[t][j]
          BY <2>4, <3>1, <4>2
        <5>2. /\ cache[t][i] \in live /\ vals[cache[t][i]].by = t
              /\ \A u \in vals[cache[t][i]].uses :
                   u \in ToSet(store) \/ \E j \in 1 .. (i - 1) : u = cache[t][j]
          BY <1>0, <2>3, <5>1 DEF CacheInv
        <5> QED  BY <5>1, <5>2
      <4> QED  BY <4>1, <4>2
    <3>2. ASSUME NEW i \in 1 .. Len(c), NEW j \in 1 .. Len(c), c[i] = c[j] PROVE i = j
      <4>0. \A k \in 1 .. n : cache[t][k] \in ToSet(cache[t])
        BY <1>0, <2>3, ToSetElements
      <4>1. \A k \in 1 .. n : c[k] # m
        BY <1>2, <2>4, <4>0 DEF Private
      <4>2. \A k \in 1 .. Len(c) : k = n + 1 \/ k \in 1 .. n
        BY <2>4
      <4>3. \A k, l \in 1 .. n : c[k] = c[l] => k = l
        BY <1>0, <2>3, <2>4 DEF CacheInv
      <4> QED  BY <2>4, <3>2, <4>1, <4>2, <4>3
    <3>3. ASSUME NEW i \in 1 .. Len(cache'[t])
          PROVE  /\ cache'[t][i] \in live' /\ vals'[cache'[t][i]].by = t
                 /\ \A u \in vals'[cache'[t][i]].uses :
                      u \in ToSet(store)' \/ \E j \in 1 .. (i - 1) : u = cache'[t][j]
      <4>1. ToSet(store)' = ToSet(store)
        BY <2>6 DEF ToSet
      <4>2. i \in 1 .. Len(c)
        BY <2>5
      <4>3. c[i] \in live /\ vals[c[i]].by = t
        BY <3>1, <4>2
      <4>4. \A u \in vals[c[i]].uses : u \in ToSet(store) \/ \E j \in 1 .. (i - 1) : u = c[j]
        BY <3>1, <4>2
      <4> QED  BY <2>5, <2>6, <4>1, <4>3, <4>4
    <3>4. \A i, j \in 1 .. Len(cache'[t]) : cache'[t][i] = cache'[t][j] => i = j
      BY <2>5, <3>2, Zenon
    <3> QED  BY <3>3, <3>4 DEF CacheInv
  <2>9. Settles(t)
    BY <1>0, <1>1, <1>2, <1>4, <2>4, <2>5, <2>6, <2>7, <2>8 DEF Settles, Types
  <2>10. Handed(t, m)
    BY <1>2, <1>4, <2>4, <2>5, <2>6 DEF Handed
  <2> QED  BY <1>0, <1>1, <2>9, <2>10, ReturnKeeps
<1> QED  BY <1>3, <1>4

LEMMA PublishKeeps ==
  ASSUME IInv, NEW t \in Test, NEW panics \in BOOLEAN, Publish(t, panics)
  PROVE  IInv'
<1> USE DEF InSetup
<1>0. /\ Types /\ StoreInv /\ CacheInv(t) /\ StackInv(t)
      /\ run = "tests" /\ pc[t] = "setup" /\ stack[t] # <<>>
      /\ UNCHANGED <<vals, cache, todo, body, outcome, run>>
      /\ store \in Seq(Nat) /\ cache[t] \in Seq(Nat) /\ ScopeOf[Top(t).fix] = "process"
      /\ poisoned \in BOOLEAN /\ stack[t] \in Seq(SetupFrame) /\ live \subseteq DOMAIN vals
  BY DEF IInv, Thr, Types, Publish
<1>1. PICK m : m = Top(t).mine
  OBVIOUS
<1>2. /\ m # 0 /\ Private(t, m) /\ m \in live /\ m \notin given[t] /\ m \in Nat
      /\ vals[m].fix = Top(t).fix /\ vals[m].uses \subseteq ToSet(store)
  BY <1>0, <1>1, MineIsNew, MineUses DEF Publish
<1>3. PICK f : f = Top(t).fix
  OBVIOUS
<1>4. poisoned' = (poisoned \/ panics) /\ poisoned' \in BOOLEAN
  BY <1>0 DEF Publish
<1>5. panics => Cached(store, f) # {} /\ ~poisoned
  BY <1>3 DEF Publish
<1>6. store' = IF poisoned \/ Cached(store, f) # {} THEN store ELSE Append(store, m)
  BY <1>1, <1>3 DEF Publish
<1>7. live' = IF Cached(store, f) # {} /\ ~poisoned THEN live \ {m} ELSE live
  BY <1>1, <1>3 DEF Publish
<1>8. live' \subseteq live /\ \A w \in live \ live' : w = m
  BY <1>7
<1>9. CASE poisoned'
  <2>1. Unwind(t, stack[t]) /\ UNCHANGED given
    BY <1>9 DEF Publish
  <2>2. store' = store
    BY <1>4, <1>5, <1>6, <1>9
  <2>3. pc'[t] # "setup"
    BY <1>0, <2>1 DEF Types, Unwind, Goto
  <2>4. \A fr \in ToSet(stack[t]) : FrameInv(t, fr)'
    BY <1>0, <2>2, <2>3, FrameSits DEF StackInv
  <2> QED  BY <1>0, <1>2, <1>4, <1>8, <2>1, <2>2, <2>4, UnwindKeeps
<1>10. CASE ~poisoned' /\ Cached(store, f) # {}
  <2>1. PICK w \in Cached(store, f) : Return(t, w)
    BY <1>3, <1>10 DEF Publish
  <2>2. UNCHANGED <<pc, unwinding>> /\ store' = store
    BY <1>6, <1>10 DEF Publish
  <2>3. StoreInv' /\ CacheInv(t)'
    BY <1>0, <1>2, <1>8, <2>2, DropsSpareStores
  <2>4. w \in ToSet(store) /\ vals[w].fix = Top(t).fix
    BY <1>3 DEF Cached, Fix
  <2>5. w \in live
    BY <1>0, <2>4, ToSetElements DEF StoreInv
  <2>6. Settles(t)
    BY <1>0, <1>1, <1>2, <1>4, <1>8, <2>2, <2>3 DEF Settles, Types
  <2>7. Handed(t, w)
    BY <1>0, <1>2, <1>8, <2>2, <2>4, <2>5 DEF Handed, Private
  <2> QED  BY <1>0, <2>1, <2>2, <2>6, <2>7, ReturnKeeps
<1>11. CASE ~poisoned' /\ Cached(store, f) = {}
  <2>1. Return(t, m) /\ UNCHANGED <<pc, unwinding>>
    BY <1>1, <1>3, <1>11 DEF Publish
  <2>2. store' = Append(store, m) /\ live' = live
    BY <1>4, <1>6, <1>7, <1>11
  <2>3. PICK n : n = Len(store)
    OBVIOUS
  <2>4. PICK s : s = Append(store, m)
    OBVIOUS
  <2>5. /\ s \in Seq(Nat) /\ ToSet(s) = ToSet(store) \cup {m} /\ n \in Nat
        /\ Len(s) = n + 1 /\ s[n + 1] = m /\ \A i \in 1 .. n : s[i] = store[i]
    BY <1>0, <1>2, <2>3, <2>4, AppendSet
  <2>6. \A k \in 1 .. (n + 1) : k = n + 1 \/ k \in 1 .. n
    BY <2>5
  <2>7. StoreInv'
    <3>1. ASSUME NEW i \in 1 .. Len(s)
          PROVE  /\ s[i] \in live /\ ScopeOf[vals[s[i]].fix] = "process"
                 /\ \A u \in vals[s[i]].uses : \E j \in 1 .. (i - 1) : u = s[j]
      <4>1. CASE i = n + 1
        <5>0. \A u \in ToSet(store) : \E j \in 1 .. n : u = store[j]
          BY <1>0, <2>3, ToSetElements
        <5>1. \A u \in vals[m].uses : \E j \in 1 .. n : u = s[j]
          BY <1>2, <2>5, <5>0
        <5>2. i - 1 = n /\ s[i] = m
          BY <2>5, <4>1
        <5> QED  BY <1>0, <1>2, <5>1, <5>2
      <4>2. CASE i # n + 1
        <5>1. i \in 1 .. n /\ s[i] = store[i] /\ \A j \in 1 .. (i - 1) : s[j] = store[j]
          BY <2>5, <3>1, <4>2
        <5>2. /\ store[i] \in live /\ ScopeOf[vals[store[i]].fix] = "process"
              /\ \A u \in vals[store[i]].uses : \E j \in 1 .. (i - 1) : u = store[j]
          BY <1>0, <2>3, <5>1 DEF StoreInv, Fix
        <5> QED  BY <5>1, <5>2
      <4> QED  BY <4>1, <4>2
    <3>2. ASSUME NEW i \in 1 .. Len(s), NEW j \in 1 .. Len(s), vals[s[i]].fix = vals[s[j]].fix
          PROVE  i = j
      <4>0. \A k \in 1 .. n : store[k] \in ToSet(store)
        BY <1>0, <2>3, ToSetElements
      <4>1. \A k \in 1 .. n : vals[s[k]].fix # vals[m].fix
        BY <1>2, <1>3, <1>11, <2>5, <4>0 DEF Cached, Fix
      <4>2. \A k, l \in 1 .. n : vals[s[k]].fix = vals[s[l]].fix => k = l
        BY <1>0, <2>3, <2>5 DEF StoreInv, Fix
      <4> QED  BY <2>5, <2>6, <3>2, <4>1, <4>2
    <3>3. store' = s /\ vals' = vals /\ live' = live
      BY <1>0, <2>2, <2>4
    <3> QED  BY <3>1, <3>2, <3>3, SMTT(40) DEF StoreInv, Fix
  <2>8. CacheInv(t)'
    <3>1. store' = s /\ vals' = vals /\ live' = live /\ cache' = cache
      BY <1>0, <2>2, <2>4
    <3>2. \A i \in 1 .. Len(cache[t]) : cache[t][i] \in live'
      BY <1>0, <3>1 DEF CacheInv
    <3>3. ToSet(store) \subseteq ToSet(store')
      BY <2>5, <3>1
    <3> QED  BY <1>0, <3>1, <3>2, <3>3, CacheStays
  <2>9. Settles(t)
    BY <1>0, <1>1, <1>2, <1>4, <2>2, <2>4, <2>5, <2>7, <2>8 DEF Settles, Types
  <2>10. Handed(t, m)
    BY <1>0, <1>2, <2>2, <2>4, <2>5 DEF Handed
  <2> QED  BY <1>0, <2>1, <2>9, <2>10, ReturnKeeps
<1> QED  BY <1>9, <1>10, <1>11

-----------------------------------------------------------------------------
(* Teardown.                                                               *)

LEMMA LeaveFrameKeeps ==
  ASSUME IInv, NEW t \in Test, LeaveFrame(t)
  PROVE  IInv'
<1>0. /\ Types /\ StackInv(t) /\ WayInv(t) /\ run = "tests" /\ pc[t] = "teardown" /\ stack[t] # <<>>
      /\ stack' = [stack EXCEPT ![t] = Tail(stack[t])]
      /\ UNCHANGED <<heap, cache, handles, todo, given, pc, body, unwinding, outcome, run>>
      /\ stack[t] \in Seq(SetupFrame)
  BY DEF IInv, Thr, Types, LeaveFrame
<1>1. Tail(stack[t]) \in Seq(SetupFrame) /\ ToSet(Tail(stack[t])) \subseteq ToSet(stack[t])
  BY <1>0, HeadTail
<1>2. stack'[t] = Tail(stack[t]) /\ stack' \in [Test -> Seq(SetupFrame)]
  BY <1>0, <1>1 DEF Types
<1>3. \A fr \in ToSet(stack[t]) : FrameInv(t, fr)'
  BY <1>0, FrameSits DEF StackInv, heap
<1>4. StackInv(t)'
  BY <1>0, <1>1, <1>2, <1>3 DEF StackInv, MineInv
<1>5. StoreInv' /\ CacheInv(t)' /\ OwnInv(t)' /\ Contents(t)'
  BY <1>0, DropsAreSafe DEF heap
<1>6. Types'
  BY <1>0, <1>2 DEF Types, heap
<1>7. WayInv(t)'
  BY <1>0 DEF WayInv
<1>8. Leaves(t)
  BY <1>0 DEF Leaves, Types, heap, ToSet
<1> QED  BY <1>0, <1>4, <1>5, <1>6, <1>7, <1>8, StepKeeps DEF Thr

\* A private value is dropped.
LEMMA DropPrivateKeeps ==
  ASSUME IInv, NEW t \in Test, NEW panics \in BOOLEAN, NEW v, run = "tests", pc[t] = "teardown",
         DropValue(t, v, panics), Private(t, v),
         UNCHANGED <<vals, store, poisoned, cache, todo, pc, body, outcome>>,
         stack' \in [Test -> Seq(SetupFrame)], \A u \in Test \ {t} : stack'[u] = stack[u],
         handles' \in [Test -> Seq(Nat)], \A u \in Test \ {t} : handles'[u] = handles[u],
         ToSet(handles'[t]) \subseteq ToSet(handles[t]),
         \A fr \in ToSet(stack'[t]) : FrameInv(t, fr)'
  PROVE  IInv'
<1> USE DEF DropValue
<1>0. Types /\ WayInv(t)
  BY DEF IInv
<1>1. /\ given'[t] = {} /\ \A u \in Test \ {t} : given'[u] = given[u]
      /\ given' \in [Test -> SUBSET Nat] /\ run' \in {"tests", "aborted"}
  BY <1>0 DEF Types
<1>2. /\ unwinding' \in [Test -> BOOLEAN]
      /\ unwinding[t] => unwinding'[t]
      /\ \A u \in Test \ {t} : unwinding'[u] = unwinding[u]
  BY <1>0 DEF Types
<1>3. Types'
  BY <1>0, <1>1, <1>2 DEF Types
<1>4. WayInv(t)'
  <2>1. pc'[t] = "teardown" /\ body'[t] = body[t] /\ outcome'[t] = "none"
    BY <1>0 DEF WayInv
  <2>2. ~unwinding'[t] => body[t] = "returned"
    BY <1>0, <1>2 DEF WayInv
  <2>3. body[t] \in {"panicked", "mispanicked"} => unwinding'[t]
    BY <1>0, <1>2 DEF WayInv
  <2> QED  BY <2>1, <2>2, <2>3 DEF WayInv
<1>5. StoreInv' /\ CacheInv(t)' /\ OwnInv(t)' /\ Contents(t)'
  BY <1>1, DropsAreSafe
<1>6. StackInv(t)'
  BY DEF StackInv, MineInv
<1>7. Leaves(t)
  BY <1>0, <1>1, <1>2, SMTT(40) DEF Leaves, Types, ToSet, Private
<1> QED  BY <1>1, <1>3, <1>4, <1>5, <1>6, <1>7, StepKeeps DEF Thr

LEMMA DropInFrameKeeps ==
  ASSUME IInv, NEW t \in Test, NEW panics \in BOOLEAN, DropInFrame(t, panics)
  PROVE  IInv'
<1>0. /\ Types /\ StackInv(t) /\ run = "tests" /\ pc[t] = "teardown" /\ stack[t] # <<>>
      /\ Top(t).owned # <<>> /\ stack' = [stack EXCEPT ![t][1].owned = Front(@)]
      /\ UNCHANGED <<vals, store, poisoned, cache, handles, todo, pc, body, outcome>>
      /\ stack[t] \in Seq(SetupFrame)
  BY DEF IInv, Thr, Types, DropInFrame
<1>1. /\ Top(t) \in SetupFrame /\ Top(t) = stack[t][1] /\ Len(stack[t]) \in Nat \ {0}
      /\ Top(t) \in ToSet(stack[t])
  BY <1>0, HeadTail DEF Top
<1>2. PICK v : v = Last(Top(t).owned)
  OBVIOUS
<1>3. Top(t).owned \in Seq(Nat)
  BY <1>1 DEF SetupFrame
<1>4. /\ Front(Top(t).owned) \in Seq(Nat) /\ v \in ToSet(Top(t).owned)
      /\ ToSet(Front(Top(t).owned)) \subseteq ToSet(Top(t).owned)
  BY <1>0, <1>2, <1>3, FrontLast
<1>5. Private(t, v)
  BY <1>0, <1>1, <1>4 DEF StackInv, FrameInv
<1>6. PICK fr2 : fr2 = [Top(t) EXCEPT !.owned = Front(@)]
  OBVIOUS
<1>7. /\ fr2 \in SetupFrame /\ fr2.fix = Top(t).fix /\ fr2.need = Top(t).need
      /\ fr2.uses = Top(t).uses /\ fr2.owned = Front(Top(t).owned)
  BY <1>1, <1>4, <1>6 DEF SetupFrame
<1>8. PICK left : left = [stack[t] EXCEPT ![1] = fr2]
  OBVIOUS
<1>9. left \in Seq(SetupFrame) /\ \A y \in ToSet(left) : y = fr2 \/ y \in ToSet(stack[t])
  BY <1>0, <1>7, <1>8, NewFirst
<1>10. stack' = [stack EXCEPT ![t] = left]
  BY <1>0, <1>1, <1>6, <1>8 DEF Types
<1>11. /\ stack'[t] = left /\ stack' \in [Test -> Seq(SetupFrame)]
       /\ \A u \in Test \ {t} : stack'[u] = stack[u]
  BY <1>0, <1>9, <1>10, ZenonT(60) DEF Types
<1>12. \A fr \in ToSet(stack[t]) : FrameInv(t, fr)'
  BY <1>0, FrameSits DEF StackInv
<1>13. FrameInv(t, fr2)'
  BY <1>1, <1>4, <1>7, <1>12, FrameDrops
<1>14. \A fr \in ToSet(stack'[t]) : FrameInv(t, fr)'
  BY <1>9, <1>11, <1>12, <1>13
<1>15. DropValue(t, v, panics) /\ handles' \in [Test -> Seq(Nat)]
  BY <1>0, <1>2 DEF DropInFrame, Types
<1> QED  BY <1>0, <1>5, <1>11, <1>14, <1>15, DropPrivateKeeps

LEMMA DropHandleKeeps ==
  ASSUME IInv, NEW t \in Test, NEW panics \in BOOLEAN, DropHandle(t, panics)
  PROVE  IInv'
<1>0. /\ Types /\ OwnInv(t) /\ run = "tests" /\ pc[t] = "teardown" /\ stack[t] = <<>>
      /\ handles[t] # <<>> /\ handles' = [handles EXCEPT ![t] = Front(handles[t])]
      /\ UNCHANGED <<vals, store, poisoned, cache, todo, stack, pc, body, outcome>>
      /\ handles[t] \in Seq(Nat)
  BY DEF IInv, Thr, Types, DropHandle
<1>1. PICK v : v = Last(handles[t])
  OBVIOUS
<1>2. /\ Front(handles[t]) \in Seq(Nat) /\ v \in ToSet(handles[t])
      /\ ToSet(Front(handles[t])) \subseteq ToSet(handles[t])
  BY <1>0, <1>1, FrontLast
<1>3. Private(t, v) /\ DropValue(t, v, panics)
  BY <1>0, <1>1, <1>2 DEF OwnInv, DropHandle
<1>4. /\ handles' \in [Test -> Seq(Nat)] /\ handles'[t] = Front(handles[t])
      /\ \A u \in Test \ {t} : handles'[u] = handles[u]
  BY <1>0, <1>2 DEF Types
<1>5. stack' \in [Test -> Seq(SetupFrame)] /\ ToSet(stack'[t]) = {}
  BY <1>0 DEF Types, ToSet
<1> QED  BY <1>0, <1>2, <1>3, <1>4, <1>5, DropPrivateKeeps

LEMMA ReclaimEntryKeeps ==
  ASSUME IInv, NEW t \in Test, NEW panics \in BOOLEAN, ReclaimEntry(t, panics)
  PROVE  IInv'
<1> USE DEF Thread
<1>0. /\ Types /\ StoreInv /\ CacheInv(t) /\ Contents(t) /\ WayInv(t)
      /\ run = "tests" /\ pc[t] = "teardown" /\ stack[t] = <<>>
      /\ handles[t] = <<>> /\ cache[t] # <<>> /\ cache' = [cache EXCEPT ![t] = Front(cache[t])]
      /\ UNCHANGED <<vals, store, poisoned, handles, todo, stack, body, outcome>>
      /\ cache[t] \in Seq(Nat) /\ store \in Seq(Nat)
      /\ pc' = IF panics THEN [pc EXCEPT ![t] = "end"] ELSE pc
  BY DEF IInv, Thr, Types, ReclaimEntry
<1>1. PICK v : v = Last(cache[t])
  OBVIOUS
<1>2. PICK c : c = Front(cache[t])
  OBVIOUS
<1>3. PICK n : n = Len(cache[t])
  OBVIOUS
<1>4. /\ c \in Seq(Nat) /\ Len(c) = n - 1 /\ n \in Nat \ {0} /\ v = cache[t][n]
      /\ \A i \in 1 .. (n - 1) : c[i] = cache[t][i]
      /\ ToSet(c) \subseteq ToSet(cache[t]) /\ v \in ToSet(cache[t])
  BY <1>0, <1>1, <1>2, <1>3, FrontLast
<1>5. DropValue(t, v, panics)
  BY <1>1 DEF ReclaimEntry
<1>6. /\ cache'[t] = c /\ cache' \in [Test -> Seq(Nat)]
      /\ \A u \in Test \ {t} : cache'[u] = cache[u]
  BY <1>0, <1>2, <1>4 DEF Types
<1>7. /\ live' = live \ {v} /\ given'[t] = {} /\ \A u \in Test \ {t} : given'[u] = given[u]
      /\ given' \in [Test -> SUBSET Nat] /\ run' \in {"tests", "aborted"}
  BY <1>0, <1>5 DEF Types, DropValue
<1>8. /\ unwinding' \in [Test -> BOOLEAN]
      /\ unwinding[t] => unwinding'[t]
      /\ \A u \in Test \ {t} : unwinding'[u] = unwinding[u]
  BY <1>0, <1>5 DEF Types, DropValue
<1>9. pc' \in [Test -> {"idle", "setup", "teardown", "end", "done"}]
      /\ \A u \in Test \ {t} : pc'[u] = pc[u]
  BY <1>0 DEF Types
<1>10. pc'[t] = IF panics THEN "end" ELSE "teardown"
  BY <1>0 DEF Types
<1>11. vals[v].by = t /\ v \notin ToSet(store)
  <2>1. n \in 1 .. Len(cache[t])
    BY <1>3, <1>4
  <2>2. vals[v].by = t
    BY <1>0, <1>4, <2>1 DEF CacheInv
  <2>3. ScopeOf[vals[v].fix] = "test"
    BY <1>0, <1>4 DEF Contents, Fix
  <2>4. ASSUME v \in ToSet(store) PROVE FALSE
    <3>1. PICK k \in 1 .. Len(store) : v = store[k]
      BY <1>0, <2>4, ToSetElements
    <3> QED  BY <1>0, <2>3, <3>1 DEF StoreInv, Fix
  <2> QED  BY <2>2, <2>4
<1>12. StoreInv'
  <2>1. \A i \in 1 .. Len(store) : store[i] \in ToSet(store)
    BY <1>0, ToSetElements
  <2>2. \A i \in 1 .. Len(store) : store[i] \in live'
    BY <1>0, <1>7, <1>11, <2>1 DEF StoreInv
  <2> QED  BY <1>0, <2>2, StoreStays
<1>13. CacheInv(t)'
  <2>1. ASSUME NEW i \in 1 .. Len(c)
        PROVE  /\ c[i] \in live' /\ vals[c[i]].by = t
               /\ \A u \in vals[c[i]].uses : u \in ToSet(store) \/ \E j \in 1 .. (i - 1) : u = c[j]
    <3>1. /\ i \in 1 .. (n - 1) /\ i \in 1 .. n /\ n \in 1 .. n /\ i # n /\ c[i] = cache[t][i]
          /\ \A j \in 1 .. (i - 1) : c[j] = cache[t][j]
      BY <1>4, <2>1
    <3>2. /\ cache[t][i] \in live /\ vals[cache[t][i]].by = t
          /\ \A u \in vals[cache[t][i]].uses :
               u \in ToSet(store) \/ \E j \in 1 .. (i - 1) : u = cache[t][j]
      BY <1>0, <1>3, <3>1 DEF CacheInv
    <3>3. cache[t][i] # v
      BY <1>0, <1>3, <1>4, <3>1 DEF CacheInv
    <3> QED  BY <1>7, <3>1, <3>2, <3>3
  <2>2. ASSUME NEW i \in 1 .. Len(c), NEW j \in 1 .. Len(c), c[i] = c[j] PROVE i = j
    <3>1. i \in 1 .. (n - 1) /\ j \in 1 .. (n - 1) /\ i \in 1 .. n /\ j \in 1 .. n
      BY <1>4, <2>2
    <3> QED  BY <1>0, <1>3, <1>4, <2>2, <3>1 DEF CacheInv
  <2>3. ToSet(store') = ToSet(store)
    BY <1>0
  <2> QED  BY <1>0, <1>6, <2>1, <2>2, <2>3 DEF CacheInv
<1>14. StackInv(t)' /\ OwnInv(t)'
  <2>1. stack'[t] = <<>> /\ ToSet(stack'[t]) = {} /\ Len(stack'[t]) = 0 /\ ToSet(handles'[t]) = {}
    BY <1>0 DEF ToSet
  <2>2. \A i \in 2 .. 0 : FALSE
    OBVIOUS
  <2> QED  BY <1>7, <2>1, <2>2 DEF StackInv, MineInv, OwnInv
<1>15. Contents(t)'
  <2>1. ToSet(handles'[t]) = {}
    BY <1>0 DEF ToSet
  <2>2. \A x \in ToSet(cache'[t]) : x \in DOMAIN vals' /\ ScopeOf[vals'[x].fix] = "test"
    BY <1>0, <1>4, <1>6 DEF Contents, Fix
  <2> QED  BY <1>7, <2>1, <2>2 DEF Contents, Fix
<1>16. Types'
  BY <1>0, <1>6, <1>7, <1>8, <1>9 DEF Types
<1>17. WayInv(t)'
  <2>1. body'[t] = body[t] /\ outcome'[t] = "none"
    BY <1>0 DEF WayInv
  <2>2. ~unwinding'[t] => body[t] = "returned"
    BY <1>0, <1>8 DEF WayInv
  <2>3. body[t] \in {"panicked", "mispanicked"} => unwinding'[t]
    BY <1>0, <1>8 DEF WayInv
  <2>4. panics /\ run' # "aborted" => unwinding'[t] /\ body[t] # "panicked"
    <3>1. SUFFICES ASSUME panics, run' # "aborted" PROVE unwinding'[t] /\ body[t] # "panicked"
      OBVIOUS
    <3>2. ~unwinding[t] /\ unwinding' = [unwinding EXCEPT ![t] = @ \/ panics]
      BY <1>5, <3>1 DEF DropValue
    <3>3. unwinding'[t]
      BY <1>0, <3>1, <3>2 DEF Types
    <3> QED  BY <1>0, <3>2, <3>3 DEF WayInv
  <2> QED  BY <1>0, <1>10, <2>1, <2>2, <2>3, <2>4 DEF WayInv
<1>18. Leaves(t)
  BY <1>0, <1>6, <1>7, <1>8, <1>9, <1>11 DEF Leaves, ToSet
<1> QED  BY <1>0, <1>7, <1>12, <1>13, <1>14, <1>15, <1>16, <1>17, <1>18, StepKeeps DEF Thr

-----------------------------------------------------------------------------
(* The main thread.                                                        *)

\* The steps that only move the run on.
LEMMA RunMoves ==
  ASSUME IInv, UNCHANGED <<heap, cache, handles, todo, given, stack, pc, body, unwinding, outcome>>,
         run' \in {"main", "tests", "cleanup", "over", "aborted"}, RunInv',
         run' \notin {"cleanup", "over"} => run \notin {"cleanup", "over"},
         (\A t \in Test : pc[t] # "end") \/ run' = run
  PROVE  IInv'
<1> USE DEF heap
<1>1. Types'
  BY DEF IInv, Types
<1>2. StoreInv'
  BY DEF IInv, StoreInv, Fix
<1>3. ASSUME NEW t \in Test PROVE WayInv(t)' /\ Contents(t)'
  <2>1. WayInv(t) /\ Contents(t)
    BY DEF IInv
  <2>2. WayInv(t)'
    BY <2>1 DEF WayInv
  <2>3. Contents(t)'
    BY <2>1 DEF Contents, Fix, ToSet
  <2> QED  BY <2>2, <2>3
<1>4. ASSUME run' \notin {"cleanup", "over"}, NEW t \in Test PROVE Thr(t)'
  <2>1. Thr(t)
    BY <1>4 DEF IInv
  <2>2. CacheInv(t)'
    <3>1. \A i \in 1 .. Len(cache[t]) : cache[t][i] \in live'
      BY <2>1 DEF Thr, CacheInv
    <3> QED  BY <2>1, <3>1, CacheStays DEF Thr, ToSet
  <2>3. \A fr \in ToSet(stack[t]) : FrameInv(t, fr)'
    BY <2>1, FrameSits DEF Thr, StackInv
  <2>4. \A v : Private(t, v) => Private(t, v)'
    BY DEF Private, ToSet
  <2>5. MineInv(t)'
    BY <2>1, <2>4 DEF Thr, StackInv, MineInv, Top, ToSet
  <2>6. StackInv(t)'
    BY <2>1, <2>3, <2>5 DEF Thr, StackInv, Deps, ToSet
  <2>7. OwnInv(t)'
    BY <2>1, <2>4 DEF Thr, OwnInv, Avail, ToSet, Fix
  <2> QED  BY <2>2, <2>6, <2>7 DEF Thr
<1>5. ScopeDecidesSharing'
  BY DEF IInv, ScopeDecidesSharing, Fix
<1> QED  BY <1>1, <1>2, <1>3, <1>4, <1>5 DEF IInv

\* Before the tests, no thread has anything.
LEMMA NothingYet ==
  ASSUME IInv, run = "main", NEW t \in Test
  PROVE  /\ pc[t] = "idle" /\ stack[t] = <<>> /\ handles[t] = <<>> /\ given[t] = {} /\ cache[t] = <<>>
         /\ body[t] = "none" /\ ~unwinding[t] /\ outcome[t] = "none"
<1>1. pc[t] = "idle" /\ WayInv(t)
  BY DEF IInv, RunInv
<1> QED  BY <1>1 DEF WayInv

LEMMA WarmUpKeeps ==
  ASSUME IInv, NEW f \in Fixture, WarmUp(f)
  PROVE  IInv'
<1>0. /\ Types /\ StoreInv /\ run = "main" /\ store \in Seq(Nat) /\ live \subseteq DOMAIN vals
      /\ ScopeOf[f] = "process" /\ Cached(store, f) = {}
      /\ UNCHANGED <<poisoned, cache, handles, todo, given, stack, pc, body, unwinding, outcome, run>>
  BY DEF IInv, Types, WarmUp
<1>1. PICK uses : uses = UNION {Cached(store, d) : d \in Deps(f)}
  OBVIOUS
<1>2. uses \subseteq ToSet(store) /\ \A x \in ToSet(store) : x \in live /\ x \in DOMAIN vals /\ x \in Nat
  <2>1. uses \subseteq ToSet(store)
    BY <1>1 DEF Cached
  <2>2. ASSUME NEW x \in ToSet(store) PROVE x \in live /\ x \in DOMAIN vals /\ x \in Nat
    <3>1. PICK i \in 1 .. Len(store) : x = store[i]
      BY <1>0, ToSetElements
    <3>2. x \in Nat
      BY <1>0, ToSetElements
    <3> QED  BY <1>0, <3>1, <3>2 DEF StoreInv
  <2> QED  BY <2>1, <2>2
<1>3. PICK new : new = [fix |-> f, uses |-> uses, by |-> "main"]
  OBVIOUS
<1>4. PICK m : m = Len(vals) + 1
  OBVIOUS
<1>5. new \in Value /\ new.fix = f /\ new.uses = uses
  BY <1>2, <1>3 DEF Value
<1>6. /\ vals' = Append(vals, new) /\ vals' \in Seq(Value) /\ Len(vals') = m /\ m \in Nat \ {0}
      /\ DOMAIN vals = 1 .. (m - 1) /\ DOMAIN vals' = 1 .. m /\ vals'[m] = new
      /\ \A v \in DOMAIN vals : v \in DOMAIN vals' /\ vals'[v] = vals[v] /\ v # m
  BY <1>0, <1>1, <1>3, <1>4, <1>5 DEF Types, WarmUp
<1>7. live' = live \cup {m} /\ store' = Append(store, m)
  BY <1>6 DEF WarmUp
<1>8. PICK n : n = Len(store)
  OBVIOUS
<1>9. PICK s : s = Append(store, m)
  OBVIOUS
<1>10. /\ s \in Seq(Nat) /\ ToSet(s) = ToSet(store) \cup {m} /\ n \in Nat
       /\ Len(s) = n + 1 /\ s[n + 1] = m /\ \A i \in 1 .. n : s[i] = store[i]
  BY <1>0, <1>6, <1>8, <1>9, AppendSet
<1>11. \A k \in 1 .. (n + 1) : k = n + 1 \/ k \in 1 .. n
  BY <1>10
<1>12. \A k \in 1 .. n : /\ store[k] \in ToSet(store) /\ store[k] \in live
                         /\ vals'[store[k]] = vals[store[k]]
  <2>1. \A k \in 1 .. n : store[k] \in ToSet(store)
    BY <1>0, <1>8, ToSetElements
  <2> QED  BY <1>2, <1>6, <2>1
<1>13. Types'
  <2>1. \A v \in DOMAIN vals' : vals'[v].uses \subseteq 1 .. v - 1
    <3>1. ASSUME NEW v \in DOMAIN vals' PROVE vals'[v].uses \subseteq 1 .. v - 1
      <4>1. CASE v = m
        <5>1. uses \subseteq 1 .. (m - 1)
          BY <1>2, <1>6
        <5> QED  BY <4>1, <5>1, <1>5, <1>6
      <4>2. CASE v # m
        <5>1. v \in DOMAIN vals
          BY <1>6, <3>1, <4>2
        <5> QED  BY <1>0, <1>6, <5>1 DEF Types
      <4> QED  BY <4>1, <4>2
    <3> QED  BY <3>1
  <2>2. live' \subseteq DOMAIN vals'
    BY <1>0, <1>6, <1>7
  <2> QED  BY <1>0, <1>6, <1>7, <1>9, <1>10, <2>1, <2>2 DEF Types
<1>14. StoreInv'
  <2>1. ASSUME NEW i \in 1 .. Len(s)
        PROVE  /\ s[i] \in live' /\ ScopeOf[vals'[s[i]].fix] = "process"
               /\ \A u \in vals'[s[i]].uses : \E j \in 1 .. (i - 1) : u = s[j]
    <3>1. CASE i = n + 1
      <4>0. \A u \in ToSet(store) : \E j \in 1 .. n : u = store[j]
        BY <1>0, <1>8, ToSetElements
      <4>1. \A u \in uses : \E j \in 1 .. n : u = s[j]
        BY <1>2, <1>10, <4>0
      <4>2. i - 1 = n /\ s[i] = m /\ vals'[s[i]] = new
        BY <1>6, <1>10, <3>1
      <4> QED  BY <1>0, <1>5, <1>7, <4>1, <4>2
    <3>2. CASE i # n + 1
      <4>1. i \in 1 .. n /\ s[i] = store[i] /\ \A j \in 1 .. (i - 1) : s[j] = store[j]
        BY <1>10, <2>1, <3>2
      <4>2. /\ store[i] \in live /\ ScopeOf[vals[store[i]].fix] = "process"
            /\ \A u \in vals[store[i]].uses : \E j \in 1 .. (i - 1) : u = store[j]
        BY <1>0, <1>8, <4>1 DEF StoreInv, Fix
      <4>3. vals'[s[i]] = vals[store[i]] /\ s[i] \in live'
        BY <1>7, <1>12, <4>1
      <4> QED  BY <4>1, <4>2, <4>3
    <3> QED  BY <3>1, <3>2
  <2>2. ASSUME NEW i \in 1 .. Len(s), NEW j \in 1 .. Len(s), vals'[s[i]].fix = vals'[s[j]].fix
        PROVE  i = j
    <3>1. \A k \in 1 .. n : vals'[s[k]].fix # vals'[m].fix
      BY <1>0, <1>5, <1>6, <1>10, <1>12 DEF Cached, Fix
    <3>2. \A k, l \in 1 .. n : vals'[s[k]].fix = vals'[s[l]].fix => k = l
      BY <1>0, <1>8, <1>10, <1>12 DEF StoreInv, Fix
    <3> QED  BY <1>10, <1>11, <2>2, <3>1, <3>2
  <2>3. store' = s
    BY <1>7, <1>9
  <2> QED  BY <2>1, <2>2, <2>3 DEF StoreInv, Fix
<1>15. ASSUME NEW t \in Test
       PROVE  /\ pc'[t] = "idle" /\ stack'[t] = <<>> /\ handles'[t] = <<>> /\ given'[t] = {}
              /\ cache'[t] = <<>> /\ body'[t] = "none" /\ ~unwinding'[t] /\ outcome'[t] = "none"
  BY <1>0, NothingYet
<1>16. ASSUME NEW t \in Test PROVE WayInv(t)' /\ Contents(t)' /\ Thr(t)'
  <2>1. /\ pc'[t] = "idle" /\ stack'[t] = <<>> /\ handles'[t] = <<>> /\ given'[t] = {}
        /\ cache'[t] = <<>> /\ body'[t] = "none" /\ ~unwinding'[t] /\ outcome'[t] = "none"
    BY <1>15
  <2>2. ToSet(stack'[t]) = {} /\ ToSet(handles'[t]) = {} /\ ToSet(cache'[t]) = {} /\ Len(cache'[t]) = 0
    BY <2>1 DEF ToSet
  <2>3. \A i \in 1 .. 0 : FALSE
    OBVIOUS
  <2>4. WayInv(t)'
    BY <2>1 DEF WayInv
  <2>5. Contents(t)'
    BY <2>1, <2>2 DEF Contents
  <2>6. CacheInv(t)'
    BY <2>2, <2>3 DEF CacheInv
  <2>7. StackInv(t)' /\ OwnInv(t)'
    BY <2>1, <2>2 DEF StackInv, MineInv, OwnInv
  <2> QED  BY <2>4, <2>5, <2>6, <2>7 DEF Thr
<1>17. RunInv'
  BY <1>0, <1>15 DEF RunInv
<1>18. Housed' => ScopeDecidesSharing'
  BY SharingFollows, PTL
<1>19. Housed'
  BY <1>13, <1>14, <1>16 DEF Housed
<1> QED  BY <1>13, <1>14, <1>16, <1>17, <1>18, <1>19 DEF IInv

LEMMA CleanupKeeps ==
  ASSUME IInv, NEW panics \in BOOLEAN, CleanupProcessFixture(panics)
  PROVE  IInv'
<1>0. /\ Types /\ StoreInv /\ run = "cleanup" /\ run' \in {"cleanup", "over"}
      /\ store \in Seq(Nat) /\ store # <<>> /\ live' = live \ {Last(store)} /\ store' = Front(store)
      /\ poisoned' \in BOOLEAN /\ live \subseteq DOMAIN vals
      /\ UNCHANGED <<vals, cache, handles, todo, given, stack, pc, body, unwinding, outcome>>
  BY DEF IInv, Types, CleanupProcessFixture
<1>1. PICK n : n = Len(store)
  OBVIOUS
<1>2. PICK s : s = Front(store)
  OBVIOUS
<1>3. /\ s \in Seq(Nat) /\ Len(s) = n - 1 /\ n \in Nat \ {0} /\ Last(store) = store[n]
      /\ \A i \in 1 .. (n - 1) : s[i] = store[i]
  BY <1>0, <1>1, <1>2, FrontLast
<1>4. \A i \in 1 .. Len(s) : i \in 1 .. (n - 1) /\ i \in 1 .. n /\ i # n /\ n \in 1 .. n
  BY <1>3
<1>5. StoreInv'
  <2>1. ASSUME NEW i \in 1 .. Len(s)
        PROVE  /\ s[i] \in live' /\ ScopeOf[vals[s[i]].fix] = "process"
               /\ \A u \in vals[s[i]].uses : \E j \in 1 .. (i - 1) : u = s[j]
    <3>1. /\ i \in 1 .. n /\ n \in 1 .. n /\ i # n /\ s[i] = store[i]
          /\ \A j \in 1 .. (i - 1) : s[j] = store[j]
      BY <1>3, <1>4
    <3>2. /\ store[i] \in live /\ ScopeOf[vals[store[i]].fix] = "process"
          /\ \A u \in vals[store[i]].uses : \E j \in 1 .. (i - 1) : u = store[j]
      BY <1>0, <1>1, <3>1 DEF StoreInv, Fix
    <3>3. store[i] # store[n]
      BY <1>0, <1>1, <3>1 DEF StoreInv
    <3> QED  BY <1>0, <1>3, <3>1, <3>2, <3>3
  <2>2. ASSUME NEW i \in 1 .. Len(s), NEW j \in 1 .. Len(s), vals[s[i]].fix = vals[s[j]].fix PROVE i = j
    <3>1. i \in 1 .. n /\ j \in 1 .. n /\ s[i] = store[i] /\ s[j] = store[j]
      BY <1>3, <1>4
    <3> QED  BY <1>0, <1>1, <2>2, <3>1 DEF StoreInv, Fix
  <2>3. store' = s /\ vals' = vals
    BY <1>0, <1>2
  <2> QED  BY <2>1, <2>2, <2>3 DEF StoreInv, Fix
<1>6. Types'
  BY <1>0, <1>2, <1>3 DEF Types
<1>7. RunInv'
  BY <1>0 DEF IInv, RunInv
<1>8. ASSUME NEW t \in Test PROVE WayInv(t)' /\ Contents(t)'
  <2>1. WayInv(t) /\ Contents(t) /\ pc[t] = "done"
    BY <1>0 DEF IInv, RunInv
  <2>2. WayInv(t)'
    BY <1>0, <2>1 DEF WayInv
  <2>3. Contents(t)'
    BY <1>0, <2>1 DEF Contents, Fix, ToSet
  <2> QED  BY <2>2, <2>3
<1>9. ScopeDecidesSharing'
  BY <1>0 DEF IInv, ScopeDecidesSharing, Fix
<1> QED  BY <1>0, <1>5, <1>6, <1>7, <1>8, <1>9 DEF IInv

LEMMA InitHolds == Init => IInv
<1> SUFFICES ASSUME Init PROVE IInv
  OBVIOUS
<1> USE DEF Init
<1>1. Types
  <2>1. /\ <<>> \in Seq(Value) /\ <<>> \in Seq(Nat) /\ <<>> \in Seq(SetupFrame)
        /\ DOMAIN vals = {}
    OBVIOUS
  <2>2. UsesOf \in [Test -> Seq(Fixture)]
    BY FixturesAssumption
  <2> QED  BY <2>1, <2>2 DEF Types
<1>2. \A i \in 1 .. 0 : FALSE
  OBVIOUS
<1>3. StoreInv
  <2>1. Len(store) = 0
    OBVIOUS
  <2> QED  BY <1>2, <2>1 DEF StoreInv
<1>4. ASSUME NEW t \in Test PROVE WayInv(t) /\ Contents(t) /\ Thr(t)
  <2>1. /\ pc[t] = "idle" /\ stack[t] = <<>> /\ handles[t] = <<>> /\ given[t] = {}
        /\ cache[t] = <<>> /\ body[t] = "none" /\ ~unwinding[t] /\ outcome[t] = "none"
    OBVIOUS
  <2>2. ToSet(stack[t]) = {} /\ ToSet(handles[t]) = {} /\ ToSet(cache[t]) = {} /\ Len(cache[t]) = 0
    BY <2>1 DEF ToSet
  <2>3. WayInv(t)
    BY <2>1 DEF WayInv
  <2>4. Contents(t)
    BY <2>1, <2>2 DEF Contents
  <2>5. CacheInv(t)
    BY <1>2, <2>2 DEF CacheInv
  <2>6. StackInv(t) /\ OwnInv(t)
    BY <2>1, <2>2 DEF StackInv, MineInv, OwnInv
  <2> QED  BY <2>3, <2>4, <2>5, <2>6 DEF Thr
<1>5. RunInv
  BY DEF RunInv
<1>6. ScopeDecidesSharing
  BY <1>1, <1>3, <1>4, SharingFollows DEF Housed
<1> QED  BY <1>1, <1>3, <1>4, <1>5, <1>6 DEF IInv

LEMMA NextKeeps == IInv /\ [Next]_vars => IInv'
<1> SUFFICES ASSUME IInv, [Next]_vars PROVE IInv'
  OBVIOUS
<1>1. ASSUME NEW t \in Test, TestStep(t) PROVE IInv'
  BY <1>1, EnterTestScopeKeeps, FixtureGetKeeps, LookupKeeps, SetupOkKeeps, SetupErrKeeps,
     SetupPanicsKeeps, StoreKeeps, LeaveFrameKeeps, RunBodyKeeps, DropDependencyKeeps, PublishKeeps,
     DropInFrameKeeps, DropHandleKeeps, ReclaimEntryKeeps, EndTestKeeps DEF TestStep
<1>2. ASSUME NEW f \in Fixture, WarmUp(f) PROVE IInv'
  BY <1>2, WarmUpKeeps
<1>3. ASSUME NEW f \in Fixture, WarmUpFails(f) PROVE IInv'
  <2>1. RunInv' /\ \A t \in Test : pc[t] # "end"
    BY <1>3, NothingYet DEF WarmUpFails, RunInv
  <2> QED  BY <1>3, <2>1, RunMoves DEF WarmUpFails
<1>4. CASE RunTests
  <2>1. RunInv' /\ \A t \in Test : pc[t] # "end"
    BY <1>4, NothingYet DEF RunTests, RunInv
  <2> QED  BY <1>4, <2>1, RunMoves DEF RunTests
<1>5. CASE TestsOver
  <2>1. RunInv' /\ \A t \in Test : pc[t] # "end"
    BY <1>5 DEF TestsOver, RunInv
  <2> QED  BY <1>5, <2>1, RunMoves DEF TestsOver
<1>6. CASE CleanupDone
  <2>1. RunInv' /\ \A t \in Test : pc[t] # "end"
    BY <1>6 DEF CleanupDone, RunInv, IInv
  <2> QED  BY <1>6, <2>1, RunMoves DEF CleanupDone
<1>7. CASE UNCHANGED vars
  <2>1. UNCHANGED <<heap, cache, handles, todo, given, stack, pc, body, unwinding, outcome, run>>
    BY <1>7 DEF vars
  <2>2. RunInv' /\ run \in {"main", "tests", "cleanup", "over", "aborted"}
    BY <2>1 DEF RunInv, IInv, Types
  <2> QED  BY <2>1, <2>2, RunMoves
<1>8. ASSUME NEW panics \in BOOLEAN, CleanupProcessFixture(panics) PROVE IInv'
  BY <1>8, CleanupKeeps
<1> QED  BY <1>1, <1>2, <1>3, <1>4, <1>5, <1>6, <1>7, <1>8 DEF Next, Finished

-----------------------------------------------------------------------------
(* Theorems.                                                               *)

\* fixture_get, TestScope's Drop and the process cleanup keep every value where
\* the ownership invariant says, whatever fails.
THEOREM FixturesKeepTheirInvariant == Spec => []IInv
BY InitHolds, NextKeeps, PTL DEF Spec

\* What a setup on t's thread was given is alive.
LEMMA AvailIsLive ==
  ASSUME IInv, run = "tests", NEW t \in Test
  PROVE  Avail(t) \subseteq live
<1>0. StoreInv /\ CacheInv(t) /\ store \in Seq(Nat) /\ cache[t] \in Seq(Nat)
  BY DEF IInv, Thr, Types
<1>1. ASSUME NEW v \in ToSet(store) PROVE v \in live
  <2>1. PICK i \in 1 .. Len(store) : v = store[i]
    BY <1>0, ToSetElements
  <2> QED  BY <1>0, <2>1 DEF StoreInv
<1>2. ASSUME NEW v \in ToSet(cache[t]) PROVE v \in live
  <2>1. PICK i \in 1 .. Len(cache[t]) : v = cache[t][i]
    BY <1>0, ToSetElements
  <2> QED  BY <1>0, <2>1 DEF CacheInv
<1> QED  BY <1>1, <1>2 DEF Avail

LEMMA TypesFollow == IInv => TypeOK
<1> SUFFICES ASSUME IInv PROVE TypeOK
  OBVIOUS
<1>0. Types /\ StoreInv /\ vals \in Seq(Value) /\ live \subseteq DOMAIN vals /\ store \in Seq(Nat)
  BY DEF IInv, Types
<1>1. \A v \in DOMAIN vals : Fix(v) \in Fixture /\ vals[v].uses \subseteq 1 .. v - 1
  <2>1. \A v \in DOMAIN vals : vals[v] \in Value
    BY <1>0, ElementOfSeq, LenProperties
  <2>2. \A v \in DOMAIN vals : vals[v].fix \in Fixture
    BY <2>1 DEF Value
  <2>3. \A v \in DOMAIN vals : vals[v].uses \subseteq 1 .. v - 1
    BY <1>0, Zenon DEF Types
  <2> QED  BY <2>2, <2>3 DEF Fix
<1>2. ASSUME NEW v \in ToSet(store) PROVE v \in DOMAIN vals /\ ScopeOf[Fix(v)] = "process"
  <2>1. PICK i \in 1 .. Len(store) : v = store[i]
    BY <1>0, ToSetElements
  <2> QED  BY <1>0, <2>1 DEF StoreInv
<1>3. ASSUME NEW t \in Test
      PROVE  /\ \A v \in ToSet(cache[Thread(t)]) : v \in DOMAIN vals /\ ScopeOf[Fix(v)] = "test"
             /\ ToSet(handles[t]) \cup given[t] \subseteq DOMAIN vals
  BY DEF IInv, Contents, Thread
<1>4. ASSUME NEW t \in Test
      PROVE  /\ pc[t] \in {"idle", "setup", "teardown", "end", "done"}
             /\ body[t] \in Ending \cup {"none"}
             /\ outcome[t] \in {"none", "pass", "fail"}
  BY <1>0 DEF Types
<1>5. \A t \in Test : unwinding[t] \in BOOLEAN
  BY <1>0, Zenon DEF Types
<1>6. poisoned \in BOOLEAN /\ run \in {"main", "tests", "cleanup", "over", "aborted"}
  BY <1>0, Zenon DEF Types
<1> QED  BY <1>0, <1>1, <1>2, <1>3, <1>4, <1>5, <1>6, Zenon DEF TypeOK

\* A test, or a setup in progress, never holds a reference to a dropped value:
\* not when another thread wins the race to store a process fixture, nor when
\* the thread unwinds through its setups.
THEOREM NoDanglingFixture == Spec => []GivenIsLive
<1>1. IInv => GivenIsLive
  <2> SUFFICES ASSUME IInv PROVE GivenIsLive
    OBVIOUS
  <2>1. TypeOK
    BY TypesFollow
  <2>2. ASSUME run = "tests", NEW t \in Test PROVE given[t] \subseteq live
    BY <2>2 DEF IInv, Thr, OwnInv
  <2>3. ASSUME run = "tests", NEW t \in Test, NEW i \in 1 .. Len(stack[t]) PROVE stack[t][i].uses \subseteq live
    <3>1. stack[t] \in Seq(SetupFrame)
      BY DEF IInv, Types
    <3>2. stack[t][i] \in ToSet(stack[t])
      BY <3>1, ToSetElements
    <3>3. stack[t][i].uses \subseteq Avail(t)
      BY <2>3, <3>2 DEF IInv, Thr, StackInv, FrameInv
    <3> QED  BY <2>3, <3>3, AvailIsLive
  <2> QED  BY <2>1, <2>2, <2>3 DEF GivenIsLive
<1> QED  BY <1>1, FixturesKeepTheirInvariant, PTL

\* Every test that uses a process fixture is given the same value, and no test
\* is given a test-scoped value of another.
THEOREM SharingIsByScope == Spec => []ScopeDecidesSharing
<1>1. IInv => ScopeDecidesSharing
  BY DEF IInv
<1> QED  BY <1>1, FixturesKeepTheirInvariant, PTL

\* A trial passes for what its body did, and for nothing that its setups, its
\* drops or TestScope did; and it leaves no fixture of its own alive.
THEOREM VerdictsAreEarned == Spec => []VerdictIsTheBodys
<1>1. IInv => VerdictIsTheBodys
  <2> SUFFICES ASSUME IInv, NEW t \in Test, outcome[t] = "pass"
               PROVE  /\ IF t \in ShouldPanic THEN body[t] = "panicked"
                         ELSE body[t] = "returned" /\ ~unwinding[t]
                      /\ ToSet(cache[Thread(t)]) \cap live = {}
    BY DEF VerdictIsTheBodys
  <2>1. /\ IF t \in ShouldPanic THEN body[t] = "panicked" ELSE body[t] = "returned" /\ ~unwinding[t]
        /\ cache[t] = <<>>
    BY DEF IInv, WayInv
  <2>2. ToSet(cache[t]) = {}
    BY <2>1 DEF ToSet
  <2> QED  BY <2>1, <2>2 DEF Thread
<1> QED  BY <1>1, FixturesKeepTheirInvariant, PTL

\* Whenever a value is dropped, by whichever path, the cached values its setup
\* was given are alive.
THEOREM TeardownIsInOrder == Spec => DependenciesOutlive
<1>1. IInv /\ [Next]_vars => [\A v \in live \ live' : vals[v].uses \subseteq live]_vars
  <2> SUFFICES ASSUME IInv, Next, NEW v \in live \ live' PROVE vals[v].uses \subseteq live
    OBVIOUS
  <2>0. Types /\ StoreInv
    BY DEF IInv
  <2>1. ASSUME NEW t \in Test, run = "tests", v \in ToSet(cache[t]) PROVE vals[v].uses \subseteq live
    <3>0. CacheInv(t) /\ cache[t] \in Seq(Nat)
      BY <2>0, <2>1 DEF IInv, Thr, Types
    <3>1. PICK i \in 1 .. Len(cache[t]) : v = cache[t][i]
      BY <2>1, <3>0, ToSetElements
    <3>2. \A u \in vals[v].uses : u \in ToSet(store) \/ \E j \in 1 .. (i - 1) : u = cache[t][j]
      BY <3>0, <3>1 DEF CacheInv
    <3>3. \A j \in 1 .. (i - 1) : cache[t][j] \in ToSet(cache[t])
      <4>1. \A j \in 1 .. (i - 1) : j \in 1 .. Len(cache[t])
        BY <3>0, <3>1, LenProperties
      <4> QED  BY <3>0, <4>1, ToSetElements
    <3>4. vals[v].uses \subseteq Avail(t)
      BY <3>2, <3>3 DEF Avail
    <3> QED  BY <2>1, <3>4, AvailIsLive
  <2>2. ASSUME NEW t \in Test, run = "tests", vals[v].uses \subseteq Avail(t) PROVE vals[v].uses \subseteq live
    BY <2>2, AvailIsLive
  <2>3. ASSUME NEW t \in Test, TestStep(t) PROVE vals[v].uses \subseteq live
    <3>1. ASSUME NEW panics \in BOOLEAN, DropDependency(t, panics) \/ DropInFrame(t, panics)
          PROVE  vals[v].uses \subseteq live
      <4>1. run = "tests" /\ stack[t] # <<>> /\ Top(t).owned # <<>> /\ v = Last(Top(t).owned)
        BY <3>1 DEF DropDependency, DropInFrame, InSetup, DropValue
      <4>2. Top(t) \in SetupFrame /\ Top(t) \in ToSet(stack[t])
        BY <2>0, <4>1, HeadTail DEF Types, Top
      <4>3. Top(t).owned \in Seq(Nat)
        BY <4>2 DEF SetupFrame
      <4>4. v \in ToSet(Top(t).owned)
        BY <4>1, <4>3, FrontLast
      <4>5. vals[v].uses \subseteq Avail(t)
        BY <4>1, <4>2, <4>4 DEF IInv, Thr, StackInv, FrameInv
      <4> QED  BY <2>2, <4>1, <4>5
    <3>2. ASSUME NEW panics \in BOOLEAN, Publish(t, panics) PROVE vals[v].uses \subseteq live
      <4>1. /\ run = "tests" /\ pc[t] = "setup" /\ stack[t] # <<>>
            /\ v = Top(t).mine /\ v # 0
        BY <3>2 DEF Publish, InSetup
      <4>2. vals[v].uses \subseteq Avail(t)
        BY <4>1, MineUses
      <4> QED  BY <2>2, <4>1, <4>2
    <3>3. ASSUME NEW panics \in BOOLEAN, DropHandle(t, panics) PROVE vals[v].uses \subseteq live
      <4>1. run = "tests" /\ handles[t] # <<>> /\ v = Last(handles[t]) /\ handles[t] \in Seq(Nat)
        BY <2>0, <3>3 DEF DropHandle, DropValue, Types
      <4>2. v \in ToSet(handles[t])
        BY <4>1, FrontLast
      <4>3. vals[v].uses \subseteq Avail(t)
        BY <4>1, <4>2 DEF IInv, Thr, OwnInv
      <4> QED  BY <2>2, <4>1, <4>3
    <3>4. ASSUME NEW panics \in BOOLEAN, ReclaimEntry(t, panics) PROVE vals[v].uses \subseteq live
      <4>1. run = "tests" /\ cache[t] # <<>> /\ v = Last(cache[t]) /\ cache[t] \in Seq(Nat)
        BY <2>0, <3>4 DEF ReclaimEntry, DropValue, Types, Thread
      <4>2. v \in ToSet(cache[t])
        BY <4>1, FrontLast
      <4> QED  BY <2>1, <4>1, <4>2
    <3>5. CASE SetupOk(t)
      BY <3>5 DEF SetupOk
    <3>6. CASE live' = live
      BY <3>6
    <3>7. \/ \E panics \in BOOLEAN : DropDependency(t, panics) \/ DropInFrame(t, panics)
          \/ \E panics \in BOOLEAN : Publish(t, panics) \/ DropHandle(t, panics) \/ ReclaimEntry(t, panics)
          \/ SetupOk(t) \/ UNCHANGED heap
      <4>1. Lookup(t) => UNCHANGED heap
        BY DEF Lookup
      <4> QED  BY <2>3, <4>1 DEF TestStep, EnterTestScope, FixtureGet, SetupErr, SetupPanics, SetupFailed,
                      Store, LeaveFrame, RunBody, EndTest
    <3> QED  BY <3>1, <3>2, <3>3, <3>4, <3>5, <3>6, <3>7 DEF heap
  <2>4. ASSUME NEW panics \in BOOLEAN, CleanupProcessFixture(panics) PROVE vals[v].uses \subseteq live
    <3>1. v = Last(store) /\ store # <<>> /\ store \in Seq(Nat)
      BY <2>0, <2>4 DEF CleanupProcessFixture, Types
    <3>2. Len(store) \in Nat \ {0} /\ v = store[Len(store)]
      BY <3>1, FrontLast
    <3>3. Len(store) \in 1 .. Len(store) /\ \A j \in 1 .. (Len(store) - 1) : j \in 1 .. Len(store)
      BY <3>2
    <3>4. \A u \in vals[v].uses : \E j \in 1 .. (Len(store) - 1) : u = store[j]
      BY <2>0, <3>2, <3>3 DEF StoreInv
    <3>5. \A j \in 1 .. (Len(store) - 1) : store[j] \in live
      BY <2>0, <3>3 DEF StoreInv
    <3> QED  BY <3>4, <3>5
  <2>5. ASSUME NEW f \in Fixture, WarmUp(f) PROVE FALSE
    BY <2>5 DEF WarmUp
  <2>6. \/ \E t \in Test : TestStep(t)
        \/ \E f \in Fixture : WarmUp(f)
        \/ \E panics \in BOOLEAN : CleanupProcessFixture(panics)
        \/ live' = live
    BY DEF Next, WarmUpFails, RunTests, TestsOver, CleanupDone, Finished, vars, heap
  <2> QED  BY <2>3, <2>4, <2>5, <2>6
<1> QED  BY <1>1, FixturesKeepTheirInvariant, PTL DEF Spec, DependenciesOutlive
=============================================================================
