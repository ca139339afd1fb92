--------------------------- MODULE PublishProofs ---------------------------
(***************************************************************************)
(* Proofs about Publish, for every set of processes, users, directories    *)
(* and executables: publishing refines AtomicPublish, everybody of one     *)
(* home opens one file, nobody is turned away for what another did, and no *)
(* temp entry is forgotten.                                                *)
(*                                                                         *)
(* The inductive invariant says where a process is on its way down to the  *)
(* file (what it still has to make, and that the parent of the next one is *)
(* there), which temp entry is its own, what the init lock excludes, and   *)
(* that published entries are open and stay.                               *)
(***************************************************************************)
EXTENDS Publish, SequenceTheorems, TLAPS

Making == {"temp", "chmod", "verify", "rename", "discard"}
WithTemp == {"chmod", "verify", "rename", "discard"}
Located == {"lock", "open", "recheck", "lstat", "done"}
Phases == Ended \cup Making \cup {"idle", "scan", "usable", "lock", "open", "recheck", "lstat"}

Entry == [dir : Seq(Name), name : TempName, by : Proc, open : BOOLEAN]

\* The lowest k levels of a directory, the deepest first: what Scan collects.
Chain(d, k) == [i \in 1..k |-> SubSeq(d, 1, Len(d) - i + 1)]

Types ==
  /\ pc \in [Proc -> Phases]
  /\ missing \in [Proc -> Seq(Seq(Name))]
  /\ temp \in [Proc -> TempName \cup {""}]
  /\ tried \in [Proc -> SUBSET TempName]
  /\ created \in [Proc -> BOOLEAN]
  /\ conn \in [Proc -> Proc \cup {"", "old"}]
  /\ temps \subseteq Entry
  /\ split \in BOOLEAN /\ keeps \in BOOLEAN /\ hit \subseteq Proc

\* What p has still to make is a run of levels of its directory that ends
\* above something that exists, or the file; its next parent is there.
Way(p) ==
  /\ pc[p] = "scan" => \E k \in 0..(Len(Dir(p)) - 1) : missing[p] = Chain(Dir(p), k)
  /\ pc[p] = "scan" => \A i \in 1..Len(missing[p]) : missing[p][i] \notin DOMAIN Before
  /\ pc[p] \in Making =>
       /\ \/ missing[p] = <<DbPath(p)>>
          \/ \E k \in 1..(Len(Dir(p)) - 1) : missing[p] = Chain(Dir(p), k)
       /\ Front(Target(p)) \in DOMAIN fs
  /\ pc[p] \notin Making \cup {"scan", "crashed"} => missing[p] = <<>>
  /\ pc[p] = "discard" => Target(p) \in DOMAIN fs
  /\ pc[p] \in Located => Dir(p) \in DOMAIN fs
  /\ pc[p] = "usable" /\ created[p] => Dir(p) \in DOMAIN fs
  /\ pc[p] = "done" => DbPath(p) \in DOMAIN fs /\ conn[p] = fs[DbPath(p)].by
  /\ ~split /\ pc[p] = "recheck" => DbPath(p) \notin DOMAIN fs
  /\ ~created[p] => p \in hit \/ ~keeps

\* p's temp entry, from its creation to its rename or removal, and its mode.
HasTemp(p) ==
  pc[p] \in WithTemp => \E t \in temps :
    /\ t.by = p /\ t.dir = Front(Target(p)) /\ t.name = temp[p]
    /\ pc[p] # "chmod" => t.open = keeps
    /\ pc[p] \in {"rename", "discard"} /\ IsFile(p) => t.open

TempsOwned ==
  /\ \A t, u \in temps : t.dir = u.dir /\ t.name = u.name => t = u
  /\ \A t \in temps : \/ t \in kept \/ pc[t.by] = "crashed"
                      \/ pc[t.by] \in WithTemp /\ t \in Mine(t.by)

\* What was there stays as it was; what was published is open to all, unless
\* the file system keeps no modes and it is a directory.
Entries ==
  /\ DOMAIN Before \subseteq DOMAIN fs
  /\ \A x \in DOMAIN Before : fs[x] = Before[x]
  /\ \A x \in DOMAIN fs \ DOMAIN Before :
       /\ fs[x].by \in Proc
       /\ keeps => fs[x].open = TRUE
       /\ x \in {DbPath(p) : p \in Proc} => fs[x].open = TRUE
       /\ fs[x].open \in BOOLEAN

LockExcludes ==
  ~split => \A p, q \in Proc : p # q /\ Dir(p) = Dir(q) /\ InSection(p) => ~InSection(q)

IInv ==
  /\ Types
  /\ \A p \in Proc : Way(p) /\ HasTemp(p)
  /\ TempsOwned /\ Entries /\ LockExcludes
  /\ NobodyIsTurnedAway

-----------------------------------------------------------------------------
(* Sequences.                                                              *)

\* The first n names of a path: a path, of length n.
LEMMA PrefixFacts ==
  ASSUME NEW d \in Seq(Name), NEW n \in 0..Len(d)
  PROVE  /\ SubSeq(d, 1, n) \in Seq(Name) /\ Len(SubSeq(d, 1, n)) = n
         /\ \A i \in 1..n : SubSeq(d, 1, n)[i] = d[i]
         /\ n = Len(d) => SubSeq(d, 1, n) = d
         /\ n > 0 => Front(SubSeq(d, 1, n)) = SubSeq(d, 1, n - 1)
<1>1. n \in Nat /\ n <= Len(d) /\ Len(d) \in Nat
  OBVIOUS
<1>2. \A i \in 1..n : d[i] \in Name
  BY <1>1, ElementOfSeq
<1>3. /\ SubSeq(d, 1, n) \in Seq(Name) /\ Len(SubSeq(d, 1, n)) = n
      /\ \A i \in 1..n : SubSeq(d, 1, n)[i] = d[i]
  BY <1>1, <1>2, SubSeqProperties
<1>4. n = Len(d) => SubSeq(d, 1, n) = d
  BY <1>1, <1>3, SeqEqual
<1>5. ASSUME n > 0 PROVE Front(SubSeq(d, 1, n)) = SubSeq(d, 1, n - 1)
  <2> DEFINE e == SubSeq(d, 1, n)
  <2>1. Front(e) = SubSeq(e, 1, n - 1)
    BY <1>3 DEF Front
  <2>2. n - 1 \in Nat /\ n - 1 <= Len(e) /\ n - 1 <= Len(d)
    BY <1>1, <1>3, <1>5
  <2>3. \A i \in 1..(n - 1) : e[i] \in Name /\ d[i] \in Name /\ e[i] = d[i]
    BY <1>1, <1>2, <1>3
  <2>4. /\ SubSeq(e, 1, n - 1) \in Seq(Name) /\ Len(SubSeq(e, 1, n - 1)) = n - 1
        /\ \A i \in 1..(n - 1) : SubSeq(e, 1, n - 1)[i] = e[i]
    BY <2>2, <2>3, <1>3, SubSeqProperties
  <2>5. /\ SubSeq(d, 1, n - 1) \in Seq(Name) /\ Len(SubSeq(d, 1, n - 1)) = n - 1
        /\ \A i \in 1..(n - 1) : SubSeq(d, 1, n - 1)[i] = d[i]
    BY <2>2, <2>3, SubSeqProperties
  <2> HIDE DEF e
  <2>6. SubSeq(e, 1, n - 1) = SubSeq(d, 1, n - 1)
    BY <2>2, <2>3, <2>4, <2>5, SeqEqual
  <2> QED  BY <2>1, <2>6 DEF e
<1> QED  BY <1>3, <1>4, <1>5

\* What Scan appends, and what Proceed takes off.
LEMMA ChainFacts ==
  ASSUME NEW d \in Seq(Name), NEW k \in 0..Len(d)
  PROVE  /\ Chain(d, k) \in Seq(Seq(Name)) /\ Len(Chain(d, k)) = k
         /\ k = 0 => Chain(d, k) = <<>>
         /\ k > 0 => /\ Chain(d, k) # <<>>
                     /\ Last(Chain(d, k)) = SubSeq(d, 1, Len(d) - k + 1)
                     /\ Front(Chain(d, k)) = Chain(d, k - 1)
         /\ k < Len(d) => Append(Chain(d, k), SubSeq(d, 1, Len(d) - k)) = Chain(d, k + 1)
<1> DEFINE P(i) == SubSeq(d, 1, Len(d) - i + 1)
<1>0. \A i \in 1..Len(d) : P(i) \in Seq(Name)
  <2> TAKE i \in 1..Len(d)
  <2>1. Len(d) - i + 1 \in 0..Len(d)
    OBVIOUS
  <2> QED  BY <2>1, PrefixFacts
<1>1. \A j \in 0..Len(d) : Chain(d, j) = [i \in 1..j |-> P(i)] /\ j \in Nat
  BY DEF Chain
<1> HIDE DEF P
<1>2. \A j \in 0..Len(d) : /\ Chain(d, j) \in Seq(Seq(Name)) /\ Len(Chain(d, j)) = j
                           /\ \A i \in 1..j : Chain(d, j)[i] = P(i)
  BY <1>0, <1>1
<1>3. k = 0 => Chain(d, k) = <<>>
  BY <1>2
<1>4. ASSUME k > 0
      PROVE  Chain(d, k) # <<>> /\ Last(Chain(d, k)) = P(k) /\ Front(Chain(d, k)) = Chain(d, k - 1)
  <2>1. k \in 1..k /\ k - 1 \in 0..Len(d) /\ k - 1 \in Nat
    BY <1>4
  <2>2. Chain(d, k) # <<>> /\ Last(Chain(d, k)) = P(k)
    BY <1>2, <2>1 DEF Last
  <2>3. Front(Chain(d, k)) = SubSeq(Chain(d, k), 1, k - 1)
    BY <1>2 DEF Front
  <2>4. /\ SubSeq(Chain(d, k), 1, k - 1) \in Seq(Seq(Name))
        /\ Len(SubSeq(Chain(d, k), 1, k - 1)) = k - 1
        /\ \A i \in 1..(k - 1) : SubSeq(Chain(d, k), 1, k - 1)[i] = Chain(d, k)[i]
    <3>1. Chain(d, k) \in Seq(Seq(Name)) /\ Len(Chain(d, k)) = k
      BY <1>2
    <3>2. \A i \in 1..(k - 1) : Chain(d, k)[i] \in Seq(Name)
      BY <3>1, <1>2, <1>0
    <3> QED  BY <3>1, <3>2, <2>1, SubSeqProperties
  <2>5. \A i \in 1..(k - 1) : SubSeq(Chain(d, k), 1, k - 1)[i] = Chain(d, k - 1)[i]
    BY <2>1, <2>4, <1>2
  <2>6. SubSeq(Chain(d, k), 1, k - 1) = Chain(d, k - 1)
    BY <2>1, <2>4, <2>5, <1>2, SeqEqual
  <2> QED  BY <2>2, <2>3, <2>6
<1>5. ASSUME k < Len(d) PROVE Append(Chain(d, k), SubSeq(d, 1, Len(d) - k)) = Chain(d, k + 1)
  <2>1. k + 1 \in 0..Len(d) /\ k + 1 \in 1..Len(d) /\ k \in Nat
    BY <1>5
  <2>2. P(k + 1) = SubSeq(d, 1, Len(d) - k) /\ P(k + 1) \in Seq(Name)
    <3>1. Len(d) - (k + 1) + 1 = Len(d) - k
      BY <2>1
    <3> QED  BY <3>1, <2>1, <1>0 DEF P
  <2>3. PICK c : c = Chain(d, k)
    OBVIOUS
  <2>4. c \in Seq(Seq(Name)) /\ Len(c) = k /\ \A i \in 1..k : c[i] = P(i)
    BY <2>3, <1>2
  <2>5. /\ Append(c, P(k + 1)) \in Seq(Seq(Name)) /\ Len(Append(c, P(k + 1))) = k + 1
        /\ \A i \in 1..(k + 1) : Append(c, P(k + 1))[i] = P(i)
    BY <2>1, <2>2, <2>4
  <2>6. Append(c, P(k + 1)) = Chain(d, k + 1)
    BY <2>1, <2>5, <1>2, SeqEqual, SMTT(40)
  <2> QED  BY <2>2, <2>3, <2>6
<1> QED  BY <1>2, <1>3, <1>4, <1>5 DEF P

-----------------------------------------------------------------------------
(* Where the database is.                                                  *)

\* Every process that belongs to a directory looks for the database there,
\* in whichever of cargo's layouts its executable lies.
LEMMA DirIsHome ==
  ASSUME NEW p \in Proc
  PROVE  Dir(p) = Home[p] /\ Dir(p) \in Seq(Name) /\ Dir(p) # <<>> /\ Len(Dir(p)) \in Nat \ {0}
<1>1. PICK h : h = Home[p]
  OBVIOUS
<1>2. h \in Seq(Name) /\ h # <<>> /\ Len(h) \in Nat \ {0}
  BY <1>1, HomeAssumption, EmptySeq
<1>3. PICK e : e = Exe[p]
  OBVIOUS
<1>4. e \in Seq(Name) /\ (Override[p] = <<>> => e # <<>> /\ Len(e) \in Nat \ {0})
  BY <1>3, PublishAssumption, EmptySeq
<1>5. CASE Override[p] = h
  BY <1>1, <1>2, <1>5 DEF Dir
<1>6. CASE /\ Override[p] = <<>> /\ (p \in Hashed \/ h \in Marked)
           /\ \E d \in {"deps", "examples"} : Front(e) = Append(h, d)
  <2>1. PICK d \in {"deps", "examples"} : Front(e) = Append(h, d)
    BY <1>6
  <2>2. PICK f : f = Append(h, d)
    OBVIOUS
  <2>3. f \in Seq(Name) /\ Len(f) = Len(h) + 1 /\ f[Len(h) + 1] = d
        /\ \A i \in 1..Len(h) : f[i] = h[i]
    <3>1. d \in Name
      BY PublishAssumption
    <3> QED  BY <3>1, <2>2, <1>2, AppendProperties
  <2>4. f # <<>> /\ Last(f) = d
    BY <2>3, <1>2 DEF Last
  <2>5. Front(f) = SubSeq(f, 1, Len(h))
    BY <2>3, <1>2 DEF Front
  <2>6. SubSeq(f, 1, Len(h)) \in Seq(Name) /\ Len(SubSeq(f, 1, Len(h))) = Len(h)
        /\ \A i \in 1..Len(h) : SubSeq(f, 1, Len(h))[i] = f[i]
    <3>1. Len(h) \in 0..Len(f)
      BY <2>3, <1>2
    <3> QED  BY <3>1, <2>3, PrefixFacts
  <2>7. SubSeq(f, 1, Len(h)) = h
    BY <2>3, <2>6, <1>2, SeqEqual
  <2>8. LayoutDir(p) = h
    BY <1>3, <1>6, <2>1, <2>2, <2>4, <2>5, <2>7 DEF LayoutDir
  <2> QED  BY <1>1, <1>2, <1>6, <2>8 DEF Dir
<1>7. CASE /\ Override[p] = <<>> /\ (p \in Hashed \/ h \in Marked)
           /\ Len(e) = Len(h) + 5 /\ IsPrefix(h, e)
           /\ e[Len(h) + 1] = "build" /\ e[Len(h) + 4] = "out"
  <2>1. Front(e) = SubSeq(e, 1, Len(h) + 4)
    BY <1>7, <1>2 DEF Front
  <2>2. PICK f : f = SubSeq(e, 1, Len(h) + 4)
    OBVIOUS
  <2>3. f \in Seq(Name) /\ Len(f) = Len(h) + 4 /\ \A i \in 1..(Len(h) + 4) : f[i] = e[i]
    <3>1. Len(h) + 4 \in 0..Len(e)
      BY <1>7, <1>2
    <3> QED  BY <3>1, <2>2, <1>4, PrefixFacts
  <2>4. f # <<>> /\ Last(f) = "out" /\ Len(f) > 4
    BY <2>3, <1>2, <1>7 DEF Last
  <2>5. PICK g : g = SubSeq(f, 1, Len(f) - 3)
    OBVIOUS
  <2>6. g \in Seq(Name) /\ Len(g) = Len(h) + 1 /\ \A i \in 1..(Len(h) + 1) : g[i] = f[i]
    <3>1. Len(f) - 3 \in 0..Len(f) /\ Len(f) - 3 = Len(h) + 1
      BY <2>3, <1>2
    <3> QED  BY <3>1, <2>3, <2>5, PrefixFacts
  <2>7. g # <<>> /\ Last(g) = "build"
    BY <2>6, <2>3, <1>2, <1>7 DEF Last
  <2>8. SubSeq(f, 1, Len(f) - 4) = h
    <3>1. Len(f) - 4 \in 0..Len(f) /\ Len(f) - 4 = Len(h)
      BY <2>3, <1>2
    <3>2. /\ SubSeq(f, 1, Len(h)) \in Seq(Name) /\ Len(SubSeq(f, 1, Len(h))) = Len(h)
          /\ \A i \in 1..Len(h) : SubSeq(f, 1, Len(h))[i] = f[i]
      BY <3>1, <2>3, PrefixFacts
    <3>3. \A i \in 1..Len(h) : h[i] = e[i]
      <4>1. Len(h) <= Len(e) /\ SubSeq(h, 1, Len(h)) = SubSeq(e, 1, Len(h))
        BY <1>7 DEF IsPrefix
      <4>2. Len(h) \in 0..Len(h) /\ Len(h) \in 0..Len(e)
        BY <4>1, <1>2, <1>7
      <4>3. \A i \in 1..Len(h) : SubSeq(h, 1, Len(h))[i] = h[i]
        BY <4>2, <1>2, PrefixFacts
      <4>4. \A i \in 1..Len(h) : SubSeq(e, 1, Len(h))[i] = e[i]
        BY <4>2, <1>4, PrefixFacts
      <4> QED  BY <4>1, <4>3, <4>4
    <3>4. \A i \in 1..Len(h) : SubSeq(f, 1, Len(h))[i] = h[i]
      <4>1. \A i \in 1..Len(h) : i \in 1..(Len(h) + 4)
        BY <1>2
      <4>2. \A i \in 1..Len(h) : f[i] = e[i]
        BY <4>1, <2>3
      <4> QED  BY <4>2, <3>2, <3>3
    <3> QED  BY <3>1, <3>2, <3>4, <1>2, SeqEqual
  <2>9. LayoutDir(p) = h
    BY <1>3, <1>7, <2>1, <2>2, <2>4, <2>5, <2>7, <2>8 DEF LayoutDir
  <2> QED  BY <1>1, <1>2, <1>7, <2>9 DEF Dir
<1>8. CASE Override[p] = <<>> /\ Front(e) = h /\ Last(h) \notin {"deps", "examples", "out"}
  <2>1. LayoutDir(p) = h
    BY <1>3, <1>8 DEF LayoutDir
  <2> QED  BY <1>1, <1>2, <1>8, <2>1 DEF Dir
<1> QED  BY <1>1, <1>3, <1>5, <1>6, <1>7, <1>8, HomeAssumption

DbPaths == {DbPath(p) : p \in Proc}

\* The file's path: one name below the directory.
LEMMA PathFacts ==
  ASSUME NEW p \in Proc
  PROVE  /\ DbPath(p) \in Seq(Name) /\ Len(DbPath(p)) = Len(Dir(p)) + 1
         /\ Front(DbPath(p)) = Dir(p)
         /\ IsPrefix(Dir(p), DbPath(p)) /\ IsPrefix(DbPath(p), DbPath(p))
         /\ \A n \in 1..Len(Dir(p)) : SubSeq(Dir(p), 1, n) = SubSeq(DbPath(p), 1, n)
         /\ \A n \in 1..Len(Dir(p)) : SubSeq(Dir(p), 1, n) \in Paths
         /\ DbPath(p) \in Paths
<1>1. PICK d : d = Dir(p)
  OBVIOUS
<1>2. PICK x : x = DbPath(p)
  OBVIOUS
<1>3. d \in Seq(Name) /\ Len(d) \in Nat \ {0}
  BY <1>1, DirIsHome
<1>4. ".skuld.db" \in Name
  BY PublishAssumption
<1>5. x = Append(d, ".skuld.db")
  BY <1>1, <1>2 DEF DbPath
<1>6. x \in Seq(Name) /\ Len(x) = Len(d) + 1 /\ \A i \in 1..Len(d) : x[i] = d[i]
  BY <1>3, <1>4, <1>5, AppendProperties
<1>7. ASSUME NEW n \in 1..Len(d) PROVE SubSeq(d, 1, n) = SubSeq(x, 1, n)
  <2>1. n \in 0..Len(d) /\ n \in 0..Len(x) /\ \A i \in 1..n : i \in 1..Len(d)
    BY <1>3, <1>6
  <2>2. /\ SubSeq(d, 1, n) \in Seq(Name) /\ Len(SubSeq(d, 1, n)) = n
        /\ \A i \in 1..n : SubSeq(d, 1, n)[i] = d[i]
    BY <2>1, <1>3, PrefixFacts
  <2>3. /\ SubSeq(x, 1, n) \in Seq(Name) /\ Len(SubSeq(x, 1, n)) = n
        /\ \A i \in 1..n : SubSeq(x, 1, n)[i] = x[i]
    BY <2>1, <1>6, PrefixFacts
  <2>4. \A i \in 1..n : SubSeq(d, 1, n)[i] = SubSeq(x, 1, n)[i]
    BY <2>1, <2>2, <2>3, <1>6
  <2> QED  BY <2>2, <2>3, <2>4, SeqEqual
<1>8. SubSeq(d, 1, Len(d)) = d /\ SubSeq(x, 1, Len(x)) = x
  BY <1>3, <1>6, PrefixFacts
<1>9. Front(x) = d
  BY <1>3, <1>6, <1>7, <1>8 DEF Front
<1>10. IsPrefix(d, x) /\ IsPrefix(x, x)
  BY <1>3, <1>6, <1>7 DEF IsPrefix
<1>11. \A n \in 1..Len(x) : SubSeq(x, 1, n) \in Paths
  BY <1>2 DEF Paths
<1>12. \A n \in 1..Len(d) : SubSeq(d, 1, n) \in Paths
  <2> TAKE n \in 1..Len(d)
  <2>1. n \in 1..Len(x)
    BY <1>3, <1>6
  <2> QED  BY <2>1, <1>7, <1>11
<1>13. x \in Paths
  <2>1. Len(x) \in 1..Len(x)
    BY <1>3, <1>6
  <2> QED  BY <2>1, <1>8, <1>11
<1> QED  BY <1>1, <1>2, <1>6, <1>7, <1>9, <1>10, <1>12, <1>13

\* No level of a directory somebody asks for is a database file.
LEMMA LevelIsNoFile ==
  ASSUME NEW p \in Proc, NEW n \in 1..Len(Dir(p))
  PROVE  SubSeq(Dir(p), 1, n) \notin DbPaths
<1> SUFFICES ASSUME NEW q \in Proc, SubSeq(Dir(p), 1, n) = DbPath(q)
             PROVE  FALSE
  BY DEF DbPaths
<1>1. PICK d : d = Dir(p)
  OBVIOUS
<1>2. d \in Seq(Name) /\ Len(d) \in Nat /\ n \in 0..Len(d)
  BY <1>1, DirIsHome
<1>3. PICK x : x = SubSeq(d, 1, n)
  OBVIOUS
<1>4. x \in Seq(Name) /\ Len(x) = n
  BY <1>2, <1>3, PrefixFacts
<1>5. n \in 0..Len(x)
  BY <1>2, <1>4
<1>6. SubSeq(x, 1, n) = x
  BY <1>4, <1>5, PrefixFacts
<1>7. IsPrefix(x, d)
  BY <1>2, <1>3, <1>4, <1>6 DEF IsPrefix
<1> QED  BY <1>1, <1>3, <1>7, DirAssumption

\* Some level of every directory was there from the start.
LEMMA SomeLevelIsThere ==
  ASSUME NEW p \in Proc
  PROVE  \E n \in 1..Len(Dir(p)) : SubSeq(Dir(p), 1, n) \in DOMAIN Before
<1>1. CASE Override[p] # <<>>
  BY <1>1, DirAssumption
<1>2. CASE Override[p] = <<>>
  <2>1. Dir(p) \in Seq(Name) /\ Len(Dir(p)) \in 1..Len(Dir(p)) /\ Len(Dir(p)) \in 0..Len(Dir(p))
    BY DirIsHome
  <2>2. SubSeq(Dir(p), 1, Len(Dir(p))) = Dir(p)
    BY <2>1, PrefixFacts
  <2> QED  BY <1>2, <2>1, <2>2, DirAssumption
<1> QED  BY <1>1, <1>2

\* Two processes with the same file have the same directory.
LEMMA FileHasOneDir ==
  ASSUME NEW p \in Proc, NEW q \in Proc, DbPath(p) = DbPath(q)
  PROVE  Dir(p) = Dir(q)
BY PathFacts

\* What a process is making: the file, or a level of its directory, with what
\* comes after it.
LEMMA TargetFacts ==
  ASSUME NEW p \in Proc, Way(p), pc[p] \in Making
  PROVE  /\ Target(p) \in Paths /\ missing[p] # <<>>
         /\ IsFile(p) => /\ missing[p] = <<DbPath(p)>> /\ Front(missing[p]) = <<>>
                         /\ Front(Target(p)) = Dir(p)
         /\ ~IsFile(p) =>
              /\ Target(p) \notin DbPaths
              /\ \E k \in 1..(Len(Dir(p)) - 1) :
                   /\ missing[p] = Chain(Dir(p), k) /\ Len(missing[p]) = k
                   /\ Front(missing[p]) = Chain(Dir(p), k - 1)
                   /\ k = 1 => Target(p) = Dir(p) /\ Front(missing[p]) = <<>>
                   /\ k > 1 => Front(Last(Front(missing[p]))) = Target(p)
<1>0. Dir(p) \in Seq(Name) /\ Len(Dir(p)) \in Nat \ {0}
  BY DirIsHome
<1>1. CASE missing[p] = <<DbPath(p)>>
  <2>1. Target(p) = DbPath(p) /\ IsFile(p) /\ missing[p] # <<>>
    BY <1>1 DEF Target, IsFile, Last
  <2>2. Front(missing[p]) = <<>>
    BY <1>1 DEF Front
  <2> QED  BY <1>1, <2>1, <2>2, PathFacts
<1>2. CASE \E k \in 1..(Len(Dir(p)) - 1) : missing[p] = Chain(Dir(p), k)
  <2>1. PICK k \in 1..(Len(Dir(p)) - 1) : missing[p] = Chain(Dir(p), k)
    BY <1>2
  <2>2. PICK d : d = Dir(p)
    OBVIOUS
  <2>3. d \in Seq(Name) /\ Len(d) \in Nat /\ k \in 0..Len(d) /\ k > 0 /\ k - 1 \in 0..Len(d)
        /\ Len(d) - k + 1 \in 1..Len(d) /\ Len(d) - k + 1 \in 0..Len(d)
        /\ Len(d) - (k - 1) + 1 \in 0..Len(d) + 1
    BY <1>0, <2>2
  <2>4. /\ missing[p] # <<>> /\ Target(p) = SubSeq(d, 1, Len(d) - k + 1)
        /\ Len(missing[p]) = k /\ Front(missing[p]) = Chain(d, k - 1)
    BY <2>1, <2>2, <2>3, ChainFacts DEF Target
  <2>5. Target(p) \in Paths /\ Target(p) \notin DbPaths
    BY <2>2, <2>3, <2>4, PathFacts, LevelIsNoFile
  <2>6. ~IsFile(p)
    BY <2>5 DEF IsFile, DbPaths
  <2>7. ASSUME k = 1 PROVE Target(p) = Dir(p) /\ Front(missing[p]) = <<>>
    <3>1. Len(d) - k + 1 = Len(d) /\ k - 1 = 0
      BY <2>3, <2>7
    <3>2. SubSeq(d, 1, Len(d) - k + 1) = d
      BY <2>3, <3>1, PrefixFacts
    <3>3. Chain(d, k - 1) = <<>>
      BY <2>3, <3>1, ChainFacts
    <3> QED  BY <2>2, <2>4, <3>2, <3>3
  <2>8. ASSUME k > 1 PROVE Front(Last(Front(missing[p]))) = Target(p)
    <3>1. k - 1 > 0 /\ Len(d) - (k - 1) + 1 \in 0..Len(d) /\ Len(d) - (k - 1) + 1 > 0
          /\ Len(d) - (k - 1) + 1 - 1 = Len(d) - k + 1
      BY <2>3, <2>8
    <3>2. Last(Chain(d, k - 1)) = SubSeq(d, 1, Len(d) - (k - 1) + 1)
      BY <2>3, <3>1, ChainFacts
    <3>3. Front(SubSeq(d, 1, Len(d) - (k - 1) + 1)) = SubSeq(d, 1, Len(d) - (k - 1) + 1 - 1)
      BY <2>3, <3>1, PrefixFacts, SMTT(40)
    <3> QED  BY <2>4, <3>1, <3>2, <3>3
  <2> QED  BY <2>1, <2>2, <2>4, <2>5, <2>6, <2>7, <2>8
<1> QED  BY <1>1, <1>2 DEF Way

-----------------------------------------------------------------------------
(* What every step of p leaves alone.                                      *)

Frame(p) ==
  /\ \A u \in Proc \ {p} : /\ pc'[u] = pc[u] /\ missing'[u] = missing[u] /\ temp'[u] = temp[u]
                           /\ created'[u] = created[u] /\ conn'[u] = conn[u]
  /\ split' = split /\ keeps' = keeps /\ hit \subseteq hit'
  /\ DOMAIN fs \subseteq DOMAIN fs' /\ \A x \in DOMAIN fs : fs'[x] = fs[x]
  /\ \A t \in temps : t.by # p => t \in temps'

\* Why p may be turned away.
Excuse(p) ==
  \/ p \in hit \/ ~keeps \/ split
  \/ \E x \in DOMAIN Before : IsPrefix(x, DbPath(p)) /\ ~Usable(p, x)

\* The paths are constants.
LEMMA PathsStay ==
  ASSUME NEW p \in Proc
  PROVE  Dir(p)' = Dir(p) /\ DbPath(p)' = DbPath(p)
BY DEF Dir, DbPath, LayoutDir

\* A step of p that keeps to its frame leaves the other processes where they
\* were, if no file appears under somebody who has just found none.
LEMMA OthersStayOnTheirWay ==
  ASSUME IInv, NEW p \in Proc, Frame(p), NEW u \in Proc \ {p},
         ~split /\ pc[u] = "recheck" => DbPath(u) \notin DOMAIN fs'
  PROVE  Way(u)' /\ HasTemp(u)' /\ (InSection(u)' <=> InSection(u)) /\ (Excuse(u) => Excuse(u)')
<1>1. /\ pc'[u] = pc[u] /\ missing'[u] = missing[u] /\ temp'[u] = temp[u]
      /\ created'[u] = created[u] /\ conn'[u] = conn[u]
      /\ split' = split /\ keeps' = keeps /\ hit \subseteq hit'
      /\ DOMAIN fs \subseteq DOMAIN fs' /\ \A x \in DOMAIN fs : fs'[x] = fs[x]
  BY DEF Frame
<1>2. Dir(u)' = Dir(u) /\ DbPath(u)' = DbPath(u) /\ u \in Proc
  BY PathsStay
<1>3. Target(u)' = Target(u) /\ (IsFile(u)' <=> IsFile(u))
  BY <1>1, <1>2 DEF Target, IsFile, Last
<1>4. Way(u) /\ HasTemp(u)
  BY DEF IInv
<1>5. Way(u)'
  <2>1. \A k : Chain(Dir(u), k)' = Chain(Dir(u), k)
    BY <1>2 DEF Chain
  <2> QED  BY <1>1, <1>2, <1>3, <1>4, <2>1 DEF Way, Front
<1>6. HasTemp(u)'
  <2>1. ASSUME pc[u] \in WithTemp
        PROVE  \E t \in temps' :
                 /\ t.by = u /\ t.dir = Front(Target(u)) /\ t.name = temp[u]
                 /\ pc[u] # "chmod" => t.open = keeps
                 /\ pc[u] \in {"rename", "discard"} /\ IsFile(u) => t.open
    BY <2>1, <1>4 DEF HasTemp, Frame
  <2> QED  BY <1>1, <1>3, <2>1 DEF HasTemp, Front, WithTemp
<1>7. InSection(u)' <=> InSection(u)
  BY <1>1, <1>3 DEF InSection, Ended
<1>8. Excuse(u) => Excuse(u)'
  <2>1. DOMAIN Before \subseteq DOMAIN fs
    BY DEF IInv, Entries
  <2>2. \A x \in DOMAIN Before : Usable(u, x)' => Usable(u, x)
    BY <1>1, <2>1 DEF Usable
  <2> QED  BY <1>1, <1>2, <2>2 DEF Excuse, IsPrefix
<1> QED  BY <1>5, <1>6, <1>7, <1>8

\* A step of p keeps the invariant if it keeps to its frame, p's own part
\* holds after it, it enters the section of the lock only if that is free, and
\* it puts no file under somebody who has just found none.
LEMMA StepKeeps ==
  ASSUME IInv, NEW p \in Proc, Frame(p), Types', Way(p)', HasTemp(p)', TempsOwned', Entries',
         \/ InSection(p)' => InSection(p)
         \/ split \/ \A q \in Proc \ {p} : Dir(q) = Dir(p) => ~InSection(q),
         \A u \in Proc \ {p} : ~split /\ pc[u] = "recheck" => DbPath(u) \notin DOMAIN fs',
         pc'[p] = "failed" => Excuse(p)'
  PROVE  IInv'
<1>1. \A u \in Proc \ {p} : /\ Way(u)' /\ HasTemp(u)' /\ (InSection(u)' <=> InSection(u))
                            /\ Excuse(u) => Excuse(u)'
  BY OthersStayOnTheirWay
<1>2. \A u \in Proc : Way(u)' /\ HasTemp(u)'
  BY <1>1
<1>3. LockExcludes'
  <2>1. \A u \in Proc : Dir(u)' = Dir(u)
    BY PathsStay
  <2>2. LockExcludes /\ split' = split
    BY DEF IInv, Frame
  <2> SUFFICES ASSUME ~split, NEW u \in Proc, NEW q \in Proc, u # q, Dir(u) = Dir(q),
                      InSection(u)', InSection(q)'
               PROVE  FALSE
    BY <2>1, <2>2 DEF LockExcludes
  <2>3. CASE u # p /\ q # p
    BY <2>2, <2>3, <1>1 DEF LockExcludes
  <2>4. CASE u = p
    BY <2>2, <2>4, <1>1 DEF LockExcludes
  <2>5. CASE q = p
    BY <2>2, <2>5, <1>1 DEF LockExcludes
  <2> QED  BY <2>3, <2>4, <2>5
<1>4. NobodyIsTurnedAway'
  <2>1. \A u \in Proc : pc'[u] = "failed" => Excuse(u)'
    <3> TAKE u \in Proc
    <3>1. CASE u = p
      BY <3>1
    <3>2. CASE u # p
      <4>1. pc[u] = "failed" => Excuse(u)
        BY DEF IInv, NobodyIsTurnedAway, Excuse
      <4> QED  BY <3>2, <4>1, <1>1 DEF Frame
    <3> QED  BY <3>1, <3>2
  <2> QED  BY <2>1 DEF NobodyIsTurnedAway, Excuse
<1> QED  BY <1>2, <1>3, <1>4 DEF IInv

\* A step of p that touches no file and no temp entry.
LEMMA QuietStep ==
  ASSUME IInv, NEW p \in Proc, Frame(p), Types', Way(p)', HasTemp(p)',
         UNCHANGED <<fs, temps, kept>>, pc[p] # "crashed",
         \/ pc[p] \notin WithTemp \/ pc'[p] = "crashed"
         \/ pc'[p] \in WithTemp /\ missing'[p] = missing[p] /\ temp'[p] = temp[p],
         \/ InSection(p)' => InSection(p)
         \/ split \/ \A q \in Proc \ {p} : Dir(q) = Dir(p) => ~InSection(q),
         pc'[p] = "failed" => Excuse(p)'
  PROVE  IInv'
<1>1. TempsOwned'
  <2>1. TempsOwned /\ temps' = temps /\ kept' = kept
    BY DEF IInv
  <2>2. ASSUME NEW t \in temps
        PROVE  \/ t \in kept \/ pc'[t.by] = "crashed"
               \/ pc'[t.by] \in WithTemp /\ t \in Mine(t.by)'
    <3>1. t \in Entry /\ t.by \in Proc
      BY DEF IInv, Types, Entry
    <3>2. \/ t \in kept \/ pc[t.by] = "crashed"
          \/ pc[t.by] \in WithTemp /\ t \in Mine(t.by)
      BY <2>1 DEF TempsOwned
    <3>3. CASE t.by # p
      <4>1. pc'[t.by] = pc[t.by] /\ missing'[t.by] = missing[t.by] /\ temp'[t.by] = temp[t.by]
        BY <3>1, <3>3 DEF Frame
      <4>2. t \in Mine(t.by) => t \in Mine(t.by)'
        BY <4>1, <2>1 DEF Mine, Target, Last, Front
      <4> QED  BY <3>2, <4>1, <4>2
    <3>4. CASE t.by = p /\ pc'[p] # "crashed"
      <4>1. CASE pc[p] \notin WithTemp
        BY <3>2, <3>4, <4>1
      <4>2. CASE pc'[p] \in WithTemp /\ missing'[p] = missing[p] /\ temp'[p] = temp[p]
        <5>1. t \in Mine(p) => t \in Mine(p)'
          BY <4>2, <2>1 DEF Mine, Target, Last, Front
        <5> QED  BY <3>2, <3>4, <4>2, <5>1
      <4> QED  BY <3>4, <4>1, <4>2
    <3> QED  BY <3>3, <3>4
  <2> QED  BY <2>1, <2>2 DEF TempsOwned
<1>2. Entries'
  <2>1. keeps' = keeps /\ fs' = fs /\ Entries
    BY DEF IInv, Frame
  <2>2. \A q \in Proc : DbPath(q)' = DbPath(q)
    BY PathsStay
  <2> QED  BY <2>1, <2>2 DEF Entries
<1>3. \A u \in Proc \ {p} : ~split /\ pc[u] = "recheck" => DbPath(u) \notin DOMAIN fs'
  BY DEF IInv, Way
<1> QED  BY <1>1, <1>2, <1>3, StepKeeps

-----------------------------------------------------------------------------
(* Each operation keeps the invariant.                                     *)

\* A step that only moves pc: the frame, the types, and what stays.
LEMMA OnlyMoves ==
  ASSUME IInv, NEW p \in Proc, NEW where \in Phases, Goto(p, where),
         UNCHANGED <<missing, temp, tried, created, conn, fs, temps, split, keeps, hit, kept>>
  PROVE  /\ Frame(p) /\ Types' /\ pc'[p] = where
         /\ Target(p)' = Target(p) /\ (IsFile(p)' <=> IsFile(p)) /\ Mine(p)' = Mine(p)
         /\ Excuse(p)' <=> Excuse(p)
<1>1. Types
  BY DEF IInv
<1>2. pc' = [pc EXCEPT ![p] = where] /\ pc \in [Proc -> Phases]
  BY <1>1 DEF Goto, Types
<1>3. pc' \in [Proc -> Phases] /\ pc'[p] = where /\ \A u \in Proc \ {p} : pc'[u] = pc[u]
  BY <1>2
<1>4. Frame(p)
  BY <1>3 DEF Frame
<1>5. Types'
  BY <1>1, <1>3 DEF Types, Entry
<1>6. Target(p)' = Target(p)
  BY DEF Target, Last
<1>7. DbPath(p)' = DbPath(p)
  BY PathsStay
<1>8. Excuse(p)' <=> Excuse(p)
  BY <1>7 DEF Excuse, Usable, IsPrefix
<1> QED  BY <1>3, <1>4, <1>5, <1>6, <1>7, <1>8 DEF IsFile, Mine, Front

\* Scan: one more level is missing, or the way down begins.
LEMMA ScanKeeps ==
  ASSUME IInv, NEW p \in Proc, Scan(p)
  PROVE  IInv'
<1> DEFINE d == Dir(p)
           cur == SubSeq(d, 1, Len(d) - Len(missing[p]))
<1>0. Types /\ Way(p) /\ HasTemp(p) /\ Entries
  BY DEF IInv
<1>1. pc[p] = "scan" /\ UNCHANGED <<temp, tried, created, conn, fs, temps, split, keeps, hit, kept>>
  BY DEF Scan
<1>2. d \in Seq(Name) /\ Len(d) \in Nat \ {0} /\ d' = d /\ DbPath(p)' = DbPath(p)
  BY DirIsHome, PathsStay
<1>3. PICK k \in 0..(Len(d) - 1) : missing[p] = Chain(d, k)
  BY <1>0, <1>1 DEF Way
<1>4. k \in 0..Len(d) /\ k < Len(d) /\ Len(d) - k \in 1..Len(d) /\ k \in Nat
  BY <1>2, <1>3
<1>5. Len(missing[p]) = k /\ Chain(d, k) \in Seq(Seq(Name)) /\ (k = 0 => missing[p] = <<>>)
  BY <1>2, <1>3, <1>4, ChainFacts
<1>6. \A j : Chain(d, j)' = Chain(d, j)
  BY <1>2 DEF Chain
<1>7. CASE cur \in DOMAIN fs
  <2> DEFINE where == IF missing[p] = <<>> THEN "usable" ELSE "temp"
  <2>1. Goto(p, where) /\ UNCHANGED missing /\ where \in Phases
    BY <1>7 DEF Scan, Phases, Making
  <2>2. /\ Frame(p) /\ Types' /\ pc'[p] = where /\ Target(p)' = Target(p)
        /\ (IsFile(p)' <=> IsFile(p)) /\ (Excuse(p)' <=> Excuse(p))
    BY <1>1, <2>1, OnlyMoves
  <2>3. CASE k = 0
    <3>1. missing[p] = <<>> /\ pc'[p] = "usable"
      BY <1>5, <2>2, <2>3
    <3>2. Len(d) - Len(missing[p]) = Len(d) /\ Len(d) \in 0..Len(d)
      BY <1>2, <1>5, <2>3
    <3>3. d \in DOMAIN fs
      BY <1>2, <1>7, <3>2, PrefixFacts
    <3>4. Way(p)'
      BY <3>1, <3>3, <1>0, <1>1, <1>2, <2>1 DEF Way, Making, Located
    <3>5. HasTemp(p)' /\ pc[p] \notin WithTemp /\ pc[p] # "crashed" /\ pc'[p] # "failed" /\ ~InSection(p)'
      BY <3>1, <1>1, <2>1 DEF HasTemp, WithTemp, InSection
    <3> QED  BY <1>1, <2>1, <2>2, <3>4, <3>5, QuietStep
  <2>4. CASE k # 0
    <3>1. k > 0 /\ k \in 1..(Len(d) - 1) /\ Len(d) - k + 1 \in 1..Len(d) /\ Len(d) - k + 1 \in 0..Len(d)
          /\ Len(d) - k + 1 > 0 /\ Len(d) - k + 1 - 1 = Len(d) - k
      BY <2>4, <1>2, <1>3, <1>4
    <3>2. missing[p] # <<>> /\ Target(p) = SubSeq(d, 1, Len(d) - k + 1)
      BY <3>1, <1>2, <1>3, <1>4, ChainFacts DEF Target
    <3>3. Front(Target(p)) = cur /\ Target(p) \notin DbPaths
      <4>1. Front(SubSeq(d, 1, Len(d) - k + 1)) = SubSeq(d, 1, Len(d) - k + 1 - 1)
        BY <3>1, <1>2, PrefixFacts
      <4>2. SubSeq(d, 1, Len(d) - k + 1) \notin DbPaths
        BY <3>1, LevelIsNoFile
      <4> QED  BY <4>1, <4>2, <3>1, <3>2, <1>5
    <3>4. pc'[p] = "temp" /\ ~IsFile(p)
      BY <2>2, <3>2, <3>3 DEF IsFile, DbPaths
    <3>5. (Front(Target(p)) \in DOMAIN fs)'
      BY <3>3, <1>1, <1>7, <2>2 DEF Front
    <3>6. (missing[p] = Chain(d, k))'
      BY <1>3, <1>6, <2>1
    <3>7. Way(p)'
      BY <3>1, <3>4, <3>5, <3>6, <1>0, <1>1, <1>2, <1>6 DEF Way, Making, Located
    <3>8. HasTemp(p)' /\ pc[p] \notin WithTemp /\ pc[p] # "crashed" /\ pc'[p] # "failed" /\ ~InSection(p)'
      BY <3>4, <1>1, <2>2 DEF HasTemp, WithTemp, InSection
    <3> QED  BY <1>1, <2>1, <2>2, <3>7, <3>8, QuietStep
  <2> QED  BY <2>3, <2>4
<1>8. CASE cur \notin DOMAIN fs
  <2>1. missing' = [missing EXCEPT ![p] = Append(@, cur)] /\ UNCHANGED pc
    BY <1>8 DEF Scan
  <2>2. missing'[p] = Chain(d, k + 1) /\ \A u \in Proc \ {p} : missing'[u] = missing[u]
    <3>1. missing' \in [Proc -> {missing'[u] : u \in Proc}] /\ missing'[p] = Append(missing[p], cur)
          /\ \A u \in Proc \ {p} : missing'[u] = missing[u]
      BY <2>1, <1>0 DEF Types
    <3>2. Append(Chain(d, k), SubSeq(d, 1, Len(d) - k)) = Chain(d, k + 1)
      BY <1>2, <1>4, ChainFacts
    <3> QED  BY <3>1, <3>2, <1>3, <1>5
  <2>3. cur = SubSeq(d, 1, Len(d) - k) /\ cur \notin DOMAIN Before
    BY <1>0, <1>5, <1>8 DEF Entries
  <2>4. \A i \in 1..(k + 1) : Chain(d, k + 1)[i] \notin DOMAIN Before
    <3>1. \A i \in 1..k : Chain(d, k)[i] = Chain(d, k + 1)[i]
      BY <1>4 DEF Chain
    <3>2. \A i \in 1..k : Chain(d, k)[i] \notin DOMAIN Before
      BY <1>0, <1>1, <1>3, <1>5 DEF Way
    <3>3. Chain(d, k + 1)[k + 1] = cur
      <4>1. Len(d) - (k + 1) + 1 = Len(d) - k /\ k + 1 \in 1..(k + 1)
        BY <1>2, <1>4
      <4> QED  BY <4>1, <2>3 DEF Chain
    <3>4. \A i \in 1..(k + 1) : i \in 1..k \/ i = k + 1
      BY <1>4
    <3> QED  BY <3>1, <3>2, <3>3, <3>4, <2>3
  <2>5. Len(d) - k # 1
    <3> SUFFICES ASSUME Len(d) - k = 1 PROVE FALSE
      OBVIOUS
    <3>1. PICK n \in 1..Len(d) : SubSeq(d, 1, n) \in DOMAIN Before
      BY SomeLevelIsThere
    <3>2. Len(d) - n + 1 \in 1..(k + 1) /\ Len(d) - (Len(d) - n + 1) + 1 = n
      BY <1>2, <1>4, <3>1
    <3>3. Chain(d, k + 1)[Len(d) - n + 1] = SubSeq(d, 1, n)
      BY <3>2 DEF Chain
    <3> QED  BY <2>4, <3>1, <3>2, <3>3
  <2>6. k + 1 \in 0..(Len(d) - 1) /\ k + 1 \in 0..Len(d)
    BY <2>5, <1>2, <1>4
  <2>7. Chain(d, k + 1) \in Seq(Seq(Name)) /\ Len(Chain(d, k + 1)) = k + 1
    BY <2>6, <1>2, ChainFacts
  <2>8. missing' \in [Proc -> Seq(Seq(Name))]
    <3>1. missing \in [Proc -> Seq(Seq(Name))] /\ missing'[p] \in Seq(Seq(Name))
      BY <1>0, <2>2, <2>7 DEF Types
    <3> QED  BY <3>1, <2>1
  <2>9. Types' /\ Frame(p)
    BY <1>0, <1>1, <2>1, <2>2, <2>8 DEF Types, Entry, Frame
  <2>10. (\E j \in 0..(Len(d) - 1) : missing[p] = Chain(d, j))'
    BY <2>2, <2>6, <1>2, <1>6
  <2>11. (\A i \in 1..Len(missing[p]) : missing[p][i] \notin DOMAIN Before)'
    BY <2>2, <2>4, <2>7
  <2>12. Way(p)'
    BY <2>10, <2>11, <1>0, <1>1, <1>2, <2>1 DEF Way, Making, Located
  <2>13. HasTemp(p)' /\ pc[p] \notin WithTemp /\ pc[p] # "crashed" /\ pc'[p] # "failed"
    BY <1>1, <2>1 DEF HasTemp, WithTemp
  <2>14. ~InSection(p)'
    <3>1. k + 1 > 0 /\ Len(d) - (k + 1) + 1 \in 1..Len(d)
      BY <2>6, <1>2, <1>4
    <3>2. Last(Chain(d, k + 1)) = SubSeq(d, 1, Len(d) - (k + 1) + 1)
      BY <3>1, <2>6, <1>2, ChainFacts
    <3>3. Last(missing'[p]) \notin DbPaths
      BY <3>1, <3>2, <2>2, LevelIsNoFile
    <3>4. (Target(p) # DbPath(p))'
      BY <3>3, <1>2 DEF Target, DbPaths, Last
    <3> QED  BY <3>4, <1>1, <2>1 DEF InSection, IsFile
  <2> QED  BY <1>1, <2>9, <2>12, <2>13, <2>14, QuietStep
<1> QED  BY <1>7, <1>8

\* Verify, and the lost race: the temp entry stays p's.
LEMMA VerifyKeeps ==
  ASSUME IInv, NEW p \in Proc, Verify(p)
  PROVE  IInv'
<1>0. Way(p) /\ HasTemp(p)
  BY DEF IInv
<1>1. /\ pc[p] = "verify" /\ (\A t \in Mine(p) : t.open) /\ Goto(p, "rename")
      /\ UNCHANGED <<missing, temp, tried, created, conn, fs, temps, split, keeps, hit, kept>>
  BY DEF Verify
<1>2. "rename" \in Phases
  BY DEF Phases, Making
<1>3. /\ Frame(p) /\ Types' /\ pc'[p] = "rename" /\ Target(p)' = Target(p)
      /\ (IsFile(p)' <=> IsFile(p)) /\ Mine(p)' = Mine(p)
  BY <1>1, <1>2, OnlyMoves
<1>4. Dir(p)' = Dir(p) /\ DbPath(p)' = DbPath(p) /\ \A j : Chain(Dir(p), j)' = Chain(Dir(p), j)
  BY PathsStay DEF Chain
<1>5. Way(p)'
  BY <1>0, <1>1, <1>3, <1>4 DEF Way, Making, Located, Front
<1>6. HasTemp(p)'
  <2>1. PICK t \in temps : t.by = p /\ t.dir = Front(Target(p)) /\ t.name = temp[p] /\ t.open = keeps
    BY <1>0, <1>1 DEF HasTemp, WithTemp
  <2>2. t.open
    BY <1>1, <2>1 DEF Mine
  <2> QED  BY <1>1, <1>3, <2>1, <2>2 DEF HasTemp, Front
<1>7. InSection(p)' => InSection(p)
  BY <1>1, <1>3 DEF InSection, Ended
<1> QED  BY <1>1, <1>3, <1>5, <1>6, <1>7, QuietStep DEF WithTemp

LEMMA RenameLosesKeeps ==
  ASSUME IInv, NEW p \in Proc, RenameLoses(p)
  PROVE  IInv'
<1>0. Way(p) /\ HasTemp(p)
  BY DEF IInv
<1>1. /\ pc[p] = "rename" /\ Target(p) \in DOMAIN fs /\ Goto(p, "discard")
      /\ UNCHANGED <<missing, temp, tried, created, conn, fs, temps, split, keeps, hit, kept>>
  BY DEF RenameLoses
<1>2. "discard" \in Phases
  BY DEF Phases, Making
<1>3. /\ Frame(p) /\ Types' /\ pc'[p] = "discard" /\ Target(p)' = Target(p)
      /\ (IsFile(p)' <=> IsFile(p)) /\ Mine(p)' = Mine(p)
  BY <1>1, <1>2, OnlyMoves
<1>4. Dir(p)' = Dir(p) /\ DbPath(p)' = DbPath(p) /\ \A j : Chain(Dir(p), j)' = Chain(Dir(p), j)
  BY PathsStay DEF Chain
<1>5. Way(p)'
  BY <1>0, <1>1, <1>3, <1>4 DEF Way, Making, Located, Front
<1>6. HasTemp(p)'
  BY <1>0, <1>1, <1>3 DEF HasTemp, Front, WithTemp
<1>7. InSection(p)' => InSection(p)
  BY <1>1, <1>3 DEF InSection, Ended
<1> QED  BY <1>1, <1>3, <1>5, <1>6, <1>7, QuietStep DEF WithTemp

\* An entry that is there and closed to p was there before, if modes are kept.
LEMMA ClosedIsOld ==
  ASSUME IInv, NEW p \in Proc, NEW x \in DOMAIN fs, ~Usable(p, x), keeps, IsPrefix(x, DbPath(p))
  PROVE  Excuse(p)
<1>1. x \in DOMAIN Before
  BY DEF IInv, Entries, Usable
<1> QED  BY <1>1 DEF Excuse

\* check_usable finds the directory unless creating it failed.
LEMMA CheckUsableKeeps ==
  ASSUME IInv, NEW p \in Proc, CheckUsable(p)
  PROVE  IInv'
<1> DEFINE where == IF Usable(p, Dir(p)) /\ created[p] THEN "lock" ELSE "failed"
<1>0. Way(p) /\ HasTemp(p) /\ Types
  BY DEF IInv
<1>1. /\ pc[p] = "usable" /\ Goto(p, where)
      /\ UNCHANGED <<missing, temp, tried, created, conn, fs, temps, split, keeps, hit, kept>>
  BY DEF CheckUsable
<1>2. where \in Phases
  BY DEF Phases, Ended
<1>3. Frame(p) /\ Types' /\ pc'[p] = where /\ (Excuse(p)' <=> Excuse(p))
  BY <1>1, <1>2, OnlyMoves
<1>4. Dir(p)' = Dir(p) /\ DbPath(p)' = DbPath(p)
  BY PathsStay
<1>5. where \in {"lock", "failed"} /\ (where = "lock" => Dir(p) \in DOMAIN fs)
  BY DEF Usable
<1>6. where = "failed" => Excuse(p)
  <2>1. CASE ~created[p]
    BY <2>1, <1>0 DEF Way, Excuse
  <2>2. CASE created[p] /\ ~Usable(p, Dir(p))
    <3>1. Dir(p) \in DOMAIN fs /\ IsPrefix(Dir(p), DbPath(p))
      BY <1>0, <1>1, <2>2, PathFacts DEF Way
    <3>2. CASE keeps
      BY <2>2, <3>1, <3>2, ClosedIsOld
    <3>3. CASE ~keeps
      BY <3>3 DEF Excuse
    <3> QED  BY <3>2, <3>3
  <2> QED  BY <2>1, <2>2
<1> HIDE DEF where
<1>7. missing[p] = <<>>
  BY <1>0, <1>1 DEF Way, Making
<1>8. Way(p)'
  BY <1>0, <1>1, <1>3, <1>4, <1>5, <1>7 DEF Way, Making, Located
<1>9. HasTemp(p)' /\ ~InSection(p)'
  BY <1>1, <1>3, <1>5, <1>7 DEF HasTemp, WithTemp, InSection
<1> QED  BY <1>1, <1>3, <1>6, <1>8, <1>9, QuietStep DEF WithTemp

\* The lock is taken only when it is free, or when it excludes nobody.
LEMMA WithInitLockKeeps ==
  ASSUME IInv, NEW p \in Proc, WithInitLock(p)
  PROVE  IInv'
<1>0. Way(p)
  BY DEF IInv
<1>1. /\ pc[p] = "lock" /\ Goto(p, "open")
      /\ split \/ \A q \in Proc \ {p} : Dir(q) = Dir(p) => ~InSection(q)
      /\ UNCHANGED <<missing, temp, tried, created, conn, fs, temps, split, keeps, hit, kept>>
  BY DEF WithInitLock
<1>2. Frame(p) /\ Types' /\ pc'[p] = "open"
  BY <1>1, OnlyMoves DEF Phases
<1>3. Dir(p)' = Dir(p) /\ DbPath(p)' = DbPath(p)
  BY PathsStay
<1>4. Way(p)' /\ HasTemp(p)'
  BY <1>0, <1>1, <1>2, <1>3 DEF Way, HasTemp, Making, Located, WithTemp
<1> QED  BY <1>1, <1>2, <1>4, QuietStep DEF WithTemp

\* The open: the file's publisher is remembered, and a file that is closed to p
\* was there before.
LEMMA OpenKeeps ==
  ASSUME IInv, NEW p \in Proc, Open(p)
  PROVE  IInv'
<1>0. Way(p) /\ Types /\ Entries
  BY DEF IInv
<1>1. pc[p] = "open" /\ UNCHANGED <<missing, temp, tried, created, fs, temps, split, keeps, hit, kept>>
  BY DEF Open
<1>2. Dir(p)' = Dir(p) /\ DbPath(p)' = DbPath(p) /\ IsPrefix(DbPath(p), DbPath(p))
  BY PathsStay, PathFacts
<1>3. missing[p] = <<>> /\ Dir(p) \in DOMAIN fs /\ InSection(p)
  BY <1>0, <1>1 DEF Way, Making, Located, InSection
<1>4. CASE DbPath(p) \notin DOMAIN fs
  <2>1. Goto(p, "recheck") /\ UNCHANGED conn
    BY <1>4 DEF Open
  <2>2. Frame(p) /\ Types' /\ pc'[p] = "recheck"
    BY <1>1, <2>1, OnlyMoves DEF Phases
  <2>3. Way(p)' /\ HasTemp(p)'
    BY <1>0, <1>1, <1>2, <1>3, <1>4, <2>1, <2>2 DEF Way, HasTemp, Making, Located, WithTemp
  <2> QED  BY <1>1, <1>3, <2>1, <2>2, <2>3, QuietStep DEF WithTemp
<1>5. CASE DbPath(p) \in DOMAIN fs /\ Usable(p, DbPath(p))
  <2>1. Goto(p, "done") /\ conn' = [conn EXCEPT ![p] = fs[DbPath(p)].by]
    BY <1>5 DEF Open
  <2>2. fs[DbPath(p)].by \in Proc \cup {"", "old"}
    <3>1. CASE DbPath(p) \in DOMAIN Before
      BY <3>1, <1>0, PublishAssumption DEF Entries
    <3>2. CASE DbPath(p) \notin DOMAIN Before
      BY <3>2, <1>0, <1>5 DEF Entries
    <3> QED  BY <3>1, <3>2
  <2>3. pc \in [Proc -> Phases] /\ conn \in [Proc -> Proc \cup {"", "old"}] /\ "done" \in Phases
    BY <1>0 DEF Types, Phases, Ended
  <2>4. /\ pc' \in [Proc -> Phases] /\ conn' \in [Proc -> Proc \cup {"", "old"}]
        /\ pc'[p] = "done" /\ conn'[p] = fs[DbPath(p)].by
        /\ \A u \in Proc \ {p} : pc'[u] = pc[u] /\ conn'[u] = conn[u]
    BY <2>1, <2>2, <2>3 DEF Goto
  <2>5. Frame(p) /\ Types'
    BY <1>0, <1>1, <2>4 DEF Frame, Types, Entry
  <2>6. Way(p)' /\ HasTemp(p)'
    BY <1>0, <1>1, <1>2, <1>3, <1>5, <2>4 DEF Way, HasTemp, Making, Located, WithTemp
  <2> QED  BY <1>1, <1>3, <2>4, <2>5, <2>6, QuietStep DEF WithTemp
<1>6. CASE DbPath(p) \in DOMAIN fs /\ ~Usable(p, DbPath(p))
  <2>1. Goto(p, "failed") /\ UNCHANGED conn
    BY <1>6 DEF Open
  <2>2. Frame(p) /\ Types' /\ pc'[p] = "failed" /\ (Excuse(p)' <=> Excuse(p))
    BY <1>1, <2>1, OnlyMoves DEF Phases, Ended
  <2>3. Way(p)' /\ HasTemp(p)'
    BY <1>0, <1>1, <1>2, <1>3, <2>1, <2>2 DEF Way, HasTemp, Making, Located, WithTemp
  <2>4. Excuse(p)
    <3>1. CASE keeps
      BY <1>2, <1>6, <3>1, ClosedIsOld
    <3>2. CASE ~keeps
      BY <3>2 DEF Excuse
    <3> QED  BY <3>1, <3>2
  <2> QED  BY <1>1, <1>3, <2>1, <2>2, <2>3, <2>4, QuietStep DEF WithTemp
<1> QED  BY <1>4, <1>5, <1>6

\* Under a lock that holds, the file that was absent is absent still.
LEMMA RecheckKeeps ==
  ASSUME IInv, NEW p \in Proc, Recheck(p)
  PROVE  IInv'
<1> DEFINE where == IF DbPath(p) \in DOMAIN fs THEN "failed" ELSE "lstat"
<1>0. Way(p)
  BY DEF IInv
<1>1. /\ pc[p] = "recheck" /\ Goto(p, where)
      /\ UNCHANGED <<missing, temp, tried, created, conn, fs, temps, split, keeps, hit, kept>>
  BY DEF Recheck
<1>2. where \in Phases /\ where \in {"failed", "lstat"}
  BY DEF Phases, Ended
<1>3. where = "failed" => Excuse(p)
  BY <1>0, <1>1 DEF Way, Excuse
<1> HIDE DEF where
<1>4. Frame(p) /\ Types' /\ pc'[p] = where /\ (Excuse(p)' <=> Excuse(p))
  BY <1>1, <1>2, OnlyMoves
<1>5. Dir(p)' = Dir(p) /\ DbPath(p)' = DbPath(p)
  BY PathsStay
<1>6. Way(p)' /\ HasTemp(p)' /\ InSection(p)
  BY <1>0, <1>1, <1>2, <1>4, <1>5 DEF Way, HasTemp, Making, Located, WithTemp, InSection
<1> QED  BY <1>1, <1>3, <1>4, <1>6, QuietStep DEF WithTemp

\* The file is next to be made, in a directory that is there.
LEMMA LstatKeeps ==
  ASSUME IInv, NEW p \in Proc, Lstat(p)
  PROVE  IInv'
<1>0. Way(p) /\ Types
  BY DEF IInv
<1>1. pc[p] = "lstat" /\ UNCHANGED <<temp, tried, created, conn, fs, temps, split, keeps, hit, kept>>
  BY DEF Lstat
<1>2. Dir(p)' = Dir(p) /\ DbPath(p)' = DbPath(p)
  BY PathsStay
<1>3. Dir(p) \in DOMAIN fs /\ missing[p] = <<>> /\ InSection(p)
  BY <1>0, <1>1 DEF Way, Making, Located, InSection
<1>4. CASE DbPath(p) \in DOMAIN fs
  <2>1. Goto(p, "open") /\ UNCHANGED missing
    BY <1>4 DEF Lstat
  <2>2. Frame(p) /\ Types' /\ pc'[p] = "open"
    BY <1>1, <2>1, OnlyMoves DEF Phases
  <2>3. Way(p)' /\ HasTemp(p)'
    BY <1>0, <1>1, <1>2, <1>3, <2>1, <2>2 DEF Way, HasTemp, Making, Located, WithTemp
  <2> QED  BY <1>1, <1>3, <2>1, <2>2, <2>3, QuietStep DEF WithTemp
<1>5. CASE DbPath(p) \notin DOMAIN fs
  <2>1. Goto(p, "temp") /\ missing' = [missing EXCEPT ![p] = <<DbPath(p)>>]
    BY <1>5 DEF Lstat
  <2>2. pc \in [Proc -> Phases] /\ missing \in [Proc -> Seq(Seq(Name))] /\ "temp" \in Phases
    BY <1>0 DEF Types, Phases, Making
  <2>3. <<DbPath(p)>> \in Seq(Seq(Name))
    BY PathFacts
  <2>4. /\ pc' \in [Proc -> Phases] /\ missing' \in [Proc -> Seq(Seq(Name))]
        /\ pc'[p] = "temp" /\ missing'[p] = <<DbPath(p)>>
        /\ \A u \in Proc \ {p} : pc'[u] = pc[u] /\ missing'[u] = missing[u]
    BY <2>1, <2>2, <2>3 DEF Goto
  <2>5. Frame(p) /\ Types'
    BY <1>0, <1>1, <2>4 DEF Frame, Types, Entry
  <2>6. (Front(Target(p)) \in DOMAIN fs)'
    <3>1. Last(missing'[p]) = DbPath(p)
      BY <2>4 DEF Last
    <3>2. Front(Last(missing'[p])) \in DOMAIN fs
      BY <3>1, <1>3, PathFacts
    <3> QED  BY <3>2, <1>1 DEF Target, Front, Last
  <2>7. Way(p)' /\ HasTemp(p)'
    BY <1>0, <1>1, <1>2, <2>4, <2>6 DEF Way, HasTemp, Making, Located, WithTemp
  <2> QED  BY <1>1, <1>3, <2>4, <2>5, <2>7, QuietStep DEF WithTemp
<1> QED  BY <1>4, <1>5

\* A process that dies keeps its temp entry and frees its lock.
LEMMA CrashKeeps ==
  ASSUME IInv, NEW p \in Proc, Crash(p)
  PROVE  IInv'
<1>0. Way(p) /\ Types
  BY DEF IInv
<1>1. /\ pc[p] # "crashed" /\ Goto(p, "crashed")
      /\ UNCHANGED <<missing, temp, tried, created, conn, fs, temps, split, keeps, hit, kept>>
  BY DEF Crash, Ended
<1>2. Frame(p) /\ Types' /\ pc'[p] = "crashed"
  BY <1>1, OnlyMoves DEF Phases, Ended
<1>3. Way(p)' /\ HasTemp(p)' /\ ~InSection(p)'
  BY <1>0, <1>1, <1>2 DEF Way, HasTemp, Making, Located, WithTemp, InSection, Ended
<1> QED  BY <1>1, <1>2, <1>3, QuietStep

\* A failed step: the directory is looked at all the same, or the process
\* panics, and has an excuse.
LEMMA GiveUpFacts ==
  ASSUME IInv, NEW p \in Proc, pc[p] \in Making, GiveUp(p),
         UNCHANGED <<fs, split, keeps>>, hit \subseteq hit', hit' \subseteq Proc,
         temps' \subseteq Entry, p \in hit' \/ ~keeps,
         \A t \in temps : t.by # p => t \in temps'
  PROVE  /\ Frame(p) /\ Types' /\ Way(p)' /\ HasTemp(p)' /\ ~InSection(p)'
         /\ pc'[p] \notin WithTemp /\ (pc'[p] = "failed" => Excuse(p)')
<1> DEFINE where == IF IsFile(p) THEN "failed" ELSE "usable"
<1>0. Types
  BY DEF IInv
<1>1. /\ pc' = [pc EXCEPT ![p] = where] /\ created' = [created EXCEPT ![p] = FALSE]
      /\ missing' = [missing EXCEPT ![p] = <<>>] /\ temp' = [temp EXCEPT ![p] = ""]
      /\ UNCHANGED <<tried, conn>>
  BY DEF GiveUp, Goto
<1>2. where \in Phases /\ where \in {"failed", "usable"} /\ <<>> \in Seq(Seq(Name))
  BY DEF Phases, Ended
<1> HIDE DEF where
<1>3. /\ pc \in [Proc -> Phases] /\ missing \in [Proc -> Seq(Seq(Name))]
      /\ temp \in [Proc -> TempName \cup {""}] /\ created \in [Proc -> BOOLEAN]
  BY <1>0 DEF Types
<1>4. /\ pc' \in [Proc -> Phases] /\ missing' \in [Proc -> Seq(Seq(Name))]
      /\ temp' \in [Proc -> TempName \cup {""}] /\ created' \in [Proc -> BOOLEAN]
  BY <1>1, <1>2, <1>3
<1>5. pc'[p] = where /\ missing'[p] = <<>> /\ temp'[p] = "" /\ created'[p] = FALSE
  BY <1>1, <1>3
<1>6. \A u \in Proc \ {p} : /\ pc'[u] = pc[u] /\ missing'[u] = missing[u] /\ temp'[u] = temp[u]
                            /\ created'[u] = created[u] /\ conn'[u] = conn[u]
  BY <1>1, <1>3
<1>7. Frame(p)
  BY <1>6 DEF Frame
<1>8. Types'
  BY <1>0, <1>1, <1>4 DEF Types, Entry
<1>9. Way(p)' /\ HasTemp(p)' /\ ~InSection(p)'
  BY <1>2, <1>5 DEF Way, HasTemp, InSection, Making, Located, WithTemp
<1>10. Excuse(p)'
  BY DEF Excuse
<1> QED  BY <1>2, <1>5, <1>7, <1>8, <1>9, <1>10 DEF WithTemp

LEMMA CreateTempFailsKeeps ==
  ASSUME IInv, NEW p \in Proc, CreateTempFails(p)
  PROVE  IInv'
<1>1. /\ pc[p] = "temp" /\ hit' = hit \cup {p} /\ GiveUp(p)
      /\ UNCHANGED <<fs, temps, split, keeps, kept>>
  BY DEF CreateTempFails, Fault
<1>2. hit \subseteq Proc /\ temps \subseteq Entry
  BY DEF IInv, Types
<1>3. pc[p] \in Making /\ hit \subseteq hit' /\ hit' \subseteq Proc /\ p \in hit' /\ temps' \subseteq Entry
      /\ \A t \in temps : t.by # p => t \in temps'
  BY <1>1, <1>2 DEF Making
<1>4. /\ Frame(p) /\ Types' /\ Way(p)' /\ HasTemp(p)' /\ ~InSection(p)'
      /\ (pc'[p] = "failed" => Excuse(p)')
  BY <1>1, <1>3, GiveUpFacts
<1> QED  BY <1>1, <1>4, QuietStep DEF WithTemp

\* Two temp entries are never the same one, and p's is the only one it owns.
LEMMA MineIsOne ==
  ASSUME IInv, NEW p \in Proc, pc[p] \in WithTemp
  PROVE  \E t \in temps : /\ Mine(p) = {t} /\ t \in Entry
                          /\ t.by = p /\ t.dir = Front(Target(p)) /\ t.name = temp[p]
                          /\ pc[p] # "chmod" => t.open = keeps
                          /\ pc[p] \in {"rename", "discard"} /\ IsFile(p) => t.open
<1>1. HasTemp(p) /\ TempsOwned /\ temps \subseteq Entry
  BY DEF IInv, Types
<1>2. PICK t \in temps : /\ t.by = p /\ t.dir = Front(Target(p)) /\ t.name = temp[p]
                         /\ pc[p] # "chmod" => t.open = keeps
                         /\ pc[p] \in {"rename", "discard"} /\ IsFile(p) => t.open
  BY <1>1 DEF HasTemp
<1>3. Mine(p) = {t}
  BY <1>1, <1>2 DEF Mine, TempsOwned
<1> QED  BY <1>1, <1>2, <1>3

\* p is done with its temp entry: it is gone, or known not to have gone.
LEMMA TempIsSettled ==
  ASSUME IInv, NEW p \in Proc, Frame(p), pc[p] \in WithTemp,
         Removed(p) \/ NotRemoved(p)
  PROVE  TempsOwned' /\ temps' \subseteq temps
<1>1. /\ temps' \subseteq temps /\ kept \subseteq kept'
      /\ \A t \in Mine(p) : t \in temps' => t \in kept'
  BY DEF Removed, NotRemoved
<1>2. TempsOwned /\ temps \subseteq Entry
  BY DEF IInv, Types
<1>3. ASSUME NEW t \in temps'
      PROVE  \/ t \in kept' \/ pc'[t.by] = "crashed"
             \/ pc'[t.by] \in WithTemp /\ t \in Mine(t.by)'
  <2>1. t \in temps /\ t.by \in Proc
    BY <1>1, <1>2 DEF Entry
  <2>2. \/ t \in kept \/ pc[t.by] = "crashed"
        \/ pc[t.by] \in WithTemp /\ t \in Mine(t.by)
    BY <1>2, <2>1 DEF TempsOwned
  <2>3. CASE t.by = p
    BY <1>1, <2>2, <2>3 DEF WithTemp
  <2>4. CASE t.by # p
    <3>1. pc'[t.by] = pc[t.by] /\ missing'[t.by] = missing[t.by] /\ temp'[t.by] = temp[t.by]
      BY <2>1, <2>4 DEF Frame
    <3>2. t \in Mine(t.by) => t \in Mine(t.by)'
      BY <3>1 DEF Mine, Target, Last, Front
    <3> QED  BY <2>2, <3>1, <3>2, <1>1
  <2> QED  BY <2>3, <2>4
<1>4. \A t, u \in temps' : t.dir = u.dir /\ t.name = u.name => t = u
  BY <1>1, <1>2 DEF TempsOwned
<1> QED  BY <1>1, <1>3, <1>4 DEF TempsOwned

\* Fails, wherever it happens.
LEMMA FailsKeeps ==
  ASSUME IInv, NEW p \in Proc, pc[p] \in WithTemp, Fails(p),
         hit \subseteq hit', hit' \subseteq Proc, p \in hit' \/ ~keeps
  PROVE  IInv'
<1>1. (Removed(p) \/ NotRemoved(p)) /\ GiveUp(p) /\ UNCHANGED <<fs, split, keeps>>
  BY DEF Fails
<1>2. temps' \subseteq temps /\ \A t \in temps : t.by # p => t \in temps'
  BY <1>1 DEF Removed, NotRemoved, Mine
<1>3. temps' \subseteq Entry /\ pc[p] \in Making
  BY <1>2 DEF IInv, Types, WithTemp, Making
<1>4. /\ Frame(p) /\ Types' /\ Way(p)' /\ HasTemp(p)' /\ ~InSection(p)'
      /\ (pc'[p] = "failed" => Excuse(p)')
  BY <1>1, <1>2, <1>3, GiveUpFacts
<1>5. TempsOwned'
  BY <1>1, <1>4, TempIsSettled
<1>6. Entries'
  <2>1. keeps' = keeps /\ fs' = fs /\ Entries /\ \A q \in Proc : DbPath(q)' = DbPath(q)
    BY <1>1, PathsStay DEF IInv
  <2> QED  BY <2>1 DEF Entries
<1>7. \A u \in Proc \ {p} : ~split /\ pc[u] = "recheck" => DbPath(u) \notin DOMAIN fs'
  BY <1>1 DEF IInv, Way
<1> QED  BY <1>4, <1>5, <1>6, <1>7, StepKeeps

\* The failing calls, and a file system that did not keep the mode.
LEMMA FaultsKeep ==
  ASSUME IInv, NEW p \in Proc,
         ChmodFails(p) \/ VerifyFails(p) \/ RenameFails(p) \/ BadMode(p)
  PROVE  IInv'
<1>0. hit \subseteq Proc
  BY DEF IInv, Types
<1>1. CASE ChmodFails(p) \/ VerifyFails(p) \/ RenameFails(p)
  <2>1. pc[p] \in WithTemp /\ Fails(p) /\ hit' = hit \cup {p}
    BY <1>1 DEF ChmodFails, VerifyFails, RenameFails, Fault, WithTemp
  <2>2. hit \subseteq hit' /\ hit' \subseteq Proc /\ p \in hit'
    BY <2>1, <1>0
  <2> QED  BY <2>1, <2>2, FailsKeeps
<1>2. CASE BadMode(p)
  <2>1. pc[p] = "verify" /\ (\E t \in Mine(p) : ~t.open) /\ Fails(p) /\ hit' = hit
    BY <1>2 DEF BadMode
  <2>2. ~keeps
    BY <2>1, MineIsOne DEF WithTemp
  <2> QED  BY <1>0, <2>1, <2>2, FailsKeeps DEF WithTemp
<1> QED  BY <1>1, <1>2

\* A new temp entry has a name of its own.
LEMMA CreateTempKeeps ==
  ASSUME IInv, NEW p \in Proc, NEW n \in TempName, CreateTemp(p, n)
  PROVE  IInv'
<1>0. Way(p) /\ Types /\ TempsOwned /\ Entries
  BY DEF IInv
<1>1. pc[p] = "temp" /\ UNCHANGED <<missing, created, conn, fs, split, keeps, hit, kept>>
  BY DEF CreateTemp
<1>2. Dir(p)' = Dir(p) /\ DbPath(p)' = DbPath(p) /\ \A j : Chain(Dir(p), j)' = Chain(Dir(p), j)
  BY PathsStay DEF Chain
<1>3. Target(p)' = Target(p) /\ (IsFile(p)' <=> IsFile(p))
  BY <1>1, <1>2 DEF Target, IsFile, Last
<1>4. CASE \E t \in temps : t.dir = Front(Target(p)) /\ t.name = n
  <2>1. tried' = [tried EXCEPT ![p] = @ \cup {n}] /\ UNCHANGED <<pc, temp, temps>>
    BY <1>4 DEF CreateTemp
  <2>2. tried \in [Proc -> SUBSET TempName]
    BY <1>0 DEF Types
  <2>3. tried' \in [Proc -> SUBSET TempName]
    BY <2>1, <2>2
  <2>4. Types' /\ Frame(p)
    BY <1>0, <1>1, <2>1, <2>3 DEF Types, Entry, Frame
  <2>5. Way(p)'
    BY <1>0, <1>1, <1>2, <1>3, <2>1 DEF Way, Making, Located, Front
  <2>6. HasTemp(p)' /\ (InSection(p)' => InSection(p))
    BY <1>1, <1>3, <2>1 DEF HasTemp, WithTemp, InSection
  <2> QED  BY <1>1, <2>1, <2>4, <2>5, <2>6, QuietStep DEF WithTemp
<1>5. CASE ~ \E t \in temps : t.dir = Front(Target(p)) /\ t.name = n
  <2>1. PICK e : e = [dir |-> Front(Target(p)), name |-> n, by |-> p, open |-> FALSE]
    OBVIOUS
  <2>2. /\ temps' = temps \cup {e} /\ temp' = [temp EXCEPT ![p] = n]
        /\ pc' = [pc EXCEPT ![p] = "chmod"] /\ UNCHANGED tried
    BY <1>5, <2>1 DEF CreateTemp, Goto
  <2>3. Front(Target(p)) \in Seq(Name)
    <3>1. CASE IsFile(p)
      <4>1. Front(Target(p)) = Dir(p)
        BY <3>1, <1>0, <1>1, TargetFacts DEF Making
      <4> QED  BY <4>1, DirIsHome
    <3>2. CASE ~IsFile(p)
      <4>1. PICK k \in 1..(Len(Dir(p)) - 1) : missing[p] = Chain(Dir(p), k)
        BY <3>2, <1>0, <1>1, TargetFacts DEF Making
      <4>2. PICK d : d = Dir(p)
        OBVIOUS
      <4> DEFINE m == Len(d) - k + 1
      <4>3. d \in Seq(Name) /\ k \in 0..Len(d) /\ k > 0 /\ m \in 0..Len(d)
            /\ m - 1 \in 0..Len(d) /\ m > 0
        BY <4>1, <4>2, DirIsHome
      <4>4. Target(p) = SubSeq(d, 1, m)
        BY <4>1, <4>2, <4>3, ChainFacts DEF Target
      <4> HIDE DEF m
      <4>5. Front(Target(p)) = SubSeq(d, 1, m - 1)
        BY <4>3, <4>4, PrefixFacts
      <4> QED  BY <4>3, <4>5, PrefixFacts
    <3> QED  BY <3>1, <3>2
  <2>4. /\ e \in Entry /\ e.by = p /\ e.dir = Front(Target(p)) /\ e.name = n
    BY <2>1, <2>3 DEF Entry
  <2>5. /\ pc \in [Proc -> Phases] /\ temp \in [Proc -> TempName \cup {""}] /\ temps \subseteq Entry
        /\ "chmod" \in Phases
    BY <1>0 DEF Types, Phases, Making
  <2>6. /\ pc' \in [Proc -> Phases] /\ temp' \in [Proc -> TempName \cup {""}]
        /\ pc'[p] = "chmod" /\ temp'[p] = n
        /\ \A u \in Proc \ {p} : pc'[u] = pc[u] /\ temp'[u] = temp[u]
    BY <2>2, <2>5
  <2>7. Frame(p)
    BY <1>1, <2>2, <2>6 DEF Frame
  <2>8. Types'
    <3>1. temps' \subseteq Entry
      BY <2>2, <2>4, <2>5
    <3> QED  BY <3>1, <1>0, <1>1, <2>2, <2>6 DEF Types, Entry
  <2>9. Way(p)'
    BY <1>0, <1>1, <1>2, <1>3, <2>6 DEF Way, Making, Located, Front
  <2>10. HasTemp(p)'
    BY <1>3, <2>2, <2>4, <2>6 DEF HasTemp, Front
  <2>11. TempsOwned'
    <3>1. \A t, u \in temps' : t.dir = u.dir /\ t.name = u.name => t = u
      BY <1>0, <1>5, <2>2, <2>4 DEF TempsOwned
    <3>2. ASSUME NEW t \in temps'
          PROVE  \/ t \in kept' \/ pc'[t.by] = "crashed"
                 \/ pc'[t.by] \in WithTemp /\ t \in Mine(t.by)'
      <4>1. CASE t = e
        <5>1. t \in Mine(p)'
          BY <4>1, <1>3, <2>2, <2>4, <2>6 DEF Mine, Front
        <5> QED  BY <4>1, <5>1, <2>4, <2>6 DEF WithTemp
      <4>2. CASE t # e
        <5>1. t \in temps /\ t.by \in Proc
          BY <4>2, <2>2, <2>5 DEF Entry
        <5>2. \/ t \in kept \/ pc[t.by] = "crashed"
              \/ pc[t.by] \in WithTemp /\ t \in Mine(t.by)
          BY <1>0, <5>1 DEF TempsOwned
        <5>3. CASE t.by = p
          BY <1>1, <5>2, <5>3 DEF WithTemp
        <5>4. CASE t.by # p
          <6>1. pc'[t.by] = pc[t.by] /\ missing'[t.by] = missing[t.by] /\ temp'[t.by] = temp[t.by]
            BY <5>1, <5>4, <2>7 DEF Frame
          <6>2. t \in Mine(t.by) => t \in Mine(t.by)'
            BY <6>1 DEF Mine, Target, Last, Front
          <6> QED  BY <5>2, <6>1, <6>2, <1>1
        <5> QED  BY <5>3, <5>4
      <4> QED  BY <4>1, <4>2
    <3> QED  BY <3>1, <3>2 DEF TempsOwned
  <2>12. Entries'
    <3>1. keeps' = keeps /\ fs' = fs /\ \A q \in Proc : DbPath(q)' = DbPath(q)
      BY <1>1, PathsStay
    <3> QED  BY <3>1, <1>0 DEF Entries
  <2>13. InSection(p)' => InSection(p)
    BY <1>1, <1>3, <2>6 DEF InSection, Ended
  <2>14. \A u \in Proc \ {p} : ~split /\ pc[u] = "recheck" => DbPath(u) \notin DOMAIN fs'
    BY <1>1 DEF IInv, Way
  <2> QED  BY <2>6, <2>7, <2>8, <2>9, <2>10, <2>11, <2>12, <2>13, <2>14, StepKeeps
<1> QED  BY <1>4, <1>5

\* The chmod changes p's entry and no other.
LEMMA ChmodKeeps ==
  ASSUME IInv, NEW p \in Proc, Chmod(p)
  PROVE  IInv'
<1> DEFINE where == IF IsFile(p) THEN "verify" ELSE "rename"
<1>0. Way(p) /\ Types /\ TempsOwned /\ Entries
  BY DEF IInv
<1>1. /\ pc[p] = "chmod" /\ pc' = [pc EXCEPT ![p] = where]
      /\ temps' = (temps \ Mine(p)) \cup {[t EXCEPT !.open = keeps] : t \in Mine(p)}
      /\ UNCHANGED <<missing, temp, tried, created, conn, fs, split, keeps, hit, kept>>
  BY DEF Chmod, Goto
<1>2. PICK t \in temps : /\ Mine(p) = {t} /\ t \in Entry
                         /\ t.by = p /\ t.dir = Front(Target(p)) /\ t.name = temp[p]
  BY <1>1, MineIsOne DEF WithTemp
<1>3. PICK e : e = [t EXCEPT !.open = keeps]
  OBVIOUS
<1>4. e \in Entry /\ e.by = p /\ e.dir = t.dir /\ e.name = t.name /\ e.open = keeps
  <2>1. keeps \in BOOLEAN
    BY <1>0 DEF Types
  <2> QED  BY <1>2, <1>3, <2>1 DEF Entry
<1>5. temps' = (temps \ {t}) \cup {e}
  BY <1>1, <1>2, <1>3
<1>6. where \in Phases /\ where \in {"verify", "rename"} /\ (where = "rename" => ~IsFile(p))
  BY DEF Phases, Making
<1> HIDE DEF where
<1>7. pc \in [Proc -> Phases] /\ temps \subseteq Entry
  BY <1>0 DEF Types
<1>8. pc' \in [Proc -> Phases] /\ pc'[p] = where /\ \A u \in Proc \ {p} : pc'[u] = pc[u]
  BY <1>1, <1>6, <1>7
<1>9. Frame(p)
  BY <1>1, <1>2, <1>5, <1>8 DEF Frame
<1>10. Types'
  <2>1. temps' \subseteq Entry
    BY <1>4, <1>5, <1>7
  <2> QED  BY <2>1, <1>0, <1>1, <1>8 DEF Types, Entry
<1>11. /\ Dir(p)' = Dir(p) /\ DbPath(p)' = DbPath(p)
       /\ \A j : Chain(Dir(p), j)' = Chain(Dir(p), j)
  BY PathsStay DEF Chain
<1>12. Target(p)' = Target(p) /\ (IsFile(p)' <=> IsFile(p))
  BY <1>1, <1>11 DEF Target, IsFile, Last
<1>13. Way(p)'
  BY <1>0, <1>1, <1>6, <1>8, <1>11, <1>12 DEF Way, Making, Located, Front
<1>14. HasTemp(p)'
  BY <1>1, <1>2, <1>4, <1>5, <1>6, <1>8, <1>12 DEF HasTemp, Front
<1>15. TempsOwned'
  <2>1. \A s, u \in temps' : s.dir = u.dir /\ s.name = u.name => s = u
    BY <1>0, <1>2, <1>4, <1>5 DEF TempsOwned
  <2>2. ASSUME NEW s \in temps'
        PROVE  \/ s \in kept' \/ pc'[s.by] = "crashed"
               \/ pc'[s.by] \in WithTemp /\ s \in Mine(s.by)'
    <3>1. CASE s = e
      <4>1. s \in Mine(p)'
        BY <3>1, <1>1, <1>2, <1>4, <1>5, <1>12 DEF Mine, Front
      <4> QED  BY <3>1, <4>1, <1>4, <1>6, <1>8 DEF WithTemp
    <3>2. CASE s # e
      <4>1. s \in temps /\ s # t /\ s.by \in Proc
        BY <3>2, <1>5, <1>7 DEF Entry
      <4>2. \/ s \in kept \/ pc[s.by] = "crashed"
            \/ pc[s.by] \in WithTemp /\ s \in Mine(s.by)
        BY <1>0, <4>1 DEF TempsOwned
      <4>3. CASE s.by = p
        BY <1>1, <1>2, <4>1, <4>2, <4>3
      <4>4. CASE s.by # p
        <5>1. pc'[s.by] = pc[s.by] /\ missing'[s.by] = missing[s.by] /\ temp'[s.by] = temp[s.by]
          BY <4>1, <4>4, <1>9 DEF Frame
        <5>2. s \in Mine(s.by) => s \in Mine(s.by)'
          BY <5>1 DEF Mine, Target, Last, Front
        <5> QED  BY <4>2, <5>1, <5>2, <1>1
      <4> QED  BY <4>3, <4>4
    <3> QED  BY <3>1, <3>2
  <2> QED  BY <2>1, <2>2 DEF TempsOwned
<1>16. Entries'
  <2>1. keeps' = keeps /\ fs' = fs /\ \A q \in Proc : DbPath(q)' = DbPath(q)
    BY <1>1, PathsStay
  <2> QED  BY <2>1, <1>0 DEF Entries
<1>17. InSection(p)' => InSection(p)
  BY <1>1, <1>6, <1>8, <1>12 DEF InSection, Ended
<1>18. \A u \in Proc \ {p} : ~split /\ pc[u] = "recheck" => DbPath(u) \notin DOMAIN fs'
  BY <1>1 DEF IInv, Way
<1> QED  BY <1>6, <1>8, <1>9, <1>10, <1>13, <1>14, <1>15, <1>16, <1>17, <1>18, StepKeeps

\* After an entry, whoever published it: the level below it, the check of the
\* directory, or the open.
LEMMA ProceedFacts ==
  ASSUME IInv, NEW p \in Proc, pc[p] \in {"rename", "discard"}, Proceed(p),
         UNCHANGED <<created, conn, split, keeps>>, hit \subseteq hit', hit' \subseteq Proc,
         temps' \subseteq Entry, \A t \in temps : t.by # p => t \in temps',
         DOMAIN fs \subseteq DOMAIN fs', \A x \in DOMAIN fs : fs'[x] = fs[x],
         Target(p) \in DOMAIN fs'
  PROVE  /\ Frame(p) /\ Types' /\ Way(p)' /\ HasTemp(p)' /\ (InSection(p)' => InSection(p))
         /\ pc'[p] \notin WithTemp /\ pc'[p] # "failed"
<1> DEFINE where == IF IsFile(p) THEN "open" ELSE IF Len(missing[p]) > 1 THEN "temp" ELSE "usable"
<1>0. Types /\ Way(p) /\ pc[p] \in Making
  BY DEF IInv, Making
<1>1. /\ missing' = [missing EXCEPT ![p] = Front(@)] /\ temp' = [temp EXCEPT ![p] = ""]
      /\ tried' = [tried EXCEPT ![p] = {}] /\ pc' = [pc EXCEPT ![p] = where]
  BY DEF Proceed, Goto
<1>2. where \in Phases /\ where \in {"open", "temp", "usable"}
  BY DEF Phases, Making
<1>3. /\ pc \in [Proc -> Phases] /\ missing \in [Proc -> Seq(Seq(Name))]
      /\ temp \in [Proc -> TempName \cup {""}] /\ tried \in [Proc -> SUBSET TempName]
  BY <1>0 DEF Types
<1>4. Front(missing[p]) \in Seq(Seq(Name))
  <2>1. CASE IsFile(p)
    <3>1. Front(missing[p]) = <<>>
      BY <2>1, <1>0, TargetFacts
    <3> QED  BY <3>1
  <2>2. CASE ~IsFile(p)
    <3>1. PICK k \in 1..(Len(Dir(p)) - 1) : Front(missing[p]) = Chain(Dir(p), k - 1)
      BY <2>2, <1>0, TargetFacts
    <3>2. Dir(p) \in Seq(Name) /\ k - 1 \in 0..Len(Dir(p))
      BY <3>1, DirIsHome
    <3> QED  BY <3>1, <3>2, ChainFacts
  <2> QED  BY <2>1, <2>2
<1>5. PICK w \in Phases : w = where
  BY <1>2
<1>6. /\ pc' \in [Proc -> Phases] /\ missing' \in [Proc -> Seq(Seq(Name))]
      /\ temp' \in [Proc -> TempName \cup {""}] /\ tried' \in [Proc -> SUBSET TempName]
      /\ pc'[p] = w /\ missing'[p] = Front(missing[p])
      /\ \A u \in Proc \ {p} : pc'[u] = pc[u] /\ missing'[u] = missing[u] /\ temp'[u] = temp[u]
  <2> HIDE DEF where
  <2> QED  BY <1>1, <1>3, <1>4, <1>5
<1>7. Frame(p)
  BY <1>6 DEF Frame
<1>8. Types'
  BY <1>0, <1>6 DEF Types, Entry
<1>9. /\ Dir(p)' = Dir(p) /\ DbPath(p)' = DbPath(p)
      /\ \A j : Chain(Dir(p), j)' = Chain(Dir(p), j)
  BY PathsStay DEF Chain
<1>10. ~created'[p] => p \in hit' \/ ~keeps'
  BY <1>0 DEF Way
<1>11. CASE IsFile(p)
  <2>1. w = "open" /\ missing'[p] = <<>> /\ Dir(p) \in DOMAIN fs'
    BY <1>0, <1>5, <1>6, <1>11, TargetFacts DEF Way
  <2>2. Way(p)'
    BY <1>6, <1>9, <1>10, <2>1 DEF Way, Making, Located
  <2>3. InSection(p)
    BY <1>0, <1>11, TargetFacts DEF InSection, Ended
  <2> QED  BY <1>6, <1>7, <1>8, <2>1, <2>2, <2>3 DEF HasTemp, WithTemp
<1>12. CASE ~IsFile(p)
  <2>1. PICK k \in 1..(Len(Dir(p)) - 1) :
          /\ missing[p] = Chain(Dir(p), k) /\ Len(missing[p]) = k
          /\ Front(missing[p]) = Chain(Dir(p), k - 1)
          /\ k = 1 => Target(p) = Dir(p) /\ Front(missing[p]) = <<>>
          /\ k > 1 => Front(Last(Front(missing[p]))) = Target(p)
    BY <1>0, <1>12, TargetFacts
  <2>2. Len(Dir(p)) \in Nat /\ k \in Nat
    BY <2>1, DirIsHome
  <2>3. CASE k = 1
    <3>0. Target(p) = Dir(p) /\ Front(missing[p]) = <<>> /\ Len(missing[p]) = 1
      BY <2>1, <2>3
    <3>1. w = "usable" /\ missing'[p] = <<>> /\ Dir(p) \in DOMAIN fs'
      <4>1. ~(Len(missing[p]) > 1)
        BY <3>0
      <4>2. w = "usable"
        BY <4>1, <1>5, <1>12
      <4> QED  BY <3>0, <4>2, <1>6
    <3>2. Way(p)'
      BY <1>6, <1>9, <1>10, <3>1 DEF Way, Making, Located
    <3> QED  BY <1>6, <1>7, <1>8, <3>1, <3>2 DEF HasTemp, WithTemp, InSection
  <2>4. CASE k > 1
    <3>1. w = "temp" /\ k - 1 \in 1..(Len(Dir(p)) - 1)
      BY <2>1, <2>2, <2>4, <1>5, <1>12
    <3>2. (Front(Target(p)) \in DOMAIN fs)'
      BY <2>1, <2>4, <1>6 DEF Target, Front, Last
    <3>3. (missing[p] = Chain(Dir(p), k - 1))'
      BY <2>1, <1>6, <1>9
    <3>4. Way(p)'
      BY <1>6, <1>9, <1>10, <3>1, <3>2, <3>3 DEF Way, Making, Located
    <3>5. ~IsFile(p)'
      <4> DEFINE d == Dir(p)
                 n == Len(d) - (k - 1) + 1
      <4>1. d \in Seq(Name) /\ k - 1 \in 0..Len(d) /\ k - 1 > 0 /\ n \in 1..Len(d)
        BY <3>1, <2>2, <2>4, DirIsHome
      <4>2. Last(Chain(d, k - 1)) = SubSeq(d, 1, n)
        BY <4>1, ChainFacts
      <4>3. SubSeq(d, 1, n) \notin DbPaths
        BY <4>1, LevelIsNoFile
      <4>4. Last(missing'[p]) # DbPath(p)
        BY <4>2, <4>3, <2>1, <1>6 DEF DbPaths
      <4> QED  BY <4>4, <1>9 DEF IsFile, Target, Last
    <3> QED  BY <1>6, <1>7, <1>8, <3>1, <3>4, <3>5 DEF HasTemp, WithTemp, InSection
  <2> QED  BY <2>1, <2>2, <2>3, <2>4
<1> QED  BY <1>11, <1>12

\* The rename: an entry that is open appears where there was nothing.
LEMMA RenameKeeps ==
  ASSUME IInv, NEW p \in Proc, Rename(p)
  PROVE  IInv'
<1>0. Way(p) /\ Types /\ Entries /\ pc[p] = "rename" /\ pc[p] \in Making
  BY DEF IInv, Rename, Making
<1>1. PICK t \in temps : /\ Mine(p) = {t} /\ t \in Entry /\ t.by = p
                         /\ t.open = keeps /\ (IsFile(p) => t.open)
  BY <1>0, MineIsOne DEF WithTemp
<1>2. PICK x : x = Target(p)
  OBVIOUS
<1>3. /\ x \notin DOMAIN fs
      /\ fs' = [y \in DOMAIN fs \cup {x} |->
                  IF y = x THEN [by |-> p, user |-> User[p], open |-> t.open] ELSE fs[y]]
      /\ temps' = temps \ Mine(p) /\ Proceed(p)
      /\ UNCHANGED <<created, conn, split, keeps, hit, kept>>
  BY <1>1, <1>2 DEF Rename
<1>4. /\ DOMAIN fs' = DOMAIN fs \cup {x} /\ (\A y \in DOMAIN fs : fs'[y] = fs[y])
      /\ fs'[x].by = p /\ fs'[x].open = t.open
  BY <1>3
<1>5. /\ hit \subseteq hit' /\ hit' \subseteq Proc /\ temps' \subseteq Entry
      /\ \A s \in temps : s.by # p => s \in temps'
  BY <1>0, <1>1, <1>3 DEF Types
<1>6. /\ Frame(p) /\ Types' /\ Way(p)' /\ HasTemp(p)' /\ (InSection(p)' => InSection(p))
      /\ pc'[p] # "failed"
  <2>1. Target(p) \in DOMAIN fs' /\ DOMAIN fs \subseteq DOMAIN fs'
    BY <1>2, <1>4
  <2> QED  BY <2>1, <1>0, <1>3, <1>4, <1>5, ProceedFacts
<1>7. TempsOwned'
  BY <1>0, <1>3, <1>6, TempIsSettled DEF Removed, WithTemp
<1>8. IsFile(p) \/ x \notin DbPaths
  BY <1>0, <1>2, TargetFacts
<1>9. Entries'
  <2>1. keeps' = keeps /\ keeps \in BOOLEAN /\ t.open \in BOOLEAN
    BY <1>0, <1>1, <1>3 DEF Types
  <2>2. {DbPath(q) : q \in Proc}' = DbPaths
    BY PathsStay DEF DbPaths
  <2>3. DOMAIN Before \subseteq DOMAIN fs /\ \A y \in DOMAIN Before : fs'[y] = Before[y]
    BY <1>0, <1>4 DEF Entries
  <2>4. ASSUME NEW y \in DOMAIN fs' \ DOMAIN Before
        PROVE  /\ fs'[y].by \in Proc /\ (keeps => fs'[y].open = TRUE)
               /\ (y \in DbPaths => fs'[y].open = TRUE) /\ fs'[y].open \in BOOLEAN
    <3>1. CASE y = x
      <4>1. y \in DbPaths => t.open
        BY <3>1, <1>1, <1>8
      <4> QED  BY <3>1, <4>1, <1>1, <1>4, <2>1
    <3>2. CASE y # x
      BY <3>2, <1>0, <1>4 DEF Entries, DbPaths
    <3> QED  BY <3>1, <3>2
  <2> QED  BY <1>4, <2>1, <2>2, <2>3, <2>4 DEF Entries
<1>10. ASSUME NEW u \in Proc \ {p}, ~split, pc[u] = "recheck"
       PROVE  DbPath(u) \notin DOMAIN fs'
  <2>1. DbPath(u) \notin DOMAIN fs
    BY <1>10 DEF IInv, Way
  <2>2. DbPath(u) # x
    <3> SUFFICES ASSUME DbPath(u) = x PROVE FALSE
      OBVIOUS
    <3>1. IsFile(p)
      BY <1>8 DEF DbPaths
    <3>2. Dir(u) = Dir(p)
      BY <3>1, <1>2, FileHasOneDir DEF IsFile
    <3>3. InSection(p) /\ InSection(u)
      BY <1>0, <1>10, <3>1, TargetFacts DEF InSection, Ended
    <3> QED  BY <3>2, <3>3, <1>10 DEF IInv, LockExcludes
  <2> QED  BY <2>1, <2>2, <1>4
<1> QED  BY <1>6, <1>7, <1>9, <1>10, StepKeeps

\* The loser's temp entry goes, or is known to stay.
LEMMA DiscardKeeps ==
  ASSUME IInv, NEW p \in Proc, Discard(p) \/ DiscardFails(p)
  PROVE  IInv'
<1>0. Way(p) /\ Types /\ Entries
  BY DEF IInv
<1>1. /\ pc[p] = "discard" /\ UNCHANGED <<fs, split, keeps>> /\ (Removed(p) \/ NotRemoved(p))
      /\ hit \subseteq hit' /\ hit' \subseteq Proc
  BY <1>0 DEF Discard, DiscardFails, Fault, Types
<1>2. pc[p] \in Making /\ pc[p] \in WithTemp /\ Target(p) \in DOMAIN fs
  BY <1>0, <1>1 DEF Way, Making, WithTemp
<1>3. temps' \subseteq temps /\ \A t \in temps : t.by # p => t \in temps'
  BY <1>1 DEF Removed, NotRemoved, Mine
<1>4. temps' \subseteq Entry
  BY <1>0, <1>3 DEF Types
<1>5. /\ Frame(p) /\ Types' /\ Way(p)' /\ HasTemp(p)' /\ (InSection(p)' => InSection(p))
      /\ (pc'[p] = "failed" => Excuse(p)')
  <2>1. CASE Proceed(p) /\ UNCHANGED <<created, conn>>
    <3>1. /\ Target(p) \in DOMAIN fs' /\ DOMAIN fs \subseteq DOMAIN fs'
          /\ \A x \in DOMAIN fs : fs'[x] = fs[x]
      BY <1>1, <1>2
    <3> QED  BY <2>1, <3>1, <1>1, <1>3, <1>4, ProceedFacts
  <2>2. CASE GiveUp(p) /\ DiscardFails(p)
    <3>1. p \in hit'
      BY <2>2 DEF DiscardFails, Fault
    <3> QED  BY <2>2, <3>1, <1>1, <1>2, <1>3, <1>4, GiveUpFacts
  <2> QED  BY <2>1, <2>2 DEF Discard, DiscardFails
<1>6. TempsOwned'
  BY <1>1, <1>2, <1>5, TempIsSettled
<1>7. Entries'
  <2>1. keeps' = keeps /\ fs' = fs /\ \A q \in Proc : DbPath(q)' = DbPath(q)
    BY <1>1, PathsStay
  <2> QED  BY <2>1, <1>0 DEF Entries
<1>8. \A u \in Proc \ {p} : ~split /\ pc[u] = "recheck" => DbPath(u) \notin DOMAIN fs'
  BY <1>1 DEF IInv, Way
<1> QED  BY <1>5, <1>6, <1>7, <1>8, StepKeeps

-----------------------------------------------------------------------------
(* The theorems.                                                           *)

LEMMA InitInv == Init => IInv
<1> SUFFICES ASSUME Init PROVE IInv
  OBVIOUS
<1>1. PICK cast \in Casts :
        pc = [p \in Proc |-> IF p \notin cast THEN "idle"
                             ELSE IF Override[p] # <<>> THEN "scan" ELSE "usable"]
  BY DEF Init
<1>2. /\ missing = [p \in Proc |-> <<>>] /\ temp = [p \in Proc |-> ""]
      /\ tried = [p \in Proc |-> {}] /\ created = [p \in Proc |-> TRUE]
      /\ conn = [p \in Proc |-> ""]
      /\ fs = Before /\ temps = {} /\ hit = {} /\ kept = {}
      /\ split \in BOOLEAN /\ keeps \in BOOLEAN
  BY DEF Init
<1>3. \A p \in Proc : /\ pc[p] \in {"idle", "scan", "usable"} /\ missing[p] = <<>> /\ created[p] = TRUE
                      /\ pc[p] = "usable" => Override[p] = <<>>
  BY <1>1, <1>2
<1>4. Types
  <2>1. pc \in [Proc -> Phases]
    BY <1>1 DEF Phases
  <2>2. <<>> \in Seq(Seq(Name))
    OBVIOUS
  <2> QED  BY <1>2, <2>1, <2>2 DEF Types
<1>5. ASSUME NEW p \in Proc PROVE Way(p) /\ HasTemp(p) /\ ~InSection(p)
  <2>1. <<>> = Chain(Dir(p), 0) /\ 0 \in 0..(Len(Dir(p)) - 1)
    BY DirIsHome, ChainFacts
  <2>2. pc[p] = "usable" => Dir(p) \in DOMAIN fs
    BY <1>2, <1>3, DirAssumption
  <2>3. Len(<<>>) = 0
    OBVIOUS
  <2>4. Way(p)
    BY <1>3, <2>1, <2>2, <2>3 DEF Way, Making, Located
  <2> QED  BY <1>3, <2>4 DEF HasTemp, WithTemp, InSection
<1>6. TempsOwned /\ Entries /\ LockExcludes /\ NobodyIsTurnedAway
  BY <1>2, <1>3, <1>5 DEF TempsOwned, Entries, LockExcludes, NobodyIsTurnedAway
<1> QED  BY <1>4, <1>5, <1>6 DEF IInv

LEMMA NextInv == IInv /\ [Next]_vars => IInv'
<1> SUFFICES ASSUME IInv, [Next]_vars PROVE IInv'
  OBVIOUS
<1>1. ASSUME NEW p \in Proc, Step(p) PROVE IInv'
  BY <1>1, ScanKeeps, CreateTempKeeps, ChmodKeeps, VerifyKeeps, FaultsKeep, RenameKeeps,
     RenameLosesKeeps, DiscardKeeps, CheckUsableKeeps, WithInitLockKeeps, OpenKeeps,
     RecheckKeeps, LstatKeeps DEF Step
<1>2. ASSUME NEW p \in Proc,
             \/ CreateTempFails(p) \/ ChmodFails(p) \/ VerifyFails(p)
             \/ RenameFails(p) \/ DiscardFails(p) \/ Crash(p)
      PROVE  IInv'
  BY <1>2, CreateTempFailsKeeps, FaultsKeep, DiscardKeeps, CrashKeeps
<1>3. CASE UNCHANGED vars
  <2>1. /\ pc' = pc /\ missing' = missing /\ temp' = temp /\ tried' = tried /\ created' = created
        /\ conn' = conn /\ fs' = fs /\ temps' = temps /\ split' = split /\ keeps' = keeps
        /\ hit' = hit /\ kept' = kept
    BY <1>3 DEF vars, local
  <2>2. \A p \in Proc : Dir(p)' = Dir(p) /\ DbPath(p)' = DbPath(p)
    BY PathsStay
  <2>3. \A p \in Proc : /\ Target(p)' = Target(p) /\ (IsFile(p)' <=> IsFile(p)) /\ Mine(p)' = Mine(p)
                        /\ \A j : Chain(Dir(p), j)' = Chain(Dir(p), j)
    BY <2>1, <2>2 DEF Target, IsFile, Mine, Chain, Last, Front
  <2>4. Types'
    BY <2>1 DEF IInv, Types, Entry
  <2>5. ASSUME NEW p \in Proc PROVE Way(p)' /\ HasTemp(p)' /\ (InSection(p)' <=> InSection(p))
    <3>1. Way(p) /\ HasTemp(p)
      BY DEF IInv
    <3>2. Way(p)'
      BY <3>1, <2>1, <2>2, <2>3 DEF Way, Front
    <3>3. HasTemp(p)' /\ (InSection(p)' <=> InSection(p))
      BY <3>1, <2>1, <2>3 DEF HasTemp, InSection, Front
    <3> QED  BY <3>2, <3>3
  <2>6. TempsOwned'
    BY <2>1, <2>3 DEF IInv, TempsOwned, Types, Entry
  <2>7. Entries'
    BY <2>1, <2>2 DEF IInv, Entries
  <2>8. LockExcludes'
    BY <2>1, <2>2, <2>5 DEF IInv, LockExcludes
  <2>9. NobodyIsTurnedAway'
    BY <2>1, <2>2 DEF IInv, NobodyIsTurnedAway, Usable, IsPrefix
  <2> QED  BY <2>4, <2>5, <2>6, <2>7, <2>8, <2>9 DEF IInv
<1> QED  BY <1>1, <1>2, <1>3 DEF Next, Finished

\* Every process is where its steps can have brought it, owns the temp entry it
\* is working on and no other, and what is published stays as it was.
THEOREM PublishingKeepsItsInvariant == Spec => []IInv
<1>1. Init => IInv
  BY InitInv
<1>2. IInv /\ [Next]_vars => IInv'
  BY NextInv
<1> QED  BY <1>1, <1>2, PTL DEF Spec

\* A process fails to get a database only for a reason of its own.
THEOREM NobodyIsEverTurnedAway == Spec => []NobodyIsTurnedAway
<1>1. IInv => NobodyIsTurnedAway
  BY DEF IInv
<1> QED  BY <1>1, PublishingKeepsItsInvariant, PTL

\* A temp entry outlives its use only if its process died or removing it failed.
THEOREM NoTempIsForgotten == Spec => []NoLitter
<1>1. ASSUME IInv PROVE NoLitter
  <2>1. Types /\ TempsOwned /\ Entries
    BY <1>1 DEF IInv
  <2>2. TypeOK
    <3>1. pc \in [Proc -> Ended \cup {"idle", "scan", "temp", "chmod", "verify", "rename", "discard",
                                       "usable", "lock", "open", "recheck", "lstat"}]
      BY <2>1 DEF Types, Phases, Making
    <3>2. \A p \in Proc : temp[p] \in TempName \cup {""} /\ tried[p] \subseteq TempName
      BY <2>1 DEF Types
    <3>3. \A x \in DOMAIN fs : fs[x].by \in Proc \cup {"old"} /\ fs[x].open \in BOOLEAN
      <4> TAKE x \in DOMAIN fs
      <4>1. CASE x \in DOMAIN Before
        BY <4>1, <2>1, PublishAssumption DEF Entries
      <4>2. CASE x \notin DOMAIN Before
        BY <4>2, <2>1 DEF Entries
      <4> QED  BY <4>1, <4>2
    <3>4. \A t, u \in temps : t.dir = u.dir /\ t.name = u.name => t = u
      BY <2>1 DEF TempsOwned
    <3>5. hit \subseteq Proc /\ created \in [Proc -> BOOLEAN]
      BY <2>1 DEF Types
    <3> QED  BY <3>1, <3>2, <3>3, <3>4, <3>5 DEF TypeOK
  <2> QED  BY <2>1, <2>2 DEF NoLitter, TempsOwned, WithTemp, Ended
<1> QED  BY <1>1, PublishingKeepsItsInvariant, PTL

\* All processes of one home that get a database get the same one.
THEOREM OneHomeOneDatabase == Spec => []OneDatabase
<1>1. ASSUME IInv PROVE OneDatabase
  <2> SUFFICES ASSUME NEW p \in Proc, NEW q \in Proc, pc[p] = "done", pc[q] = "done", Home[p] = Home[q]
               PROVE  DbPath(p) = DbPath(q) /\ conn[p] = conn[q]
    BY DEF OneDatabase
  <2>1. DbPath(p) = DbPath(q)
    BY DirIsHome DEF DbPath
  <2>2. conn[p] = fs[DbPath(p)].by /\ conn[q] = fs[DbPath(q)].by
    BY <1>1 DEF IInv, Way
  <2> QED  BY <2>1, <2>2
<1> QED  BY <1>1, PublishingKeepsItsInvariant, PTL

\* Every step but the rename leaves the file system as it is.
LEMMA OnlyRenamePublishes ==
  ASSUME [Next]_vars
  PROVE  (fs' = fs /\ keeps' = keeps) \/ \E p \in Proc : Rename(p)
<1>1. ASSUME NEW p \in Proc, Step(p) PROVE (fs' = fs /\ keeps' = keeps) \/ Rename(p)
  BY <1>1 DEF Step, Scan, CreateTemp, Chmod, Verify, BadMode, Fails, RenameLoses, Discard,
              CheckUsable, WithInitLock, Open, Recheck, Lstat
<1>2. ASSUME NEW p \in Proc,
             \/ CreateTempFails(p) \/ ChmodFails(p) \/ VerifyFails(p)
             \/ RenameFails(p) \/ DiscardFails(p) \/ Crash(p)
      PROVE  fs' = fs /\ keeps' = keeps
  BY <1>2 DEF CreateTempFails, ChmodFails, VerifyFails, RenameFails, DiscardFails, Crash, Fails
<1>3. UNCHANGED vars => fs' = fs /\ keeps' = keeps
  BY DEF vars
<1> QED  BY <1>1, <1>2, <1>3 DEF Next, Finished

\* Directories and the database file appear in one step, open to every user,
\* and are never replaced: the rename is Publish, and everything else stutters.
THEOREM PublishingIsAtomic == Spec => ImplementsAtomicPublish
<1>1. ASSUME Init PROVE Atomic!Init
  <2>1. fs = Before
    BY <1>1 DEF Init
  <2>2. \A x \in DOMAIN Before : Before[x].by = "old" /\ Before[x].open \in BOOLEAN
    BY PublishAssumption
  <2> QED  BY <2>1, <2>2 DEF Shown, Atomic!Init
<1>2. IInv /\ [Next]_vars => [Atomic!Next]_Shown
  <2> SUFFICES ASSUME IInv, [Next]_vars PROVE Atomic!Next \/ Shown' = Shown
    OBVIOUS
  <2>0. {DbPath(q) : q \in Proc}' = DbPaths
    BY PathsStay DEF DbPaths
  <2>1. CASE fs' = fs /\ keeps' = keeps
    BY <2>0, <2>1 DEF Shown, DbPaths
  <2>2. ASSUME NEW p \in Proc, Rename(p) PROVE Atomic!Next
    <3>0. Way(p) /\ Types /\ pc[p] = "rename" /\ pc[p] \in Making
      BY <2>2 DEF IInv, Rename, Making
    <3>1. PICK t \in temps : Mine(p) = {t} /\ t \in Entry /\ t.open = keeps /\ (IsFile(p) => t.open)
      BY <3>0, MineIsOne DEF WithTemp
    <3>2. PICK x : x = Target(p)
      OBVIOUS
    <3>3. /\ x \notin DOMAIN fs /\ keeps' = keeps
          /\ fs' = [y \in DOMAIN fs \cup {x} |->
                      IF y = x THEN [by |-> p, user |-> User[p], open |-> t.open] ELSE fs[y]]
      BY <2>2, <3>1, <3>2 DEF Rename
    <3>4. /\ DOMAIN fs' = DOMAIN fs \cup {x} /\ (\A y \in DOMAIN fs : fs'[y] = fs[y])
          /\ fs'[x].by = p /\ fs'[x].open = t.open
      BY <3>3
    <3>5. x \in Paths /\ Front(x) \in DOMAIN fs /\ (IsFile(p) \/ x \notin DbPaths)
      BY <3>0, <3>2, TargetFacts DEF Way
    <3>6. fs'[x].open \/ (~keeps' /\ fs'[x].by # "old" /\ x \notin DbPaths)
      <4>1. p # "old" /\ keeps \in BOOLEAN
        BY <3>0, PublishAssumption DEF Types
      <4>2. CASE keeps
        BY <4>2, <3>1, <3>4
      <4>3. CASE ~keeps /\ IsFile(p)
        BY <4>3, <3>1, <3>4
      <4>4. CASE ~keeps /\ ~IsFile(p)
        BY <4>1, <4>4, <3>3, <3>4, <3>5
      <4> QED  BY <4>2, <4>3, <4>4
    <3>7. DOMAIN Shown = DOMAIN fs /\ Shown' = [y \in DOMAIN fs \cup {x} |->
             fs'[y].open \/ (~keeps' /\ fs'[y].by # "old" /\ y \notin DbPaths)]
      BY <2>0, <3>4 DEF Shown
    <3>8. \A y \in DOMAIN fs : Shown[y] =
             (fs'[y].open \/ (~keeps' /\ fs'[y].by # "old" /\ y \notin DbPaths))
      BY <3>3, <3>4 DEF Shown, DbPaths
    <3>9. Shown' = [y \in DOMAIN Shown \cup {x} |-> IF y = x THEN TRUE ELSE Shown[y]]
      BY <3>3, <3>6, <3>7, <3>8
    <3>10. Atomic!Publish(x)
      BY <3>3, <3>5, <3>7, <3>9 DEF Atomic!Publish, Atomic!Front, Front
    <3> QED  BY <3>5, <3>10 DEF Atomic!Next
  <2> QED  BY <2>1, <2>2, OnlyRenamePublishes
<1> QED  BY <1>1, <1>2, PublishingKeepsItsInvariant, PTL DEF Spec, ImplementsAtomicPublish, Atomic!Spec
=============================================================================
