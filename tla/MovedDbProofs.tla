--------------------------- MODULE MovedDbProofs ---------------------------
(***************************************************************************)
(* Proofs about MovedDb for any number of tests, any conflicts between     *)
(* them and any number of moves.                                           *)
(***************************************************************************)
EXTENDS MovedDb, TLAPS

-----------------------------------------------------------------------------
(* The inductive invariant.                                                *)

\* INIT_SQL has been run on the connection.
HasCompanions(t) == Using(t) \/ pc[t] \in {"postinit", "migrate", "migrated", "companions"}

Table == [rows : SUBSET [id : Nat, test : Test], seq : Nat, version : {0, 1}]

\* TypeOK, with the types of the tables.
Types ==
  /\ TypeOK
  /\ store \in [DOMAIN store -> Table]
  /\ overlapped \subseteq SUBSET Test /\ coInits \subseteq SUBSET Test

\* A connection holds what the steps so far have given it, and a registered
\* test's row is in its table, with an id that nobody else has there and that
\* is newer than anything in the main file itself.
Thread(t) ==
  /\ conn[t].dir # 0 <=> pc[t] \notin {"idle", "done"}
  /\ Connected(t) => conn[t].main # 0 /\ <<conn[t].main, 0>> \in DOMAIN store
  /\ conn[t].comp # 0 <=> HasCompanions(t)
  /\ HasCompanions(t) => Key(t) \in DOMAIN store
  /\ Registered(t) =>
       /\ [id |-> conn[t].id, test |-> t] \in store[Key(t)].rows
       /\ \A r \in store[Key(t)].rows : r.id = conn[t].id => r.test = t
       /\ conn[t].id > store[<<conn[t].main, 0>>].seq
  /\ pc[t] # "done" => outcome[t] = "none"

\* What the path names, or will name again when the directory is put back.
\* Files of the two are not mixed up.
Away == fs.dir # aside.dir
Files ==
  /\ fs.dir = 0 => fs.main = 0 /\ fs.comp = 0
  /\ aside.dir # 0
  /\ fs.main # 0 => <<fs.main, 0>> \in DOMAIN store
  /\ aside.main # 0 => <<aside.main, 0>> \in DOMAIN store
  /\ Away /\ aside.comp # 0 =>
       /\ fs.comp # aside.comp
       /\ fs.main # 0 => <<fs.main, aside.comp>> \notin DOMAIN store

\* A table that is in use, or may be again, holds all that is in its main
\* file: a checkpoint takes no row away.
Grown(k) ==
  LET base == <<k[1], 0>>
  IN  base \in DOMAIN store /\ store[base].rows \subseteq store[k].rows /\ store[base].seq <= store[k].seq
InUse(k) ==
  \/ k[2] = fs.comp
  \/ Away /\ k[2] = aside.comp
  \/ \E t \in Test : HasCompanions(t) /\ Key(t) = k
TablesGrow == \A k \in DOMAIN store : k[2] # 0 /\ InUse(k) => Grown(k)

\* Of two tests that overlapped, one has lost the path for good; of two that
\* were inside the init lock at once, one has lost its directory.
Lost(t) == outcome[t] = "fail" \/ ((Registered(t) \/ pc[t] = "deleted") /\ HasMoved(t))
LostLock(t) == outcome[t] = "fail" \/ (Initializing(t) /\ HasSplit(t))
OneHasLost ==
  ~restored =>
    /\ \A t, u \in Test : {t, u} \in overlapped => Lost(t) \/ Lost(u)
    /\ \A t, u \in Test : t # u /\ {t, u} \in coInits => LostLock(t) \/ LostLock(u)

IInv == Types /\ (\A t \in Test : Thread(t)) /\ Files /\ TablesGrow /\ OneHasLost

\* Nothing is there and nobody has a connection.
LEMMA InitIInv == Init => IInv
<1> SUFFICES ASSUME Init PROVE IInv
  OBVIOUS
<1>1. Types
  <2>1. DOMAIN store = {} /\ store \in [DOMAIN store -> Table]
    BY DEF Init
  <2>2. /\ 0 \in Inode /\ 1 \in Inode /\ next \in Nat /\ moves \in 0 .. MaxMoves
        /\ conn \in [Test -> [dir : Inode, main : Inode, comp : Inode, id : Nat]]
    BY MovedDbAssumption DEF Init, Inode, NothingHeld
  <2>. QED  BY <2>1, <2>2 DEF Init, Types, TypeOK, PC
<1>2. \A t \in Test : Thread(t)
  BY DEF Init, Thread, NothingHeld, Connected, HasCompanions, Using, Registered
<1>3. Files /\ TablesGrow /\ OneHasLost
  BY DEF Init, Files, Away, TablesGrow, OneHasLost
<1>. QED  BY <1>1, <1>2, <1>3 DEF IInv

-----------------------------------------------------------------------------
(* A thread goes on, or its trial ends.                                    *)

\* A check that finds nothing, a wait, a return: the thread keeps what it holds.
LEMMA ProceedIInv ==
  ASSUME IInv, NEW t \in Test, NEW l \in PC, Proceed(t, l),
         pc[t] \notin {"idle", "done", "deleted"}, l \notin {"idle", "done"},
         Connected(t)' <=> Connected(t), HasCompanions(t)' <=> HasCompanions(t),
         Registered(t)' <=> Registered(t),
         Initializing(t) => Initializing(t)' \/ ~HasSplit(t)
  PROVE  IInv'
<1>1. /\ pc' = [pc EXCEPT ![t] = l]
      /\ UNCHANGED <<fs, aside, moves, restored, next, store, conn, unwinding, outcome, overlapped, coInits>>
  BY DEF Proceed, Goto, env, history
<1>2. pc' \in [Test -> PC] /\ pc'[t] = l /\ \A u \in Test \ {t} : pc'[u] = pc[u]
  BY <1>1 DEF IInv, Types, TypeOK
<1>3. Types'
  BY <1>1, <1>2 DEF IInv, Types, TypeOK, Inode, Table
<1>4. \A u \in Test : Thread(u)'
  <2>1. \A u \in Test \ {t} : Thread(u)'
    BY <1>1, <1>2 DEF IInv, Thread, Connected, HasCompanions, Using, Registered, Key
  <2>2. Thread(t)'
    BY <1>1, <1>2 DEF IInv, Thread, Key
  <2>. QED  BY <2>1, <2>2
<1>5. Files'
  BY <1>1 DEF IInv, Files, Away
<1>6. TablesGrow'
  <2>1. \A u \in Test : HasCompanions(u)' => HasCompanions(u)
    BY <1>2 DEF HasCompanions, Using
  <2>. QED  BY <1>1, <2>1 DEF IInv, TablesGrow, InUse, Grown, Away, Key
<1>7. OneHasLost'
  <2>1. \A u \in Test : Lost(u) => Lost(u)'
    BY <1>1, <1>2 DEF Lost, Registered, HasMoved, MainMoved
  <2>2. \A u \in Test : LostLock(u) => LostLock(u)'
    BY <1>1, <1>2 DEF LostLock, Initializing, HasSplit
  <2>. QED  BY <1>1, <2>1, <2>2 DEF IInv, OneHasLost
<1>. QED  BY <1>3, <1>4, <1>5, <1>6, <1>7 DEF IInv

\* The trial ends.  The last connection's checkpoint leaves in the main file
\* what its table held.
LEMMA FinishIInv ==
  ASSUME IInv, NEW t \in Test, NEW result \in {"pass", "fail"}, Finish(t, result),
         pc[t] # "done", result = "pass" => pc[t] = "deleted" /\ ~HasMoved(t)
  PROVE  IInv'
<1> DEFINE last == /\ conn[t].comp # 0 /\ ~MainMoved(t)
                   /\ \A u \in Test \ {t} : Connected(u) => conn[u].main # conn[t].main
           m == conn[t].main
<1>1. /\ pc' = [pc EXCEPT ![t] = "done"] /\ outcome' = [outcome EXCEPT ![t] = result]
      /\ conn' = [conn EXCEPT ![t] = NothingHeld]
      /\ UNCHANGED <<aside, moves, restored, next, unwinding, overlapped, coInits>>
  BY DEF Finish, Goto, env, history
<1>2. /\ pc' \in [Test -> PC] /\ pc'[t] = "done" /\ \A u \in Test \ {t} : pc'[u] = pc[u]
      /\ outcome'[t] = result /\ \A u \in Test \ {t} : outcome'[u] = outcome[u]
      /\ outcome' \in [Test -> {"none", "pass", "fail"}]
      /\ conn'[t] = NothingHeld /\ \A u \in Test \ {t} : conn'[u] = conn[u]
      /\ conn' \in [Test -> [dir : Inode, main : Inode, comp : Inode, id : Nat]]
  BY <1>1 DEF IInv, Types, TypeOK, PC, NothingHeld, Inode
<1>3. CASE ~last
  <2>1. UNCHANGED <<fs, store>>
    BY <1>3 DEF Finish
  <2>2. Types'
    BY <1>1, <1>2, <2>1 DEF IInv, Types, TypeOK, Inode, Table
  <2>3. \A u \in Test : Thread(u)'
    BY <1>1, <1>2, <2>1 DEF IInv, Thread, Connected, HasCompanions, Using, Registered, Key, NothingHeld
  <2>4. Files'
    BY <1>1, <2>1 DEF IInv, Files, Away
  <2>5. TablesGrow'
    <3>1. ASSUME NEW k \in DOMAIN store, InUse(k)' PROVE InUse(k)
      BY <1>1, <1>2, <2>1, <3>1 DEF InUse, Away, Key, HasCompanions, Using
    <3>. QED  BY <2>1, <3>1 DEF IInv, TablesGrow, Grown
  <2>6. OneHasLost'
    <3>1. \A u \in Test : Lost(u) => Lost(u)'
      BY <1>1, <1>2, <2>1 DEF IInv, Thread, Lost, Registered, HasMoved, MainMoved
    <3>2. \A u \in Test : LostLock(u) => LostLock(u)'
      BY <1>1, <1>2, <2>1 DEF IInv, Thread, LostLock, Initializing, HasSplit
    <3>. QED  BY <1>1, <3>1, <3>2 DEF IInv, OneHasLost
  <2>. QED  BY <2>2, <2>3, <2>4, <2>5, <2>6 DEF IInv
<1>4. CASE last
  <2>1. /\ HasCompanions(t) /\ Key(t) \in DOMAIN store /\ Key(t) = <<m, conn[t].comp>>
        /\ m = fs.main /\ m # 0 /\ conn[t].comp # 0 /\ <<m, 0>> \in DOMAIN store
        /\ Grown(Key(t))
    BY <1>4 DEF IInv, Thread, Key, MainMoved, TablesGrow, InUse, Connected, HasCompanions
  <2>2. /\ fs' = [fs EXCEPT !.comp = 0]
        /\ store' = Put(<<m, 0>>, store[Key(t)])
    BY <1>4 DEF Finish
  <2>3. /\ fs'.dir = fs.dir /\ fs'.main = fs.main /\ fs'.comp = 0
        /\ fs' \in [dir : Inode, main : Inode, comp : Inode]
    BY <2>2 DEF IInv, Types, TypeOK, Inode
  <2>4. /\ DOMAIN store' = DOMAIN store
        /\ store'[<<m, 0>>] = store[Key(t)]
        /\ \A k \in DOMAIN store : k # <<m, 0>> => store'[k] = store[k]
        /\ store' \in [DOMAIN store' -> Table]
    BY <2>1, <2>2 DEF Put, IInv, Types
  <2>5. Types'
    <3>1. \A k \in DOMAIN store' : /\ store'[k].rows \subseteq [id : 1 .. store'[k].seq, test : Test]
                                   /\ store'[k].version \in {0, 1}
      BY <2>1, <2>4 DEF IInv, Types, TypeOK
    <3>. QED  BY <1>1, <1>2, <2>3, <2>4, <3>1 DEF IInv, Types, TypeOK, Inode
  <2>6. ASSUME NEW u \in Test PROVE Thread(u)'
    <3>1. CASE u = t
      BY <1>2, <3>1 DEF Thread, Connected, HasCompanions, Using, Registered, NothingHeld
    <3>2. CASE u # t /\ ~Connected(u)
      BY <1>2, <3>2, <2>4, ZenonT(60) DEF IInv, Thread, Connected, HasCompanions, Using, Registered, Key
    <3>3. CASE u # t /\ Connected(u)
      <4>1. conn[u].main # m /\ pc'[u] = pc[u] /\ conn'[u] = conn[u] /\ outcome'[u] = outcome[u]
        BY <1>2, <1>4, <3>3
      <4>2. <<conn[u].main, 0>> # <<m, 0>> /\ Key(u) # <<m, 0>>
        BY <4>1 DEF Key
      <4>. QED  BY <2>4, <4>1, <4>2 DEF IInv, Thread, Connected, HasCompanions, Using, Registered, Key
    <3>. QED  BY <3>1, <3>2, <3>3
  <2>7. Files'
    BY <1>1, <2>3, <2>4 DEF IInv, Files, Away
  <2>8. TablesGrow'
    <3> SUFFICES ASSUME NEW k \in DOMAIN store, k[2] # 0, InUse(k)' PROVE Grown(k)'
      BY <2>4 DEF TablesGrow
    <3>0. k = <<k[1], k[2]>>
      BY DEF IInv, Types, TypeOK
    <3>1. InUse(k) /\ k[1] # m
      <4>1. CASE \E u \in Test : (HasCompanions(u) /\ Key(u) = k)'
        BY <1>2, <1>4, <4>1 DEF HasCompanions, Using, Key, Connected, InUse
      <4>2. CASE Away' /\ k[2] = aside'.comp
        BY <1>1, <2>1, <2>3, <3>0, <4>2 DEF Away, InUse, IInv, Files
      <4>. QED  BY <2>3, <4>1, <4>2 DEF InUse
    <3>2. Grown(k) /\ <<k[1], 0>> # <<m, 0>> /\ k # <<m, 0>>
      BY <3>0, <3>1 DEF IInv, TablesGrow
    <3>. QED  BY <2>4, <3>2 DEF Grown
  <2>9. OneHasLost'
    <3>1. \A u \in Test : Lost(u) => Lost(u)'
      <4>1. \A u \in Test : Registered(u) \/ pc[u] = "deleted" => conn[u].comp # 0
        BY DEF IInv, Thread, HasCompanions, Registered, Using
      <4>. QED  BY <1>1, <1>2, <2>3, <4>1, ZenonT(60) DEF IInv, Thread, Lost, Registered, HasMoved, MainMoved
    <3>2. \A u \in Test : LostLock(u) => LostLock(u)'
      BY <1>1, <1>2, <2>3 DEF IInv, Thread, LostLock, Initializing, HasSplit
    <3>. QED  BY <1>1, <3>1, <3>2 DEF IInv, OneHasLost
  <2>. QED  BY <2>5, <2>6, <2>7, <2>8, <2>9 DEF IInv
<1>. QED  BY <1>3, <1>4

\* A thread opens the directory, or the main file, that the path names now.
LEMMA TakeIInv ==
  ASSUME IInv, NEW t \in Test, OpenLockTarget(t) \/ Connect(t),
         pc[t] = "idle" => fs.dir # 0, pc[t] = "connect" => fs.main # 0
  PROVE  IInv'
<1>1. PICK l \in {"flock", "record"}, d \in Inode, m \in Inode :
        /\ pc' = [pc EXCEPT ![t] = l]
        /\ conn' = [conn EXCEPT ![t] = [dir |-> d, main |-> m, comp |-> conn[t].comp, id |-> conn[t].id]]
        /\ d # 0 /\ (l = "record" => pc[t] = "connect" /\ d = conn[t].dir /\ m = fs.main /\ m # 0)
        /\ pc[t] \in {"idle", "connect"}
        /\ l = "flock" => pc[t] = "idle"
  <2>1. \A r \in [dir : Inode, main : Inode, comp : Inode, id : Nat] :
          /\ [r EXCEPT !.dir = fs.dir] = [dir |-> fs.dir, main |-> r.main, comp |-> r.comp, id |-> r.id]
          /\ [r EXCEPT !.main = fs.main] = [dir |-> r.dir, main |-> fs.main, comp |-> r.comp, id |-> r.id]
    OBVIOUS
  <2>2. /\ conn[t] \in [dir : Inode, main : Inode, comp : Inode, id : Nat]
        /\ conn[t].dir \in Inode /\ conn[t].main \in Inode /\ fs.dir \in Inode /\ fs.main \in Inode
    BY DEF IInv, Types, TypeOK
  <2>3. CASE OpenLockTarget(t)
    <3>1. pc[t] = "idle" /\ conn' = [conn EXCEPT ![t] = [conn[t] EXCEPT !.dir = fs.dir]] /\ pc' = [pc EXCEPT ![t] = "flock"]
      BY <2>3 DEF OpenLockTarget, Goto, IInv, Types, TypeOK
    <3>. QED  BY <2>1, <2>2, <3>1
  <2>4. CASE Connect(t)
    <3>1. pc[t] = "connect" /\ conn' = [conn EXCEPT ![t] = [conn[t] EXCEPT !.main = fs.main]] /\ pc' = [pc EXCEPT ![t] = "record"]
      BY <2>4 DEF Connect, Goto, IInv, Types, TypeOK
    <3>2. conn[t].dir # 0
      BY <3>1 DEF IInv, Thread
    <3>. QED  BY <2>1, <2>2, <3>1, <3>2
  <2>. QED  BY <2>3, <2>4
<1>2. UNCHANGED <<fs, aside, moves, restored, next, store, unwinding, outcome, overlapped, coInits>>
  BY <1>1 DEF OpenLockTarget, Connect, env, history
<1>3. /\ pc' \in [Test -> PC] /\ pc'[t] = l /\ \A u \in Test \ {t} : pc'[u] = pc[u] /\ conn'[u] = conn[u]
      /\ conn'[t].dir = d /\ conn'[t].main = m /\ conn'[t].comp = conn[t].comp
      /\ conn' \in [Test -> [dir : Inode, main : Inode, comp : Inode, id : Nat]]
  BY <1>1 DEF IInv, Types, TypeOK, PC
<1>4. ~HasCompanions(t) /\ ~HasCompanions(t)' /\ conn[t].comp = 0
  BY <1>1, <1>3 DEF HasCompanions, Using, IInv, Thread
<1>5. Types'
  BY <1>2, <1>3 DEF IInv, Types, TypeOK, Inode, Table
<1>6. \A u \in Test : Thread(u)'
  <2>1. ASSUME NEW u \in Test \ {t} PROVE Thread(u)'
    <3>1. pc'[u] = pc[u] /\ conn'[u] = conn[u] /\ Thread(u)
      BY <1>3 DEF IInv
    <3>. QED  BY <1>2, <3>1 DEF Thread, Connected, HasCompanions, Using, Registered, Key
  <2>2. Thread(t)'
    BY <1>1, <1>2, <1>3, <1>4 DEF IInv, Files, Thread, Connected, Using, Registered
  <2>. QED  BY <2>1, <2>2
<1>7. Files'
  BY <1>2 DEF IInv, Files, Away
<1>8. TablesGrow'
  <2>1. ASSUME NEW k \in DOMAIN store, InUse(k)' PROVE InUse(k)
    BY <1>2, <1>3, <1>4, <2>1 DEF InUse, Away, Key, HasCompanions, Using
  <2>. QED  BY <1>2, <2>1 DEF IInv, TablesGrow, Grown
<1>9. OneHasLost'
  <2>1. \A u \in Test : Lost(u) => Lost(u)'
    BY <1>1, <1>2, <1>3 DEF Lost, Registered, HasMoved, MainMoved
  <2>2. \A u \in Test : LostLock(u) => LostLock(u)'
    BY <1>1, <1>2, <1>3 DEF LostLock, Initializing, HasSplit
  <2>. QED  BY <1>2, <2>1, <2>2 DEF IInv, OneHasLost
<1>. QED  BY <1>5, <1>6, <1>7, <1>8, <1>9 DEF IInv

\* The locks of two threads inside are on different directories, of which the
\* path names one at most.
LEMMA FlockIInv ==
  ASSUME IInv, NEW t \in Test, Flock(t)
  PROVE  IInv'
<1>1. /\ pc[t] = "flock" /\ pc' = [pc EXCEPT ![t] = "connect"]
      /\ \A u \in Test : Initializing(u) => conn[u].dir # conn[t].dir
      /\ coInits' = coInits \cup {{t, u} : u \in {v \in Test \ {t} : Initializing(v)}}
      /\ UNCHANGED <<fs, aside, moves, restored, next, store, conn, unwinding, outcome, overlapped>>
  BY DEF Flock, Goto, env
<1>2. pc' \in [Test -> PC] /\ pc'[t] = "connect" /\ \A u \in Test \ {t} : pc'[u] = pc[u]
  BY <1>1 DEF IInv, Types, TypeOK, PC
<1>3. Types'
  <2>1. coInits' \subseteq SUBSET Test
    BY <1>1 DEF IInv, Types
  <2>. QED  BY <1>1, <1>2, <2>1 DEF IInv, Types, TypeOK, Inode, Table
<1>4. \A u \in Test : Thread(u)'
  BY <1>1, <1>2 DEF IInv, Thread, Connected, HasCompanions, Using, Registered, Key
<1>5. Files'
  BY <1>1 DEF IInv, Files, Away
<1>6. TablesGrow'
  <2>1. ASSUME NEW k \in DOMAIN store, InUse(k)' PROVE InUse(k)
    BY <1>1, <1>2, <2>1 DEF InUse, Away, Key, HasCompanions, Using
  <2>. QED  BY <1>1, <2>1 DEF IInv, TablesGrow, Grown
<1>7. OneHasLost'
  <2>1. \A u \in Test : Lost(u) => Lost(u)'
    BY <1>1, <1>2 DEF Lost, Registered, HasMoved, MainMoved
  <2>2. \A u \in Test : LostLock(u) => LostLock(u)'
    BY <1>1, <1>2 DEF LostLock, Initializing, HasSplit
  <2>3. ASSUME NEW u \in Test \ {t}, Initializing(u) PROVE LostLock(u)' \/ LostLock(t)'
    BY <1>1, <1>2, <2>3 DEF LostLock, Initializing, HasSplit
  <2>4. ASSUME NEW u \in Test, NEW v \in Test, u # v, {u, v} \in coInits', ~restored
        PROVE  LostLock(u)' \/ LostLock(v)'
    <3>1. CASE {u, v} \in coInits
      BY <2>2, <2>4, <3>1 DEF IInv, OneHasLost
    <3>2. CASE {u, v} \notin coInits
      <4>1. PICK w \in Test \ {t} : Initializing(w) /\ {u, v} = {t, w}
        BY <1>1, <2>4, <3>2
      <4>2. (u = t /\ v = w) \/ (u = w /\ v = t)
        BY <2>4, <4>1
      <4>. QED  BY <2>3, <4>1, <4>2
    <3>. QED  BY <3>1, <3>2
  <2>. QED  BY <1>1, <2>1, <2>4 DEF IInv, OneHasLost
<1>. QED  BY <1>3, <1>4, <1>5, <1>6, <1>7 DEF IInv

\* A panic after COMMIT unwinds with everything the thread holds.
LEMMA UnwindIInv ==
  ASSUME IInv, NEW t \in Test, CheckAfterCommit(t), HasMoved(t)
  PROVE  IInv'
<1>1. /\ pc[t] = "committed" /\ pc' = [pc EXCEPT ![t] = "drop"]
      /\ unwinding' = [unwinding EXCEPT ![t] = TRUE]
      /\ UNCHANGED <<fs, aside, moves, restored, next, store, conn, outcome, overlapped, coInits>>
  BY DEF CheckAfterCommit, Goto, env, history
<1>2. /\ pc' \in [Test -> PC] /\ pc'[t] = "drop" /\ \A u \in Test \ {t} : pc'[u] = pc[u]
      /\ unwinding' \in [Test -> BOOLEAN]
  BY <1>1 DEF IInv, Types, TypeOK, PC
<1>3. Types'
  BY <1>1, <1>2 DEF IInv, Types, TypeOK, Inode, Table
<1>4. \A u \in Test : Thread(u)'
  BY <1>1, <1>2 DEF IInv, Thread, Connected, HasCompanions, Using, Registered, Key
<1>5. Files'
  BY <1>1 DEF IInv, Files, Away
<1>6. TablesGrow'
  <2>1. ASSUME NEW k \in DOMAIN store, InUse(k)' PROVE InUse(k)
    BY <1>1, <1>2, <2>1 DEF InUse, Away, Key, HasCompanions, Using
  <2>. QED  BY <1>1, <2>1 DEF IInv, TablesGrow, Grown
<1>7. OneHasLost'
  <2>1. \A u \in Test : Lost(u) => Lost(u)'
    BY <1>1, <1>2 DEF Lost, Registered, HasMoved, MainMoved
  <2>2. \A u \in Test : LostLock(u) => LostLock(u)'
    BY <1>1, <1>2 DEF LostLock, Initializing, HasSplit
  <2>. QED  BY <1>1, <2>1, <2>2 DEF IInv, OneHasLost
<1>. QED  BY <1>3, <1>4, <1>5, <1>6, <1>7 DEF IInv

-----------------------------------------------------------------------------
(* The tables change.                                                      *)

\* Another file appears at the path, with a number nobody has seen.
LEMMA PublishIInv ==
  ASSUME IInv, NEW t \in Test, EnsurePublished(t), fs.main = 0, fs.dir # 0
  PROVE  IInv'
<1>1. /\ pc[t] = "publish" /\ pc' = [pc EXCEPT ![t] = "connect"]
      /\ fs' = [fs EXCEPT !.main = next] /\ next' = next + 1
      /\ store' = Put(<<next, 0>>, EmptyTable)
      /\ UNCHANGED <<aside, moves, restored, conn, unwinding, outcome, overlapped, coInits>>
  BY DEF EnsurePublished, Goto, env, history
<1>2. /\ pc' \in [Test -> PC] /\ pc'[t] = "connect" /\ \A u \in Test \ {t} : pc'[u] = pc[u]
      /\ next \in Nat /\ next # 0 /\ Inode \subseteq Inode' /\ next \in Inode' /\ 0 \in Inode' /\ next \notin Inode
  BY <1>1 DEF IInv, Types, TypeOK, PC, Inode
<1>3. /\ fs' = [dir |-> fs.dir, main |-> next, comp |-> fs.comp]
      /\ fs.dir \in Inode /\ fs.comp \in Inode /\ aside.main \in Inode /\ aside.dir \in Inode /\ aside.comp \in Inode
  BY <1>1 DEF IInv, Types, TypeOK
<1>4. \A k \in DOMAIN store : k \in Inode \X Inode /\ k = <<k[1], k[2]>> /\ k[1] # next /\ k[2] # next
  BY <1>2 DEF IInv, Types, TypeOK
<1>5. /\ DOMAIN store' = DOMAIN store \cup {<<next, 0>>}
      /\ store'[<<next, 0>>] = EmptyTable
      /\ \A k \in DOMAIN store : store'[k] = store[k]
      /\ store' \in [DOMAIN store' -> Table]
  <2>1. EmptyTable \in Table /\ <<next, 0>> \notin DOMAIN store
    BY <1>4 DEF EmptyTable, Table
  <2>. QED  BY <1>1, <2>1 DEF Put, IInv, Types
<1>6. Types'
  <2>1. /\ fs' \in [dir : Inode', main : Inode', comp : Inode'] /\ aside' \in [dir : Inode', main : Inode', comp : Inode']
        /\ conn' \in [Test -> [dir : Inode', main : Inode', comp : Inode', id : Nat]] /\ next' \in Nat
    BY <1>1, <1>2, <1>3, SMTT(40) DEF IInv, Types, TypeOK
  <2>2. DOMAIN store' \subseteq Inode' \X Inode'
    BY <1>2, <1>4, <1>5
  <2>3. \A k \in DOMAIN store' : /\ store'[k].rows \subseteq [id : 1 .. store'[k].seq, test : Test]
                                 /\ store'[k].version \in {0, 1}
    <3>1. EmptyTable.rows = {} /\ EmptyTable.version = 0
      BY DEF EmptyTable
    <3>. QED  BY <1>5, <3>1 DEF IInv, Types, TypeOK
  <2>. QED  BY <1>1, <1>2, <1>5, <2>1, <2>2, <2>3 DEF IInv, Types, TypeOK
<1>7. \A u \in Test : Thread(u)'
  BY <1>1, <1>2, <1>5 DEF IInv, Thread, Connected, HasCompanions, Using, Registered, Key
<1>8. fs'.dir = fs.dir /\ fs'.main = next /\ fs'.comp = fs.comp
  BY <1>3
<1>9. Files'
  BY <1>1, <1>2, <1>3, <1>4, <1>5, <1>8 DEF IInv, Files, Away
<1>10. TablesGrow'
  <2>1. ASSUME NEW k \in DOMAIN store, InUse(k)' PROVE InUse(k)
    BY <1>1, <1>2, <1>8, <2>1 DEF InUse, Away, Key, HasCompanions, Using
  <2>. QED  BY <1>5, <2>1 DEF IInv, TablesGrow, Grown
<1>11. OneHasLost'
  <2>1. \A u \in Test : conn[u].main # next
    BY <1>2 DEF IInv, Types, TypeOK
  <2>2. \A u \in Test : Lost(u) => Lost(u)'
    BY <1>1, <1>2, <1>8, <2>1 DEF Lost, Registered, HasMoved, MainMoved
  <2>3. \A u \in Test : LostLock(u) => LostLock(u)'
    BY <1>1, <1>2, <1>8 DEF LostLock, Initializing, HasSplit
  <2>. QED  BY <1>1, <2>2, <2>3 DEF IInv, OneHasLost
<1>. QED  BY <1>6, <1>7, <1>9, <1>10, <1>11 DEF IInv

\* A connection gets the companions the path names, or new ones; a new table
\* starts as a copy of one that has all the main file has.
LEMMA InitSqlIInv ==
  ASSUME IInv, NEW t \in Test, InitSql(t), fs.dir # 0
  PROVE  IInv'
<1>0. PICK m, c : m = conn[t].main /\ c = IF fs.comp = 0 THEN next ELSE fs.comp
  OBVIOUS
<1> DEFINE k == <<m, c>>
<1>1. /\ pc[t] = "init" /\ pc' = [pc EXCEPT ![t] = "postinit"]
      /\ fs' = [fs EXCEPT !.comp = c]
      /\ next' = IF fs.comp = 0 THEN next + 1 ELSE next
      /\ conn' = [conn EXCEPT ![t].comp = c]
      /\ UNCHANGED <<aside, moves, restored, unwinding, outcome, overlapped, coInits>>
      /\ IF k \in DOMAIN store THEN UNCHANGED store
         ELSE \E j \in {<<m, 0>>} \cup OpenTables(m) : store' = Put(k, store[j])
  BY <1>0 DEF InitSql, Goto, env, history
<1>2. /\ next \in Nat /\ next # 0 /\ next \notin Inode /\ Inode \subseteq Inode' /\ c \in Inode' /\ c # 0
      /\ next' \in Nat /\ \A i \in Inode : i = c => i = fs.comp
  BY <1>0, <1>1 DEF IInv, Types, TypeOK, Inode
<1>3. /\ fs' = [dir |-> fs.dir, main |-> fs.main, comp |-> c]
      /\ fs.dir \in Inode /\ fs.main \in Inode /\ fs.comp \in Inode
      /\ aside.main \in Inode /\ aside.dir \in Inode /\ aside.comp \in Inode
  BY <1>1 DEF IInv, Types, TypeOK
<1>4. fs'.dir = fs.dir /\ fs'.main = fs.main /\ fs'.comp = c
  BY <1>3
<1>5. conn' = [conn EXCEPT ![t] = [dir |-> conn[t].dir, main |-> m, comp |-> c, id |-> conn[t].id]]
  <2>1. conn[t] \in [dir : Inode, main : Inode, comp : Inode, id : Nat]
    BY DEF IInv, Types, TypeOK
  <2>2. [conn[t] EXCEPT !.comp = c] = [dir |-> conn[t].dir, main |-> m, comp |-> c, id |-> conn[t].id]
    BY <1>0, <2>1
  <2>3. conn' = [conn EXCEPT ![t] = [conn[t] EXCEPT !.comp = c]]
    BY <1>1
  <2>. QED  BY <2>2, <2>3
<1>6. /\ pc' \in [Test -> PC] /\ pc'[t] = "postinit"
      /\ \A u \in Test \ {t} : pc'[u] = pc[u] /\ conn'[u] = conn[u]
      /\ conn'[t].dir = conn[t].dir /\ conn'[t].main = m /\ conn'[t].comp = c
      /\ \A u \in Test : conn[u] \in [dir : Inode, main : Inode, comp : Inode, id : Nat]
      /\ conn' \in [Test -> [dir : Inode', main : Inode', comp : Inode', id : Nat]]
  <2>1. \A u \in Test : conn[u] \in [dir : Inode, main : Inode, comp : Inode, id : Nat]
    BY DEF IInv, Types, TypeOK
  <2>2. [dir |-> conn[t].dir, main |-> m, comp |-> c, id |-> conn[t].id] \in [dir : Inode', main : Inode', comp : Inode', id : Nat]
    BY <1>0, <1>2, <2>1
  <2>. QED  BY <1>1, <1>2, <1>5, <2>1, <2>2 DEF IInv, Types, TypeOK, PC
<1>7. m # 0 /\ <<m, 0>> \in DOMAIN store /\ Key(t)' = k /\ m \in Inode
  <2>1. Connected(t) /\ Thread(t) /\ conn[t].main \in Inode
    BY <1>1, <1>6 DEF IInv, Connected
  <2>. QED  BY <1>0, <1>6, <2>1 DEF Thread, Key
<1>8. \A i \in DOMAIN store : i \in Inode \X Inode /\ i = <<i[1], i[2]>> /\ i[1] \in Inode /\ i[2] \in Inode
  BY DEF IInv, Types, TypeOK
<1>9. /\ DOMAIN store' = DOMAIN store \cup {k}
      /\ \A i \in DOMAIN store : store'[i] = store[i]
      /\ store' \in [DOMAIN store' -> Table]
      /\ store[<<m, 0>>].rows \subseteq store'[k].rows /\ store[<<m, 0>>].seq <= store'[k].seq
      /\ store'[k].rows \subseteq [id : 1 .. store'[k].seq, test : Test] /\ store'[k].version \in {0, 1}
  <2>1. CASE k \in DOMAIN store
    <3>1. c = fs.comp
      BY <1>2, <1>8, <2>1
    <3>2. Grown(k)
      BY <1>2, <2>1, <3>1 DEF IInv, TablesGrow, InUse
    <3>3. store[<<m, 0>>].rows \subseteq store[k].rows /\ store[<<m, 0>>].seq <= store[k].seq
      BY <3>2 DEF Grown
    <3>4. UNCHANGED store
      BY <1>1, <2>1
    <3> HIDE DEF k
    <3>5. DOMAIN store' = DOMAIN store /\ DOMAIN store = DOMAIN store \cup {k} /\ store' \in [DOMAIN store' -> Table]
      BY <2>1, <3>4 DEF IInv, Types
    <3>6. store[k].rows \subseteq [id : 1 .. store[k].seq, test : Test] /\ store[k].version \in {0, 1}
      BY <2>1 DEF IInv, Types, TypeOK
    <3>. QED  BY <3>3, <3>4, <3>5, <3>6
  <2>2. CASE k \notin DOMAIN store
    <3>1. PICK j \in {<<m, 0>>} \cup OpenTables(m) : store' = Put(k, store[j])
      BY <1>1, <2>2
    <3>2. j \in DOMAIN store /\ store[<<m, 0>>].rows \subseteq store[j].rows /\ store[<<m, 0>>].seq <= store[j].seq
      <4>1. CASE j = <<m, 0>>
        BY <1>7, <4>1 DEF IInv, Types, Table
      <4>2. CASE j \in OpenTables(m)
        <5>1. PICK v \in Test : Connected(v) /\ conn[v].main = m /\ conn[v].comp # 0 /\ j = Key(v)
          BY <4>2 DEF OpenTables
        <5>2. HasCompanions(v) /\ j \in DOMAIN store /\ j[1] = m /\ j[2] # 0
          BY <5>1 DEF IInv, Thread, Key
        <5>. QED  BY <5>1, <5>2 DEF IInv, TablesGrow, InUse, Grown
      <4>. QED  BY <4>1, <4>2
    <3> HIDE DEF k
    <3>3. store[j] \in Table /\ store[j].rows \subseteq [id : 1 .. store[j].seq, test : Test] /\ store[j].version \in {0, 1}
      BY <3>2 DEF IInv, Types, TypeOK
    <3>. QED  BY <2>2, <3>1, <3>2, <3>3 DEF Put, IInv, Types
  <2>. QED  BY <2>1, <2>2
<1>10. Types'
  <2>1. fs' \in [dir : Inode', main : Inode', comp : Inode'] /\ aside' \in [dir : Inode', main : Inode', comp : Inode']
    BY <1>1, <1>2, <1>3 DEF IInv, Types, TypeOK
  <2>2. DOMAIN store' \subseteq Inode' \X Inode'
    BY <1>2, <1>7, <1>8, <1>9
  <2>3. \A i \in DOMAIN store' : /\ store'[i].rows \subseteq [id : 1 .. store'[i].seq, test : Test]
                                 /\ store'[i].version \in {0, 1}
    BY <1>9 DEF IInv, Types, TypeOK
  <2>. QED  BY <1>1, <1>2, <1>6, <1>9, <2>1, <2>2, <2>3 DEF IInv, Types, TypeOK
<1>11. \A u \in Test : Thread(u)'
  <2>1. ASSUME NEW u \in Test \ {t} PROVE Thread(u)'
    <3>1. pc'[u] = pc[u] /\ conn'[u] = conn[u] /\ outcome'[u] = outcome[u] /\ Thread(u)
      BY <1>1, <1>6 DEF IInv
    <3>2. Registered(u) => HasCompanions(u) /\ Connected(u)
      BY DEF Registered, HasCompanions, Using, Connected
    <3>. QED  BY <1>9, <3>1, <3>2 DEF Thread, Connected, HasCompanions, Using, Registered, Key
  <2>2. Thread(t)'
    BY <1>1, <1>2, <1>6, <1>7, <1>9, ZenonT(40) DEF IInv, Thread, Connected, HasCompanions, Using, Registered
  <2>. QED  BY <2>1, <2>2
<1>12. Files'
  <2>1. Away => c # aside.comp \/ aside.comp = 0
    BY <1>2, <1>3 DEF IInv, Files
  <2>. QED  BY <1>1, <1>3, <1>4, <1>9, <2>1 DEF IInv, Files, Away
<1>13. TablesGrow'
  <2>1. ASSUME NEW i \in DOMAIN store, i # k, i[2] # 0, InUse(i)' PROVE Grown(i)
    <3>1. i[2] = c => i[2] = fs.comp
      BY <1>2, <1>8
    <3>2. InUse(i)
      BY <1>1, <1>4, <1>6, <1>7, <2>1, <3>1 DEF InUse, Away, Key, HasCompanions, Using
    <3>. QED  BY <2>1, <3>2 DEF IInv, TablesGrow
  <2>2. Grown(k)'
    <3>1. <<k[1], 0>> = <<m, 0>>
      OBVIOUS
    <3>2. store'[<<m, 0>>] = store[<<m, 0>>] /\ <<m, 0>> \in DOMAIN store'
      BY <1>7, <1>9
    <3>. QED  BY <1>9, <3>1, <3>2 DEF Grown
  <2>3. ASSUME NEW i \in DOMAIN store, Grown(i) PROVE Grown(i)'
    BY <1>9, <2>3 DEF Grown
  <2> HIDE DEF k
  <2>. QED  BY <1>9, <2>1, <2>2, <2>3 DEF TablesGrow
<1>14. OneHasLost'
  <2>1. \A u \in Test : conn[u].comp = c => c = fs.comp
    BY <1>2, <1>6
  <2>2. \A u \in Test : Lost(u) => Lost(u)'
    BY <1>1, <1>4, <1>6, <2>1 DEF Lost, Registered, HasMoved, MainMoved
  <2>3. \A u \in Test : LostLock(u) => LostLock(u)'
    BY <1>1, <1>4, <1>6 DEF LostLock, Initializing, HasSplit
  <2>. QED  BY <1>1, <2>2, <2>3 DEF IInv, OneHasLost
<1>. QED  BY <1>10, <1>11, <1>12, <1>13, <1>14 DEF IInv

\* migrate_schema changes a table's version and nothing else of it.
LEMMA MigrateIInv ==
  ASSUME IInv, NEW t \in Test, MigrateSchema(t), ~(store[Key(t)].version >= 1), ~MainMoved(t)
  PROVE  IInv'
<1> DEFINE K == Key(t)
<1>1. /\ pc[t] = "migrate" /\ pc' = [pc EXCEPT ![t] = "migrated"]
      /\ store' = [store EXCEPT ![K].version = 1]
      /\ UNCHANGED <<fs, aside, moves, restored, next, conn, unwinding, outcome, overlapped, coInits>>
  BY DEF MigrateSchema, Goto, env, history
<1>2. pc' \in [Test -> PC] /\ pc'[t] = "migrated" /\ \A u \in Test \ {t} : pc'[u] = pc[u]
  BY <1>1 DEF IInv, Types, TypeOK, PC
<1>3. K \in DOMAIN store
  BY <1>1 DEF IInv, Thread, HasCompanions
<1> HIDE DEF K
<1>4. store' = [store EXCEPT ![K] = [rows |-> store[K].rows, seq |-> store[K].seq, version |-> 1]]
  <2>1. store[K] \in Table
    BY <1>3 DEF IInv, Types
  <2>2. [store[K] EXCEPT !.version = 1] = [rows |-> store[K].rows, seq |-> store[K].seq, version |-> 1]
    BY <2>1 DEF Table
  <2>3. store' = [store EXCEPT ![K] = [store[K] EXCEPT !.version = 1]]
    BY <1>1
  <2>. QED  BY <2>2, <2>3
<1>5. /\ DOMAIN store' = DOMAIN store /\ store' \in [DOMAIN store' -> Table]
      /\ \A k \in DOMAIN store : store'[k].rows = store[k].rows /\ store'[k].seq = store[k].seq /\ store'[k].version \in {0, 1}
  BY <1>3, <1>4 DEF IInv, Types, Table
<1>6. Types'
  BY <1>1, <1>2, <1>5 DEF IInv, Types, TypeOK, Inode
<1>7. ASSUME NEW u \in Test PROVE Thread(u)'
  <2>1. Thread(u) /\ (Registered(u) => HasCompanions(u) /\ Connected(u)) /\ Key(u)' = Key(u)
    BY <1>1 DEF IInv, Registered, HasCompanions, Using, Connected, Key
  <2>2. /\ Connected(u)' <=> Connected(u)
        /\ HasCompanions(u)' <=> HasCompanions(u)
        /\ Registered(u)' <=> Registered(u)
        /\ u = t => ~Registered(u)
    BY <1>1, <1>2 DEF Connected, HasCompanions, Using, Registered
  <2>. QED  BY <1>1, <1>2, <1>5, <2>1, <2>2 DEF Thread
<1>8. Files'
  BY <1>1, <1>5 DEF IInv, Files, Away
<1>9. TablesGrow'
  <2>1. ASSUME NEW k \in DOMAIN store, InUse(k)' PROVE InUse(k)
    BY <1>1, <1>2, <2>1 DEF InUse, Away, Key, HasCompanions, Using
  <2>. QED  BY <1>5, <2>1 DEF IInv, TablesGrow, Grown
<1>10. OneHasLost'
  <2>1. \A u \in Test : Lost(u) => Lost(u)'
    BY <1>1, <1>2 DEF Lost, Registered, HasMoved, MainMoved
  <2>2. \A u \in Test : LostLock(u) => LostLock(u)'
    BY <1>1, <1>2 DEF LostLock, Initializing, HasSplit
  <2>. QED  BY <1>1, <2>1, <2>2 DEF IInv, OneHasLost
<1>. QED  BY <1>6, <1>7, <1>8, <1>9, <1>10 DEF IInv

\* What a registered thread holds.
LEMMA RegisteredHolds ==
  ASSUME IInv, NEW u \in Test, Registered(u)
  PROVE  /\ HasCompanions(u) /\ Key(u) \in DOMAIN store /\ Key(u) = <<conn[u].main, conn[u].comp>>
         /\ <<conn[u].main, 0>> \in DOMAIN store /\ conn[u].comp # 0 /\ conn[u].main # 0
         /\ [id |-> conn[u].id, test |-> u] \in store[Key(u)].rows
         /\ \A r \in store[Key(u)].rows : r.id = conn[u].id => r.test = u
         /\ conn[u].id \in Nat /\ conn[u].id <= store[Key(u)].seq
         /\ conn[u].id > store[<<conn[u].main, 0>>].seq
<1>1. HasCompanions(u) /\ Connected(u)
  BY DEF Registered, HasCompanions, Using, Connected
<1>2. /\ Key(u) \in DOMAIN store /\ Key(u) = <<conn[u].main, conn[u].comp>>
      /\ <<conn[u].main, 0>> \in DOMAIN store /\ conn[u].comp # 0 /\ conn[u].main # 0
      /\ [id |-> conn[u].id, test |-> u] \in store[Key(u)].rows
      /\ \A r \in store[Key(u)].rows : r.id = conn[u].id => r.test = u
      /\ conn[u].id > store[<<conn[u].main, 0>>].seq
  BY <1>1 DEF IInv, Thread, Key
<1>3. store[Key(u)].rows \subseteq [id : 1 .. store[Key(u)].seq, test : Test] /\ store[Key(u)].seq \in Nat
  BY <1>2 DEF IInv, Types, TypeOK, Table
<1>4. [id |-> conn[u].id, test |-> u] \in [id : 1 .. store[Key(u)].seq, test : Test]
  BY <1>2, <1>3
<1>. QED  BY <1>1, <1>2, <1>3, <1>4

\* A test registers: with an id its table has not had, and beside nobody of
\* its own table that it conflicts with.
LEMMA TransactionIInv ==
  ASSUME IInv, NEW t \in Test, Transaction(t), MayStart(t)
  PROVE  IInv'
<1>0. PICK K, id, row : K = Key(t) /\ id = store[K].seq + 1 /\ row = [id |-> id, test |-> t]
  OBVIOUS
<1>1. /\ pc[t] = "txn" /\ pc' = [pc EXCEPT ![t] = "committed"]
      /\ store' = [store EXCEPT ![K].seq = id, ![K].rows = @ \cup {row}]
      /\ conn' = [conn EXCEPT ![t].id = id]
      /\ overlapped' = overlapped \cup {{t, u} : u \in {v \in Test : Registered(v) /\ {t, v} \in Clash}}
      /\ UNCHANGED <<fs, aside, moves, restored, next, unwinding, outcome, coInits>>
  BY <1>0 DEF Transaction, Goto, env
<1>2. /\ HasCompanions(t) /\ Connected(t) /\ ~Registered(t) /\ pc[t] # "deleted" /\ K \in DOMAIN store
      /\ K = <<conn[t].main, conn[t].comp>> /\ <<conn[t].main, 0>> \in DOMAIN store /\ conn[t].comp # 0
  <2>1. HasCompanions(t) /\ Connected(t) /\ ~Registered(t)
    BY <1>1 DEF HasCompanions, Connected, Using, Registered
  <2>. QED  BY <1>0, <1>1, <2>1 DEF IInv, Thread, Key
<1>3. store[K] \in Table /\ store[K].seq \in Nat /\ id \in Nat /\ store[K].rows \subseteq [id : 1 .. store[K].seq, test : Test]
  <2>1. store[K] \in Table /\ store[K].rows \subseteq [id : 1 .. store[K].seq, test : Test]
    BY <1>2 DEF IInv, Types, TypeOK
  <2>. QED  BY <1>0, <2>1 DEF Table
<1>4. Grown(K) /\ K[1] = conn[t].main /\ store[<<conn[t].main, 0>>].seq <= store[K].seq
  <2>1. InUse(K) /\ K[1] = conn[t].main /\ K[2] # 0
    <3>1. InUse(K)
      BY <1>0, <1>2 DEF InUse
    <3>. QED  BY <1>2, <3>1
  <2>2. Grown(K)
    BY <1>2, <2>1 DEF IInv, TablesGrow
  <2>. QED  BY <2>1, <2>2 DEF Grown
<1>5. store' = [store EXCEPT ![K] = [rows |-> store[K].rows \cup {row}, seq |-> id, version |-> store[K].version]]
  <2>1. [[store[K] EXCEPT !.seq = id] EXCEPT !.rows = @ \cup {row}]
          = [rows |-> store[K].rows \cup {row}, seq |-> id, version |-> store[K].version]
    <3>1. [store[K] EXCEPT !.seq = id] = [rows |-> store[K].rows, seq |-> id, version |-> store[K].version]
      BY <1>3 DEF Table
    <3>2. [store[K] EXCEPT !.seq = id] \in Table
      BY <1>3, <3>1 DEF Table
    <3>3. \A R \in Table : [R EXCEPT !.rows = @ \cup {row}] = [rows |-> R.rows \cup {row}, seq |-> R.seq, version |-> R.version]
      BY DEF Table
    <3>4. PICK R \in Table : R = [store[K] EXCEPT !.seq = id]
      BY <3>2
    <3>5. [R EXCEPT !.rows = @ \cup {row}] = [rows |-> store[K].rows \cup {row}, seq |-> id, version |-> store[K].version]
      BY <3>1, <3>3, <3>4
    <3>. QED  BY <3>4, <3>5, Zenon
  <2>2. store' = [store EXCEPT ![K] = [[store[K] EXCEPT !.seq = id] EXCEPT !.rows = @ \cup {row}]]
    <3>1. [store EXCEPT ![K].seq = id] = [store EXCEPT ![K] = [store[K] EXCEPT !.seq = id]]
      OBVIOUS
    <3>. QED  BY <1>1, <1>2, <3>1 DEF IInv, Types
  <2>. QED  BY <2>1, <2>2
<1>6. /\ DOMAIN store' = DOMAIN store /\ store' \in [DOMAIN store' -> Table]
      /\ store'[K].rows = store[K].rows \cup {row} /\ store'[K].seq = id /\ store'[K].version = store[K].version
      /\ \A k \in DOMAIN store : k # K => store'[k] = store[k]
  <2>1. row \in [id : Nat, test : Test]
    BY <1>0, <1>3
  <2>2. [rows |-> store[K].rows \cup {row}, seq |-> id, version |-> store[K].version] \in Table
    BY <1>3, <2>1 DEF Table
  <2>. QED  BY <1>2, <1>5, <2>2 DEF IInv, Types
<1>7. conn' = [conn EXCEPT ![t] = [dir |-> conn[t].dir, main |-> conn[t].main, comp |-> conn[t].comp, id |-> id]]
  <2>1. conn[t] \in [dir : Inode, main : Inode, comp : Inode, id : Nat]
    BY DEF IInv, Types, TypeOK
  <2>2. [conn[t] EXCEPT !.id = id] = [dir |-> conn[t].dir, main |-> conn[t].main, comp |-> conn[t].comp, id |-> id]
    BY <2>1
  <2>3. conn' = [conn EXCEPT ![t] = [conn[t] EXCEPT !.id = id]]
    BY <1>1
  <2>. QED  BY <2>2, <2>3
<1>8. /\ pc' \in [Test -> PC] /\ pc'[t] = "committed"
      /\ \A u \in Test \ {t} : pc'[u] = pc[u] /\ conn'[u] = conn[u]
      /\ conn'[t].dir = conn[t].dir /\ conn'[t].main = conn[t].main /\ conn'[t].comp = conn[t].comp /\ conn'[t].id = id
      /\ conn' \in [Test -> [dir : Inode, main : Inode, comp : Inode, id : Nat]]
  <2>1. [dir |-> conn[t].dir, main |-> conn[t].main, comp |-> conn[t].comp, id |-> id]
          \in [dir : Inode, main : Inode, comp : Inode, id : Nat]
    BY <1>3 DEF IInv, Types, TypeOK
  <2>. QED  BY <1>1, <1>7, <2>1 DEF IInv, Types, TypeOK, PC
<1>9. \A u \in Test : Key(u)' = Key(u)
  BY <1>8 DEF Key
<1>10. Types'
  <2>1. \A k \in DOMAIN store' : /\ store'[k].rows \subseteq [id : 1 .. store'[k].seq, test : Test]
                                 /\ store'[k].version \in {0, 1}
    <3>1. row \in [id : 1 .. id, test : Test] /\ [id : 1 .. store[K].seq, test : Test] \subseteq [id : 1 .. id, test : Test]
      BY <1>0, <1>3
    <3>2. store'[K].rows \subseteq [id : 1 .. id, test : Test] /\ store'[K].version \in {0, 1}
      BY <1>3, <1>6, <3>1 DEF Table
    <3>. QED  BY <1>6, <3>2 DEF IInv, Types, TypeOK
  <2>2. overlapped' \subseteq SUBSET Test
    <3>1. ASSUME NEW X \in overlapped', X \notin overlapped PROVE X \in SUBSET Test
      <4>1. PICK u \in Test : X = {t, u}
        BY <1>1, <3>1
      <4>. QED  BY <4>1
    <3>. QED  BY <3>1 DEF IInv, Types
  <2>. QED  BY <1>1, <1>6, <1>8, <2>1, <2>2 DEF IInv, Types, TypeOK, Inode
<1>11. \A u \in Test : Thread(u)'
  <2>1. ASSUME NEW u \in Test \ {t}, Registered(u)
        PROVE  /\ [id |-> conn[u].id, test |-> u] \in store'[Key(u)].rows
               /\ \A r \in store'[Key(u)].rows : r.id = conn[u].id => r.test = u
               /\ conn[u].id > store'[<<conn[u].main, 0>>].seq
    <3>1. /\ Key(u) \in DOMAIN store /\ <<conn[u].main, 0>> \in DOMAIN store
          /\ [id |-> conn[u].id, test |-> u] \in store[Key(u)].rows
          /\ \A r \in store[Key(u)].rows : r.id = conn[u].id => r.test = u
          /\ conn[u].id \in Nat /\ conn[u].id <= store[Key(u)].seq
          /\ conn[u].id > store[<<conn[u].main, 0>>].seq
      BY <2>1, RegisteredHolds
    <3>2. store'[<<conn[u].main, 0>>] = store[<<conn[u].main, 0>>]
      BY <1>2, <1>6, <3>1
    <3>3. CASE Key(u) # K
      BY <1>6, <3>1, <3>2, <3>3
    <3>4. CASE Key(u) = K
      <4>1. row.id # conn[u].id
        BY <1>0, <1>3, <3>1, <3>4
      <4>. QED  BY <1>6, <3>1, <3>2, <3>4, <4>1
    <3>. QED  BY <3>3, <3>4
  <2>2. ASSUME NEW u \in Test \ {t} PROVE Thread(u)'
    <3>1. pc'[u] = pc[u] /\ conn'[u] = conn[u] /\ outcome'[u] = outcome[u] /\ Thread(u)
      BY <1>1, <1>8 DEF IInv
    <3>. QED  BY <1>6, <1>9, <2>1, <3>1 DEF Thread, Connected, HasCompanions, Using, Registered
  <2>3. Thread(t)'
    <3>1. row \in store'[K].rows /\ row = [id |-> conn'[t].id, test |-> t]
      BY <1>0, <1>6, <1>8
    <3>2. \A r \in store'[K].rows : r.id = id => r.test = t
      BY <1>0, <1>3, <1>6
    <3>3. id > store'[<<conn[t].main, 0>>].seq
      <4>1. store'[<<conn[t].main, 0>>] = store[<<conn[t].main, 0>>]
        BY <1>2, <1>6
      <4>2. store[<<conn[t].main, 0>>].seq \in Nat
        BY <1>2 DEF IInv, Types, Table
      <4>. QED  BY <1>0, <1>3, <1>4, <4>1, <4>2
    <3>4. Thread(t) /\ Key(t)' = K /\ Connected(t)' /\ HasCompanions(t)'
      BY <1>0, <1>8, <1>9 DEF IInv, Connected, HasCompanions, Using
    <3>. QED  BY <1>1, <1>2, <1>6, <1>8, <3>1, <3>2, <3>3, <3>4 DEF Thread
  <2>. QED  BY <2>2, <2>3
<1>12. Files'
  BY <1>1, <1>6 DEF IInv, Files, Away
<1>13. TablesGrow'
  <2>1. ASSUME NEW k \in DOMAIN store, InUse(k)' PROVE InUse(k)
    BY <1>1, <1>2, <1>8, <1>9, <2>1 DEF InUse, Away, HasCompanions, Using
  <2>2. ASSUME NEW k \in DOMAIN store, Grown(k) PROVE Grown(k)'
    <3>1. store'[<<k[1], 0>>] = store[<<k[1], 0>>] /\ <<k[1], 0>> \in DOMAIN store /\ store[<<k[1], 0>>].seq \in Nat
      BY <1>2, <1>6, <2>2 DEF Grown, IInv, Types, Table
    <3>2. store[k].rows \subseteq store'[k].rows /\ store[k].seq <= store'[k].seq
      BY <1>0, <1>3, <1>6 DEF IInv, Types, Table
    <3>3. store[k].seq \in Nat /\ store'[k].seq \in Nat
      BY <1>6 DEF IInv, Types, Table
    <3>. QED  BY <1>6, <2>2, <3>1, <3>2, <3>3 DEF Grown
  <2>. QED  BY <1>6, <2>1, <2>2 DEF IInv, TablesGrow
<1>14. OneHasLost'
  <2>1. \A u \in Test : Lost(u) => Lost(u)'
    BY <1>1, <1>2, <1>8 DEF Lost, Registered, HasMoved, MainMoved
  <2>2. \A u \in Test : LostLock(u) => LostLock(u)'
    BY <1>1, <1>8 DEF LostLock, Initializing, HasSplit
  <2>3. ASSUME NEW u \in Test, Registered(u), {t, u} \in Clash PROVE Lost(t)' \/ Lost(u)'
    <3>1. /\ [id |-> conn[u].id, test |-> u] \in store[Key(u)].rows
          /\ Key(u) = <<conn[u].main, conn[u].comp>>
      BY <2>3, RegisteredHolds
    <3>2. Key(u) # K
      <4>1. {u, t} \in Clash
        BY <2>3
      <4>. QED  BY <1>0, <3>1, <4>1 DEF MayStart
    <3>3. HasMoved(u) \/ HasMoved(t)
      BY <1>2, <3>1, <3>2 DEF HasMoved, MainMoved
    <3>4. u # t
      BY <1>2, <2>3
    <3>. QED  BY <1>1, <1>8, <2>3, <3>3, <3>4 DEF Lost, Registered, HasMoved, MainMoved
  <2>4. ASSUME NEW u \in Test, NEW v \in Test, {u, v} \in overlapped', ~restored
        PROVE  Lost(u)' \/ Lost(v)'
    <3>1. CASE {u, v} \in overlapped
      BY <2>1, <2>4, <3>1 DEF IInv, OneHasLost
    <3>2. CASE {u, v} \notin overlapped
      <4>1. PICK w \in Test : Registered(w) /\ {t, w} \in Clash /\ {u, v} = {t, w}
        BY <1>1, <2>4, <3>2
      <4>2. (u = t /\ v = w) \/ (u = w /\ v = t)
        BY <4>1
      <4>. QED  BY <2>3, <4>1, <4>2
    <3>. QED  BY <3>1, <3>2
  <2>. QED  BY <1>1, <2>2, <2>4 DEF IInv, OneHasLost
<1>. QED  BY <1>10, <1>11, <1>12, <1>13, <1>14 DEF IInv

\* A DELETE leaves the rows of others and the rows the main file has.
LEMMA DeleteIInv ==
  ASSUME IInv, NEW t \in Test, DeleteRow(t)
  PROVE  IInv'
<1>0. PICK K, rest : K = Key(t) /\ rest = {r \in store[K].rows : r.id # conn[t].id}
  OBVIOUS
<1>1. /\ pc[t] = "delete" /\ pc' = [pc EXCEPT ![t] = "deleted"]
      /\ store' = [store EXCEPT ![K].rows = rest]
      /\ UNCHANGED <<fs, aside, moves, restored, next, conn, unwinding, outcome, overlapped, coInits>>
  BY <1>0 DEF DeleteRow, Goto, env, history
<1>2. Registered(t)
  BY <1>1 DEF Registered
<1>3. K \in DOMAIN store /\ K = <<conn[t].main, conn[t].comp>> /\ conn[t].comp # 0
  BY <1>0, <1>2, RegisteredHolds
<1>4. store[K] \in Table /\ rest \subseteq store[K].rows
  BY <1>0, <1>3 DEF IInv, Types
<1>5. store' = [store EXCEPT ![K] = [rows |-> rest, seq |-> store[K].seq, version |-> store[K].version]]
  <2>1. [store[K] EXCEPT !.rows = rest] = [rows |-> rest, seq |-> store[K].seq, version |-> store[K].version]
    BY <1>4 DEF Table
  <2>2. store' = [store EXCEPT ![K] = [store[K] EXCEPT !.rows = rest]]
    BY <1>1
  <2>. QED  BY <2>1, <2>2
<1>6. /\ DOMAIN store' = DOMAIN store /\ store' \in [DOMAIN store' -> Table]
      /\ store'[K].rows = rest /\ store'[K].seq = store[K].seq /\ store'[K].version = store[K].version
      /\ \A k \in DOMAIN store : k # K => store'[k] = store[k]
  <2>1. [rows |-> rest, seq |-> store[K].seq, version |-> store[K].version] \in Table
    BY <1>4 DEF Table
  <2>. QED  BY <1>3, <1>5, <2>1 DEF IInv, Types
<1>7. pc' \in [Test -> PC] /\ pc'[t] = "deleted" /\ \A u \in Test \ {t} : pc'[u] = pc[u]
  BY <1>1 DEF IInv, Types, TypeOK, PC
<1>8. Types'
  <2>1. \A k \in DOMAIN store' : /\ store'[k].rows \subseteq [id : 1 .. store'[k].seq, test : Test]
                                 /\ store'[k].version \in {0, 1}
    BY <1>3, <1>4, <1>6 DEF IInv, Types, TypeOK
  <2>. QED  BY <1>1, <1>6, <1>7, <2>1 DEF IInv, Types, TypeOK, Inode
<1>9. ASSUME NEW u \in Test PROVE Thread(u)'
  <2>1. ASSUME Registered(u), u # t
        PROVE  /\ [id |-> conn[u].id, test |-> u] \in store'[Key(u)].rows
               /\ \A r \in store'[Key(u)].rows : r.id = conn[u].id => r.test = u
               /\ conn[u].id > store'[<<conn[u].main, 0>>].seq
    <3>1. /\ Key(u) \in DOMAIN store /\ <<conn[u].main, 0>> \in DOMAIN store
          /\ [id |-> conn[u].id, test |-> u] \in store[Key(u)].rows
          /\ \A r \in store[Key(u)].rows : r.id = conn[u].id => r.test = u
          /\ conn[u].id > store[<<conn[u].main, 0>>].seq
      BY <2>1, RegisteredHolds
    <3>2. store'[<<conn[u].main, 0>>] = store[<<conn[u].main, 0>>]
      BY <1>3, <1>6, <3>1
    <3>3. CASE Key(u) # K
      BY <1>6, <3>1, <3>2, <3>3
    <3>4. CASE Key(u) = K
      <4>1. \A r \in store[K].rows : r.id = conn[t].id => r.test = t
        BY <1>0, <1>2, RegisteredHolds
      <4>2. [id |-> conn[u].id, test |-> u] \in rest
        BY <1>0, <2>1, <3>1, <3>4, <4>1
      <4>. QED  BY <1>4, <1>6, <3>1, <3>2, <3>4, <4>2
    <3>. QED  BY <3>3, <3>4
  <2>2. Thread(u) /\ Key(u)' = Key(u) /\ UNCHANGED <<conn, outcome>>
    BY <1>1 DEF IInv, Key
  <2>3. /\ Connected(u)' <=> Connected(u)
        /\ HasCompanions(u)' <=> HasCompanions(u)
        /\ Registered(u)' => Registered(u) /\ u # t
    BY <1>1, <1>7 DEF Connected, HasCompanions, Using, Registered
  <2>. QED  BY <1>1, <1>6, <1>7, <2>1, <2>2, <2>3 DEF Thread
<1>10. Files'
  BY <1>1, <1>6 DEF IInv, Files, Away
<1>11. TablesGrow'
  <2>1. ASSUME NEW k \in DOMAIN store, InUse(k)' PROVE InUse(k)
    BY <1>1, <1>7, <2>1 DEF InUse, Away, HasCompanions, Using, Key
  <2>2. ASSUME NEW k \in DOMAIN store, Grown(k) PROVE Grown(k)'
    <3>1. store'[<<k[1], 0>>] = store[<<k[1], 0>>]
      BY <1>3, <1>6, <2>2 DEF Grown
    <3>2. CASE k # K
      BY <1>6, <2>2, <3>1, <3>2 DEF Grown
    <3>3. CASE k = K
      <4>1. k[1] = conn[t].main /\ conn[t].id > store[<<conn[t].main, 0>>].seq /\ conn[t].id \in Nat
        BY <1>2, <1>3, <3>3, RegisteredHolds
      <4>2. store[<<conn[t].main, 0>>].rows \subseteq [id : 1 .. store[<<conn[t].main, 0>>].seq, test : Test]
              /\ store[<<conn[t].main, 0>>].seq \in Nat
        BY <1>2, RegisteredHolds, ZenonT(40) DEF IInv, Types, TypeOK, Table
      <4>3. \A r \in store[<<conn[t].main, 0>>].rows : r.id # conn[t].id
        BY <4>1, <4>2
      <4>. QED  BY <1>0, <1>6, <2>2, <3>1, <3>3, <4>1, <4>3 DEF Grown
    <3>. QED  BY <3>2, <3>3
  <2>. QED  BY <1>6, <2>1, <2>2 DEF IInv, TablesGrow
<1>12. OneHasLost'
  <2>1. \A u \in Test : Lost(u) => Lost(u)'
    BY <1>1, <1>7 DEF Lost, Registered, HasMoved, MainMoved
  <2>2. \A u \in Test : LostLock(u) => LostLock(u)'
    BY <1>1, <1>7 DEF LostLock, Initializing, HasSplit
  <2>. QED  BY <1>1, <2>1, <2>2 DEF IInv, OneHasLost
<1>. QED  BY <1>8, <1>9, <1>10, <1>11, <1>12 DEF IInv

-----------------------------------------------------------------------------
(* The environment.                                                        *)

\* Files disappear, or are moved aside and back.  Unless the old ones come
\* back, a path that has lost a connection's files does not find them again.
LEMMA FilesIInv ==
  ASSUME IInv, Types', Files',
         UNCHANGED <<store, pc, conn, outcome, overlapped, coInits>>,
         \A c \in Inode \ {0} : (c = fs'.comp \/ (Away' /\ c = aside'.comp)) =>
                                 (c = fs.comp \/ (Away /\ c = aside.comp)),
         ~restored' => /\ ~restored /\ fs'.main \in {0, fs.main} /\ fs'.comp \in {0, fs.comp}
                       /\ fs'.dir \in {0, next, fs.dir}
  PROVE  IInv'
<1>1. \A t \in Test : Thread(t)'
  BY DEF IInv, Thread, Connected, HasCompanions, Using, Registered, Key
<1>2. TablesGrow'
  <2>1. ASSUME NEW k \in DOMAIN store, k[2] # 0, InUse(k)' PROVE InUse(k)
    <3>1. k[2] \in Inode
      BY DEF IInv, Types, TypeOK
    <3>. QED  BY <2>1, <3>1 DEF InUse, Key, HasCompanions, Using
  <2>. QED  BY <2>1 DEF IInv, TablesGrow, Grown
<1>3. OneHasLost'
  <2>1. ASSUME NEW u \in Test, ~restored', Lost(u) PROVE Lost(u)'
    <3>1. Registered(u) \/ pc[u] = "deleted" => conn[u].main # 0 /\ conn[u].comp # 0
      BY DEF IInv, Thread, Registered, Connected, HasCompanions, Using
    <3>. QED  BY <2>1, <3>1 DEF Lost, Registered, HasMoved, MainMoved
  <2>2. ASSUME NEW u \in Test, ~restored', LostLock(u) PROVE LostLock(u)'
    <3>1. Initializing(u) => conn[u].dir # 0 /\ conn[u].dir # next
      <4>1. conn[u].dir \in Inode /\ next \in Nat
        BY DEF IInv, Types, TypeOK
      <4>2. next \notin Inode
        BY <4>1 DEF Inode
      <4>. QED  BY <4>1, <4>2 DEF IInv, Thread, Initializing
    <3>. QED  BY <2>2, <3>1 DEF LostLock, Initializing, HasSplit
  <2>. QED  BY <2>1, <2>2 DEF IInv, OneHasLost
<1>. QED  BY <1>1, <1>2, <1>3 DEF IInv

\* Each of the environment's steps is one of those.
LEMMA EnvironmentIInv ==
  ASSUME IInv, Environment
  PROVE  IInv'
<1>1. /\ fs \in [dir : Inode, main : Inode, comp : Inode]
      /\ aside \in [dir : Inode, main : Inode, comp : Inode]
      /\ next \in Nat /\ next # 0 /\ next \notin Inode /\ 0 \in Inode
      /\ moves \in 0 .. MaxMoves /\ MaxMoves \in Nat
  BY MovedDbAssumption DEF IInv, Types, TypeOK, Inode
<1>2. UNCHANGED <<store, pc, conn, unwinding, outcome, overlapped, coInits>>
  BY DEF Environment, DeleteDb, DeleteCompanions, MoveDirAside, MakeDir, PutDirBack, Touch, history, env
<1>3. ASSUME UNCHANGED next, moves' = moves + 1, moves < MaxMoves, restored' \in BOOLEAN,
             fs' \in [dir : Inode, main : Inode, comp : Inode],
             aside' \in [dir : Inode, main : Inode, comp : Inode]
      PROVE  Types'
  BY <1>1, <1>2, <1>3 DEF IInv, Types, TypeOK, Inode, Table
<1>4. CASE DeleteDb \/ DeleteCompanions
  <2>1. PICK m \in {0, fs.main} : fs' = [dir |-> fs.dir, main |-> m, comp |-> 0]
    BY <1>1, <1>4 DEF DeleteDb, DeleteCompanions, Touch
  <2>2. fs'.dir = fs.dir /\ fs'.main = m /\ fs'.comp = 0 /\ fs' \in [dir : Inode, main : Inode, comp : Inode]
    BY <1>1, <2>1
  <2>3. UNCHANGED <<aside, restored, next>> /\ moves' = moves + 1 /\ moves < MaxMoves
    BY <1>4 DEF DeleteDb, DeleteCompanions, Touch
  <2>4. Types'
    BY <1>1, <1>3, <2>2, <2>3 DEF IInv, Types, TypeOK
  <2>5. Files'
    BY <1>2, <2>1, <2>2, <2>3 DEF IInv, Files, Away
  <2>. QED  BY <1>2, <2>1, <2>2, <2>3, <2>4, <2>5, FilesIInv DEF Away
<1>5. CASE MoveDirAside
  <2>1. /\ fs.dir # 0 /\ fs' = [dir |-> 0, main |-> 0, comp |-> 0] /\ aside' = fs
        /\ UNCHANGED <<restored, next>> /\ moves' = moves + 1 /\ moves < MaxMoves
    BY <1>5 DEF MoveDirAside, Touch
  <2>2. fs'.dir = 0 /\ fs'.main = 0 /\ fs'.comp = 0 /\ fs' \in [dir : Inode, main : Inode, comp : Inode]
    BY <1>1, <2>1
  <2>3. Types'
    BY <1>1, <1>3, <2>1, <2>2 DEF IInv, Types, TypeOK
  <2>4. Files'
    BY <1>2, <2>1, <2>2 DEF IInv, Files, Away
  <2>. QED  BY <1>2, <2>1, <2>2, <2>3, <2>4, FilesIInv
<1>6. CASE MakeDir
  <2>1. /\ fs.dir = 0 /\ fs' = [dir |-> next, main |-> fs.main, comp |-> fs.comp]
        /\ next' = next + 1 /\ UNCHANGED <<aside, moves, restored>>
    BY <1>1, <1>6 DEF MakeDir, env
  <2>2. fs'.dir = next /\ fs'.main = fs.main /\ fs'.comp = fs.comp /\ aside.dir # next
    BY <1>1, <2>1
  <2>3. Types'
    <3>1. Inode \subseteq Inode' /\ next \in Inode' /\ next' \in Nat
      BY <1>1, <2>1 DEF Inode
    <3>2. /\ fs' \in [dir : Inode', main : Inode', comp : Inode'] /\ aside' \in [dir : Inode', main : Inode', comp : Inode']
          /\ conn' \in [Test -> [dir : Inode', main : Inode', comp : Inode', id : Nat]]
          /\ DOMAIN store' \subseteq Inode' \X Inode'
      BY <1>1, <1>2, <2>1, <3>1 DEF IInv, Types, TypeOK
    <3>. QED  BY <1>2, <2>1, <3>1, <3>2 DEF IInv, Types, TypeOK, Table
  <2>4. fs.main = 0 /\ fs.comp = 0 /\ aside.dir # 0 /\ Away
    BY <2>1 DEF IInv, Files, Away
  <2>5. Files'
    BY <1>1, <1>2, <2>1, <2>2, <2>4 DEF IInv, Files, Away
  <2>. QED  BY <1>2, <2>1, <2>2, <2>3, <2>4, <2>5, FilesIInv
<1>7. CASE PutDirBack
  <2>1. /\ fs.dir # aside.dir /\ fs' = aside /\ UNCHANGED aside
        /\ restored' = TRUE /\ UNCHANGED next /\ moves' = moves + 1 /\ moves < MaxMoves
    BY <1>7 DEF PutDirBack, Touch
  <2>2. Types'
    BY <1>1, <1>3, <2>1
  <2>3. Files' /\ ~Away'
    BY <1>2, <2>1 DEF IInv, Files, Away
  <2>. QED  BY <1>2, <2>1, <2>2, <2>3, FilesIInv DEF Away
<1>. QED  BY <1>4, <1>5, <1>6, <1>7 DEF Environment

-----------------------------------------------------------------------------
(* The theorems.                                                           *)

\* A panic, wherever it happens before the trial is done.
LEMMA PanicsIInv ==
  ASSUME IInv, NEW t \in Test, Panics(t), pc[t] # "done"
  PROVE  IInv'
BY FinishIInv DEF Panics

\* Every step of open_db preserves the invariant.
LEMMA OpenIInv ==
  ASSUME IInv, NEW t \in Test, OpenStep(t)
  PROVE  IInv'
<1>0. pc[t] \in PC /\ pc \in [Test -> PC]
  BY DEF IInv, Types, TypeOK
<1>1. ASSUME NEW l \in PC, Proceed(t, l) PROVE pc'[t] = l
  BY <1>0, <1>1 DEF Proceed, Goto
<1>2. CASE OpenLockTarget(t)
  BY <1>2, PanicsIInv, TakeIInv DEF OpenLockTarget
<1>3. CASE Flock(t)
  BY <1>3, FlockIInv
<1>4. CASE Connect(t)
  <2>1. CASE fs.main # 0
    BY <1>4, <2>1, TakeIInv DEF Connect
  <2>2. CASE fs.main = 0
    <3>1. pc[t] = "connect" /\ Proceed(t, "recheck") /\ "recheck" \in PC
      BY <1>4, <2>2 DEF Connect, PC
    <3>2. pc'[t] = "recheck"
      BY <1>1, <3>1
    <3>. QED
      BY <3>1, <3>2, ProceedIInv DEF Connected, HasCompanions, Using, Registered, Initializing
  <2>. QED  BY <2>1, <2>2
<1>5. ASSUME NEW l \in PC, Proceed(t, l),
             <<pc[t], l>> \in {<<"recheck", "publish">>, <<"publish", "connect">>, <<"record", "precheck">>,
                               <<"precheck", "init">>, <<"postinit", "migrate">>, <<"migrate", "companions">>}
      PROVE  IInv'
  <2>1. pc'[t] = l
    BY <1>1, <1>5
  <2>. QED  BY <1>5, <2>1, ProceedIInv DEF Connected, HasCompanions, Using, Registered, Initializing
<1>6. CASE Recheck(t)
  BY <1>5, <1>6, PanicsIInv DEF Recheck, PC
<1>7. CASE EnsurePublished(t)
  BY <1>5, <1>7, PanicsIInv, PublishIInv DEF EnsurePublished, PC
<1>8. CASE RecordMain(t) \/ CheckBeforeInit(t) \/ CheckAfterInit(t)
  BY <1>5, <1>8, PanicsIInv DEF RecordMain, CheckBeforeInit, CheckAfterInit, PC
<1>9. CASE InitSql(t)
  <2>1. CASE fs.dir = 0
    BY <1>9, <2>1, PanicsIInv DEF InitSql
  <2>. QED  BY <1>9, <2>1, InitSqlIInv
<1>10. CASE MigrateSchema(t)
  <2>1. CASE store[Key(t)].version >= 1
    BY <1>5, <1>10, <2>1 DEF MigrateSchema, PC
  <2>2. CASE ~(store[Key(t)].version >= 1) /\ MainMoved(t)
    BY <1>10, <2>2, PanicsIInv DEF MigrateSchema
  <2>. QED  BY <1>10, <2>1, <2>2, MigrateIInv
<1>11. CASE WithCompanions(t)
  <2>1. CASE Panics(t)
    BY <1>11, <2>1, PanicsIInv DEF WithCompanions
  <2>2. CASE ~Panics(t)
    <3>1. pc[t] \in {"migrated", "companions"} /\ ~HasSplit(t) /\ Proceed(t, "check") /\ "check" \in PC
      BY <1>11, <2>2 DEF WithCompanions, PC
    <3>2. pc'[t] = "check"
      BY <1>1, <3>1
    <3>. QED
      BY <3>1, <3>2, ProceedIInv DEF Connected, HasCompanions, Using, Registered, Initializing
  <2>. QED  BY <2>1, <2>2
<1>. QED  BY <1>2, <1>3, <1>4, <1>6, <1>7, <1>8, <1>9, <1>10, <1>11 DEF OpenStep

\* So does every step of coordinate and of TestRegistration's Drop.
LEMMA UseIInv ==
  ASSUME IInv, NEW t \in Test, UseStep(t)
  PROVE  IInv'
<1>0. pc[t] \in PC /\ pc \in [Test -> PC]
  BY DEF IInv, Types, TypeOK
<1>1. ASSUME NEW l \in PC, Proceed(t, l),
             <<pc[t], l>> \in {<<"check", "txn">>, <<"txn", "check">>, <<"committed", "running">>,
                               <<"running", "drop">>, <<"drop", "delete">>}
      PROVE  IInv'
  <2>1. pc'[t] = l
    BY <1>0, <1>1 DEF Proceed, Goto
  <2>. QED  BY <1>1, <2>1, ProceedIInv DEF Connected, HasCompanions, Using, Registered, Initializing
<1>2. CASE CheckBeforeTxn(t) \/ BodyEnds(t) \/ CheckBeforeDelete(t)
  BY <1>1, <1>2, PanicsIInv DEF CheckBeforeTxn, BodyEnds, CheckBeforeDelete, PC
<1>3. CASE Transaction(t)
  <2>1. CASE ~MayStart(t)
    BY <1>1, <1>3, <2>1 DEF Transaction, PC
  <2>. QED  BY <1>3, <2>1, TransactionIInv
<1>4. CASE CheckAfterCommit(t)
  <2>1. CASE ~HasMoved(t)
    BY <1>1, <1>4, <2>1 DEF CheckAfterCommit, PC
  <2>. QED  BY <1>4, <2>1, UnwindIInv
<1>5. CASE DeleteRow(t)
  BY <1>5, DeleteIInv
<1>6. CASE CheckAfterDelete(t)
  BY <1>6, FinishIInv DEF CheckAfterDelete
<1>. QED  BY <1>2, <1>3, <1>4, <1>5, <1>6 DEF UseStep

\* Every step of anybody preserves the invariant.
LEMMA NextIInv == IInv /\ [Next]_vars => IInv'
<1> SUFFICES ASSUME IInv, [Next]_vars PROVE IInv'
  OBVIOUS
<1>1. ASSUME UNCHANGED vars PROVE IInv'
  <2>1. /\ UNCHANGED <<store, pc, conn, outcome, overlapped, coInits>> /\ UNCHANGED <<fs, aside, moves, restored, next, unwinding>>
    BY <1>1 DEF vars
  <2>2. Types'
    BY <2>1 DEF IInv, Types, TypeOK, Inode, Table
  <2>3. Files' /\ (Away' <=> Away)
    BY <2>1 DEF IInv, Files, Away
  <2>. QED  BY <2>1, <2>2, <2>3, FilesIInv
<1>2. ASSUME NEW t \in Test, OpenStep(t) \/ UseStep(t) PROVE IInv'
  BY <1>2, OpenIInv, UseIInv
<1>. QED  BY <1>1, <1>2, EnvironmentIInv DEF Next, Finished

\* Connections, tables and path stay related as IInv says, whatever is
\* deleted, replaced or put back, and whenever.
THEOREM TablesStayApart == Spec => []IInv
<1>1. Init => IInv
  BY InitIInv
<1>2. IInv /\ [Next]_vars => IInv'
  BY NextIInv
<1>. QED  BY <1>1, <1>2, PTL DEF Spec

\* panic_if_moved around COMMIT and around DELETE: of two conflicting tests that
\* overlapped because the database was moved, one fails.
THEOREM OverlapNeverPasses == Spec => []OverlapIsReported
<1>1. IInv => OverlapIsReported
  <2> SUFFICES ASSUME IInv, ~restored, NEW t \in Test, NEW u \in Test, {t, u} \in overlapped
               PROVE  ~(outcome[t] = "pass" /\ outcome[u] = "pass")
    BY DEF OverlapIsReported, IInv, Types
  <2>1. \A v \in Test : Lost(v) => outcome[v] # "pass"
    BY DEF Lost, IInv, Thread, Registered
  <2>. QED  BY <2>1 DEF IInv, OneHasLost
<1>. QED  BY <1>1, TablesStayApart, PTL

\* target_has_split: of two threads that were inside the init lock at once, one
\* never gets its connection.
THEOREM SplitLockNeverOpens == Spec => []SplitLockIsReported
<1>1. IInv => SplitLockIsReported
  <2> SUFFICES ASSUME IInv, ~restored, NEW t \in Test, NEW u \in Test, t # u, {t, u} \in coInits
               PROVE  ~(Opened(t) /\ Opened(u))
    BY DEF SplitLockIsReported
  <2>1. ASSUME NEW v \in Test, LostLock(v) PROVE ~Opened(v)
    <3>1. pc[v] # "done" => outcome[v] = "none"
      BY DEF IInv, Thread
    <3>. QED  BY <2>1, <3>1 DEF LostLock, Initializing, Opened, Using
  <2>. QED  BY <2>1 DEF IInv, OneHasLost
<1>. QED  BY <1>1, TablesStayApart, PTL

\* TestRegistration owns the connection its id is from: no other row ever
\* disappears, neither by a DELETE nor by the checkpoint of a last connection.
THEOREM NoOtherRowIsLost == Spec => OwnRowOnly
<1> DEFINE A == \A k \in DOMAIN store : \A r \in store[k].rows \ store'[k].rows :
                  pc[r.test] = "delete" /\ pc'[r.test] = "deleted"
<1>1. IInv /\ [Next]_vars => [A]_vars
  <2> SUFFICES ASSUME IInv, Next PROVE A
    OBVIOUS
  <2>1. ASSUME \A k \in DOMAIN store : store[k].rows \subseteq store'[k].rows PROVE A
    BY <2>1
  <2>2. ASSUME NEW t \in Test, NEW result, Finish(t, result) PROVE A
    <3>1. CASE UNCHANGED store
      BY <2>1, <3>1
    <3>2. CASE ~(UNCHANGED store)
      <4>1. /\ conn[t].comp # 0 /\ store' = Put(<<conn[t].main, 0>>, store[Key(t)])
        BY <2>2, <3>2 DEF Finish
      <4>2. HasCompanions(t) /\ Key(t) \in DOMAIN store /\ Key(t) = <<conn[t].main, conn[t].comp>>
        BY <4>1 DEF IInv, Thread, Key
      <4>3. Key(t)[1] = conn[t].main /\ Key(t)[2] = conn[t].comp
        BY <4>2
      <4>4. Grown(Key(t))
        BY <4>1, <4>2, <4>3 DEF IInv, TablesGrow, InUse
      <4>5. store[<<conn[t].main, 0>>].rows \subseteq store[Key(t)].rows
        BY <4>3, <4>4 DEF Grown
      <4>. QED  BY <2>1, <4>1, <4>5 DEF Put
    <3>. QED  BY <3>1, <3>2
  <2>3. ASSUME UNCHANGED store PROVE A
    BY <2>1, <2>3
  <2>4. ASSUME NEW t \in Test, EnsurePublished(t) PROVE A
    <3>1. CASE store' = Put(<<next, 0>>, EmptyTable)
      <4>1. <<next, 0>> \notin DOMAIN store
        BY DEF IInv, Types, TypeOK, Inode
      <4>. QED  BY <2>1, <3>1, <4>1 DEF Put
    <3>. QED  BY <2>2, <2>3, <2>4, <3>1 DEF EnsurePublished, Proceed, Panics
  <2>5. ASSUME NEW t \in Test, InitSql(t) PROVE A
    <3>1. ASSUME NEW k, NEW v, k \notin DOMAIN store, store' = Put(k, v) PROVE A
      BY <2>1, <3>1 DEF Put
    <3>. QED  BY <2>2, <2>3, <2>5, <3>1 DEF InitSql, Panics
  <2>6. ASSUME NEW t \in Test, MigrateSchema(t) PROVE A
    <3>1. CASE store' = [store EXCEPT ![Key(t)].version = 1]
      <4>1. \A k \in DOMAIN store : store[k] \in Table
        BY DEF IInv, Types
      <4>2. \A R \in Table : [R EXCEPT !.version = 1].rows = R.rows
        BY DEF Table
      <4>3. \A k \in DOMAIN store : store'[k] = IF k = Key(t) THEN [store[k] EXCEPT !.version = 1] ELSE store[k]
        BY <3>1
      <4>. QED  BY <2>1, <4>1, <4>2, <4>3
    <3>. QED  BY <2>2, <2>3, <2>6, <3>1 DEF MigrateSchema, Proceed, Panics
  <2>7. ASSUME NEW t \in Test, Transaction(t) PROVE A
    <3>1. PICK id, row : \/ UNCHANGED store
                         \/ store' = [store EXCEPT ![Key(t)].seq = id, ![Key(t)].rows = @ \cup {row}]
      BY <2>7 DEF Transaction, Proceed
    <3>2. \A k \in DOMAIN store : store[k] \in Table
      BY DEF IInv, Types
    <3>3. \A R \in Table : R.rows \subseteq [R EXCEPT !.seq = id, !.rows = @ \cup {row}].rows
      BY DEF Table
    <3>4. CASE store' = [store EXCEPT ![Key(t)].seq = id, ![Key(t)].rows = @ \cup {row}]
      <4>1. \A k \in DOMAIN store : store'[k] = IF k = Key(t) THEN [store[k] EXCEPT !.seq = id, !.rows = @ \cup {row}] ELSE store[k]
        BY <3>4
      <4>. QED  BY <2>1, <3>2, <3>3, <4>1
    <3>. QED  BY <2>3, <3>1, <3>4
  <2>8. ASSUME NEW t \in Test, DeleteRow(t) PROVE A
    <3>1. pc[t] = "delete" /\ pc'[t] = "deleted" /\ Registered(t)
      BY <2>8 DEF DeleteRow, Goto, IInv, Types, TypeOK, Registered
    <3>2. \A k \in DOMAIN store : k # Key(t) => store'[k] = store[k]
      BY <2>8 DEF DeleteRow
    <3>3. store'[Key(t)].rows = {r \in store[Key(t)].rows : r.id # conn[t].id}
      <4>1. Key(t) \in DOMAIN store /\ store[Key(t)] \in Table
        BY <3>1, RegisteredHolds DEF IInv, Types
      <4>2. store'[Key(t)] = [store[Key(t)] EXCEPT !.rows = {r \in @ : r.id # conn[t].id}]
        BY <2>8, <4>1 DEF DeleteRow
      <4>3. \A R \in Table : [R EXCEPT !.rows = {r \in @ : r.id # conn[t].id}].rows = {r \in R.rows : r.id # conn[t].id}
        BY DEF Table
      <4>. QED  BY <4>1, <4>2, <4>3
    <3>4. \A r \in store[Key(t)].rows : r.id = conn[t].id => r.test = t
      BY <3>1, RegisteredHolds
    <3>. QED  BY <3>1, <3>2, <3>3, <3>4
  <2>9. ASSUME NEW t \in Test, OpenStep(t) PROVE A
    BY <2>2, <2>3, <2>4, <2>5, <2>6, <2>9
    DEF OpenStep, OpenLockTarget, Flock, Connect, Recheck, RecordMain, CheckBeforeInit, CheckAfterInit,
        WithCompanions, Proceed, Panics
  <2>10. ASSUME NEW t \in Test, UseStep(t) PROVE A
    BY <2>2, <2>3, <2>7, <2>8, <2>10
    DEF UseStep, CheckBeforeTxn, CheckAfterCommit, BodyEnds, CheckBeforeDelete, CheckAfterDelete, Proceed, Panics
  <2>11. ASSUME Environment \/ Finished PROVE A
    BY <2>3, <2>11
    DEF Environment, DeleteDb, DeleteCompanions, MoveDirAside, MakeDir, PutDirBack, Touch, Finished, vars
  <2> HIDE DEF A
  <2>. QED  BY <2>9, <2>10, <2>11 DEF Next
<1>. QED  BY <1>1, TablesStayApart, PTL DEF Spec, OwnRowOnly
-----------------------------------------------------------------------------
(* A database that nobody moves.                                           *)

\* While the environment has not acted, every thread's files are those at the
\* path, one thread at a time is inside the init lock, and one that found no
\* file there is the only one to make it.
Quiet(t) ==
  /\ pc[t] \notin {"idle", "done"} => conn[t].dir = fs.dir
  /\ Connected(t) => conn[t].main = fs.main
  /\ HasCompanions(t) => conn[t].comp = fs.comp
  /\ pc[t] \in {"recheck", "publish"} => fs.main = 0
  /\ ~unwinding[t] /\ outcome[t] # "fail"
OneInside == \A t, u \in Test : Initializing(t) /\ Initializing(u) => t = u
Still ==
  /\ fs.dir = aside.dir
  /\ \A t \in Test : Quiet(t)
  /\ OneInside
  /\ overlapped = {} /\ coInits = {}

\* The checks raise no false alarm: as long as nobody touches the files, no
\* trial fails for them, no two conflicting tests are registered at once, in
\* whatever order the database is published, opened, closed by its last user
\* and opened again, and no two threads are inside the init lock at once.
NoFalseAlarm ==
  moves = 0 => (\A t \in Test : outcome[t] # "fail") /\ overlapped = {} /\ coInits = {}

\* What a step of thread t owes to the others and to itself.
LEMMA StepStill ==
  ASSUME Still, NEW t \in Test, NEW l \in PC, pc \in [Test -> PC], Goto(t, l),
         aside' = aside, fs'.dir = fs.dir,
         \A u \in Test \ {t} : /\ conn'[u] = conn[u] /\ unwinding'[u] = unwinding[u]
                               /\ outcome'[u] = outcome[u],
         fs'.main = fs.main \/ \A u \in Test \ {t} : ~Connected(u) /\ ~Initializing(u),
         fs'.comp = fs.comp \/ \A u \in Test \ {t} : ~HasCompanions(u),
         Initializing(t)' => Initializing(t) \/ \A u \in Test : ~Initializing(u),
         Quiet(t)', overlapped' = {}, coInits' = {}
  PROVE  Still'
<1>1. \A u \in Test \ {t} : pc'[u] = pc[u]
  BY DEF Goto
<1>2. ASSUME NEW u \in Test \ {t} PROVE Quiet(u)' /\ (Initializing(u)' <=> Initializing(u))
  <2>1. /\ Initializing(u)' <=> Initializing(u)
        /\ Connected(u)' <=> Connected(u)
        /\ HasCompanions(u)' <=> HasCompanions(u)
    BY <1>1 DEF Initializing, Connected, HasCompanions, Using
  <2>2. Quiet(u)
    BY DEF Still
  <2>3. /\ conn'[u] = conn[u] /\ unwinding'[u] = unwinding[u] /\ outcome'[u] = outcome[u]
        /\ pc'[u] = pc[u]
    BY <1>1
  <2>4. pc[u] \in {"recheck", "publish"} => Initializing(u)
    BY DEF Initializing
  <2>. QED  BY <2>1, <2>2, <2>3, <2>4 DEF Quiet
<1>3. \A u \in Test : Quiet(u)'
  BY <1>2
<1>4. OneInside'
  BY <1>2 DEF Still, OneInside
<1>. QED  BY <1>3, <1>4 DEF Still

\* A check that finds nothing, as in ProceedIInv.
LEMMA ProceedStill ==
  ASSUME IInv, Still, NEW t \in Test, NEW l \in PC, Proceed(t, l), pc[t] \notin {"idle", "done"},
         l \notin {"recheck", "publish"} \/ fs.main = 0,
         Connected(t)' => Connected(t), HasCompanions(t)' => HasCompanions(t),
         Initializing(t)' => Initializing(t) \/ \A u \in Test : ~Initializing(u)
  PROVE  Still'
<1>1. pc \in [Test -> PC] /\ Quiet(t)
  BY DEF IInv, Types, TypeOK, Still
<1>2. pc'[t] = l /\ UNCHANGED <<fs, aside, conn, unwinding, outcome, overlapped, coInits>>
  BY <1>1 DEF Proceed, Goto, env, history
<1>3. Quiet(t)'
  BY <1>1, <1>2 DEF Quiet
<1>. QED  BY <1>1, <1>2, <1>3, StepStill DEF Proceed, Still

\* open_db, without a disturbance: no check panics.
LEMMA OpenStill ==
  ASSUME IInv, Still, NEW t \in Test, OpenStep(t)
  PROVE  Still'
<1>1. /\ pc \in [Test -> PC] /\ conn \in [Test -> [dir : Inode, main : Inode, comp : Inode, id : Nat]]
      /\ fs \in [dir : Inode, main : Inode, comp : Inode] /\ Quiet(t) /\ Thread(t) /\ pc[t] \in PC
  BY DEF IInv, Types, TypeOK, Still
<1>2. fs.dir # 0 /\ overlapped = {} /\ coInits = {}
  BY DEF IInv, Files, Still
<1>3. /\ pc[t] \notin {"idle", "done"} => ~HasSplit(t)
      /\ Connected(t) => ~MainMoved(t)
  BY <1>1 DEF Quiet, HasSplit, MainMoved
<1>4. ASSUME NEW l \in PC, Proceed(t, l), pc[t] \notin {"idle", "done"},
             l \in {"recheck", "publish"} => fs.main = 0,
             <<pc[t], l>> \in {<<"connect", "recheck">>, <<"recheck", "publish">>, <<"publish", "connect">>,
                 <<"record", "precheck">>, <<"precheck", "init">>, <<"postinit", "migrate">>,
                 <<"migrate", "companions">>, <<"migrated", "check">>, <<"companions", "check">>}
      PROVE  Still'
  <2>1. pc'[t] = l
    BY <1>1, <1>4 DEF Proceed, Goto
  <2>2. /\ Connected(t)' => Connected(t)
        /\ HasCompanions(t)' => HasCompanions(t)
        /\ Initializing(t)' => Initializing(t)
    BY <1>4, <2>1 DEF Connected, HasCompanions, Initializing, Using
  <2>. QED  BY <1>4, <2>2, ProceedStill
<1>5. CASE OpenLockTarget(t)
  <2>1. /\ conn' = [conn EXCEPT ![t].dir = fs.dir] /\ Goto(t, "flock") /\ "flock" \in PC /\ pc[t] = "idle"
        /\ UNCHANGED <<fs, aside, unwinding, outcome, overlapped, coInits>>
    BY <1>2, <1>5 DEF OpenLockTarget, env, history, PC
  <2>2. pc'[t] = "flock" /\ conn'[t].dir = fs.dir /\ \A u \in Test \ {t} : conn'[u] = conn[u]
    BY <1>1, <2>1 DEF Goto
  <2>3. ~Initializing(t)' /\ ~Connected(t)' /\ ~HasCompanions(t)'
    BY <2>2 DEF Initializing, Connected, HasCompanions, Using
  <2>4. Quiet(t)'
    BY <1>1, <2>1, <2>2, <2>3 DEF Quiet
  <2>. QED  BY <1>1, <1>2, <2>1, <2>2, <2>3, <2>4, StepStill
<1>6. CASE Flock(t)
  <2>1. /\ Goto(t, "connect") /\ "connect" \in PC /\ pc[t] = "flock"
        /\ UNCHANGED <<fs, aside, conn, unwinding, outcome, overlapped>>
    BY <1>6 DEF Flock, env, PC
  <2>2. \A u \in Test : ~Initializing(u)
    <3>1. \A u \in Test : Initializing(u) => pc[u] \notin {"idle", "done"} /\ Quiet(u)
      BY DEF Initializing, Still
    <3>2. \A u \in Test : Initializing(u) => conn[u].dir = fs.dir
      BY <3>1 DEF Quiet
    <3>3. conn[t].dir = fs.dir
      BY <1>1, <2>1 DEF Quiet
    <3>. QED  BY <1>6, <3>2, <3>3 DEF Flock
  <2>3. coInits' = {}
    BY <1>2, <1>6, <2>2 DEF Flock
  <2>4. pc'[t] = "connect"
    BY <1>1, <2>1 DEF Goto
  <2>5. ~Connected(t)' /\ ~HasCompanions(t)'
    BY <2>4 DEF Connected, HasCompanions, Using
  <2>6. Quiet(t)'
    BY <1>1, <2>1, <2>4, <2>5 DEF Quiet
  <2>. QED  BY <1>1, <1>2, <2>1, <2>2, <2>3, <2>6, StepStill
<1>7. CASE Connect(t)
  <2>1. CASE fs.main = 0
    BY <1>4, <1>7, <2>1 DEF Connect, PC
  <2>2. CASE fs.main # 0
    <3>1. /\ conn' = [conn EXCEPT ![t].main = fs.main] /\ Goto(t, "record") /\ "record" \in PC
          /\ pc[t] = "connect" /\ UNCHANGED <<fs, aside, unwinding, outcome, overlapped, coInits>>
      BY <1>7, <2>2 DEF Connect, env, history, PC
    <3>2. /\ pc'[t] = "record" /\ conn'[t].dir = conn[t].dir /\ conn'[t].main = fs.main
          /\ \A u \in Test \ {t} : conn'[u] = conn[u]
      BY <1>1, <3>1 DEF Goto
    <3>3. Initializing(t) /\ ~HasCompanions(t)'
      BY <3>1, <3>2 DEF Initializing, HasCompanions, Using
    <3>4. Quiet(t)'
      BY <1>1, <3>1, <3>2, <3>3 DEF Quiet
    <3>. QED  BY <1>1, <1>2, <3>1, <3>2, <3>3, <3>4, StepStill
  <2>. QED  BY <2>1, <2>2
<1>8. CASE Recheck(t)
  <2>1. fs.main = 0
    BY <1>1, <1>8 DEF Recheck, Quiet
  <2>. QED  BY <1>4, <1>8, <2>1 DEF Recheck, PC
<1>9. CASE EnsurePublished(t)
  <2>1. fs.main = 0 /\ pc[t] = "publish"
    BY <1>1, <1>9 DEF EnsurePublished, Quiet
  <2>2. /\ fs' = [fs EXCEPT !.main = next] /\ Goto(t, "connect") /\ "connect" \in PC
        /\ UNCHANGED <<aside, conn, unwinding, outcome, overlapped, coInits>>
    BY <1>2, <1>9, <2>1 DEF EnsurePublished, env, history, PC
  <2>3. fs'.dir = fs.dir /\ fs'.comp = fs.comp /\ pc'[t] = "connect"
    BY <1>1, <2>2 DEF Goto
  <2>4. ASSUME NEW u \in Test \ {t} PROVE ~Connected(u) /\ ~Initializing(u)
    <3>1. Initializing(t)
      BY <2>1 DEF Initializing
    <3>2. Quiet(u) /\ Thread(u) /\ ~Initializing(u)
      BY <3>1 DEF Still, OneInside, IInv
    <3>. QED  BY <2>1, <3>2 DEF Quiet, Thread
  <2>5. Initializing(t) /\ ~Connected(t)' /\ ~HasCompanions(t)'
    BY <2>1, <2>3 DEF Initializing, Connected, HasCompanions, Using
  <2>6. Quiet(t)'
    BY <1>1, <2>1, <2>2, <2>3, <2>5 DEF Quiet
  <2>. QED  BY <1>1, <1>2, <2>2, <2>3, <2>4, <2>5, <2>6, StepStill
<1>10. CASE RecordMain(t) \/ CheckBeforeInit(t) \/ CheckAfterInit(t)
  <2>1. Connected(t) /\ pc[t] \notin {"idle", "done"}
    BY <1>10 DEF RecordMain, CheckBeforeInit, CheckAfterInit, Connected
  <2>. QED  BY <1>3, <1>4, <1>10, <2>1 DEF RecordMain, CheckBeforeInit, CheckAfterInit, PC
<1>11. CASE InitSql(t)
  <2>1. PICK c : c = IF fs.comp = 0 THEN next ELSE fs.comp
    OBVIOUS
  <2>2. /\ fs' = [fs EXCEPT !.comp = c] /\ conn' = [conn EXCEPT ![t].comp = c] /\ pc[t] = "init"
        /\ Goto(t, "postinit") /\ "postinit" \in PC
        /\ UNCHANGED <<aside, unwinding, outcome, overlapped, coInits>>
    BY <1>2, <1>11, <2>1 DEF InitSql, env, history, PC
  <2>3. /\ fs'.dir = fs.dir /\ fs'.main = fs.main /\ fs'.comp = c /\ pc'[t] = "postinit"
        /\ conn'[t].dir = conn[t].dir /\ conn'[t].main = conn[t].main /\ conn'[t].comp = c
        /\ \A u \in Test \ {t} : conn'[u] = conn[u]
    BY <1>1, <2>2 DEF Goto
  <2>4. ASSUME fs.comp = 0, NEW u \in Test PROVE ~HasCompanions(u)
    <3>1. Thread(u) /\ Quiet(u)
      BY DEF IInv, Still
    <3>. QED  BY <2>4, <3>1 DEF Thread, Quiet
  <2>5. Initializing(t) /\ Connected(t)
    BY <2>2 DEF Initializing, Connected
  <2>6. Quiet(t)'
    BY <1>1, <2>2, <2>3, <2>5 DEF Quiet
  <2>. QED  BY <1>1, <1>2, <2>1, <2>2, <2>3, <2>4, <2>5, <2>6, StepStill
<1>12. CASE MigrateSchema(t)
  <2>1. Connected(t) /\ Initializing(t) /\ HasCompanions(t) /\ pc[t] = "migrate"
    BY <1>12 DEF MigrateSchema, Connected, Initializing, HasCompanions
  <2>2. CASE store[Key(t)].version >= 1
    BY <1>4, <1>12, <2>2 DEF MigrateSchema, PC
  <2>3. CASE ~(store[Key(t)].version >= 1)
    <3>1. /\ Goto(t, "migrated") /\ "migrated" \in PC
          /\ UNCHANGED <<fs, aside, conn, unwinding, outcome, overlapped, coInits>>
      BY <1>3, <1>12, <2>1, <2>3 DEF MigrateSchema, env, history, PC
    <3>2. pc'[t] = "migrated"
      BY <1>1, <3>1 DEF Goto
    <3>3. Quiet(t)'
      BY <1>1, <2>1, <3>1, <3>2 DEF Quiet
    <3>. QED  BY <1>1, <1>2, <2>1, <3>1, <3>3, StepStill
  <2>. QED  BY <2>2, <2>3
<1>13. CASE WithCompanions(t)
  <2>1. Connected(t) /\ HasCompanions(t) /\ pc[t] \in {"migrated", "companions"}
    BY <1>13 DEF WithCompanions, Connected, HasCompanions
  <2>2. fs.comp = conn[t].comp
    BY <1>1, <2>1 DEF Quiet
  <2>. QED  BY <1>3, <1>4, <1>13, <2>1, <2>2 DEF WithCompanions, PC
<1>. QED  BY <1>5, <1>6, <1>7, <1>8, <1>9, <1>10, <1>11, <1>12, <1>13 DEF OpenStep
\* coordinate and Drop, without a disturbance: no check panics, and a test that
\* may start sees the row of every test that is registered.
LEMMA UseStill ==
  ASSUME IInv, Still, NEW t \in Test, UseStep(t)
  PROVE  Still'
<1>1. /\ pc \in [Test -> PC] /\ conn \in [Test -> [dir : Inode, main : Inode, comp : Inode, id : Nat]]
      /\ fs \in [dir : Inode, main : Inode, comp : Inode] /\ Quiet(t) /\ Thread(t) /\ pc[t] \in PC
      /\ outcome \in [Test -> {"none", "pass", "fail"}]
  BY DEF IInv, Types, TypeOK, Still
<1>2. overlapped = {} /\ coInits = {}
  BY DEF Still
<1>3. Using(t) /\ Connected(t) /\ HasCompanions(t) /\ pc[t] \notin {"idle", "done"}
  BY DEF UseStep, CheckBeforeTxn, Transaction, CheckAfterCommit, BodyEnds, CheckBeforeDelete,
         DeleteRow, CheckAfterDelete, Using, Connected, HasCompanions
<1>4. ~HasMoved(t)
  BY <1>1, <1>3 DEF Quiet, HasMoved, MainMoved
<1>5. ASSUME NEW l \in {"txn", "check", "running", "drop", "delete"}, Proceed(t, l) PROVE Still'
  <2>1. pc'[t] = l /\ l \in PC
    BY <1>1, <1>5 DEF Proceed, Goto, PC
  <2>2. ~Initializing(t)' /\ l \notin {"recheck", "publish"}
    BY <2>1 DEF Initializing
  <2>. QED  BY <1>3, <1>5, <2>1, <2>2, ProceedStill
<1>6. CASE CheckBeforeTxn(t) \/ BodyEnds(t) \/ CheckBeforeDelete(t) \/ CheckAfterCommit(t)
  BY <1>4, <1>5, <1>6 DEF CheckBeforeTxn, BodyEnds, CheckBeforeDelete, CheckAfterCommit
<1>7. CASE Transaction(t)
  <2>1. CASE ~MayStart(t)
    BY <1>5, <1>7, <2>1 DEF Transaction
  <2>2. CASE MayStart(t)
    <3>1. PICK id : id = store[Key(t)].seq + 1
      OBVIOUS
    <3>2. /\ conn' = [conn EXCEPT ![t].id = id] /\ Goto(t, "committed") /\ "committed" \in PC
          /\ UNCHANGED <<fs, aside, unwinding, outcome, coInits>>
          /\ overlapped' = overlapped
               \cup {{t, u} : u \in {v \in Test : Registered(v) /\ {t, v} \in Clash}}
      BY <1>7, <2>2, <3>1 DEF Transaction, env, PC
    <3>3. ASSUME NEW u \in Test, Registered(u) PROVE {t, u} \notin Clash
      <4>1. Quiet(u) /\ Thread(u)
        BY DEF Still, IInv
      <4>2. Connected(u) /\ HasCompanions(u)
        BY <3>3 DEF Registered, Connected, HasCompanions, Using
      <4>3. Key(u) = Key(t)
        BY <1>1, <1>3, <4>1, <4>2 DEF Quiet, Key
      <4>4. [id |-> conn[u].id, test |-> u] \in store[Key(t)].rows
        BY <3>3, <4>1, <4>3 DEF Thread
      <4>5. {[id |-> conn[u].id, test |-> u].test, t} \notin Clash
        BY <2>2, <4>4 DEF MayStart
      <4>6. {u, t} = {t, u}
        OBVIOUS
      <4>. QED  BY <4>5, <4>6
    <3>4. overlapped' = {}
      BY <1>2, <3>2, <3>3
    <3>5. /\ pc'[t] = "committed" /\ conn'[t].dir = conn[t].dir /\ conn'[t].main = conn[t].main
          /\ conn'[t].comp = conn[t].comp /\ \A u \in Test \ {t} : conn'[u] = conn[u]
      BY <1>1, <3>2 DEF Goto
    <3>6. ~Initializing(t)'
      BY <3>5 DEF Initializing
    <3>7. Quiet(t)'
      BY <1>1, <1>3, <3>2, <3>5 DEF Quiet
    <3>. QED  BY <1>1, <1>2, <3>2, <3>4, <3>5, <3>6, <3>7, StepStill
  <2>. QED  BY <2>1, <2>2
<1>8. CASE DeleteRow(t)
  <2>1. /\ Goto(t, "deleted") /\ "deleted" \in PC
        /\ UNCHANGED <<fs, aside, conn, unwinding, outcome, overlapped, coInits>>
    BY <1>8 DEF DeleteRow, env, history, PC
  <2>2. pc'[t] = "deleted"
    BY <1>1, <2>1 DEF Goto
  <2>3. ~Initializing(t)'
    BY <2>2 DEF Initializing
  <2>4. Quiet(t)'
    BY <1>1, <1>3, <2>1, <2>2 DEF Quiet
  <2>. QED  BY <1>1, <1>2, <2>1, <2>3, <2>4, StepStill
<1>9. CASE CheckAfterDelete(t)
  <2>1. Finish(t, "pass")
    BY <1>1, <1>4, <1>9 DEF CheckAfterDelete, Quiet
  <2>2. /\ Goto(t, "done") /\ "done" \in PC /\ outcome' = [outcome EXCEPT ![t] = "pass"]
        /\ conn' = [conn EXCEPT ![t] = NothingHeld]
        /\ UNCHANGED <<aside, unwinding, overlapped, coInits>>
    BY <2>1 DEF Finish, env, history, PC
  <2>3. /\ pc'[t] = "done" /\ outcome'[t] = "pass"
        /\ \A u \in Test \ {t} : conn'[u] = conn[u] /\ outcome'[u] = outcome[u]
    BY <1>1, <2>2 DEF Goto
  <2>4. /\ fs'.dir = fs.dir /\ fs'.main = fs.main
        /\ \/ fs'.comp = fs.comp
           \/ \A u \in Test \ {t} : Connected(u) => conn[u].main # conn[t].main
    BY <1>1, <2>1 DEF Finish
  <2>5. ASSUME \A u \in Test \ {t} : Connected(u) => conn[u].main # conn[t].main, NEW u \in Test \ {t}
        PROVE  ~HasCompanions(u)
    <3>1. Quiet(u) /\ (HasCompanions(u) => Connected(u))
      BY DEF Still, HasCompanions, Connected
    <3>. QED  BY <1>1, <1>3, <2>5, <3>1 DEF Quiet
  <2>6. ~Initializing(t)' /\ ~Connected(t)' /\ ~HasCompanions(t)'
    BY <2>3 DEF Initializing, Connected, HasCompanions, Using
  <2>7. Quiet(t)'
    BY <1>1, <2>2, <2>3, <2>6 DEF Quiet
  <2>. QED  BY <1>1, <1>2, <2>2, <2>3, <2>4, <2>5, <2>6, <2>7, StepStill
<1>. QED  BY <1>6, <1>7, <1>8, <1>9 DEF UseStep

\* Coordination holds, and the checks stay silent, for a database that nobody
\* deletes, replaces or moves: a thread panics only after a disturbance.
THEOREM ChecksRaiseNoFalseAlarm == Spec => []NoFalseAlarm
<1>1. Init => (moves = 0 => Still)
  BY DEF Init, Still, Quiet, OneInside, Connected, HasCompanions, Using, Initializing
<1>2. IInv /\ (moves = 0 => Still) /\ [Next]_vars => (moves = 0 => Still)'
  <2>1. SUFFICES ASSUME IInv, moves = 0 => Still, [Next]_vars, moves' = 0 PROVE Still'
    OBVIOUS
  <2>2. moves \in Nat
    BY <2>1, MovedDbAssumption DEF IInv, Types, TypeOK
  <2>3. CASE UNCHANGED vars
    BY <2>1, <2>3 DEF vars, Still, Quiet, OneInside, Connected, HasCompanions, Using, Initializing
  <2>4. ASSUME NEW t \in Test, OpenStep(t) \/ UseStep(t) PROVE Still'
    <3>1. moves' = moves
      BY <2>4 DEF OpenStep, UseStep, OpenLockTarget, Flock, Connect, Recheck, EnsurePublished, RecordMain,
             CheckBeforeInit, InitSql, CheckAfterInit, MigrateSchema, WithCompanions, CheckBeforeTxn,
             Transaction, CheckAfterCommit, BodyEnds, CheckBeforeDelete, DeleteRow, CheckAfterDelete,
             Panics, Finish, Proceed, env
    <3>. QED  BY <2>1, <2>4, <3>1, OpenStill, UseStill
  <2>5. ~Environment
    <3>1. ASSUME NEW f, Touch(f) PROVE FALSE
      BY <2>1, <2>2, <3>1 DEF Touch
    <3>2. ~MakeDir
      <4>1. SUFFICES ASSUME MakeDir PROVE FALSE
        OBVIOUS
      <4>2. moves = 0 /\ fs.dir = 0
        BY <2>1, <4>1 DEF MakeDir, env
      <4>. QED  BY <2>1, <4>2 DEF Still, IInv, Files
    <3>. QED  BY <3>1, <3>2 DEF Environment, DeleteDb, DeleteCompanions, MoveDirAside, PutDirBack
  <2>. QED  BY <2>1, <2>3, <2>4, <2>5 DEF Next, Finished
<1>3. (moves = 0 => Still) => NoFalseAlarm
  BY DEF Still, Quiet, NoFalseAlarm
<1>. QED  BY <1>1, <1>2, <1>3, TablesStayApart, PTL DEF Spec
=============================================================================
