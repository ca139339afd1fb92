------------------------------ MODULE MovedDb ------------------------------
(***************************************************************************)
(* A coordination database that is deleted or replaced while tests use it. *)
(*                                                                         *)
(* Each trial thread opens the database under the init lock (a flock on    *)
(* the directory's inode), records which files its connection has, and     *)
(* from then on compares the path with that record before and after every  *)
(* write.  The environment deletes the database or its -wal/-shm           *)
(* companions, or replaces the directory, between any two of those steps.  *)
(*                                                                         *)
(* Files and directories are inode numbers, 0 is "nothing there"; the      *)
(* connection or the lock holds an inode open, so a number is never reused *)
(* while it matters.  -wal and -shm are one companion file.  A table lives *)
(* in a pair <<main, companion>>: connections to the same main file with   *)
(* different companions do not see each other's writes.  <<main, 0>> is    *)
(* what is in the main file itself.  One transaction is one step           *)
(* (Coordination has its inside), as are checks with no write between      *)
(* them; processes do not die here.  Unix only.                            *)
(***************************************************************************)
EXTENDS Integers, FiniteSets

CONSTANTS
  Test,      \* trial threads, each with a connection of its own
  Clash,     \* the pairs {t, u} of tests that may not overlap
  MaxMoves   \* bound: how often the environment touches the files

ASSUME MovedDbAssumption ==
  /\ Clash \subseteq {{t, u} : t, u \in Test}
  /\ MaxMoves \in Nat

VARIABLES
  fs,          \* what the path names: [dir, main, comp]
  aside,       \* the files the environment has moved aside
  moves,       \* how often it has acted
  restored,    \* history: it has put back what it had moved aside
  next,        \* the next unused inode number
  store,       \* the tables: <<main, comp>> -> [rows, seq, version]
  pc,          \* where a thread is
  conn,        \* what it holds: [dir, main, comp, id]
  unwinding,   \* has it panicked with its registration made?
  outcome,     \* how its trial was reported
  overlapped,  \* history: conflicting tests that were registered at once
  coInits      \* history: threads that were inside open_db's lock at once

vars == <<fs, aside, moves, restored, next, store, pc, conn, unwinding, outcome, overlapped, coInits>>
history == <<overlapped, coInits>>
env == <<aside, moves, restored>>

\* Inside with_init_lock ...
Initializing(t) ==
  pc[t] \in {"connect", "recheck", "publish", "record", "precheck", "init",
             "postinit", "migrate", "migrated", "companions"}
\* ... using the connection afterwards ...
Using(t) ==
  pc[t] \in {"check", "txn", "committed", "running", "drop", "delete", "deleted"}
\* ... from COMMIT until the DELETE is done.
Registered(t) == pc[t] \in {"committed", "running", "drop", "delete"}

\* The connection is open.
Connected(t) ==
  \/ Using(t)
  \/ pc[t] \in {"record", "precheck", "init", "postinit", "migrate", "migrated", "companions"}

Key(t) == <<conn[t].main, conn[t].comp>>
NothingHeld == [dir |-> 0, main |-> 0, comp |-> 0, id |-> 0]
EmptyTable == [rows |-> {}, seq |-> 0, version |-> 0]

\* Mutant: a directory that still exists counts as the one that was locked.
SplitOnlyIfGone(t) == conn[t].dir # 0 /\ fs.dir = 0

\* DbIdentity::has_moved before and after the companions are recorded, and
\* InitLockHeld::target_has_split.
MainMoved(t) == fs.main # conn[t].main
HasMoved(t) == MainMoved(t) \/ fs.comp # conn[t].comp
HasSplit(t) == fs.dir # conn[t].dir

Init ==
  /\ fs = [dir |-> 1, main |-> 0, comp |-> 0]
  /\ aside = fs
  /\ moves = 0 /\ restored = FALSE
  /\ next = 2
  /\ store = [k \in {} |-> EmptyTable]
  /\ pc = [t \in Test |-> "idle"]
  /\ conn = [t \in Test |-> NothingHeld]
  /\ unwinding = [t \in Test |-> FALSE]
  /\ outcome = [t \in Test |-> "none"]
  /\ overlapped = {} /\ coInits = {}

Goto(t, l) == pc' = [pc EXCEPT ![t] = l]

\* The table under key k is now v.
Put(k, v) == [j \in DOMAIN store \cup {k} |-> IF j = k THEN v ELSE store[j]]

(***************************************************************************)
(* The trial ends and its connection closes.  SQLite checkpoints and       *)
(* deletes the companions when the last connection to a main file that is  *)
(* still at its path goes.                                                 *)
(***************************************************************************)
Finish(t, result) ==
  /\ Goto(t, "done")
  /\ outcome' = [outcome EXCEPT ![t] = result]
  /\ LET last == /\ conn[t].comp # 0 /\ ~MainMoved(t)
                 /\ \A u \in Test \ {t} : Connected(u) => conn[u].main # conn[t].main
     IN  IF last
         THEN /\ fs' = [fs EXCEPT !.comp = 0]
              /\ store' = Put(<<conn[t].main, 0>>, store[Key(t)])
         ELSE UNCHANGED <<fs, store>>
  /\ conn' = [conn EXCEPT ![t] = NothingHeld]
  /\ UNCHANGED <<env, next, unwinding, history>>

Panics(t) == Finish(t, "fail")

\* On to the next step, nothing else changed.
Proceed(t, l) ==
  /\ Goto(t, l)
  /\ UNCHANGED <<fs, env, next, store, conn, unwinding, outcome, history>>

-----------------------------------------------------------------------------
(* with_init_lock and connect_locked.                                      *)

\* open_lock_target: the directory the path names now.
OpenLockTarget(t) ==
  /\ pc[t] = "idle"
  /\ IF fs.dir = 0 THEN Panics(t)
     ELSE /\ conn' = [conn EXCEPT ![t].dir = fs.dir]
          /\ Goto(t, "flock")
          /\ UNCHANGED <<fs, env, next, store, unwinding, outcome, history>>

\* lock_exclusive: blocks while another thread holds that inode's lock.
Flock(t) ==
  /\ pc[t] = "flock"
  /\ \A u \in Test : Initializing(u) => conn[u].dir # conn[t].dir
  /\ Goto(t, "connect")
  /\ coInits' = coInits \cup {{t, u} : u \in {v \in Test \ {t} : Initializing(v)}}
  /\ UNCHANGED <<fs, env, next, store, conn, unwinding, outcome, overlapped>>

\* connect_with_hooks: the open succeeds, or reports SQLITE_CANTOPEN.
Connect(t) ==
  /\ pc[t] = "connect"
  /\ IF fs.main = 0 THEN Proceed(t, "recheck")
     ELSE /\ conn' = [conn EXCEPT ![t].main = fs.main]
          /\ Goto(t, "record")
          /\ UNCHANGED <<fs, env, next, store, unwinding, outcome, history>>

\* path_is_absent, after the failed open: something there now means a panic.
Recheck(t) ==
  /\ pc[t] = "recheck"
  /\ IF fs.main = 0 THEN Proceed(t, "publish") ELSE Panics(t)

\* ensure_published: an empty file appears unless one is there already; the
\* open is then tried again.
EnsurePublished(t) ==
  /\ pc[t] = "publish"
  /\ IF fs.main # 0 THEN Proceed(t, "connect")
     ELSE IF fs.dir = 0 THEN Panics(t)
     ELSE /\ fs' = [fs EXCEPT !.main = next]
          /\ store' = Put(<<next, 0>>, EmptyTable)
          /\ next' = next + 1
          /\ Goto(t, "connect")
          /\ UNCHANGED <<env, conn, unwinding, outcome, history>>

-----------------------------------------------------------------------------
(* open_db after the connection: record_main, ensure_schema_locked,        *)
(* with_companions.                                                        *)

\* record_main_identity: the connection's own inode, which the path must name.
RecordMain(t) ==
  /\ pc[t] = "record"
  /\ IF MainMoved(t) THEN Panics(t) ELSE Proceed(t, "precheck")

\* The checks inside retry_busy's closure.
CheckBeforeInit(t) ==
  /\ pc[t] = "precheck"
  /\ IF MainMoved(t) \/ HasSplit(t) THEN Panics(t) ELSE Proceed(t, "init")

\* The tables that open connections have of a main file.
OpenTables(main) ==
  {Key(u) : u \in {v \in Test : Connected(v) /\ conn[v].main = main /\ conn[v].comp # 0}}

\* INIT_SQL.  SQLite finds the companions by name, whatever the path names by
\* now, and creates them if there are none.  A main file met with new
\* companions shows what was in it, or what an open connection checkpointed.
InitSql(t) ==
  /\ pc[t] = "init"
  /\ IF fs.dir = 0 THEN Panics(t)
     ELSE LET c == IF fs.comp = 0 THEN next ELSE fs.comp
              k == <<conn[t].main, c>>
          IN  /\ fs' = [fs EXCEPT !.comp = c]
              /\ next' = IF fs.comp = 0 THEN next + 1 ELSE next
              /\ conn' = [conn EXCEPT ![t].comp = c]
              /\ IF k \in DOMAIN store THEN UNCHANGED store
                 ELSE \E j \in {<<conn[t].main, 0>>} \cup OpenTables(conn[t].main) :
                        store' = Put(k, store[j])
              /\ Goto(t, "postinit")
              /\ UNCHANGED <<env, unwinding, outcome, history>>

\* The checks after the write.
CheckAfterInit(t) ==
  /\ pc[t] = "postinit"
  /\ IF MainMoved(t) \/ HasSplit(t) THEN Panics(t) ELSE Proceed(t, "migrate")

\* migrate_schema: nothing to check or do once the version is current.
MigrateSchema(t) ==
  /\ pc[t] = "migrate"
  /\ IF store[Key(t)].version >= 1 THEN Proceed(t, "companions")
     ELSE IF MainMoved(t) THEN Panics(t)
     ELSE /\ store' = [store EXCEPT ![Key(t)].version = 1]
          /\ Goto(t, "migrated")
          /\ UNCHANGED <<fs, env, next, conn, unwinding, outcome, history>>

\* The checks after the migration, if there was one; with_companions: the
\* companions at the path must be the connection's own; the last check of the
\* lock; the lock is released.
WithCompanions(t) ==
  /\ pc[t] \in {"migrated", "companions"}
  /\ IF (pc[t] = "migrated" /\ MainMoved(t)) \/ HasSplit(t) \/ fs.comp # conn[t].comp
     THEN Panics(t) ELSE Proceed(t, "check")

-----------------------------------------------------------------------------
(* coordinate's loop, and TestRegistration's Drop.                         *)

\* panic_if_moved before each transaction.
CheckBeforeTxn(t) ==
  /\ pc[t] = "check"
  /\ IF HasMoved(t) THEN Panics(t) ELSE Proceed(t, "txn")

MayStart(t) == \A r \in store[Key(t)].rows : {r.test, t} \notin Clash

\* can_start, then register and COMMIT, or ROLLBACK and another round.
Transaction(t) ==
  /\ pc[t] = "txn"
  /\ IF ~MayStart(t) THEN Proceed(t, "check")
     ELSE LET id == store[Key(t)].seq + 1
          IN  /\ store' = [store EXCEPT ![Key(t)].seq = id,
                                        ![Key(t)].rows = @ \cup {[id |-> id, test |-> t]}]
              /\ conn' = [conn EXCEPT ![t].id = id]
              /\ overlapped' = overlapped \cup {{t, u} : u \in {v \in Test : Registered(v) /\ {t, v} \in Clash}}
              /\ Goto(t, "committed")
              /\ UNCHANGED <<fs, env, next, unwinding, outcome, coInits>>

\* panic_if_moved after COMMIT; the panic unwinds through Drop.
CheckAfterCommit(t) ==
  /\ pc[t] = "committed"
  /\ IF HasMoved(t)
     THEN /\ unwinding' = [unwinding EXCEPT ![t] = TRUE]
          /\ Goto(t, "drop")
          /\ UNCHANGED <<fs, env, next, store, conn, outcome, history>>
     ELSE Proceed(t, "running")

BodyEnds(t) ==
  /\ pc[t] = "running"
  /\ Proceed(t, "drop")

\* panic_if_moved inside Drop's retry_busy.
CheckBeforeDelete(t) ==
  /\ pc[t] = "drop"
  /\ IF HasMoved(t) THEN Panics(t) ELSE Proceed(t, "delete")

\* Mutant: Drop deletes through a fresh connection to the path.
DeleteReconnected(t) ==
  /\ pc[t] = "delete"
  /\ LET k == <<fs.main, fs.comp>>
     IN  store' = IF k \in DOMAIN store
                  THEN [store EXCEPT ![k].rows = {r \in @ : r.id # conn[t].id}]
                  ELSE store
  /\ Goto(t, "deleted")
  /\ UNCHANGED <<fs, env, next, conn, unwinding, outcome, history>>

\* DELETE ... WHERE id = ?, through the connection the row was inserted on.
DeleteRow(t) ==
  /\ pc[t] = "delete"
  /\ store' = [store EXCEPT ![Key(t)].rows = {r \in @ : r.id # conn[t].id}]
  /\ Goto(t, "deleted")
  /\ UNCHANGED <<fs, env, next, conn, unwinding, outcome, history>>

\* Mutant: Drop does not look again after its DELETE.
NoCheckAfterDelete(t) ==
  /\ pc[t] = "deleted"
  /\ Finish(t, IF unwinding[t] THEN "fail" ELSE "pass")

\* panic_if_moved after the DELETE.
CheckAfterDelete(t) ==
  /\ pc[t] = "deleted"
  /\ Finish(t, IF HasMoved(t) \/ unwinding[t] THEN "fail" ELSE "pass")

-----------------------------------------------------------------------------
(* The environment.                                                        *)

Touch(files) ==
  /\ moves < MaxMoves
  /\ moves' = moves + 1
  /\ fs' = files
  /\ UNCHANGED <<store, pc, conn, unwinding, outcome, history>>

\* rm .skuld.db*
DeleteDb ==
  /\ fs.main # 0
  /\ Touch([fs EXCEPT !.main = 0, !.comp = 0])
  /\ UNCHANGED <<aside, restored, next>>

\* rm .skuld.db-wal .skuld.db-shm
DeleteCompanions ==
  /\ fs.comp # 0
  /\ Touch([fs EXCEPT !.comp = 0])
  /\ UNCHANGED <<aside, restored, next>>

\* The directory is moved aside and is missing for a while ...
MoveDirAside ==
  /\ fs.dir # 0
  /\ Touch([dir |-> 0, main |-> 0, comp |-> 0])
  /\ aside' = fs
  /\ UNCHANGED <<restored, next>>

\* ... until there is an empty one in its place ...
MakeDir ==
  /\ fs.dir = 0
  /\ fs' = [fs EXCEPT !.dir = next]
  /\ next' = next + 1
  /\ UNCHANGED <<env, store, pc, conn, unwinding, outcome, history>>

\* ... or the old one is put back, whatever has taken its place.
PutDirBack ==
  /\ fs.dir # aside.dir
  /\ Touch(aside)
  /\ restored' = TRUE
  /\ UNCHANGED <<aside, next>>

-----------------------------------------------------------------------------

OpenStep(t) ==
  \/ OpenLockTarget(t) \/ Flock(t) \/ Connect(t) \/ Recheck(t) \/ EnsurePublished(t)
  \/ RecordMain(t) \/ CheckBeforeInit(t) \/ InitSql(t) \/ CheckAfterInit(t)
  \/ MigrateSchema(t) \/ WithCompanions(t)

UseStep(t) ==
  \/ CheckBeforeTxn(t) \/ Transaction(t) \/ CheckAfterCommit(t) \/ BodyEnds(t)
  \/ CheckBeforeDelete(t) \/ DeleteRow(t) \/ CheckAfterDelete(t)

Environment == DeleteDb \/ DeleteCompanions \/ MoveDirAside \/ MakeDir \/ PutDirBack

Finished ==
  /\ \A t \in Test : pc[t] = "done"
  /\ UNCHANGED vars

Next == (\E t \in Test : OpenStep(t) \/ UseStep(t)) \/ Environment \/ Finished

Spec == Init /\ [][Next]_vars
-----------------------------------------------------------------------------
(* Properties.                                                             *)

PC == {"idle", "flock", "connect", "recheck", "publish", "record", "precheck", "init",
       "postinit", "migrate", "migrated", "companions", "check", "txn", "committed", "running",
       "drop", "delete", "deleted", "done"}

Inode == 0 .. next - 1

TypeOK ==
  /\ fs \in [dir : Inode, main : Inode, comp : Inode]
  /\ aside \in [dir : Inode, main : Inode, comp : Inode]
  /\ moves \in 0 .. MaxMoves /\ restored \in BOOLEAN
  /\ next \in Nat
  /\ DOMAIN store \subseteq Inode \X Inode
  /\ \A k \in DOMAIN store :
       /\ store[k].rows \subseteq [id : 1 .. store[k].seq, test : Test]
       /\ store[k].version \in {0, 1}
  /\ pc \in [Test -> PC]
  /\ conn \in [Test -> [dir : Inode, main : Inode, comp : Inode, id : Nat]]
  /\ unwinding \in [Test -> BOOLEAN]
  /\ outcome \in [Test -> {"none", "pass", "fail"}]

\* Two conflicting tests that ran at once, because the database was moved
\* between their registrations, are never both reported as passed: the checks
\* around COMMIT and around DELETE see the move in at least one of them.  They
\* compare the present with the record, so a directory that is moved aside and
\* put back between two checks is the exception.  (TypeOK: no row's id is
\* above its file's sequence.)
OverlapIsReported ==
  /\ TypeOK
  /\ ~restored => \A t, u \in Test : {t, u} \in overlapped => ~(outcome[t] = "pass" /\ outcome[u] = "pass")

\* A DELETE takes its own test's row only, though ids start again from 1 in a
\* recreated file (TestRegistration owns the connection the id is from).
OwnRowOnly ==
  [][\A k \in DOMAIN store :
       \A r \in store[k].rows \ store'[k].rows :
         pc[r.test] = "delete" /\ pc'[r.test] = "deleted"]_vars

\* open_db has returned a connection to this thread.
Opened(t) == Using(t) \/ outcome[t] = "pass"

\* Two threads that were inside the init lock at once, because the directory
\* was replaced under the lock, do not both come out with a connection,
\* with the same exception.
SplitLockIsReported ==
  ~restored => \A t, u \in Test : t # u /\ {t, u} \in coInits => ~(Opened(t) /\ Opened(u))
=============================================================================
