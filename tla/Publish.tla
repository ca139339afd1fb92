------------------------------ MODULE Publish ------------------------------
(***************************************************************************)
(* From the name of a process's database to a file that exists: db_path,   *)
(* the directory that SKULD_DB_DIR asks for, and the database file, both   *)
(* published as a temp entry, a chmod and a rename that does not replace.  *)
(*                                                                         *)
(* A path is a sequence of names.  Directories and the file go through the *)
(* same steps; `Last(missing)` is the one being made.  Modes are "open to  *)
(* every user" or "the owner's".  A process opens the file under its       *)
(* directory's init lock; `split` says that the lock excludes nobody, as   *)
(* after its directory was replaced (see MovedDb).                         *)
(***************************************************************************)
EXTENDS Integers, Sequences, FiniteSets, SequencesExt

CONSTANTS
  Proc,
  Name,        \* names of files and directories; a path is a sequence of them
  User,        \* User[p]: the uid p runs as
  Override,    \* Override[p]: SKULD_DB_DIR of p, or <<>>
  Exe,         \* Exe[p]: canonical path of p's executable
  Hashed,      \* the processes whose executable is called name-<16 hex digits>
  Marked,      \* the directories with .fingerprint, or beside a CACHEDIR.TAG
  Before,      \* entries there at the start: path -> [by, user, open]
  TempName,    \* candidate names
  Home,        \* Home[p]: the SKULD_DB_DIR, cargo profile or directory p belongs to
  Casts,       \* the sets of processes that run together
  MaxFaults    \* bound on failing system calls

ASSUME PublishAssumption ==
  /\ {"deps", "examples", "build", "out", ".skuld.db"} \subseteq Name
  /\ Override \in [Proc -> Seq(Name)] /\ Exe \in [Proc -> Seq(Name)]
  /\ \A p \in Proc : Override[p] # <<>> \/ Exe[p] # <<>>
  /\ "old" \notin Proc /\ "" \notin TempName
  /\ \A x \in DOMAIN Before :
       /\ x \in Seq(Name) /\ Before[x].by = "old" /\ Before[x].open \in BOOLEAN
       /\ Len(x) > 1 => Front(x) \in DOMAIN Before
  /\ MaxFaults \in Nat

\* What it is to belong to a directory: SKULD_DB_DIR names it, cargo put the
\* executable into one of its three places below it and something says that it
\* was cargo, or the executable is in it and its name is none of cargo's.
ASSUME HomeAssumption ==
  \A p \in Proc : LET h == Home[p] IN
    /\ h \in Seq(Name) /\ h # <<>>
    /\ \/ Override[p] = h
       \/ /\ Override[p] = <<>> /\ (p \in Hashed \/ h \in Marked)
          /\ \/ \E d \in {"deps", "examples"} : Front(Exe[p]) = Append(h, d)
             \/ /\ Len(Exe[p]) = Len(h) + 5 /\ IsPrefix(h, Exe[p])
                /\ Exe[p][Len(h) + 1] = "build" /\ Exe[p][Len(h) + 4] = "out"
       \/ /\ Override[p] = <<>> /\ Front(Exe[p]) = h
          /\ Last(h) \notin {"deps", "examples", "out"}

VARIABLES
  pc,        \* "idle", "scan", "temp", "chmod", "verify", "rename", "discard", "usable",
             \* "lock", "open", "recheck", "lstat", "done", "failed", "crashed"
  missing,   \* missing[p]: paths still to be made, the next one last
  temp,      \* temp[p]: the name of p's temp entry, or ""
  tried,     \* tried[p]: names found taken
  created,   \* created[p]: did create_dir_all_open succeed?
  conn,      \* conn[p]: who published the file p has opened, or ""
  fs,        \* path -> [by: the publishing process, user: the owner, open: BOOLEAN]
  temps,     \* temp entries: [dir, name, by, open]
  split,     \* does the init lock exclude nobody?
  keeps,     \* does the file system keep modes?
  hit,       \* processes a system call has failed for (history variable)
  kept       \* temps whose removal failed (history variable)

local == <<pc, missing, temp, tried, created, conn>>
vars == <<local, fs, temps, split, keeps, hit, kept>>

-----------------------------------------------------------------------------
(* Where the database is.                                                  *)

\* Mutant: examples are not looked at.
LayoutDepsOnly(p) ==
  LET parent == Front(Exe[p])
      Is(x, name) == x # <<>> /\ Last(x) = name
      StepUp(profile) == p \in Hashed \/ profile \in Marked
  IN  IF Is(parent, "deps") /\ StepUp(Front(parent)) THEN Front(parent) ELSE parent

\* <profile>/deps/<exe>, <profile>/examples/<exe> and
\* <profile>/build/<pkg>/<hash>/out/<exe> belong to <profile>, if anything
\* says that it is cargo's; every other executable to its own directory.
LayoutDir(p) ==
  LET parent == Front(Exe[p])
      Is(x, name) == x # <<>> /\ Last(x) = name
      StepUp(profile) == p \in Hashed \/ profile \in Marked
      Up(x, n) == SubSeq(x, 1, Len(x) - n)
  IN  IF (Is(parent, "deps") \/ Is(parent, "examples")) /\ StepUp(Front(parent))
        THEN Front(parent)
      ELSE IF /\ Is(parent, "out") /\ Len(parent) > 4
              /\ Is(Up(parent, 3), "build") /\ StepUp(Up(parent, 4))
        THEN Up(parent, 4)
      ELSE parent

Dir(p) == IF Override[p] # <<>> THEN Override[p] ELSE LayoutDir(p)
DbPath(p) == Append(Dir(p), ".skuld.db")

\* Of what SKULD_DB_DIR names something exists, if only the root; executables
\* are in directories; and nobody asks for a directory where another looks for
\* the database file.
ASSUME DirAssumption ==
  \A p \in Proc :
    /\ IF Override[p] # <<>>
       THEN \E n \in 1..Len(Dir(p)) : SubSeq(Dir(p), 1, n) \in DOMAIN Before
       ELSE Dir(p) \in DOMAIN Before
    /\ \A q \in Proc : ~IsPrefix(DbPath(q), Dir(p))

Target(p) == Last(missing[p])
IsFile(p) == Target(p) = DbPath(p)
Usable(p, x) == x \in DOMAIN fs /\ (fs[x].open \/ fs[x].user = User[p])

Ended == {"done", "failed", "crashed"}

\* Mutant: a lock that outlives its process.
InSectionSticky(p) ==
  \/ pc[p] \in {"open", "recheck", "lstat"}
  \/ pc[p] # "done" /\ missing[p] # <<>> /\ IsFile(p)

\* p holds the init lock of its directory.
InSection(p) ==
  \/ pc[p] \in {"open", "recheck", "lstat"}
  \/ pc[p] \notin Ended /\ missing[p] # <<>> /\ IsFile(p)

-----------------------------------------------------------------------------
Init ==
  /\ \E cast \in Casts :
       pc = [p \in Proc |-> IF p \notin cast THEN "idle"
                            ELSE IF Override[p] # <<>> THEN "scan" ELSE "usable"]
  /\ missing = [p \in Proc |-> <<>>]
  /\ temp = [p \in Proc |-> ""]
  /\ tried = [p \in Proc |-> {}]
  /\ created = [p \in Proc |-> TRUE]
  /\ conn = [p \in Proc |-> ""]
  /\ fs = Before /\ temps = {} /\ hit = {} /\ kept = {}
  /\ split \in BOOLEAN /\ keeps \in BOOLEAN

Goto(p, where) == pc' = [pc EXCEPT ![p] = where]

\* Where a failed step leads: resolve looks at the directory before it
\* reports that creating it failed; publish panics.
GiveUp(p) ==
  /\ Goto(p, IF IsFile(p) THEN "failed" ELSE "usable")
  /\ created' = [created EXCEPT ![p] = FALSE]
  /\ missing' = [missing EXCEPT ![p] = <<>>]
  /\ temp' = [temp EXCEPT ![p] = ""]
  /\ UNCHANGED <<tried, conn>>

Fault(p) == Cardinality(hit \cup {p}) <= MaxFaults /\ hit' = hit \cup {p}

Mine(p) == {t \in temps : t.by = p /\ t.dir = Front(Target(p)) /\ t.name = temp[p]}
Removed(p) == temps' = temps \ Mine(p) /\ UNCHANGED kept
NotRemoved(p) == kept' = kept \cup Mine(p) /\ UNCHANGED temps

\* Something is wrong with the temp: it is removed, if that works.
Fails(p) ==
  /\ Removed(p) \/ NotRemoved(p)
  /\ GiveUp(p)
  /\ UNCHANGED <<fs, split, keeps>>

-----------------------------------------------------------------------------
(* create_dir_all_open: which levels are missing?  One look per level.     *)
Scan(p) ==
  LET cur == SubSeq(Dir(p), 1, Len(Dir(p)) - Len(missing[p]))
  IN  /\ pc[p] = "scan"
      /\ IF cur \in DOMAIN fs
         THEN /\ Goto(p, IF missing[p] = <<>> THEN "usable" ELSE "temp")
              /\ UNCHANGED missing
         ELSE /\ missing' = [missing EXCEPT ![p] = Append(@, cur)]
              /\ UNCHANGED pc
      /\ UNCHANGED <<temp, tried, created, conn, fs, temps, split, keeps, hit, kept>>

\* One candidate name: O_EXCL or mkdir, private to the owner.  A taken name
\* is never tried again, since every name carries a new counter value.
CreateTemp(p, n) ==
  /\ pc[p] = "temp" /\ n \notin tried[p]
  /\ IF \E t \in temps : t.dir = Front(Target(p)) /\ t.name = n
     THEN /\ tried' = [tried EXCEPT ![p] = @ \cup {n}]
          /\ UNCHANGED <<pc, temp, temps>>
     ELSE /\ temps' = temps \cup {[dir |-> Front(Target(p)), name |-> n, by |-> p, open |-> FALSE]}
          /\ temp' = [temp EXCEPT ![p] = n]
          /\ Goto(p, "chmod")
          /\ UNCHANGED tried
  /\ UNCHANGED <<missing, created, conn, fs, split, keeps, hit, kept>>

CreateTempFails(p) ==
  /\ pc[p] = "temp"
  /\ Fault(p) /\ GiveUp(p)
  /\ UNCHANGED <<fs, temps, split, keeps, kept>>

\* Mutant: the mode is widened after the rename, as a plain create would.
ChmodLater(p) ==
  /\ pc[p] = "chmod"
  /\ Goto(p, "rename")
  /\ UNCHANGED <<missing, temp, tried, created, conn, fs, temps, split, keeps, hit, kept>>

\* fchmod to 0666, or set_permissions to 0777.
Chmod(p) ==
  /\ pc[p] = "chmod"
  /\ temps' = (temps \ Mine(p)) \cup {[t EXCEPT !.open = keeps] : t \in Mine(p)}
  /\ Goto(p, IF IsFile(p) THEN "verify" ELSE "rename")
  /\ UNCHANGED <<missing, temp, tried, created, conn, fs, split, keeps, hit, kept>>

ChmodFails(p) == pc[p] = "chmod" /\ Fault(p) /\ Fails(p)

\* fstat: only the file's mode is looked at.
Verify(p) ==
  /\ pc[p] = "verify"
  /\ \A t \in Mine(p) : t.open
  /\ Goto(p, "rename")
  /\ UNCHANGED <<missing, temp, tried, created, conn, fs, temps, split, keeps, hit, kept>>

VerifyFails(p) == pc[p] = "verify" /\ Fault(p) /\ Fails(p)

\* The file system did not keep the mode.
BadMode(p) ==
  /\ pc[p] = "verify"
  /\ \E t \in Mine(p) : ~t.open
  /\ Fails(p) /\ UNCHANGED hit

\* The next level, or, after the directories, the usability check; after the
\* file, open again.
Proceed(p) ==
  /\ missing' = [missing EXCEPT ![p] = Front(@)]
  /\ temp' = [temp EXCEPT ![p] = ""]
  /\ tried' = [tried EXCEPT ![p] = {}]
  /\ Goto(p, IF IsFile(p) THEN "open" ELSE IF Len(missing[p]) > 1 THEN "temp" ELSE "usable")

Rename(p) ==
  /\ pc[p] = "rename" /\ Target(p) \notin DOMAIN fs
  /\ \E t \in Mine(p) :
       fs' = [x \in DOMAIN fs \cup {Target(p)} |->
                IF x = Target(p) THEN [by |-> p, user |-> User[p], open |-> t.open] ELSE fs[x]]
  /\ temps' = temps \ Mine(p)
  /\ Proceed(p)
  /\ UNCHANGED <<created, conn, split, keeps, hit, kept>>

\* Mutant: a lost race is an error.
RenameLosesFails(p) ==
  /\ pc[p] = "rename" /\ Target(p) \in DOMAIN fs
  /\ Removed(p) /\ GiveUp(p)
  /\ UNCHANGED <<fs, split, keeps, hit>>

\* EEXIST: somebody else was first.
RenameLoses(p) ==
  /\ pc[p] = "rename" /\ Target(p) \in DOMAIN fs
  /\ Goto(p, "discard")
  /\ UNCHANGED <<missing, temp, tried, created, conn, fs, temps, split, keeps, hit, kept>>

RenameFails(p) == pc[p] = "rename" /\ Fault(p) /\ Fails(p)

\* Mutant: the loser's temp is forgotten.
DiscardNot(p) ==
  /\ pc[p] = "discard"
  /\ Proceed(p)
  /\ UNCHANGED <<created, conn, fs, temps, split, keeps, hit, kept>>

Discard(p) ==
  /\ pc[p] = "discard"
  /\ Removed(p) /\ Proceed(p)
  /\ UNCHANGED <<created, conn, fs, split, keeps, hit>>

\* A temp file that cannot be removed is ignored; a temp directory is an error.
DiscardFails(p) ==
  /\ pc[p] = "discard"
  /\ Fault(p) /\ NotRemoved(p)
  /\ IF IsFile(p) THEN Proceed(p) /\ UNCHANGED <<created, conn>> ELSE GiveUp(p)
  /\ UNCHANGED <<fs, split, keeps>>

-----------------------------------------------------------------------------
(* check_usable, then the error of create_dir_all_open, if there was one.  *)
CheckUsable(p) ==
  /\ pc[p] = "usable"
  /\ Goto(p, IF Usable(p, Dir(p)) /\ created[p] THEN "lock" ELSE "failed")
  /\ UNCHANGED <<missing, temp, tried, created, conn, fs, temps, split, keeps, hit, kept>>

WithInitLock(p) ==
  /\ pc[p] = "lock"
  /\ split \/ \A q \in Proc \ {p} : Dir(q) = Dir(p) => ~InSection(q)
  /\ Goto(p, "open")
  /\ UNCHANGED <<missing, temp, tried, created, conn, fs, temps, split, keeps, hit, kept>>

\* The open without SQLITE_OPEN_CREATE.  A file of another user that is not
\* open to all cannot be opened, and is not absent: connect_with panics.
Open(p) ==
  /\ pc[p] = "open"
  /\ IF DbPath(p) \notin DOMAIN fs THEN Goto(p, "recheck") /\ UNCHANGED conn
     ELSE IF Usable(p, DbPath(p))
       THEN Goto(p, "done") /\ conn' = [conn EXCEPT ![p] = fs[DbPath(p)].by]
     ELSE Goto(p, "failed") /\ UNCHANGED conn
  /\ UNCHANGED <<missing, temp, tried, created, fs, temps, split, keeps, hit, kept>>

\* path_is_absent.  A file that appeared after the open failed is a panic;
\* under the lock there is none.
Recheck(p) ==
  /\ pc[p] = "recheck"
  /\ Goto(p, IF DbPath(p) \in DOMAIN fs THEN "failed" ELSE "lstat")
  /\ UNCHANGED <<missing, temp, tried, created, conn, fs, temps, split, keeps, hit, kept>>

\* ensure_published's own look: a file that appeared is used.
Lstat(p) ==
  /\ pc[p] = "lstat"
  /\ IF DbPath(p) \in DOMAIN fs
     THEN Goto(p, "open") /\ UNCHANGED missing
     ELSE Goto(p, "temp") /\ missing' = [missing EXCEPT ![p] = <<DbPath(p)>>]
  /\ UNCHANGED <<temp, tried, created, conn, fs, temps, split, keeps, hit, kept>>

\* The process dies; what it has made stays, and its lock is free.
Crash(p) ==
  /\ pc[p] \notin Ended \cup {"idle"}
  /\ Goto(p, "crashed")
  /\ UNCHANGED <<missing, temp, tried, created, conn, fs, temps, split, keeps, hit, kept>>

Finished ==
  /\ \A p \in Proc : pc[p] \in Ended \cup {"idle"}
  /\ UNCHANGED vars

Step(p) ==
  \/ Scan(p) \/ (\E n \in TempName : CreateTemp(p, n)) \/ Chmod(p)
  \/ Verify(p) \/ BadMode(p) \/ Rename(p) \/ RenameLoses(p) \/ Discard(p)
  \/ CheckUsable(p) \/ WithInitLock(p) \/ Open(p) \/ Recheck(p) \/ Lstat(p)

Next ==
  \/ \E p \in Proc :
       \/ Step(p) \/ CreateTempFails(p) \/ ChmodFails(p) \/ VerifyFails(p)
       \/ RenameFails(p) \/ DiscardFails(p) \/ Crash(p)
  \/ Finished

\* A process goes on unless it dies; flock waits for a holder that ends.
Spec == Init /\ [][Next]_vars /\ \A p \in Proc : WF_vars(Step(p))

-----------------------------------------------------------------------------
TypeOK ==
  /\ pc \in [Proc -> Ended \cup {"idle", "scan", "temp", "chmod", "verify", "rename", "discard",
                                  "usable", "lock", "open", "recheck", "lstat"}]
  /\ \A p \in Proc : temp[p] \in TempName \cup {""} /\ tried[p] \subseteq TempName
  /\ \A x \in DOMAIN fs : fs[x].by \in Proc \cup {"old"} /\ fs[x].open \in BOOLEAN
  /\ \A t, u \in temps : t.dir = u.dir /\ t.name = u.name => t = u
  /\ hit \subseteq Proc /\ created \in [Proc -> BOOLEAN]

\* On a file system that ignores modes a directory's mode says nothing; the
\* file's is checked there too.
Shown == [x \in DOMAIN fs |->
            fs[x].open \/ (~keeps /\ fs[x].by # "old" /\ x \notin {DbPath(p) : p \in Proc})]
Paths == UNION {{SubSeq(DbPath(p), 1, n) : n \in 1..Len(DbPath(p))} : p \in Proc}
Atomic == INSTANCE AtomicPublish WITH
  Path <- Paths, Before <- [x \in DOMAIN Before |-> Before[x].open], entries <- Shown

\* Whatever the processes do, and wherever they die, directories and the
\* database file appear in one step, already open to every user, and are never
\* replaced: publish_one and create_dir_all_open refine AtomicPublish.
ImplementsAtomicPublish == Atomic!Spec

\* All binaries of one cargo profile, or with one SKULD_DB_DIR, end up in the
\* same database file, whoever published it, from whatever directory they run
\* and whether or not the lock held.
OneDatabase ==
  \A p, q \in Proc :
    pc[p] = "done" /\ pc[q] = "done" /\ Home[p] = Home[q] =>
      DbPath(p) = DbPath(q) /\ conn[p] = conn[q]

\* A process fails to get a database only for a reason of its own: a failing
\* call, a file system without modes, an old entry closed to it, or a file that
\* appears under a split lock.  Losing a race is no reason, nor is another
\* process's death or failure.
NobodyIsTurnedAway ==
  \A p \in Proc : pc[p] = "failed" =>
    \/ p \in hit \/ ~keeps \/ split
    \/ \E x \in DOMAIN Before : IsPrefix(x, DbPath(p)) /\ ~Usable(p, x)

\* A temp entry outlives its use only if its process died or its removal
\* failed; every error path and every lost race cleans up, and no two temp
\* entries ever share a name (TypeOK).
NoLitter ==
  TypeOK /\ \A t \in temps : t \in kept \/ pc[t.by] = "crashed" \/ (pc[t.by] \notin Ended /\ t \in Mine(t.by))

\* Every process gets its database, reports why not, or dies; nobody waits for
\* a lock whose holder is gone, or goes through names for ever.
EveryOpenerEnds ==
  \A p \in Proc : pc[p] # "idle" ~> pc[p] \in Ended
=============================================================================
