---------------------------- MODULE CaptureProofs ----------------------------
(***************************************************************************)
(* Proofs about Capture for any number of trials, any amount of output,    *)
(* any size of a pipe and any set of system calls that may fail.           *)
(***************************************************************************)
EXTENDS Capture, SequenceTheorems, TLAPS

\* What a chunk or a line can be.
Names == Streams \cup {"name", "starting", "broken", "fatal", "warning", "captured",
                       "end capture", "pass", "fail", "unspawned", "result"}
Item == [by : Nat, stream : Names, num : Nat]

LEMMA ItemTypes ==
  /\ \A n \in Nat, w \in Names : Line(n, w) \in Item
  /\ \A n \in Nat, s \in Streams, k \in Nat : Chunk(n, s, k) \in Item
BY DEF Line, Chunk, Item, Names

LEMMA LineTypes ==
  ASSUME NEW n \in Trials
  PROVE  /\ Line(n, "name") \in Item /\ Line(n, "starting") \in Item /\ Line(n, "broken") \in Item
         /\ Line(n, "fatal") \in Item /\ Line(n, "warning") \in Item /\ Line(n, "captured") \in Item
         /\ Line(n, "end capture") \in Item /\ Line(n, "pass") \in Item /\ Line(n, "fail") \in Item
         /\ Line(n, "unspawned") \in Item /\ Line(n, "result") \in Item
<1>1. n \in Nat
  BY CaptureAssumption DEF Trials
<1>2. /\ "name" \in Names /\ "starting" \in Names /\ "broken" \in Names /\ "fatal" \in Names
      /\ "warning" \in Names /\ "captured" \in Names /\ "end capture" \in Names
      /\ "pass" \in Names /\ "fail" \in Names /\ "unspawned" \in Names /\ "result" \in Names
  BY DEF Names
<1>. QED  BY <1>1, <1>2, ItemTypes

LEMMA Sizes ==
  /\ PipeSize \in Nat \ {0}
  /\ \A n \in Trials, s \in Streams : MaxWrites[n][s] \in Nat
  /\ "out" \in Streams /\ "err" \in Streams /\ "child" \in Streams
BY CaptureAssumption DEF Trials, Streams

Terminal == fd[1] = 0 /\ fd[2] = 0
Redirected == fd[1] = trial /\ fd[2] = trial

Places == {"idle", "flushBegin", "save", "pipe", "dup2out", "dup2err", "spawnDrain",
           "fatal", "spawnTrial", "body", "flushEnd", "restore", "join", "verdict",
           "report", "over"}

TypedRun ==
  /\ trial \in 0 .. NTrials /\ pc \in Places
  /\ status \in {"running", "aborted", "died", "exited"}
  /\ fd \in [{1, 2} -> 0 .. NTrials] /\ saved \in BOOLEAN /\ writer \in BOOLEAN
  /\ reader \in [Trials -> {"none", "draining", "done", "failed", "unspawned"}]
  /\ child \in [Trials -> BOOLEAN]
  /\ verdict \in [Trials -> {"none", "pass", "fail", "unspawned"}]

TypedIO ==
  /\ wrote \in [Trials -> [Streams -> Nat]]
  /\ obuf \in Seq(Item) /\ term \in Seq(Item)
  /\ pipe \in [Trials -> Seq(Item)] /\ got \in [Trials -> Seq(Item)]

\* Where the descriptors point, and what is open, at each place of the runner.
Stage ==
  /\ status = "running" <=> pc # "over"
  /\ pc # "idle" => trial # 0
  /\ writer => pc \in {"dup2out", "dup2err", "over"}
  /\ pc \in {"idle", "flushBegin", "save", "join", "verdict"} => Terminal /\ ~saved
  /\ pc \in {"pipe", "dup2out"} => Terminal
  /\ pc = "dup2err" => fd[1] = trial /\ fd[2] = 0
  /\ pc \in {"spawnDrain", "spawnTrial", "body", "flushEnd", "restore"} => Redirected
  /\ pc = "fatal" => Terminal \/ (Redirected /\ reader[trial] = "unspawned")
  /\ pc = "report" => \/ Terminal /\ ~saved /\ reader[trial] # "unspawned"
                      \/ Redirected /\ reader[trial] = "unspawned"

\* How far the drain thread is: of the trials before and after the current one ...
Past ==
  \A n \in Trials :
    /\ n > trial => reader[n] = "none"
    /\ n < trial /\ pc # "over" => reader[n] \in {"done", "failed"}

\* ... and of the current one.
Now ==
  trial # 0 =>
    /\ pc \in {"idle", "verdict"} => reader[trial] \in {"done", "failed"}
    /\ pc \in {"flushBegin", "save", "pipe", "dup2out", "dup2err", "spawnDrain"} =>
         reader[trial] = "none"
    /\ pc = "fatal" => reader[trial] \in {"none", "unspawned"}
    /\ pc \in {"spawnTrial", "body", "flushEnd", "restore"} => reader[trial] \in {"draining", "failed"}
    /\ pc = "join" => reader[trial] \in {"draining", "done", "failed"}
    /\ pc = "report" => reader[trial] \in {"done", "failed", "unspawned"}

\* Nobody writes into a pipe before or after it is drained, and a drain that is
\* done has left nothing in it.
Closed ==
  \A n \in Trials : reader[n] \in {"none", "unspawned", "done"} => ~child[n] /\ pipe[n] = <<>>

\* The stdout buffer holds at most the trial's output while the trial runs, and
\* is empty whenever the descriptors are swapped in.
Buffer ==
  /\ pc \in {"idle", "save", "pipe", "dup2out", "dup2err", "spawnDrain", "spawnTrial", "fatal"} =>
       obuf = <<>>
  /\ pc \in {"body", "flushEnd"} => Len(obuf) <= wrote[trial]["out"]

Bounds ==
  /\ \A n \in Trials, s \in Streams : wrote[n][s] <= MaxWrites[n][s]
  /\ \A n \in Trials : Len(pipe[n]) <= PipeSize + MaxWrites[n]["out"]

Control == TypedRun /\ TypedIO /\ Stage /\ Past /\ Now /\ Closed /\ Buffer /\ Bounds

-----------------------------------------------------------------------------
(* Every step keeps the control invariant.                                 *)

LEMMA InTrial ==
  ASSUME TypedRun, Stage, pc # "idle"
  PROVE  trial \in Trials
BY CaptureAssumption DEF TypedRun, Stage, Trials

\* The facts about sequences of items that the steps need.
LEMMA SeqFacts ==
  /\ <<>> \in Seq(Item) /\ Len(<<>>) = 0
  /\ \A q, c \in Seq(Item) : q \o c \in Seq(Item) /\ Len(q \o c) = Len(q) + Len(c)
  /\ \A q \in Seq(Item), x \in Item : Append(q, x) \in Seq(Item) /\ Len(Append(q, x)) = Len(q) + 1
  /\ \A x \in Item : <<x>> \in Seq(Item) /\ Len(<<x>>) = 1
  /\ \A q \in Seq(Item) : Len(q) \in Nat
  /\ \A q \in Seq(Item) : q # <<>> =>
       Head(q) \in Item /\ Tail(q) \in Seq(Item) /\ Len(Tail(q)) = Len(q) - 1
<1>1. /\ <<>> \in Seq(Item) /\ Len(<<>>) = 0
      /\ \A q, c \in Seq(Item) : q \o c \in Seq(Item) /\ Len(q \o c) = Len(q) + Len(c)
  OBVIOUS
<1>2. /\ \A q \in Seq(Item), x \in Item : Append(q, x) \in Seq(Item) /\ Len(Append(q, x)) = Len(q) + 1
      /\ \A x \in Item : <<x>> \in Seq(Item) /\ Len(<<x>>) = 1
      /\ \A q \in Seq(Item) : Len(q) \in Nat
  OBVIOUS
<1>3. \A q \in Seq(Item) : q # <<>> =>
        Head(q) \in Item /\ Tail(q) \in Seq(Item) /\ Len(Tail(q)) = Len(q) - 1
  OBVIOUS
<1>. QED  BY <1>1, <1>2, <1>3

LEMMA Assoc ==
  ASSUME NEW q \in Seq(Item), NEW c \in Seq(Item), NEW d \in Seq(Item)
  PROVE  q \o (c \o d) = (q \o c) \o d
<1>1. PICK x : x = q \o c
  OBVIOUS
<1>2. PICK y : y = c \o d
  OBVIOUS
<1>3. /\ x \in Seq(Item) /\ Len(x) = Len(q) + Len(c)
      /\ \A i \in 1 .. Len(q) : x[i] = q[i]
      /\ \A i \in 1 .. Len(c) : x[Len(q) + i] = c[i]
  BY <1>1
<1>4. /\ y \in Seq(Item) /\ Len(y) = Len(c) + Len(d)
      /\ \A i \in 1 .. Len(c) : y[i] = c[i]
      /\ \A i \in 1 .. Len(d) : y[Len(c) + i] = d[i]
  BY <1>2
<1>5. Len(q) \in Nat /\ Len(c) \in Nat /\ Len(d) \in Nat
  OBVIOUS
<1>6. q \o y \in Seq(Item) /\ x \o d \in Seq(Item) /\ Len(q \o y) = Len(x \o d)
  <2>1. q \o y \in Seq(Item) /\ x \o d \in Seq(Item)
    BY <1>3, <1>4, SeqFacts
  <2>2. Len(q \o y) = Len(q) + Len(y) /\ Len(x \o d) = Len(x) + Len(d)
    BY <1>3, <1>4, SeqFacts
  <2>3. Len(q) + Len(y) = Len(x) + Len(d)
    BY <1>3, <1>4, <1>5
  <2>. QED  BY <2>1, <2>2, <2>3
<1>7. ASSUME NEW i \in 1 .. Len(q \o y) PROVE (q \o y)[i] = (x \o d)[i]
  <2>1. i \in 1 .. Len(q) + Len(c) + Len(d)
    BY <1>4, <1>5
  <2>2. CASE i <= Len(q)
    BY <1>3, <1>4, <1>5, <2>1, <2>2
  <2>3. CASE i > Len(q) /\ i <= Len(q) + Len(c)
    <3>1. PICK j \in 1 .. Len(c) : i = Len(q) + j
      <4>1. i - Len(q) \in 1 .. Len(c) /\ i = Len(q) + (i - Len(q))
        BY <1>5, <2>1, <2>3
      <4>. QED  BY <4>1
    <3>. QED  BY <1>3, <1>4, <1>5, <3>1
  <2>4. CASE i > Len(q) + Len(c)
    <3>1. PICK j \in 1 .. Len(d) : i = Len(q) + Len(c) + j
      <4>1. i - (Len(q) + Len(c)) \in 1 .. Len(d) /\ i = Len(q) + Len(c) + (i - (Len(q) + Len(c)))
        BY <1>5, <2>1, <2>4
      <4>. QED  BY <4>1
    <3>2. (q \o y)[i] = y[Len(c) + j]
      BY <1>4, <1>5, <3>1
    <3>3. (x \o d)[i] = d[j]
      BY <1>3, <1>5, <3>1
    <3>. QED  BY <1>4, <3>1, <3>2, <3>3
  <2>5. i <= Len(q) \/ (i > Len(q) /\ i <= Len(q) + Len(c)) \/ i > Len(q) + Len(c)
    BY <1>5, <2>1
  <2>. QED  BY <2>2, <2>3, <2>4, <2>5
<1>8. q \o y = x \o d
  BY <1>6, <1>7, SeqEqual
<1>. QED  BY <1>1, <1>2, <1>8

\* A write goes to the terminal or into one pipe, and nowhere else.
LEMMA WriteFacts ==
  ASSUME TypedRun, TypedIO, NEW d \in {1, 2}, NEW c \in Seq(Item), Write(d, c)
  PROVE  /\ fd[d] = 0 => term' = term \o c /\ pipe' = pipe
         /\ fd[d] # 0 => /\ fd[d] \in Trials /\ Len(pipe[fd[d]]) < PipeSize
                         /\ reader[fd[d]] \notin {"failed", "unspawned"}
                         /\ pipe'[fd[d]] = pipe[fd[d]] \o c /\ term' = term
         /\ \A n \in Trials : n # fd[d] => pipe'[n] = pipe[n]
         /\ term' \in Seq(Item) /\ pipe' \in [Trials -> Seq(Item)]
<1>1. CASE fd[d] = 0
  <2>1. term' = term \o c /\ pipe' = pipe
    BY <1>1 DEF Write
  <2>2. term' \in Seq(Item) /\ pipe' \in [Trials -> Seq(Item)]
    BY <2>1, SeqFacts DEF TypedIO
  <2>. QED  BY <1>1, <2>1, <2>2
<1>2. CASE fd[d] # 0
  <2>1. fd[d] \in Trials
    BY <1>2, CaptureAssumption DEF TypedRun, Trials
  <2>2. /\ Len(pipe[fd[d]]) < PipeSize /\ pipe' = [pipe EXCEPT ![fd[d]] = @ \o c] /\ term' = term
        /\ reader[fd[d]] \notin {"failed", "unspawned"}
    BY <1>2 DEF Write, Broken
  <2>3. pipe[fd[d]] \in Seq(Item) /\ term \in Seq(Item) /\ pipe[fd[d]] \o c \in Seq(Item)
    BY <2>1, SeqFacts DEF TypedIO
  <2>4. /\ pipe' \in [Trials -> Seq(Item)] /\ pipe'[fd[d]] = pipe[fd[d]] \o c
        /\ \A n \in Trials : n # fd[d] => pipe'[n] = pipe[n]
    BY <2>1, <2>2, <2>3 DEF TypedIO
  <2>. QED  BY <1>2, <2>1, <2>2, <2>3, <2>4
<1>. QED  BY <1>1, <1>2

\* Counting a chunk changes one stream of one trial.
LEMMA WroteFacts ==
  ASSUME TypedIO, NEW n \in Trials, NEW s \in Streams, Wrote(n, s)
  PROVE  /\ wrote' \in [Trials -> [Streams -> Nat]]
         /\ wrote'[n][s] = wrote[n][s] + 1
         /\ \A m \in Trials, r \in Streams : m # n \/ r # s => wrote'[m][r] = wrote[m][r]
         /\ ChunkOf(n, s) \in Item
<1>1. wrote[n][s] \in Nat /\ n \in Nat
  BY CaptureAssumption DEF TypedIO, Trials
<1>2. ChunkOf(n, s) \in Item
  BY <1>1, ItemTypes DEF ChunkOf
<1>3. wrote' = [wrote EXCEPT ![n] = [wrote[n] EXCEPT ![s] = wrote[n][s] + 1]]
  BY DEF Wrote, TypedIO
<1>. QED  BY <1>1, <1>2, <1>3 DEF TypedIO

\* What the runner prints once the trial has ended.
Said(n) ==
  CASE verdict[n] = "pass" -> <<Line(n, "pass")>>
    [] verdict[n] = "unspawned" -> Dump(n) \o <<Line(n, "unspawned")>>
    [] OTHER -> <<Line(n, "fail")>> \o Dump(n)

\* The captured output as the runner dumps it.
LEMMA DumpType ==
  ASSUME TypedIO, NEW n \in Trials
  PROVE  Dump(n) \in Seq(Item)
<1>1. Line(n, "captured") \in Item /\ Line(n, "end capture") \in Item
  BY LineTypes
<1>. QED  BY <1>1, SeqFacts DEF Dump, TypedIO

LEMMA NextTrialEffect ==
  ASSUME Control, NextTrial
  PROVE  /\ term' = term \o <<Line(trial + 1, "starting")>> /\ term' \in Seq(Item)
         /\ obuf' = <<Line(trial + 1, "name")>> /\ obuf' \in Seq(Item) /\ UNCHANGED <<pipe, got, wrote>>
<1>0. TypedRun /\ TypedIO /\ Stage /\ Buffer
  BY DEF Control
<1>i. trial + 1 \in Trials
  BY <1>0, CaptureAssumption DEF NextTrial, TypedRun, Trials
<1>a. Line(trial + 1, "starting") \in Item /\ Line(trial + 1, "name") \in Item
  BY <1>i, LineTypes
<1>b. /\ term' = term \o <<Line(trial + 1, "starting")>> /\ term' \in Seq(Item)
      /\ obuf' = <<Line(trial + 1, "name")>> /\ obuf' \in Seq(Item) /\ UNCHANGED <<pipe, got, wrote>>
  <2>1. obuf = <<>>
    BY <1>0 DEF NextTrial, Buffer
  <2>2. obuf' = <<Line(trial + 1, "name")>>
    BY <2>1 DEF NextTrial
  <2>. QED  BY <1>0, <1>a, <2>2, SeqFacts, WriteFacts DEF NextTrial, Stage, Terminal, DrainVars,
     BodyVars
<1>. QED  BY <1>b

LEMMA NextTrialControl ==
  ASSUME Control, NextTrial
  PROVE  Control'
<1>0. TypedRun /\ TypedIO /\ Stage /\ Past /\ Now /\ Closed /\ Buffer /\ Bounds
  BY DEF Control
<1>1. TypedRun'
  BY <1>0, CaptureAssumption, SMTT(40) DEF TypedRun, Trials, Places, NextTrial, CaptureVars,
     DrainVars, BodyVars
<1>2. TypedIO'
  BY <1>0, NextTrialEffect, SeqFacts DEF TypedIO
<1>3. Stage'
  BY <1>0 DEF TypedRun, Stage, Terminal, Redirected, Places, NextTrial, CaptureVars, DrainVars
<1>4. Past'
  <2>1. ASSUME NEW n \in Trials, n < trial + 1 PROVE reader[n] \in {"done", "failed"}
    <3>1. n < trial \/ (n = trial /\ trial # 0)
      BY <1>0, <2>1, CaptureAssumption DEF TypedRun, Trials
    <3>. QED  BY <1>0, <3>1 DEF Past, Now, NextTrial
  <2>2. ASSUME NEW n \in Trials, n > trial + 1 PROVE reader[n] = "none"
    BY <1>0, <2>2, CaptureAssumption DEF TypedRun, Trials, Past
  <2>. QED  BY <2>1, <2>2 DEF Past, NextTrial, DrainVars
<1>5. Now'
  BY <1>0, CaptureAssumption DEF TypedRun, Past, Now, Terminal, Redirected, Trials, NextTrial, DrainVars
<1>6. Closed'
  BY <1>0, NextTrialEffect DEF Now, Closed, NextTrial, DrainVars, BodyVars
<1>7. Buffer'
  BY <1>0, NextTrialEffect DEF Buffer, NextTrial, BodyVars
<1>8. Bounds'
  BY <1>0, NextTrialEffect DEF Bounds, NextTrial, BodyVars
<1>. QED  BY <1>1, <1>2, <1>3, <1>4, <1>5, <1>6, <1>7, <1>8 DEF Control

LEMMA FlushBeginEffect ==
  ASSUME Control, FlushBegin
  PROVE  /\ term' = term \o obuf /\ term' \in Seq(Item) /\ obuf' = <<>> /\ UNCHANGED <<pipe, got, wrote>>
<1>0. TypedRun /\ TypedIO /\ Stage /\ Buffer
  BY DEF Control
<1>i. trial \in Trials
  BY <1>0, InTrial DEF FlushBegin
<1>b. /\ term' = term \o obuf /\ term' \in Seq(Item) /\ obuf' = <<>> /\ UNCHANGED <<pipe, got, wrote>>
  BY <1>0, WriteFacts DEF FlushBegin, Stage, Terminal, TypedIO, DrainVars, BodyVars
<1>. QED  BY <1>b

LEMMA FlushBeginControl ==
  ASSUME Control, FlushBegin
  PROVE  Control'
<1>0. TypedRun /\ TypedIO /\ Stage /\ Past /\ Now /\ Closed /\ Buffer /\ Bounds
  BY DEF Control
<1>1. TypedRun'
  BY <1>0 DEF TypedRun, Places, FlushBegin, Goto, CaptureVars, DrainVars, BodyVars
<1>2. TypedIO'
  BY <1>0, FlushBeginEffect, SeqFacts DEF TypedIO
<1>3. Stage'
  BY <1>0 DEF Stage, Terminal, Redirected, FlushBegin, Goto, CaptureVars, DrainVars
<1>4. Past'
  BY <1>0 DEF Past, FlushBegin, Goto, DrainVars
<1>5. Now'
  BY <1>0 DEF Now, FlushBegin, Goto, DrainVars
<1>6. Closed'
  BY <1>0, FlushBeginEffect DEF Now, Closed, FlushBegin, Goto, DrainVars, BodyVars
<1>7. Buffer'
  BY <1>0, FlushBeginEffect DEF Buffer, FlushBegin, Goto, BodyVars
<1>8. Bounds'
  BY <1>0, FlushBeginEffect DEF Bounds, FlushBegin, BodyVars
<1>. QED  BY <1>1, <1>2, <1>3, <1>4, <1>5, <1>6, <1>7, <1>8 DEF Control

LEMMA SaveControl ==
  ASSUME Control, Save
  PROVE  Control'
<1>0. TypedRun /\ TypedIO /\ Stage /\ Past /\ Now /\ Closed /\ Buffer /\ Bounds
  BY DEF Control
<1>1. TypedRun'
  BY <1>0 DEF TypedRun, Places, Save, Goto, DrainVars, BodyVars
<1>2. TypedIO'
  BY <1>0 DEF TypedIO, Save, IOVars, DrainVars, BodyVars
<1>3. Stage'
  BY <1>0 DEF Stage, Terminal, Redirected, Save, Goto, DrainVars
<1>4. Past'
  BY <1>0 DEF Past, Save, Goto, DrainVars
<1>5. Now'
  BY <1>0 DEF Now, Save, Goto, DrainVars
<1>6. Closed'
  BY <1>0 DEF Now, Closed, Save, Goto, IOVars, DrainVars, BodyVars
<1>7. Buffer'
  BY <1>0 DEF Buffer, Save, Goto, IOVars, BodyVars
<1>8. Bounds'
  BY <1>0 DEF Bounds, Save, IOVars, BodyVars
<1>. QED  BY <1>1, <1>2, <1>3, <1>4, <1>5, <1>6, <1>7, <1>8 DEF Control

LEMMA MakePipeControl ==
  ASSUME Control, MakePipe
  PROVE  Control'
<1>0. TypedRun /\ TypedIO /\ Stage /\ Past /\ Now /\ Closed /\ Buffer /\ Bounds
  BY DEF Control
<1>1. TypedRun'
  BY <1>0 DEF TypedRun, Places, MakePipe, Goto, DrainVars, BodyVars
<1>2. TypedIO'
  BY <1>0 DEF TypedIO, MakePipe, IOVars, DrainVars, BodyVars
<1>3. Stage'
  BY <1>0 DEF Stage, Terminal, Redirected, MakePipe, Goto, DrainVars
<1>4. Past'
  BY <1>0, SMTT(40) DEF Past, MakePipe, Goto, DrainVars
<1>5. Now'
  BY <1>0 DEF Now, MakePipe, Goto, DrainVars
<1>6. Closed'
  BY <1>0 DEF Now, Closed, MakePipe, Goto, IOVars, DrainVars, BodyVars
<1>7. Buffer'
  BY <1>0 DEF Buffer, MakePipe, Goto, IOVars, BodyVars
<1>8. Bounds'
  BY <1>0 DEF Bounds, MakePipe, IOVars, BodyVars
<1>. QED  BY <1>1, <1>2, <1>3, <1>4, <1>5, <1>6, <1>7, <1>8 DEF Control

LEMMA RedirectStdoutControl ==
  ASSUME Control, RedirectStdout
  PROVE  Control'
<1>0. TypedRun /\ TypedIO /\ Stage /\ Past /\ Now /\ Closed /\ Buffer /\ Bounds
  BY DEF Control
<1>1. TypedRun'
  <2>1. fd' \in [{1, 2} -> 0 .. NTrials]
    BY <1>0 DEF TypedRun, RedirectStdout
  <2>. QED  BY <1>0, <2>1 DEF TypedRun, Places, RedirectStdout, RedirectErr, Goto, DrainVars, BodyVars
<1>2. TypedIO'
  BY <1>0 DEF TypedIO, RedirectStdout, RedirectErr, IOVars, DrainVars, BodyVars
<1>3. Stage'
  BY <1>0 DEF TypedRun, Stage, Terminal, Redirected, Places, RedirectStdout, RedirectErr, Goto,
     DrainVars
<1>4. Past'
  BY <1>0 DEF Past, RedirectStdout, RedirectErr, Goto, IOVars, DrainVars, BodyVars
<1>5. Now'
  BY <1>0 DEF Now, RedirectStdout, RedirectErr, Goto, DrainVars
<1>6. Closed'
  BY <1>0 DEF Now, Closed, RedirectStdout, RedirectErr, Goto, IOVars, DrainVars, BodyVars
<1>7. Buffer'
  BY <1>0 DEF Buffer, RedirectStdout, RedirectErr, Goto, IOVars, BodyVars
<1>8. Bounds'
  BY <1>0 DEF Bounds, RedirectStdout, RedirectErr, IOVars, BodyVars
<1>. QED  BY <1>1, <1>2, <1>3, <1>4, <1>5, <1>6, <1>7, <1>8 DEF Control

LEMMA RedirectStderrEffect ==
  ASSUME Control, RedirectStderr
  PROVE  /\ pc' # "over" => term' = term
         /\ term' \in Seq(Item) /\ UNCHANGED <<obuf, pipe, got, wrote>>
<1>0. TypedRun /\ TypedIO /\ Stage /\ Buffer
  BY DEF Control
<1>i. trial \in Trials
  BY <1>0, InTrial DEF RedirectStderr
<1>a. Line(trial, "broken") \in Item
  BY <1>i, LineTypes
<1>b. /\ pc' # "over" => term' = term
      /\ term' \in Seq(Item) /\ UNCHANGED <<obuf, pipe, got, wrote>>
  <2>1. Append(term, Line(trial, "broken")) \in Seq(Item) /\ term \in Seq(Item)
    BY <1>0, <1>a, SeqFacts DEF TypedIO
  <2>. QED  BY <2>1 DEF RedirectStderr, RedirectErr, Abort, DrainVars, BodyVars
<1>. QED  BY <1>b

LEMMA RedirectStderrControl ==
  ASSUME Control, RedirectStderr
  PROVE  Control'
<1>0. TypedRun /\ TypedIO /\ Stage /\ Past /\ Now /\ Closed /\ Buffer /\ Bounds
  BY DEF Control
<1>1. TypedRun'
  <2>1. fd' \in [{1, 2} -> 0 .. NTrials]
    BY <1>0, CaptureAssumption DEF TypedRun, RedirectStderr
  <2>. QED  BY <1>0, <2>1 DEF TypedRun, Places, RedirectStderr, RedirectErr, Abort, Goto, DrainVars,
     BodyVars
<1>2. TypedIO'
  BY <1>0, RedirectStderrEffect, SeqFacts DEF TypedIO
<1>3. Stage'
  BY <1>0 DEF TypedRun, Stage, Terminal, Redirected, Places, RedirectStderr, RedirectErr, Abort,
     Goto, DrainVars
<1>4. Past'
  BY <1>0, SMTT(40) DEF Past, RedirectStderr, RedirectErr, Abort, Goto, DrainVars
<1>5. Now'
  BY <1>0 DEF Now, RedirectStderr, RedirectErr, Abort, Goto, DrainVars
<1>6. Closed'
  BY <1>0, RedirectStderrEffect DEF Now, Closed, RedirectStderr, RedirectErr, Abort, Goto, DrainVars,
     BodyVars
<1>7. Buffer'
  BY <1>0, RedirectStderrEffect DEF Buffer, RedirectStderr, RedirectErr, Abort, Goto, BodyVars
<1>8. Bounds'
  BY <1>0, RedirectStderrEffect DEF Bounds, RedirectStderr, RedirectErr, Abort, BodyVars
<1>. QED  BY <1>1, <1>2, <1>3, <1>4, <1>5, <1>6, <1>7, <1>8 DEF Control

LEMMA SpawnDrainControl ==
  ASSUME Control, SpawnDrain
  PROVE  Control'
<1>0. TypedRun /\ TypedIO /\ Stage /\ Past /\ Now /\ Closed /\ Buffer /\ Bounds
  BY DEF Control
<1>i. trial \in Trials
  BY <1>0, InTrial DEF SpawnDrain
<1>1. TypedRun'
  BY <1>0 DEF TypedRun, Places, SpawnDrain, Goto, CaptureVars, BodyVars
<1>2. TypedIO'
  BY <1>0 DEF TypedIO, SpawnDrain, IOVars, BodyVars
<1>3. Stage'
  BY <1>0, <1>i DEF TypedRun, Stage, Terminal, Redirected, Places, SpawnDrain, Goto, CaptureVars
<1>4. Past'
  <2>1. \A n \in Trials : n # trial => reader'[n] = reader[n]
    BY <1>0, <1>i DEF SpawnDrain, TypedRun
  <2>. QED  BY <1>0, <1>i, <2>1, CaptureAssumption DEF Past, SpawnDrain, Goto, Trials
<1>5. Now'
  BY <1>0, <1>i DEF TypedRun, Past, Now, Terminal, Redirected, SpawnDrain, Goto
<1>6. Closed'
  BY <1>0, ZenonT(40) DEF TypedRun, TypedIO, Stage, Now, Closed, Terminal, Redirected, SpawnDrain,
     Goto, IOVars, BodyVars
<1>7. Buffer'
  BY <1>0 DEF Buffer, SpawnDrain, Goto, IOVars, BodyVars
<1>8. Bounds'
  BY <1>0 DEF Bounds, SpawnDrain, IOVars, BodyVars
<1>. QED  BY <1>1, <1>2, <1>3, <1>4, <1>5, <1>6, <1>7, <1>8 DEF Control

LEMMA FatalEffect ==
  ASSUME Control, Fatal
  PROVE  /\ pc' = "over" \/ (pc' = "report" /\ reader[trial] = "unspawned")
         /\ term' \in Seq(Item) /\ UNCHANGED <<obuf, pipe, got, wrote>>
<1>0. TypedRun /\ TypedIO /\ Stage /\ Buffer
  BY DEF Control
<1>i. trial \in Trials
  BY <1>0, InTrial DEF Fatal
<1>a. Line(trial, "fatal") \in Item
  BY <1>i, LineTypes
<1>b. /\ pc' = "over" \/ (pc' = "report" /\ reader[trial] = "unspawned")
      /\ term' \in Seq(Item) /\ UNCHANGED <<obuf, pipe, got, wrote>>
  <2>1. CASE Broken(fd[2])
    <3>1. reader[trial] = "unspawned"
      BY <1>0, <2>1 DEF Fatal, Stage, Terminal, Redirected, Broken
    <3>. QED  BY <1>0, <2>1, <3>1 DEF Fatal, Goto, TypedIO, DrainVars
  <2>2. CASE ~Broken(fd[2])
    <3>1. fd[2] = 0
      BY <1>0, <1>i, <2>2 DEF Fatal, Stage, Terminal, Redirected, Broken, Trials
    <3>. QED  BY <1>0, <1>a, <2>2, <3>1, SeqFacts, WriteFacts DEF Fatal, Abort, DrainVars
  <2>. QED  BY <2>1, <2>2
<1>. QED  BY <1>b

LEMMA FatalControl ==
  ASSUME Control, Fatal
  PROVE  Control'
<1>0. TypedRun /\ TypedIO /\ Stage /\ Past /\ Now /\ Closed /\ Buffer /\ Bounds
  BY DEF Control
<1>1. TypedRun'
  BY <1>0 DEF TypedRun, Places, Fatal, Abort, Goto, CaptureVars, DrainVars
<1>2. TypedIO'
  BY <1>0, FatalEffect, SeqFacts DEF TypedIO
<1>3. Stage'
  BY <1>0 DEF Stage, Terminal, Redirected, Fatal, Abort, Broken, Goto, CaptureVars, DrainVars
<1>4. Past'
  BY <1>0 DEF Past, Fatal, Goto, Abort, DrainVars
<1>5. Now'
  BY <1>0 DEF TypedRun, Stage, Past, Now, Terminal, Redirected, Fatal, Abort, Broken, Goto, DrainVars
<1>6. Closed'
  BY <1>0, FatalEffect DEF Now, Closed, Fatal, Abort, Broken, Goto, DrainVars
<1>7. Buffer'
  BY <1>0, FatalEffect DEF Buffer, Fatal, Abort, Broken, Goto
<1>8. Bounds'
  BY <1>0, FatalEffect DEF Bounds, Fatal, Abort, Broken
<1>. QED  BY <1>1, <1>2, <1>3, <1>4, <1>5, <1>6, <1>7, <1>8 DEF Control

LEMMA SpawnTrialControl ==
  ASSUME Control, SpawnTrial
  PROVE  Control'
<1>0. TypedRun /\ TypedIO /\ Stage /\ Past /\ Now /\ Closed /\ Buffer /\ Bounds
  BY DEF Control
<1>i. trial \in Trials
  BY <1>0, InTrial DEF SpawnTrial
<1>1. TypedRun'
  BY <1>0 DEF TypedRun, Places, SpawnTrial, Goto, CaptureVars, DrainVars
<1>2. TypedIO'
  BY <1>0 DEF TypedIO, SpawnTrial, IOVars, DrainVars
<1>3. Stage'
  BY <1>0 DEF Stage, Terminal, Redirected, SpawnTrial, Goto, CaptureVars, DrainVars
<1>4. Past'
  BY <1>0 DEF Past, SpawnTrial, Goto, DrainVars
<1>5. Now'
  BY <1>0 DEF Now, SpawnTrial, Goto, DrainVars
<1>6. Closed'
  BY <1>0 DEF Now, Closed, SpawnTrial, Goto, IOVars, DrainVars
<1>7. Buffer'
  <2>1. wrote[trial]["out"] >= 0
    BY <1>0, <1>i DEF TypedIO, Streams
  <2>. QED  BY <1>0, <2>1, SeqFacts DEF Buffer, SpawnTrial, Goto, IOVars
<1>8. Bounds'
  BY <1>0 DEF Bounds, SpawnTrial, IOVars
<1>. QED  BY <1>1, <1>2, <1>3, <1>4, <1>5, <1>6, <1>7, <1>8 DEF Control

LEMMA FlushEndEffect ==
  ASSUME Control, FlushEnd
  PROVE  /\ term' \in Seq(Item) /\ pipe' \in [Trials -> Seq(Item)] /\ obuf' \in Seq(Item)
         /\ UNCHANGED <<term, got, wrote>>
         /\ obuf = <<>> \/ reader[trial] = "failed" => pipe' = pipe
         /\ \/ pipe' = pipe /\ obuf' = obuf
            \/ /\ reader[trial] # "failed" /\ obuf' = <<>> /\ Len(pipe[trial]) < PipeSize
               /\ pipe'[trial] = pipe[trial] \o obuf
               /\ \A n \in Trials : n # trial => pipe'[n] = pipe[n]
<1>0. TypedRun /\ TypedIO /\ Stage /\ Buffer
  BY DEF Control
<1>i. trial \in Trials
  BY <1>0, InTrial DEF FlushEnd
<1>b. /\ term' \in Seq(Item) /\ pipe' \in [Trials -> Seq(Item)] /\ obuf' \in Seq(Item)
      /\ UNCHANGED <<term, got, wrote>>
      /\ obuf = <<>> \/ reader[trial] = "failed" => pipe' = pipe
      /\ \/ pipe' = pipe /\ obuf' = obuf
         \/ /\ reader[trial] # "failed" /\ obuf' = <<>> /\ Len(pipe[trial]) < PipeSize
            /\ pipe'[trial] = pipe[trial] \o obuf
            /\ \A n \in Trials : n # trial => pipe'[n] = pipe[n]
  <2>1. CASE obuf = <<>> \/ Broken(trial)
    BY <1>0, <1>i, <2>1 DEF FlushEnd, TypedIO, IOVars, DrainVars, BodyVars
  <2>2. CASE ~(obuf = <<>> \/ Broken(trial))
    <3>1. trial # 0 /\ fd[1] = trial /\ reader[trial] # "failed"
      BY <1>0, <1>i, <2>2 DEF FlushEnd, Stage, Redirected, Trials, Broken
    <3>. QED  BY <1>0, <1>i, <2>2, <3>1, SeqFacts, WriteFacts DEF FlushEnd, TypedIO, DrainVars, BodyVars
  <2>. QED  BY <2>1, <2>2
<1>. QED  BY <1>b

LEMMA FlushEndControl ==
  ASSUME Control, FlushEnd
  PROVE  Control'
<1>0. TypedRun /\ TypedIO /\ Stage /\ Past /\ Now /\ Closed /\ Buffer /\ Bounds
  BY DEF Control
<1>i. trial \in Trials
  BY <1>0, InTrial DEF FlushEnd
<1>1. TypedRun'
  BY <1>0 DEF TypedRun, Places, FlushEnd, Goto, CaptureVars, DrainVars, BodyVars
<1>2. TypedIO'
  BY <1>0, FlushEndEffect, SeqFacts DEF TypedIO
<1>3. Stage'
  BY <1>0 DEF Stage, Terminal, Redirected, FlushEnd, Broken, Goto, CaptureVars, DrainVars
<1>4. Past'
  BY <1>0 DEF Past, FlushEnd, Goto, DrainVars
<1>5. Now'
  BY <1>0 DEF Now, FlushEnd, Goto, DrainVars
<1>6. Closed'
  BY <1>0, FlushEndEffect DEF Stage, Now, Closed, Terminal, Redirected, FlushEnd, Broken, Goto,
     IOVars, DrainVars, BodyVars
<1>7. Buffer'
  BY <1>0, FlushEndEffect DEF Buffer, FlushEnd, Broken, Goto, IOVars, BodyVars
<1>8. Bounds'
  <2>1. CASE pipe' = pipe
    BY <1>0, FlushEndEffect, <2>1 DEF Bounds
  <2>2. CASE pipe' # pipe
    <3>1. Len(obuf) <= MaxWrites[trial]["out"]
      BY <1>0, <1>i, SeqFacts, Sizes DEF FlushEnd, Buffer, Bounds, TypedIO
    <3>2. Len(pipe'[trial]) = Len(pipe[trial]) + Len(obuf)
      BY <1>0, FlushEndEffect, <1>i, <2>2, SeqFacts DEF TypedIO
    <3>4. Len(pipe[trial]) \in Nat /\ Len(obuf) \in Nat /\ Len(pipe[trial]) < PipeSize
      BY <1>0, FlushEndEffect, <1>i, <2>2, SeqFacts DEF TypedIO
    <3>3. Len(pipe'[trial]) <= PipeSize + MaxWrites[trial]["out"]
      BY <1>i, <3>4, <3>1, <3>2, Sizes <3>. QED BY <1>0, FlushEndEffect, <2>2, <3>3 DEF Bounds
  <2>. QED  BY <2>1, <2>2
<1>. QED  BY <1>1, <1>2, <1>3, <1>4, <1>5, <1>6, <1>7, <1>8 DEF Control

LEMMA RestoreEffect ==
  ASSUME Control, Restore
  PROVE  /\ pc' # "over" => term' = term
         /\ term' \in Seq(Item) /\ UNCHANGED <<obuf, pipe, got, wrote>>
<1>0. TypedRun /\ TypedIO /\ Stage /\ Buffer
  BY DEF Control
<1>i. trial \in Trials
  BY <1>0, InTrial DEF Restore
<1>a. Line(trial, "broken") \in Item
  BY <1>i, LineTypes
<1>b. /\ pc' # "over" => term' = term
      /\ term' \in Seq(Item) /\ UNCHANGED <<obuf, pipe, got, wrote>>
  <2>1. Append(term, Line(trial, "broken")) \in Seq(Item) /\ term \in Seq(Item)
    BY <1>0, <1>a, SeqFacts DEF TypedIO
  <2>. QED  BY <2>1 DEF Restore, Abort, DrainVars, BodyVars
<1>. QED  BY <1>b

LEMMA RestoreControl ==
  ASSUME Control, Restore
  PROVE  Control'
<1>0. TypedRun /\ TypedIO /\ Stage /\ Past /\ Now /\ Closed /\ Buffer /\ Bounds
  BY DEF Control
<1>1. TypedRun'
  <2>1. fd' \in [{1, 2} -> 0 .. NTrials]
    BY <1>0, CaptureAssumption DEF TypedRun, Restore
  <2>. QED  BY <1>0, <2>1 DEF TypedRun, Places, Restore, Abort, Goto, DrainVars, BodyVars
<1>2. TypedIO'
  BY <1>0, RestoreEffect, SeqFacts DEF TypedIO
<1>3. Stage'
  BY <1>0 DEF Stage, Terminal, Redirected, Restore, Abort, Goto, DrainVars
<1>4. Past'
  BY <1>0 DEF Past, Restore, Abort, Goto, DrainVars
<1>5. Now'
  BY <1>0 DEF Now, Restore, Abort, Goto, DrainVars
<1>6. Closed'
  BY <1>0, RestoreEffect DEF Now, Closed, Restore, Abort, Goto, DrainVars, BodyVars
<1>7. Buffer'
  BY <1>0, RestoreEffect DEF Buffer, Restore, Abort, Goto, BodyVars
<1>8. Bounds'
  BY <1>0, RestoreEffect DEF Bounds, Restore, Abort, BodyVars
<1>. QED  BY <1>1, <1>2, <1>3, <1>4, <1>5, <1>6, <1>7, <1>8 DEF Control

LEMMA JoinEffect ==
  ASSUME Control, Join
  PROVE  /\ reader[trial] # "failed" => UNCHANGED <<got, term>>
         /\ \A n \in Trials : n # trial => got'[n] = got[n]
         /\ term' \in Seq(Item) /\ got' \in [Trials -> Seq(Item)] /\ UNCHANGED <<obuf, pipe, wrote>>
<1>0. TypedRun /\ TypedIO /\ Stage /\ Buffer
  BY DEF Control
<1>i. trial \in Trials
  BY <1>0, InTrial DEF Join
<1>a. Line(trial, "warning") \in Item
  BY <1>i, LineTypes
<1>b. /\ reader[trial] # "failed" => UNCHANGED <<got, term>>
      /\ \A n \in Trials : n # trial => got'[n] = got[n]
      /\ term' \in Seq(Item) /\ got' \in [Trials -> Seq(Item)] /\ UNCHANGED <<obuf, pipe, wrote>>
  <2>1. Append(term, Line(trial, "warning")) \in Seq(Item) /\ term \in Seq(Item)
    BY <1>0, <1>a, SeqFacts DEF TypedIO
  <2>2. [got EXCEPT ![trial] = <<>>] \in [Trials -> Seq(Item)] /\ got \in [Trials -> Seq(Item)]
    BY <1>0, SeqFacts DEF TypedIO
  <2>3. \A n \in Trials : n # trial => got'[n] = got[n]
    BY <1>0 DEF Join, TypedIO
  <2>. QED  BY <2>1, <2>2, <2>3 DEF Join, BodyVars
<1>. QED  BY <1>b

LEMMA JoinControl ==
  ASSUME Control, Join
  PROVE  Control'
<1>0. TypedRun /\ TypedIO /\ Stage /\ Past /\ Now /\ Closed /\ Buffer /\ Bounds
  BY DEF Control
<1>1. TypedRun'
  BY <1>0 DEF TypedRun, Places, Join, Goto, CaptureVars, BodyVars
<1>2. TypedIO'
  BY <1>0, JoinEffect, SeqFacts DEF TypedIO
<1>3. Stage'
  BY <1>0 DEF Stage, Terminal, Redirected, Join, Goto, CaptureVars
<1>4. Past'
  BY <1>0 DEF Past, Join, Goto
<1>5. Now'
  BY <1>0 DEF Now, Join, Goto
<1>6. Closed'
  BY <1>0, JoinEffect DEF Now, Closed, Join, Goto, BodyVars
<1>7. Buffer'
  BY <1>0, JoinEffect DEF Buffer, Join, Goto, BodyVars
<1>8. Bounds'
  BY <1>0, JoinEffect DEF Bounds, Join, BodyVars
<1>. QED  BY <1>1, <1>2, <1>3, <1>4, <1>5, <1>6, <1>7, <1>8 DEF Control

LEMMA VerdictEffect ==
  ASSUME Control, Verdict
  PROVE  /\ term' = term \o Said(trial) /\ term' \in Seq(Item) /\ UNCHANGED <<obuf, pipe, got, wrote>>
<1>0. TypedRun /\ TypedIO /\ Stage /\ Buffer
  BY DEF Control
<1>i. trial \in Trials
  BY <1>0, InTrial DEF Verdict
<1>a. Said(trial) \in Seq(Item)
  <2>1. /\ Line(trial, "pass") \in Item /\ Line(trial, "fail") \in Item
        /\ Line(trial, "unspawned") \in Item /\ Dump(trial) \in Seq(Item)
    BY <1>0, <1>i, DumpType, LineTypes <2>. QED BY <2>1, SeqFacts DEF Said
<1>b. /\ term' = term \o Said(trial) /\ term' \in Seq(Item) /\ UNCHANGED <<obuf, pipe, got, wrote>>
  BY <1>0, <1>a, WriteFacts DEF Verdict, Said, Stage, Terminal, DrainVars, BodyVars
<1>. QED  BY <1>b

LEMMA VerdictControl ==
  ASSUME Control, Verdict
  PROVE  Control'
<1>0. TypedRun /\ TypedIO /\ Stage /\ Past /\ Now /\ Closed /\ Buffer /\ Bounds
  BY DEF Control
<1>1. TypedRun'
  BY <1>0 DEF TypedRun, Places, Verdict, Goto, CaptureVars, DrainVars, BodyVars
<1>2. TypedIO'
  BY <1>0, VerdictEffect, SeqFacts DEF TypedIO
<1>3. Stage'
  BY <1>0 DEF Stage, Now, Terminal, Redirected, Verdict, Goto, CaptureVars, DrainVars
<1>4. Past'
  BY <1>0 DEF Past, Verdict, Goto, DrainVars
<1>5. Now'
  BY <1>0 DEF Now, Verdict, Goto, DrainVars
<1>6. Closed'
  BY <1>0, VerdictEffect DEF Now, Closed, Verdict, Goto, DrainVars, BodyVars
<1>7. Buffer'
  BY <1>0, VerdictEffect DEF Buffer, Verdict, Goto, BodyVars
<1>8. Bounds'
  BY <1>0, VerdictEffect DEF Bounds, Verdict, BodyVars
<1>. QED  BY <1>1, <1>2, <1>3, <1>4, <1>5, <1>6, <1>7, <1>8 DEF Control

LEMMA ReportEffect ==
  ASSUME Control, Report
  PROVE  /\ \/ pc' = "over"
            \/ pc' = "idle" /\ obuf' = <<>> /\ term' = term \o Append(obuf, Line(trial, "result"))
         /\ term' \in Seq(Item) /\ obuf' \in Seq(Item) /\ UNCHANGED <<pipe, got, wrote>>
<1>0. TypedRun /\ TypedIO /\ Stage /\ Buffer
  BY DEF Control
<1>i. trial \in Trials
  BY <1>0, InTrial DEF Report
<1>a. Line(trial, "result") \in Item
  BY <1>i, LineTypes
<1>b. /\ \/ pc' = "over"
         \/ pc' = "idle" /\ obuf' = <<>> /\ term' = term \o Append(obuf, Line(trial, "result"))
      /\ term' \in Seq(Item) /\ obuf' \in Seq(Item) /\ UNCHANGED <<pipe, got, wrote>>
  <2>1. CASE Broken(fd[1])
    BY <1>0, <2>1 DEF Report, TypedIO, IOVars, DrainVars, BodyVars
  <2>2. CASE ~Broken(fd[1])
    <3>1. fd[1] = 0
      BY <1>0, <1>i, <2>2 DEF Report, Stage, Terminal, Redirected, Broken, Trials
    <3>2. Append(obuf, Line(trial, "result")) \in Seq(Item)
      BY <1>0, <1>a, SeqFacts DEF TypedIO
    <3>. QED  BY <1>0, <2>2, <3>1, <3>2, SeqFacts, WriteFacts DEF Report, Goto, DrainVars, BodyVars
  <2>. QED  BY <2>1, <2>2
<1>. QED  BY <1>b

LEMMA ReportControl ==
  ASSUME Control, Report
  PROVE  Control'
<1>0. TypedRun /\ TypedIO /\ Stage /\ Past /\ Now /\ Closed /\ Buffer /\ Bounds
  BY DEF Control
<1>1. TypedRun'
  BY <1>0 DEF TypedRun, Places, Report, Goto, CaptureVars, DrainVars, BodyVars
<1>2. TypedIO'
  BY <1>0, ReportEffect, SeqFacts DEF TypedIO
<1>3. Stage'
  BY <1>0 DEF Stage, Terminal, Redirected, Report, Broken, Goto, CaptureVars, DrainVars
<1>4. Past'
  BY <1>0, ZenonT(40) DEF Past, Report, Goto, DrainVars
<1>5. Now'
  BY <1>0 DEF TypedRun, Stage, Past, Now, Terminal, Redirected, Report, Broken, Goto, DrainVars
<1>6. Closed'
  BY <1>0, ReportEffect DEF Now, Closed, Report, Broken, Goto, IOVars, DrainVars, BodyVars
<1>7. Buffer'
  BY <1>0, ReportEffect DEF Buffer, Report, Broken, Goto, IOVars, BodyVars
<1>8. Bounds'
  BY <1>0, ReportEffect DEF Bounds, Report, Broken, IOVars, BodyVars
<1>. QED  BY <1>1, <1>2, <1>3, <1>4, <1>5, <1>6, <1>7, <1>8 DEF Control

LEMMA ExitProcessControl ==
  ASSUME Control, ExitProcess
  PROVE  Control'
<1>0. TypedRun /\ TypedIO /\ Stage /\ Past /\ Now /\ Closed /\ Buffer /\ Bounds
  BY DEF Control
<1>1. TypedRun'
  BY <1>0 DEF TypedRun, Places, ExitProcess, CaptureVars, DrainVars, BodyVars
<1>2. TypedIO'
  BY <1>0 DEF TypedIO, ExitProcess, IOVars, DrainVars, BodyVars
<1>3. Stage'
  BY <1>0, CaptureAssumption DEF Stage, Terminal, Redirected, ExitProcess, DrainVars
<1>4. Past'
  BY <1>0 DEF Past, ExitProcess, DrainVars
<1>5. Now'
  BY <1>0 DEF Now, ExitProcess, DrainVars
<1>6. Closed'
  BY <1>0 DEF Now, Closed, ExitProcess, IOVars, DrainVars, BodyVars
<1>7. Buffer'
  BY <1>0 DEF Buffer, ExitProcess, IOVars, BodyVars
<1>8. Bounds'
  BY <1>0 DEF Bounds, ExitProcess, IOVars, BodyVars
<1>. QED  BY <1>1, <1>2, <1>3, <1>4, <1>5, <1>6, <1>7, <1>8 DEF Control

LEMMA BodyPrintEffect ==
  ASSUME Control, BodyPrint
  PROVE  /\ obuf' = Append(obuf, ChunkOf(trial, "out")) /\ obuf' \in Seq(Item)
         /\ Len(obuf') = Len(obuf) + 1 /\ UNCHANGED <<term, pipe, got>>
<1>0. TypedRun /\ TypedIO /\ Stage /\ Buffer
  BY DEF Control
<1>i. trial \in Trials
  BY <1>0, InTrial DEF BodyPrint
<1>w. Wrote(trial, "out") /\ "out" \in Streams
  BY DEF BodyPrint, Streams
<1>b. /\ obuf' = Append(obuf, ChunkOf(trial, "out")) /\ obuf' \in Seq(Item)
      /\ Len(obuf') = Len(obuf) + 1 /\ UNCHANGED <<term, pipe, got>>
  BY <1>0, <1>i, <1>w, SeqFacts, WroteFacts DEF BodyPrint, TypedIO, DrainVars
<1>. QED  BY <1>b

LEMMA BodyPrintControl ==
  ASSUME Control, BodyPrint
  PROVE  Control'
<1>0. TypedRun /\ TypedIO /\ Stage /\ Past /\ Now /\ Closed /\ Buffer /\ Bounds
  BY DEF Control
<1>i. trial \in Trials
  BY <1>0, InTrial DEF BodyPrint
<1>w. Wrote(trial, "out") /\ "out" \in Streams
  BY DEF BodyPrint, Streams
<1>1. TypedRun'
  BY <1>0 DEF TypedRun, Places, BodyPrint, Wrote, ChunkOf, MayWrite, CaptureVars, DrainVars
<1>2. TypedIO'
  BY <1>0, <1>i, BodyPrintEffect, <1>w, WroteFacts, SeqFacts DEF TypedIO
<1>3. Stage'
  BY <1>0 DEF Stage, Terminal, Redirected, BodyPrint, Wrote, ChunkOf, MayWrite, CaptureVars, DrainVars
<1>4. Past'
  BY <1>0 DEF Past, BodyPrint, Wrote, ChunkOf, MayWrite, DrainVars
<1>5. Now'
  BY <1>0 DEF Now, BodyPrint, Wrote, ChunkOf, MayWrite, DrainVars
<1>6. Closed'
  BY <1>0, BodyPrintEffect DEF Now, Closed, BodyPrint, Wrote, ChunkOf, MayWrite, DrainVars
<1>7. Buffer'
  <2>1. Len(obuf) \in Nat /\ Len(obuf') \in Nat /\ wrote[trial]["out"] \in Nat
    BY <1>0, <1>i, BodyPrintEffect, <1>w, SeqFacts DEF TypedIO
  <2>. QED  BY <1>0, <1>i, BodyPrintEffect, <1>w, <2>1, WroteFacts DEF Buffer, BodyPrint
<1>8. Bounds'
  <2>1. wrote[trial]["out"] + 1 <= MaxWrites[trial]["out"]
    BY <1>0, <1>i, <1>w, Sizes DEF BodyPrint, MayWrite, TypedIO
  <2>2. \A m \in Trials, r \in Streams : wrote'[m][r] <= MaxWrites[m][r]
    BY <1>0, <1>i, <1>w, <2>1, WroteFacts DEF Bounds
  <2>. QED  BY <1>0, BodyPrintEffect, <2>2 DEF Bounds
<1>. QED  BY <1>1, <1>2, <1>3, <1>4, <1>5, <1>6, <1>7, <1>8 DEF Control

LEMMA BodyPrintlnEffect ==
  ASSUME Control, BodyPrintln
  PROVE  /\ pipe' \in [Trials -> Seq(Item)] /\ obuf' = <<>> /\ UNCHANGED <<term, got>>
         /\ reader[trial] # "failed" /\ Len(pipe[trial]) < PipeSize
         /\ pipe'[trial] = pipe[trial] \o Append(obuf, ChunkOf(trial, "out"))
         /\ \A n \in Trials : n # trial => pipe'[n] = pipe[n]
<1>0. TypedRun /\ TypedIO /\ Stage /\ Buffer
  BY DEF Control
<1>i. trial \in Trials
  BY <1>0, InTrial DEF BodyPrintln
<1>w. Wrote(trial, "out") /\ "out" \in Streams
  BY DEF BodyPrintln, Streams
<1>a. Append(obuf, ChunkOf(trial, "out")) \in Seq(Item)
  BY <1>0, <1>i, <1>w, SeqFacts, WroteFacts DEF TypedIO
<1>b. /\ pipe' \in [Trials -> Seq(Item)] /\ obuf' = <<>> /\ UNCHANGED <<term, got>>
      /\ reader[trial] # "failed" /\ Len(pipe[trial]) < PipeSize
      /\ pipe'[trial] = pipe[trial] \o Append(obuf, ChunkOf(trial, "out"))
      /\ \A n \in Trials : n # trial => pipe'[n] = pipe[n]
  BY <1>0, <1>i, <1>a, WriteFacts, CaptureAssumption DEF BodyPrintln, Stage, Redirected, Trials,
     DrainVars
<1>. QED  BY <1>b

LEMMA BodyPrintlnControl ==
  ASSUME Control, BodyPrintln
  PROVE  Control'
<1>0. TypedRun /\ TypedIO /\ Stage /\ Past /\ Now /\ Closed /\ Buffer /\ Bounds
  BY DEF Control
<1>i. trial \in Trials
  BY <1>0, InTrial DEF BodyPrintln
<1>w. Wrote(trial, "out") /\ "out" \in Streams
  BY DEF BodyPrintln, Streams
<1>a. Append(obuf, ChunkOf(trial, "out")) \in Seq(Item)
  BY <1>0, <1>i, <1>w, SeqFacts, WroteFacts DEF TypedIO
<1>1. TypedRun'
  BY <1>0 DEF TypedRun, Places, BodyPrintln, Wrote, ChunkOf, MayWrite, CaptureVars, DrainVars
<1>2. TypedIO'
  BY <1>0, <1>i, BodyPrintlnEffect, <1>w, WroteFacts, SeqFacts DEF TypedIO
<1>3. Stage'
  BY <1>0 DEF Stage, Terminal, Redirected, BodyPrintln, Wrote, ChunkOf, MayWrite, CaptureVars, DrainVars
<1>4. Past'
  BY <1>0 DEF Past, BodyPrintln, Wrote, ChunkOf, MayWrite, DrainVars
<1>5. Now'
  BY <1>0 DEF Now, BodyPrintln, Wrote, ChunkOf, MayWrite, DrainVars
<1>6. Closed'
  BY <1>0, BodyPrintlnEffect DEF Stage, Now, Closed, Terminal, Redirected, BodyPrintln, Wrote,
     ChunkOf, MayWrite, DrainVars
<1>7. Buffer'
  <2>1. pc = "body" \/ pc = "flushEnd" => Len(obuf') <= wrote'[trial]["out"]
    BY <1>0, <1>i, BodyPrintlnEffect, <1>w, InTrial, SeqFacts, WroteFacts DEF Buffer, TypedIO,
       BodyPrintln, Streams
  <2>. QED  BY <1>0, BodyPrintlnEffect, <2>1 DEF Buffer, BodyPrintln
<1>8. Bounds'
  <2>1. wrote[trial]["out"] + 1 <= MaxWrites[trial]["out"]
    BY <1>0, <1>i, <1>w, Sizes DEF BodyPrintln, MayWrite, TypedIO
  <2>2. \A m \in Trials, r \in Streams : wrote'[m][r] <= MaxWrites[m][r]
    BY <1>0, <1>i, <1>w, <2>1, WroteFacts DEF Bounds
  <2>3. Len(pipe'[trial]) = Len(pipe[trial]) + Len(obuf) + 1
    BY <1>0, <1>i, <1>a, BodyPrintlnEffect, <1>w, SeqFacts, WroteFacts DEF TypedIO
  <2>4. Len(obuf) + 1 <= MaxWrites[trial]["out"]
    BY <1>0, <1>i, <1>w, <2>1, SeqFacts, Sizes DEF BodyPrintln, Buffer, TypedIO
  <2>5. Len(pipe'[trial]) <= PipeSize + MaxWrites[trial]["out"]
    BY <1>0, BodyPrintlnEffect, <1>i, <2>3, <2>4, SeqFacts, Sizes DEF TypedIO
  <2>. QED  BY <1>0, BodyPrintlnEffect, <2>2, <2>5 DEF Bounds
<1>. QED  BY <1>1, <1>2, <1>3, <1>4, <1>5, <1>6, <1>7, <1>8 DEF Control

LEMMA BodyEprintlnEffect ==
  ASSUME Control, BodyEprintln
  PROVE  /\ pipe' \in [Trials -> Seq(Item)] /\ UNCHANGED <<obuf, term, got>>
         /\ reader[trial] # "failed" /\ Len(pipe[trial]) < PipeSize
         /\ pipe'[trial] = pipe[trial] \o <<ChunkOf(trial, "err")>>
         /\ \A n \in Trials : n # trial => pipe'[n] = pipe[n]
<1>0. TypedRun /\ TypedIO /\ Stage /\ Buffer
  BY DEF Control
<1>i. trial \in Trials
  BY <1>0, InTrial DEF BodyEprintln
<1>w. Wrote(trial, "err") /\ "err" \in Streams
  BY DEF BodyEprintln, Streams
<1>a. <<ChunkOf(trial, "err")>> \in Seq(Item)
  BY <1>0, <1>i, <1>w, SeqFacts, WroteFacts DEF TypedIO
<1>b. /\ pipe' \in [Trials -> Seq(Item)] /\ UNCHANGED <<obuf, term, got>>
      /\ reader[trial] # "failed" /\ Len(pipe[trial]) < PipeSize
      /\ pipe'[trial] = pipe[trial] \o <<ChunkOf(trial, "err")>>
      /\ \A n \in Trials : n # trial => pipe'[n] = pipe[n]
  BY <1>0, <1>i, <1>a, WriteFacts, CaptureAssumption DEF BodyEprintln, Stage, Redirected, Trials,
     DrainVars
<1>. QED  BY <1>b

LEMMA BodyEprintlnControl ==
  ASSUME Control, BodyEprintln
  PROVE  Control'
<1>0. TypedRun /\ TypedIO /\ Stage /\ Past /\ Now /\ Closed /\ Buffer /\ Bounds
  BY DEF Control
<1>i. trial \in Trials
  BY <1>0, InTrial DEF BodyEprintln
<1>w. Wrote(trial, "err") /\ "err" \in Streams
  BY DEF BodyEprintln, Streams
<1>a. <<ChunkOf(trial, "err")>> \in Seq(Item)
  BY <1>0, <1>i, <1>w, SeqFacts, WroteFacts DEF TypedIO
<1>1. TypedRun'
  BY <1>0 DEF TypedRun, Places, BodyEprintln, Wrote, ChunkOf, MayWrite, CaptureVars, DrainVars
<1>2. TypedIO'
  BY <1>0, <1>i, BodyEprintlnEffect, <1>w, WroteFacts, SeqFacts DEF TypedIO
<1>3. Stage'
  BY <1>0 DEF Stage, Terminal, Redirected, BodyEprintln, Wrote, ChunkOf, MayWrite, CaptureVars,
     DrainVars
<1>4. Past'
  BY <1>0 DEF Past, BodyEprintln, Wrote, ChunkOf, MayWrite, DrainVars
<1>5. Now'
  BY <1>0 DEF Now, BodyEprintln, Wrote, ChunkOf, MayWrite, DrainVars
<1>6. Closed'
  BY <1>0, BodyEprintlnEffect DEF Stage, Now, Closed, Terminal, Redirected, BodyEprintln, Wrote,
     ChunkOf, MayWrite, DrainVars
<1>7. Buffer'
  <2>1. pc = "body" \/ pc = "flushEnd" => Len(obuf') <= wrote'[trial]["out"]
    BY <1>0, <1>i, BodyEprintlnEffect, <1>w, InTrial, SeqFacts, WroteFacts DEF Buffer, TypedIO,
       BodyEprintln, Streams
  <2>. QED  BY <1>0, BodyEprintlnEffect, <2>1 DEF Buffer, BodyEprintln
<1>8. Bounds'
  <2>1. wrote[trial]["err"] + 1 <= MaxWrites[trial]["err"]
    BY <1>0, <1>i, <1>w, Sizes DEF BodyEprintln, MayWrite, TypedIO
  <2>2. \A m \in Trials, r \in Streams : wrote'[m][r] <= MaxWrites[m][r]
    BY <1>0, <1>i, <1>w, <2>1, WroteFacts DEF Bounds
  <2>3. Len(pipe'[trial]) = Len(pipe[trial]) + 1
    BY <1>0, <1>i, <1>a, BodyEprintlnEffect, <1>w, SeqFacts, WroteFacts DEF TypedIO
  <2>4. Len(pipe'[trial]) <= PipeSize + MaxWrites[trial]["out"]
    BY <1>0, <1>i, BodyEprintlnEffect, <2>3, SeqFacts, Sizes DEF TypedIO
  <2>. QED  BY <1>0, BodyEprintlnEffect, <2>2, <2>4 DEF Bounds
<1>. QED  BY <1>1, <1>2, <1>3, <1>4, <1>5, <1>6, <1>7, <1>8 DEF Control

LEMMA BodyPrintFailsEffect ==
  ASSUME Control, BodyPrintFails
  PROVE  /\ obuf' \in Seq(Item) /\ Len(obuf') <= Len(obuf) + 1 /\ UNCHANGED <<term, pipe, got>>
<1>0. TypedRun /\ TypedIO /\ Stage /\ Buffer
  BY DEF Control
<1>i. trial \in Trials
  BY <1>0, InTrial DEF BodyPrintFails
<1>w. Wrote(trial, "out") /\ "out" \in Streams
  BY DEF BodyPrintFails, Streams
<1>b. /\ obuf' \in Seq(Item) /\ Len(obuf') <= Len(obuf) + 1 /\ UNCHANGED <<term, pipe, got>>
  BY <1>0, <1>i, <1>w, SeqFacts, WroteFacts DEF BodyPrintFails, TypedIO, DrainVars
<1>. QED  BY <1>b

LEMMA BodyPrintFailsControl ==
  ASSUME Control, BodyPrintFails
  PROVE  Control'
<1>0. TypedRun /\ TypedIO /\ Stage /\ Past /\ Now /\ Closed /\ Buffer /\ Bounds
  BY DEF Control
<1>i. trial \in Trials
  BY <1>0, InTrial DEF BodyPrintFails
<1>w. Wrote(trial, "out") /\ "out" \in Streams
  BY DEF BodyPrintFails, Streams
<1>1. TypedRun'
  BY <1>0 DEF TypedRun, Places, BodyPrintFails, Wrote, ChunkOf, MayWrite, Goto, CaptureVars, DrainVars
<1>2. TypedIO'
  BY <1>0, <1>i, BodyPrintFailsEffect, <1>w, WroteFacts, SeqFacts DEF TypedIO
<1>3. Stage'
  BY <1>0 DEF Stage, Terminal, Redirected, BodyPrintFails, Wrote, ChunkOf, MayWrite, Goto,
     CaptureVars, DrainVars
<1>4. Past'
  BY <1>0 DEF Past, BodyPrintFails, Wrote, ChunkOf, MayWrite, Goto, DrainVars
<1>5. Now'
  BY <1>0 DEF Now, BodyPrintFails, Wrote, ChunkOf, MayWrite, Goto, DrainVars
<1>6. Closed'
  BY <1>0, BodyPrintFailsEffect DEF Now, Closed, BodyPrintFails, Wrote, ChunkOf, MayWrite, Goto,
     DrainVars
<1>7. Buffer'
  <2>1. Len(obuf) \in Nat /\ Len(obuf') \in Nat /\ wrote[trial]["out"] \in Nat
    BY <1>0, <1>i, BodyPrintFailsEffect, <1>w, SeqFacts DEF TypedIO
  <2>. QED  BY <1>0, <1>i, BodyPrintFailsEffect, <1>w, <2>1, WroteFacts DEF Buffer, BodyPrintFails, Goto
<1>8. Bounds'
  <2>1. wrote[trial]["out"] + 1 <= MaxWrites[trial]["out"]
    BY <1>0, <1>i, <1>w, Sizes DEF BodyPrintFails, MayWrite, TypedIO
  <2>2. \A m \in Trials, r \in Streams : wrote'[m][r] <= MaxWrites[m][r]
    BY <1>0, <1>i, <1>w, <2>1, WroteFacts DEF Bounds
  <2>. QED  BY <1>0, BodyPrintFailsEffect, <2>2 DEF Bounds
<1>. QED  BY <1>1, <1>2, <1>3, <1>4, <1>5, <1>6, <1>7, <1>8 DEF Control

LEMMA BodySpawnsChildControl ==
  ASSUME Control, BodySpawnsChild
  PROVE  Control'
<1>0. TypedRun /\ TypedIO /\ Stage /\ Past /\ Now /\ Closed /\ Buffer /\ Bounds
  BY DEF Control
<1>1. TypedRun'
  BY <1>0 DEF TypedRun, Places, BodySpawnsChild, CaptureVars, DrainVars
<1>2. TypedIO'
  BY <1>0 DEF TypedIO, BodySpawnsChild, IOVars, DrainVars
<1>3. Stage'
  BY <1>0 DEF Stage, Terminal, Redirected, BodySpawnsChild, CaptureVars, DrainVars
<1>4. Past'
  BY <1>0 DEF Past, BodySpawnsChild, DrainVars
<1>5. Now'
  BY <1>0 DEF Now, BodySpawnsChild, DrainVars
<1>6. Closed'
  BY <1>0 DEF Stage, Now, Closed, Terminal, Redirected, BodySpawnsChild, IOVars, DrainVars
<1>7. Buffer'
  BY <1>0 DEF Buffer, BodySpawnsChild, IOVars
<1>8. Bounds'
  BY <1>0 DEF Bounds, BodySpawnsChild, IOVars
<1>. QED  BY <1>1, <1>2, <1>3, <1>4, <1>5, <1>6, <1>7, <1>8 DEF Control

LEMMA BodyEndsControl ==
  ASSUME Control, BodyEnds
  PROVE  Control'
<1>0. TypedRun /\ TypedIO /\ Stage /\ Past /\ Now /\ Closed /\ Buffer /\ Bounds
  BY DEF Control
<1>1. TypedRun'
  BY <1>0 DEF TypedRun, Places, BodyEnds, Goto, CaptureVars, DrainVars
<1>2. TypedIO'
  BY <1>0 DEF TypedIO, BodyEnds, IOVars, DrainVars
<1>3. Stage'
  BY <1>0 DEF Stage, Terminal, Redirected, BodyEnds, Goto, CaptureVars, DrainVars
<1>4. Past'
  BY <1>0 DEF Past, BodyEnds, Goto, DrainVars
<1>5. Now'
  BY <1>0 DEF Now, BodyEnds, Goto, DrainVars
<1>6. Closed'
  BY <1>0 DEF Now, Closed, BodyEnds, Goto, IOVars, DrainVars
<1>7. Buffer'
  BY <1>0 DEF Buffer, BodyEnds, Goto, IOVars
<1>8. Bounds'
  BY <1>0 DEF Bounds, BodyEnds, IOVars
<1>. QED  BY <1>1, <1>2, <1>3, <1>4, <1>5, <1>6, <1>7, <1>8 DEF Control

LEMMA ChildWritesEffect ==
  ASSUME Control, NEW n \in Trials, ChildWrites(n)
  PROVE  /\ pipe' \in [Trials -> Seq(Item)] /\ UNCHANGED <<obuf, term, got>>
         /\ Len(pipe[n]) < PipeSize /\ pipe'[n] = Append(pipe[n], ChunkOf(n, "child"))
         /\ Len(pipe'[n]) = Len(pipe[n]) + 1
         /\ \A m \in Trials : m # n => pipe'[m] = pipe[m]
<1>0. TypedRun /\ TypedIO /\ Stage /\ Buffer
  BY DEF Control
<1>w. Wrote(n, "child") /\ "child" \in Streams
  BY DEF ChildWrites, Streams
<1>b. /\ pipe' \in [Trials -> Seq(Item)] /\ UNCHANGED <<obuf, term, got>>
      /\ Len(pipe[n]) < PipeSize /\ pipe'[n] = Append(pipe[n], ChunkOf(n, "child"))
      /\ Len(pipe'[n]) = Len(pipe[n]) + 1
      /\ \A m \in Trials : m # n => pipe'[m] = pipe[m]
  BY <1>0, <1>w, SeqFacts, WroteFacts DEF ChildWrites, TypedIO, DrainVars
<1>. QED  BY <1>b

LEMMA ChildWritesControl ==
  ASSUME Control, NEW n \in Trials, ChildWrites(n)
  PROVE  Control'
<1>0. TypedRun /\ TypedIO /\ Stage /\ Past /\ Now /\ Closed /\ Buffer /\ Bounds
  BY DEF Control
<1>w. Wrote(n, "child") /\ "child" \in Streams
  BY DEF ChildWrites, Streams
<1>1. TypedRun'
  BY <1>0 DEF TypedRun, Places, ChildWrites, Wrote, ChunkOf, CaptureVars, DrainVars
<1>2. TypedIO'
  BY <1>0, ChildWritesEffect, <1>w, WroteFacts, SeqFacts DEF TypedIO
<1>3. Stage'
  BY <1>0 DEF Stage, Terminal, Redirected, ChildWrites, Wrote, ChunkOf, Broken, CaptureVars, DrainVars
<1>4. Past'
  BY <1>0 DEF Past, ChildWrites, Wrote, ChunkOf, DrainVars
<1>5. Now'
  BY <1>0 DEF Now, ChildWrites, Wrote, ChunkOf, DrainVars
<1>6. Closed'
  BY <1>0, ChildWritesEffect DEF Now, Closed, ChildWrites, Wrote, ChunkOf, Broken, DrainVars
<1>7. Buffer'
  <2>1. pc = "body" \/ pc = "flushEnd" => Len(obuf') <= wrote'[trial]["out"]
    BY <1>0, ChildWritesEffect, <1>w, InTrial, SeqFacts, WroteFacts DEF Buffer, TypedIO, ChildWrites,
       Streams
  <2>. QED  BY <1>0, ChildWritesEffect, <2>1 DEF Buffer, ChildWrites
<1>8. Bounds'
  <2>1. wrote[n]["child"] + 1 <= MaxWrites[n]["child"]
    BY <1>0, <1>w, Sizes DEF ChildWrites, TypedIO
  <2>2. \A m \in Trials, r \in Streams : wrote'[m][r] <= MaxWrites[m][r]
    BY <1>0, <1>w, <2>1, WroteFacts DEF Bounds
  <2>3. Len(pipe'[n]) = Len(pipe[n]) + 1
    BY <1>0, ChildWritesEffect, <1>w, SeqFacts, WroteFacts DEF TypedIO
  <2>4. Len(pipe'[n]) <= PipeSize + MaxWrites[n]["out"]
    BY <1>0, ChildWritesEffect, <2>3, SeqFacts, Sizes DEF TypedIO
  <2>. QED  BY <1>0, ChildWritesEffect, <2>2, <2>4 DEF Bounds
<1>. QED  BY <1>1, <1>2, <1>3, <1>4, <1>5, <1>6, <1>7, <1>8 DEF Control

LEMMA ChildExitsControl ==
  ASSUME Control, NEW n \in Trials, ChildExits(n)
  PROVE  Control'
<1>0. TypedRun /\ TypedIO /\ Stage /\ Past /\ Now /\ Closed /\ Buffer /\ Bounds
  BY DEF Control
<1>1. TypedRun'
  BY <1>0 DEF TypedRun, Places, ChildExits, CaptureVars, DrainVars
<1>2. TypedIO'
  BY <1>0 DEF TypedIO, ChildExits, IOVars, DrainVars
<1>3. Stage'
  BY <1>0 DEF Stage, Terminal, Redirected, ChildExits, CaptureVars, DrainVars
<1>4. Past'
  BY <1>0 DEF Past, ChildExits, DrainVars
<1>5. Now'
  BY <1>0 DEF Now, ChildExits, DrainVars
<1>6. Closed'
  BY <1>0 DEF Now, Closed, ChildExits, IOVars, DrainVars
<1>7. Buffer'
  BY <1>0 DEF Buffer, ChildExits, IOVars
<1>8. Bounds'
  BY <1>0 DEF Bounds, ChildExits, IOVars
<1>. QED  BY <1>1, <1>2, <1>3, <1>4, <1>5, <1>6, <1>7, <1>8 DEF Control

LEMMA DrainReadsEffect ==
  ASSUME Control, NEW n \in Trials, DrainReads(n)
  PROVE  /\ pipe' \in [Trials -> Seq(Item)] /\ got' \in [Trials -> Seq(Item)]
         /\ UNCHANGED <<obuf, term, wrote>> /\ pipe[n] # <<>> /\ Len(pipe'[n]) = Len(pipe[n]) - 1
         /\ got'[n] = Append(got[n], Head(pipe[n])) /\ pipe'[n] = Tail(pipe[n])
         /\ \A m \in Trials : m # n => pipe'[m] = pipe[m] /\ got'[m] = got[m]
<1>0. TypedRun /\ TypedIO /\ Stage /\ Buffer
  BY DEF Control
<1>b. /\ pipe' \in [Trials -> Seq(Item)] /\ got' \in [Trials -> Seq(Item)]
      /\ UNCHANGED <<obuf, term, wrote>> /\ pipe[n] # <<>> /\ Len(pipe'[n]) = Len(pipe[n]) - 1
      /\ got'[n] = Append(got[n], Head(pipe[n])) /\ pipe'[n] = Tail(pipe[n])
      /\ \A m \in Trials : m # n => pipe'[m] = pipe[m] /\ got'[m] = got[m]
  BY <1>0, SeqFacts DEF DrainReads, TypedIO, BodyVars
<1>. QED  BY <1>b

LEMMA DrainReadsControl ==
  ASSUME Control, NEW n \in Trials, DrainReads(n)
  PROVE  Control'
<1>0. TypedRun /\ TypedIO /\ Stage /\ Past /\ Now /\ Closed /\ Buffer /\ Bounds
  BY DEF Control
<1>1. TypedRun'
  BY <1>0 DEF TypedRun, Places, DrainReads, CaptureVars, BodyVars
<1>2. TypedIO'
  BY <1>0, DrainReadsEffect, SeqFacts DEF TypedIO
<1>3. Stage'
  BY <1>0 DEF Stage, Terminal, Redirected, DrainReads, CaptureVars
<1>4. Past'
  BY <1>0 DEF Past, DrainReads
<1>5. Now'
  BY <1>0 DEF Now, DrainReads
<1>6. Closed'
  BY <1>0, DrainReadsEffect DEF Now, Closed, DrainReads, BodyVars
<1>7. Buffer'
  BY <1>0, DrainReadsEffect DEF Buffer, DrainReads, BodyVars
<1>8. Bounds'
  <2>1. Len(pipe'[n]) <= PipeSize + MaxWrites[n]["out"]
    BY <1>0, DrainReadsEffect, SeqFacts, Sizes, SMTT(40) DEF Bounds, TypedIO
  <2>. QED  BY <1>0, DrainReadsEffect, <2>1 DEF Bounds
<1>. QED  BY <1>1, <1>2, <1>3, <1>4, <1>5, <1>6, <1>7, <1>8 DEF Control

LEMMA DrainEofControl ==
  ASSUME Control, NEW n \in Trials, DrainEof(n)
  PROVE  Control'
<1>0. TypedRun /\ TypedIO /\ Stage /\ Past /\ Now /\ Closed /\ Buffer /\ Bounds
  BY DEF Control
<1>1. TypedRun'
  BY <1>0 DEF TypedRun, Places, DrainEof, WriteEndClosed, CaptureVars, BodyVars
<1>2. TypedIO'
  BY <1>0 DEF TypedIO, DrainEof, WriteEndClosed, IOVars, BodyVars
<1>3. Stage'
  BY <1>0 DEF Stage, Terminal, Redirected, DrainEof, WriteEndClosed, CaptureVars
<1>4. Past'
  BY <1>0 DEF Past, DrainEof, WriteEndClosed
<1>5. Now'
  <2>1. reader' = [reader EXCEPT ![n] = "done"] /\ UNCHANGED <<pc, trial>> /\ pc # "over"
    BY <1>0 DEF DrainEof, Stage
  <2>2. CASE n = trial
    <3>1. pc \notin {"spawnTrial", "body", "flushEnd", "restore"}
      BY <1>0, <2>2 DEF DrainEof, WriteEndClosed, Stage, Redirected
    <3>2. pc = "join" /\ reader'[trial] = "done"
      BY <1>0, <2>1, <2>2, <3>1 DEF Now, DrainEof, TypedRun, Places, Trials
    <3>. QED  BY <2>1, <3>2 DEF Now
  <2>3. CASE n # trial
    <3>1. reader'[trial] = reader[trial]
      BY <1>0, <2>1, <2>3 DEF TypedRun
    <3>. QED  BY <1>0, <2>1, <3>1 DEF Now
  <2>. QED  BY <2>2, <2>3
<1>6. Closed'
  BY <1>0 DEF Now, Closed, DrainEof, WriteEndClosed, IOVars, BodyVars
<1>7. Buffer'
  BY <1>0 DEF Buffer, DrainEof, WriteEndClosed, IOVars, BodyVars
<1>8. Bounds'
  BY <1>0 DEF Bounds, DrainEof, WriteEndClosed, IOVars, BodyVars
<1>. QED  BY <1>1, <1>2, <1>3, <1>4, <1>5, <1>6, <1>7, <1>8 DEF Control

LEMMA DrainFailsControl ==
  ASSUME Control, NEW n \in Trials, DrainFails(n)
  PROVE  Control'
<1>0. TypedRun /\ TypedIO /\ Stage /\ Past /\ Now /\ Closed /\ Buffer /\ Bounds
  BY DEF Control
<1>1. TypedRun'
  BY <1>0 DEF TypedRun, Places, DrainFails, CaptureVars, BodyVars
<1>2. TypedIO'
  BY <1>0 DEF TypedIO, DrainFails, IOVars, BodyVars
<1>3. Stage'
  BY <1>0 DEF Stage, Terminal, Redirected, DrainFails, CaptureVars
<1>4. Past'
  BY <1>0 DEF Past, DrainFails
<1>5. Now'
  <2>1. reader' = [reader EXCEPT ![n] = "failed"] /\ UNCHANGED <<pc, trial>> /\ reader[n] = "draining"
    BY <1>0 DEF DrainFails
  <2>2. CASE n = trial
    BY <1>0, <2>1, <2>2 DEF Now, TypedRun
  <2>3. CASE n # trial
    <3>1. reader'[trial] = reader[trial]
      BY <1>0, <2>1, <2>3 DEF TypedRun
    <3>. QED  BY <1>0, <2>1, <3>1 DEF Now
  <2>. QED  BY <2>2, <2>3
<1>6. Closed'
  BY <1>0 DEF Now, Closed, DrainFails, IOVars, BodyVars
<1>7. Buffer'
  BY <1>0 DEF Buffer, DrainFails, IOVars, BodyVars
<1>8. Bounds'
  BY <1>0 DEF Bounds, DrainFails, IOVars, BodyVars
<1>. QED  BY <1>1, <1>2, <1>3, <1>4, <1>5, <1>6, <1>7, <1>8 DEF Control

LEMMA InitControl == Init => Control
<1>. SUFFICES ASSUME Init PROVE Control
  OBVIOUS
<1>1. TypedRun
  <2>1. 0 \in 0 .. NTrials
    BY CaptureAssumption <2>. QED BY <2>1 DEF Init, TypedRun, Places
<1>2. TypedIO
  BY SeqFacts DEF Init, TypedIO
<1>3. Stage
  BY DEF Init, Stage, Terminal
<1>4. Past
  BY CaptureAssumption DEF Init, Past, Trials
<1>5. Now
  BY DEF Init, Now
<1>6. Closed
  BY DEF Init, Closed
<1>7. Buffer
  BY DEF Init, Buffer
<1>8. Bounds
  BY Sizes, SeqFacts DEF Init, Bounds
<1>. QED  BY <1>1, <1>2, <1>3, <1>4, <1>5, <1>6, <1>7, <1>8 DEF Control

LEMMA StutterControl ==
  ASSUME Control, UNCHANGED vars
  PROVE  Control'
BY DEF Control, vars, TypedRun, TypedIO, Stage, Terminal, Redirected, Past, Now, Closed, Buffer, Bounds

LEMMA NextControl == Control /\ [Next]_vars => Control'
<1>. SUFFICES ASSUME Control, [Next]_vars PROVE Control'
  OBVIOUS
<1>1. CASE Runner
  BY <1>1, NextTrialControl, FlushBeginControl, SaveControl, MakePipeControl, RedirectStdoutControl,
     RedirectStderrControl, SpawnDrainControl, FatalControl, SpawnTrialControl, FlushEndControl,
     RestoreControl, JoinControl, VerdictControl, ReportControl, ExitProcessControl DEF Runner
<1>2. CASE Body
  BY <1>2, BodyPrintControl, BodyPrintlnControl, BodyEprintlnControl, BodyPrintFailsControl,
     BodySpawnsChildControl, BodyEndsControl DEF Body
<1>3. CASE \E n \in Trials : ChildWrites(n) \/ ChildExits(n) \/ Drain(n)
  BY <1>3, ChildWritesControl, ChildExitsControl, DrainReadsControl, DrainEofControl,
     DrainFailsControl DEF Drain
<1>4. CASE Finished \/ UNCHANGED vars
  BY <1>4, StutterControl DEF Finished
<1>. QED  BY <1>1, <1>2, <1>3, <1>4 DEF Next

\* At every place of the runner the descriptors, the pipe ends and the drain
\* threads are what that place expects, whichever system calls have failed.
THEOREM CaptureKeepsControl == Spec => []Control
<1>. QED  BY InitControl, NextControl, PTL DEF Spec

\* Between two trials nothing of a capture is left: FdCapture::end has restored
\* both descriptors, closed what begin opened and joined the drain thread.
THEOREM NothingIsLeftOpen == Spec => []NothingLeftOpen
<1>1. Control => TypeOK
  <2>. SUFFICES ASSUME Control PROVE TypeOK
    OBVIOUS
  <2>1. TypedRun /\ TypedIO /\ Stage /\ Bounds
    BY DEF Control
  <2>2. \A n \in Trials, s \in Streams : wrote[n][s] \in 0 .. MaxWrites[n][s]
    BY <2>1, Sizes DEF TypedIO, Bounds
  <2>3. \A n \in Trials : Len(pipe[n]) <= PipeSize + MaxWrites[n]["out"]
    BY <2>1 DEF Bounds
  <2>. QED  BY <2>1, <2>2, <2>3 DEF TypedRun, Stage, TypeOK
<1>2. Control /\ pc = "idle" => Terminal /\ ~saved /\ ~writer
  BY DEF Control, Stage
<1>3. Control => (Terminal => fd = [d \in {1, 2} |-> 0])
  BY DEF Control, TypedRun, Terminal
<1>4. ASSUME Control, pc = "idle", NEW n \in 1 .. trial
      PROVE  reader[n] = "failed" \/ (reader[n] = "done" /\ ~child[n] /\ pipe[n] = <<>>)
  <2>1. n \in Trials /\ trial # 0 /\ (n < trial \/ n = trial)
    BY <1>4, CaptureAssumption DEF Control, TypedRun, Trials
  <2>2. reader[n] \in {"done", "failed"}
    BY <1>4, <2>1 DEF Control, Past, Now
  <2>. QED  BY <1>4, <2>1, <2>2 DEF Control, Closed
<1>5. Control => NothingLeftOpen
  BY <1>1, <1>2, <1>3, <1>4 DEF NothingLeftOpen
<1>. QED  BY <1>5, CaptureKeepsControl, PTL

-----------------------------------------------------------------------------
(* No output is lost.                                                      *)

\* What of the trial's output is still in the stdout buffer ...
Pending(n, s) == IF n = trial /\ s = "out" /\ pc \in {"body", "flushEnd"} THEN Len(obuf) ELSE 0

\* ... and what has left it.
Sent(n) == [s \in Streams |-> wrote[n][s] - Pending(n, s)]

\* What was read and what is in the pipe are together what was sent, and the
\* buffer holds the rest of stdout, in order.  A broken pipe ends the promise.
Intact(n) ==
  reader[n] \notin {"failed", "unspawned"} => Delivers(got[n] \o pipe[n], n, Sent(n))
Held ==
  pc \in {"body", "flushEnd"} /\ reader[trial] = "draining" =>
    \A i \in 1 .. Len(obuf) : obuf[i] = Chunk(trial, "out", wrote[trial]["out"] - Len(obuf) + i)
Data == Held /\ \A n \in Trials : Intact(n)

LEMMA ChunkFields ==
  ASSUME NEW n, NEW s, NEW k
  PROVE  Chunk(n, s, k).by = n /\ Chunk(n, s, k).stream = s /\ Chunk(n, s, k).num = k
BY DEF Chunk

\* Chunks of one stream that continue its count may follow what was delivered.
LEMMA DeliversMore ==
  ASSUME NEW n \in Nat, NEW q \in Seq(Item), NEW sent \in [Streams -> Nat], Delivers(q, n, sent),
         NEW s \in Streams, NEW c \in Seq(Item),
         \A i \in 1 .. Len(c) : c[i] = Chunk(n, s, sent[s] + i),
         NEW more \in [Streams -> Nat], more[s] = sent[s] + Len(c),
         \A r \in Streams : r # s => more[r] = sent[r]
  PROVE  Delivers(q \o c, n, more)
<1>1. /\ Len(q) \in Nat /\ Len(c) \in Nat /\ DOMAIN q = 1 .. Len(q)
      /\ DOMAIN (q \o c) = 1 .. Len(q) + Len(c)
      /\ \A i \in 1 .. Len(q) : (q \o c)[i] = q[i]
      /\ \A i \in 1 .. Len(c) : (q \o c)[Len(q) + i] = c[i]
  OBVIOUS
<1>2. PICK p : p = q \o c
  OBVIOUS
<1>3. \A r \in Streams : sent[r] \in Nat /\ more[r] \in Nat /\ sent[r] <= more[r]
  BY <1>1
<1>4. \A i \in 1 .. Len(c) : p[Len(q) + i] = Chunk(n, s, sent[s] + i) /\ sent[s] + i \in 1 .. more[s]
  BY <1>1, <1>2, <1>3
<1>5. \A i \in DOMAIN p : i \in 1 .. Len(q) \/ \E j \in 1 .. Len(c) : i = Len(q) + j
  <2>1. SUFFICES ASSUME NEW i \in 1 .. Len(q) + Len(c), i \notin 1 .. Len(q)
                 PROVE  \E j \in 1 .. Len(c) : i = Len(q) + j
    BY <1>1, <1>2
  <2>2. i - Len(q) \in 1 .. Len(c) /\ i = Len(q) + (i - Len(q))
    BY <1>1, <2>1
  <2>. QED  BY <2>2
<1>6. ASSUME NEW i \in DOMAIN p PROVE \E r \in Streams : \E k \in 1 .. more[r] : p[i] = Chunk(n, r, k)
  <2>1. CASE i \in 1 .. Len(q)
    <3>1. PICK r \in Streams : \E k \in 1 .. sent[r] : q[i] = Chunk(n, r, k)
      BY <1>1, <2>1 DEF Delivers
    <3>2. PICK k \in 1 .. sent[r] : q[i] = Chunk(n, r, k)
      BY <3>1
    <3>3. k \in 1 .. more[r] /\ p[i] = Chunk(n, r, k)
      BY <1>1, <1>2, <1>3, <2>1, <3>2
    <3>. QED  BY <3>3
  <2>2. CASE \E j \in 1 .. Len(c) : i = Len(q) + j
    BY <1>4, <2>2
  <2>. QED  BY <1>5, <2>1, <2>2
<1>7. ASSUME NEW r \in Streams, NEW k \in 1 .. more[r] PROVE \E i \in DOMAIN p : p[i] = Chunk(n, r, k)
  <2>1. CASE k \in 1 .. sent[r]
    <3>1. PICK i \in DOMAIN q : q[i] = Chunk(n, r, k)
      BY <2>1 DEF Delivers
    <3>2. i \in DOMAIN p /\ p[i] = q[i]
      BY <1>1, <1>2, <3>1
    <3>. QED  BY <3>1, <3>2
  <2>2. CASE k \notin 1 .. sent[r]
    <3>1. r = s /\ k - sent[s] \in 1 .. Len(c)
      BY <1>1, <1>3, <1>7, <2>2
    <3>2. PICK j \in 1 .. Len(c) : k = sent[s] + j
      BY <1>3, <1>7, <3>1
    <3>3. Len(q) + j \in DOMAIN p /\ p[Len(q) + j] = Chunk(n, r, k)
      BY <1>1, <1>2, <1>4, <3>1, <3>2, SMTT(40)
    <3>. QED  BY <3>3
  <2>. QED  BY <2>1, <2>2
<1>8. ASSUME NEW i \in DOMAIN p, NEW j \in DOMAIN p, i < j, p[i].stream = p[j].stream
      PROVE  p[i].num < p[j].num
  <2>1. CASE i \in 1 .. Len(q) /\ j \in 1 .. Len(q)
    BY <1>1, <1>2, <1>8, <2>1 DEF Delivers
  <2>2. CASE i \in 1 .. Len(q) /\ j \notin 1 .. Len(q)
    <3>1. PICK b \in 1 .. Len(c) : j = Len(q) + b
      BY <1>5, <2>2
    <3>2. p[j].stream = s /\ p[j].num = sent[s] + b
      BY <1>4, <3>1, ChunkFields
    <3>3. PICK r \in Streams : \E k \in 1 .. sent[r] : q[i] = Chunk(n, r, k)
      BY <1>1, <2>2 DEF Delivers
    <3>4. PICK k \in 1 .. sent[r] : q[i] = Chunk(n, r, k)
      BY <3>3
    <3>5. p[i].stream = r /\ p[i].num = k
      BY <1>1, <1>2, <2>2, <3>4, ChunkFields
    <3>. QED  BY <1>3, <1>8, <3>1, <3>2, <3>4, <3>5
  <2>3. CASE i \notin 1 .. Len(q)
    <3>1. PICK a \in 1 .. Len(c) : i = Len(q) + a
      BY <1>5, <2>3
    <3>2. j \notin 1 .. Len(q)
      BY <1>1, <1>8, <3>1
    <3>3. PICK b \in 1 .. Len(c) : j = Len(q) + b
      BY <1>5, <3>2
    <3>4. p[i].num = sent[s] + a /\ p[j].num = sent[s] + b
      BY <1>4, <3>1, <3>3, ChunkFields
    <3>. QED  BY <1>1, <1>3, <1>8, <3>1, <3>3, <3>4
  <2>. QED  BY <2>1, <2>2, <2>3
<1>9. Delivers(p, n, more)
  BY <1>6, <1>7, <1>8 DEF Delivers
<1>. QED  BY <1>2, <1>9

SentIsCounted ==
  \A n \in Trials : /\ Sent(n) \in [Streams -> Nat]
                    /\ \A s \in Streams : Sent(n)[s] = wrote[n][s] - Pending(n, s)

LEMMA SentType == Control => SentIsCounted
<1>. SUFFICES ASSUME Control, NEW n \in Trials
              PROVE  /\ Sent(n) \in [Streams -> Nat]
                     /\ \A s \in Streams : Sent(n)[s] = wrote[n][s] - Pending(n, s)
  BY DEF SentIsCounted
<1>1. \A s \in Streams : wrote[n][s] \in Nat
  BY DEF Control, TypedIO
<1>2. Len(obuf) \in Nat
  BY SeqFacts DEF Control, TypedIO
<1>3. \A s \in Streams : wrote[n][s] - Pending(n, s) \in Nat
  BY <1>1, <1>2 DEF Control, Buffer, Pending
<1>. QED  BY <1>3 DEF Sent

LEMMA IntactNext ==
  ASSUME NEW n \in Trials
  PROVE  Intact(n)' <=> (reader'[n] \notin {"failed", "unspawned"} =>
                           Delivers(got'[n] \o pipe'[n], n, Sent(n)'))
<1>1. Delivers(got[n] \o pipe[n], n, Sent(n))' <=> Delivers(got'[n] \o pipe'[n], n, Sent(n)')
  BY DEF Delivers
<1>. QED  BY <1>1 DEF Intact

\* A trial's output is intact while nothing of it moves ...
LEMMA IntactStays ==
  ASSUME NEW n \in Trials, Intact(n),
         reader'[n] \notin {"failed", "unspawned"} =>
           /\ reader[n] \notin {"failed", "unspawned"}
           /\ got'[n] \o pipe'[n] = got[n] \o pipe[n]
           /\ \A s \in Streams : wrote'[n][s] - Pending(n, s)' = wrote[n][s] - Pending(n, s)
  PROVE  Intact(n)'
<1>. SUFFICES ASSUME reader'[n] \notin {"failed", "unspawned"}
              PROVE  Delivers(got'[n] \o pipe'[n], n, Sent(n)')
  BY IntactNext
<1>1. Sent(n)' = Sent(n)
  BY DEF Sent
<1>2. Delivers(got[n] \o pipe[n], n, Sent(n))
  BY DEF Intact
<1>. QED  BY <1>1, <1>2

\* ... and while chunks that continue a stream enter its pipe.
LEMMA IntactGrows ==
  ASSUME Control, Control', NEW n \in Trials, Intact(n), reader[n] \notin {"failed", "unspawned"},
         NEW s \in Streams, NEW c \in Seq(Item),
         pipe'[n] = pipe[n] \o c, got'[n] = got[n],
         \A i \in 1 .. Len(c) : c[i] = Chunk(n, s, wrote[n][s] - Pending(n, s) + i),
         wrote'[n][s] - Pending(n, s)' = wrote[n][s] - Pending(n, s) + Len(c),
         \A r \in Streams : r # s => wrote'[n][r] - Pending(n, r)' = wrote[n][r] - Pending(n, r)
  PROVE  Intact(n)'
<1>1. n \in Nat /\ got[n] \in Seq(Item) /\ pipe[n] \in Seq(Item) /\ got[n] \o pipe[n] \in Seq(Item)
  BY SeqFacts, CaptureAssumption DEF Control, TypedIO, Trials
<1>2. got'[n] \o pipe'[n] = (got[n] \o pipe[n]) \o c
  <2>1. got[n] \o (pipe[n] \o c) = (got[n] \o pipe[n]) \o c
    BY <1>1, Assoc, ZenonT(40)
  <2>. QED  BY <2>1
<1>3. Sent(n) \in [Streams -> Nat] /\ \A r \in Streams : Sent(n)[r] = wrote[n][r] - Pending(n, r)
  BY SentType DEF SentIsCounted
<1>4. /\ Sent(n)' \in [Streams -> Nat]
      /\ \A r \in Streams : Sent(n)'[r] = wrote'[n][r] - Pending(n, r)'
  <2>1. SentIsCounted'
    BY SentType, PTL
  <2>. QED  BY <2>1 DEF SentIsCounted
<1>5. Delivers(got[n] \o pipe[n], n, Sent(n))
  BY DEF Intact
<1>6. PICK more : more = Sent(n)'
  OBVIOUS
<1>7. /\ more \in [Streams -> Nat] /\ more[s] = Sent(n)[s] + Len(c)
      /\ \A r \in Streams : r # s => more[r] = Sent(n)[r]
      /\ \A i \in 1 .. Len(c) : c[i] = Chunk(n, s, Sent(n)[s] + i)
  BY <1>3, <1>4, <1>6
<1>8. Delivers((got[n] \o pipe[n]) \o c, n, more)
  BY <1>1, <1>3, <1>5, <1>7, DeliversMore
<1>. QED  BY <1>2, <1>6, <1>8, IntactNext

\* Steps that move no output: the buffer is not the trial's before or after ...
LEMMA QuietData ==
  ASSUME Data, UNCHANGED <<got, pipe, wrote>>,
         \A n \in Trials : reader'[n] \notin {"failed", "unspawned"} =>
                             reader[n] \notin {"failed", "unspawned"},
         \A n \in Trials, s \in Streams : Pending(n, s)' = Pending(n, s),
         Held'
  PROVE  Data'
BY IntactStays DEF Data

LEMMA OutsideData ==
  ASSUME Data, UNCHANGED <<got, pipe, wrote>>,
         \A n \in Trials : reader'[n] \notin {"failed", "unspawned"} =>
                             reader[n] \notin {"failed", "unspawned"},
         pc \notin {"body", "flushEnd"}, pc' \notin {"body", "flushEnd"}
  PROVE  Data'
<1>1. \A n \in Trials, s \in Streams : Pending(n, s)' = 0 /\ Pending(n, s) = 0
  BY DEF Pending
<1>2. Held'
  BY DEF Held
<1>. QED  BY <1>1, <1>2, QuietData

\* ... or it stays as it is.
LEMMA InsideData ==
  ASSUME Control, Data, UNCHANGED <<got, pipe, wrote, obuf, trial>>,
         \A n \in Trials : reader'[n] \notin {"failed", "unspawned"} =>
                             reader[n] \notin {"failed", "unspawned"},
         pc' \in {"body", "flushEnd"} <=> pc \in {"body", "flushEnd"},
         trial \in Trials /\ reader'[trial] = "draining" => reader[trial] = "draining"
  PROVE  Data'
<1>1. \A n \in Trials, s \in Streams : Pending(n, s)' = Pending(n, s)
  BY DEF Pending
<1>2. Held'
  <2>1. pc \in {"body", "flushEnd"} => trial \in Trials
    BY InTrial DEF Control
  <2>. QED  BY <2>1 DEF Data, Held
<1>. QED  BY <1>1, <1>2, QuietData

LEMMA RunnerData ==
  ASSUME Control, Data,
         \/ NextTrial \/ FlushBegin \/ Save \/ MakePipe \/ RedirectStdout \/ RedirectStderr
         \/ SpawnDrain \/ Fatal \/ Restore \/ Verdict \/ Report \/ ExitProcess
  PROVE  Data'
<1>1. UNCHANGED <<got, pipe, wrote>>
  <2>1. CASE NextTrial \/ FlushBegin \/ RedirectStderr \/ Fatal \/ Restore \/ Verdict \/ Report
    BY <2>1, NextTrialEffect, FlushBeginEffect, RedirectStderrEffect, FatalEffect, RestoreEffect,
       VerdictEffect, ReportEffect
  <2>2. CASE Save \/ MakePipe \/ RedirectStdout \/ SpawnDrain \/ ExitProcess
    BY <2>2 DEF Save, MakePipe, RedirectStdout, SpawnDrain, ExitProcess, IOVars, DrainVars, BodyVars
  <2>. QED  BY <2>1, <2>2
<1>2. \A n \in Trials : reader'[n] \notin {"failed", "unspawned"} => reader[n] \notin {"failed", "unspawned"}
  <2>1. CASE SpawnDrain
    <3>1. trial \in Trials /\ reader[trial] = "none"
      BY <2>1, InTrial DEF Control, SpawnDrain, Stage, Now
    <3>. QED  BY <2>1, <3>1 DEF Control, TypedRun, SpawnDrain
  <2>2. CASE ~SpawnDrain
    BY <2>2 DEF NextTrial, FlushBegin, Save, MakePipe, RedirectStdout, RedirectStderr, Fatal, Restore,
       Verdict, Report, ExitProcess, DrainVars
  <2>. QED  BY <2>1, <2>2
<1>3. pc \notin {"body", "flushEnd"} /\ pc' \notin {"body", "flushEnd"}
  BY DEF NextTrial, FlushBegin, Save, MakePipe, RedirectStdout, RedirectStderr, SpawnDrain, Fatal,
     Restore,
     Verdict, Report, ExitProcess, Goto, Abort, RedirectErr
<1>. QED  BY <1>1, <1>2, <1>3, OutsideData

LEMMA JoinData ==
  ASSUME Control, Data, Join
  PROVE  Data'
<1>1. /\ pc = "join" /\ pc' = "verdict" /\ UNCHANGED <<reader, pipe, wrote>>
      /\ reader[trial] # "failed" => got' = got
      /\ \A n \in Trials : n # trial => got'[n] = got[n]
  BY JoinEffect DEF Join, Goto, BodyVars
<1>2. \A n \in Trials, s \in Streams : Pending(n, s)' = 0 /\ Pending(n, s) = 0
  BY <1>1 DEF Pending
<1>3. ASSUME NEW n \in Trials PROVE Intact(n)'
  BY <1>1, <1>2, IntactStays DEF Data
<1>4. Held'
  BY <1>1 DEF Held
<1>. QED  BY <1>3, <1>4 DEF Data

LEMMA SpawnTrialData ==
  ASSUME Control, Data, SpawnTrial
  PROVE  Data'
<1>1. obuf = <<>> /\ obuf' = <<>> /\ Len(obuf) = 0 /\ UNCHANGED <<got, pipe, wrote, reader>>
  BY DEF Control, Buffer, SpawnTrial, IOVars, DrainVars
<1>2. \A n \in Trials, s \in Streams : Pending(n, s)' = Pending(n, s)
  BY <1>1 DEF Pending
<1>3. Held'
  BY <1>1 DEF Held
<1>. QED  BY <1>1, <1>2, <1>3, QuietData

LEMMA InsideStepsData ==
  ASSUME Control, Data,
         \/ BodySpawnsChild \/ BodyEnds \/ UNCHANGED vars
         \/ \E n \in Trials : ChildExits(n) \/ DrainEof(n) \/ DrainFails(n)
  PROVE  Data'
<1>1. UNCHANGED <<got, pipe, wrote, obuf, trial>>
  BY DEF BodySpawnsChild, BodyEnds, ChildExits, DrainEof, DrainFails, vars, Goto, IOVars, DrainVars,
     BodyVars
<1>2. pc' \in {"body", "flushEnd"} <=> pc \in {"body", "flushEnd"}
  BY DEF BodySpawnsChild, BodyEnds, ChildExits, DrainEof, DrainFails, vars, Goto
<1>3. \/ reader' = reader
      \/ \E n \in Trials, r \in {"done", "failed"} :
           reader[n] = "draining" /\ reader' = [reader EXCEPT ![n] = r]
  BY DEF BodySpawnsChild, BodyEnds, ChildExits, DrainEof, DrainFails, vars, DrainVars
<1>4. \A n \in Trials : reader'[n] \notin {"failed", "unspawned"} => reader[n] \notin {"failed", "unspawned"}
  BY <1>3 DEF Control, TypedRun
<1>5. trial \in Trials /\ reader'[trial] = "draining" => reader[trial] = "draining"
  BY <1>3 DEF Control, TypedRun
<1>. QED  BY <1>1, <1>2, <1>4, <1>5, InsideData

LEMMA HeldNext ==
  Held' <=> (pc' \in {"body", "flushEnd"} /\ reader'[trial'] = "draining" =>
               \A i \in 1 .. Len(obuf') :
                  obuf'[i] = Chunk(trial', "out", wrote'[trial']["out"] - Len(obuf') + i))
BY DEF Held, Chunk

LEMMA BodyPrintData ==
  ASSUME Control, Data, BodyPrint
  PROVE  Data'
<1>0. pc = "body" /\ pc' = "body" /\ trial' = trial /\ trial \in Trials /\ reader' = reader
  BY InTrial DEF Control, BodyPrint, DrainVars
<1>1. /\ obuf' = Append(obuf, ChunkOf(trial, "out")) /\ Len(obuf') = Len(obuf) + 1
      /\ UNCHANGED <<pipe, got>>
  BY BodyPrintEffect
<1>2. /\ wrote'[trial]["out"] = wrote[trial]["out"] + 1
      /\ \A m \in Trials, r \in Streams : m # trial \/ r # "out" => wrote'[m][r] = wrote[m][r]
  BY <1>0, Sizes, WroteFacts DEF Control, BodyPrint
<1>3. Len(obuf) \in Nat /\ \A m \in Trials, r \in Streams : wrote[m][r] \in Nat
  BY SeqFacts DEF Control, TypedIO
<1>4. ASSUME NEW m \in Trials, NEW r \in Streams
      PROVE  wrote'[m][r] - Pending(m, r)' = wrote[m][r] - Pending(m, r)
  <2>1. CASE m = trial /\ r = "out"
    <3>1. Pending(m, r) = Len(obuf) /\ Pending(m, r)' = Len(obuf) + 1
      BY <1>0, <1>1, <2>1 DEF Pending
    <3>2. PICK x, y : x = wrote[m][r] /\ y = wrote'[m][r]
      OBVIOUS
    <3>3. x \in Nat /\ y = x + 1
      BY <1>2, <1>3, <2>1, <3>2
    <3>. QED  BY <1>3, <3>1, <3>2, <3>3, SMTT(40)
  <2>2. CASE ~(m = trial /\ r = "out")
    BY <1>0, <1>2, <2>2 DEF Pending
  <2>. QED  BY <2>1, <2>2
<1>5. ASSUME NEW m \in Trials PROVE Intact(m)'
  BY <1>0, <1>1, <1>4, IntactStays DEF Data
<1>6. Held'
  <2>1. PICK x : x = wrote'[trial]["out"]
    OBVIOUS
  <2>2. x = wrote[trial]["out"] + 1
    BY <1>2, <2>1
  <2>3. Held' <=> (reader[trial] = "draining" => \A i \in 1 .. Len(obuf) + 1 :
                     obuf'[i] = Chunk(trial, "out", x - (Len(obuf) + 1) + i))
    BY <1>0, <1>1, <2>1, HeldNext
  <2>4. ASSUME reader[trial] = "draining", NEW i \in 1 .. Len(obuf) + 1
        PROVE  obuf'[i] = Chunk(trial, "out", x - (Len(obuf) + 1) + i)
    <3>1. CASE i = Len(obuf) + 1
      <4>1. obuf'[i] = ChunkOf(trial, "out")
        BY <1>1, <3>1 DEF Control, TypedIO
      <4>2. x - (Len(obuf) + 1) + i = wrote[trial]["out"] + 1
        BY <1>0, <1>3, <2>2, <3>1, Sizes
      <4>. QED  BY <4>1, <4>2 DEF ChunkOf
    <3>2. CASE i # Len(obuf) + 1
      <4>1. i \in 1 .. Len(obuf) /\ obuf'[i] = obuf[i]
        BY <1>1, <1>3, <2>4, <3>2 DEF Control, TypedIO
      <4>2. obuf[i] = Chunk(trial, "out", wrote[trial]["out"] - Len(obuf) + i)
        BY <1>0, <2>4, <4>1 DEF Data, Held
      <4>3. x - (Len(obuf) + 1) + i = wrote[trial]["out"] - Len(obuf) + i
        BY <1>0, <1>3, <2>2, <4>1, Sizes
      <4>. QED  BY <4>1, <4>2, <4>3
    <3>. QED  BY <3>1, <3>2
  <2>. QED  BY <2>3, <2>4
<1>. QED  BY <1>5, <1>6 DEF Data

LEMMA BodyPrintFailsData ==
  ASSUME Control, Data, BodyPrintFails
  PROVE  Data'
<1>0. pc = "body" /\ pc' = "flushEnd" /\ trial' = trial /\ trial \in Trials /\ reader' = reader
  BY InTrial DEF Control, BodyPrintFails, Goto, DrainVars
<1>1. reader[trial] \in {"failed", "unspawned"} /\ UNCHANGED <<pipe, got>>
  BY DEF BodyPrintFails, Broken, DrainVars
<1>2. \A m \in Trials, r \in Streams : m # trial => wrote'[m][r] = wrote[m][r]
  BY <1>0, Sizes, WroteFacts DEF Control, BodyPrintFails
<1>3. ASSUME NEW m \in Trials PROVE Intact(m)'
  <2>1. CASE m = trial
    BY <1>0, <1>1, <2>1 DEF Intact
  <2>2. CASE m # trial
    <3>1. \A r \in Streams : Pending(m, r)' = 0 /\ Pending(m, r) = 0
      BY <1>0, <2>2 DEF Pending
    <3>. QED  BY <1>0, <1>1, <1>2, <2>2, <3>1, IntactStays DEF Data
  <2>. QED  BY <2>1, <2>2
<1>4. Held'
  BY <1>0, <1>1 DEF Held
<1>. QED  BY <1>3, <1>4 DEF Data

\* The chunks that are written continue the stream they belong to.
LEMMA PrintlnContinues ==
  ASSUME Control, Data, trial \in Trials, pc \in {"body", "flushEnd"}, reader[trial] = "draining"
  PROVE  /\ \A i \in 1 .. Len(obuf) :
              obuf[i] = Chunk(trial, "out", wrote[trial]["out"] - Pending(trial, "out") + i)
         /\ \A i \in 1 .. Len(Append(obuf, ChunkOf(trial, "out"))) :
              Append(obuf, ChunkOf(trial, "out"))[i]
                = Chunk(trial, "out", wrote[trial]["out"] - Pending(trial, "out") + i)
<1>1. Pending(trial, "out") = Len(obuf) /\ Len(obuf) \in Nat /\ wrote[trial]["out"] \in Nat
  BY Sizes, SeqFacts DEF Pending, Control, TypedIO
<1>2. \A i \in 1 .. Len(obuf) :
        obuf[i] = Chunk(trial, "out", wrote[trial]["out"] - Pending(trial, "out") + i)
  BY <1>1 DEF Data, Held
<1>3. PICK q : q = Append(obuf, ChunkOf(trial, "out"))
  OBVIOUS
<1>4. /\ Len(q) = Len(obuf) + 1 /\ q[Len(obuf) + 1] = ChunkOf(trial, "out")
      /\ \A i \in 1 .. Len(obuf) : q[i] = obuf[i]
  BY <1>3 DEF Control, TypedIO
<1>5. ASSUME NEW i \in 1 .. Len(obuf) + 1
      PROVE  q[i] = Chunk(trial, "out", wrote[trial]["out"] - Pending(trial, "out") + i)
  <2>1. CASE i = Len(obuf) + 1
    <3>1. wrote[trial]["out"] - Pending(trial, "out") + i = wrote[trial]["out"] + 1
      BY <1>1, <2>1
    <3>. QED  BY <1>4, <2>1, <3>1 DEF ChunkOf
  <2>2. CASE i # Len(obuf) + 1
    <3>1. i \in 1 .. Len(obuf)
      BY <1>1, <1>5, <2>2
    <3>. QED  BY <1>2, <1>4, <3>1
  <2>. QED  BY <2>1, <2>2
<1>. QED  BY <1>2, <1>3, <1>4, <1>5

LEMMA BodyPrintlnData ==
  ASSUME Control, Control', Data, BodyPrintln
  PROVE  Data'
<1>0. pc = "body" /\ pc' = "body" /\ trial' = trial /\ trial \in Trials /\ reader' = reader
  BY InTrial DEF Control, BodyPrintln, DrainVars
<1>1. /\ obuf' = <<>> /\ Len(obuf') = 0 /\ got' = got
      /\ pipe'[trial] = pipe[trial] \o Append(obuf, ChunkOf(trial, "out"))
      /\ \A m \in Trials : m # trial => pipe'[m] = pipe[m]
  BY BodyPrintlnEffect
<1>2. /\ wrote'[trial]["out"] = wrote[trial]["out"] + 1 /\ ChunkOf(trial, "out") \in Item
      /\ \A m \in Trials, r \in Streams : m # trial \/ r # "out" => wrote'[m][r] = wrote[m][r]
  BY <1>0, Sizes, WroteFacts DEF Control, BodyPrintln
<1>3. /\ obuf \in Seq(Item) /\ Len(obuf) \in Nat /\ wrote[trial]["out"] \in Nat
      /\ reader[trial] = "draining"
  BY <1>0, SeqFacts, Sizes, BodyPrintlnEffect, SMTT(40) DEF Control, TypedIO, Now, Stage
<1>4. PICK c : c = Append(obuf, ChunkOf(trial, "out"))
  OBVIOUS
<1>5. /\ c \in Seq(Item) /\ Len(c) = Len(obuf) + 1
      /\ \A i \in 1 .. Len(c) : c[i] = Chunk(trial, "out", wrote[trial]["out"] - Pending(trial, "out") + i)
  BY <1>0, <1>2, <1>3, <1>4, SeqFacts, PrintlnContinues
<1>6. /\ Pending(trial, "out") = Len(obuf) /\ Pending(trial, "out")' = 0
      /\ \A m \in Trials, r \in Streams : m # trial \/ r # "out" => Pending(m, r) = 0 /\ Pending(m, r)' = 0
  BY <1>0, <1>1 DEF Pending
<1>7. ASSUME NEW m \in Trials PROVE Intact(m)'
  <2>1. CASE m = trial
    <3>1. wrote'[trial]["out"] - Pending(trial, "out")' = wrote[trial]["out"] - Pending(trial, "out") + Len(c)
      <4>1. PICK x, y : x = wrote[trial]["out"] /\ y = wrote'[trial]["out"]
        OBVIOUS
      <4>2. x \in Nat /\ y = x + 1
        BY <1>2, <1>3, <4>1
      <4>3. y - 0 = x - Len(obuf) + (Len(obuf) + 1)
        BY <1>3, <4>2
      <4>. QED  BY <1>5, <1>6, <4>1, <4>3
    <3>2. \A r \in Streams : r # "out" =>
            wrote'[trial][r] - Pending(trial, r)' = wrote[trial][r] - Pending(trial, r)
      BY <1>0, <1>2, <1>6
    <3>3. Intact(trial) /\ reader[trial] \notin {"failed", "unspawned"}
      BY <1>0, <1>3 DEF Data
    <3>4. pipe'[trial] = pipe[trial] \o c /\ got'[trial] = got[trial]
      BY <1>1, <1>4
    <3>. QED  BY <1>0, <1>5, <2>1, <3>1, <3>2, <3>3, <3>4, IntactGrows, Sizes
  <2>2. CASE m # trial
    BY <1>0, <1>1, <1>2, <1>6, <2>2, IntactStays DEF Data
  <2>. QED  BY <2>1, <2>2
<1>8. Held'
  BY <1>1, HeldNext
<1>. QED  BY <1>7, <1>8 DEF Data

\* A chunk that is written at once continues its stream.
LEMMA OneChunk ==
  ASSUME Control, NEW n \in Trials, NEW s \in Streams, Pending(n, s) = 0
  PROVE  /\ <<ChunkOf(n, s)>> \in Seq(Item) /\ Len(<<ChunkOf(n, s)>>) = 1
         /\ \A i \in 1 .. Len(<<ChunkOf(n, s)>>) :
              <<ChunkOf(n, s)>>[i] = Chunk(n, s, wrote[n][s] - Pending(n, s) + i)
<1>1. wrote[n][s] \in Nat /\ n \in Nat
  BY CaptureAssumption DEF Control, TypedIO, Trials
<1>2. ChunkOf(n, s) \in Item
  BY <1>1, ItemTypes DEF ChunkOf
<1>3. <<ChunkOf(n, s)>> \in Seq(Item) /\ Len(<<ChunkOf(n, s)>>) = 1
  BY <1>2, SeqFacts
<1>4. wrote[n][s] - Pending(n, s) + 1 = wrote[n][s] + 1
  BY <1>1
<1>5. <<ChunkOf(n, s)>>[1] = Chunk(n, s, wrote[n][s] - Pending(n, s) + 1)
  BY <1>4 DEF ChunkOf
<1>. QED  BY <1>3, <1>5

\* A write to an unbuffered stream of trial n.
LEMMA UnbufferedData ==
  ASSUME Control, Control', Data, NEW n \in Trials, NEW s \in {"err", "child"},
         UNCHANGED <<pc, trial, reader, obuf, got>>, Wrote(n, s),
         pipe'[n] = pipe[n] \o <<ChunkOf(n, s)>>,
         reader[n] \notin {"failed", "unspawned"},
         \A m \in Trials : m # n => pipe'[m] = pipe[m]
  PROVE  Data'
<1>0. s \in Streams /\ s # "out"
  BY DEF Streams
<1>1. \A m \in Trials, r \in Streams : Pending(m, r)' = Pending(m, r)
  BY DEF Pending
<1>2. Pending(n, s) = 0
  BY <1>0 DEF Pending
<1>3. /\ wrote'[n][s] = wrote[n][s] + 1 /\ wrote[n][s] \in Nat
      /\ \A m \in Trials, r \in Streams : m # n \/ r # s => wrote'[m][r] = wrote[m][r]
  BY <1>0, WroteFacts DEF Control, TypedIO
<1>4. PICK c : c = <<ChunkOf(n, s)>>
  OBVIOUS
<1>5. /\ c \in Seq(Item) /\ Len(c) = 1
      /\ \A i \in 1 .. Len(c) : c[i] = Chunk(n, s, wrote[n][s] - Pending(n, s) + i)
  BY <1>0, <1>2, <1>4, OneChunk
<1>6. ASSUME NEW m \in Trials PROVE Intact(m)'
  <2>1. CASE m = n
    <3>1. wrote'[n][s] - Pending(n, s)' = wrote[n][s] - Pending(n, s) + Len(c)
      BY <1>0, <1>1, <1>2, <1>3, <1>5
    <3>2. \A r \in Streams : r # s => wrote'[n][r] - Pending(n, r)' = wrote[n][r] - Pending(n, r)
      BY <1>1, <1>3
    <3>3. Intact(n) /\ pipe'[n] = pipe[n] \o c /\ got'[n] = got[n]
      BY <1>4 DEF Data
    <3>. QED  BY <1>0, <1>5, <2>1, <3>1, <3>2, <3>3, IntactGrows
  <2>2. CASE m # n
    <3>1. \A r \in Streams : wrote'[m][r] - Pending(m, r)' = wrote[m][r] - Pending(m, r)
      BY <1>1, <1>3, <2>2
    <3>2. got'[m] \o pipe'[m] = got[m] \o pipe[m] /\ Intact(m)
      BY <2>2 DEF Data
    <3>. QED  BY <3>1, <3>2, IntactStays
  <2>. QED  BY <2>1, <2>2
<1>7. Held'
  <2>1. CASE pc \in {"body", "flushEnd"} /\ reader[trial] = "draining"
    <3>1. trial \in Trials
      BY <2>1, InTrial DEF Control
    <3>2. wrote'[trial]["out"] = wrote[trial]["out"]
      BY <1>0, <1>3, <3>1, Sizes
    <3>3. \A i \in 1 .. Len(obuf) : obuf[i] = Chunk(trial, "out", wrote[trial]["out"] - Len(obuf) + i)
      BY <2>1 DEF Data, Held
    <3>. QED  BY <3>2, <3>3, HeldNext
  <2>2. CASE ~(pc \in {"body", "flushEnd"} /\ reader[trial] = "draining")
    BY <2>2, HeldNext
  <2>. QED  BY <2>1, <2>2
<1>. QED  BY <1>6, <1>7 DEF Data

LEMMA BodyEprintlnData ==
  ASSUME Control, Control', Data, BodyEprintln
  PROVE  Data'
<1>1. /\ trial \in Trials /\ UNCHANGED <<pc, trial, reader, obuf, got>> /\ Wrote(trial, "err")
      /\ pc = "body"
  BY InTrial DEF Control, BodyEprintln, DrainVars
<1>2. /\ pipe'[trial] = pipe[trial] \o <<ChunkOf(trial, "err")>> /\ reader[trial] # "failed"
      /\ \A m \in Trials : m # trial => pipe'[m] = pipe[m]
  BY BodyEprintlnEffect
<1>3. reader[trial] = "draining"
  BY <1>1, <1>2 DEF Control, Now, Stage
<1>. QED  BY <1>1, <1>2, <1>3, UnbufferedData

LEMMA ChildWritesData ==
  ASSUME Control, Control', Data, NEW n \in Trials, ChildWrites(n)
  PROVE  Data'
<1>1. /\ UNCHANGED <<pc, trial, reader, obuf, got>> /\ Wrote(n, "child")
      /\ reader[n] \notin {"failed", "unspawned"}
  BY CaptureAssumption DEF ChildWrites, DrainVars, Broken, Trials
<1>2. pipe'[n] = Append(pipe[n], ChunkOf(n, "child")) /\ \A m \in Trials : m # n => pipe'[m] = pipe[m]
  BY ChildWritesEffect
<1>3. pipe[n] \in Seq(Item) /\ ChunkOf(n, "child") \in Item
  BY <1>1, Sizes, WroteFacts DEF Control, TypedIO
<1>4. Append(pipe[n], ChunkOf(n, "child")) = pipe[n] \o <<ChunkOf(n, "child")>>
  BY <1>3
<1>. QED  BY <1>1, <1>2, <1>4, UnbufferedData

LEMMA FlushEndData ==
  ASSUME Control, Control', Data, FlushEnd
  PROVE  Data'
<1>0. pc = "flushEnd" /\ pc' = "restore" /\ trial' = trial /\ trial \in Trials /\ UNCHANGED <<reader, wrote, got>>
  BY InTrial DEF Control, FlushEnd, Goto, DrainVars, BodyVars
<1>1. /\ Pending(trial, "out") = Len(obuf)
      /\ \A m \in Trials, r \in Streams : m # trial \/ r # "out" => Pending(m, r) = 0
      /\ \A m \in Trials, r \in Streams : Pending(m, r)' = 0
  BY <1>0 DEF Pending
<1>2. Held'
  BY <1>0, HeldNext
<1>3. /\ obuf \in Seq(Item) /\ Len(obuf) \in Nat /\ wrote[trial]["out"] \in Nat
      /\ reader[trial] \in {"draining", "failed"}
  BY <1>0, SeqFacts, Sizes DEF Control, TypedIO, Now, Stage
<1>4. ASSUME NEW m \in Trials PROVE Intact(m)'
  <2>1. CASE reader[m] = "failed"
    BY <1>0, <2>1, IntactNext
  <2>2. CASE m # trial
    <3>1. pipe'[m] = pipe[m]
      BY <2>2, FlushEndEffect
    <3>. QED  BY <1>0, <1>1, <2>2, <3>1, IntactStays DEF Data
  <2>3. CASE m = trial /\ reader[m] # "failed" /\ obuf = <<>>
    <3>1. pipe' = pipe
      BY <2>3, FlushEndEffect
    <3>2. \A r \in Streams : Pending(m, r) = 0
      BY <1>1, <2>3
    <3>. QED  BY <1>0, <1>1, <3>1, <3>2, IntactStays DEF Data
  <2>4. CASE m = trial /\ reader[m] # "failed" /\ obuf # <<>>
    <3>1. reader[trial] = "draining"
      BY <1>3, <2>4
    <3>2. pipe'[trial] = pipe[trial] \o obuf
      <4>1. ~Broken(trial) /\ Write(1, obuf)
        BY <2>4, <3>1 DEF FlushEnd, Broken
      <4>2. fd[1] = trial /\ trial # 0
        BY <1>0, CaptureAssumption DEF Control, Stage, Redirected, Trials
      <4>. QED  BY <1>3, <4>1, <4>2, WriteFacts DEF Control
    <3>3. \A i \in 1 .. Len(obuf) : obuf[i] = Chunk(trial, "out", wrote[trial]["out"] - Pending(trial, "out") + i)
      BY <1>0, <3>1, PrintlnContinues
    <3>4. wrote'[trial]["out"] - Pending(trial, "out")' = wrote[trial]["out"] - Pending(trial, "out") + Len(obuf)
      <4>1. PICK x : x = wrote[trial]["out"]
        OBVIOUS
      <4>2. x - 0 = x - Len(obuf) + Len(obuf)
        BY <1>3, <4>1
      <4>3. Pending(trial, "out")' = 0
        BY <1>0, <1>1, Sizes
      <4>. QED  BY <1>0, <1>1, <4>1, <4>2, <4>3
    <3>5. \A r \in Streams : r # "out" => wrote'[trial][r] - Pending(trial, r)' = wrote[trial][r] - Pending(trial, r)
      BY <1>0, <1>1
    <3>6. Intact(trial) /\ got'[trial] = got[trial]
      BY <1>0 DEF Data
    <3>. QED  BY <1>0, <1>3, <2>4, <3>1, <3>2, <3>3, <3>4, <3>5, <3>6, IntactGrows, Sizes
  <2>. QED  BY <2>1, <2>2, <2>3, <2>4
<1>. QED  BY <1>2, <1>4 DEF Data

\* What is read leaves the pipe and joins what was read, in order.
LEMMA ReadKeepsOrder ==
  ASSUME NEW q \in Seq(Item), NEW c \in Seq(Item), c # <<>>
  PROVE  Append(q, Head(c)) \o Tail(c) = q \o c
<1>1. Head(c) \in Item /\ Tail(c) \in Seq(Item) /\ <<Head(c)>> \in Seq(Item)
  BY SeqFacts
<1>2. Append(q, Head(c)) = q \o <<Head(c)>>
  BY <1>1
<1>3. <<Head(c)>> \o Tail(c) = c
  <2>1. PICK h : h = <<Head(c)>> \o Tail(c)
    OBVIOUS
  <2>2. /\ h \in Seq(Item) /\ Len(h) = Len(c) /\ h[1] = c[1]
        /\ \A i \in 1 .. Len(c) - 1 : h[1 + i] = c[i + 1]
    BY <1>1, <2>1, SeqFacts
  <2>3. ASSUME NEW i \in 1 .. Len(c) PROVE h[i] = c[i]
    <3>1. CASE i = 1
      BY <2>2, <3>1
    <3>2. CASE i # 1
      <4>1. i - 1 \in 1 .. Len(c) - 1 /\ 1 + (i - 1) = i /\ (i - 1) + 1 = i
        BY <2>3, <3>2, SeqFacts
      <4>. QED  BY <2>2, <4>1
    <3>. QED  BY <3>1, <3>2
  <2>. QED  BY <2>1, <2>2, <2>3, SeqEqual
<1>4. q \o (<<Head(c)>> \o Tail(c)) = (q \o <<Head(c)>>) \o Tail(c)
  BY <1>1, Assoc, Zenon
<1>. QED  BY <1>2, <1>3, <1>4

LEMMA DrainReadsData ==
  ASSUME Control, Data, NEW n \in Trials, DrainReads(n)
  PROVE  Data'
<1>1. UNCHANGED <<pc, trial, reader, obuf, wrote>>
  BY DEF DrainReads, BodyVars
<1>2. \A m \in Trials, r \in Streams : Pending(m, r)' = Pending(m, r)
  BY <1>1 DEF Pending
<1>3. ASSUME NEW m \in Trials PROVE got'[m] \o pipe'[m] = got[m] \o pipe[m]
  <2>1. CASE m = n
    <3>1. /\ got'[n] = Append(got[n], Head(pipe[n])) /\ pipe'[n] = Tail(pipe[n]) /\ pipe[n] # <<>>
      BY DrainReadsEffect
    <3>2. got[n] \in Seq(Item) /\ pipe[n] \in Seq(Item)
      BY DEF Control, TypedIO
    <3>. QED  BY <2>1, <3>1, <3>2, ReadKeepsOrder
  <2>2. CASE m # n
    BY <2>2, DrainReadsEffect
  <2>. QED  BY <2>1, <2>2
<1>4. \A m \in Trials : Intact(m)'
  BY <1>1, <1>2, <1>3, IntactStays DEF Data
<1>5. Held'
  BY <1>1 DEF Data, Held
<1>. QED  BY <1>4, <1>5 DEF Data

LEMMA InitData == Init => Data
<1>. SUFFICES ASSUME Init PROVE Data
  OBVIOUS
<1>1. Held
  BY DEF Init, Held
<1>2. ASSUME NEW n \in Trials PROVE Intact(n)
  <2>1. PICK q : q = <<>> \o <<>>
    OBVIOUS
  <2>2. Len(q) = 0 /\ q \in Seq(Item) /\ DOMAIN q = {}
    BY <2>1
  <2>3. Sent(n) = [s \in Streams |-> 0]
    BY DEF Init, Sent, Pending
  <2>4. Delivers(q, n, [s \in Streams |-> 0])
    BY <2>2 DEF Delivers
  <2>. QED  BY <2>1, <2>3, <2>4 DEF Init, Intact
<1>. QED  BY <1>1, <1>2 DEF Data

LEMMA NextData == Control /\ Control' /\ Data /\ [Next]_vars => Data'
<1>. SUFFICES ASSUME Control, Control', Data, [Next]_vars PROVE Data'
  OBVIOUS
<1>1. CASE Runner
  BY <1>1, RunnerData, SpawnTrialData, FlushEndData, JoinData DEF Runner
<1>2. CASE Body
  BY <1>2, BodyPrintData, BodyPrintlnData, BodyEprintlnData, BodyPrintFailsData,
     InsideStepsData DEF Body
<1>3. CASE \E n \in Trials : ChildWrites(n) \/ ChildExits(n) \/ Drain(n)
  BY <1>3, ChildWritesData, DrainReadsData, InsideStepsData DEF Drain
<1>4. CASE Finished \/ UNCHANGED vars
  BY <1>4, InsideStepsData DEF Finished
<1>. QED  BY <1>1, <1>2, <1>3, <1>4 DEF Next

\* At every moment what the drain thread has read, what is in the pipe and what
\* the stdout buffer holds are together what the trial has written.
THEOREM NoOutputIsLost == Spec => []Data
<1>1. Control /\ Data /\ [Next]_vars => (Control /\ Data)'
  BY NextControl, NextData
<1>. QED  BY <1>1, InitControl, InitData, PTL DEF Spec

\* What FdCapture::end returns is everything the trial wrote and nothing else,
\* each stream in order, unless the drain thread failed.
THEOREM TheCaptureIsComplete == Spec => []CaptureIsComplete
<1>1. Control /\ Data => CaptureIsComplete
  <2>. SUFFICES ASSUME Control, Data, pc = "verdict", reader[trial] = "done"
                PROVE  Delivers(got[trial], trial, wrote[trial])
    BY DEF CaptureIsComplete
  <2>1. trial \in Trials /\ pipe[trial] = <<>> /\ got[trial] \in Seq(Item)
    BY InTrial DEF Control, Closed, TypedIO
  <2>2. got[trial] \o pipe[trial] = got[trial]
    BY <2>1
  <2>3. Sent(trial) = wrote[trial]
    <3>1. \A s \in Streams : Pending(trial, s) = 0 /\ wrote[trial][s] \in Nat
      BY <2>1 DEF Pending, Control, TypedIO
    <3>2. wrote[trial] = [s \in Streams |-> wrote[trial][s]]
      BY <2>1 DEF Control, TypedIO
    <3>. QED  BY <3>1, <3>2 DEF Sent
  <2>4. Delivers(got[trial] \o pipe[trial], trial, Sent(trial))
    BY <2>1 DEF Data, Intact
  <2>. QED  BY <2>2, <2>3, <2>4
<1>. QED  BY <1>1, CaptureKeepsControl, NoOutputIsLost, PTL

-----------------------------------------------------------------------------
(* What the terminal shows.                                                *)

\* The items of q are about the trials 1 to t, in the order of the trials.
Arranged(q, t) ==
  /\ \A i \in DOMAIN q : TrialOf(q[i]) \in 1 .. t
  /\ \A i, j \in DOMAIN q : i < j => TrialOf(q[i]) <= TrialOf(q[j])

\* r is what q shows of trial n, in one piece ...
Piece(q, n, r) ==
  \E a \in 0 .. Len(q) - Len(r) : \A i \in DOMAIN q :
      IF TrialOf(q[i]) = n THEN i - a \in DOMAIN r /\ q[i] = r[i - a] ELSE i - a \notin DOMAIN r

\* ... which is the last of q.
AtEnd(q, n, r) ==
  /\ Len(r) <= Len(q)
  /\ \A i \in DOMAIN q :
       IF TrialOf(q[i]) = n
       THEN i > Len(q) - Len(r) /\ q[i] = r[i - (Len(q) - Len(r))]
       ELSE i <= Len(q) - Len(r)

Ours(c, n) == \A i \in 1 .. Len(c) : TrialOf(c[i]) = n

LEMMA Joined ==
  ASSUME NEW q \in Seq(Item), NEW c \in Seq(Item)
  PROVE  /\ Len(q) \in Nat /\ Len(c) \in Nat /\ DOMAIN q = 1 .. Len(q) /\ DOMAIN c = 1 .. Len(c)
         /\ q \o c \in Seq(Item) /\ DOMAIN (q \o c) = 1 .. Len(q) + Len(c) /\ Len(q \o c) = Len(q) + Len(c)
         /\ \A i \in 1 .. Len(q) : (q \o c)[i] = q[i]
         /\ \A i \in 1 .. Len(q) + Len(c) : i > Len(q) =>
              (q \o c)[i] = c[i - Len(q)] /\ i - Len(q) \in 1 .. Len(c)
<1>1. /\ Len(q) \in Nat /\ Len(c) \in Nat /\ DOMAIN q = 1 .. Len(q) /\ DOMAIN c = 1 .. Len(c)
      /\ q \o c \in Seq(Item) /\ DOMAIN (q \o c) = 1 .. Len(q) + Len(c) /\ Len(q \o c) = Len(q) + Len(c)
      /\ \A i \in 1 .. Len(q) : (q \o c)[i] = q[i]
  OBVIOUS
<1>2. ASSUME NEW i \in 1 .. Len(q) + Len(c), i > Len(q)
      PROVE  (q \o c)[i] = c[i - Len(q)] /\ i - Len(q) \in 1 .. Len(c)
  BY <1>1, <1>2
<1>. QED  BY <1>1, <1>2

LEMMA OursJoined ==
  ASSUME NEW n \in Nat, NEW q \in Seq(Item), NEW c \in Seq(Item), Ours(q, n), Ours(c, n)
  PROVE  Ours(q \o c, n)
<1>1. PICK p : p = q \o c
  OBVIOUS
<1>2. ASSUME NEW i \in 1 .. Len(q) + Len(c) PROVE TrialOf(p[i]) = n
  <2>1. CASE i <= Len(q)
    <3>1. i \in 1 .. Len(q)
      BY <1>2, <2>1, Joined
    <3>. QED  BY <1>1, <3>1, Joined DEF Ours
  <2>2. CASE i > Len(q)
    BY <1>1, <1>2, <2>2, Joined DEF Ours
  <2>. QED  BY <1>2, <2>1, <2>2, Joined
<1>. QED  BY <1>1, <1>2, Joined DEF Ours

LEMMA OursOne ==
  ASSUME NEW n \in Trials, NEW w \in Names
  PROVE  <<Line(n, w)>> \in Seq(Item) /\ Ours(<<Line(n, w)>>, n)
<1>1. n \in Nat
  BY CaptureAssumption DEF Trials
<1>2. Line(n, w) \in Item /\ TrialOf(Line(n, w)) = n
  BY <1>1, ItemTypes DEF Line, TrialOf
<1>. QED  BY <1>2, SeqFacts DEF Ours

\* Items about the last trial may follow.
LEMMA ArrangedGrows ==
  ASSUME NEW q \in Seq(Item), NEW c \in Seq(Item), NEW t \in Nat, NEW u \in Nat \ {0}, t <= u,
         Arranged(q, t), Ours(c, u)
  PROVE  Arranged(q \o c, u)
<1>1. PICK p : p = q \o c
  OBVIOUS
<1>2. /\ DOMAIN p = 1 .. Len(q) + Len(c) /\ \A i \in 1 .. Len(q) : p[i] = q[i]
      /\ \A i \in DOMAIN p : i > Len(q) => TrialOf(p[i]) = u
      /\ Len(q) \in Nat /\ Len(c) \in Nat /\ DOMAIN q = 1 .. Len(q)
  BY <1>1, Joined DEF Ours
<1>3. \A i \in 1 .. Len(q) : TrialOf(p[i]) \in 1 .. t
  BY <1>2 DEF Arranged
<1>4. ASSUME NEW i \in DOMAIN p PROVE TrialOf(p[i]) \in 1 .. u
  BY <1>2, <1>3, <1>4
<1>5. ASSUME NEW i \in DOMAIN p, NEW j \in DOMAIN p, i < j PROVE TrialOf(p[i]) <= TrialOf(p[j])
  <2>1. CASE j > Len(q)
    BY <1>2, <1>4, <1>5, <2>1
  <2>2. CASE j <= Len(q)
    <3>1. i \in DOMAIN q /\ j \in DOMAIN q
      BY <1>2, <1>5, <2>2
    <3>. QED  BY <1>2, <1>5, <3>1 DEF Arranged
  <2>. QED  BY <1>2, <2>1, <2>2
<1>. QED  BY <1>1, <1>4, <1>5 DEF Arranged

\* They extend what is shown of that trial ...
LEMMA AtEndGrows ==
  ASSUME NEW q \in Seq(Item), NEW c \in Seq(Item), NEW r \in Seq(Item), NEW n \in Nat,
         AtEnd(q, n, r), Ours(c, n)
  PROVE  AtEnd(q \o c, n, r \o c)
<1>1. PICK p, s : p = q \o c /\ s = r \o c
  OBVIOUS
<1>2. /\ Len(q) \in Nat /\ Len(c) \in Nat /\ Len(r) \in Nat /\ Len(p) = Len(q) + Len(c)
      /\ Len(s) = Len(r) + Len(c) /\ DOMAIN p = 1 .. Len(q) + Len(c) /\ DOMAIN q = 1 .. Len(q)
  BY <1>1, Joined
<1>3. \A i \in 1 .. Len(q) : p[i] = q[i]
  BY <1>1, Joined
<1>4. \A i \in 1 .. Len(r) : s[i] = r[i]
  BY <1>1, Joined
<1>5. \A i \in 1 .. Len(q) + Len(c) : i > Len(q) => p[i] = c[i - Len(q)] /\ i - Len(q) \in 1 .. Len(c)
  BY <1>1, Joined
<1>6. \A i \in 1 .. Len(r) + Len(c) : i > Len(r) => s[i] = c[i - Len(r)]
  BY <1>1, Joined
<1>7. Len(r) <= Len(q) /\ Len(p) - Len(s) = Len(q) - Len(r)
  BY <1>2 DEF AtEnd
<1>8. ASSUME NEW i \in DOMAIN p
      PROVE  IF TrialOf(p[i]) = n
             THEN i > Len(q) - Len(r) /\ p[i] = s[i - (Len(q) - Len(r))]
             ELSE i <= Len(q) - Len(r)
  <2>1. CASE i <= Len(q)
    <3>1. i \in 1 .. Len(q) /\ p[i] = q[i]
      BY <1>2, <1>3, <1>8, <2>1
    <3>2. CASE TrialOf(q[i]) = n
      <4>1. i > Len(q) - Len(r) /\ q[i] = r[i - (Len(q) - Len(r))]
        BY <1>2, <3>1, <3>2 DEF AtEnd
      <4>2. i - (Len(q) - Len(r)) \in 1 .. Len(r)
        BY <1>2, <1>7, <3>1, <4>1
      <4>. QED  BY <1>4, <3>1, <3>2, <4>1, <4>2
    <3>3. CASE TrialOf(q[i]) # n
      BY <1>2, <3>1, <3>3 DEF AtEnd
    <3>. QED  BY <3>2, <3>3
  <2>2. CASE i > Len(q)
    <3>1. p[i] = c[i - Len(q)] /\ i - Len(q) \in 1 .. Len(c) /\ TrialOf(p[i]) = n
      BY <1>2, <1>5, <1>8, <2>2 DEF Ours
    <3>2. /\ i - (Len(q) - Len(r)) \in 1 .. Len(r) + Len(c) /\ i - (Len(q) - Len(r)) > Len(r)
          /\ i > Len(q) - Len(r) /\ (i - (Len(q) - Len(r))) - Len(r) = i - Len(q)
      BY <1>2, <1>7, <1>8, <2>2
    <3>. QED  BY <1>6, <3>1, <3>2
  <2>. QED  BY <1>2, <1>8, <2>1, <2>2
<1>9. Len(s) <= Len(p)
  BY <1>2, <1>7
<1>10. AtEnd(p, n, s)
  BY <1>7, <1>8, <1>9 DEF AtEnd
<1>. QED  BY <1>1, <1>10

\* ... and leave the others.
LEMMA PieceStays ==
  ASSUME NEW q \in Seq(Item), NEW c \in Seq(Item), NEW r \in Seq(Item), NEW n \in Nat, NEW t \in Nat,
         n # t, Piece(q, n, r), Ours(c, t)
  PROVE  Piece(q \o c, n, r)
<1>1. PICK p : p = q \o c
  OBVIOUS
<1>2. /\ Len(q) \in Nat /\ Len(c) \in Nat /\ Len(p) = Len(q) + Len(c)
      /\ DOMAIN p = 1 .. Len(q) + Len(c) /\ DOMAIN q = 1 .. Len(q)
      /\ \A i \in 1 .. Len(q) : p[i] = q[i]
      /\ \A i \in DOMAIN p : i > Len(q) => TrialOf(p[i]) = t
  BY <1>1, Joined DEF Ours
<1>3. Len(r) \in Nat /\ DOMAIN r = 1 .. Len(r)
  OBVIOUS
<1>4. PICK a \in 0 .. Len(q) - Len(r) : \A i \in DOMAIN q :
        IF TrialOf(q[i]) = n THEN i - a \in DOMAIN r /\ q[i] = r[i - a] ELSE i - a \notin DOMAIN r
  BY DEF Piece
<1>5. a \in 0 .. Len(p) - Len(r)
  BY <1>2, <1>3, <1>4
<1>6. ASSUME NEW i \in DOMAIN p
      PROVE  IF TrialOf(p[i]) = n THEN i - a \in DOMAIN r /\ p[i] = r[i - a] ELSE i - a \notin DOMAIN r
  <2>1. CASE i <= Len(q)
    BY <1>2, <1>4, <1>6, <2>1
  <2>2. CASE i > Len(q)
    <3>1. i - a \notin 1 .. Len(r) /\ TrialOf(p[i]) # n
      BY <1>2, <1>3, <1>4, <1>6, <2>2
    <3>. QED  BY <1>3, <3>1
  <2>. QED  BY <1>2, <1>6, <2>1, <2>2
<1>. QED  BY <1>1, <1>5, <1>6 DEF Piece

LEMMA AtEndIsPiece ==
  ASSUME NEW q \in Seq(Item), NEW r \in Seq(Item), NEW n \in Nat, AtEnd(q, n, r)
  PROVE  Piece(q, n, r)
<1>1. /\ Len(q) \in Nat /\ Len(r) \in Nat /\ Len(r) <= Len(q)
      /\ DOMAIN q = 1 .. Len(q) /\ DOMAIN r = 1 .. Len(r)
  BY DEF AtEnd
<1>2. Len(q) - Len(r) \in 0 .. Len(q) - Len(r)
  BY <1>1
<1>3. ASSUME NEW i \in DOMAIN q
      PROVE  IF TrialOf(q[i]) = n
             THEN i - (Len(q) - Len(r)) \in DOMAIN r /\ q[i] = r[i - (Len(q) - Len(r))]
             ELSE i - (Len(q) - Len(r)) \notin DOMAIN r
  BY <1>1, <1>3 DEF AtEnd
<1>. QED  BY <1>2, <1>3 DEF Piece

\* Nothing is shown of a trial that has not begun.
LEMMA NothingYet ==
  ASSUME NEW q \in Seq(Item), NEW t \in Nat, Arranged(q, t)
  PROVE  AtEnd(q, t + 1, <<>>)
<1>1. Len(q) \in Nat /\ DOMAIN q = 1 .. Len(q) /\ Len(<<>>) = 0
  OBVIOUS
<1>2. ASSUME NEW i \in DOMAIN q PROVE TrialOf(q[i]) # t + 1 /\ i <= Len(q) - 0
  BY <1>1, <1>2 DEF Arranged
<1>. QED  BY <1>1, <1>2 DEF AtEnd

\* The run so far has met neither a failed drain nor one that was not spawned.
Clean == pc # "over" /\ \A n \in 1 .. trial : reader[n] \notin {"failed", "unspawned"}

\* The runner knows how the trial ended once it has.
Told == pc \in {"flushEnd", "restore", "join", "verdict", "report"} => verdict[trial] # "none"

\* What the terminal shows of the current trial, place by place.
SoFar ==
  CASE pc = "flushBegin" -> <<Line(trial, "starting")>>
    [] pc = "report" -> <<Line(trial, "starting"), Line(trial, "name")>> \o Said(trial)
    [] pc = "idle" -> ReportOf(trial)
    [] OTHER -> <<Line(trial, "starting"), Line(trial, "name")>>

Waiting ==
  /\ pc = "flushBegin" => obuf = <<Line(trial, "name")>>
  /\ pc \in {"restore", "join", "verdict", "report"} => obuf = <<>>

Screen ==
  Clean =>
    /\ Arranged(term, trial) /\ Waiting
    /\ \A n \in 1 .. trial : n < trial => Piece(term, n, ReportOf(n))
    /\ trial # 0 => AtEnd(term, trial, SoFar)

\* A run that is clean after a step was clean before it.
LEMMA CleanBefore ==
  ASSUME Control, [Next]_vars, Clean'
  PROVE  Clean /\ trial \in 0 .. NTrials /\ trial' \in 0 .. NTrials /\ trial <= trial'
<1>1. /\ pc' # "over" => pc # "over"
      /\ trial' = trial \/ (trial' = trial + 1 /\ trial < NTrials)
  <2>1. CASE Runner
    BY <2>1 DEF Runner, NextTrial, FlushBegin, Save, MakePipe, RedirectStdout, RedirectStderr,
       SpawnDrain,
       Fatal, SpawnTrial, FlushEnd, Restore, Join, Verdict, Report, ExitProcess, Goto, Abort, RedirectErr
  <2>2. CASE Body
    BY <2>2 DEF Body, BodyPrint, BodyPrintln, BodyEprintln, BodyPrintFails, BodySpawnsChild,
       BodyEnds, Goto
  <2>3. CASE \E n \in Trials : ChildWrites(n) \/ ChildExits(n) \/ Drain(n)
    BY <2>3 DEF ChildWrites, ChildExits, Drain, DrainReads, DrainEof, DrainFails
  <2>4. CASE Finished \/ UNCHANGED vars
    BY <2>4 DEF Finished, vars
  <2>. QED  BY <2>1, <2>2, <2>3, <2>4 DEF Next
<1>2. \A n \in Trials : reader'[n] \notin {"failed", "unspawned"} => reader[n] \notin {"failed", "unspawned"}
  <2>1. CASE SpawnDrain
    <3>1. trial \in Trials /\ reader[trial] = "none"
      BY <2>1, InTrial DEF Control, SpawnDrain, Stage, Now
    <3>. QED  BY <2>1, <3>1 DEF Control, TypedRun, SpawnDrain
  <2>2. CASE \E n \in Trials : DrainEof(n) \/ DrainFails(n)
    BY <2>2 DEF Control, TypedRun, DrainEof, DrainFails
  <2>3. CASE reader' = reader
    BY <2>3
  <2>4. SpawnDrain \/ (\E n \in Trials : DrainEof(n) \/ DrainFails(n)) \/ reader' = reader
    <3>1. CASE Runner
      BY <3>1 DEF Runner, NextTrial, FlushBegin, Save, MakePipe, RedirectStdout, RedirectStderr,
         Fatal, SpawnTrial, FlushEnd, Restore, Join, Verdict, Report, ExitProcess, DrainVars
    <3>2. CASE Body
      BY <3>2 DEF Body, BodyPrint, BodyPrintln, BodyEprintln, BodyPrintFails, BodySpawnsChild, BodyEnds,
         DrainVars
    <3>3. CASE \E n \in Trials : ChildWrites(n) \/ ChildExits(n) \/ Drain(n)
      BY <3>3 DEF ChildWrites, ChildExits, Drain, DrainReads, DrainVars
    <3>4. CASE Finished \/ UNCHANGED vars
      BY <3>4 DEF Finished, vars
    <3>. QED  BY <3>1, <3>2, <3>3, <3>4 DEF Next
  <2>. QED  BY <2>1, <2>2, <2>3, <2>4
<1>3. trial \in 0 .. NTrials /\ trial' \in 0 .. NTrials /\ trial <= trial'
  BY <1>1, CaptureAssumption, SMTT(40) DEF Control, TypedRun
<1>4. \A n \in 1 .. trial : n \in Trials /\ n \in 1 .. trial'
  BY <1>3, CaptureAssumption DEF Trials
<1>5. pc # "over" /\ \A n \in 1 .. trial : reader[n] \notin {"failed", "unspawned"}
  BY <1>1, <1>2, <1>4 DEF Clean
<1>. QED  BY <1>3, <1>5 DEF Clean

LEMMA ToldStays == Control /\ Told /\ [Next]_vars => Told'
<1>. SUFFICES ASSUME Control, Told, [Next]_vars, pc' \in {"flushEnd", "restore", "join", "verdict", "report"}
              PROVE  verdict'[trial'] # "none"
  BY DEF Told
<1>1. CASE Runner
  <2>1. CASE Fatal \/ SpawnTrial
    <3>1. trial \in Trials /\ trial' = trial
      BY <2>1, InTrial DEF Control, Fatal, SpawnTrial, Goto, Abort
    <3>2. verdict'[trial] \in {"fail", "unspawned"}
      BY <2>1, <3>1 DEF Control, TypedRun, Fatal, SpawnTrial, Goto, Abort
    <3>. QED  BY <3>1, <3>2
  <2>2. CASE ~(Fatal \/ SpawnTrial)
    BY <1>1, <2>2 DEF Runner, NextTrial, FlushBegin, Save, MakePipe, RedirectStdout, RedirectStderr,
       SpawnDrain,
       FlushEnd, Restore, Join, Verdict, Report, ExitProcess, Goto, Abort, RedirectErr, BodyVars, Told
  <2>. QED  BY <2>1, <2>2
<1>2. CASE Body
  <2>1. pc = "body" /\ trial' = trial /\ trial \in Trials
    BY <1>2, InTrial DEF Control, Body, BodyPrint, BodyPrintln, BodyEprintln, BodyPrintFails,
       BodySpawnsChild, BodyEnds, Goto
  <2>2. CASE BodyPrintFails \/ BodyEnds
    BY <2>1, <2>2 DEF Control, TypedRun, BodyPrintFails, BodyEnds
  <2>3. CASE ~(BodyPrintFails \/ BodyEnds)
    BY <1>2, <2>1, <2>3 DEF Body, BodyPrint, BodyPrintln, BodyEprintln, BodySpawnsChild
  <2>. QED  BY <2>2, <2>3
<1>3. CASE \E n \in Trials : ChildWrites(n) \/ ChildExits(n) \/ Drain(n)
  BY <1>3 DEF ChildWrites, ChildExits, Drain, DrainReads, DrainEof, DrainFails, BodyVars, Told
<1>4. CASE Finished \/ UNCHANGED vars
  BY <1>4 DEF Finished, vars, Told
<1>. QED  BY <1>1, <1>2, <1>3, <1>4 DEF Next

LEMMA Pairs ==
  ASSUME NEW x \in Item, NEW y \in Item
  PROVE  <<x, y>> \in Seq(Item) /\ <<x>> \in Seq(Item) /\ <<x>> \o <<y>> = <<x, y>>
<1>1. <<x>> \in Seq(Item) /\ <<y>> \in Seq(Item)
  BY SeqFacts
<1>2. <<x, y>> \in Seq(Item) /\ Len(<<x, y>>) = 2 /\ <<x, y>>[1] = x /\ <<x, y>>[2] = y
  OBVIOUS
<1>3. PICK p : p = <<x>> \o <<y>>
  OBVIOUS
<1>4. p \in Seq(Item) /\ Len(p) = 2 /\ p[1] = x /\ p[2] = y
  BY <1>1, <1>3
<1>5. PICK q : q = <<x, y>>
  OBVIOUS
<1>6. q \in Seq(Item) /\ Len(q) = 2 /\ q[1] = x /\ q[2] = y
  BY <1>2, <1>5
<1>7. \A i \in 1 .. Len(p) : p[i] = q[i]
  BY <1>4, <1>6
<1>8. p = q
  BY <1>4, <1>6, <1>7, SeqEqual
<1>. QED  BY <1>1, <1>2, <1>3, <1>5, <1>8

\* What the runner prints about a trial.
LEMMA ReportFacts ==
  ASSUME Control, NEW n \in Trials
  PROVE  /\ Said(n) \in Seq(Item) /\ ReportOf(n) \in Seq(Item)
         /\ <<Line(n, "starting"), Line(n, "name")>> \in Seq(Item)
         /\ verdict[n] # "none" =>
              ReportOf(n) = (<<Line(n, "starting"), Line(n, "name")>> \o Said(n)) \o <<Line(n, "result")>>
<1>1. /\ <<Line(n, "pass")>> \in Seq(Item) /\ <<Line(n, "fail")>> \in Seq(Item)
      /\ <<Line(n, "unspawned")>> \in Seq(Item) /\ <<Line(n, "result")>> \in Seq(Item)
      /\ <<Line(n, "starting"), Line(n, "name")>> \in Seq(Item)
  <2>1. /\ Line(n, "pass") \in Item /\ Line(n, "fail") \in Item /\ Line(n, "unspawned") \in Item
        /\ Line(n, "result") \in Item /\ Line(n, "starting") \in Item /\ Line(n, "name") \in Item
    BY LineTypes
  <2>2. <<Line(n, "starting"), Line(n, "name")>> \in Seq(Item)
    BY <2>1, Pairs
  <2>. QED  BY <2>1, <2>2, Pairs
<1>2. Dump(n) \in Seq(Item)
  BY DumpType DEF Control
<1>3. /\ <<Line(n, "fail")>> \o Dump(n) \in Seq(Item) /\ Dump(n) \o <<Line(n, "unspawned")>> \in Seq(Item)
  BY <1>1, <1>2, SeqFacts
<1>4. Said(n) \in Seq(Item)
  BY <1>1, <1>3 DEF Said
<1>5. verdict[n] \in {"none", "pass", "fail", "unspawned"}
  BY DEF Control, TypedRun
<1>6. verdict[n] # "none" =>
        ReportOf(n) = (<<Line(n, "starting"), Line(n, "name")>> \o Said(n)) \o <<Line(n, "result")>>
  BY <1>5 DEF ReportOf, Said
<1>7. verdict[n] = "none" =>
        ReportOf(n) = (<<Line(n, "starting"), Line(n, "name")>> \o (Dump(n) \o <<Line(n, "unspawned")>>))
                      \o <<Line(n, "result")>>
  BY DEF ReportOf
<1>8. ReportOf(n) \in Seq(Item)
  <2>1. PICK a, d, s, z : /\ a = <<Line(n, "starting"), Line(n, "name")>> /\ z = <<Line(n, "result")>>
                          /\ d = Dump(n) \o <<Line(n, "unspawned")>> /\ s = Said(n)
    OBVIOUS
  <2>2. (a \o d) \o z \in Seq(Item) /\ (a \o s) \o z \in Seq(Item)
    BY <1>1, <1>3, <1>4, <2>1, SeqFacts
  <2>. QED  BY <1>6, <1>7, <2>1, <2>2
<1>. QED  BY <1>1, <1>4, <1>6, <1>8

LEMMA ReportSame ==
  ASSUME NEW n \in Trials, got'[n] = got[n], verdict'[n] = verdict[n]
  PROVE  Said(n)' = Said(n) /\ ReportOf(n)' = ReportOf(n)
<1>1. Dump(n)' = Dump(n)
  BY DEF Dump, Line
<1>. QED  BY <1>1 DEF Said, ReportOf, Line

LEMMA SoFarType ==
  ASSUME Control, trial \in Trials
  PROVE  SoFar \in Seq(Item)
<1>1. /\ Said(trial) \in Seq(Item) /\ ReportOf(trial) \in Seq(Item)
      /\ <<Line(trial, "starting"), Line(trial, "name")>> \in Seq(Item)
      /\ <<Line(trial, "starting")>> \in Seq(Item)
  <2>1. Line(trial, "starting") \in Item
    BY LineTypes
  <2>. QED  BY <2>1, ReportFacts, Pairs
<1>2. <<Line(trial, "starting"), Line(trial, "name")>> \o Said(trial) \in Seq(Item)
  BY <1>1, SeqFacts
<1>. QED  BY <1>1, <1>2 DEF SoFar

LEMMA ScreenNext ==
  Screen' <=>
    (Clean' =>
       /\ Arranged(term', trial') /\ Waiting'
       /\ \A n \in 1 .. trial' : n < trial' => Piece(term', n, ReportOf(n)')
       /\ trial' # 0 => AtEnd(term', trial', SoFar'))
<1>1. Arranged(term, trial)' <=> Arranged(term', trial')
  BY DEF Arranged, TrialOf
<1>2. ASSUME NEW n PROVE Piece(term, n, ReportOf(n))' <=> Piece(term', n, ReportOf(n)')
  BY DEF Piece, TrialOf
<1>3. AtEnd(term, trial, SoFar)' <=> AtEnd(term', trial', SoFar')
  BY DEF AtEnd, TrialOf
<1>. QED  BY <1>1, <1>2, <1>3 DEF Screen

\* A step that prints nothing and leaves the reports as they are.
LEMMA ScreenStays ==
  ASSUME Control, Screen, [Next]_vars,
         Clean' => /\ UNCHANGED <<term, trial>> /\ (trial # 0 => SoFar' = SoFar) /\ Waiting'
                   /\ \A n \in Trials : n < trial => got'[n] = got[n] /\ verdict'[n] = verdict[n]
  PROVE  Screen'
<1>. SUFFICES ASSUME Clean'
              PROVE  /\ Arranged(term', trial') /\ Waiting'
                     /\ \A n \in 1 .. trial' : n < trial' => Piece(term', n, ReportOf(n)')
                     /\ trial' # 0 => AtEnd(term', trial', SoFar')
  BY ScreenNext
<1>1. Clean /\ trial \in 0 .. NTrials
  BY CleanBefore
<1>2. ASSUME NEW n \in 1 .. trial, n < trial PROVE ReportOf(n)' = ReportOf(n)
  <2>1. n \in Trials
    BY <1>1, <1>2, CaptureAssumption DEF Trials
  <2>. QED  BY <1>2, <2>1, ReportSame
<1>. QED  BY <1>1, <1>2 DEF Screen

\* A step that prints about the current trial.
LEMMA ScreenGrows ==
  ASSUME Control, Screen, [Next]_vars, trial \in Trials, NEW c \in Seq(Item),
         Clean' => /\ trial' = trial /\ term' = term \o c /\ Ours(c, trial)
                   /\ SoFar' = SoFar \o c /\ Waiting' /\ UNCHANGED <<got, verdict>>
  PROVE  Screen'
<1>. SUFFICES ASSUME Clean'
              PROVE  /\ Arranged(term', trial') /\ Waiting'
                     /\ \A n \in 1 .. trial' : n < trial' => Piece(term', n, ReportOf(n)')
                     /\ trial' # 0 => AtEnd(term', trial', SoFar')
  BY ScreenNext
<1>1. Clean /\ trial \in Nat \ {0} /\ term \in Seq(Item) /\ SoFar \in Seq(Item)
  <2>1. trial \in Nat \ {0} /\ term \in Seq(Item)
    BY CaptureAssumption DEF Control, TypedIO, Trials
  <2>. QED  BY <2>1, CleanBefore, SoFarType
<1>2. /\ Arranged(term, trial) /\ AtEnd(term, trial, SoFar)
      /\ \A n \in 1 .. trial : n < trial => Piece(term, n, ReportOf(n))
  BY <1>1 DEF Screen
<1>3. Arranged(term', trial')
  <2>1. PICK t : t = trial
    OBVIOUS
  <2>2. t \in Nat /\ t \in Nat \ {0} /\ t <= t /\ Arranged(term, t) /\ Ours(c, t)
    BY <1>1, <1>2, <2>1
  <2>3. Arranged(term \o c, t)
    BY <1>1, <2>2, ArrangedGrows
  <2>. QED  BY <2>1, <2>3
<1>4. AtEnd(term', trial', SoFar')
  BY <1>1, <1>2, AtEndGrows
<1>5. ASSUME NEW n \in 1 .. trial, n < trial PROVE Piece(term', n, ReportOf(n)')
  <2>1. n \in Trials /\ n \in Nat /\ n # trial
    BY <1>1, <1>5, CaptureAssumption DEF Trials
  <2>2. ReportOf(n)' = ReportOf(n) /\ ReportOf(n) \in Seq(Item)
    BY <2>1, ReportSame, ReportFacts
  <2>3. Piece(term \o c, n, ReportOf(n))
    BY <1>1, <1>2, <1>5, <2>1, <2>2, PieceStays
  <2>. QED  BY <2>2, <2>3
<1>. QED  BY <1>3, <1>4, <1>5

\* Steps of the capture itself: nothing is printed.
LEMMA PlainScreen ==
  ASSUME Control, Screen, [Next]_vars,
         \/ Save \/ MakePipe \/ RedirectStdout \/ RedirectStderr \/ SpawnDrain \/ SpawnTrial
         \/ FlushEnd \/ Restore \/ Join \/ Body
  PROVE  Screen'
<1>. DEFINE Mid == {"save", "pipe", "dup2out", "dup2err", "spawnDrain", "fatal", "spawnTrial", "body",
                    "flushEnd", "restore", "join", "verdict"}
<1>1. pc \in Mid /\ (pc' # "over" => pc' \in Mid) /\ trial' = trial
  BY DEF Save, MakePipe, RedirectStdout, RedirectStderr, SpawnDrain, SpawnTrial, FlushEnd, Restore,
     Join,
     Body, BodyPrint, BodyPrintln, BodyEprintln, BodyPrintFails, BodySpawnsChild, BodyEnds,
     Goto, Abort, RedirectErr
<1>2. trial \in Trials
  BY <1>1, InTrial DEF Control
<1>3. \A n \in Trials : n # trial => got'[n] = got[n] /\ verdict'[n] = verdict[n]
  <2>1. CASE Body
    <3>1. got' = got
      BY <2>1 DEF Body, BodyPrint, BodyPrintln, BodyEprintln, BodyPrintFails, BodySpawnsChild, BodyEnds,
         DrainVars
    <3>2. verdict' = verdict \/ \E v : verdict' = [verdict EXCEPT ![trial] = v]
      BY <2>1 DEF Body, BodyPrint, BodyPrintln, BodyEprintln, BodyPrintFails, BodySpawnsChild, BodyEnds
    <3>. QED  BY <3>1, <3>2 DEF Control, TypedRun
  <2>2. CASE SpawnTrial \/ Join
    BY <2>2 DEF Control, TypedRun, TypedIO, SpawnTrial, Join, DrainVars, BodyVars
  <2>3. CASE Save \/ MakePipe \/ RedirectStdout \/ RedirectStderr \/ SpawnDrain \/ FlushEnd \/ Restore
    BY <2>3 DEF Save, MakePipe, RedirectStdout, RedirectStderr, SpawnDrain, FlushEnd, Restore,
       DrainVars,
       BodyVars
  <2>. QED  BY <2>1, <2>2, <2>3
<1>4. ASSUME Clean' PROVE UNCHANGED term /\ SoFar' = SoFar /\ Waiting'
  <2>1. Clean /\ pc' \in Mid
    BY <1>1, <1>4, CleanBefore DEF Clean
  <2>2. reader[trial] \notin {"failed", "unspawned"}
    <3>1. trial \in 1 .. trial
      BY <1>2, CaptureAssumption DEF Trials
    <3>. QED  BY <2>1, <3>1 DEF Clean
  <2>3. SoFar' = SoFar
    BY <1>1, <2>1 DEF SoFar, Line
  <2>4. term' = term
    <3>1. CASE Body
      <4>1. CASE BodyPrintln
        BY <4>1, BodyPrintlnEffect
      <4>2. CASE BodyEprintln
        BY <4>2, BodyEprintlnEffect
      <4>3. CASE BodyPrint \/ BodyPrintFails \/ BodySpawnsChild \/ BodyEnds
        BY <4>3 DEF BodyPrint, BodyPrintFails, BodySpawnsChild, BodyEnds, IOVars
      <4>. QED  BY <3>1, <4>1, <4>2, <4>3 DEF Body
    <3>2. CASE FlushEnd
      BY <3>2, FlushEndEffect
    <3>3. CASE Save \/ MakePipe \/ RedirectStdout \/ RedirectStderr \/ SpawnDrain \/ SpawnTrial \/ Restore \/ Join
      BY <2>1, <2>2, <3>3 DEF Save, MakePipe, RedirectStdout, RedirectStderr, SpawnDrain, SpawnTrial,
         Restore, Join,
         IOVars, Abort, Goto
    <3>. QED  BY <3>1, <3>2, <3>3
  <2>5. Waiting'
    <3>1. CASE FlushEnd
      <4>1. obuf' = <<>>
        BY <2>2, <3>1 DEF FlushEnd, Broken, IOVars
      <4>2. pc' = "restore"
        BY <3>1 DEF FlushEnd, Goto
      <4>. QED  BY <4>1, <4>2 DEF Waiting
    <3>2. CASE Restore \/ Join
      <4>1. obuf' = obuf /\ pc \in {"restore", "join"} /\ pc' \in {"join", "verdict"}
        BY <2>1, <3>2 DEF Restore, Join, Goto, Abort
      <4>. QED  BY <2>1, <4>1 DEF Screen, Waiting
    <3>3. CASE Save \/ MakePipe \/ RedirectStdout \/ RedirectStderr \/ SpawnDrain \/ SpawnTrial \/ Body
      <4>1. pc' \in {"pipe", "fatal", "dup2out", "dup2err", "spawnDrain", "spawnTrial", "body", "flushEnd", "over"}
        BY <3>3 DEF Save, MakePipe, RedirectStdout, RedirectStderr, SpawnDrain, SpawnTrial, Goto, Abort,
           RedirectErr,
           Body, BodyPrint, BodyPrintln, BodyEprintln, BodyPrintFails, BodySpawnsChild, BodyEnds
      <4>. QED  BY <4>1 DEF Waiting
    <3>. QED  BY <3>1, <3>2, <3>3
  <2>. QED  BY <2>3, <2>4, <2>5
<1>5. trial \in Nat
  BY <1>2, CaptureAssumption DEF Trials
<1>6. \A n \in Trials : n < trial => n # trial
  BY <1>5, CaptureAssumption DEF Trials
<1>. QED  BY <1>1, <1>3, <1>4, <1>6, ScreenStays

\* Steps of a child process or a drain thread: the reports that are written
\* hold nothing a drain thread could still add to.
LEMMA AsyncScreen ==
  ASSUME Control, Screen, [Next]_vars,
         \/ \E n \in Trials : ChildWrites(n) \/ ChildExits(n) \/ Drain(n)
         \/ UNCHANGED vars
  PROVE  Screen'
<1>1. UNCHANGED <<pc, trial, obuf, term, verdict>>
  BY DEF ChildWrites, ChildExits, Drain, DrainReads, DrainEof, DrainFails, IOVars, BodyVars, vars
<1>2. \A n \in Trials : reader[n] # "draining" => got'[n] = got[n]
  <2>1. CASE \E n \in Trials : DrainReads(n)
    BY <2>1 DEF Control, TypedIO, DrainReads
  <2>2. CASE ~\E n \in Trials : DrainReads(n)
    BY <2>2 DEF ChildWrites, ChildExits, Drain, DrainEof, DrainFails, DrainVars, vars
  <2>. QED  BY <2>1, <2>2
<1>3. ASSUME Clean' PROVE /\ trial # 0 => SoFar' = SoFar
                         /\ Waiting'
                         /\ \A n \in Trials : n < trial => got'[n] = got[n]
  <2>1. Clean
    BY <1>3, CleanBefore
  <2>2. Waiting'
    BY <1>1, <2>1 DEF Screen, Waiting, Line
  <2>3. \A n \in Trials : n < trial => got'[n] = got[n]
    BY <1>2, <2>1 DEF Control, Past, Clean
  <2>4. trial # 0 => SoFar' = SoFar
    <3>1. CASE pc \in {"idle", "report"} /\ trial # 0
      <4>1. trial \in Trials
        BY <3>1, CaptureAssumption DEF Control, TypedRun, Trials
      <4>2. got'[trial] = got[trial]
        BY <1>2, <3>1, <4>1 DEF Control, Now
      <4>3. Said(trial)' = Said(trial) /\ ReportOf(trial)' = ReportOf(trial)
        <5>1. PICK t : t = trial
          OBVIOUS
        <5>2. Said(t)' = Said(t) /\ ReportOf(t)' = ReportOf(t)
          BY <1>1, <4>1, <4>2, <5>1, ReportSame
        <5>3. /\ Said(trial)' = Said(t)' /\ ReportOf(trial)' = ReportOf(t)'
          BY <1>1, <5>1 DEF Said, ReportOf, Dump, Line
        <5>. QED  BY <5>1, <5>2, <5>3
      <4>. QED  BY <1>1, <4>3 DEF SoFar, Line
    <3>2. CASE pc \notin {"idle", "report"}
      BY <1>1, <3>2 DEF SoFar, Line
    <3>. QED  BY <3>1, <3>2
  <2>. QED  BY <2>2, <2>3, <2>4
<1>. QED  BY <1>1, <1>3, ScreenStays

\* The steps that print.
LEMMA FlushBeginScreen ==
  ASSUME Control, Screen, [Next]_vars, FlushBegin
  PROVE  Screen'
<1>1. /\ pc = "flushBegin" /\ pc' = "save" /\ trial' = trial /\ trial \in Trials
      /\ fd[1] = 0 /\ UNCHANGED <<got, verdict>>
  BY InTrial DEF Control, Stage, Terminal, FlushBegin, Goto, DrainVars, BodyVars
<1>2. Line(trial, "name") \in Item /\ Line(trial, "starting") \in Item
  BY <1>1, LineTypes
<1>3. PICK c : c = <<Line(trial, "name")>>
  OBVIOUS
<1>4. c \in Seq(Item) /\ Ours(c, trial)
  <2>1. "name" \in Names
    BY DEF Names
  <2>. QED  BY <1>1, <1>3, <2>1, OursOne
<1>5. ASSUME Clean' PROVE term' = term \o c
  <2>1. obuf = c
    BY <1>1, <1>3, <1>5, CleanBefore DEF Screen, Waiting
  <2>. QED  BY <1>1, <2>1 DEF FlushBegin, Write
<1>6. SoFar' = SoFar \o c
  <2>1. SoFar = <<Line(trial, "starting")>> /\ SoFar' = <<Line(trial, "starting"), Line(trial, "name")>>
    BY <1>1 DEF SoFar, Line
  <2>. QED  BY <1>2, <1>3, <2>1, Pairs
<1>7. Waiting'
  BY <1>1 DEF Waiting
<1>. QED  BY <1>1, <1>4, <1>5, <1>6, <1>7, ScreenGrows

\* The captured output is the trial's own.
LEMMA SaidIsOurs ==
  ASSUME Control, Data, trial \in Trials, pc = "verdict", reader[trial] # "failed"
  PROVE  Ours(Said(trial), trial)
<1>0. trial \in Nat \ {0} /\ got[trial] \in Seq(Item) /\ reader[trial] = "done"
  <2>1. trial \in Nat \ {0}
    BY CaptureAssumption DEF Trials
  <2>2. got[trial] \in Seq(Item)
    BY DEF Control, TypedIO
  <2>3. reader[trial] = "done"
    BY <2>1 DEF Control, Now
  <2>. QED  BY <2>1, <2>2, <2>3
<1>1. ASSUME NEW w \in Names PROVE <<Line(trial, w)>> \in Seq(Item) /\ Ours(<<Line(trial, w)>>, trial)
  BY OursOne
<1>2. /\ "captured" \in Names /\ "end capture" \in Names /\ "pass" \in Names
      /\ "fail" \in Names /\ "unspawned" \in Names
  BY DEF Names
<1>3. Ours(got[trial], trial)
  <2>1. got[trial] \o pipe[trial] = got[trial]
    <3>1. pipe[trial] = <<>>
      BY <1>0 DEF Control, Closed
    <3>. QED  BY <1>0, <3>1
  <2>2. Delivers(got[trial], trial, Sent(trial))
    BY <1>0, <2>1 DEF Data, Intact
  <2>3. ASSUME NEW i \in 1 .. Len(got[trial]) PROVE TrialOf(got[trial][i]) = trial
    <3>1. i \in DOMAIN got[trial]
      BY <1>0, <2>3
    <3>2. PICK s \in Streams : \E k \in 1 .. Sent(trial)[s] : got[trial][i] = Chunk(trial, s, k)
      BY <2>2, <3>1 DEF Delivers
    <3>3. PICK k : got[trial][i] = Chunk(trial, s, k)
      BY <3>2
    <3>4. got[trial][i].by = trial
      BY <3>3, ChunkFields
    <3>. QED  BY <1>0, <3>4 DEF TrialOf
  <2>. QED  BY <2>3 DEF Ours
<1>4. Dump(trial) \in Seq(Item)
  BY DumpType DEF Control
<1>5. Ours(Dump(trial), trial)
  <2>1. CASE got[trial] = <<>>
    <3>1. Dump(trial) = <<>>
      BY <2>1 DEF Dump
    <3>. QED  BY <3>1, SeqFacts DEF Ours
  <2>2. CASE got[trial] # <<>>
    <3>1. PICK a, z : a = <<Line(trial, "captured")>> /\ z = <<Line(trial, "end capture")>>
      OBVIOUS
    <3>2. /\ a \in Seq(Item) /\ z \in Seq(Item) /\ Ours(a, trial) /\ Ours(z, trial)
      BY <1>1, <1>2, <3>1
    <3>3. a \o got[trial] \in Seq(Item) /\ Ours(a \o got[trial], trial)
      BY <1>0, <1>3, <3>2, OursJoined, SeqFacts
    <3>4. Ours((a \o got[trial]) \o z, trial)
      BY <1>0, <3>2, <3>3, OursJoined
    <3>5. Dump(trial) = (a \o got[trial]) \o z
      BY <2>2, <3>1 DEF Dump
    <3>. QED  BY <3>4, <3>5
  <2>. QED  BY <2>1, <2>2
<1>6. CASE verdict[trial] = "pass"
  BY <1>1, <1>2, <1>6 DEF Said
<1>7. CASE verdict[trial] = "unspawned"
  <2>1. Said(trial) = Dump(trial) \o <<Line(trial, "unspawned")>>
    BY <1>7 DEF Said
  <2>. QED  BY <1>0, <1>1, <1>2, <1>4, <1>5, <2>1, OursJoined
<1>8. CASE verdict[trial] \notin {"pass", "unspawned"}
  <2>1. Said(trial) = <<Line(trial, "fail")>> \o Dump(trial)
    BY <1>8 DEF Said
  <2>. QED  BY <1>0, <1>1, <1>2, <1>4, <1>5, <2>1, OursJoined
<1>. QED  BY <1>6, <1>7, <1>8

LEMMA VerdictScreen ==
  ASSUME Control, Data, Screen, [Next]_vars, Verdict
  PROVE  Screen'
<1>1. /\ pc = "verdict" /\ pc' = "report" /\ trial' = trial /\ trial \in Trials
      /\ fd[2] = 0 /\ UNCHANGED <<got, verdict, obuf, reader>>
  BY InTrial DEF Control, Stage, Terminal, Verdict, Goto, DrainVars, BodyVars
<1>2. term' = term \o Said(trial)
  BY <1>1 DEF Verdict, Write, Said
<1>3. Said(trial) \in Seq(Item)
  BY <1>1, ReportFacts
<1>4. SoFar' = SoFar \o Said(trial)
  <2>1. SoFar = <<Line(trial, "starting"), Line(trial, "name")>>
    BY <1>1 DEF SoFar
  <2>2. SoFar' = <<Line(trial, "starting"), Line(trial, "name")>> \o Said(trial)'
    BY <1>1 DEF SoFar, Line
  <2>3. Said(trial)' = Said(trial)
    BY <1>1 DEF Said, Dump, Line
  <2>. QED  BY <2>1, <2>2, <2>3
<1>5. ASSUME Clean' PROVE Ours(Said(trial), trial) /\ Waiting'
  <2>1. Clean
    BY <1>5, CleanBefore
  <2>2. obuf = <<>>
    BY <1>1, <2>1 DEF Screen, Waiting
  <2>3. trial \in 1 .. trial
    BY <1>1, CaptureAssumption DEF Trials
  <2>4. reader[trial] # "failed"
    BY <2>1, <2>3 DEF Clean
  <2>. QED  BY <1>1, <2>2, <2>4, SaidIsOurs DEF Waiting
<1>. QED  BY <1>1, <1>2, <1>3, <1>4, <1>5, ScreenGrows

LEMMA ReportScreen ==
  ASSUME Control, Told, Screen, [Next]_vars, Report
  PROVE  Screen'
<1>1. pc = "report" /\ trial' = trial /\ trial \in Trials /\ UNCHANGED <<got, verdict, reader>>
  BY InTrial DEF Control, Report, Goto, DrainVars, BodyVars
<1>2. PICK c : c = <<Line(trial, "result")>>
  OBVIOUS
<1>3. c \in Seq(Item) /\ Ours(c, trial) /\ Line(trial, "result") \in Item
  <2>1. "result" \in Names
    BY DEF Names
  <2>. QED  BY <1>1, <1>2, <2>1, OursOne, LineTypes
<1>4. ASSUME Clean' PROVE term' = term \o c /\ pc' = "idle"
  <2>1. Clean
    BY <1>4, CleanBefore
  <2>2. trial \in 1 .. trial
    BY <1>1, CaptureAssumption DEF Trials
  <2>3. fd[1] = 0 /\ ~Broken(fd[1])
    BY <1>1, <2>1, <2>2 DEF Control, Stage, Terminal, Clean, Broken
  <2>4. obuf = <<>>
    BY <1>1, <2>1 DEF Screen, Waiting
  <2>5. Append(obuf, Line(trial, "result")) = c
    BY <1>2, <1>3, <2>4
  <2>. QED  BY <2>3, <2>5 DEF Report, Write, Goto
<1>5. ASSUME pc' = "idle" PROVE SoFar' = SoFar \o c /\ Waiting'
  <2>1. SoFar = <<Line(trial, "starting"), Line(trial, "name")>> \o Said(trial)
    BY <1>1 DEF SoFar
  <2>2. SoFar' = ReportOf(trial)'
    BY <1>5 DEF SoFar
  <2>3. ReportOf(trial)' = ReportOf(trial)
    BY <1>1 DEF ReportOf, Dump, Line
  <2>4. verdict[trial] # "none"
    BY <1>1 DEF Told
  <2>5. ReportOf(trial) = (<<Line(trial, "starting"), Line(trial, "name")>> \o Said(trial)) \o c
    BY <1>1, <1>2, <2>4, ReportFacts
  <2>. QED  BY <1>5, <2>1, <2>2, <2>3, <2>5 DEF Waiting
<1>. QED  BY <1>1, <1>3, <1>4, <1>5, ScreenGrows

LEMMA NextTrialScreen ==
  ASSUME Control, Screen, [Next]_vars, NextTrial
  PROVE  Screen'
<1>. SUFFICES ASSUME Clean'
              PROVE  /\ Arranged(term', trial') /\ Waiting'
                     /\ \A n \in 1 .. trial' : n < trial' => Piece(term', n, ReportOf(n)')
                     /\ trial' # 0 => AtEnd(term', trial', SoFar')
  BY ScreenNext
<1>1. /\ pc = "idle" /\ pc' = "flushBegin" /\ trial' = trial + 1 /\ trial \in Nat
      /\ trial + 1 \in Trials /\ fd[2] = 0 /\ obuf = <<>> /\ UNCHANGED <<got, verdict>>
  BY CaptureAssumption DEF Control, TypedRun, Stage, Terminal, Buffer, NextTrial, DrainVars, BodyVars,
     Trials
<1>2. PICK c, t : c = <<Line(trial + 1, "starting")>> /\ t = trial + 1
  OBVIOUS
<1>3. /\ c \in Seq(Item) /\ Ours(c, t) /\ Line(t, "name") \in Item /\ Line(t, "starting") \in Item
  <2>1. "starting" \in Names
    BY DEF Names
  <2>. QED  BY <1>1, <1>2, <2>1, OursOne, LineTypes
<1>4. term' = term \o c /\ term \in Seq(Item)
  BY <1>1, <1>2 DEF Control, TypedIO, NextTrial, Write
<1>5. Clean /\ t \in Nat \ {0} /\ trial <= t
  BY <1>1, <1>2, CleanBefore
<1>6. Arranged(term, trial)
  BY <1>5 DEF Screen
<1>7. Arranged(term', trial')
  <2>1. Arranged(term \o c, t)
    BY <1>1, <1>3, <1>4, <1>5, <1>6, ArrangedGrows
  <2>. QED  BY <1>1, <1>2, <1>4, <2>1
<1>8. Waiting'
  <2>1. obuf' = Append(obuf, Line(t, "name"))
    BY <1>2 DEF NextTrial
  <2>2. obuf' = <<Line(t, "name")>>
    BY <1>1, <1>3, <2>1
  <2>. QED  BY <1>1, <1>2, <2>2 DEF Waiting, Line
<1>9. AtEnd(term', trial', SoFar')
  <2>1. AtEnd(term, t, <<>>)
    BY <1>1, <1>2, <1>4, <1>6, NothingYet
  <2>2. AtEnd(term \o c, t, <<>> \o c)
    BY <1>3, <1>4, <1>5, <2>1, AtEndGrows, SeqFacts
  <2>3. <<>> \o c = c
    BY <1>3
  <2>4. SoFar' = c
    BY <1>1, <1>2 DEF SoFar, Line
  <2>. QED  BY <1>1, <1>2, <1>4, <2>2, <2>3, <2>4
<1>10. ASSUME NEW n \in 1 .. trial', n < trial' PROVE Piece(term', n, ReportOf(n)')
  <2>1. n \in Trials /\ n \in Nat /\ n # t /\ n \in 1 .. trial
    BY <1>1, <1>2, <1>10, CaptureAssumption DEF Trials
  <2>2. ReportOf(n)' = ReportOf(n) /\ ReportOf(n) \in Seq(Item)
    BY <1>1, <2>1, ReportSame, ReportFacts
  <2>3. Piece(term, n, ReportOf(n))
    <3>1. CASE n < trial
      BY <1>5, <2>1, <3>1 DEF Screen
    <3>2. CASE n = trial
      <4>1. AtEnd(term, n, ReportOf(n))
        <5>1. trial # 0
          BY <2>1, <3>2
        <5>2. AtEnd(term, trial, SoFar)
          BY <1>5, <5>1 DEF Screen
        <5>3. SoFar = ReportOf(trial)
          BY <1>1 DEF SoFar
        <5>. QED  BY <3>2, <5>2, <5>3
      <4>. QED  BY <1>4, <2>1, <2>2, <4>1, AtEndIsPiece
    <3>. QED  BY <1>1, <2>1, <3>1, <3>2
  <2>4. Piece(term \o c, n, ReportOf(n))
    BY <1>3, <1>4, <1>5, <2>1, <2>2, <2>3, PieceStays
  <2>. QED  BY <1>4, <2>2, <2>4
<1>. QED  BY <1>7, <1>8, <1>9, <1>10

\* A run that ends here is not clean.
LEMMA EndScreen ==
  ASSUME Control, Screen, Fatal \/ ExitProcess
  PROVE  Screen'
<1>1. CASE ExitProcess
  BY <1>1 DEF ExitProcess, Screen, Clean
<1>2. CASE Fatal
  <2>1. trial \in Trials /\ trial' = trial /\ reader' = reader
    BY <1>2, InTrial DEF Control, Fatal, Goto, Abort, DrainVars
  <2>2. trial \in 1 .. trial
    BY <2>1, CaptureAssumption DEF Trials
  <2>3. CASE pc' = "over"
    BY <2>3 DEF Screen, Clean
  <2>4. CASE pc' # "over"
    <3>1. Broken(fd[2])
      BY <1>2, <2>4 DEF Fatal, Abort
    <3>2. reader[trial] = "unspawned"
      BY <1>2, <3>1 DEF Fatal, Broken, Control, Stage, Terminal
    <3>3. ~Clean'
      BY <2>1, <2>2, <3>2 DEF Clean
    <3>. QED  BY <3>3 DEF Screen
  <2>. QED  BY <2>3, <2>4
<1>. QED  BY <1>1, <1>2

LEMMA InitScreen == Init => Told /\ Screen
<1>. SUFFICES ASSUME Init PROVE Told /\ Screen
  OBVIOUS
<1>1. Told /\ Waiting
  BY DEF Init, Told, Waiting
<1>2. term = <<>> /\ DOMAIN term = {} /\ trial = 0
  BY DEF Init
<1>3. Arranged(term, trial)
  BY <1>2 DEF Arranged
<1>4. \A n \in 1 .. trial : ~(n < trial)
  BY <1>2
<1>. QED  BY <1>1, <1>2, <1>3, <1>4 DEF Screen

LEMMA NextScreen == Control /\ Data /\ Told /\ Screen /\ [Next]_vars => Screen'
<1>. SUFFICES ASSUME Control, Data, Told, Screen, [Next]_vars PROVE Screen'
  OBVIOUS
<1>1. CASE Runner
  BY <1>1, PlainScreen, NextTrialScreen, FlushBeginScreen, VerdictScreen, ReportScreen,
     EndScreen DEF Runner
<1>2. CASE Body
  BY <1>2, PlainScreen
<1>3. CASE \E n \in Trials : ChildWrites(n) \/ ChildExits(n) \/ Drain(n)
  BY <1>3, AsyncScreen
<1>4. CASE Finished \/ UNCHANGED vars
  BY <1>4, AsyncScreen DEF Finished
<1>. QED  BY <1>1, <1>2, <1>3, <1>4 DEF Next

\* Between two trials the terminal shows the reports of the trials so far, in
\* order and each in one piece: a failed trial's output and no other, and no
\* line of the runner ends up in a capture.
THEOREM TheTerminalShowsTheRun == Spec => []TerminalShowsTheRun
<1>1. Init => Control /\ Data /\ Told /\ Screen
  BY InitControl, InitData, InitScreen
<1>2. Control /\ Data /\ Told /\ Screen /\ [Next]_vars => (Control /\ Data /\ Told /\ Screen)'
  BY NextControl, NextData, ToldStays, NextScreen
<1>3. Control /\ Screen => TerminalShowsTheRun
  <2>. SUFFICES ASSUME Control, Screen, pc = "idle", \A n \in 1 .. trial : reader[n] = "done"
                PROVE  /\ \A i \in DOMAIN term : TrialOf(term[i]) \in 1 .. trial
                       /\ \A i, j \in DOMAIN term : i < j => TrialOf(term[i]) <= TrialOf(term[j])
                       /\ \A n \in 1 .. trial : Shows(n, ReportOf(n))
    BY DEF TerminalShowsTheRun
  <2>1. Clean /\ term \in Seq(Item) /\ trial \in Nat
    BY CaptureAssumption, SMTT(40) DEF Clean, Control, TypedIO, TypedRun
  <2>2. Arranged(term, trial)
    BY <2>1 DEF Screen
  <2>3. ASSUME NEW n \in 1 .. trial PROVE Shows(n, ReportOf(n))
    <3>1. n \in Trials /\ n \in Nat /\ trial # 0
      BY <2>1, <2>3, CaptureAssumption DEF Control, TypedRun, Trials
    <3>2. ReportOf(n) \in Seq(Item)
      BY <3>1, ReportFacts
    <3>3. CASE n < trial
      <4>1. Piece(term, n, ReportOf(n))
        BY <2>1, <2>3, <3>3 DEF Screen
      <4>. QED  BY <4>1 DEF Piece, Shows
    <3>4. CASE n = trial
      <4>1. AtEnd(term, trial, SoFar)
        BY <2>1, <3>1 DEF Screen
      <4>2. SoFar = ReportOf(trial)
        BY DEF SoFar
      <4>3. AtEnd(term, n, ReportOf(n))
        BY <3>4, <4>1, <4>2
      <4>4. Piece(term, n, ReportOf(n))
        BY <2>1, <3>1, <3>2, <4>3, AtEndIsPiece
      <4>. QED  BY <4>4 DEF Piece, Shows
    <3>. QED  BY <2>1, <2>3, <3>3, <3>4
  <2>. QED  BY <2>2, <2>3 DEF Arranged
<1>. QED  BY <1>1, <1>2, <1>3, PTL DEF Spec

=============================================================================
