------------------------------ MODULE MCCapture ------------------------------
(* Capture on two trials: the second meets whatever the first left behind. *)
EXTENDS Capture

\* In the first trial two writes to stdout, so that one may be in the buffer when
\* the other is written, and one each to stderr and by the child; in the second
\* one to each of stdout and stderr.
Writes == <<[out |-> 2, err |-> 1, child |-> 1], [out |-> 1, err |-> 1, child |-> 0]>>
OneEach == <<[out |-> 1, err |-> 1, child |-> 1]>>

AllFaults == {"dup", "pipe", "dup2out", "dup2err", "rollback",
              "spawnDrain", "spawnTrial", "read", "restore"}
SpawnDrainFails == {"spawnDrain"}

=============================================================================
