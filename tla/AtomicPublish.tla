--------------------------- MODULE AtomicPublish ---------------------------
(***************************************************************************)
(* What publishing promises: an entry appears at a path in one step, open  *)
(* to every user, in a directory that is there, and only where there was   *)
(* nothing; what is there stays.  MovedDb's EnsurePublished is this step.   *)
(***************************************************************************)
EXTENDS Sequences, SequencesExt

CONSTANTS Path, Before      \* Before: the entries there at the start, path -> open to all?
VARIABLE entries            \* path -> open to all?

Publish(x) ==
  /\ x \notin DOMAIN entries
  /\ Front(x) \in DOMAIN entries
  /\ entries' = [y \in DOMAIN entries \cup {x} |-> IF y = x THEN TRUE ELSE entries[y]]

Init == entries = Before
Next == \E x \in Path : Publish(x)
Spec == Init /\ [][Next]_entries
=============================================================================
