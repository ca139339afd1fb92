----------------------------- MODULE SerialExec -----------------------------
(***************************************************************************)
(* What skuld's coordination promises (docs/src/serial.md): tests wait,    *)
(* run and end, and no test starts while a conflicting one runs.  Nothing  *)
(* is said of databases, processes or polling.                             *)
(***************************************************************************)
CONSTANTS Test,          \* test executions
          Excludes(_, _) \* may these two not overlap?

VARIABLE st              \* the phase each test is in

Phase == {"idle", "waiting", "running", "ended"}

Init == st = [t \in Test |-> "idle"]

\* A test asks to run.
Ask(t) ==
  /\ st[t] = "idle"
  /\ st' = [st EXCEPT ![t] = "waiting"]

\* A waiting test starts, alone among the tests it excludes.
Start(t) ==
  /\ st[t] = "waiting"
  /\ \A u \in Test \ {t} : st[u] = "running" => ~Excludes(t, u)
  /\ st' = [st EXCEPT ![t] = "running"]

\* Tests end: one by returning or failing, several when their process dies.
End(S) ==
  /\ S # {} /\ \A t \in S : st[t] # "ended"
  /\ st' = [t \in Test |-> IF t \in S THEN "ended" ELSE st[t]]

Next ==
  \/ \E t \in Test : Ask(t) \/ Start(t)
  \/ \E S \in SUBSET Test : End(S)

SafeSpec == Init /\ [][Next]_st
=============================================================================
