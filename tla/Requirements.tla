---------------------------- MODULE Requirements ----------------------------
(***************************************************************************)
(* What a requirement checks (a tool, a service, a file) lies outside, and *)
(* may come and go while a test binary collects its tests (Collect) and    *)
(* between the runs of the binaries (Nextest).                             *)
(***************************************************************************)
CONSTANT Requirement

VARIABLE met    \* the requirements that hold now

RequirementsChange == met' \in SUBSET Requirement
=============================================================================
