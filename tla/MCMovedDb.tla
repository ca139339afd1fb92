----------------------------- MODULE MCMovedDb -----------------------------
(***************************************************************************)
(* MovedDb for three tests, of which one conflicts with both others.       *)
(***************************************************************************)
EXTENDS MovedDb, TLC

CONSTANTS t1, t2, t3

Triple == {t1, t2, t3}
TripleClash == {{t1, t2}, {t2, t3}}

\* t1 and t3 play the same part.
TripleSymmetry == Permutations({t1, t3})
=============================================================================
