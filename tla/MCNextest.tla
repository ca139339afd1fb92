------------------------------ MODULE MCNextest ------------------------------
(***************************************************************************)
(* Two binaries.  In b1: t1 labelled a, t2 labelled a and serial = b.  In  *)
(* b2: t3 labelled b, t4 serial = a and in need of a requirement, t5       *)
(* without labels, t6 ignored and serial with everything.  t1 and t4       *)
(* conflict, t2 and t3, t2 and t4; t5 only with t6.  So t1 and t3 are in   *)
(* one group though they do not conflict, and only while t4 is available.  *)
(***************************************************************************)
EXTENDS Nextest, TLC

CONSTANTS a, b, r, b1, b2, t1, t2, t3, t4, t5, t6

Tests == {t1, t2, t3, t4, t5, t6}
OnlyA == Expr({{a}, {a, b}})
OnlyB == Expr({{b}, {a, b}})

MCBinaryOf == [t \in Tests |-> IF t \in {t1, t2} THEN b1 ELSE b2]
MCLabelsOf == [t \in Tests |-> IF t \in {t1, t2} THEN {a} ELSE IF t = t3 THEN {b} ELSE {}]
MCSerialOf == [t \in Tests |-> IF t = t2 THEN OnlyB ELSE IF t = t4 THEN OnlyA
                              ELSE IF t = t6 THEN SerialAll ELSE SerialNone]
MCPos == t1 :> 1 @@ t2 :> 2 @@ t3 :> 3 @@ t4 :> 4 @@ t5 :> 5 @@ t6 :> 6
MCNeedsOf == [t \in Tests |-> IF t = t4 THEN {r} ELSE {}]

OneIgnored == {t6}
=============================================================================
