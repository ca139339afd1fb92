----------------------------- MODULE MCFixtures -----------------------------
(***************************************************************************)
(* Six fixtures: image (process), server (process, uses image), dir        *)
(* (test), db (test, uses server and dir), file (variable) and conn        *)
(* (variable, uses file and db); two concurrent tests.                     *)
(***************************************************************************)
EXTENDS Fixtures

CONSTANTS image, server, dir, db, file, conn, t1, t2

Fixtures6 == {image, server, dir, db, file, conn}
Tests2 == {t1, t2}

Scopes == [f \in Fixtures6 |->
  IF f \in {image, server} THEN "process" ELSE IF f \in {dir, db} THEN "test" ELSE "variable"]
Dependencies == [f \in Fixtures6 |->
  IF f = server THEN <<image>> ELSE IF f = db THEN <<server, dir>>
  ELSE IF f = conn THEN <<file, db>> ELSE <<>>]

\* fn t1(conn, server); fn t2(db, server)
Parameters == [t \in Tests2 |-> IF t = t1 THEN <<conn, server>> ELSE <<db, server>>]

OnlyT2 == {t2}
MayFail == {server, conn}
MayPanic == {image, db, file, conn}
=============================================================================
