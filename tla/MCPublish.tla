----------------------------- MODULE MCPublish -----------------------------
(* Two processes of different users with the same SKULD_DB_DIR, two levels   *)
(* of which are missing, and one more with a directory closed to it; three   *)
(* test binaries of one cargo profile in the three layouts.                  *)
EXTENDS Publish

MCProc == {"s1", "s2", "s3", "deps", "example", "out"}
MCUser == [p \in MCProc |-> IF p \in {"s1", "deps"} THEN "u" ELSE "v"]
MCOverride == [p \in MCProc |-> CASE p \in {"s1", "s2"} -> <<"o", "p", "d">>
                                  [] p = "s3" -> <<"o", "closed">>
                                  [] OTHER -> <<>>]
MCExe == [p \in MCProc |-> CASE p = "deps" -> <<"t", "debug", "deps", "x">>
                             [] p = "example" -> <<"t", "debug", "examples", "y">>
                             [] p = "out" -> <<"t", "debug", "build", "pkg", "h", "out", "z">>
                             [] OTHER -> <<"e">>]
MCName == {".skuld.db"} \cup UNION {Range(MCOverride[p]) \cup Range(MCExe[p]) : p \in MCProc}
MCHashed == {"deps", "out"}
MCMarked == {<<"t", "debug">>}
MCHome == [p \in MCProc |-> IF MCOverride[p] # <<>> THEN MCOverride[p] ELSE <<"t", "debug">>]
Old(u, b) == [by |-> "old", user |-> u, open |-> b]
There == {<<"o">>, <<"o", "closed">>}
         \cup UNION {{SubSeq(MCExe[p], 1, n) : n \in 1..(Len(MCExe[p]) - 1)} : p \in MCProc}
MCBefore == [x \in There |-> Old("u", x # <<"o", "closed">>)]
MCCasts == {{"s1", "s2"}, {"s2", "s3"}, {"deps", "example"}, {"deps", "out"}}
=============================================================================
