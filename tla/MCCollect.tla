------------------------------ MODULE MCCollect ------------------------------
(***************************************************************************)
(* Collect over every acyclic registry of three fixtures (f1 may depend on *)
(* f2 and f3, f2 on f3, in any order), three serial declarations of f3 and *)
(* two of f2, and every list of up to two fixtures for the first test. The *)
(* second test's display name is the libtest name of the first, or the     *)
(* dynamic test has the second one's name, or all names differ.            *)
(***************************************************************************)
EXTENDS Collect

CONSTANTS a, b, c, r, None

OnlyA == Expr({l \in SUBSET {a, b, c} : a \in l})
OnlyB == Expr({l \in SUBSET {a, b, c} : b \in l})
NotB == Expr({l \in SUBSET {a, b, c} : b \notin l})

Fixture(deps, labels, serial, requires) ==
    [deps |-> deps, labels |-> labels, serial |-> serial, requires |-> requires]

MCRegistries ==
    {[f \in {"f1", "f2", "f3"} |->
        CASE f = "f1" -> Fixture(d1, <<a>>, SerialNone, {})
          [] f = "f2" -> Fixture(d2, <<b>>, s2, {})
          [] f = "f3" -> Fixture(<<>>, <<c, a>>, s3, {r})] :
     d1 \in {<<>>, <<"f2">>, <<"f3">>, <<"f2", "f3">>, <<"f3", "f2">>},
     d2 \in {<<>>, <<"f3">>},
     s2 \in {SerialNone, OnlyB}, s3 \in {SerialNone, SerialAll, NotB}}

Def(name, display, fixtures, ignore, labels, explicit, serial) ==
    [name |-> name, module |-> <<"crate", "m">>, display |-> display, requires |-> {},
     fixtures |-> fixtures, ignore |-> ignore, labels |-> labels, explicit |-> explicit,
     serial |-> serial]

Names == {"f1", "f2", "f3", "unregistered"}
Segments == {"crate", "m", "t1", "t2"}

MCPrograms ==
    {<<Def("t1", None, q, FALSE, <<>>, FALSE, SerialNone),
       Def("t2", second[1], <<"f2">>, second[2], <<c>>, TRUE, OnlyA)>> :
     q \in {<<>>} \union {<<f>> : f \in Names}
                  \union {<<f, g>> : f \in Names, g \in Names \ {"unregistered"}},
     second \in {<<None, FALSE>>, <<None, TRUE>>, <<<<"m", "t1">>, FALSE>>}}

Dyn(name) == [name |-> name, labels |-> <<a, a>>, serial |-> SerialAll, ignored |-> FALSE]
MCDynamics == {<<>>, <<Dyn(<<"t2">>)>>}

\* The crate has a default and so has the tests' own module.
MCDefaults == (<<"crate">> :> <<c>>) @@ (<<"crate", "m">> :> <<b>>)

MCFilters == {SerialNone, OnlyA, NotB}
=============================================================================
