------------------------------ MODULE MCGuards ------------------------------
(* Guards for two tests, three directories, two names for temporary         *)
(* directories, a variable and a key that is none.                          *)
EXTENDS Guards

CONSTANTS home, d1, d2, n1, n2, k1, k2, v1, v2, unset, here

\* The guards in both orders, with a third fixture at either place that matters.
MCOrders ==
    {<<"cwd", "env">>, <<"env", "cwd">>, <<"cwd", "other", "env">>, <<"env", "cwd", "other">>}
=============================================================================
