--------------------------- MODULE MCLabelFilter ---------------------------
(* Three labels, one of them undeclared, in both cases and with both        *)
(* literals.  The inputs are every text of up to four tokens, right or      *)
(* wrong, and every way to group three words under two operators.           *)
EXTENDS LabelFilter

MCLabel == {"a", "b", "c"}
MCLower == [a |-> "a", B |-> "b", c |-> "c", TRue |-> "true"] @@ ("false" :> "false")
           @@ ("b" :> "b") @@ ("true" :> "true")
MCDeclared == {"a", "b"}

UpTo4 == UNION {[1..n -> {"a", "c", "TRue", "(", ")", "!", "&", "|"}] : n \in 0..4}

Neg == {<<>>, <<"!">>}
Op == {<<"&">>, <<"|">>}
W == {<<"a">>, <<"B">>, <<"c">>}
Grouped ==
  UNION {{u \o x \o o \o v \o y \o p \o w \o z,
          u \o <<"(">> \o x \o o \o v \o y \o <<")">> \o p \o w \o z,
          u \o x \o o \o v \o <<"(">> \o y \o p \o w \o z \o <<")">>} :
           u, v, w \in Neg, o, p \in Op, x, y, z \in W}

MCInputs == UpTo4 \cup Grouped \cup {<<"!", "true">>, <<"a", "|", "false">>}
MCSerials ==
  {<<>>, <<"*">>, <<"a">>, <<"a", "|", "!", "a">>, <<"a", "&", "!", "a">>,
   <<"B", "|", "a">>, <<"!", "(", "a", "&", "c", ")">>, <<"a", "&">>, <<"false">>}
=============================================================================
