---------------------------- MODULE LabelFilter ----------------------------
(***************************************************************************)
(* Label expressions: their text, their tree, their canonical form, the    *)
(* SQL made from them, and what all four mean.                             *)
(*                                                                         *)
(* A text is a sequence of tokens; blanks are left out.  A word is a token *)
(* made of letters, in upper or lower case.  A tree is one of              *)
(*   <<"const", b>>  <<"name", n>>  <<"not", e>>  <<"and", a, b>>          *)
(*   <<"or", a, b>>,                                                       *)
(* as boolean_expression's Expr.  What an expression means is the set of   *)
(* label sets it accepts; SerialRules knows filters only by that set, and  *)
(* this module shows that it may.                                          *)
(***************************************************************************)
EXTENDS Integers, Sequences, FiniteSets, SequencesExt

CONSTANTS
  Label,      \* lower-case label names that may be on a test, as one-letter strings
  Lower,      \* function from the words a text may use to their lower-case form
  DeclaredLabels,   \* the labels the binary declares with #[skuld::label]
  Inputs,     \* texts the user may write in SKULD_LABELS, or after `serial =` in an attribute
  Serials,    \* texts of serial = "..." on tests and fixtures; <<>> and <<"*">> are "" and "*"
  MaxText     \* bound on the length of a merged serial text

Everything == SUBSET Label
Reserved == {"true", "false"}

ASSUME LabelAssumption ==
  /\ DeclaredLabels \subseteq Label
  /\ \A w \in DOMAIN Lower : Lower[w] \in Label \cup Reserved

Rules == INSTANCE SerialRules

VARIABLES
  phase,    \* "start", "ready", "printed", "expanded", "serial", "stored", "rejected", "panicked"
  input,    \* the text being looked at
  strict,   \* TestRunner::require_known_labels
  filter,   \* the LabelFilter's tree
  text,     \* what Display, merge_serial_filters or to_storage has written
  sem       \* what all of it must mean, as a value of SerialRules (history variable)

vars == <<phase, input, strict, filter, text, sem>>

-----------------------------------------------------------------------------
(* What a text means, from the precedences alone: split at an operator of  *)
(* the lowest precedence that is outside all parentheses.                  *)

Depth(ts, i) ==
  Cardinality({j \in 1..i : ts[j] = "("}) - Cardinality({j \in 1..i : ts[j] = ")"})
Cuts(ts, op) == {i \in DOMAIN ts : ts[i] = op /\ Depth(ts, i) = 0}
Balanced(ts) ==
  /\ \A i \in DOMAIN ts : Depth(ts, i) >= 0
  /\ ts # <<>> => Depth(ts, Len(ts)) = 0
Before(ts, i) == SubSeq(ts, 1, i - 1)
After(ts, i) == SubSeq(ts, i + 1, Len(ts))

RECURSIVE WellFormed(_)
WellFormed(ts) ==
  /\ ts # <<>>
  /\ Balanced(ts)
  /\ LET cuts == Cuts(ts, "|") \cup Cuts(ts, "&")
     IN  IF cuts # {} THEN LET i == CHOOSE i \in cuts : TRUE
                           IN  WellFormed(Before(ts, i)) /\ WellFormed(After(ts, i))
         ELSE \/ ts[1] = "!" /\ WellFormed(Tail(ts))
              \/ ts[1] = "(" /\ ts[Len(ts)] = ")" /\ WellFormed(SubSeq(ts, 2, Len(ts) - 1))
              \/ Len(ts) = 1 /\ ts[1] \in DOMAIN Lower

RECURSIVE Denotes(_)
Denotes(ts) ==
  LET ors == Cuts(ts, "|")
      ands == Cuts(ts, "&")
      Split(cuts) == CHOOSE i \in cuts : TRUE
  IN  CASE ors # {} -> Denotes(Before(ts, Split(ors))) \cup Denotes(After(ts, Split(ors)))
        [] ors = {} /\ ands # {} ->
             Denotes(Before(ts, Split(ands))) \cap Denotes(After(ts, Split(ands)))
        [] ors \cup ands = {} /\ ts[1] = "!" -> Everything \ Denotes(Tail(ts))
        [] ors \cup ands = {} /\ ts[1] = "(" -> Denotes(SubSeq(ts, 2, Len(ts) - 1))
        [] ors \cup ands = {} /\ ts[1] \in DOMAIN Lower ->
             IF Lower[ts[1]] = "true" THEN Everything
             ELSE IF Lower[ts[1]] = "false" THEN {}
             ELSE {L \in Everything : Lower[ts[1]] \in L}

-----------------------------------------------------------------------------
(* Trees.                                                                  *)

\* Expr::evaluate_with: is the tree true of a test with these labels?
RECURSIVE MatchesExpr(_, _)
MatchesExpr(e, labels) ==
  CASE e[1] = "const" -> e[2]
    [] e[1] = "name" -> e[2] \in labels
    [] e[1] = "not" -> ~MatchesExpr(e[2], labels)
    [] e[1] = "and" -> MatchesExpr(e[2], labels) /\ MatchesExpr(e[3], labels)
    [] e[1] = "or" -> MatchesExpr(e[2], labels) \/ MatchesExpr(e[3], labels)

Sat(e) == {L \in Everything : MatchesExpr(e, L)}

RECURSIVE CollectTerminals(_)
CollectTerminals(e) ==
  CASE e[1] = "name" -> {e[2]}
    [] e[1] = "const" -> {}
    [] e[1] = "not" -> CollectTerminals(e[2])
    [] e[1] \in {"and", "or"} -> CollectTerminals(e[2]) \cup CollectTerminals(e[3])

-----------------------------------------------------------------------------
(* The grammar of label.pest, as the recursive descent pest derives from   *)
(* it, with the tree build_expr makes of it.  A rule's result is the tree  *)
(* and the position after it; position 0 is failure.                       *)

Failed == <<<<>>, 0>>
At(ts, i, tok) == i \in DOMAIN ts /\ ts[i] = tok

RECURSIVE OrExpr(_, _), OrRest(_, _), AndExpr(_, _), AndRest(_, _), NotExpr(_, _)

\* Mutant: "|" and "&" bind alike, from the left.
AndRestFlat(ts, r) ==
  IF r[2] = 0 \/ ~(At(ts, r[2], "&") \/ At(ts, r[2], "|")) THEN r
  ELSE LET right == NotExpr(ts, r[2] + 1)
       IN  IF right[2] = 0 THEN r
           ELSE AndRest(ts, <<<<IF ts[r[2]] = "&" THEN "and" ELSE "or", r[1], right[1]>>, right[2]>>)

OrRest(ts, r) ==
  IF r[2] = 0 \/ ~At(ts, r[2], "|") THEN r
  ELSE LET right == AndExpr(ts, r[2] + 1)
       IN  IF right[2] = 0 THEN r ELSE OrRest(ts, <<<<"or", r[1], right[1]>>, right[2]>>)
OrExpr(ts, i) == OrRest(ts, AndExpr(ts, i))

AndRest(ts, r) ==
  IF r[2] = 0 \/ ~At(ts, r[2], "&") THEN r
  ELSE LET right == NotExpr(ts, r[2] + 1)
       IN  IF right[2] = 0 THEN r ELSE AndRest(ts, <<<<"and", r[1], right[1]>>, right[2]>>)
AndExpr(ts, i) == AndRest(ts, NotExpr(ts, i))

\* bool_lit comes before label, and both ignore case.
Word(w) ==
  IF Lower[w] \in Reserved THEN <<"const", Lower[w] = "true">> ELSE <<"name", Lower[w]>>

NotExpr(ts, i) ==
  CASE At(ts, i, "!") ->
         LET r == NotExpr(ts, i + 1)
         IN  IF r[2] = 0 THEN Failed ELSE <<<<"not", r[1]>>, r[2]>>
    [] At(ts, i, "(") ->
         LET r == OrExpr(ts, i + 1)
         IN  IF r[2] # 0 /\ At(ts, r[2], ")") THEN <<r[1], r[2] + 1>> ELSE Failed
    [] i \in DOMAIN ts /\ ts[i] \in DOMAIN Lower -> <<Word(ts[i]), i + 1>>
    [] OTHER -> Failed

\* input = SOI expr EOI
ParseRaw(ts) ==
  LET r == OrExpr(ts, 1) IN IF r[2] = Len(ts) + 1 THEN r ELSE Failed
Parses(ts) == ParseRaw(ts)[2] # 0

-----------------------------------------------------------------------------
(* The macro's own parser of `serial = ...`, over Rust tokens.  A rule's   *)
(* result is the text it writes into the TestDef, and a position as above. *)

RECURSIVE MacroOr(_, _), MacroOrRest(_, _), MacroAnd(_, _), MacroAndRest(_, _), MacroNot(_, _)

MacroOrRest(ts, r) ==
  IF r[2] = 0 \/ ~At(ts, r[2], "|") THEN r
  ELSE LET right == MacroAnd(ts, r[2] + 1)
       IN  IF right[2] = 0 THEN Failed ELSE MacroOrRest(ts, <<r[1] \o <<"|">> \o right[1], right[2]>>)
MacroOr(ts, i) == MacroOrRest(ts, MacroAnd(ts, i))

MacroAndRest(ts, r) ==
  IF r[2] = 0 \/ ~At(ts, r[2], "&") THEN r
  ELSE LET right == MacroNot(ts, r[2] + 1)
       IN  IF right[2] = 0 THEN Failed ELSE MacroAndRest(ts, <<r[1] \o <<"&">> \o right[1], right[2]>>)
MacroAnd(ts, i) == MacroAndRest(ts, MacroNot(ts, i))

\* Mutant: the parentheses are parsed and not written.
MacroGroupBare(inner) == inner
MacroGroup(inner) == <<"(">> \o inner \o <<")">>

\* true and false are keywords of Rust, not identifiers.
MacroNot(ts, i) ==
  CASE At(ts, i, "!") ->
         LET r == MacroNot(ts, i + 1)
         IN  IF r[2] = 0 THEN Failed ELSE <<<<"!">> \o r[1], r[2]>>
    [] At(ts, i, "(") ->
         LET r == MacroOr(ts, i + 1)
         IN  IF r[2] # 0 /\ At(ts, r[2], ")") THEN <<MacroGroup(r[1]), r[2] + 1>> ELSE Failed
    [] i \in DOMAIN ts /\ ts[i] \in DOMAIN Lower \ Reserved -> <<<<ts[i]>>, i + 1>>
    [] OTHER -> Failed

ParseSerialExpr(ts) ==
  LET r == MacroOr(ts, 1) IN IF r[2] = Len(ts) + 1 THEN r ELSE Failed

-----------------------------------------------------------------------------
(* Display.  OR has precedence 0, AND 1, everything else 2.                *)

Prec(e) == IF e[1] = "or" THEN 0 ELSE IF e[1] = "and" THEN 1 ELSE 2

RECURSIVE FmtExpr(_, _)

FmtExpr(e, minPrec) ==
  LET body == CASE e[1] = "name" -> <<e[2]>>
                [] e[1] = "const" -> <<IF e[2] THEN "true" ELSE "false">>
                [] e[1] = "not" -> <<"!">> \o FmtExpr(e[2], 2)
                [] e[1] = "and" -> FmtExpr(e[2], 1) \o <<"&">> \o FmtExpr(e[3], 1)
                [] e[1] = "or" -> FmtExpr(e[2], 0) \o <<"|">> \o FmtExpr(e[3], 0)
  IN  IF Prec(e) < minPrec THEN <<"(">> \o body \o <<")">> ELSE body
FormatExpr(e) == FmtExpr(e, 0)

-----------------------------------------------------------------------------
(* The canonical form.  The BDD and its way back to an expression belong   *)
(* to the boolean_expression crate: from the function alone they make a    *)
(* sum of products, here the one of all prime cubes, in some order.        *)

Cubes == {c \in [pos : SUBSET Label, neg : SUBSET Label] : c.pos \cap c.neg = {}}
CubeSat(c) == {L \in Everything : c.pos \subseteq L /\ c.neg \cap L = {}}
PrimeCubes(S) ==
  LET implicants == {c \in Cubes : CubeSat(c) \subseteq S}
  IN  {c \in implicants : \A d \in implicants : CubeSat(c) \subseteq CubeSat(d) => d = c}
Join(op, es) == FoldLeft(LAMBDA a, b : <<op, a, b>>, Head(es), Tail(es))
CubeExpr(c) ==
  Join("and", SetToSeq({<<"name", n>> : n \in c.pos} \cup {<<"not", <<"name", n>>>> : n \in c.neg}))
BddToExpr(S) ==
  IF S \in {{}, Everything} THEN <<"const", S = Everything>>
  ELSE Join("or", SetToSeq({CubeExpr(c) : c \in PrimeCubes(S)}))

\* The order of the characters a rendering is made of, blanks around & and |
\* included; names are single letters.
Alphabet == <<"&", "|", "!", "(", ")", "a", "b", "c">>
Rank(t) == CHOOSE i \in DOMAIN Alphabet : Alphabet[i] = t
NotAfter(x, y) ==
  \/ IsPrefix(x, y)
  \/ \E i \in DOMAIN x \cap DOMAIN y :
       /\ Rank(x[i]) < Rank(y[i])
       /\ \A j \in 1..(i - 1) : x[j] = y[j]
SortPair(op, a, b) ==
  IF NotAfter(FormatExpr(a), FormatExpr(b)) THEN <<op, a, b>> ELSE <<op, b, a>>

RECURSIVE SortChildren(_)
SortChildren(e) ==
  CASE e[1] = "not" -> <<"not", SortChildren(e[2])>>
    [] e[1] \in {"and", "or"} -> SortPair(e[1], SortChildren(e[2]), SortChildren(e[3]))
    [] e[1] \in {"name", "const"} -> e

Canonicalize(e) == SortChildren(BddToExpr(Sat(e)))

-----------------------------------------------------------------------------
(* What is made of a filter.                                               *)

RECURSIVE ToSqlExpr(_)

\* Mutant: AND and OR are written without parentheses.
ToSqlBare(e) ==
  CASE e[1] = "name" -> <<e[2]>>
    [] e[1] = "const" -> <<IF e[2] THEN "true" ELSE "false">>
    [] e[1] = "not" -> <<"!", "(">> \o ToSqlExpr(e[2]) \o <<")">>
    [] e[1] \in {"and", "or"} ->
         ToSqlExpr(e[2]) \o <<IF e[1] = "and" THEN "&" ELSE "|">> \o ToSqlExpr(e[3])

\* The WHERE fragment, written with the tokens above: SQL's NOT, AND and OR
\* bind like !, & and |; a name is the EXISTS on the row's labels, a constant
\* is 1=1 or 1=0.
ToSqlExpr(e) ==
  CASE e[1] = "name" -> <<e[2]>>
    [] e[1] = "const" -> <<IF e[2] THEN "true" ELSE "false">>
    [] e[1] = "not" -> <<"!", "(">> \o ToSqlExpr(e[2]) \o <<")">>
    [] e[1] = "and" -> <<"(">> \o ToSqlExpr(e[2]) \o <<"&">> \o ToSqlExpr(e[3]) \o <<")">>
    [] e[1] = "or" -> <<"(">> \o ToSqlExpr(e[2]) \o <<"|">> \o ToSqlExpr(e[3]) \o <<")">>

\* to_storage of the text of a declaration that is not a sentinel.
ToStorage(ts) ==
  LET e == Canonicalize(ParseRaw(ts)[1])
  IN  IF e = <<"const", TRUE>> THEN <<"*">>
      ELSE IF e = <<"const", FALSE>> THEN <<>>
      ELSE FormatExpr(e)

\* What the reader of a stored text, can_start or cargo-skuld, takes it for.
Read(ts) ==
  IF ts = <<"*">> THEN Rules!SerialAll
  ELSE IF ts = <<>> THEN Rules!SerialNone
  ELSE IF Parses(ts) THEN Rules!Expr(Sat(Canonicalize(ParseRaw(ts)[1])))
  ELSE Rules!Unparseable

\* Mutant: the second filter is joined with "&".
MergeAsAnd(a, b) ==
  IF a = <<>> THEN b
  ELSE IF b = <<>> THEN a
  ELSE IF <<"*">> \in {a, b} THEN <<"*">>
  ELSE <<"(">> \o a \o <<")", "&", "(">> \o b \o <<")">>

MergeSerialFilters(a, b) ==
  IF a = <<>> THEN b
  ELSE IF b = <<>> THEN a
  ELSE IF <<"*">> \in {a, b} THEN <<"*">>
  ELSE <<"(">> \o a \o <<")", "|", "(">> \o b \o <<")">>

\* What the author of a declaration means by it.
Meant(ts) ==
  IF ts = <<>> THEN Rules!SerialNone
  ELSE IF ts = <<"*">> THEN Rules!SerialAll
  ELSE Rules!Expr(Denotes(ts))

-----------------------------------------------------------------------------
None == <<"const", FALSE>>

Init ==
  /\ phase = "start"
  /\ strict \in BOOLEAN
  /\ input \in Inputs \cup Serials
  /\ filter = None /\ text = <<>> /\ sem = Rules!SerialNone

Panic ==
  /\ phase' = "panicked"
  /\ UNCHANGED <<input, strict, filter, text, sem>>

\* Mutant: the names are taken from the canonical filter.
SelectCanonicalNames ==
  /\ phase = "start" /\ input \in Inputs /\ Parses(input)
  /\ strict => CollectTerminals(Canonicalize(ParseRaw(input)[1])) \subseteq DeclaredLabels
  /\ phase' = "ready"
  /\ filter' = Canonicalize(ParseRaw(input)[1])
  /\ sem' = Meant(input)
  /\ UNCHANGED <<input, strict, text>>

(***************************************************************************)
(* SKULD_LABELS is read, parsed and, when the runner asks for it, searched *)
(* for labels nobody declares.                                             *)
(***************************************************************************)
Select ==
  /\ phase = "start" /\ input \in Inputs /\ Parses(input)
  /\ strict => CollectTerminals(ParseRaw(input)[1]) \subseteq DeclaredLabels
  /\ phase' = "ready"
  /\ filter' = Canonicalize(ParseRaw(input)[1])
  /\ sem' = Meant(input)
  /\ UNCHANGED <<input, strict, text>>

SelectFails ==
  /\ phase = "start" /\ input \in Inputs
  /\ \/ ~Parses(input)
     \/ Parses(input) /\ strict /\ ~(CollectTerminals(ParseRaw(input)[1]) \subseteq DeclaredLabels)
  /\ Panic

\* The operators of LabelFilter and Label; a label is a filter of one name.
Now(e, S) ==
  /\ filter' = Canonicalize(e)
  /\ sem' = Rules!Expr(S)
  /\ input' = <<>>
  /\ UNCHANGED <<phase, strict, text>>

Not == phase = "ready" /\ Now(<<"not", filter>>, Everything \ sem.sat)

BitAnd(l) ==
  /\ phase = "ready"
  /\ Now(<<"and", filter, <<"name", l>>>>, {L \in sem.sat : l \in L})
BitOr(l) ==
  /\ phase = "ready"
  /\ Now(<<"or", <<"name", l>>, filter>>, sem.sat \cup {L \in Everything : l \in L})

\* A filter is written and read again: by to_storage and the scrub, by
\* can_start in another process, by cargo-skuld from the dump.
Display ==
  /\ phase = "ready"
  /\ phase' = "printed" /\ text' = FormatExpr(filter)
  /\ UNCHANGED <<input, strict, filter, sem>>

Reparse ==
  /\ phase = "printed" /\ Parses(text)
  /\ phase' = "ready" /\ filter' = Canonicalize(ParseRaw(text)[1]) /\ text' = <<>>
  /\ UNCHANGED <<input, strict, sem>>

(***************************************************************************)
(* Serial declarations: expanded by the macro, or written into a TestDef   *)
(* by hand; validated at startup; merged as text along the fixtures;       *)
(* stored when the test registers.                                         *)
(***************************************************************************)
ExpandSerial ==
  /\ phase = "start" /\ input \in Inputs
  /\ LET r == ParseSerialExpr(input)
     IN  IF r[2] # 0
         THEN phase' = "expanded" /\ text' = r[1] /\ sem' = Meant(input)
         ELSE phase' = "rejected" /\ UNCHANGED <<text, sem>>
  /\ UNCHANGED <<input, strict, filter>>

ByHand ==
  /\ phase = "start" /\ input \in Serials
  /\ phase' = "expanded" /\ text' = input
  /\ sem' = IF WellFormed(input) \/ input = <<"*">> THEN Meant(input) ELSE Rules!SerialNone
  /\ UNCHANGED <<input, strict, filter>>

Sentinel(ts) == ts \in {<<>>, <<"*">>}

ValidateSerialFilter ==
  /\ phase = "expanded"
  /\ IF Sentinel(text) \/ Parses(text)
     THEN phase' = "serial" /\ UNCHANGED <<input, strict, filter, text, sem>>
     ELSE Panic

Merge(s) ==
  /\ phase = "serial"
  /\ Sentinel(s) \/ Parses(s)
  /\ Len(text) + Len(s) <= MaxText
  /\ text' = MergeSerialFilters(text, s)
  /\ sem' = Rules!MergeSerialFilters(sem, Meant(s))
  /\ input' = <<>>
  /\ UNCHANGED <<phase, strict, filter>>

Store ==
  /\ phase = "serial"
  /\ phase' = "stored"
  /\ text' = IF Sentinel(text) THEN text ELSE ToStorage(text)
  /\ UNCHANGED <<input, strict, filter, sem>>

Finished == phase \in {"stored", "rejected", "panicked"} /\ UNCHANGED vars

Next ==
  \/ Select \/ SelectFails \/ ExpandSerial \/ ByHand \/ ValidateSerialFilter
  \/ Not \/ Display \/ Reparse \/ Store
  \/ \E l \in Label : BitAnd(l) \/ BitOr(l)
  \/ \E s \in Serials : Merge(s)
  \/ Finished

Spec == Init /\ [][Next]_vars

-----------------------------------------------------------------------------
Canonical == {SortChildren(BddToExpr(S)) : S \in SUBSET Everything}
Tokens == {"(", ")", "!", "&", "|", "*"} \cup Label \cup Reserved \cup DOMAIN Lower

\* Every LabelFilter the program holds is one of the canonical trees, one for
\* each meaning: parse, the operators and a second parse all end in
\* canonicalize.  With FilterKeepsMeaning, equal meaning is equal structure,
\* which == and is_tautology rely on.
TypeOK ==
  /\ phase \in {"start", "ready", "printed", "expanded", "serial", "stored", "rejected", "panicked"}
  /\ strict \in BOOLEAN
  /\ input \in Inputs \cup Serials \cup {<<>>}
  /\ filter \in Canonical
  /\ text \in Seq(Tokens)
  /\ sem \in {Rules!SerialNone, Rules!SerialAll} \cup {Rules!Expr(S) : S \in SUBSET Everything}

\* Through any sequence of parsing, operators, printing and parsing again, a
\* filter accepts exactly the label sets that what the user wrote accepts, by
\* the documented precedences, and stays the canonical tree of that meaning
\* (TypeOK).  What Display writes says the same, of a canonical tree and of
\* whatever other tree the user wrote.
FilterKeepsMeaning ==
  /\ TypeOK
  /\ phase \in {"ready", "printed"} => Sat(filter) = sem.sat
  /\ phase = "printed" => Parses(text) /\ Denotes(text) = sem.sat
  /\ phase = "start" /\ Parses(input) =>
       LET shown == FormatExpr(ParseRaw(input)[1])
       IN  WellFormed(shown) /\ Denotes(shown) = Denotes(input)

\* The WHERE fragment selects a running row exactly when the filter matches
\* the row's labels, whatever the filter's shape: can_start's query (d) and
\* query (b) apply one rule.
SqlMeansTheFilter ==
  /\ phase = "ready" => Denotes(ToSqlExpr(filter)) = sem.sat
  /\ phase = "start" /\ Parses(input) => Denotes(ToSqlExpr(ParseRaw(input)[1])) = Denotes(input)

\* SKULD_LABELS is refused exactly when it is not an expression or, if the
\* runner is strict, names a label nobody declares, one that cancels out
\* (x | !x) included: a misspelt label never silently selects nothing.
SelectionIsChecked ==
  LET known == {Lower[w] : w \in ToSet(input) \cap DOMAIN Lower} \subseteq DeclaredLabels \cup Reserved
      fine == WellFormed(input) /\ (strict => known)
  IN  input \in Inputs \ Serials =>
        /\ phase = "panicked" => ~fine
        /\ phase = "ready" => fine

\* The macro and the grammar are two parsers of one language.  What the macro
\* accepts parses at startup and means what stands in the attribute; what it
\* rejects is no expression, or uses a literal, which Rust has as a keyword.
MacroAgreesWithGrammar ==
  /\ phase = "expanded" /\ input \in Inputs \ Serials => Parses(text) /\ Denotes(text) = sem.sat
  /\ phase = "rejected" => ~WellFormed(input) \/ ToSet(input) \cap Reserved # {}

\* The row in the database, read by any process, is what SerialRules computes
\* from the meanings alone: a merge is a union, a tautology is "*", a
\* contradiction is "", and storing what was read changes nothing.  On the way
\* there, declarations that passed the startup check can be merged along any
\* number of fixtures and still parse: to_storage's expect never fires.
StoredFollowsTheRules ==
  /\ phase = "serial" => Sentinel(text) \/ Parses(text)
  /\ phase = "stored" => Read(text) = Rules!ToStorage(sem)
  /\ phase = "stored" /\ ~Sentinel(text) => ToStorage(text) = text
=============================================================================
