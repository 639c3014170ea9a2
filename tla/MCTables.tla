------------------------------ MODULE MCTables ------------------------------
(***************************************************************************)
(* A small instance of Tables: "posts" has a primary key of any type and   *)
(* a number that may be NULL, "marks" no key, and a number without index   *)
(* that may not.                                                           *)
(***************************************************************************)
EXTENDS Tables

SomeRowIds == [name \in TableName |-> IF name = "posts" THEN 4 ELSE 3]

Number(d) == [type |-> "number", text |-> <<d>>]
String(text) == [type |-> "string", text |-> text]
Object == [type |-> "json", text |-> <<60>>]

One == Number(1)
Two == Number(2)
OneAsText == String(<<1>>)
Word == String(<<10, 12>>)
LongWord == String(<<12, 11, 10, 12>>)

Keyed ==
  [columns |-> <<"id", "n">>, primaryKey |-> "id",
   column |-> [id |-> [type |-> "any", nullable |-> TRUE, default |-> Null],
               n  |-> [type |-> "number", nullable |-> TRUE, default |-> One]]]
Plain ==
  [columns |-> <<"m">>, primaryKey |-> None,
   column |-> [m |-> [type |-> "number", nullable |-> FALSE, default |-> Null]]]

SomeSchemas ==
  [name \in TableName |-> {IF name = "posts" THEN Keyed ELSE Plain}]

Row(columns, values) == [columns |-> columns, values |-> values]

(* Among them: a text that becomes a number, a default, two rows at once,  *)
(* and rows that are refused: a key twice, no number, a NULL key.          *)
SomeInserts ==
  {Row(<<"id", "n">>, <<<<One, Two>>>>),
   Row(<<"n", "id">>, <<<<OneAsText, OneAsText>>>>),
   Row(<< >>, <<<<Word, Null>>>>),
   Row(<<"id">>, <<<<Object>>, <<LongWord>>>>),
   Row(<<"id", "n">>, <<<<Two, Null>>, <<Two, One>>>>),
   Row(<<"id", "n">>, <<<<Word, Word>>>>),
   Row(<< >>, <<<<Two>>>>),
   Row(<<"m">>, <<<<One>>, <<OneAsText>>>>)}

Col(name) == [kind |-> "column_ref", name |-> name]
Lit(v) == [kind |-> "literal", value |-> v]
Is(op, left, right) == [op |-> op, left |-> left, right |-> right]
Both(p, q) == [op |-> "and", left |-> p, right |-> q]
Either(p, q) == [op |-> "or", left |-> p, right |-> q]
Never(p) == [op |-> "not", clause |-> p]

NIs(v) == Is("=", Col("n"), <<Lit(v)>>)
IdIs(v) == Is("=", Lit(v), <<Col("id")>>)
NIn(a, b) == Is("in", Col("n"), <<Lit(a), Lit(b)>>)
MIs(v) == Is("=", Col("m"), <<Lit(v)>>)
Between(a, b) == Is("between", Col("n"), <<Lit(a), Lit(b)>>)
IdLike(pattern) == Is("like", Col("id"), <<Lit(String(pattern))>>)
Compared(op) == Is(op, Col("n"), <<Col("id")>>)
Missing == [op |-> "is_null", expression |-> Col("n")]
Present == [op |-> "is_not_null", expression |-> Col("n")]

SomeWheres ==
  {None, NIs(One), MIs(One), IdIs(Object), Missing,
   Both(NIs(Two), IdIs(One)), Both(Present, NIn(One, Two)),
   Either(NIs(One), IdIs(Word)), Never(NIs(One)), Never(NIn(Two, Null)),
   Never(Both(NIs(Two), Either(Missing, IdLike(<<11, AnyRun>>)))),
   Between(Null, One), Never(Between(One, Null)),
   Compared("<="), Compared("!="), Is(">", Col("id"), <<Lit(OneAsText)>>)}

SomeUpdates ==
  {[set |-> [n |-> Two], where |-> NIs(One)],
   [set |-> [m |-> Two], where |-> MIs(One)],
   [set |-> [n |-> Null], where |-> IdIs(Object)],
   [set |-> [id |-> Word], where |-> NIs(Two)],
   [set |-> [id |-> One, n |-> OneAsText], where |-> Missing]}

SomeDeletes == {NIs(Two), MIs(Two), Never(NIn(Two, Null)), IdIs(Word)}

Ask(where, orderBy, desc, limit, skip) ==
  [where |-> where, orderBy |-> orderBy, desc |-> desc,
   limit |-> limit, skip |-> skip]

Patterns ==
  {<< >>, <<10>>, <<AnyOne>>, <<AnyRun>>, <<10, 13>>, <<AnyRun, 12>>,
   <<10, AnyRun>>, <<AnyRun, 10, AnyRun>>, <<AnyOne, AnyRun, AnyOne>>,
   <<AnyRun, 10, 12>>, <<AnyRun, AnyOne, 12>>, <<12, AnyRun, 10, AnyOne, AnyRun>>}

Ordered == {Ask(w, o, d, 2, s) : w \in {None, Either(NIs(One), IdIs(Word))},
              o \in {"n", "id"}, d \in BOOLEAN, s \in {0, 1}}

SomeQueries ==
  Ordered
  \cup {Ask(w, None, FALSE, None, 0) : w \in SomeWheres}
  \cup {Ask(None, None, FALSE, 2, s) : s \in {0, 1}}
  \cup {Ask(None, "id", TRUE, l, 0) : l \in {0, 3, 4}}
  \cup {Ask(IdLike(p), None, FALSE, None, 0) : p \in Patterns}

=============================================================================
