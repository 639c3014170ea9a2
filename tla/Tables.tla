------------------------------- MODULE Tables -------------------------------
(***************************************************************************)
(* The SQL executor (src/executor.ts): tables of typed rows, an index of   *)
(* every column, a primary index, limits on rows and bytes, and SELECT     *)
(* with WHERE, ORDER BY, LIMIT and OFFSET.                                 *)
(*                                                                         *)
(* A statement that throws changes nothing, and is no step.  The choice of *)
(* SELECT's columns, its limit on bytes, the cache of parsed statements    *)
(* and Boolean values are left out.                                        *)
(***************************************************************************)
EXTENDS QueryUtils, FiniteSets, FiniteSetsExt, Functions, TLC

CONSTANTS
  None,         \* no primary key, no default, no WHERE, no LIMIT
  TableName,
  Schemas,      \* the schemas CREATE may give each table
  Inserts,      \* the columns and rows of INSERTs
  Updates,      \* the assignments and WHERE of UPDATEs
  Deletes,      \* the WHERE of DELETEs
  Queries,      \* the SELECTs: where, orderBy, desc, limit, skip
  Unindexed,    \* columns that options.indexColumns leaves out
  MaxTables,    \* limits.maxTables
  MaxRows,      \* limits.maxRows
  MaxBytes,     \* limits.maxBytes
  MaxResultRows, \* limits.maxResultRows
  MaxRowId      \* bound on each table's nextRowId

VARIABLES
  tables,       \* db.tables
  storedRows,
  storedBytes

vars == <<tables, storedRows, storedBytes>>

-----------------------------------------------------------------------------
(* Values.  A number is its one digit; an object ("json") is the text that *)
(* both String() and JSON.stringify() make of it.                          *)

Digit == 0..9
Null == [type |-> "null", text |-> << >>]
Refused == [type |-> "refused", text |-> << >>]

IsNumeral(text) == Len(text) = 1 /\ text[1] \in Digit
IsIndexableValue(v) == v.type # "json"

Size(v) ==
  CASE v = Null -> 4
    [] v.type = "string" -> Len(v.text) + 2
    [] OTHER -> Len(v.text)

TextOrder(s, t) ==
  LET differ == {i \in 1..Len(s) : i <= Len(t) /\ s[i] # t[i]}
  IN  IF differ = {} THEN Len(s) - Len(t) ELSE s[Min(differ)] - t[Min(differ)]

CoerceWriteValue(v, column, isKey) ==
  CASE v = Null ->
         IF column.nullable /\ ~isKey THEN Null ELSE Refused
    [] v # Null /\ column.type \in {"any", v.type} -> v
    [] column.type = "number" /\ v.type = "string" /\ IsNumeral(v.text) ->
         [type |-> "number", text |-> v.text]
    [] OTHER -> Refused

-----------------------------------------------------------------------------
(* WHERE.  A comparison has a sequence of right sides: of one member,      *)
(* except for IN and BETWEEN.                                              *)

Evaluated(row, expression) ==
  IF expression.kind = "column_ref" THEN row[expression.name]
  ELSE expression.value

RECURSIVE WhereColumns(_)
WhereColumns(where) ==
  CASE where.op \in {"and", "or"} ->
         WhereColumns(where.left) \cup WhereColumns(where.right)
    [] where.op = "not" -> WhereColumns(where.clause)
    [] where.op \in {"is_null", "is_not_null"} ->
         {e.name : e \in {x \in {where.expression} : x.kind = "column_ref"}}
    [] OTHER ->
         {e.name : e \in {x \in {where.left} \cup ToSet(where.right) :
                             x.kind = "column_ref"}}

Truth(b) == IF b THEN "true" ELSE "false"

(* compareValues(): two numbers as numbers, anything else as texts, which  *)
(* is one order as long as numbers have one digit.                         *)
CompareValues(a, b) ==
  CASE a = Null -> -1
    [] a # Null /\ b = Null -> 1
    [] OTHER -> TextOrder(a.text, b.text)

EvaluateIn(v, items) ==
  CASE \E i \in DOMAIN items : items[i] = v -> "true"
    [] Len(items) > 0 /\ v \notin ToSet(items) /\ Null \in ToSet(items) ->
         "unknown"
    [] OTHER -> "false"

EvaluateBetween(v, low, high) ==
  CASE \/ low # Null /\ CompareValues(v, low) < 0
       \/ high # Null /\ CompareValues(v, high) > 0 -> "false"
    [] OTHER -> IF Null \in {low, high} THEN "unknown" ELSE "true"

CompareWith(op, a, b) ==
  Truth(CASE op = "="    -> a = b
          [] op = "!="   -> a # b
          [] op = ">"    -> CompareValues(a, b) > 0
          [] op = ">="   -> CompareValues(a, b) >= 0
          [] op = "<"    -> CompareValues(a, b) < 0
          [] op = "<="   -> CompareValues(a, b) <= 0
          [] op = "like" -> MatchLike(a.text, b.text))

EvaluateComparison(op, v, right) ==
  CASE v = Null -> "unknown"
    [] v # Null /\ op = "in" -> EvaluateIn(v, right)
    [] v # Null /\ op = "between" -> EvaluateBetween(v, right[1], right[2])
    [] v # Null /\ op \notin {"in", "between"} ->
         IF right[1] = Null THEN "unknown" ELSE CompareWith(op, v, right[1])

And(p, q) ==
  CASE "false" \in {p, q} -> "false"
    [] "false" \notin {p, q} /\ "unknown" \in {p, q} -> "unknown"
    [] OTHER -> "true"

Or(p, q) ==
  CASE "true" \in {p, q} -> "true"
    [] "true" \notin {p, q} /\ "unknown" \in {p, q} -> "unknown"
    [] OTHER -> "false"

Not(p) == CASE p = "unknown" -> p [] OTHER -> Truth(p = "false")

RECURSIVE EvaluateWhere(_, _)
EvaluateWhere(row, where) ==
  CASE where.op = "and" ->
         And(EvaluateWhere(row, where.left), EvaluateWhere(row, where.right))
    [] where.op = "or" ->
         Or(EvaluateWhere(row, where.left), EvaluateWhere(row, where.right))
    [] where.op = "not" -> Not(EvaluateWhere(row, where.clause))
    [] where.op = "is_null" -> Truth(Evaluated(row, where.expression) = Null)
    [] where.op = "is_not_null" ->
         Truth(Evaluated(row, where.expression) # Null)
    [] OTHER ->
         EvaluateComparison(where.op, Evaluated(row, where.left),
           [i \in DOMAIN where.right |-> Evaluated(row, where.right[i])])

-----------------------------------------------------------------------------
(* Tables and their indexes.                                               *)

Columns(schema) == ToSet(schema.columns)
Indexed(schema) == Columns(schema) \ Unindexed
IsKey(schema, c) == schema.primaryKey = c

(* A row's JSON text, without the names, which are the same in every row. *)
Bytes(row) == MapThenSumSet(LAMBDA c : Size(row[c]), DOMAIN row)

(* addIndexEntry() and removeIndexEntry(), for a set of <<value, id>>.     *)
AddEntries(index, entries) ==
  LET new == {e \in entries : IsIndexableValue(e[1])}
      At(v) == {e[2] : e \in {x \in new : x[1] = v}}
  IN  [v \in DOMAIN index \cup {e[1] : e \in new} |->
         At(v) \cup (IF v \in DOMAIN index THEN index[v] ELSE {})]

RemoveEntries(index, entries) ==
  LET At(v) == {e[2] : e \in {x \in entries : x[1] = v}}
  IN  [v \in {v \in DOMAIN index : ~(index[v] \subseteq At(v))} |->
         index[v] \ At(v)]

Entries(rows, ids, c) == {<<rows[i][c], i>> : i \in ids}

(* indexPlan(): the columns it uses, none when it cannot help, and the     *)
(* rows its lookup finds.                                                  *)
Lookup(table, c, values) ==
  IF c \notin DOMAIN table.indexes \/ \E v \in values : ~IsIndexableValue(v)
  THEN [columns |-> {}, ids |-> {}]
  ELSE [columns |-> {c},
        ids |-> UNION {table.indexes[c][v] :
                         v \in values \cap DOMAIN table.indexes[c]}]

BothPlans(left, right) ==
  CASE left.columns = {} -> right
    [] left.columns # {} /\ right.columns = {} -> left
    [] OTHER -> [columns |-> left.columns \cup right.columns,
                 ids |-> left.ids \cap right.ids]

RECURSIVE IndexPlan(_, _)

(* Mistake: an OR is served by the side that has an index.                 *)
IndexPlanOfEither(table, where) ==
  CASE where.op \in {"and", "or"} ->
         BothPlans(IndexPlan(table, where.left), IndexPlan(table, where.right))
    [] where.op = "=" /\ where.left.kind = "column_ref"
                      /\ where.right[1].kind = "literal" ->
         Lookup(table, where.left.name, {where.right[1].value})
    [] OTHER -> [columns |-> {}, ids |-> {}]

IndexPlan(table, where) ==
  CASE where.op = "and" ->
         BothPlans(IndexPlan(table, where.left), IndexPlan(table, where.right))
    [] where.op = "=" /\ where.left.kind = "column_ref"
                      /\ where.right[1].kind = "literal" ->
         Lookup(table, where.left.name, {where.right[1].value})
    [] where.op = "=" /\ where.left.kind = "literal"
                      /\ where.right[1].kind = "column_ref" ->
         Lookup(table, where.right[1].name, {where.left.value})
    [] where.op = "in" /\ where.left.kind = "column_ref"
                       /\ \A e \in ToSet(where.right) : e.kind = "literal" ->
         Lookup(table, where.left.name, {e.value : e \in ToSet(where.right)})
    [] OTHER -> [columns |-> {}, ids |-> {}]

(* The rows an UPDATE, a DELETE or a SELECT looks at, and those it takes.  *)
Scanned(table, where) ==
  IF where = None \/ IndexPlan(table, where).columns = {}
  THEN DOMAIN table.rows
  ELSE IndexPlan(table, where).ids

Found(table, where) ==
  {i \in Scanned(table, where) \cap DOMAIN table.rows :
     where = None \/ EvaluateWhere(table.rows[i], where) = "true"}

KnowsWhere(schema, where) ==
  where = None \/ WhereColumns(where) \subseteq Columns(schema)

(* assertPrimaryKeyUnique(): keys[i] is the key of candidate i; replaced   *)
(* are the rows the candidates replace.                                    *)
(* Mistake: the candidates are compared with the stored rows only.         *)
KeysUniqueAmongStored(table, keys, replaced) ==
  \A i \in DOMAIN keys :
     keys[i] \in DOMAIN table.primaryIndex =>
       table.primaryIndex[keys[i]] \in replaced

KeysUnique(table, keys, replaced) ==
  /\ \A i, j \in DOMAIN keys : keys[i] = keys[j] => i = j
  /\ \A i \in DOMAIN keys :
        keys[i] \in DOMAIN table.primaryIndex =>
          table.primaryIndex[keys[i]] \in replaced

-----------------------------------------------------------------------------
(* The statements.                                                         *)

Init ==
  /\ tables = << >>
  /\ storedRows = 0
  /\ storedBytes = 0

CreateTable(name, schema) ==
  /\ name \notin DOMAIN tables
  /\ Cardinality(DOMAIN tables) < MaxTables
  /\ tables' = tables @@
       (name :> [schema       |-> schema,
                 rows         |-> << >>,
                 nextRowId    |-> 0,
                 primaryIndex |-> << >>,
                 rowBytes     |-> << >>,
                 indexes      |-> [c \in Indexed(schema) |-> << >>]])
  /\ UNCHANGED <<storedRows, storedBytes>>

(* The row an INSERT makes of values for the columns it lists.             *)
InsertedRow(schema, listed, values) ==
  [c \in Columns(schema) |->
     CoerceWriteValue(
       IF c \in ToSet(listed)
       THEN values[CHOOSE i \in DOMAIN listed : listed[i] = c]
       ELSE schema.column[c].default,
       schema.column[c], IsKey(schema, c))]

WithRows(table, rows) ==
  LET key == table.schema.primaryKey
      ids == DOMAIN rows
  IN  [table EXCEPT
         !.rows         = rows @@ @,
         !.nextRowId    = @ + Cardinality(ids),
         !.rowBytes     = [i \in ids |-> Bytes(rows[i])] @@ @,
         !.primaryIndex = IF key = None THEN @
           ELSE [v \in {rows[i][key] : i \in ids} |->
                   Max({i \in ids : rows[i][key] = v})] @@ @,
         !.indexes      = [c \in DOMAIN @ |->
                             AddEntries(@[c], Entries(rows, ids, c))]]

InsertRows(name, table, rows) ==
  LET bytes == MapThenSumSet(LAMBDA i : Bytes(rows[i]), DOMAIN rows)
      keys  == [i \in DOMAIN rows |-> rows[i][table.schema.primaryKey]]
  IN  /\ \A i \in DOMAIN rows, c \in Columns(table.schema) :
            rows[i][c] # Refused
      /\ table.schema.primaryKey # None => KeysUnique(table, keys, {})
      /\ storedRows + Cardinality(DOMAIN rows) <= MaxRows
      /\ storedBytes + bytes <= MaxBytes
      /\ table.nextRowId + Cardinality(DOMAIN rows) <= MaxRowId[name]
      /\ tables' = [tables EXCEPT ![name] = WithRows(table, rows)]
      /\ storedRows' = storedRows + Cardinality(DOMAIN rows)
      /\ storedBytes' = storedBytes + bytes

Insert(name, columns, values) ==
  /\ name \in DOMAIN tables
  /\ LET table  == tables[name]
         listed == IF columns = << >> THEN table.schema.columns ELSE columns
         first  == table.nextRowId
     IN  /\ IsInjective(listed)
         /\ ToSet(listed) \subseteq Columns(table.schema)
         /\ \A i \in DOMAIN values : Len(values[i]) = Len(listed)
         /\ InsertRows(name, table,
              [id \in first..first + Len(values) - 1 |->
                 InsertedRow(table.schema, listed, values[id - first + 1])])

(* The rows of ids with set's columns assigned.                            *)
Assigned(table, ids, set) ==
  [i \in ids |-> [c \in Columns(table.schema) |->
     IF c \in DOMAIN set
     THEN CoerceWriteValue(set[c], table.schema.column[c],
                           IsKey(table.schema, c))
     ELSE table.rows[i][c]]]

WithChanges(table, rows, set) ==
  LET key == table.schema.primaryKey
      ids == DOMAIN rows
      old == {table.rows[i][key] : i \in ids}
      kept == DOMAIN table.primaryIndex \ old
  IN  [table EXCEPT
         !.rows         = rows @@ @,
         !.rowBytes     = [i \in ids |-> Bytes(rows[i])] @@ @,
         !.primaryIndex = IF key \notin DOMAIN set THEN @
           ELSE [v \in {rows[i][key] : i \in ids} |->
                   CHOOSE i \in ids : rows[i][key] = v] @@ Restrict(@, kept),
         !.indexes      = [c \in DOMAIN @ |->
           IF c \notin DOMAIN set THEN @[c]
           ELSE AddEntries(RemoveEntries(@[c], Entries(table.rows, ids, c)),
                           Entries(rows, ids, c))]]

UpdateRows(name, table, rows, set) ==
  LET key   == table.schema.primaryKey
      delta == MapThenSumSet(LAMBDA i : Bytes(rows[i]), DOMAIN rows)
               - MapThenSumSet(LAMBDA i : table.rowBytes[i], DOMAIN rows)
  IN  /\ key \in DOMAIN set =>
           KeysUnique(table, [i \in DOMAIN rows |-> rows[i][key]], DOMAIN rows)
      /\ storedBytes + delta <= MaxBytes
      /\ tables' = [tables EXCEPT ![name] = WithChanges(table, rows, set)]
      /\ storedBytes' = storedBytes + delta
      /\ UNCHANGED storedRows

Update(name, set, where) ==
  /\ name \in DOMAIN tables
  /\ LET table == tables[name]
     IN  /\ KnowsWhere(table.schema, where)
         /\ DOMAIN set \subseteq Columns(table.schema)
         /\ \A c \in DOMAIN set :
               CoerceWriteValue(set[c], table.schema.column[c],
                                IsKey(table.schema, c)) # Refused
         /\ UpdateRows(name, table,
                       Assigned(table, Found(table, where), set), set)

(* deleteRow(), for the rows of ids.                                       *)
WithoutRows(table, ids) ==
  LET key == table.schema.primaryKey
  IN  [table EXCEPT
         !.rows         = Restrict(@, DOMAIN @ \ ids),
         !.rowBytes     = Restrict(@, DOMAIN @ \ ids),
         !.primaryIndex = IF key = None THEN @
           ELSE Restrict(@, DOMAIN @ \ {table.rows[i][key] : i \in ids}),
         !.indexes      = [c \in DOMAIN @ |->
           RemoveEntries(@[c], Entries(table.rows, ids, c))]]

Delete(name, where) ==
  /\ name \in DOMAIN tables
  /\ LET table == tables[name]
         ids   == Found(table, where)
     IN  /\ KnowsWhere(table.schema, where)
         /\ tables' = [tables EXCEPT ![name] = WithoutRows(table, ids)]
         /\ storedRows' = storedRows - Cardinality(ids)
         /\ storedBytes' =
              storedBytes - MapThenSumSet(LAMBDA i : table.rowBytes[i], ids)

DropTable(name) ==
  /\ name \in DOMAIN tables
  /\ tables' = Restrict(tables, DOMAIN tables \ {name})
  /\ storedRows' = storedRows - Cardinality(DOMAIN tables[name].rows)
  /\ storedBytes' = storedBytes
       - MapThenSumSet(LAMBDA i : tables[name].rowBytes[i],
                       DOMAIN tables[name].rowBytes)

Reset ==
  /\ tables' = << >>
  /\ storedRows' = 0
  /\ storedBytes' = 0

Next ==
  \/ \E name \in TableName :
       \/ \E schema \in Schemas[name] : CreateTable(name, schema)
       \/ \E i \in Inserts : Insert(name, i.columns, i.values)
       \/ \E u \in Updates : Update(name, u.set, u.where)
       \/ \E where \in Deletes : Delete(name, where)
       \/ DropTable(name)
  \/ Reset

Spec == Init /\ [][Next]_vars

-----------------------------------------------------------------------------
(* SELECT.                                                                 *)

OrderTypeRank(v) ==
  CASE v.type = "number" -> 0 [] v.type = "string" -> 1 [] OTHER -> 4

CompareOrderValues(a, b) ==
  CASE a = Null /\ b = Null -> 0
    [] a = Null /\ b # Null -> 1
    [] a # Null /\ b = Null -> -1
    [] OTHER ->
         IF OrderTypeRank(a) # OrderTypeRank(b)
         THEN OrderTypeRank(a) - OrderTypeRank(b)
         ELSE TextOrder(a.text, b.text)

(* Values a and b of rows i and j.                                         *)
CompareRows(a, b, i, j, desc) ==
  IF CompareOrderValues(a, b) = 0 THEN i - j
  ELSE IF desc /\ Null \notin {a, b} THEN -CompareOrderValues(a, b)
  ELSE CompareOrderValues(a, b)

(* Members of s after the first skip, take of them at most.                *)
Window(s, skip, take) ==
  SubSeq(s, skip + 1, Min({Len(s), skip + take}))

Ascending(ids) == SetToSortSeq(ids, LAMBDA i, j : i < j)

(* The rows SELECT takes, in its order.                                    *)
Selected(table, q, take) ==
  LET found == Ascending(Found(table, q.where))
      rows  == table.rows
  IN  CASE take = 0 -> << >>
        [] take > 0 /\ q.orderBy = None -> Window(found, q.skip, take)
        [] take > 0 /\ q.orderBy # None ->
             Window(TopK(found,
                         Min({Cardinality(DOMAIN rows), q.skip + take}),
                         [i, j \in DOMAIN rows |->
                            CompareRows(rows[i][q.orderBy], rows[j][q.orderBy],
                                        i, j, q.desc)]),
                    q.skip, take)

Answer(ids) ==
  IF Len(ids) > MaxResultRows THEN [fails |-> TRUE, rows |-> << >>]
  ELSE [fails |-> FALSE, rows |-> ids]

Select(table, q) ==
  Answer(Selected(table, q,
                  IF q.limit = None THEN MaxResultRows + 1 ELSE q.limit))

Knows(schema, q) ==
  /\ KnowsWhere(schema, q.where)
  /\ q.orderBy \in Columns(schema) \cup {None}

-----------------------------------------------------------------------------
(* Properties.                                                             *)

(***************************************************************************)
(* After any sequence of statements the rows obey their columns (a number  *)
(* or NULL in a number column, no NULL in a key or a NOT NULL column, no   *)
(* key twice), every index holds each of its rows once under the row's own *)
(* value and nothing else, the primary index is the inverse of the keys,   *)
(* and the counts of rows and bytes are exact and within the limits: an    *)
(* index that misses a row hides it from every query that uses it, a       *)
(* stale key refuses an INSERT for ever, and a byte lost per UPDATE or     *)
(* DROP ends in "SQL storage limit exceeded".                              *)
(***************************************************************************)
RowsLegal(table) ==
  LET schema == table.schema
  IN  \A i \in DOMAIN table.rows :
        /\ i \in 0..table.nextRowId - 1
        /\ DOMAIN table.rows[i] = Columns(schema)
        /\ \A c \in Columns(schema) :
              IF table.rows[i][c] = Null
              THEN schema.column[c].nullable /\ ~IsKey(schema, c)
              ELSE schema.column[c].type \in {"any", table.rows[i][c].type}

IndexesMirror(table) ==
  /\ DOMAIN table.indexes = Indexed(table.schema)
  /\ \A c \in DOMAIN table.indexes :
        LET index == table.indexes[c]
            values == {table.rows[i][c] : i \in DOMAIN table.rows}
        IN  /\ DOMAIN index = {v \in values : v.type # "json"}
            /\ \A v \in DOMAIN index :
                  index[v] = {i \in DOMAIN table.rows : table.rows[i][c] = v}

KeysMirror(table) ==
  LET key == table.schema.primaryKey
  IN  IF key = None THEN table.primaryIndex = << >>
      ELSE /\ \A i, j \in DOMAIN table.rows :
                 table.rows[i][key] = table.rows[j][key] => i = j
           /\ {<<v, table.primaryIndex[v]>> : v \in DOMAIN table.primaryIndex}
                = {<<table.rows[i][key], i>> : i \in DOMAIN table.rows}

BytesMirror(table) ==
  table.rowBytes = [i \in DOMAIN table.rows |-> Bytes(table.rows[i])]

TablesWhole ==
  /\ DOMAIN tables \subseteq TableName
  /\ Cardinality(DOMAIN tables) <= MaxTables
  /\ \A name \in DOMAIN tables :
        /\ tables[name].schema \in Schemas[name]
        /\ RowsLegal(tables[name])
        /\ IndexesMirror(tables[name])
        /\ KeysMirror(tables[name])
        /\ BytesMirror(tables[name])
  /\ storedRows =
       MapThenSumSet(LAMBDA n : Cardinality(DOMAIN tables[n].rows),
                     DOMAIN tables)
  /\ storedBytes =
       MapThenSumSet(
         LAMBDA n : MapThenSumSet(LAMBDA i : Bytes(tables[n].rows[i]),
                                  DOMAIN tables[n].rows),
         DOMAIN tables)
  /\ storedRows \in 0..MaxRows
  /\ storedBytes \in 0..MaxBytes

(* A pattern covers a text when it can be laid over it, "_" over one       *)
(* character and "%" over any run.  Reach[n] are the lengths of text that  *)
(* the first n characters of the pattern can cover.                        *)
Covers(text, pattern) ==
  LET Reach[n \in 0..Len(pattern)] ==
        CASE n = 0 -> {0}
          [] n > 0 /\ pattern[n] = AnyRun ->
               {i \in 0..Len(text) : \E h \in Reach[n - 1] : h <= i}
          [] n > 0 /\ pattern[n] # AnyRun ->
               {i \in 1..Len(text) :
                  /\ i - 1 \in Reach[n - 1]
                  /\ pattern[n] \in {AnyOne, text[i]}}
  IN  Len(text) \in Reach[Len(pattern)]

(***************************************************************************)
(* SELECT, with its indexes and its heap of the first rows, returns what   *)
(* README.md:194-215 describes of a scan of the whole table: the rows for  *)
(* which WHERE is true in three-valued logic (false 0, unknown 1, true 2;  *)
(* AND the less, OR the greater) and LIKE as Covers, ordered by type and   *)
(* then value, NULL last both ways, equal keys in the order of their rows, *)
(* cut to LIMIT rows after OFFSET; and it fails rather than return a part  *)
(* of them.  The texts have no "%" in them: see README.                    *)
(***************************************************************************)
Sides(row, where) ==
  {Evaluated(row, where.left), Evaluated(row, where.right[1])}

RECURSIVE Certainty(_, _)
Certainty(row, where) ==
  CASE where.op = "and" ->
         Min({Certainty(row, where.left), Certainty(row, where.right)})
    [] where.op = "or" ->
         Max({Certainty(row, where.left), Certainty(row, where.right)})
    [] where.op = "not" -> 2 - Certainty(row, where.clause)
    [] where.op = "like" /\ Null \notin Sides(row, where) ->
         IF Covers(ToLower(Evaluated(row, where.left).text),
                   ToLower(Evaluated(row, where.right[1]).text))
         THEN 2 ELSE 0
    [] OTHER -> CASE EvaluateWhere(row, where) = "true"    -> 2
                  [] EvaluateWhere(row, where) = "unknown" -> 1
                  [] EvaluateWhere(row, where) = "false"   -> 0

TypeOrder == <<"number", "string", "boolean", "array", "json">>
Rank(type) == CHOOSE n \in DOMAIN TypeOrder : TypeOrder[n] = type

SortsBefore(a, b) ==
  \/ Rank(a.type) < Rank(b.type)
  \/ a.type = b.type /\ TextOrder(a.text, b.text) < 0

ComesBefore(table, q, i, j) ==
  LET a == IF q.orderBy = None THEN Null ELSE table.rows[i][q.orderBy]
      b == IF q.orderBy = None THEN Null ELSE table.rows[j][q.orderBy]
  IN  CASE a = b                  -> i < j
        [] Null \in {a, b} /\ a # b -> b = Null
        [] OTHER -> IF q.desc THEN SortsBefore(b, a) ELSE SortsBefore(a, b)

Expected(table, q) ==
  LET ids == {i \in DOMAIN table.rows :
                q.where = None \/ Certainty(table.rows[i], q.where) = 2}
      all == SetToSortSeq(ids, LAMBDA i, j : ComesBefore(table, q, i, j))
  IN  Answer(Window(all, q.skip,
                    IF q.limit = None THEN Cardinality(ids) ELSE q.limit))

SelectRight ==
  \A name \in DOMAIN tables : \A q \in Queries :
     Knows(tables[name].schema, q) =>
       Select(tables[name], q) = Expected(tables[name], q)

=============================================================================
