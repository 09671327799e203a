-------------------------------- MODULE Dao ---------------------------------
(***************************************************************************)
(* A service that uses the data access object the ddl tool generated for   *)
(* one table (daoimpl.go.tmpl, dao.sql.tmpl, query.go, templateutils),     *)
(* while the tool goes on changing the database.  The data of a caller is  *)
(* "nil", "zero", "set", "odd" (a text with quotes or backslashes, a time  *)
(* of another zone than the database's) or "wide" (more than the column    *)
(* holds); a cell is "null", one of these, what a default gives, or        *)
(* "other", something else that is not null.                               *)
(***************************************************************************)
EXTENDS Ddl

CONSTANTS
    T,          \* the table
    Wheres,     \* the conditions that callers give, and their parts
    MaxId,      \* bound of the model on ids
    MaxWrites,  \* bound of the model on statements of the service
    Sizes       \* page sizes; a page of size 0 panics in NewPageRet

ASSUME DaoAssumption ==
    /\ T \in Table
    /\ \A q \in Wheres : q.sym \in {"and", "or"} => q.l \in Wheres /\ q.r \in Wheres
    /\ MaxId \in Nat /\ MaxWrites \in Nat /\ Sizes \subseteq Nat \ {0}
    /\ \A p \in Projects : p.tables[T] # None => DOMAIN p.tables[T].rows \subseteq 0..MaxId

VARIABLES
    last,       \* the last operation, with its data and the rows before it
    writes,     \* how many there were
    reader      \* a caller that reads the table page by page

vars == <<structs, tables, files, tool, clean, origin, counts, last, writes, reader>>

Nothing == [op |-> "none"]
NoReader == [pc |-> "idle", size |-> 0, offset |-> 0, seen |-> {}, first |-> {}, kept |-> TRUE]
Rows == tables[T].rows

-----------------------------------------------------------------------------
(* Conditions (query.go).                                                   *)

Nowhere == [sym |-> "none"]
\* A condition as MySQL evaluates Sql(): comparisons with null do not hold.
Holds(q, row) ==
    LET holds[c \in Wheres] ==
            CASE c.sym = "and" -> holds[c.l] /\ holds[c.r]
              [] c.sym = "or"  -> holds[c.l] \/ holds[c.r]
              [] c.sym = "is"  -> row[c.col] = "null"
              [] c.sym = "is not" -> row[c.col] # "null"
              [] c.sym \in {"=", "in"} -> row[c.col] # "null" /\ row[c.col] \in c.vals
              [] c.sym = "!=" -> row[c.col] # "null" /\ row[c.col] \notin c.vals
    IN holds[q]
\* A statement with an unknown column or an empty list is none.
SqlOk(q, columns) ==
    LET ok[c \in Wheres] ==
            IF c.sym \in {"and", "or"} THEN ok[c.l] /\ ok[c.r]
            ELSE c.col \in columns /\ ~(c.sym = "in" /\ c.vals = {})
    IN q = Nowhere \/ ok[q]

-----------------------------------------------------------------------------
(* The statements (dao.sql.tmpl): what they send for a column, whose field  *)
(* may go by another name.                                                  *)

File == files[T]["sql"]
Field(n) == File.fields[n]
Pk == CHOOSE n \in File.key : TRUE
AutoSet(f) == f.default = "now"
InsertColumns == {n \in DOMAIN File.fields : ~AutoSet(Field(n))}
UpdateColumns == {n \in InsertColumns : ~Field(n).pk}
Timed(f) == f.type \in {"time.Time", "bool"}     \* the types the templates know
Struct == FlatEmbed(structs[T].fields)
Names(fs) == {f.name : f \in fs}

\* Named parameters (by a column's name) carry the data; the zero time is no date.
Sent(f, d) == CASE d = "nil" -> "null" [] d = "zero" /\ f.type = "time.Time" -> "no date"
                [] OTHER -> d
Named(columns, data) == [n \in columns |-> Sent(Field(n), data[n])]
\* '{{.X}}' escapes nothing, and FormatTime drops the zone.
Printed(d) == CASE d = "nil" -> "null" [] d = "odd" -> "other" [] OTHER -> d
Given(n, data) == data[Field(n).name]
\* isNil is true of every value, a nil pointer in an interface as well.
InsertClause(columns, data) ==
    [n \in columns |-> IF Timed(Field(n)) THEN Printed(Given(n, data)) ELSE "null"]
\* FormatTime and BoolToInt of a nil pointer fail, which only the types that the
\* file knows to be pointers are spared.
Broken(columns, data) == \E n \in columns : Timed(Field(n)) /\ ~Field(n).ptr /\ Given(n, data) = "nil"
\* {{if}}: a pointer that is not nil holds, and so does every time.Time.
Pointer(n) == \E f \in Struct : f.name = Field(n).name /\ f.ptr
True(n, data) == \/ Given(n, data) \in {"set", "odd", "wide"}
                 \/ Given(n, data) = "zero" /\ (Pointer(n) \/ Field(n).type = "time.Time")
MutNoneZeroSet(data) == [n \in UpdateColumns |-> Printed(Given(n, data))]
NoneZeroSet(data) == [n \in {m \in UpdateColumns : True(m, data)} |-> Printed(Given(n, data))]

\* The database (in its strict mode, the default) refuses unknown columns, null for
\* NOT NULL, what a column cannot hold, and a row that lacks a column without a
\* default.
Known(t, vals) == DOMAIN vals \subseteq DOMAIN t.cols
Takes(t, vals) == /\ Known(t, vals)
                  /\ \A n \in DOMAIN vals : /\ vals[n] \notin {"wide", "no date"}
                                            /\ vals[n] = "null" => t.cols[n].null \/ t.cols[n].auto
Complete(t, vals) == \A n \in DOMAIN t.cols \ DOMAIN vals :
    t.cols[n].null \/ t.cols[n].auto \/ t.cols[n].default # "none"
Row(t, vals) == [n \in DOMAIN t.cols |-> IF n \in t.pk THEN "set"
                                         ELSE IF n \in DOMAIN vals THEN vals[n] ELSE Fill(t.cols[n])]
Overwrite(row, vals) == [n \in DOMAIN row |-> IF n \in DOMAIN vals THEN vals[n] ELSE row[n]]
NextId == Max({0} \cup DOMAIN Rows) + 1

\* Rows with one key are one.  Rows that agree on a unique index repeat each other;
\* null never does, and bound of the model: two times of CURRENT_TIMESTAMP differ,
\* and so do two cells "other".
Uniques(t) == {x \in t.indexes : x.unique /\ ToSet(x.cols) \cap t.pk = {}}
Agree(x, row, other) ==
    \A n \in ToSet(x.cols) : row[n] = other[n] /\ row[n] \notin {"null", "now", "other"}

Bad == [ok |-> FALSE, rows |-> Rows]
Good(rows) == [ok |-> TRUE, rows |-> rows]
\* An auto_increment key of 0 or null is the next one.
KeyFor(vals, id) ==
    IF tables[T].cols[Pk].auto /\ (id = 0 \/ vals[Pk] = "null") THEN NextId ELSE id
Repeated(vals, key) ==
    IF key \in DOMAIN Rows THEN {key}
    ELSE {r \in DOMAIN Rows : \E x \in Uniques(tables[T]) : Agree(x, Rows[r], Row(tables[T], vals))}
Insert(vals, id) ==
    LET t == tables[T]
        key == KeyFor(vals, id)
    IN IF ~Takes(t, vals) \/ ~Complete(t, vals) \/ Repeated(vals, key) # {} THEN Bad
       ELSE Good([r \in DOMAIN Rows \cup {key} |-> IF r = key THEN Row(t, vals) ELSE Rows[r]])
Updated(ids, vals) == [r \in DOMAIN Rows |-> IF r \in ids THEN Overwrite(Rows[r], vals) ELSE Rows[r]]
Clash(ids, vals) ==
    LET rows == Updated(ids, vals)
    IN \E x \in Uniques(tables[T]) : /\ ToSet(x.cols) \cap DOMAIN vals # {}
                                     /\ \E r \in ids \cap DOMAIN Rows : \E s \in DOMAIN Rows \ {r} :
                                            Agree(x, rows[r], rows[s])
Update(ids, vals) ==
    IF \/ DOMAIN vals = {} \/ ~Known(tables[T], vals)
       \/ ids \cap DOMAIN Rows # {} /\ ~Takes(tables[T], vals)
       \/ Clash(ids, vals)
    THEN Bad ELSE Good(Updated(ids, vals))
\* ON DUPLICATE KEY UPDATE, of one of the rows repeated.
Upsert(vals, id, set) ==
    LET repeated == Repeated(vals, KeyFor(vals, id)) IN
    IF DOMAIN set = {} \/ ~Known(tables[T], set) THEN {Bad}
    ELSE IF repeated = {} \/ ~Takes(tables[T], vals) \/ ~Complete(tables[T], vals) THEN {Insert(vals, id)}
    ELSE {Update({r}, set) : r \in repeated}
Where(q) == {r \in DOMAIN Rows : Holds(q, Rows[r])}

-----------------------------------------------------------------------------
(* The operations (daoimpl.go.tmpl): id and data are the struct's values.   *)

ById == {"Insert", "Upsert", "UpdateNoneZero"}
ByWhere == {"UpdateMany", "UpdateManyNoneZero", "DeleteMany"}
ByName == {"Insert", "Upsert", "Update"}
NoneZero == {"UpsertNoneZero", "UpdateNoneZero", "UpdateManyNoneZero"}

\* sqlx looks a column's name up in the struct, a template that of its field.
Stale(op) ==
    CASE op \in ByName -> ~(InsertColumns \subseteq Names(Struct))
      [] op = "UpsertNoneZero" -> ~({Field(n).name : n \in InsertColumns} \subseteq Names(Struct))
      [] op = "UpdateNoneZero" -> ~({Field(n).name : n \in UpdateColumns \cup {Pk}} \subseteq Names(Struct))
      [] op \in {"UpdateMany", "UpdateManyNoneZero"} ->
             ~({Field(n).name : n \in UpdateColumns} \subseteq Names(Struct))
      [] op = "DeleteMany" -> FALSE
Results(op, id, data, q) ==
    CASE op = "Insert" -> {Insert(Named(InsertColumns, data), id)}
      [] op = "Upsert" -> Upsert(Named(InsertColumns, data), id, Named(UpdateColumns, data))
      \* InsertClause gives no id, so that no key is ever repeated
      [] op = "UpsertNoneZero" ->
             IF Broken(InsertColumns, data) THEN {Bad}
             ELSE Upsert(InsertClause(InsertColumns, data), 0, NoneZeroSet(data))
      [] op = "Update" -> {Bad}      \* n + 1 placeholders, n arguments
      [] op = "UpdateNoneZero" -> {Update({id}, NoneZeroSet(data))}
      [] op = "UpdateMany" ->
             {IF Broken(UpdateColumns, data) THEN Bad ELSE Update(Where(q), InsertClause(UpdateColumns, data))}
      [] op = "UpdateManyNoneZero" -> {Update(Where(q), NoneZeroSet(data))}
      [] op = "DeleteMany" -> {Good([r \in DOMAIN Rows \ Where(q) |-> Rows[r]])}

\* An odd text that is printed ends its literal, or alters it: the statement may
\* fail, or set other columns than it was to, of other rows.  Bound of the model:
\* it leaves keys as they are.
Garbled(op, data, q) ==
    LET odd[c \in Wheres] == IF c.sym \in {"and", "or"} THEN odd[c.l] \/ odd[c.r] ELSE "odd" \in c.vals
    IN \/ op \in NoneZero /\ \E n \in UpdateColumns : ~Timed(Field(n)) /\ Given(n, data) = "odd"
       \/ q # Nowhere /\ odd[q]
Distorted(rows) ==
    {[r \in DOMAIN rows |-> [n \in DOMAIN rows[r] |-> IF r \in some /\ n \in columns THEN "other" ELSE rows[r][n]]] :
        some \in SUBSET DOMAIN rows, columns \in SUBSET (DOMAIN tables[T].cols \ tables[T].pk)}
Outcomes(op, id, data, q) ==
    IF Stale(op) \/ ~SqlOk(q, DOMAIN tables[T].cols) THEN {Bad}
    ELSE IF ~Garbled(op, data, q) THEN Results(op, id, data, q)
    ELSE IF op = "DeleteMany" THEN {Bad} \cup {Good([r \in some |-> Rows[r]]) : some \in SUBSET DOMAIN Rows}
    ELSE {Bad} \cup UNION {{Good(rows) : rows \in Distorted(res.rows)} : res \in Results(op, id, data, q)}

\* The service compiles only with all files.  Bounds of the model: the key of the
\* table is the statements', and not a time; a field keeps its type.
Usable == /\ tables[T] # None /\ Written(structs[T])
          /\ \A f \in ToSet(DaoFiles) : files[T][f] \notin {None, Torn}
          /\ tables[T].pk = File.key
          /\ \E n \in InsertColumns : File.key = {n} /\ ~Timed(Field(n))
          /\ \A n \in DOMAIN File.fields, f \in Struct : f.name = Field(n).name => f.type = Field(n).type
\* Data that a field can be, and, for a field that no statement looks at, is set.
Fits(f, d) == /\ d = "nil" => f.ptr
              /\ d = "odd" => f.type \in {"string", "time.Time"}
              /\ d = "wide" => ~Timed(f)
              /\ d # "set" => /\ ~f.pk
                              /\ \E n \in InsertColumns \ File.key : f.name \in {n, Field(n).name}
Datas == {d \in [Names(Struct) -> {"nil", "zero", "set", "odd", "wide"}] : \A f \in Struct : Fits(f, d[f.name])}
Unused == [m \in Names(Struct) |-> "set"]

Write(op, id, data, q) ==
    /\ writes' = writes + 1
    /\ \E res \in Outcomes(op, id, data, q) :
       /\ DOMAIN res.rows \subseteq 0..MaxId
       /\ tables' = [tables EXCEPT ![T].rows = res.rows]
       /\ last' = [op |-> op, id |-> id, data |-> data, where |-> q, before |-> Rows, ok |-> res.ok]
       /\ reader' = [reader EXCEPT !.kept = @ /\ DOMAIN Rows \subseteq DOMAIN res.rows]
    /\ UNCHANGED <<structs, files, tool, clean, origin, counts>>

\* PageMany: the page is selected, in the order of the ids, and the rows are
\* counted by a second statement.  The caller goes on while HasNext.
Page(offset, size) == {r \in DOMAIN Rows :
    LET before == Cardinality({k \in DOMAIN Rows : k < r}) IN offset <= before /\ before < offset + size}
Open(size) == /\ Usable /\ reader = NoReader /\ tool = Idle
              /\ reader' = [NoReader EXCEPT !.pc = "select", !.size = size, !.first = DOMAIN Rows]
              /\ last' = Nothing
              /\ UNCHANGED <<ddlVars, writes>>
SelectPage == /\ reader.pc = "select"
              /\ reader' = [reader EXCEPT !.pc = "count", !.seen = @ \cup Page(reader.offset, reader.size)]
              /\ last' = Nothing
              /\ UNCHANGED <<ddlVars, writes>>
PageNo(offset, size) == offset \div size + 1
MutHasNext(offset, size) == Cardinality(DOMAIN Rows) \div size > PageNo(offset, size)
HasNext(offset, size) ==
    (Cardinality(DOMAIN Rows) + size - 1) \div size > PageNo(offset, size)
CountMany == /\ reader.pc = "count"
             /\ reader' = IF HasNext(reader.offset, reader.size)
                          THEN [reader EXCEPT !.pc = "select", !.offset = @ + reader.size]
                          ELSE [reader EXCEPT !.pc = "done"]
             /\ last' = Nothing
             /\ UNCHANGED <<ddlVars, writes>>

\* Bounds of the model: the service writes while no tool runs or between two
\* of its statements (what it does otherwise touches files), and nobody migrates
\* while a reader reads, to whose rows a migration does nothing.
Serve == \/ /\ Usable /\ writes < MaxWrites /\ tool.pc \in {"idle", "column"}
            /\ \/ \E data \in Datas :
                     \/ \E op \in ById, id \in 0..MaxId : Write(op, id, data, Nowhere)
                     \/ Write("UpsertNoneZero", 0, data, Nowhere)
                     \/ \E op \in {"UpdateMany", "UpdateManyNoneZero"}, q \in Wheres : Write(op, 0, data, q)
               \/ Write("Update", 0, Unused, Nowhere)
               \/ \E q \in Wheres : Write("DeleteMany", 0, Unused, q)
         \/ \E size \in Sizes : Open(size)
         \/ SelectPage
         \/ CountMany
Migrate == /\ reader.pc \in {"idle", "done"}
           /\ last' = Nothing /\ reader' = NoReader
           /\ Tool \/ Outside
           /\ UNCHANGED writes

DaoInit == Init /\ last = Nothing /\ writes = 0 /\ reader = NoReader
Next == Serve \/ Migrate
Spec == DaoInit /\ [][Next]_vars

-----------------------------------------------------------------------------
(* Properties.                                                              *)

\* The table is as the struct has it; the statements may be older than both.
Agreed == tables[T].cols = NewTableFromStruct(structs[T]).cols
Outdated == \E n \in InsertColumns : n \notin DOMAIN tables[T].cols \/ Field(n).name # n
RefusesNull(columns) == \E n \in columns : LET c == tables[T].cols[n] IN
                            ~Timed(Field(n)) /\ ~c.null /\ ~c.auto
\* A unique index the operation may run into.
Contested == \E x \in Uniques(tables[T]) :
    IF last.op \in {"Insert", "Upsert", "UpsertNoneZero"} THEN DOMAIN last.before # {}
    ELSE \E n \in UpdateColumns \cap ToSet(x.cols) : Given(n, last.data) # "nil"

\* While the table is as the struct has it, an operation fails only
\*   - for a key that is there, or a unique index;
\*   - for a condition with an empty list, or data with nothing to set;
\*   - for data the database refuses: what a column cannot hold, the zero time;
\*   - when statements are run that are older: a column they name is gone or has
\*     another name, one they lack needs a value, a time is a pointer now;
\*   - by a mistake of the templates: Update mixes two kinds of placeholders, isNil
\*     gives null to columns that refuse it, an odd text is printed as it is.
DaoErrorsKnown ==
    (last.op # "none" /\ Agreed /\ ~last.ok) =>
        \/ Outdated
        \/ last.op = "Update"
        \/ last.op = "Insert" /\ last.id \in DOMAIN last.before
        \/ Contested
        \/ ~SqlOk(last.where, DOMAIN tables[T].cols)
        \/ last.op \in NoneZero /\ \A n \in UpdateColumns : ~True(n, last.data)
        \/ UpdateColumns = {}
        \/ last.op # "DeleteMany" /\ \E n \in InsertColumns : Given(n, last.data) = "wide"
        \/ /\ last.op \in ByName
           /\ \E n \in InsertColumns : Given(n, last.data) = "zero" /\ Field(n).type = "time.Time"
        \/ /\ last.op \in {"Insert", "Upsert", "UpsertNoneZero"}
           /\ \E n \in DOMAIN tables[T].cols \ InsertColumns :
                  LET c == tables[T].cols[n] IN ~c.null /\ ~c.auto /\ c.default = "none"
        \/ last.op \in {"UpdateMany", "UpsertNoneZero"} /\ Broken(InsertColumns, last.data)
        \/ last.op = "UpdateMany" /\ RefusesNull(UpdateColumns)
        \/ last.op = "UpsertNoneZero" /\ RefusesNull(InsertColumns)
        \/ Garbled(last.op, last.data, last.where)

\* The rows that an operation is about: one for an upsert, which may be any that has
\* the values of a unique index.
Counted == tables[T].cols[Pk].auto /\ (last.id = 0 \/ last.op = "UpsertNoneZero" \/ last.data[Pk] = "nil")
Shares(r) == \E x \in Uniques(tables[T]) : \A n \in InsertColumns \cap ToSet(x.cols) :
    last.before[r][n] = IF last.op \in ByName THEN last.data[n] ELSE Given(n, last.data)
About(rows) ==
    LET before == DOMAIN last.before
        added == DOMAIN Rows \ before
    IN CASE last.op \in ByWhere -> rows = {r \in before : Holds(last.where, last.before[r])}
         [] last.op = "UpdateNoneZero" -> rows = {last.id} \cap before
         [] last.op = "Insert" -> rows = added /\ Cardinality(added) = 1
         [] last.op \in {"Upsert", "UpsertNoneZero"} ->
                \E r \in DOMAIN Rows : /\ rows = {r} /\ added \subseteq rows
                                       /\ IF last.id \in before /\ ~Counted THEN r = last.id
                                          ELSE r \in before => Shares(r)
\* What has become of the cell of row r and column n, which a statement writes.
Arrived(r, n) ==
    LET cell == Rows[r][n]
        d == IF last.op \in ByName THEN last.data[n] ELSE Given(n, last.data)
    IN /\ d \in {"set", "odd"} =>
              \/ cell = IF last.op \in ByName THEN d ELSE Printed(d)
              \/ last.op \in {"UpdateMany", "UpsertNoneZero"} /\ ~Timed(Field(n))
       /\ last.op \in NoneZero /\ ~True(n, last.data) /\ r \in DOMAIN last.before =>
              cell = last.before[r][n]
\* A write that succeeds does to the rows it is about what was asked, and nothing
\* to others, whatever the statements know of the table: only a delete takes rows
\* away; a column they do not write keeps its value; NoneZero leaves the columns of
\* zero values alone, but for times, whose zero value counts as set; a value that
\* is set arrives.  But isNil makes it null (and UpsertNoneZero, whose key is null
\* too, finds a row only by a unique index), and what the templates print loses the
\* zone of a time and is anybody's guess with an odd text.
WritesAsAsked ==
    (last.op # "none" /\ last.ok /\ ~Garbled(last.op, last.data, last.where)) =>
        \E rows \in SUBSET (DOMAIN last.before \cup DOMAIN Rows) :
            /\ About(rows)
            /\ DOMAIN Rows = IF last.op = "DeleteMany" THEN DOMAIN last.before \ rows
                             ELSE DOMAIN last.before \cup rows
            /\ \A r \in DOMAIN Rows \ rows : Rows[r] = last.before[r]
            /\ \A r \in DOMAIN Rows \cap rows : \A n \in DOMAIN Rows[r] \ tables[T].pk :
                   IF n \in UpdateColumns THEN Arrived(r, n)
                   ELSE r \in DOMAIN last.before => Rows[r][n] = last.before[r][n]

\* A caller that reads page after page while HasNext sees every row that was
\* there when it began, if none is deleted meanwhile; rows may come and columns
\* change, between two pages and between a page and its count.
ReadAll == (reader.pc = "done" /\ reader.kept) => reader.first \subseteq reader.seen
=============================================================================
