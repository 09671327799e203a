-------------------------------- MODULE Ddl ---------------------------------
(***************************************************************************)
(* The ddl tool (src/ddl): it brings the tables of a database in line with *)
(* the structs of the domain directory, or writes structs for the tables,  *)
(* and generates the data access files of each.  Every statement and every *)
(* file is a step: it may fail, and the tool may be killed between two.    *)
(* A table and its struct go by one name, which comes back from either.    *)
(***************************************************************************)
EXTENDS Naturals, Sequences, FiniteSets, FiniteSetsExt, SequencesExt

CONSTANTS
    Table,       \* the names of tables
    Snake,       \* the name that ToSnake makes of what ToCamel makes of a column's
                 \* name: not always the same, for address1 comes back as address_1
    Drafts,      \* what a developer writes for a table: structs, as their fields
    Base,        \* the fields of a struct that drafts may embed
    Projects,    \* the structs and tables the tool may find at first
    MaxEdits,    \* bounds of the model on the developer's changes, on the runs
    MaxRuns,     \* of the tool, and on its failures
    MaxFaults

VARIABLES
    structs,     \* the domain file of each table: None, Torn or the fields
    tables,      \* the database: None or columns, primary key, indexes, rows
    files,       \* the three data access files of each table
    tool,        \* the running tool
    clean,       \* history: the mode of the last run if none of its statements or
                 \* files failed and nobody else has changed anything since it
                 \* began, or "no"
    origin,      \* history: for each struct that a reverse run wrote, and nobody
                 \* changed since, the table it was written from; else None
    counts       \* how many changes, runs and failures there were

None == [is |-> "none"]
Torn == [is |-> "torn"]                  \* created, and never written
Source(fields) == [is |-> "struct", fields |-> fields]
DaoFiles == <<"dao", "daoimpl", "sql">>
\* Directories, tables and columns are walked in an order nothing depends on:
\* the tables todo and the columns to alter are sets.
Idle == [pc |-> "idle", mode |-> "none", dao |-> FALSE, todo |-> {}, defs |-> << >>,
         exist |-> {}, alter |-> {}, left |-> << >>]

ddlVars == <<structs, tables, files, tool, clean, origin, counts>>

-----------------------------------------------------------------------------
(* Structs to tables and back (table.go, ddlast/ast.go).                    *)

ToColumnType(go) ==
    CASE go \in {"int", "int16", "int32"} -> "int"  [] go = "int64" -> "bigint"
      [] go = "float32" -> "float"                  [] go = "float64" -> "double"
      [] go = "string" -> "varchar"                 [] go \in {"bool", "int8"} -> "tinyint"
      [] go = "time.Time" -> "datetime"             [] OTHER -> "panic"
ToGoType(col) ==
    CASE col \in {"int", "int unsigned"} -> "int"   [] col = "bigint" -> "int64"
      [] col \in {"float", "decimal"} -> "float32"  [] col = "double" -> "float64"
      [] col \in {"varchar", "text", "mediumtext"} -> "string"
      [] col = "tinyint" -> "int8"                  [] col = "datetime" -> "time.Time"
      [] OTHER -> "panic"

\* Fields of an embedded struct of this package follow the struct's own, which
\* win.  A field this struct itself embeds keeps a type no column has.
FlatEmbed(fields) ==
    LET own == {f \in ToSet(fields) : f.type # "embed"} IN
    IF own = ToSet(fields) THEN own
    ELSE own \cup {f \in Base : \A g \in own : g.name # f.name}
\* The first field with the flag pk, own fields first, gives the key.
KeyOf(fields) ==
    LET own == {i \in DOMAIN fields : fields[i].type # "embed" /\ fields[i].pk}
        keys == {f \in FlatEmbed(fields) : f.pk}
    IN IF own # {} THEN {fields[Min(own)].name}
       ELSE IF keys # {} THEN {(CHOOSE f \in keys : TRUE).name} ELSE {}

\* A tag is cut at every colon, and a default value may have one.  (The default
\* of a field or column is "none", "now", for CURRENT_TIMESTAMP, an "expression",
\* the text of one, or else a value.)
Parsed(default) == IF default = "with colon" THEN "cut" ELSE default
MutToColumn(f) == [type |-> IF f.col # "" THEN f.col ELSE ToColumnType(f.type),
                   null |-> f.null, auto |-> f.auto, default |-> Parsed(f.default)]
ToColumn(f) == [type |-> IF f.col # "" THEN f.col ELSE ToColumnType(f.type),
                null |-> f.null \/ f.ptr, auto |-> f.auto, default |-> Parsed(f.default)]

\* Of several clauses of a kind in one tag the last counts.
Clauses(f, unique) == {k \in DOMAIN f.idx : f.idx[k].unique = unique}
IndexItems(fields, unique) ==
    LET Counts(f) == f.idx[Max(Clauses(f, unique))]
    IN {[name |-> Counts(f).name, order |-> Counts(f).order, col |-> f.name, desc |-> Counts(f).desc] :
            f \in {g \in fields : Clauses(g, unique) # {}}}
Sorted(items) == CHOOSE s \in [1..Cardinality(items) -> items] :
    \A i, j \in DOMAIN s : i < j => s[i] # s[j] /\ s[i].order <= s[j].order
IndexNamed(fields, name, unique) ==
    LET items == {j \in IndexItems(fields, unique) : j.name = name}
        sorted == Sorted(items)
    IN [name |-> name, unique |-> unique, cols |-> [k \in DOMAIN sorted |-> sorted[k].col],
        desc |-> {j.col : j \in {i \in items : i.desc}}]
Indexes(fields) ==
    UNION {{IndexNamed(fields, it.name, u) : it \in IndexItems(fields, u)} : u \in BOOLEAN}

NewTableFromStruct(struct) ==
    LET fields == FlatEmbed(struct.fields)
        Named(n) == CHOOSE f \in fields : f.name = n
    IN [is |-> "table",
        cols |-> [n \in {f.name : f \in fields} |-> ToColumn(Named(n))],
        pk |-> KeyOf(struct.fields), indexes |-> Indexes(fields), rows |-> << >>]

\* A default is quoted unless it is CURRENT_TIMESTAMP or in parentheses, which
\* MySQL does not show around a function such as uuid().
Quoted(default) == IF default = "expression" THEN "text of an expression" ELSE default
\* The field of a column, with every index the column is in.  A descending column
\* of an index is shown by a D, where a B is looked for, and becomes ascending.
NewFieldFromColumn(t, n) ==
    LET in == SetToSeq({x \in t.indexes : n \in ToSet(x.cols)})
    IN [name |-> Snake[n], type |-> ToGoType(t.cols[n].type), ptr |-> t.cols[n].null,
        col |-> t.cols[n].type, pk |-> n \in t.pk, auto |-> t.cols[n].auto, null |-> FALSE,
        default |-> Quoted(t.cols[n].default),
        idx |-> [i \in DOMAIN in |-> [name |-> in[i].name, unique |-> in[i].unique, desc |-> FALSE,
                     order |-> CHOOSE k \in DOMAIN in[i].cols : in[i].cols[k] = n]]]
StructOf(t) == LET names == SetToSeq(DOMAIN t.cols)
               IN [i \in DOMAIN names |-> NewFieldFromColumn(t, names[i])]
\* What the data access files are generated from: the columns, each with its field,
\* and the key; of the columns of a key the first counts.
OfStruct(struct) ==
    LET fields == FlatEmbed(struct.fields)
    IN [table |-> NewTableFromStruct(struct), meta |-> struct.fields, key |-> KeyOf(struct.fields),
        fields |-> [n \in {f.name : f \in fields} |-> CHOOSE f \in fields : f.name = n]]
OfTable(t) ==
    [table |-> [t EXCEPT !.rows = << >>], meta |-> StructOf(t),
     key |-> IF t.pk = {} THEN {} ELSE {CHOOSE n \in t.pk : TRUE},
     fields |-> [n \in DOMAIN t.cols |-> NewFieldFromColumn(t, n)]]
Written(s) == s \notin {None, Torn}
Panics(t) == \E n \in DOMAIN t.cols : t.cols[n].type = "panic"

-----------------------------------------------------------------------------
(* The database, of which the tool knows only whether a statement failed.   *)

\* What a column gives a row that has no value for it.
Fill(c) == CASE c.default = "none" -> IF c.null THEN "null" ELSE "zero"
             [] c.default = "now" -> "now" [] OTHER -> "default"
\* Only the key counts on, and it is not null; the text of an expression is a value
\* of a column of texts only.
Accepts(t, n, c) == /\ c.default # "cut"
                    /\ c.default = "text of an expression" => c.type = "varchar"
                    /\ c.auto => n \in t.pk
                    /\ n \in t.pk => ~c.null
Creatable(t) == t.pk # {} /\ \A n \in DOMAIN t.cols : Accepts(t, n, t.cols[n])
\* A column made NOT NULL must hold no null.
Acceptable(t, n, c) ==
    /\ Accepts(t, n, c)
    /\ n \in DOMAIN t.cols /\ ~c.null => \A r \in DOMAIN t.rows : t.rows[r][n] # "null"
WithColumn(t, n, c) ==
    LET names == DOMAIN t.cols \cup {n} IN
    [t EXCEPT !.cols = [m \in names |-> IF m = n THEN c ELSE t.cols[m]],
              !.rows = [r \in DOMAIN t.rows |->
                            [m \in names |-> IF m \in DOMAIN t.cols THEN t.rows[r][m] ELSE Fill(c)]]]

-----------------------------------------------------------------------------
(* The projects the tool is run on: structs that compile, tables of MySQL.  *)

Distinct(fields) == \A f, g \in fields : f.name = g.name => f = g
IsStruct(s) == s \in {None, Torn} \/ Distinct(ToSet(s.fields))
IsTable(t) ==
    \/ t = None
    \/ /\ DOMAIN t = {"is", "cols", "pk", "indexes", "rows"}
       /\ \A r \in DOMAIN t.rows : DOMAIN t.rows[r] = DOMAIN t.cols
       /\ \A n \in t.pk \cap DOMAIN t.cols : ~t.cols[n].null
\* What information_schema tells of a table: its columns, the columns of its key
\* and of its indexes, in their order.  Bound of the model: no two columns of a
\* table come back under one name, and an index is one over whole columns.
Columns == [type : STRING \ {""}, null : BOOLEAN, auto : BOOLEAN, default : STRING \ {"cut"}]
IsSchema(t) ==
    /\ IsFiniteSet(DOMAIN t.cols) /\ t.cols \in [DOMAIN t.cols -> Columns]
    /\ t.pk \subseteq DOMAIN t.cols
    /\ IsFiniteSet(t.indexes)
    /\ t.indexes \subseteq [name : STRING, unique : BOOLEAN, cols : Seq(DOMAIN t.cols),
                             desc : SUBSET DOMAIN t.cols]
    /\ \A x \in t.indexes : x.cols # << >> /\ IsInjective(x.cols)
    /\ \A x, y \in t.indexes : x.name = y.name => x = y
    /\ \A m, n \in DOMAIN t.cols : Snake[m] = Snake[n] => m = n

ASSUME DdlAssumption ==
    /\ Distinct(Base)
    /\ \A t \in Table : \A d \in Drafts[t] : Distinct(ToSet(d))
    /\ \A p \in Projects : /\ DOMAIN p.structs = Table
                           /\ DOMAIN p.tables = Table
                           /\ \A t \in Table :
                                  /\ IsStruct(p.structs[t]) /\ IsTable(p.tables[t])
                                  /\ p.tables[t] # None => IsSchema(p.tables[t])

-----------------------------------------------------------------------------
(* The tool.                                                                *)

Init == /\ \E p \in Projects : structs = p.structs /\ tables = p.tables
        /\ files = [t \in Table |-> [f \in ToSet(DaoFiles) |-> None]]
        /\ origin = [t \in Table |-> None]
        /\ tool = Idle /\ clean = "no" /\ counts = [edits |-> 0, runs |-> 0, faults |-> 0]

Has(s) == {t \in Table : s[t] # None}
Count(k, max) == counts[k] < max /\ counts' = [counts EXCEPT ![k] = @ + 1]
Failed == clean' = "no" /\ Count("faults", MaxFaults)
End == tool' = Idle /\ UNCHANGED <<clean, counts>>
Abort == tool' = Idle /\ Failed
Refused == clean' = "no" /\ UNCHANGED counts
Fine == UNCHANGED <<clean, counts>>

\* Connects, lists the tables; forward, reads the structs and makes tables of
\* all of them.  A file without a package clause, or a type without a column,
\* panics before anything has changed.
Start(mode, dao) ==
    /\ tool = Idle
    /\ mode = "forward" =>
           \A t \in Table : /\ structs[t] # Torn
                            /\ Written(structs[t]) => ~Panics(NewTableFromStruct(structs[t]))
    /\ LET todo == Has(IF mode = "forward" THEN structs ELSE tables) IN
       tool' = [pc |-> "table", mode |-> mode, dao |-> dao, todo |-> todo,
                defs |-> [t \in todo |-> IF mode = "reverse" THEN None ELSE OfStruct(structs[t])],
                exist |-> Has(tables), alter |-> {}, left |-> << >>]
    /\ clean' = mode /\ Count("runs", MaxRuns)
    /\ UNCHANGED <<structs, tables, files, origin>>

Current == CHOOSE t \in tool.todo : TRUE
Def == tool.defs[Current].table
Next1(t) == [t EXCEPT !.todo = @ \ {Current}, !.pc = "table"]
At(mode) == tool.pc = "table" /\ tool.mode = mode /\ tool.todo # {}

MutCreateTable ==                    \* CREATE TABLE without its indexes
    /\ At("forward") /\ Current \notin tool.exist
    /\ IF Creatable(Def)
       THEN tables' = [tables EXCEPT ![Current] = [Def EXCEPT !.indexes = {}]] /\ Fine
       ELSE Refused /\ UNCHANGED tables
    /\ tool' = Next1(tool)
    /\ UNCHANGED <<structs, files, origin>>
\* An error is logged, and the next table follows.
CreateTable ==
    /\ At("forward") /\ Current \notin tool.exist
    /\ IF Creatable(Def)
       THEN \/ tables' = [tables EXCEPT ![Current] = Def] /\ Fine
            \/ Failed /\ UNCHANGED tables
       ELSE Refused /\ UNCHANGED tables
    /\ tool' = Next1(tool)
    /\ UNCHANGED <<structs, files, origin>>

\* desc tells the columns to change from those to add.
Describe ==
    /\ At("forward") /\ Current \in tool.exist
    /\ \/ /\ tool' = [tool EXCEPT !.pc = "column", !.alter = DOMAIN Def.cols]
          /\ Fine
       \/ Abort                                                    \* panics
    /\ UNCHANGED <<structs, tables, files, origin>>
Column == CHOOSE n \in tool.alter : TRUE
MutAlterColumn ==                    \* a column that exists is left as it is
    /\ tool.pc = "column" /\ tool.alter # {}
    /\ IF Column \notin DOMAIN tables[Current].cols
       THEN tables' = [tables EXCEPT ![Current] = WithColumn(@, Column, Def.cols[Column])]
       ELSE UNCHANGED tables
    /\ tool' = [tool EXCEPT !.alter = @ \ {Column}]
    /\ UNCHANGED <<structs, files, origin, clean, counts>>
\* ChangeColumn or AddColumn; an error is logged, and the next column follows.
AlterColumn ==
    /\ tool.pc = "column" /\ tool.alter # {}
    /\ IF Acceptable(tables[Current], Column, Def.cols[Column])
       THEN \/ /\ tables' = [tables EXCEPT ![Current] = WithColumn(@, Column, Def.cols[Column])]
               /\ Fine
            \/ Failed /\ UNCHANGED tables
       ELSE Refused /\ UNCHANGED tables
    /\ tool' = [tool EXCEPT !.alter = @ \ {Column}]
    /\ UNCHANGED <<structs, files, origin>>
Altered == /\ tool.pc = "column" /\ tool.alter = {}
           /\ tool' = Next1(tool)
           /\ UNCHANGED <<structs, tables, files, clean, origin, counts>>

\* Reads a table's indexes and columns and creates its domain file unless there
\* is one; a type without a Go type panics.
ReadTable ==
    /\ At("reverse")
    /\ LET t == tables[Current] IN
       IF \E n \in DOMAIN t.cols : ToGoType(t.cols[n].type) = "panic"
       THEN tool' = Idle /\ Refused /\ UNCHANGED structs
       ELSE /\ tool' = [(IF structs[Current] = None THEN [tool EXCEPT !.pc = "domain"] ELSE Next1(tool))
                            EXCEPT !.defs[Current] = OfTable(t)]
            /\ structs' = IF structs[Current] = None THEN [structs EXCEPT ![Current] = Torn]
                          ELSE structs
            /\ Fine
    /\ UNCHANGED <<tables, files, origin>>
GenDomainGo ==
    /\ tool.pc = "domain"
    /\ \/ /\ structs' = [structs EXCEPT ![Current] = Source(tool.defs[Current].meta)]
          /\ origin' = [origin EXCEPT ![Current] = Def]
          /\ Fine
       \/ /\ Failed
          /\ structs' \in {structs, [structs EXCEPT ![Current] = None]} /\ UNCHANGED origin
    /\ tool' = Next1(tool)
    /\ UNCHANGED <<tables, files>>

TablesDone ==
    /\ tool.pc = "table" /\ tool.todo = {}
    /\ IF tool.dao THEN /\ tool' = [tool EXCEPT !.pc = "dao", !.todo = DOMAIN tool.defs,
                                                !.left = DaoFiles]
                        /\ Fine
                   ELSE End
    /\ UNCHANGED <<structs, tables, files, origin>>

\* The data access files, each created if there is none and then written from
\* the columns of the definition; the first error ends it.
Daos == tool.pc = "dao" /\ tool.todo # {} /\ tool.left # << >>
GenDao == /\ Daos
          /\ LET f == Head(tool.left) IN
             \/ /\ files[Current][f] = None
                /\ files' = [files EXCEPT ![Current][f] = Torn]
                /\ tool' = [tool EXCEPT !.pc = "write"] /\ Fine
             \/ /\ files[Current][f] # None
                /\ tool' = [tool EXCEPT !.left = Tail(@)] /\ UNCHANGED files /\ Fine
             \/ Abort /\ UNCHANGED files
          /\ UNCHANGED <<structs, tables, origin>>
WriteDao == /\ tool.pc = "write"
            /\ \/ /\ files' = [files EXCEPT ![Current][Head(tool.left)] =
                                 [is |-> "file", fields |-> tool.defs[Current].fields,
                                  key |-> tool.defs[Current].key]]
                  /\ tool' = [tool EXCEPT !.pc = "dao", !.left = Tail(@)] /\ Fine
               \/ Abort /\ UNCHANGED files
            /\ UNCHANGED <<structs, tables, origin>>
DaosDone == /\ tool.pc = "dao" /\ (tool.todo = {} \/ tool.left = << >>)
            /\ IF tool.todo = {} THEN End
               ELSE /\ tool' = [tool EXCEPT !.todo = @ \ {Current}, !.left = DaoFiles]
                    /\ Fine
            /\ UNCHANGED <<structs, tables, files, origin>>

Crash == /\ tool # Idle
         /\ Abort
         /\ UNCHANGED <<structs, tables, files, origin>>

\* The developer writes a struct; the tool is pointed at an empty database.
Edit(t, d) == /\ Count("edits", MaxEdits) /\ tool = Idle
              /\ structs' = [structs EXCEPT ![t] = Source(d)] /\ clean' = "no"
              /\ origin' = [origin EXCEPT ![t] = None]
              /\ UNCHANGED <<tables, files, tool>>
Fresh == /\ Count("edits", MaxEdits) /\ tool = Idle
         /\ tables' = [t \in Table |-> None] /\ clean' = "no"
         /\ UNCHANGED <<structs, files, tool, origin>>

Tool == \/ \E mode \in {"forward", "reverse"}, dao \in BOOLEAN : Start(mode, dao)
        \/ CreateTable \/ Describe \/ AlterColumn \/ Altered
        \/ ReadTable \/ GenDomainGo \/ TablesDone
        \/ GenDao \/ WriteDao \/ DaosDone \/ Crash
Outside == (\E t \in Table : \E d \in Drafts[t] : Edit(t, d)) \/ Fresh

-----------------------------------------------------------------------------
(* Properties.                                                              *)

\* After a forward run without failures every struct has its table, and every
\* field its column as the struct has it, whatever the table was before.  The
\* columns no field asks for stay.
TablesAgree ==
    (clean = "forward" /\ tool = Idle) =>
        \A t \in {u \in Table : Written(structs[u])} :
            /\ tables[t] # None
            /\ LET def == NewTableFromStruct(structs[t]) IN
               \A n \in DOMAIN def.cols : /\ n \in DOMAIN tables[t].cols
                                          /\ tables[t].cols[n] = def.cols[n]

\* A tag has one pk flag that counts, and one index and one unique clause; the
\* order of an index and the name of a column may not come back.
Lossy(t) == \/ Cardinality(t.pk) > 1
            \/ \E x, y \in t.indexes : /\ x # y /\ x.unique = y.unique
                                       /\ ToSet(x.cols) \cap ToSet(y.cols) # {}
            \/ \E x \in t.indexes : x.desc # {} \/ \E n \in ToSet(x.cols) : Snake[n] # n
            \/ \E n \in t.pk : Snake[n] # n
Back(c) == [c EXCEPT !.default = Quoted(@)]

\* What the structs that a reverse run wrote carry of the tables.  After a forward
\* run without failures, on the old database or on an empty one, every column is
\* there under the name that comes back, as it was but for a default that was an
\* expression and is the text of one now; there is no other column but, in the old
\* database, those whose name did not come back; and the key and the indexes are
\* as they were, unless the table is Lossy.
StructsCarryTables ==
    (clean = "forward" /\ tool = Idle) =>
        \A t \in {u \in Table : origin[u] # None} :
            LET old == origin[t].cols IN
            /\ \A n \in DOMAIN old : /\ Snake[n] \in DOMAIN tables[t].cols
                                     /\ tables[t].cols[Snake[n]] = Back(old[n])
            /\ DOMAIN tables[t].cols \subseteq DOMAIN old \cup {Snake[n] : n \in DOMAIN old}
            /\ \/ Lossy(origin[t])
               \/ tables[t].pk = origin[t].pk /\ tables[t].indexes = origin[t].indexes
=============================================================================
