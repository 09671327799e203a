----------------------------- MODULE DaoProofs ------------------------------
(***************************************************************************)
(* Theorems about Dao.tla, and through it about Ddl.tla, for any tables,   *)
(* structs and columns, any number of runs of the tool, failures, edits    *)
(* and statements of the service, and pages of any size.                   *)
(***************************************************************************)
EXTENDS Dao, FiniteSetTheorems, FunctionTheorems, WellFoundedInduction, TLAPS

(* The inductive invariant of the tool. *)

DaoFile == ToSet(DaoFiles)

\* The project keeps its shape.
Shapes ==
    /\ DOMAIN structs = Table
    /\ DOMAIN tables = Table /\ \A t \in Table : IsTable(tables[t])
    /\ DOMAIN files = Table /\ \A t \in Table : DOMAIN files[t] = DaoFile

\* So does the tool: which fields mean something at which of its stages.
Stages ==
    /\ DOMAIN tool = {"pc", "mode", "dao", "todo", "defs", "exist", "alter", "left"}
    /\ tool.pc \in {"idle", "table", "column", "domain", "dao", "write"}
    /\ DOMAIN tool.defs \subseteq Table /\ tool.todo \subseteq DOMAIN tool.defs
    /\ tool.exist \subseteq Table
    /\ tool.pc # "idle" => tool.mode \in {"forward", "reverse"} /\ clean \in {tool.mode, "no"}
    /\ tool.pc = "column" => tool.mode = "forward" /\ tool.todo # {} /\ Current \in tool.exist
    /\ tool.pc = "domain" => tool.mode = "reverse" /\ tool.todo # {}
    /\ tool.pc = "write" => tool.todo # {}

\* A forward run applies the structs, which nobody changes meanwhile, and drops
\* no table.
Forward ==
    tool.pc # "idle" /\ tool.mode = "forward" =>
        /\ DOMAIN tool.defs = Has(structs)
        /\ \A t \in DOMAIN tool.defs :
               /\ Written(structs[t])
               /\ tool.defs[t].table = NewTableFromStruct(structs[t])
               /\ tool.defs[t].meta = structs[t].fields
        /\ \A t \in tool.exist : tables[t] # None

\* Column n of table t is as the struct has it.
ColumnAgrees(t, n) == n \in DOMAIN tables[t].cols
                      /\ tables[t].cols[n] = NewTableFromStruct(structs[t]).cols[n]
Agrees(t) == /\ tables[t] # None
             /\ \A n \in DOMAIN NewTableFromStruct(structs[t]).cols : ColumnAgrees(t, n)

\* The tables a clean forward run is done with, and the columns of the present
\* one it is done with, agree.
Applied ==
    clean = "forward" =>
        /\ tool.pc = "idle" => \A t \in Table : Written(structs[t]) => Agrees(t)
        /\ tool.pc \in {"table", "column"} => \A t \in DOMAIN tool.defs \ tool.todo : Agrees(t)
        /\ tool.pc = "column" =>
               \A n \in DOMAIN Def.cols \ tool.alter : ColumnAgrees(Current, n)
        /\ tool.pc \in {"dao", "write"} => \A t \in DOMAIN tool.defs : Agrees(t)

RowIds == tables[T] # None => DOMAIN Rows \subseteq 0..MaxId

TInv == Shapes /\ Stages /\ Forward /\ Applied /\ RowIds

-----------------------------------------------------------------------------
(* What the translations make. *)

\* What IsTable says of what is there.
LEMMA Kinds ==
    /\ None # Torn
    /\ \A x : Source(x) \notin {None, Torn} /\ Source(x).fields = x
    /\ \A t : IsTable(t) /\ t # None =>
           /\ DOMAIN t = {"is", "cols", "pk", "indexes", "rows"}
           /\ \A r \in DOMAIN t.rows : DOMAIN t.rows[r] = DOMAIN t.cols
           /\ \A n \in t.pk \cap DOMAIN t.cols : ~t.cols[n].null
    /\ \A t : DOMAIN t = {"is", "cols", "pk", "indexes", "rows"} => t # None
BY DEF None, Torn, Source, Written, IsTable

\* A table the database creates is one of MySQL.
LEMMA NewTableShape ==
    ASSUME NEW s, Creatable(NewTableFromStruct(s))
    PROVE  IsTable(NewTableFromStruct(s)) /\ NewTableFromStruct(s) # None
<1> DEFINE t == NewTableFromStruct(s)
<1>1. DOMAIN t = {"is", "cols", "pk", "indexes", "rows"} /\ t.rows = << >>
    BY DEF NewTableFromStruct
<1>2. \A n \in DOMAIN t.cols : n \in t.pk => ~t.cols[n].null
    BY DEF Creatable, Accepts
<1> HIDE DEF t
<1>3. t.rows = << >> /\ DOMAIN t.rows = {}
    BY <1>1
<1>4. t # None
    BY <1>1, Kinds
<1>5. IsTable(t)
    BY <1>1, <1>2, <1>3 DEF IsTable
<1>6. QED
    BY <1>4, <1>5 DEF t

\* A column that is added or changed leaves the others, and the keys of rows.
LEMMA WithColumnShape ==
    ASSUME NEW t, NEW n, NEW c, IsTable(t), t # None, Acceptable(t, n, c)
    PROVE  LET u == WithColumn(t, n, c) IN
           /\ IsTable(u) /\ u # None
           /\ DOMAIN u.cols = DOMAIN t.cols \cup {n} /\ u.cols[n] = c
           /\ \A m \in DOMAIN t.cols : m # n => u.cols[m] = t.cols[m]
           /\ DOMAIN u.rows = DOMAIN t.rows
<1> DEFINE u == WithColumn(t, n, c)
           names == DOMAIN t.cols \cup {n}
           cols == [m \in names |-> IF m = n THEN c ELSE t.cols[m]]
           rows == [r \in DOMAIN t.rows |->
                       [m \in names |-> IF m \in DOMAIN t.cols THEN t.rows[r][m] ELSE Fill(c)]]
<1>1. DOMAIN t = {"is", "cols", "pk", "indexes", "rows"}
    BY Kinds
<1>2. u = [t EXCEPT !.cols = cols, !.rows = rows]
    BY DEF WithColumn
<1>3. DOMAIN cols = names /\ DOMAIN rows = DOMAIN t.rows
      /\ \A r \in DOMAIN rows : DOMAIN rows[r] = names
    OBVIOUS
<1>4. cols[n] = c /\ \A m \in DOMAIN t.cols : m # n => cols[m] = t.cols[m]
    OBVIOUS
<1>5. \A m \in t.pk \cap names : ~cols[m].null
    <2>1. n \in t.pk => ~c.null
        BY DEF Acceptable, Accepts
    <2>2. \A m \in t.pk \cap DOMAIN t.cols : ~t.cols[m].null
        BY Kinds
    <2>3. QED
        BY <2>1, <2>2
<1> HIDE DEF cols, rows, u
<1>6. /\ DOMAIN u = {"is", "cols", "pk", "indexes", "rows"}
      /\ u.cols = cols /\ u.rows = rows /\ u.pk = t.pk
    BY <1>1, <1>2
<1>7. u # None
    BY <1>6, Kinds
<1>8. IsTable(u)
    BY <1>3, <1>5, <1>6 DEF IsTable
<1>9. /\ IsTable(u) /\ u # None
      /\ DOMAIN u.cols = names /\ u.cols[n] = c
      /\ \A m \in DOMAIN t.cols : m # n => u.cols[m] = t.cols[m]
      /\ DOMAIN u.rows = DOMAIN t.rows
    BY <1>3, <1>4, <1>6, <1>7, <1>8
<1> HIDE DEF names
<1>10. QED
    BY <1>9 DEF u, names

-----------------------------------------------------------------------------
(* The steps of the tool. *)

\* The first state.
LEMMA InitTInv == DaoInit => TInv
<1> SUFFICES ASSUME DaoInit PROVE TInv
    OBVIOUS
<1>1. PICK p \in Projects : structs = p.structs /\ tables = p.tables
    BY DEF DaoInit, Init
<1>2. files = [t \in Table |-> [f \in DaoFile |-> None]] /\ tool = Idle /\ clean = "no"
    BY DEF DaoInit, Init, DaoFile
<1>3. Shapes
    <2>1. /\ DOMAIN p.structs = Table /\ DOMAIN p.tables = Table
          /\ \A t \in Table : IsTable(p.tables[t])
        BY DdlAssumption
    <2>2. QED
        BY <1>1, <1>2, <2>1 DEF Shapes
<1>4. Stages
    <2>1. /\ tool.pc = "idle" /\ DOMAIN tool.defs = {} /\ tool.todo = {} /\ tool.exist = {}
          /\ DOMAIN tool = {"pc", "mode", "dao", "todo", "defs", "exist", "alter", "left"}
        BY <1>2 DEF Idle
    <2>2. QED
        BY <1>2, <2>1 DEF Stages
<1>5. Forward /\ Applied
    BY <1>2 DEF Forward, Applied, Idle
<1>6. RowIds
    BY <1>1, DaoAssumption DEF RowIds, Rows
<1>7. QED
    BY <1>3, <1>4, <1>5, <1>6 DEF TInv

\* A run that ends without being clean leaves nothing to be kept.
LEMMA EndsDirty ==
    ASSUME tool' = Idle, clean' = "no", Shapes', RowIds' PROVE TInv'
<1>1. /\ tool'.pc = "idle" /\ DOMAIN tool'.defs = {} /\ tool'.todo = {} /\ tool'.exist = {}
      /\ DOMAIN tool' = {"pc", "mode", "dao", "todo", "defs", "exist", "alter", "left"}
    BY DEF Idle
<1>2. Stages'
    BY <1>1 DEF Stages
<1>3. Forward' /\ Applied'
    BY <1>1 DEF Forward, Applied
<1>4. QED
    BY <1>2, <1>3 DEF TInv

\* A run begins; a forward one makes a definition of every struct.
LEMMA StartStep ==
    ASSUME TInv, NEW mode \in {"forward", "reverse"}, NEW dao, Start(mode, dao) PROVE TInv'
<1> DEFINE todo == Has(IF mode = "forward" THEN structs ELSE tables)
<1>1. /\ tool' = [pc |-> "table", mode |-> mode, dao |-> dao, todo |-> todo,
                  defs |-> [t \in todo |-> IF mode = "reverse" THEN None ELSE OfStruct(structs[t])],
                  exist |-> Has(tables), alter |-> {}, left |-> << >>]
      /\ mode = "forward" => \A t \in Table : structs[t] # Torn
      /\ clean' = mode /\ structs' = structs /\ tables' = tables /\ files' = files
    BY Zenon DEF Start
<1>2. todo \subseteq Table /\ (mode = "forward" => todo = Has(structs) /\ \A t \in todo : Written(structs[t]))
    BY <1>1 DEF Has, Written
<1> HIDE DEF todo
<1>3. Shapes' /\ RowIds'
    BY <1>1 DEF TInv, Shapes, RowIds, Rows
<1>4. /\ tool'.pc = "table" /\ tool'.mode = mode /\ tool'.todo = todo /\ DOMAIN tool'.defs = todo
      /\ tool'.exist = Has(tables)
      /\ DOMAIN tool' = {"pc", "mode", "dao", "todo", "defs", "exist", "alter", "left"}
    BY <1>1
<1>5. Stages'
    BY <1>1, <1>2, <1>4 DEF Stages, Has
<1>6. Has(structs)' = Has(structs) /\ (\A t : NewTableFromStruct(structs[t])' = NewTableFromStruct(structs[t]))
    BY <1>1
<1>7. \A x : OfStruct(x).table = NewTableFromStruct(x) /\ OfStruct(x).meta = x.fields
    <2>1. ASSUME NEW x PROVE OfStruct(x).table = NewTableFromStruct(x) /\ OfStruct(x).meta = x.fields
        <3>1. PICK d : d = NewTableFromStruct(x)
            OBVIOUS
        <3>2. OfStruct(x).table = d /\ OfStruct(x).meta = x.fields
            BY <3>1 DEF OfStruct
        <3>3. QED
            BY <3>1, <3>2
    <2>2. QED
        BY <2>1
<1>8. mode = "forward" => \A t \in todo : /\ tool'.defs[t].table = NewTableFromStruct(structs[t])
                                          /\ tool'.defs[t].meta = structs[t].fields
    <2>1. mode = "forward" => \A t \in todo : tool'.defs[t] = OfStruct(structs[t])
        BY <1>1
    <2>2. QED
        BY <1>7, <2>1
<1>9. Forward'
    BY <1>1, <1>2, <1>4, <1>6, <1>8 DEF Forward, Has
<1>10. Applied'
    BY <1>4 DEF Applied
<1>11. QED
    BY <1>3, <1>5, <1>9, <1>10 DEF TInv

\* A table that is created agrees with its struct.
LEMMA CreateTableStep == ASSUME TInv, CreateTable PROVE TInv'
<1>1. PICK c : c = Current
    OBVIOUS
<1>2. /\ tool.pc = "table" /\ tool.mode = "forward" /\ c \in tool.todo /\ c \notin tool.exist
      /\ tool' = [tool EXCEPT !.todo = @ \ {c}, !.pc = "table"]
      /\ structs' = structs /\ files' = files
      /\ \/ Creatable(Def) /\ tables' = [tables EXCEPT ![c] = Def] /\ clean' = clean
         \/ tables' = tables /\ clean' = "no"
    BY <1>1 DEF CreateTable, At, Next1, Fine, Failed, Refused, Current
<1>3. c \in DOMAIN tool.defs /\ c \in Table
    BY <1>2 DEF TInv, Stages
<1>4. PICK d : d = Def
    OBVIOUS
<1>5. d = NewTableFromStruct(structs[c])
    BY <1>1, <1>2, <1>3, <1>4 DEF Def, TInv, Forward
<1>6. /\ tool'.pc = "table" /\ tool'.mode = "forward" /\ tool'.todo = tool.todo \ {c}
      /\ tool'.defs = tool.defs /\ tool'.exist = tool.exist /\ DOMAIN tool' = DOMAIN tool
    BY <1>2 DEF TInv, Stages
<1>7. /\ DOMAIN tables' = Table /\ \A t \in Table : t # c => tables'[t] = tables[t]
      /\ \/ tables'[c] = tables[c] /\ clean' = "no"
         \/ IsTable(d) /\ d # None /\ tables'[c] = d /\ clean' = clean
    BY <1>2, <1>3, <1>4, <1>5, NewTableShape DEF TInv, Shapes
<1>8. Shapes'
    BY <1>2, <1>7 DEF TInv, Shapes
<1>9. RowIds'
    BY <1>3, <1>5, <1>7, DaoAssumption DEF TInv, RowIds, Rows, NewTableFromStruct
<1>10. Stages'
    BY <1>2, <1>6, <1>7 DEF TInv, Stages
<1>11. Forward'
    BY <1>2, <1>6, <1>7 DEF TInv, Forward, Has, Stages
<1>12. Applied'
    <2>1. ASSUME clean' = "forward", NEW t \in DOMAIN tool.defs, t \notin tool.todo \ {c}
          PROVE  Agrees(t)'
        <3>1. clean = "forward" /\ tables'[c] = d /\ d # None
            BY <1>7, <2>1
        <3>2. CASE t = c
            BY <1>2, <1>5, <3>1, <3>2 DEF Agrees, ColumnAgrees
        <3>3. CASE t # c
            <4>1. Agrees(t) /\ t \in Table
                BY <1>2, <2>1, <3>1, <3>3 DEF TInv, Applied, Stages
            <4>2. tables'[t] = tables[t]
                BY <1>7, <3>3, <4>1
            <4>3. QED
                BY <1>2, <4>1, <4>2 DEF Agrees, ColumnAgrees
        <3>4. QED
            BY <3>2, <3>3
    <2>2. QED
        BY <1>6, <2>1 DEF Applied
<1>13. QED
    BY <1>8, <1>9, <1>10, <1>11, <1>12 DEF TInv

\* A table that exists is altered, beginning with no column.
LEMMA DescribeStep == ASSUME TInv, Describe PROVE TInv'
<1>1. /\ tool.pc = "table" /\ tool.mode = "forward" /\ tool.todo # {} /\ Current \in tool.exist
      /\ structs' = structs /\ files' = files /\ tables' = tables
      /\ \/ tool' = [tool EXCEPT !.pc = "column", !.alter = DOMAIN Def.cols] /\ clean' = clean
         \/ tool' = Idle /\ clean' = "no"
    BY DEF Describe, At, Fine, Abort, Failed
<1>2. Shapes' /\ RowIds'
    BY <1>1 DEF TInv, Shapes, RowIds, Rows
<1>3. CASE tool' = Idle /\ clean' = "no"
    BY <1>2, <1>3, EndsDirty
<1>4. CASE tool' = [tool EXCEPT !.pc = "column", !.alter = DOMAIN Def.cols] /\ clean' = clean
    <2>1. /\ tool'.pc = "column" /\ tool'.mode = tool.mode /\ tool'.todo = tool.todo
          /\ tool'.defs = tool.defs /\ tool'.exist = tool.exist /\ DOMAIN tool' = DOMAIN tool
          /\ tool'.alter = DOMAIN Def.cols
        BY <1>4 DEF TInv, Stages
    <2>2. Current' = Current /\ Def' = Def
        BY <2>1 DEF Current, Def
    <2>3. Stages'
        BY <1>1, <1>4, <2>1, <2>2 DEF TInv, Stages
    <2>4. Forward'
        BY <1>1, <2>1 DEF TInv, Forward, Has
    <2>5. Applied'
        BY <1>1, <1>4, <2>1, <2>2 DEF TInv, Applied, Agrees, ColumnAgrees
    <2>6. QED
        BY <1>2, <2>3, <2>4, <2>5 DEF TInv
<1>5. QED
    BY <1>1, <1>3, <1>4

\* A column that is altered agrees with its field, and the others stay.
LEMMA AlterColumnStep == ASSUME TInv, AlterColumn PROVE TInv'
<1>1. PICK c : c = Current
    OBVIOUS
<1>2. PICK n : n = Column
    OBVIOUS
<1>3. PICK d : d = Def
    OBVIOUS
<1>4. /\ tool.pc = "column" /\ structs' = structs /\ files' = files
      /\ tool' = [tool EXCEPT !.alter = @ \ {n}]
      /\ \/ /\ Acceptable(tables[c], n, d.cols[n]) /\ clean' = clean
            /\ tables' = [tables EXCEPT ![c] = WithColumn(@, n, d.cols[n])]
         \/ tables' = tables /\ clean' = "no"
    BY <1>1, <1>2, <1>3 DEF AlterColumn, Fine, Failed, Refused
<1>5. /\ tool.mode = "forward" /\ c \in tool.todo /\ c \in DOMAIN tool.defs /\ c \in Table
      /\ c \in tool.exist /\ tables[c] # None /\ IsTable(tables[c])
    BY <1>1, <1>4 DEF TInv, Stages, Current, Forward, Shapes
<1>6. d = NewTableFromStruct(structs[c])
    BY <1>1, <1>3, <1>4, <1>5 DEF Def, TInv, Forward
<1>7. /\ tool'.pc = "column" /\ tool'.mode = "forward" /\ tool'.todo = tool.todo
      /\ tool'.defs = tool.defs /\ tool'.exist = tool.exist /\ DOMAIN tool' = DOMAIN tool
      /\ tool'.alter = tool.alter \ {n}
    BY <1>4, <1>5 DEF TInv, Stages
<1>8. Current' = c /\ Def' = d
    BY <1>1, <1>3, <1>7 DEF Current, Def
<1>9. /\ DOMAIN tables' = Table /\ \A t \in Table : t # c => tables'[t] = tables[t]
      /\ \/ tables'[c] = tables[c] /\ clean' = "no"
         \/ /\ tables'[c] = WithColumn(tables[c], n, d.cols[n]) /\ clean' = clean
            /\ Acceptable(tables[c], n, d.cols[n])
    BY <1>4, <1>5 DEF TInv, Shapes
<1>10. /\ IsTable(tables'[c]) /\ tables'[c] # None /\ DOMAIN tables'[c].rows = DOMAIN tables[c].rows
       /\ \/ clean' = "no"
          \/ /\ clean' = clean
             /\ DOMAIN tables'[c].cols = DOMAIN tables[c].cols \cup {n}
             /\ tables'[c].cols[n] = d.cols[n]
             /\ \A m \in DOMAIN tables[c].cols : m # n => tables'[c].cols[m] = tables[c].cols[m]
    BY <1>5, <1>9, WithColumnShape
<1>11. Shapes'
    BY <1>4, <1>9, <1>10 DEF TInv, Shapes
<1>12. RowIds'
    BY <1>5, <1>9, <1>10, DaoAssumption DEF TInv, RowIds, Rows
<1>13. Stages'
    BY <1>4, <1>5, <1>7, <1>8, <1>9 DEF TInv, Stages
<1>14. Forward'
    BY <1>4, <1>5, <1>7, <1>9, <1>10 DEF TInv, Forward, Has, Stages
<1>15. Applied'
    <2>1. ASSUME clean' = "forward", NEW t \in DOMAIN tool.defs \ tool.todo PROVE Agrees(t)'
        <3>1. Agrees(t) /\ t \in Table /\ t # c
            BY <1>4, <1>5, <1>10, <2>1 DEF TInv, Applied, Stages
        <3>2. tables'[t] = tables[t]
            BY <1>9, <3>1
        <3>3. QED
            BY <1>4, <3>1, <3>2 DEF Agrees, ColumnAgrees
    <2>2. ASSUME clean' = "forward", NEW m \in DOMAIN d.cols \ (tool.alter \ {n})
          PROVE  ColumnAgrees(c, m)'
        <3>1. m # n => ColumnAgrees(c, m)
            BY <1>1, <1>3, <1>4, <1>10, <2>2 DEF TInv, Applied
        <3>2. QED
            BY <1>4, <1>6, <1>10, <2>2, <3>1 DEF ColumnAgrees
    <2>3. QED
        BY <1>7, <1>8, <2>1, <2>2 DEF Applied
<1>16. QED
    BY <1>11, <1>12, <1>13, <1>14, <1>15 DEF TInv

\* A table of which every column was altered agrees.
LEMMA AlteredStep == ASSUME TInv, Altered PROVE TInv'
<1>1. PICK c : c = Current
    OBVIOUS
<1>2. /\ tool.pc = "column" /\ tool.alter = {}
      /\ tool' = [tool EXCEPT !.todo = @ \ {c}, !.pc = "table"]
      /\ structs' = structs /\ files' = files /\ tables' = tables /\ clean' = clean
    BY <1>1 DEF Altered, Next1
<1>3. /\ tool.mode = "forward" /\ c \in tool.todo /\ c \in DOMAIN tool.defs
      /\ c \in tool.exist /\ tables[c] # None
    BY <1>1, <1>2 DEF TInv, Stages, Current, Forward
<1>4. Def = NewTableFromStruct(structs[c])
    BY <1>1, <1>2, <1>3 DEF Def, TInv, Forward
<1>5. /\ tool'.pc = "table" /\ tool'.mode = "forward" /\ tool'.todo = tool.todo \ {c}
      /\ tool'.defs = tool.defs /\ tool'.exist = tool.exist /\ DOMAIN tool' = DOMAIN tool
    BY <1>2, <1>3 DEF TInv, Stages
<1>6. Shapes' /\ RowIds'
    BY <1>2 DEF TInv, Shapes, RowIds, Rows
<1>7. Stages'
    BY <1>2, <1>5 DEF TInv, Stages
<1>8. Forward'
    BY <1>2, <1>5 DEF TInv, Forward, Has
<1>9. Applied'
    <2>1. clean = "forward" => Agrees(c)
        BY <1>1, <1>2, <1>3, <1>4 DEF TInv, Applied, Agrees
    <2>2. clean = "forward" => \A t \in DOMAIN tool.defs \ (tool.todo \ {c}) : Agrees(t)
        BY <1>2, <2>1 DEF TInv, Applied
    <2>3. \A t : Agrees(t) => Agrees(t)'
        BY <1>2 DEF Agrees, ColumnAgrees
    <2>4. QED
        BY <1>2, <1>5, <2>2, <2>3 DEF Applied
<1>10. QED
    BY <1>6, <1>7, <1>8, <1>9 DEF TInv

\* A reverse run makes structs of the tables.
LEMMA ReadTableStep == ASSUME TInv, ReadTable PROVE TInv'
<1>1. PICK c : c = Current
    OBVIOUS
<1>2. PICK d : d = OfTable(tables[c])
    OBVIOUS
<1>3. /\ tool.pc = "table" /\ tool.mode = "reverse" /\ c \in tool.todo
      /\ tables' = tables /\ files' = files
      /\ \/ tool' = Idle /\ clean' = "no" /\ structs' = structs
         \/ /\ tool' = [[tool EXCEPT !.pc = "domain"] EXCEPT !.defs[c] = d]
            /\ structs' = [structs EXCEPT ![c] = Torn] /\ clean' = clean
         \/ /\ tool' = [[tool EXCEPT !.todo = @ \ {c}, !.pc = "table"] EXCEPT !.defs[c] = d]
            /\ structs' = structs /\ clean' = clean
    BY <1>1, <1>2 DEF ReadTable, At, Refused, Fine, Next1, Current
<1>4. Shapes' /\ RowIds'
    BY <1>3 DEF TInv, Shapes, RowIds, Rows
<1>5. CASE tool' = Idle /\ clean' = "no"
    BY <1>4, <1>5, EndsDirty
<1>6. CASE ~(tool' = Idle /\ clean' = "no")
    <2>1. /\ tool'.mode = "reverse" /\ tool'.exist = tool.exist /\ clean' = clean
          /\ tool'.defs = [tool.defs EXCEPT ![c] = d]
          /\ DOMAIN tool' = {"pc", "mode", "dao", "todo", "defs", "exist", "alter", "left"}
          /\ \/ tool'.pc = "domain" /\ tool'.todo = tool.todo
             \/ tool'.pc = "table" /\ tool'.todo = tool.todo \ {c}
        BY <1>3, <1>6 DEF TInv, Stages
    <2>2. DOMAIN tool'.defs = DOMAIN tool.defs
        BY <2>1
    <2>3. Stages'
        BY <1>3, <2>1, <2>2 DEF TInv, Stages
    <2>4. Forward' /\ Applied'
        BY <1>3, <2>1 DEF TInv, Stages, Forward, Applied
    <2>5. QED
        BY <1>4, <2>3, <2>4 DEF TInv
<1>7. QED
    BY <1>5, <1>6

\* It writes a struct to the file it created.
LEMMA GenDomainGoStep == ASSUME TInv, GenDomainGo PROVE TInv'
<1>1. PICK c : c = Current
    OBVIOUS
<1>2. PICK m : m = tool.defs[c].meta
    OBVIOUS
<1>3. /\ tool.pc = "domain" /\ tables' = tables /\ files' = files
      /\ tool' = [tool EXCEPT !.todo = @ \ {c}, !.pc = "table"]
      /\ clean' \in {clean, "no"}
      /\ \/ structs' = [structs EXCEPT ![c] = Source(m)]
         \/ structs' = structs
         \/ structs' = [structs EXCEPT ![c] = None]
    BY <1>1, <1>2 DEF GenDomainGo, Next1, Fine, Failed
<1>4. tool.mode = "reverse" /\ c \in DOMAIN tool.defs /\ c \in tool.todo
    BY <1>1, <1>3 DEF TInv, Stages, Current
<1>5. Shapes' /\ RowIds'
    BY <1>3 DEF TInv, Shapes, RowIds, Rows
<1>6. /\ tool'.pc = "table" /\ tool'.mode = "reverse" /\ tool'.todo = tool.todo \ {c}
      /\ tool'.defs = tool.defs /\ tool'.exist = tool.exist /\ DOMAIN tool' = DOMAIN tool
    BY <1>3, <1>4 DEF TInv, Stages
<1>7. Stages'
    BY <1>3, <1>4, <1>6 DEF TInv, Stages
<1>8. Forward' /\ Applied'
    BY <1>3, <1>4, <1>6 DEF TInv, Stages, Forward, Applied
<1>9. QED
    BY <1>5, <1>7, <1>8 DEF TInv

\* A run that ends cleanly leaves every struct its table.
LEMMA EndsClean ==
    ASSUME TInv, tool.pc # "idle", tool' = Idle, clean' = clean,
           structs' = structs, tables' = tables, files' = files,
           clean = "forward" => \A t \in DOMAIN tool.defs : Agrees(t)
    PROVE  TInv'
<1>1. /\ tool'.pc = "idle" /\ DOMAIN tool'.defs = {} /\ tool'.todo = {} /\ tool'.exist = {}
      /\ DOMAIN tool' = {"pc", "mode", "dao", "todo", "defs", "exist", "alter", "left"}
    BY DEF Idle
<1>2. Shapes' /\ RowIds'
    BY DEF TInv, Shapes, RowIds, Rows
<1>3. Stages' /\ Forward'
    BY <1>1 DEF Stages, Forward
<1>4. \A t : Agrees(t) => Agrees(t)'
    BY DEF Agrees, ColumnAgrees
<1>5. clean = "forward" => \A t \in Table : Written(structs[t]) => t \in DOMAIN tool.defs
    BY DEF TInv, Stages, Forward, Has, Written
<1>6. \A t : Written(structs[t])' <=> Written(structs[t])
    OBVIOUS
<1>7. Applied'
    BY <1>1, <1>4, <1>5, <1>6 DEF Applied
<1>8. QED
    BY <1>2, <1>3, <1>7 DEF TInv

\* Every table has been seen to.
LEMMA TablesDoneStep == ASSUME TInv, TablesDone PROVE TInv'
<1>1. /\ tool.pc = "table" /\ tool.todo = {} /\ clean' = clean
      /\ structs' = structs /\ tables' = tables /\ files' = files
      /\ \/ tool' = [tool EXCEPT !.pc = "dao", !.todo = DOMAIN tool.defs, !.left = DaoFiles]
         \/ tool' = Idle
    BY DEF TablesDone, Fine, End
<1>2. clean = "forward" => \A t \in DOMAIN tool.defs : Agrees(t)
    BY <1>1 DEF TInv, Applied
<1>3. CASE tool' = Idle
    BY <1>1, <1>2, <1>3, EndsClean
<1>4. CASE tool' = [tool EXCEPT !.pc = "dao", !.todo = DOMAIN tool.defs, !.left = DaoFiles]
    <2>1. /\ tool'.pc = "dao" /\ tool'.mode = tool.mode /\ tool'.todo = DOMAIN tool.defs
          /\ tool'.defs = tool.defs /\ tool'.exist = tool.exist /\ DOMAIN tool' = DOMAIN tool
        BY <1>4 DEF TInv, Stages
    <2>2. Shapes' /\ RowIds'
        BY <1>1 DEF TInv, Shapes, RowIds, Rows
    <2>3. Stages'
        BY <1>1, <2>1 DEF TInv, Stages
    <2>4. Forward'
        BY <1>1, <2>1 DEF TInv, Forward, Has
    <2>5. \A t : Agrees(t) => Agrees(t)'
        BY <1>1 DEF Agrees, ColumnAgrees
    <2>6. Applied'
        BY <1>1, <1>2, <2>1, <2>5 DEF Applied
    <2>7. QED
        BY <2>2, <2>3, <2>4, <2>6 DEF TInv
<1>5. QED
    BY <1>1, <1>3, <1>4

\* Writing data access files changes no struct and no table.
LEMMA DaoStep ==
    ASSUME TInv, tool.pc \in {"dao", "write"}, tool'.pc \in {"dao", "write"},
           tool'.mode = tool.mode, tool'.defs = tool.defs, tool'.exist = tool.exist,
           DOMAIN tool' = DOMAIN tool, tool'.todo \subseteq tool.todo,
           tool'.pc = "write" => tool'.todo # {}, clean' = clean,
           structs' = structs, tables' = tables, Shapes'
    PROVE  TInv'
<1>1. Stages'
    BY DEF TInv, Stages
<1>2. Forward' /\ RowIds'
    BY DEF TInv, Forward, Has, RowIds, Rows
<1>3. \A t : Agrees(t) => Agrees(t)'
    BY DEF Agrees, ColumnAgrees
<1>4. Applied'
    BY <1>3 DEF TInv, Applied
<1>5. QED
    BY <1>1, <1>2, <1>4 DEF TInv

\* A file that is created or written keeps the shape of the files.
LEMMA FileShapes ==
    ASSUME Shapes, NEW c, NEW f, NEW x, files' = [files EXCEPT ![c][f] = x],
           structs' = structs, tables' = tables
    PROVE  Shapes'
BY DEF Shapes

\* A data access file is created.
LEMMA GenDaoStep == ASSUME TInv, GenDao PROVE TInv'
<1>1. PICK c, f : c = Current /\ f = Head(tool.left)
    OBVIOUS
<1>2. /\ tool.pc = "dao" /\ tool.todo # {} /\ structs' = structs /\ tables' = tables
      /\ \/ /\ files' = [files EXCEPT ![c][f] = Torn]
            /\ tool' = [tool EXCEPT !.pc = "write"] /\ clean' = clean
         \/ /\ tool' = [tool EXCEPT !.left = Tail(@)] /\ files' = files /\ clean' = clean
         \/ tool' = Idle /\ clean' = "no" /\ files' = files
    BY <1>1 DEF GenDao, Daos, Fine, Abort, Failed
<1>3. Shapes'
    <2>1. CASE files' = files
        BY <1>2, <2>1 DEF TInv, Shapes
    <2>2. QED
        BY <1>2, <2>1, FileShapes DEF TInv
<1>4. RowIds'
    BY <1>2 DEF TInv, RowIds, Rows
<1>5. CASE tool' = Idle /\ clean' = "no"
    BY <1>3, <1>4, <1>5, EndsDirty
<1>6. CASE ~(tool' = Idle /\ clean' = "no")
    <2>1. /\ tool'.pc \in {"dao", "write"} /\ tool'.mode = tool.mode /\ tool'.defs = tool.defs
          /\ tool'.exist = tool.exist /\ DOMAIN tool' = DOMAIN tool /\ tool'.todo = tool.todo
        BY <1>2, <1>6 DEF TInv, Stages
    <2>2. QED
        BY <1>2, <1>3, <1>6, <2>1, DaoStep
<1>7. QED
    BY <1>5, <1>6

\* It is written from the definition of its table.
LEMMA WriteDaoStep == ASSUME TInv, WriteDao PROVE TInv'
<1>1. PICK c, f, x : /\ c = Current /\ f = Head(tool.left)
                     /\ x = [is |-> "file", fields |-> tool.defs[Current].fields,
                             key |-> tool.defs[Current].key]
    OBVIOUS
<1>2. /\ tool.pc = "write" /\ structs' = structs /\ tables' = tables
      /\ \/ /\ files' = [files EXCEPT ![c][f] = x]
            /\ tool' = [tool EXCEPT !.pc = "dao", !.left = Tail(@)] /\ clean' = clean
         \/ tool' = Idle /\ clean' = "no" /\ files' = files
    BY <1>1 DEF WriteDao, Fine, Abort, Failed
<1>3. Shapes'
    <2>1. CASE files' = files
        BY <1>2, <2>1 DEF TInv, Shapes
    <2>2. QED
        BY <1>2, <2>1, FileShapes DEF TInv
<1>4. RowIds'
    BY <1>2 DEF TInv, RowIds, Rows
<1>5. CASE tool' = Idle /\ clean' = "no"
    BY <1>3, <1>4, <1>5, EndsDirty
<1>6. CASE ~(tool' = Idle /\ clean' = "no")
    <2>1. /\ tool'.pc = "dao" /\ tool'.mode = tool.mode /\ tool'.defs = tool.defs
          /\ tool'.exist = tool.exist /\ DOMAIN tool' = DOMAIN tool /\ tool'.todo = tool.todo
        BY <1>2, <1>6 DEF TInv, Stages
    <2>2. QED
        BY <1>2, <1>3, <1>6, <2>1, DaoStep
<1>7. QED
    BY <1>5, <1>6

\* The files of a table are done, or of all of them.
LEMMA DaosDoneStep == ASSUME TInv, DaosDone PROVE TInv'
<1>1. PICK c : c = Current
    OBVIOUS
<1>2. /\ tool.pc = "dao" /\ structs' = structs /\ tables' = tables /\ files' = files /\ clean' = clean
      /\ \/ tool' = Idle
         \/ tool' = [tool EXCEPT !.todo = @ \ {c}, !.left = DaoFiles]
    BY <1>1 DEF DaosDone, Fine, End
<1>3. CASE tool' = Idle
    BY <1>2, <1>3, EndsClean DEF TInv, Applied
<1>4. CASE tool' = [tool EXCEPT !.todo = @ \ {c}, !.left = DaoFiles]
    <2>1. /\ tool'.pc = "dao" /\ tool'.mode = tool.mode /\ tool'.defs = tool.defs
          /\ tool'.exist = tool.exist /\ DOMAIN tool' = DOMAIN tool /\ tool'.todo = tool.todo \ {c}
        BY <1>2, <1>4 DEF TInv, Stages
    <2>2. Shapes'
        BY <1>2 DEF TInv, Shapes
    <2>3. QED
        BY <1>2, <2>1, <2>2, DaoStep
<1>5. QED
    BY <1>2, <1>3, <1>4

\* The tool is killed, a developer writes a struct, or the database is another.
LEMMA OutsideStep == ASSUME TInv, Crash \/ Outside PROVE TInv'
<1>1. CASE Crash
    <2>1. /\ tool' = Idle /\ clean' = "no"
          /\ structs' = structs /\ tables' = tables /\ files' = files
        BY <1>1 DEF Crash, Abort, Failed
    <2>2. Shapes' /\ RowIds'
        BY <2>1 DEF TInv, Shapes, RowIds, Rows
    <2>3. QED
        BY <2>1, <2>2, EndsDirty
<1>2. ASSUME NEW t \in Table, NEW d \in Drafts[t], Edit(t, d) PROVE TInv'
    <2>1. /\ tool' = Idle /\ clean' = "no" /\ tables' = tables /\ files' = files
          /\ structs' = [structs EXCEPT ![t] = Source(d)]
        BY <1>2 DEF Edit
    <2>2. Shapes' /\ RowIds'
        BY <2>1 DEF TInv, Shapes, RowIds, Rows
    <2>3. QED
        BY <2>1, <2>2, EndsDirty
<1>3. CASE Fresh
    <2>1. /\ tool' = Idle /\ clean' = "no" /\ structs' = structs /\ files' = files
          /\ tables' = [t \in Table |-> None]
        BY <1>3 DEF Fresh
    <2>2. Shapes' /\ RowIds'
        BY <2>1, DaoAssumption DEF TInv, Shapes, RowIds, Rows, IsTable
    <2>3. QED
        BY <2>1, <2>2, EndsDirty
<1>4. QED
    BY <1>1, <1>2, <1>3 DEF Outside

-----------------------------------------------------------------------------
(* The statements of the service, and the theorem of the tool. *)

\* Rows that a statement leaves have the table's columns.
Rowed(rows) == \A r \in DOMAIN rows : DOMAIN rows[r] = DOMAIN tables[T].cols

\* An INSERT gives its row every column.
LEMMA InsertRowed ==
    ASSUME Rowed(Rows), NEW vals, NEW id PROVE Rowed(Insert(vals, id).rows)
<1> DEFINE t == tables[T]
           key == KeyFor(vals, id)
           rows == [r \in DOMAIN Rows \cup {key} |-> IF r = key THEN Row(t, vals) ELSE Rows[r]]
<1>1. DOMAIN Row(t, vals) = DOMAIN t.cols
    BY DEF Row
<1>2. Rowed(rows)
    BY <1>1 DEF Rowed
<1>3. Insert(vals, id) \in {Bad, Good(rows)}
    BY DEF Insert
<1> HIDE DEF rows
<1>4. Bad.rows = Rows /\ Good(rows).rows = rows
    BY DEF Bad, Good
<1>5. QED
    BY <1>2, <1>3, <1>4

\* An UPDATE leaves a row its columns.
LEMMA UpdateRowed ==
    ASSUME Rowed(Rows), NEW ids, NEW vals PROVE Rowed(Update(ids, vals).rows)
<1>1. \A r : DOMAIN Overwrite(Rows[r], vals) = DOMAIN Rows[r]
    BY DEF Overwrite
<1>2. Rowed(Updated(ids, vals))
    BY <1>1 DEF Rowed, Updated
<1>3. Update(ids, vals) \in {Bad, Good(Updated(ids, vals))}
    BY DEF Update
<1>4. Bad.rows = Rows /\ Good(Updated(ids, vals)).rows = Updated(ids, vals)
    BY DEF Bad, Good
<1>5. QED
    BY <1>2, <1>3, <1>4

Writes == ById \cup ByWhere \cup {"Update", "UpsertNoneZero"}

\* An upsert is an INSERT or an UPDATE.
LEMMA UpsertRowed ==
    ASSUME Rowed(Rows), NEW vals, NEW id, NEW set, NEW res \in Upsert(vals, id, set)
    PROVE  Rowed(res.rows)
<1>1. Rowed(Bad.rows)
    BY DEF Bad
<1>2. \/ res = Bad \/ res = Insert(vals, id)
      \/ \E r : res = Update({r}, set)
    BY DEF Upsert
<1>3. QED
    BY <1>1, <1>2, InsertRowed, UpdateRowed

\* So do all operations of the service.
LEMMA ResultsRowed ==
    ASSUME Rowed(Rows), NEW op \in Writes, NEW id, NEW data, NEW q, NEW res \in Results(op, id, data, q)
    PROVE  Rowed(res.rows)
<1>1. Rowed(Bad.rows)
    BY DEF Bad
<1>2. Rowed(Good([r \in DOMAIN Rows \ Where(q) |-> Rows[r]]).rows)
    BY DEF Good, Rowed
<1>3. QED
    BY <1>1, <1>2, InsertRowed, UpdateRowed, UpsertRowed DEF Results, Writes, ById, ByWhere

\* A statement that was to do something else as well.
LEMMA OutcomesRowed ==
    ASSUME Rowed(Rows), NEW op \in Writes, NEW id, NEW data, NEW q, NEW res \in Outcomes(op, id, data, q)
    PROVE  Rowed(res.rows)
<1>1. Rowed(Bad.rows)
    BY DEF Bad
<1>2. \A some \in SUBSET DOMAIN Rows : Rowed(Good([r \in some |-> Rows[r]]).rows)
    BY DEF Good, Rowed
<1>3. ASSUME NEW rows, Rowed(rows), NEW other \in Distorted(rows) PROVE Rowed(Good(other).rows)
    <2>1. Rowed(other)
        BY <1>3 DEF Distorted, Rowed
    <2>2. Good(other).rows = other
        BY DEF Good
    <2>3. QED
        BY <2>1, <2>2
<1>4. \/ res = Bad \/ res \in Results(op, id, data, q)
      \/ \E some \in SUBSET DOMAIN Rows : res = Good([r \in some |-> Rows[r]])
      \/ \E one \in Results(op, id, data, q) : \E other \in Distorted(one.rows) : res = Good(other)
    BY DEF Outcomes
<1>5. QED
    BY <1>1, <1>2, <1>3, <1>4, ResultsRowed

\* The service changes rows only, between two statements of the tool as well.
LEMMA WriteStep ==
    ASSUME TInv, Usable, tool.pc \in {"idle", "column"}, NEW op \in Writes,
           NEW id, NEW data, NEW q, Write(op, id, data, q)
    PROVE  TInv'
<1>1. PICK rows : /\ \E res \in Outcomes(op, id, data, q) : rows = res.rows
                  /\ DOMAIN rows \subseteq 0..MaxId
                  /\ tables' = [tables EXCEPT ![T].rows = rows]
    BY DEF Write
<1>2. /\ DOMAIN rows \subseteq 0..MaxId /\ tables' = [tables EXCEPT ![T].rows = rows]
      /\ structs' = structs /\ files' = files /\ tool' = tool /\ clean' = clean
    BY <1>1 DEF Write
<1>3. T \in Table /\ tables[T] # None /\ IsTable(tables[T])
    BY DaoAssumption DEF Usable, TInv, Shapes
<1>4. \A r \in DOMAIN rows : DOMAIN rows[r] = DOMAIN tables[T].cols
    <2>1. Rowed(Rows)
        BY <1>3, Kinds DEF Rowed, Rows
    <2>2. QED
        BY <1>1, <2>1, OutcomesRowed DEF Rowed
<1>5. /\ DOMAIN tables' = Table /\ \A t \in Table : t # T => tables'[t] = tables[t]
      /\ tables'[T] = [tables[T] EXCEPT !.rows = rows]
    BY <1>2, <1>3 DEF TInv, Shapes
<1>6. /\ DOMAIN tables'[T] = {"is", "cols", "pk", "indexes", "rows"} /\ tables'[T].rows = rows
      /\ tables'[T].cols = tables[T].cols /\ tables'[T].pk = tables[T].pk
    BY <1>3, <1>5, Kinds
<1>7. IsTable(tables'[T]) /\ tables'[T] # None
    <2>1. tables'[T] # None
        BY <1>6, Kinds
    <2>2. \A n \in tables[T].pk \cap DOMAIN tables[T].cols : ~tables[T].cols[n].null
        BY <1>3, Kinds
    <2>3. QED
        BY <1>4, <1>6, <2>1, <2>2 DEF IsTable
<1>8. \A t \in Table : /\ tables'[t] = None <=> tables[t] = None
                       /\ tables'[t] # None => tables'[t].cols = tables[t].cols
    BY <1>3, <1>5, <1>6, <1>7
<1>9. Shapes'
    BY <1>2, <1>5, <1>7 DEF TInv, Shapes
<1>10. RowIds'
    BY <1>2, <1>6 DEF RowIds, Rows
<1>11. Current' = Current /\ Def' = Def
    BY <1>2 DEF Current, Def
<1>12. Stages'
    BY <1>2, <1>11 DEF TInv, Stages
<1>13. Forward'
    BY <1>2, <1>8 DEF TInv, Forward, Stages, Has
<1>14. Applied'
    <2>1. \A t \in Table : tables[t] # None => \A n : ColumnAgrees(t, n) => ColumnAgrees(t, n)'
        BY <1>2, <1>8 DEF ColumnAgrees
    <2>2. \A t \in Table : Agrees(t) => Agrees(t)'
        BY <1>2, <1>8, <2>1 DEF Agrees
    <2>3. PICK c : c = Current
        OBVIOUS
    <2>4. tool.pc = "column" => c \in Table /\ tables[c] # None
        BY <2>3 DEF TInv, Stages, Forward
    <2>5. \A n : tool.pc = "column" /\ ColumnAgrees(c, n) => ColumnAgrees(c, n)'
        BY <2>1, <2>4
    <2>6. PICK d : d = Def
        OBVIOUS
    <2>7. Current' = c /\ Def' = d
        BY <1>11, <2>3, <2>6
    <2>8. QED
        BY <1>2, <2>2, <2>3, <2>5, <2>6, <2>7 DEF TInv, Stages, Applied
<1>15. QED
    BY <1>9, <1>10, <1>12, <1>13, <1>14 DEF TInv

\* The invariant is about the variables of the tool only.
LEMMA SameTInv == TInv /\ UNCHANGED ddlVars => TInv'
BY DEF ddlVars, TInv, Shapes, Stages, Current, Def, Forward, Has, Applied, Agrees,
       ColumnAgrees, RowIds, Rows

\* A step of the service is a write, or one of a reader.
LEMMA Served ==
    ASSUME Serve
    PROVE  \/ /\ Usable /\ tool.pc \in {"idle", "column"}
              /\ \E op \in Writes, id \in 0..MaxId, data \in Datas, q \in Wheres \cup {Nowhere} :
                     /\ op \in ByWhere => q \in Wheres
                     /\ op \notin ByWhere => q = Nowhere
                     /\ Write(op, id, data, q)
           \/ (\E size \in Sizes : Open(size)) \/ SelectPage \/ CountMany
<1>1. Unused \in Datas /\ 0 \in 0..MaxId
    BY DaoAssumption DEF Unused, Datas, Fits, Names
<1>2. /\ ById \subseteq Writes /\ ByWhere \subseteq Writes /\ {"UpsertNoneZero", "Update"} \subseteq Writes
      /\ ById \cap ByWhere = {} /\ {"UpsertNoneZero", "Update"} \cap ByWhere = {}
      /\ {"UpdateMany", "UpdateManyNoneZero", "DeleteMany"} \subseteq ByWhere
    BY DEF Writes, ById, ByWhere
<1>3. CASE /\ Usable /\ tool.pc \in {"idle", "column"}
           /\ \/ \E data \in Datas :
                    \/ \E op \in ById, id \in 0..MaxId : Write(op, id, data, Nowhere)
                    \/ Write("UpsertNoneZero", 0, data, Nowhere)
                    \/ \E op \in {"UpdateMany", "UpdateManyNoneZero"}, q \in Wheres : Write(op, 0, data, q)
              \/ Write("Update", 0, Unused, Nowhere)
              \/ \E q \in Wheres : Write("DeleteMany", 0, Unused, q)
    BY <1>1, <1>2, <1>3
<1>4. QED
    BY <1>3 DEF Serve

\* Every step keeps the invariant.
LEMMA NextTInv == TInv /\ [Next]_vars => TInv'
<1> SUFFICES ASSUME TInv, [Next]_vars PROVE TInv'
    OBVIOUS
<1>1. CASE UNCHANGED vars
    BY <1>1, SameTInv DEF vars, ddlVars
<1>2. CASE Serve
    <2>1. CASE (\E size \in Sizes : Open(size)) \/ SelectPage \/ CountMany
        BY <2>1, SameTInv DEF Open, SelectPage, CountMany
    <2>2. QED
        BY <1>2, <2>1, Served, WriteStep
<1>3. CASE Migrate
    <2>1. ASSUME NEW mode \in {"forward", "reverse"}, NEW dao \in BOOLEAN, Start(mode, dao)
          PROVE  TInv'
        BY <2>1, StartStep
    <2>2. CASE CreateTable \/ Describe \/ AlterColumn \/ Altered \/ ReadTable \/ GenDomainGo
        BY <2>2, CreateTableStep, DescribeStep, AlterColumnStep, AlteredStep, ReadTableStep,
           GenDomainGoStep
    <2>3. CASE TablesDone \/ GenDao \/ WriteDao \/ DaosDone \/ Crash \/ Outside
        BY <2>3, TablesDoneStep, GenDaoStep, WriteDaoStep, DaosDoneStep, OutsideStep
    <2>4. QED
        BY <1>3, <2>1, <2>2, <2>3 DEF Migrate, Tool
<1>4. QED
    BY <1>1, <1>2, <1>3 DEF Next

\* The project keeps its shape, and a clean forward run has applied what it is
\* done with, whatever the service writes meanwhile.
THEOREM ToolKeepsInv == Spec => []TInv
<1>1. QED
    BY InitTInv, NextTInv, PTL DEF Spec

\* At the end of a clean forward run every struct has been applied.
LEMMA TInvAgrees == TInv => TablesAgree
<1> SUFFICES ASSUME TInv, clean = "forward", tool = Idle, NEW t \in Table, Written(structs[t])
             PROVE  Agrees(t)
    BY DEF TablesAgree, Agrees, ColumnAgrees
<1>1. tool.pc = "idle"
    BY DEF Idle
<1>2. QED
    BY <1>1 DEF TInv, Applied

\* After a forward run without failures every struct has its table and every
\* field its column as the struct has it (CreateTable, AlterColumn).
THEOREM ForwardRunsAgree == Spec => []TablesAgree
<1>1. QED
    BY ToolKeepsInv, TInvAgrees, PTL

-----------------------------------------------------------------------------
(* The reader. *)

Rank(r) == Cardinality({k \in DOMAIN Rows : k < r})

\* What a reader has not seen comes after the page it is at, or, once it has
\* selected that page, after its end.
Reading ==
    /\ DOMAIN reader = {"pc", "size", "offset", "seen", "first", "kept"}
    /\ reader.pc \in {"idle", "select", "count", "done"}
    /\ reader.pc \in {"select", "count"} =>
           /\ tables[T] # None /\ reader.size \in Sizes
           /\ \E k \in Nat : reader.offset = k * reader.size
           /\ reader.kept => \A r \in reader.first : r \in DOMAIN Rows
    /\ reader.pc = "select" /\ reader.kept =>
           \A r \in reader.first \ reader.seen : Rank(r) >= reader.offset
    /\ reader.pc = "count" /\ reader.kept =>
           \A r \in reader.first \ reader.seen : Rank(r) >= reader.offset + reader.size
    /\ ReadAll

\* Without a next page, the pages read hold all n rows.
LEMMA PagesCover ==
    ASSUME NEW n \in Nat, NEW s \in Nat \ {0}, NEW k \in Nat,
           ~((n + s - 1) \div s > (k * s) \div s + 1)
    PROVE  n <= k * s + s
<1>1. k * s \in Nat
    OBVIOUS
<1>2. (k * s) \div s = k
    OBVIOUS
<1> DEFINE q == (n + s - 1) \div s
<1>3. q \in Nat /\ n + s - 1 < s * q + s
    OBVIOUS
<1> HIDE DEF q
<1>4. q <= k + 1
    BY <1>2, <1>3 DEF q
<1>5. s * q <= s * (k + 1)
    BY <1>3, <1>4
<1>6. s * (k + 1) = k * s + s /\ s * q \in Int
    BY <1>3
<1>7. QED
    BY <1>1, <1>3, <1>5, <1>6

\* The rank of a row is below the number of rows, and grows with them.
LEMMA Ranks ==
    ASSUME NEW rows, rows \subseteq 0..MaxId
    PROVE  /\ IsFiniteSet(rows) /\ Cardinality(rows) \in Nat
           /\ \A r : Cardinality({k \in rows : k < r}) \in Nat
           /\ \A r \in rows : Cardinality({k \in rows : k < r}) < Cardinality(rows)
           /\ \A more : rows \subseteq more /\ more \subseteq 0..MaxId =>
                  \A r : Cardinality({k \in rows : k < r}) <= Cardinality({k \in more : k < r})
<1>1. \A s : s \subseteq 0..MaxId => IsFiniteSet(s) /\ Cardinality(s) \in Nat
    <2>1. IsFiniteSet(0..MaxId)
        BY DaoAssumption, FS_Interval
    <2>2. QED
        BY <2>1, FS_Subset, FS_CardinalityType
<1>2. ASSUME NEW r \in rows PROVE Cardinality({k \in rows : k < r}) < Cardinality(rows)
    <2>1. PICK low : low = {k \in rows : k < r}
        OBVIOUS
    <2>2. low \subseteq rows /\ r \notin low
        BY <2>1, DaoAssumption
    <2>3. /\ Cardinality(low) <= Cardinality(rows)
          /\ Cardinality(low) = Cardinality(rows) => rows = low
        BY <1>1, <2>2, FS_Subset
    <2>4. Cardinality(low) \in Nat /\ Cardinality(rows) \in Nat
        BY <1>1, <2>2
    <2>5. QED
        BY <2>1, <2>2, <2>3, <2>4
<1>3. ASSUME NEW more, rows \subseteq more, more \subseteq 0..MaxId, NEW r
      PROVE  Cardinality({k \in rows : k < r}) <= Cardinality({k \in more : k < r})
    <2>1. {k \in rows : k < r} \subseteq {k \in more : k < r} /\ {k \in more : k < r} \subseteq 0..MaxId
        BY <1>3
    <2>2. QED
        BY <1>1, <2>1, FS_Subset
<1>4. \A r : {k \in rows : k < r} \subseteq 0..MaxId
    OBVIOUS
<1>5. QED
    BY <1>1, <1>2, <1>3, <1>4

\* At first nobody reads.
LEMMA InitReading == DaoInit => Reading
BY DEF DaoInit, NoReader, Reading, ReadAll

\* A reader opens at the first page, with every row ahead of it.
LEMMA OpenReading == ASSUME TInv, NEW size \in Sizes, Open(size) PROVE Reading'
<1>1. /\ reader' = [NoReader EXCEPT !.pc = "select", !.size = size, !.first = DOMAIN Rows]
      /\ tables' = tables /\ tables[T] # None
    BY DEF Open, ddlVars, Usable
<1>2. /\ DOMAIN reader' = {"pc", "size", "offset", "seen", "first", "kept"}
      /\ reader'.pc = "select" /\ reader'.size = size /\ reader'.offset = 0
      /\ reader'.first = DOMAIN Rows
    BY <1>1 DEF NoReader
<1>3. Rows' = Rows /\ \A r : Rank(r)' = Rank(r)
    BY <1>1 DEF Rows, Rank
<1>4. size \in Nat /\ 0 = 0 * size
    BY DaoAssumption
<1>5. \A r \in DOMAIN Rows : Rank(r) >= 0
    BY <1>1, Ranks DEF TInv, RowIds, Rank
<1>6. (\A r \in reader.first \ reader.seen : Rank(r) >= reader.offset)'
    BY <1>2, <1>3, <1>5
<1>7. QED
    BY <1>1, <1>2, <1>3, <1>4, <1>6 DEF Reading, ReadAll

\* It has seen the rows of the page that it selects.
LEMMA SelectReading == ASSUME TInv, Reading, SelectPage PROVE Reading'
<1>1. /\ reader.pc = "select" /\ tables' = tables
      /\ reader' = [reader EXCEPT !.pc = "count", !.seen = @ \cup Page(reader.offset, reader.size)]
    BY DEF SelectPage, ddlVars
<1>2. PICK o, s, k : /\ o = reader.offset /\ s = reader.size /\ k \in Nat /\ o = k * s
                     /\ s \in Sizes /\ tables[T] # None
    BY <1>1 DEF Reading
<1>3. s \in Nat \ {0} /\ o \in Nat
    BY <1>2, DaoAssumption
<1>4. /\ DOMAIN reader' = {"pc", "size", "offset", "seen", "first", "kept"}
      /\ reader'.pc = "count" /\ reader'.size = s /\ reader'.offset = o
      /\ reader'.first = reader.first /\ reader'.kept = reader.kept
      /\ reader'.seen = reader.seen \cup Page(o, s)
    BY <1>1, <1>2 DEF Reading
<1>5. Rows' = Rows /\ \A r : Rank(r)' = Rank(r)
    BY <1>1 DEF Rows, Rank
<1>6. ASSUME reader.kept, NEW r \in reader.first, r \notin reader.seen, r \notin Page(o, s)
      PROVE  Rank(r) >= o + s
    <2>1. r \in DOMAIN Rows /\ Rank(r) >= o
        BY <1>1, <1>2, <1>6 DEF Reading
    <2>2. ~(o <= Rank(r) /\ Rank(r) < o + s)
        BY <1>6, <2>1 DEF Page, Rank
    <2>3. Rank(r) \in Nat
        BY <1>2, Ranks DEF TInv, RowIds, Rank
    <2>4. QED
        BY <1>3, <2>1, <2>2, <2>3
<1>7. reader'.kept => \A r \in reader'.first \ reader'.seen : Rank(r)' >= reader'.offset + reader'.size
    BY <1>4, <1>5, <1>6
<1>8. QED
    BY <1>1, <1>2, <1>4, <1>5, <1>7 DEF Reading, ReadAll

\* It goes on unless its pages cover the rows.
LEMMA CountReading == ASSUME TInv, Reading, CountMany PROVE Reading'
<1>1. /\ reader.pc = "count" /\ tables' = tables
      /\ \/ reader' = [reader EXCEPT !.pc = "select", !.offset = @ + reader.size]
         \/ ~HasNext(reader.offset, reader.size) /\ reader' = [reader EXCEPT !.pc = "done"]
    BY DEF CountMany, ddlVars
<1>2. PICK o, s, k : /\ o = reader.offset /\ s = reader.size /\ k \in Nat /\ o = k * s
                     /\ s \in Sizes /\ tables[T] # None
    BY <1>1 DEF Reading
<1>3. s \in Nat \ {0} /\ o \in Nat /\ k + 1 \in Nat /\ o + s = (k + 1) * s
    BY <1>2, DaoAssumption
<1>4. Rows' = Rows /\ \A r : Rank(r)' = Rank(r)
    BY <1>1 DEF Rows, Rank
<1>5. reader.kept => \A r \in reader.first : r \in DOMAIN Rows /\ (r \notin reader.seen => Rank(r) >= o + s)
    BY <1>1, <1>2 DEF Reading
<1>6. CASE reader' = [reader EXCEPT !.pc = "select", !.offset = @ + reader.size]
    <2>1. /\ DOMAIN reader' = {"pc", "size", "offset", "seen", "first", "kept"}
          /\ reader'.pc = "select" /\ reader'.size = s /\ reader'.offset = o + s
          /\ reader'.first = reader.first /\ reader'.kept = reader.kept /\ reader'.seen = reader.seen
        BY <1>2, <1>6 DEF Reading
    <2>2. (reader.kept => \A r \in reader.first \ reader.seen : Rank(r) >= reader.offset)'
        BY <1>4, <1>5, <2>1
    <2>3. QED
        BY <1>1, <1>2, <1>3, <1>4, <1>5, <2>1, <2>2 DEF Reading, ReadAll
<1>7. CASE ~HasNext(o, s) /\ reader' = [reader EXCEPT !.pc = "done"]
    <2>1. /\ DOMAIN reader' = {"pc", "size", "offset", "seen", "first", "kept"}
          /\ reader'.pc = "done" /\ reader'.first = reader.first
          /\ reader'.kept = reader.kept /\ reader'.seen = reader.seen
        BY <1>7 DEF Reading
    <2>2. DOMAIN Rows \subseteq 0..MaxId
        BY <1>2 DEF TInv, RowIds
    <2>3. Cardinality(DOMAIN Rows) <= o + s
        BY <1>2, <1>3, <1>7, <2>2, Ranks, PagesCover DEF HasNext, PageNo
    <2>4. \A r \in DOMAIN Rows : Rank(r) < o + s
        BY <1>3, <2>2, <2>3, Ranks DEF Rank
    <2>5. reader.kept => reader.first \subseteq reader.seen
        <3>1. ASSUME reader.kept, NEW r \in reader.first, r \notin reader.seen PROVE FALSE
            <4>1. Rank(r) \in Nat
                BY <2>2, Ranks DEF Rank
            <4>2. Rank(r) < o + s /\ Rank(r) >= o + s
                BY <1>5, <2>4, <3>1
            <4>3. QED
                BY <1>3, <4>1, <4>2
        <3>2. QED
            BY <3>1
    <2>6. QED
        BY <2>1, <2>5 DEF Reading, ReadAll
<1>8. QED
    BY <1>1, <1>2, <1>6, <1>7

\* A write that takes no row away moves no unseen row before the page.
LEMMA WriteReading ==
    ASSUME TInv, Reading, Usable, NEW op, NEW id, NEW data, NEW q, Write(op, id, data, q)
    PROVE  Reading'
<1>1. \E rows : /\ DOMAIN rows \subseteq 0..MaxId
                /\ tables' = [tables EXCEPT ![T].rows = rows]
                /\ reader' = [reader EXCEPT !.kept = @ /\ DOMAIN Rows \subseteq DOMAIN rows]
    BY DEF Write
<1>2. PICK rows : /\ DOMAIN rows \subseteq 0..MaxId
                  /\ tables' = [tables EXCEPT ![T].rows = rows]
                  /\ reader' = [reader EXCEPT !.kept = @ /\ DOMAIN Rows \subseteq DOMAIN rows]
    BY <1>1
<1>3. T \in Table /\ tables[T] # None /\ DOMAIN tables[T] = {"is", "cols", "pk", "indexes", "rows"}
    BY DaoAssumption, Kinds DEF Usable, TInv, Shapes
<1>4. tables'[T] # None /\ Rows' = rows
    <2>1. tables'[T] = [tables[T] EXCEPT !.rows = rows]
        BY <1>2, <1>3 DEF TInv, Shapes
    <2>2. DOMAIN tables'[T] = {"is", "cols", "pk", "indexes", "rows"} /\ tables'[T].rows = rows
        BY <1>3, <2>1
    <2>3. QED
        BY <2>2, Kinds DEF Rows
<1>5. /\ DOMAIN reader' = {"pc", "size", "offset", "seen", "first", "kept"}
      /\ reader'.pc = reader.pc /\ reader'.size = reader.size /\ reader'.offset = reader.offset
      /\ reader'.first = reader.first /\ reader'.seen = reader.seen
      /\ reader'.kept <=> reader.kept /\ DOMAIN Rows \subseteq DOMAIN rows
    BY <1>2 DEF Reading
<1>6. DOMAIN Rows \subseteq 0..MaxId
    BY <1>3 DEF TInv, RowIds
<1>7. DOMAIN Rows \subseteq DOMAIN rows =>
          \A r : /\ Rank(r) \in Nat /\ Rank(r)' \in Nat /\ Rank(r) <= Rank(r)'
    BY <1>2, <1>4, <1>6, Ranks DEF Rank
<1>8. reader.pc \in {"select", "count"} =>
          /\ reader.offset \in Nat /\ reader.size \in Nat
          /\ \E k \in Nat : reader.offset = k * reader.size
    BY DaoAssumption DEF Reading
<1>9. (reader.pc = "select" /\ reader.kept =>
          \A r \in reader.first \ reader.seen : Rank(r) >= reader.offset)'
    BY <1>5, <1>7, <1>8 DEF Reading
<1>10. (reader.pc = "count" /\ reader.kept =>
          \A r \in reader.first \ reader.seen : Rank(r) >= reader.offset + reader.size)'
    BY <1>5, <1>7, <1>8 DEF Reading
<1>11. ReadAll'
    BY <1>5 DEF Reading, ReadAll
<1>12. (reader.pc \in {"select", "count"} =>
           /\ tables[T] # None /\ reader.size \in Sizes
           /\ \E k \in Nat : reader.offset = k * reader.size
           /\ reader.kept => \A r \in reader.first : r \in DOMAIN Rows)'
    BY <1>4, <1>5 DEF Reading
<1>13. QED
    BY <1>5, <1>9, <1>10, <1>11, <1>12 DEF Reading

\* Every step keeps what is known of a reader.
LEMMA NextReading == TInv /\ Reading /\ [Next]_vars => Reading'
<1> SUFFICES ASSUME TInv, Reading, [Next]_vars PROVE Reading'
    OBVIOUS
<1>1. CASE UNCHANGED vars
    BY <1>1 DEF vars, Reading, ReadAll, Rank, Rows
<1>2. CASE Serve
    BY <1>2, Served, WriteReading, OpenReading, SelectReading, CountReading
<1>3. CASE Migrate
    <2>1. reader' = NoReader
        BY <1>3 DEF Migrate
    <2>2. QED
        BY <2>1 DEF NoReader, Reading, ReadAll
<1>4. QED
    BY <1>1, <1>2, <1>3 DEF Next

\* A caller of PageMany that goes on while HasNext sees every row that was there
\* when it began, if none is deleted meanwhile.
THEOREM EveryRowIsRead == Spec => []ReadAll
<1>1. TInv /\ Reading => ReadAll
    BY DEF Reading
<1>2. QED
    BY InitTInv, NextTInv, InitReading, NextReading, <1>1, PTL DEF Spec

-----------------------------------------------------------------------------
(* One write of the service. *)

\* A non-empty set of natural numbers has a least element.
LEMMA LeastElement ==
    ASSUME NEW S \in SUBSET Nat, S # {}
    PROVE  \E x \in S : \A y \in S : x <= y
<1>1. \E x \in S : \A y \in S : ~(<<y, x>> \in OpToRel(<, Nat))
    BY NatLessThanWellFounded, WFMin
<1>2. PICK x \in S : \A y \in S : ~(<<y, x>> \in OpToRel(<, Nat))
    BY <1>1
<1>3. ASSUME NEW y \in S PROVE x <= y
    <2>1. ~(y < x)
        BY <1>2, Zenon DEF OpToRel
    <2>2. QED
        BY <2>1
<1>4. QED
    BY <1>3

\* The next value of a counter is no key yet.
LEMMA NextIdNew ==
    ASSUME DOMAIN Rows \subseteq 0..MaxId PROVE NextId \notin DOMAIN Rows
<1> DEFINE S == {0} \cup DOMAIN Rows
           gaps == {MaxId - x : x \in S}
<1>1. S \subseteq 0..MaxId /\ MaxId \in Nat
    BY DaoAssumption
<1>2. gaps \in SUBSET Nat /\ gaps # {}
    BY <1>1
<1>3. PICK g \in gaps : \A h \in gaps : g <= h
    BY <1>2, LeastElement
<1>4. PICK x \in S : g = MaxId - x
    BY <1>3
<1>5. \A y \in S : x >= y
    <2>1. ASSUME NEW y \in S PROVE x >= y
        <3>1. MaxId - x <= MaxId - y
            BY <1>3, <1>4
        <3>2. QED
            BY <1>1, <1>4, <3>1
    <2>2. QED
        BY <2>1
<1> HIDE DEF S
<1>6. Max(S) \in S /\ \A y \in S : Max(S) >= y
    BY <1>4, <1>5, Zenon DEF Max
<1>7. Max(S) + 1 \notin S
    <2>1. PICK m : m = Max(S)
        OBVIOUS
    <2>2. ~(m >= m + 1)
        <3>1. m \in S
            BY <1>6, <2>1, Zenon
        <3>2. m \in Nat
            BY <1>1, <3>1
        <3>3. QED
            BY <3>2
    <2>3. \A y \in S : m >= y
        BY <1>6, <2>1, Zenon
    <2>4. QED
        BY <2>1, <2>2, <2>3, Zenon
<1>8. QED
    BY <1>7 DEF NextId, S

\* What a service can rely on.
LEMMA UsableFacts ==
    ASSUME TInv, Usable
    PROVE  /\ UpdateColumns \subseteq InsertColumns /\ Pk \in InsertColumns /\ ~Timed(Field(Pk))
           /\ T \in Table /\ tables[T] # None /\ IsTable(tables[T])
           /\ DOMAIN tables[T] = {"is", "cols", "pk", "indexes", "rows"}
           /\ DOMAIN Rows \subseteq 0..MaxId /\ NextId \notin DOMAIN Rows
           /\ Rowed(Rows)
           /\ tables[T].pk = {Pk}
<1>1. T \in Table /\ tables[T] # None
    BY DaoAssumption DEF Usable
<1>2. IsTable(tables[T]) /\ DOMAIN tables[T] = {"is", "cols", "pk", "indexes", "rows"} /\ Rowed(Rows)
    BY <1>1, Kinds DEF TInv, Shapes, Rows, Rowed
<1>3. DOMAIN Rows \subseteq 0..MaxId /\ NextId \notin DOMAIN Rows
    BY <1>1, NextIdNew DEF TInv, RowIds
<1>4. PICK n \in InsertColumns : File.key = {n} /\ ~Timed(Field(n))
    BY DEF Usable
<1>5. Pk = n /\ tables[T].pk = {Pk}
    BY <1>4 DEF Pk, Usable
<1>6. QED
    BY <1>1, <1>2, <1>3, <1>4, <1>5 DEF UpdateColumns

\* What an INSERT that succeeds does.
LEMMA InsertDoes ==
    ASSUME NEW vals, NEW id, Insert(vals, id).ok
    PROVE  LET key == KeyFor(vals, id)
               rows == Insert(vals, id).rows
           IN /\ Takes(tables[T], vals)
              /\ DOMAIN rows = DOMAIN Rows \cup {key} /\ key \notin DOMAIN Rows
              /\ \A r \in DOMAIN Rows : rows[r] = Rows[r]
              /\ \A n \in DOMAIN vals \ tables[T].pk : rows[key][n] = vals[n]
<1> DEFINE t == tables[T]
           key == KeyFor(vals, id)
           rows == [r \in DOMAIN Rows \cup {key} |-> IF r = key THEN Row(t, vals) ELSE Rows[r]]
<1>1. Bad.ok = FALSE /\ Good(rows).rows = rows
    BY DEF Bad, Good
<1>2. Takes(t, vals) /\ Repeated(vals, key) = {} /\ Insert(vals, id) = Good(rows)
    BY <1>1 DEF Insert
<1>3. key \notin DOMAIN Rows
    BY <1>2 DEF Repeated
<1>4. \A n \in DOMAIN vals \ t.pk : Row(t, vals)[n] = vals[n]
    BY <1>2 DEF Takes, Known, Row
<1>5. Insert(vals, id).rows = rows
    BY <1>1, <1>2
<1>6. QED
    BY <1>2, <1>3, <1>4, <1>5

\* What an UPDATE that succeeds does.
LEMMA UpdateDoes ==
    ASSUME Rowed(Rows), NEW ids, NEW vals, Update(ids, vals).ok
    PROVE  LET rows == Update(ids, vals).rows IN
           /\ DOMAIN rows = DOMAIN Rows
           /\ \A r \in DOMAIN Rows : DOMAIN rows[r] = DOMAIN Rows[r]
           /\ \A r \in DOMAIN Rows \ ids : rows[r] = Rows[r]
           /\ \A r \in DOMAIN Rows \cap ids :
                  /\ \A n \in DOMAIN vals : rows[r][n] = vals[n]
                  /\ \A n \in DOMAIN Rows[r] \ DOMAIN vals : rows[r][n] = Rows[r][n]
<1> DEFINE rows == Updated(ids, vals)
<1>1. Bad.ok = FALSE /\ Good(rows).rows = rows
    BY DEF Bad, Good
<1>2. DOMAIN vals \subseteq DOMAIN tables[T].cols /\ Update(ids, vals) = Good(rows)
    BY <1>1 DEF Update, Known
<1>3. \A r \in DOMAIN Rows : DOMAIN Rows[r] = DOMAIN tables[T].cols
    BY DEF Rowed
<1>4. \A r \in DOMAIN Rows :
          /\ DOMAIN Overwrite(Rows[r], vals) = DOMAIN Rows[r]
          /\ \A n \in DOMAIN vals : Overwrite(Rows[r], vals)[n] = vals[n]
          /\ \A n \in DOMAIN Rows[r] \ DOMAIN vals : Overwrite(Rows[r], vals)[n] = Rows[r][n]
    BY <1>2, <1>3 DEF Overwrite
<1>5. Update(ids, vals).rows = rows
    BY <1>1, <1>2
<1>6. /\ DOMAIN rows = DOMAIN Rows
      /\ \A r \in DOMAIN Rows : rows[r] = IF r \in ids THEN Overwrite(Rows[r], vals) ELSE Rows[r]
    BY DEF Updated
<1> HIDE DEF rows
<1>7. QED
    BY <1>4, <1>5, <1>6

\* WritesAsAsked of an operation o and the rows after it.
Value(o, n) == IF o.op \in ByName THEN o.data[n] ELSE Given(n, o.data)
CountedBy(o) == tables[T].cols[Pk].auto /\ (o.id = 0 \/ o.op = "UpsertNoneZero" \/ o.data[Pk] = "nil")
SharedBy(o, r) == \E x \in Uniques(tables[T]) : \A n \in InsertColumns \cap ToSet(x.cols) :
    o.before[r][n] = Value(o, n)
AboutBy(o, after, rows) ==
    LET before == DOMAIN o.before
        added == DOMAIN after \ before
    IN CASE o.op \in ByWhere -> rows = {r \in before : Holds(o.where, o.before[r])}
         [] o.op = "UpdateNoneZero" -> rows = {o.id} \cap before
         [] o.op = "Insert" -> rows = added /\ Cardinality(added) = 1
         [] o.op \in {"Upsert", "UpsertNoneZero"} ->
                \E r \in DOMAIN after : /\ rows = {r} /\ added \subseteq rows
                                        /\ IF o.id \in before /\ ~CountedBy(o) THEN r = o.id
                                           ELSE r \in before => SharedBy(o, r)

\* A value given to column n is the one asked for.
Right(o, n, cell) ==
    Value(o, n) \in {"set", "odd"} =>
        \/ cell = IF o.op \in ByName THEN Value(o, n) ELSE Printed(Value(o, n))
        \/ o.op \in {"UpdateMany", "UpsertNoneZero"} /\ ~Timed(Field(n))
Done(o, after, rows) ==
    /\ DOMAIN after = IF o.op = "DeleteMany" THEN DOMAIN o.before \ rows ELSE DOMAIN o.before \cup rows
    /\ \A r \in DOMAIN after \ rows : after[r] = o.before[r]
    /\ \A r \in DOMAIN after \cap rows : \A n \in DOMAIN after[r] \ tables[T].pk :
           IF n \in UpdateColumns
           THEN /\ Right(o, n, after[r][n])
                /\ o.op \in NoneZero /\ ~True(n, o.data) /\ r \in DOMAIN o.before =>
                       after[r][n] = o.before[r][n]
           ELSE r \in DOMAIN o.before => after[r][n] = o.before[r][n]
AsAsked(o, after) ==
    \E rows \in SUBSET (DOMAIN o.before \cup DOMAIN after) : AboutBy(o, after, rows) /\ Done(o, after, rows)

\* The operation with what it is given.
Op(op, id, data, q, ok) ==
    [op |-> op, id |-> id, data |-> data, where |-> q, before |-> Rows, ok |-> ok]

\* A row that is inserted is the only one written.
LEMMA InsertDone ==
    ASSUME TInv, Usable, NEW o, o.before = Rows, o.op \in {"Insert", "Upsert", "UpsertNoneZero"},
           NEW vals, NEW id, Insert(vals, id).ok,
           \A n \in UpdateColumns : n \in DOMAIN vals /\ Right(o, n, vals[n])
    PROVE  Done(o, Insert(vals, id).rows, {KeyFor(vals, id)})
<1>1. PICK key, rows : key = KeyFor(vals, id) /\ rows = Insert(vals, id).rows
    OBVIOUS
<1>2. /\ DOMAIN rows = DOMAIN Rows \cup {key} /\ key \notin DOMAIN Rows
      /\ \A r \in DOMAIN Rows : rows[r] = Rows[r]
      /\ \A n \in DOMAIN vals \ tables[T].pk : rows[key][n] = vals[n]
    BY <1>1, InsertDoes
<1>3. QED
    BY <1>1, <1>2 DEF Done

\* Rows that are updated are the only ones written, in the columns given.
LEMMA UpdateDone ==
    ASSUME TInv, Usable, NEW o, o.before = Rows, o.op # "DeleteMany",
           NEW vals, NEW ids, Update(ids, vals).ok, DOMAIN vals \subseteq UpdateColumns,
           \A n \in UpdateColumns :
               IF n \in DOMAIN vals THEN Right(o, n, vals[n]) /\ (o.op \in NoneZero => True(n, o.data))
               ELSE Value(o, n) \notin {"set", "odd"}
    PROVE  Done(o, Update(ids, vals).rows, ids \cap DOMAIN Rows)
<1>1. PICK rows : rows = Update(ids, vals).rows
    OBVIOUS
<1>2. /\ DOMAIN rows = DOMAIN Rows
      /\ \A r \in DOMAIN Rows : DOMAIN rows[r] = DOMAIN Rows[r]
      /\ \A r \in DOMAIN Rows \ ids : rows[r] = Rows[r]
      /\ \A r \in DOMAIN Rows \cap ids :
             /\ \A n \in DOMAIN vals : rows[r][n] = vals[n]
             /\ \A n \in DOMAIN Rows[r] \ DOMAIN vals : rows[r][n] = Rows[r][n]
    BY <1>1, UpdateDoes, UsableFacts
<1>3. ASSUME NEW r \in DOMAIN Rows \cap ids, NEW n \in DOMAIN rows[r]
      PROVE  IF n \in UpdateColumns
             THEN /\ Right(o, n, rows[r][n])
                  /\ o.op \in NoneZero /\ ~True(n, o.data) => rows[r][n] = Rows[r][n]
             ELSE rows[r][n] = Rows[r][n]
    <2>1. CASE n \in DOMAIN vals
        BY <1>2, <1>3, <2>1
    <2>2. CASE n \notin DOMAIN vals
        BY <1>2, <1>3, <2>2 DEF Right
    <2>3. QED
        BY <2>1, <2>2
<1>4. QED
    BY <1>1, <1>2, <1>3 DEF Done

\* What the statements give: named parameters, the clause and the non-zero values.
LEMMA NamedGives ==
    ASSUME NEW o, o.op \in ByName, NEW columns, NEW n \in columns, o.data[n] # "null"
    PROVE  /\ DOMAIN Named(columns, o.data) = columns
           /\ Right(o, n, Named(columns, o.data)[n])
           /\ Named(columns, o.data)[n] = "null" <=> o.data[n] = "nil"
           /\ Named(columns, o.data)[n] \in {"null", "no date", o.data[n]}
<1>1. Named(columns, o.data)[n] = Sent(Field(n), o.data[n]) /\ Value(o, n) = o.data[n]
    BY DEF Named, Value
<1>2. QED
    BY <1>1 DEF Sent, Right, Named

\* The clause that isNil guards gives times only.
LEMMA ClauseGives ==
    ASSUME NEW o, o.op \in {"UpdateMany", "UpsertNoneZero"}, NEW columns, NEW n \in columns
    PROVE  /\ DOMAIN InsertClause(columns, o.data) = columns
           /\ Right(o, n, InsertClause(columns, o.data)[n])
           /\ ~Timed(Field(n)) => InsertClause(columns, o.data)[n] = "null"
           /\ InsertClause(columns, o.data)[n] \in {"null", "other", Value(o, n)}
<1>1. InsertClause(columns, o.data)[n] = IF Timed(Field(n)) THEN Printed(Given(n, o.data)) ELSE "null"
    BY DEF InsertClause
<1>2. Value(o, n) = Given(n, o.data)
    BY DEF Value, ByName
<1>3. DOMAIN InsertClause(columns, o.data) = columns
    BY DEF InsertClause
<1>4. QED
    BY <1>1, <1>2, <1>3 DEF Printed, Right, ByName

\* The clause of the values that are not zero gives each as it prints.
LEMMA NoneZeroGives ==
    ASSUME NEW o, o.op \in NoneZero
    PROVE  LET set == NoneZeroSet(o.data) IN
           /\ DOMAIN set = {n \in UpdateColumns : True(n, o.data)}
           /\ \A n \in UpdateColumns :
                  IF n \in DOMAIN set THEN Right(o, n, set[n]) /\ (o.op \in NoneZero => True(n, o.data))
                  ELSE Value(o, n) \notin {"set", "odd"}
<1>1. \A n : Value(o, n) = Given(n, o.data)
    BY DEF Value, ByName, NoneZero
<1>2. PICK set : set = NoneZeroSet(o.data)
    OBVIOUS
<1>3. /\ DOMAIN set = {n \in UpdateColumns : True(n, o.data)}
      /\ \A n \in DOMAIN set : set[n] = Printed(Given(n, o.data))
    BY <1>2 DEF NoneZeroSet
<1>4. \A n \in DOMAIN set : Right(o, n, set[n])
    BY <1>1, <1>3 DEF Right, NoneZero, ByName
<1>5. \A n \in UpdateColumns \ DOMAIN set : Value(o, n) \notin {"set", "odd"}
    BY <1>1, <1>3 DEF True
<1>6. QED
    BY <1>2, <1>3, <1>4, <1>5

\* Values of a row that repeats another, where they are given by an operation that
\* inserts, are the other's.
LEMMA RepeatsShares ==
    ASSUME TInv, Usable, NEW o, o.before = Rows, NEW vals, Takes(tables[T], vals),
           DOMAIN vals = InsertColumns,
           \A n \in InsertColumns : vals[n] \in {"null", "no date", "other", Value(o, n)},
           NEW r \in DOMAIN Rows, NEW x \in Uniques(tables[T]), Agree(x, Rows[r], Row(tables[T], vals))
    PROVE  SharedBy(o, r)
<1>1. ASSUME NEW n \in InsertColumns \cap ToSet(x.cols) PROVE o.before[r][n] = Value(o, n)
    <2>1. n \notin tables[T].pk
        BY <1>1 DEF Uniques
    <2>2. n \in DOMAIN tables[T].cols /\ vals[n] # "no date"
        BY <1>1 DEF Takes, Known
    <2>3. Row(tables[T], vals)[n] = vals[n]
        BY <1>1, <2>1, <2>2 DEF Row
    <2>4. Rows[r][n] = vals[n] /\ vals[n] \notin {"null", "other"}
        BY <1>1, <2>3 DEF Agree
    <2>5. QED
        BY <1>1, <2>2, <2>4
<1>2. QED
    BY <1>1 DEF SharedBy

\* The key of an upsert is the one given, unless it is counted.
LEMMA UpsertKey ==
    ASSUME TInv, Usable, NEW o, NEW vals, NEW id, Takes(tables[T], vals), DOMAIN vals = InsertColumns,
           \/ o.op = "Upsert" /\ id = o.id /\ (vals[Pk] = "null" <=> o.data[Pk] = "nil")
           \/ o.op = "UpsertNoneZero" /\ vals[Pk] = "null"
    PROVE  KeyFor(vals, id) = IF CountedBy(o) THEN NextId ELSE o.id
<1>1. Pk \in InsertColumns /\ Pk \in tables[T].pk
    BY UsableFacts
<1>2. Pk \in DOMAIN tables[T].cols
    BY <1>1 DEF Takes, Known
<1>3. ~tables[T].cols[Pk].null
    BY <1>1, <1>2, UsableFacts, Kinds
<1>4. vals[Pk] = "null" => tables[T].cols[Pk].auto
    BY <1>1, <1>3 DEF Takes
<1>5. QED
    BY <1>4 DEF KeyFor, CountedBy

\* An upsert that inserts, or updates a row that is repeated.
LEMMA UpsertAsked ==
    ASSUME TInv, Usable, NEW o, o.before = Rows, o.op \in {"Upsert", "UpsertNoneZero"},
           NEW vals, NEW id, NEW set, NEW res \in Upsert(vals, id, set), res.ok,
           DOMAIN vals = InsertColumns, DOMAIN set \subseteq UpdateColumns,
           \A n \in InsertColumns : /\ Right(o, n, vals[n])
                                    /\ vals[n] \in {"null", "no date", "other", Value(o, n)},
           \A n \in UpdateColumns :
               IF n \in DOMAIN set THEN Right(o, n, set[n]) /\ (o.op \in NoneZero => True(n, o.data))
               ELSE Value(o, n) \notin {"set", "odd"},
           \/ o.op = "Upsert" /\ id = o.id /\ (vals[Pk] = "null" <=> o.data[Pk] = "nil")
           \/ o.op = "UpsertNoneZero" /\ vals[Pk] = "null"
    PROVE  AsAsked(o, res.rows)
<1>1. PICK key, rows : key = KeyFor(vals, id) /\ rows = res.rows
    OBVIOUS
<1>2. ~Bad.ok
    BY DEF Bad
<1>3. \/ Insert(vals, id).ok /\ res = Insert(vals, id)
      \/ /\ Takes(tables[T], vals) /\ Repeated(vals, key) # {}
         /\ \E r \in Repeated(vals, key) : res = Update({r}, set)
    BY <1>1, <1>2 DEF Upsert
<1>4. UpdateColumns \subseteq InsertColumns /\ NextId \notin DOMAIN Rows
    BY UsableFacts
<1>5. Takes(tables[T], vals)
    BY <1>3, InsertDoes
<1>6. key = IF CountedBy(o) THEN NextId ELSE o.id
    BY <1>1, <1>5, UpsertKey
<1>7. CASE Insert(vals, id).ok /\ res = Insert(vals, id)
    <2>1. Done(o, rows, {key})
        BY <1>1, <1>4, <1>7, InsertDone
    <2>2. DOMAIN rows = DOMAIN Rows \cup {key} /\ key \notin DOMAIN Rows
        BY <1>1, <1>7, InsertDoes
    <2>3. AboutBy(o, rows, {key})
        BY <1>6, <2>2 DEF AboutBy, ByWhere
    <2>4. QED
        BY <1>1, <2>1, <2>2, <2>3 DEF AsAsked
<1>8. CASE \E r \in Repeated(vals, key) : res = Update({r}, set)
    <2>1. PICK r \in Repeated(vals, key) : res = Update({r}, set)
        BY <1>8
    <2>2. r \in DOMAIN Rows
        BY DEF Repeated
    <2>3. Done(o, rows, {r})
        <3>1. Done(o, rows, {r} \cap DOMAIN Rows)
            BY <1>1, <2>1, UpdateDone
        <3>2. {r} \cap DOMAIN Rows = {r}
            BY <2>2
        <3>3. QED
            BY <3>1, <3>2
    <2>4. DOMAIN rows = DOMAIN Rows
        <3>1. Rowed(Rows) /\ Update({r}, set).ok
            BY <2>1, UsableFacts
        <3>2. DOMAIN Update({r}, set).rows = DOMAIN Rows
            BY <3>1, UpdateDoes
        <3>3. QED
            BY <1>1, <2>1, <3>2
    <2>5. IF o.id \in DOMAIN Rows /\ ~CountedBy(o) THEN r = o.id ELSE SharedBy(o, r)
        <3>1. CASE key \in DOMAIN Rows
            BY <1>4, <1>6, <3>1 DEF Repeated
        <3>2. CASE key \notin DOMAIN Rows
            <4>1. PICK x \in Uniques(tables[T]) : Agree(x, Rows[r], Row(tables[T], vals))
                BY <3>2 DEF Repeated
            <4>2. SharedBy(o, r)
                BY <1>5, <2>2, <4>1, RepeatsShares
            <4>3. QED
                BY <1>6, <3>2, <4>2
        <3>3. QED
            BY <3>1, <3>2
    <2>6. AboutBy(o, rows, {r})
        BY <2>2, <2>4, <2>5 DEF AboutBy, ByWhere
    <2>7. QED
        BY <1>1, <2>2, <2>3, <2>6 DEF AsAsked
<1>9. QED
    BY <1>3, <1>7, <1>8

\* Every operation does what was asked.
LEMMA ResultAsAsked ==
    ASSUME TInv, Usable, NEW op \in Writes, NEW id, NEW data \in Datas, NEW q, ~Stale(op),
           NEW res \in Results(op, id, data, q), res.ok
    PROVE  AsAsked(Op(op, id, data, q, res.ok), res.rows)
<1>1. PICK o : o = Op(op, id, data, q, res.ok)
    OBVIOUS
<1>2. /\ o.op = op /\ o.id = id /\ o.data = data /\ o.where = q /\ o.before = Rows
    BY <1>1 DEF Op
<1>3. PICK rows : rows = res.rows
    OBVIOUS
<1>4. /\ UpdateColumns \subseteq InsertColumns /\ Pk \in InsertColumns /\ ~Timed(Field(Pk))
      /\ Rowed(Rows)
    BY UsableFacts
<1>5. ~Bad.ok
    BY DEF Bad
<1>6. op \in ByName => \A n \in InsertColumns : data[n] # "null" /\ data[n] # "no date"
    <2>1. op \in ByName => InsertColumns \subseteq Names(Struct)
        BY Zenon DEF Stale, ByName
    <2>2. data \in [Names(Struct) -> {"nil", "zero", "set", "odd", "wide"}]
        BY DEF Datas
    <2>3. QED
        BY <2>1, <2>2
\* The statements that insert.
<1>7. CASE op \in {"Insert", "Upsert"}
    <2> DEFINE vals == Named(InsertColumns, data)
               set == Named(UpdateColumns, data)
    <2>1. op \in ByName /\ op \notin NoneZero
        BY <1>7 DEF ByName, NoneZero
    <2>2. /\ DOMAIN vals = InsertColumns
          /\ \A n \in InsertColumns : /\ Right(o, n, vals[n])
                                      /\ vals[n] = "null" <=> data[n] = "nil"
                                      /\ vals[n] \in {"null", "no date", "other", Value(o, n)}
        <3>1. \A n : Value(o, n) = data[n]
            BY <1>2, <2>1 DEF Value
        <3>2. \A n \in InsertColumns : o.op \in ByName /\ o.data[n] # "null"
            BY <1>2, <1>6, <2>1
        <3>3. DOMAIN vals = InsertColumns
            BY DEF Named
        <3>4. ASSUME NEW n \in InsertColumns
              PROVE  /\ Right(o, n, vals[n])
                     /\ vals[n] = "null" <=> data[n] = "nil"
                     /\ vals[n] \in {"null", "no date", "other", Value(o, n)}
            <4>1. LET named == Named(InsertColumns, o.data)
                  IN /\ Right(o, n, named[n])
                     /\ named[n] = "null" <=> o.data[n] = "nil"
                     /\ named[n] \in {"null", "no date", o.data[n]}
                BY <3>2, NamedGives
            <4>2. QED
                BY <1>2, <3>1, <4>1
        <3>5. QED
            BY <3>3, <3>4
    <2>3. /\ DOMAIN set = UpdateColumns
          /\ \A n \in UpdateColumns : Right(o, n, set[n])
        <3>1. \A n \in UpdateColumns : o.op \in ByName /\ o.data[n] # "null"
            BY <1>2, <1>4, <1>6, <2>1
        <3>2. DOMAIN set = UpdateColumns
            BY DEF Named
        <3>3. ASSUME NEW n \in UpdateColumns PROVE Right(o, n, set[n])
            BY <1>2, <3>1, NamedGives
        <3>4. QED
            BY <3>2, <3>3
    <2> HIDE DEF vals, set
    <2>4. CASE op = "Insert"
        <3>1. res = Insert(vals, id)
            BY <2>4 DEF Results, vals
        <3>2. Done(o, rows, {KeyFor(vals, id)})
            BY <1>2, <1>3, <1>4, <2>2, <2>4, <3>1, InsertDone
        <3>3. DOMAIN rows = DOMAIN Rows \cup {KeyFor(vals, id)} /\ KeyFor(vals, id) \notin DOMAIN Rows
            BY <1>3, <3>1, InsertDoes
        <3>4. AboutBy(o, rows, {KeyFor(vals, id)})
            <4>1. DOMAIN rows \ DOMAIN Rows = {KeyFor(vals, id)}
                BY <3>3
            <4>2. Cardinality({KeyFor(vals, id)}) = 1
                BY FS_Singleton
            <4>3. QED
                BY <1>2, <2>4, <4>1, <4>2 DEF AboutBy, ByWhere
        <3>5. QED
            BY <1>1, <1>2, <1>3, <3>2, <3>3, <3>4 DEF AsAsked
    <2>5. CASE op = "Upsert"
        <3>1. res \in Upsert(vals, id, set)
            BY <2>5 DEF Results, vals, set
        <3>2. vals[Pk] = "null" <=> o.data[Pk] = "nil"
            BY <1>2, <1>4, <2>2
        <3>3. o.op = "Upsert" /\ o.op \notin NoneZero /\ id = o.id
            BY <1>2, <2>1, <2>5
        <3>4. AsAsked(o, res.rows)
            BY <1>2, <2>2, <2>3, <3>1, <3>2, <3>3, UpsertAsked
        <3>5. QED
            BY <1>1, <3>4
    <2>6. QED
        BY <1>7, <2>4, <2>5
<1>8. CASE op = "UpsertNoneZero"
    <2> DEFINE vals == InsertClause(InsertColumns, data)
               set == NoneZeroSet(data)
    <2>1. o.op = "UpsertNoneZero" /\ o.op \in NoneZero
        BY <1>2, <1>8 DEF NoneZero
    <2>2. /\ DOMAIN vals = InsertColumns
          /\ \A n \in InsertColumns : /\ Right(o, n, vals[n])
                                      /\ ~Timed(Field(n)) => vals[n] = "null"
                                      /\ vals[n] \in {"null", "no date", "other", Value(o, n)}
        <3>1. DOMAIN vals = InsertColumns
            BY DEF InsertClause
        <3>2. ASSUME NEW n \in InsertColumns
              PROVE  /\ Right(o, n, vals[n])
                     /\ ~Timed(Field(n)) => vals[n] = "null"
                     /\ vals[n] \in {"null", "no date", "other", Value(o, n)}
            <4>1. LET clause == InsertClause(InsertColumns, o.data)
                  IN /\ Right(o, n, clause[n])
                     /\ ~Timed(Field(n)) => clause[n] = "null"
                     /\ clause[n] \in {"null", "other", Value(o, n)}
                BY <2>1, ClauseGives
            <4>2. QED
                BY <1>2, <4>1
        <3>3. QED
            BY <3>1, <3>2
    <2>3. /\ DOMAIN set \subseteq UpdateColumns
          /\ \A n \in UpdateColumns :
                 IF n \in DOMAIN set THEN Right(o, n, set[n]) /\ (o.op \in NoneZero => True(n, o.data))
                 ELSE Value(o, n) \notin {"set", "odd"}
        BY <1>2, <2>1, NoneZeroGives
    <2>4. res \in Upsert(vals, 0, set)
        BY <1>5, <1>8 DEF Results
    <2> HIDE DEF vals, set
    <2>5. vals[Pk] = "null"
        BY <1>4, <2>2
    <2>6. AsAsked(o, res.rows)
        BY <1>2, <2>1, <2>2, <2>3, <2>4, <2>5, UpsertAsked
    <2>7. QED
        BY <1>1, <2>6
\* The statements that update.
<1>9. ASSUME NEW ids, NEW vals, op \in {"UpdateNoneZero", "UpdateMany", "UpdateManyNoneZero"},
             res = Update(ids, vals), DOMAIN vals \subseteq UpdateColumns,
             \A n \in UpdateColumns :
                 IF n \in DOMAIN vals THEN Right(o, n, vals[n]) /\ (o.op \in NoneZero => True(n, o.data))
                 ELSE Value(o, n) \notin {"set", "odd"},
             ids \cap DOMAIN Rows = IF op \in ByWhere THEN {r \in DOMAIN Rows : Holds(q, Rows[r])}
                                    ELSE {id} \cap DOMAIN Rows
      PROVE  AsAsked(o, rows)
    <2>1. Done(o, rows, ids \cap DOMAIN Rows)
        BY <1>2, <1>3, <1>9, UpdateDone
    <2>2. AboutBy(o, rows, ids \cap DOMAIN Rows)
        BY <1>2, <1>9 DEF AboutBy, ByWhere
    <2>3. QED
        BY <1>2, <2>1, <2>2 DEF AsAsked
<1>10. CASE op \in {"UpdateNoneZero", "UpdateManyNoneZero"}
    <2> DEFINE set == NoneZeroSet(data)
               ids == IF op \in ByWhere THEN Where(q) ELSE {id}
    <2>1. o.op \in NoneZero
        BY <1>2, <1>10 DEF NoneZero
    <2>2. /\ DOMAIN set \subseteq UpdateColumns
          /\ \A n \in UpdateColumns :
                 IF n \in DOMAIN set THEN Right(o, n, set[n]) /\ (o.op \in NoneZero => True(n, o.data))
                 ELSE Value(o, n) \notin {"set", "odd"}
        BY <1>2, <2>1, NoneZeroGives
    <2>3. res = Update(ids, set)
        BY <1>10 DEF Results, ByWhere
    <2>4. ids \cap DOMAIN Rows = IF op \in ByWhere THEN {r \in DOMAIN Rows : Holds(q, Rows[r])}
                                 ELSE {id} \cap DOMAIN Rows
        BY DEF Where
    <2> HIDE DEF set, ids
    <2>5. AsAsked(o, rows)
        BY <1>9, <1>10, <2>2, <2>3, <2>4
    <2>6. QED
        BY <1>1, <1>3, <2>5
<1>11. CASE op = "UpdateMany"
    <2> DEFINE vals == InsertClause(UpdateColumns, data)
    <2>1. DOMAIN vals = UpdateColumns /\ op \notin NoneZero /\ o.op \notin NoneZero
        BY <1>2, <1>11 DEF InsertClause, NoneZero
    <2>2. ASSUME NEW n \in UpdateColumns PROVE Right(o, n, vals[n])
        BY <1>2, <1>11, ClauseGives
    <2>3. res = Update(Where(q), vals)
        BY <1>5, <1>11 DEF Results
    <2>4. Where(q) \cap DOMAIN Rows = IF op \in ByWhere THEN {r \in DOMAIN Rows : Holds(q, Rows[r])}
                                      ELSE {id} \cap DOMAIN Rows
        BY <1>11 DEF Where, ByWhere
    <2> HIDE DEF vals
    <2>5. AsAsked(o, rows)
        BY <1>9, <1>11, <2>1, <2>2, <2>3, <2>4
    <2>6. QED
        BY <1>1, <1>3, <2>5
<1>12. CASE op = "DeleteMany"
    <2>1. res = Good([r \in DOMAIN Rows \ Where(q) |-> Rows[r]])
        BY <1>12 DEF Results
    <2>2. rows = [r \in DOMAIN Rows \ Where(q) |-> Rows[r]]
        BY <1>3, <2>1 DEF Good
    <2>3. DOMAIN rows = DOMAIN Rows \ Where(q) /\ \A r \in DOMAIN rows : rows[r] = Rows[r]
        BY <2>2
    <2>4. Where(q) = {r \in DOMAIN Rows : Holds(q, Rows[r])} /\ Where(q) \subseteq DOMAIN Rows
        BY DEF Where
    <2>5. Done(o, rows, Where(q))
        BY <1>2, <1>12, <2>3, <2>4 DEF Done
    <2>6. AboutBy(o, rows, Where(q))
        BY <1>2, <1>12, <2>4 DEF AboutBy, ByWhere
    <2>7. QED
        BY <1>1, <1>2, <1>3, <2>4, <2>5, <2>6 DEF AsAsked
<1>13. CASE op = "Update"
    BY <1>5, <1>13 DEF Results
<1>14. QED
    BY <1>7, <1>8, <1>10, <1>11, <1>12, <1>13 DEF Writes, ById, ByWhere

\* A write leaves one of its outcomes, and the columns as they were.
LEMMA WriteFacts ==
    ASSUME TInv, Usable, NEW op, NEW id, NEW data, NEW q, Write(op, id, data, q)
    PROVE  \E res \in Outcomes(op, id, data, q) :
               /\ last' = Op(op, id, data, q, res.ok)
               /\ Rows' = res.rows
               /\ tables'[T].cols = tables[T].cols /\ tables'[T].pk = tables[T].pk
               /\ tables'[T].indexes = tables[T].indexes
               /\ files' = files /\ structs' = structs
<1>1. PICK res \in Outcomes(op, id, data, q) :
          /\ tables' = [tables EXCEPT ![T].rows = res.rows]
          /\ last' = [op |-> op, id |-> id, data |-> data, where |-> q, before |-> Rows, ok |-> res.ok]
    BY DEF Write
<1>2. files' = files /\ structs' = structs
    BY DEF Write
<1>3. T \in DOMAIN tables /\ DOMAIN tables[T] = {"is", "cols", "pk", "indexes", "rows"}
    BY UsableFacts DEF TInv, Shapes
<1>4. tables'[T] = [tables[T] EXCEPT !.rows = res.rows]
    BY <1>1, <1>3
<1>5. /\ tables'[T].rows = res.rows /\ tables'[T].cols = tables[T].cols
      /\ tables'[T].pk = tables[T].pk /\ tables'[T].indexes = tables[T].indexes
    BY <1>3, <1>4
<1>6. QED
    BY <1>1, <1>2, <1>5 DEF Rows, Op

\* What is said of a statement does not depend on rows.
LEMMA SameStatements ==
    ASSUME UNCHANGED <<structs, files>>
    PROVE  /\ \A n : Field(n)' = Field(n)
           /\ InsertColumns' = InsertColumns /\ UpdateColumns' = UpdateColumns
           /\ Pk' = Pk /\ Struct' = Struct
           /\ \A n, d : Given(n, d)' = Given(n, d)
           /\ \A n, d : True(n, d)' <=> True(n, d)
           /\ \A columns, d : Broken(columns, d)' <=> Broken(columns, d)
           /\ \A op, d, q : Garbled(op, d, q)' <=> Garbled(op, d, q)
<1>1. File' = File /\ Struct' = Struct
    BY DEF File, Struct
<1>2. Pk' = Pk /\ \A n : Field(n)' = Field(n)
    BY <1>1 DEF Pk, Field
<1>3. InsertColumns' = InsertColumns
    BY <1>1, <1>2 DEF InsertColumns
<1>4. UpdateColumns' = UpdateColumns
    BY <1>2, <1>3 DEF UpdateColumns
<1>5. \A n, d : Given(n, d)' = Given(n, d)
    BY <1>2 DEF Given
<1>6. \A n : Pointer(n)' <=> Pointer(n)
    BY <1>1, <1>2 DEF Pointer
<1>7. \A n, d : True(n, d)' <=> True(n, d)
    BY <1>2, <1>5, <1>6 DEF True
<1>8. \A columns, d : Broken(columns, d)' <=> Broken(columns, d)
    BY <1>2, <1>5 DEF Broken
<1>9. \A op, d, q : Garbled(op, d, q)' <=> Garbled(op, d, q)
    BY <1>2, <1>4, <1>5 DEF Garbled
<1>10. QED
    BY <1>1, <1>2, <1>3, <1>4, <1>5, <1>7, <1>8, <1>9

\* The property, said of the last operation and the rows.
LEMMA AskedOfLast ==
    WritesAsAsked <=> ((last.op # "none" /\ last.ok /\ ~Garbled(last.op, last.data, last.where)) =>
                           AsAsked(last, Rows))
<1>1. \A r, n : Arrived(r, n) <=>
          /\ Right(last, n, Rows[r][n])
          /\ last.op \in NoneZero /\ ~True(n, last.data) /\ r \in DOMAIN last.before =>
                 Rows[r][n] = last.before[r][n]
    BY DEF Arrived, Right, Value
<1>2. Counted <=> CountedBy(last)
    BY DEF Counted, CountedBy
<1>3. \A r : Shares(r) <=> SharedBy(last, r)
    BY DEF Shares, SharedBy, Value
<1>4. \A rows : About(rows) <=> AboutBy(last, Rows, rows)
    BY <1>2, <1>3 DEF About, AboutBy
<1> DEFINE Did(rows) ==
          /\ DOMAIN Rows = IF last.op = "DeleteMany" THEN DOMAIN last.before \ rows
                           ELSE DOMAIN last.before \cup rows
          /\ \A r \in DOMAIN Rows \ rows : Rows[r] = last.before[r]
          /\ \A r \in DOMAIN Rows \cap rows : \A n \in DOMAIN Rows[r] \ tables[T].pk :
                 IF n \in UpdateColumns THEN Arrived(r, n)
                 ELSE r \in DOMAIN last.before => Rows[r][n] = last.before[r][n]
<1>5. \A rows : Done(last, Rows, rows) <=> Did(rows)
    BY <1>1 DEF Done
<1>6. WritesAsAsked <=>
          ((last.op # "none" /\ last.ok /\ ~Garbled(last.op, last.data, last.where)) =>
               \E rows \in SUBSET (DOMAIN last.before \cup DOMAIN Rows) : About(rows) /\ Did(rows))
    BY DEF WritesAsAsked
<1> HIDE DEF Did
<1>7. QED
    BY <1>4, <1>5, <1>6 DEF AsAsked

\* What was asked does not depend on rows but those of the operation.
LEMMA SameAsked ==
    ASSUME UNCHANGED <<structs, files>>,
           tables'[T].cols = tables[T].cols /\ tables'[T].pk = tables[T].pk,
           tables'[T].indexes = tables[T].indexes,
           NEW o, NEW after
    PROVE  AsAsked(o, after)' <=> AsAsked(o, after)
<1>1. \A n : Value(o, n)' = Value(o, n)
    BY SameStatements DEF Value
<1>2. CountedBy(o)' <=> CountedBy(o)
    BY SameStatements DEF CountedBy
<1>3. Uniques(tables[T])' = Uniques(tables[T])
    BY DEF Uniques
<1>4. \A r : SharedBy(o, r)' <=> SharedBy(o, r)
    BY <1>1, <1>3, SameStatements DEF SharedBy
<1>5. \A rows : AboutBy(o, after, rows)' <=> AboutBy(o, after, rows)
    BY <1>2, <1>4 DEF AboutBy
<1>6. \A n, cell : Right(o, n, cell)' <=> Right(o, n, cell)
    BY <1>1, SameStatements DEF Right
<1>7. \A rows : Done(o, after, rows)' <=> Done(o, after, rows)
    BY <1>6, SameStatements DEF Done
<1>8. QED
    BY <1>5, <1>7 DEF AsAsked

\* A write does what was asked.
LEMMA WriteAsAsked ==
    ASSUME TInv, Usable, NEW op \in Writes, NEW id, NEW data \in Datas, NEW q, Write(op, id, data, q)
    PROVE  WritesAsAsked'
<1>1. PICK res \in Outcomes(op, id, data, q) :
          /\ last' = Op(op, id, data, q, res.ok)
          /\ Rows' = res.rows
          /\ tables'[T].cols = tables[T].cols /\ tables'[T].pk = tables[T].pk
          /\ tables'[T].indexes = tables[T].indexes
          /\ files' = files /\ structs' = structs
    BY WriteFacts
<1>2. (WritesAsAsked <=> ((last.op # "none" /\ last.ok /\ ~Garbled(last.op, last.data, last.where)) =>
                              AsAsked(last, Rows)))'
    BY AskedOfLast, PTL
<1>3. PICK o, after : o = last' /\ after = Rows'
    OBVIOUS
<1>4. o.op = op /\ o.data = data /\ o.where = q /\ o.ok = res.ok /\ o = Op(op, id, data, q, res.ok)
    BY <1>1, <1>3 DEF Op
<1>5. (WritesAsAsked <=> ((o.op # "none" /\ o.ok /\ ~Garbled(op, data, q)) => AsAsked(o, after)))'
    BY <1>2, <1>3, <1>4
<1>6. SUFFICES ASSUME res.ok, ~Garbled(op, data, q) PROVE AsAsked(o, after)
    BY <1>1, <1>4, <1>5, SameAsked, SameStatements
<1>7. res \in Results(op, id, data, q) /\ ~Stale(op)
    <2>1. ~Bad.ok
        BY DEF Bad
    <2>2. QED
        BY <1>6, <2>1 DEF Outcomes
<1>8. AsAsked(Op(op, id, data, q, res.ok), res.rows)
    BY <1>6, <1>7, ResultAsAsked
<1>9. QED
    BY <1>1, <1>3, <1>4, <1>8

\* The reasons of DaoErrorsKnown, for an operation o.
ContestedBy(o) == \E x \in Uniques(tables[T]) :
    IF o.op \in {"Insert", "Upsert", "UpsertNoneZero"} THEN DOMAIN o.before # {}
    ELSE \E n \in UpdateColumns \cap ToSet(x.cols) : Given(n, o.data) # "nil"
Inserts == {"Insert", "Upsert", "UpsertNoneZero"}
Refusable(o) ==
    \/ o.op # "DeleteMany" /\ \E n \in InsertColumns : Given(n, o.data) = "wide"
    \/ /\ o.op \in ByName
       /\ \E n \in InsertColumns : Given(n, o.data) = "zero" /\ Field(n).type = "time.Time"
    \/ /\ o.op \in Inserts
       /\ \E n \in DOMAIN tables[T].cols \ InsertColumns :
              LET c == tables[T].cols[n] IN ~c.null /\ ~c.auto /\ c.default = "none"
    \/ o.op \in {"UpdateMany", "UpsertNoneZero"} /\ Broken(InsertColumns, o.data)
    \/ o.op = "UpdateMany" /\ RefusesNull(UpdateColumns)
    \/ o.op = "UpsertNoneZero" /\ RefusesNull(InsertColumns)
Explained(o) ==
    \/ Outdated
    \/ o.op = "Update"
    \/ o.op = "Insert" /\ o.id \in DOMAIN o.before
    \/ ContestedBy(o)
    \/ ~SqlOk(o.where, DOMAIN tables[T].cols)
    \/ o.op \in NoneZero /\ \A n \in UpdateColumns : ~True(n, o.data)
    \/ UpdateColumns = {}
    \/ Refusable(o)
    \/ Garbled(o.op, o.data, o.where)

\* That is the property, said of the last operation.
LEMMA ExplainedLast ==
    DaoErrorsKnown <=> ((last.op # "none" /\ Agreed /\ ~last.ok) => Explained(last))
<1>1. Contested <=> ContestedBy(last)
    BY DEF Contested, ContestedBy
<1>2. Explained(last) <=>
        \/ Outdated
        \/ last.op = "Update"
        \/ last.op = "Insert" /\ last.id \in DOMAIN last.before
        \/ Contested
        \/ ~SqlOk(last.where, DOMAIN tables[T].cols)
        \/ last.op \in NoneZero /\ \A n \in UpdateColumns : ~True(n, last.data)
        \/ UpdateColumns = {}
        \/ Refusable(last)
        \/ Garbled(last.op, last.data, last.where)
    BY <1>1 DEF Explained
<1>3. QED
    BY <1>2, Zenon DEF DaoErrorsKnown, Refusable, Inserts

\* Nor does it depend on rows.
LEMMA SameExplained ==
    ASSUME UNCHANGED <<structs, files>>, tables'[T].cols = tables[T].cols,
           tables'[T].pk = tables[T].pk, tables'[T].indexes = tables[T].indexes, NEW o
    PROVE  (Explained(o)' <=> Explained(o)) /\ (Agreed' <=> Agreed)
<1>1. Outdated' <=> Outdated
    BY SameStatements DEF Outdated
<1>2. Uniques(tables[T])' = Uniques(tables[T])
    BY DEF Uniques
<1>3. ContestedBy(o)' <=> ContestedBy(o)
    BY <1>2, SameStatements DEF ContestedBy
<1>4. \A columns : RefusesNull(columns)' <=> RefusesNull(columns)
    BY SameStatements DEF RefusesNull
<1>5. Refusable(o)' <=> Refusable(o)
    BY <1>4, SameStatements DEF Refusable
<1>6. Agreed' <=> Agreed
    BY DEF Agreed
<1>7. QED
    BY <1>1, <1>3, <1>5, <1>6, SameStatements DEF Explained

\* Where the statements are those of the struct, and the table as well.
LEMMA AgreedFacts ==
    ASSUME TInv, Usable, Agreed, ~Outdated, NEW data \in Datas
    PROVE  /\ \A n \in InsertColumns :
                  /\ Field(n).name = n /\ Given(n, data) = data[n]
                  /\ n \in DOMAIN tables[T].cols /\ n \in Names(Struct)
                  /\ data[n] \in {"nil", "zero", "set", "odd", "wide"}
                  /\ data[n] = "nil" => tables[T].cols[n].null
           /\ \A op \in Writes : ~Stale(op)
<1> DEFINE Named1(n) == CHOOSE f \in Struct : f.name = n
<1>1. /\ DOMAIN tables[T].cols = Names(Struct)
      /\ \A n \in Names(Struct) : tables[T].cols[n] = ToColumn(Named1(n))
    BY DEF Agreed, NewTableFromStruct, Struct, Names
<1>2. \A n \in InsertColumns : n \in DOMAIN tables[T].cols /\ Field(n).name = n
    BY DEF Outdated
<1>3. \A n \in InsertColumns : Given(n, data) = data[n] /\ n \in Names(Struct)
    BY <1>1, <1>2 DEF Given
<1>4. data \in [Names(Struct) -> {"nil", "zero", "set", "odd", "wide"}]
      /\ \A f \in Struct : Fits(f, data[f.name])
    BY DEF Datas
<1>5. \A n \in Names(Struct) : Named1(n) \in Struct /\ Named1(n).name = n
    BY DEF Names
<1> HIDE DEF Named1
<1>6. \A f : f.ptr => ToColumn(f).null
    BY DEF ToColumn
<1>7. \A n \in Names(Struct) : data[n] = "nil" => tables[T].cols[n].null
    <2>1. \A n \in Names(Struct) : data[n] = "nil" => Named1(n).ptr
        BY <1>4, <1>5 DEF Fits
    <2>2. QED
        BY <1>1, <1>6, <2>1
<1>8. UpdateColumns \subseteq InsertColumns /\ Pk \in InsertColumns
    BY UsableFacts
<1>9. ASSUME NEW op \in Writes PROVE ~Stale(op)
    <2>1. /\ InsertColumns \subseteq Names(Struct)
          /\ {Field(n).name : n \in InsertColumns} \subseteq Names(Struct)
          /\ {Field(n).name : n \in UpdateColumns \cup {Pk}} \subseteq Names(Struct)
          /\ {Field(n).name : n \in UpdateColumns} \subseteq Names(Struct)
        BY <1>2, <1>3, <1>8
    <2>2. QED
        BY <2>1 DEF Stale, Writes, ById, ByWhere, ByName
<1>10. QED
    BY <1>2, <1>3, <1>4, <1>7, <1>9

\* What a statement is refused for.
LEMMA RefusedFor ==
    /\ \A vals, id : ~Insert(vals, id).ok =>
           \/ ~Takes(tables[T], vals) \/ ~Complete(tables[T], vals)
           \/ Repeated(vals, KeyFor(vals, id)) # {}
    /\ \A ids, vals : ~Update(ids, vals).ok =>
           DOMAIN vals = {} \/ ~Takes(tables[T], vals) \/ Clash(ids, vals)
    /\ \A vals, id, set, res : res \in Upsert(vals, id, set) /\ ~res.ok =>
           \/ DOMAIN set = {} \/ ~Takes(tables[T], set)
           \/ ~Takes(tables[T], vals) \/ ~Complete(tables[T], vals)
           \/ \E r \in DOMAIN Rows : Clash({r}, set)
<1>1. \A rows : Good(rows).ok
    BY DEF Good
<1>2. ASSUME NEW vals, NEW id, ~Insert(vals, id).ok
      PROVE  \/ ~Takes(tables[T], vals) \/ ~Complete(tables[T], vals)
             \/ Repeated(vals, KeyFor(vals, id)) # {}
    BY <1>1, <1>2 DEF Insert
<1>3. ASSUME NEW ids, NEW vals, ~Update(ids, vals).ok
      PROVE  DOMAIN vals = {} \/ ~Takes(tables[T], vals) \/ Clash(ids, vals)
    BY <1>1, <1>3 DEF Update, Takes
<1>4. ASSUME NEW vals, NEW id, NEW set, NEW res \in Upsert(vals, id, set), ~res.ok,
             DOMAIN set # {}, Takes(tables[T], set), Takes(tables[T], vals), Complete(tables[T], vals)
      PROVE  \E r \in DOMAIN Rows : Clash({r}, set)
    <2>1. PICK key : key = KeyFor(vals, id)
        OBVIOUS
    <2>2. Known(tables[T], set)
        BY <1>4 DEF Takes
    <2>3. \/ Repeated(vals, key) = {} /\ res = Insert(vals, id)
          \/ \E r \in Repeated(vals, key) : res = Update({r}, set)
        BY <1>4, <2>1, <2>2 DEF Upsert
    <2>4. PICK r \in Repeated(vals, key) : res = Update({r}, set)
        BY <1>2, <1>4, <2>1, <2>3
    <2>5. r \in DOMAIN Rows
        BY DEF Repeated
    <2>6. QED
        BY <1>3, <1>4, <2>4, <2>5
<1>5. QED
    BY <1>2, <1>3, <1>4

\* A clash is one of cells that are not null, in a column that is set.
LEMMA ClashContests ==
    ASSUME TInv, Usable, NEW ids, NEW vals, Clash(ids, vals), DOMAIN vals \subseteq UpdateColumns,
           DOMAIN vals \subseteq DOMAIN tables[T].cols
    PROVE  /\ DOMAIN Rows # {}
           /\ \E x \in Uniques(tables[T]) : \E n \in UpdateColumns \cap ToSet(x.cols) :
                  n \in DOMAIN vals /\ vals[n] # "null"
<1>1. PICK x \in Uniques(tables[T]), r \in ids \cap DOMAIN Rows, s \in DOMAIN Rows :
          /\ ToSet(x.cols) \cap DOMAIN vals # {}
          /\ Agree(x, Updated(ids, vals)[r], Updated(ids, vals)[s])
    BY DEF Clash
<1>2. PICK n \in ToSet(x.cols) : n \in DOMAIN vals
    BY <1>1
<1>3. Updated(ids, vals)[r] = Overwrite(Rows[r], vals)
    BY <1>1 DEF Updated
<1>4. n \in DOMAIN Rows[r]
    BY <1>1, <1>2, UsableFacts DEF Rowed
<1>5. Updated(ids, vals)[r][n] = vals[n]
    BY <1>2, <1>3, <1>4 DEF Overwrite
<1>6. Updated(ids, vals)[r][n] # "null"
    BY <1>1, <1>2 DEF Agree
<1>7. QED
    BY <1>1, <1>2, <1>5, <1>6

\* The database takes what the statements give of data it can hold.
LEMMA NamedTaken ==
    ASSUME TInv, Usable, Agreed, ~Outdated, NEW data \in Datas,
           \A n \in InsertColumns : /\ Given(n, data) # "wide"
                                    /\ ~(Given(n, data) = "zero" /\ Field(n).type = "time.Time"),
           NEW columns, columns \subseteq InsertColumns
    PROVE  Takes(tables[T], Named(columns, data)) /\ DOMAIN Named(columns, data) = columns
<1>1. DOMAIN Named(columns, data) = columns
    BY DEF Named
<1>2. ASSUME NEW n \in columns
      PROVE  LET cell == Named(columns, data)[n] IN
             /\ n \in DOMAIN tables[T].cols /\ cell \notin {"wide", "no date"}
             /\ cell = "null" => tables[T].cols[n].null
    <2>1. /\ n \in InsertColumns /\ n \in DOMAIN tables[T].cols
          /\ Given(n, data) = data[n] /\ data[n] \in {"nil", "zero", "set", "odd", "wide"}
          /\ data[n] = "nil" => tables[T].cols[n].null
        BY <1>2, AgreedFacts
    <2>2. Named(columns, data)[n] = Sent(Field(n), data[n])
        BY DEF Named
    <2>3. QED
        BY <2>1, <2>2 DEF Sent
<1>3. QED
    BY <1>1, <1>2 DEF Takes, Known

\* So are those of the clause, if no column refuses the null that isNil makes.
LEMMA ClauseTaken ==
    ASSUME TInv, Usable, Agreed, ~Outdated, NEW data \in Datas,
           \A n \in InsertColumns : Given(n, data) # "wide",
           NEW columns, columns \subseteq InsertColumns, ~RefusesNull(columns)
    PROVE  Takes(tables[T], InsertClause(columns, data)) /\ DOMAIN InsertClause(columns, data) = columns
<1>1. DOMAIN InsertClause(columns, data) = columns
    BY DEF InsertClause
<1>2. ASSUME NEW n \in columns
      PROVE  LET cell == InsertClause(columns, data)[n] IN
             /\ n \in DOMAIN tables[T].cols /\ cell \notin {"wide", "no date"}
             /\ cell = "null" => tables[T].cols[n].null \/ tables[T].cols[n].auto
    <2>1. /\ n \in InsertColumns /\ n \in DOMAIN tables[T].cols
          /\ Given(n, data) = data[n] /\ data[n] \in {"nil", "zero", "set", "odd", "wide"}
          /\ data[n] = "nil" => tables[T].cols[n].null
        BY <1>2, AgreedFacts
    <2>2. InsertClause(columns, data)[n] =
              IF Timed(Field(n)) THEN Printed(data[n]) ELSE "null"
        BY <2>1 DEF InsertClause
    <2>3. ~Timed(Field(n)) => tables[T].cols[n].null \/ tables[T].cols[n].auto
        BY DEF RefusesNull
    <2>4. QED
        BY <2>1, <2>2, <2>3 DEF Printed
<1>3. QED
    BY <1>1, <1>2 DEF Takes, Known

\* And the values that are not zero, of which none is nil.
LEMMA NoneZeroTaken ==
    ASSUME TInv, Usable, Agreed, ~Outdated, NEW data \in Datas,
           \A n \in InsertColumns : Given(n, data) # "wide"
    PROVE  LET set == NoneZeroSet(data) IN
           /\ Takes(tables[T], set) /\ DOMAIN set = {n \in UpdateColumns : True(n, data)}
           /\ \A n \in DOMAIN set : Given(n, data) # "nil"
<1>1. PICK set : set = NoneZeroSet(data)
    OBVIOUS
<1>2. /\ DOMAIN set = {n \in UpdateColumns : True(n, data)}
      /\ \A n \in DOMAIN set : set[n] = Printed(Given(n, data))
    BY <1>1 DEF NoneZeroSet
<1>3. \A n \in DOMAIN set : Given(n, data) # "nil"
    BY <1>2 DEF True
<1>4. ASSUME NEW n \in DOMAIN set
      PROVE  n \in DOMAIN tables[T].cols /\ set[n] \notin {"wide", "no date", "null"}
    <2>1. n \in InsertColumns
        BY <1>2, UsableFacts
    <2>2. /\ n \in DOMAIN tables[T].cols
          /\ Given(n, data) = data[n] /\ data[n] \in {"nil", "zero", "set", "odd", "wide"}
        BY <2>1, AgreedFacts
    <2>3. QED
        BY <1>2, <1>3, <2>1, <2>2 DEF Printed
<1>5. QED
    BY <1>1, <1>2, <1>3, <1>4 DEF Takes, Known

\* What an operation fails for.
LEMMA ResultKnown ==
    ASSUME TInv, Usable, Agreed, NEW op \in Writes, NEW id, NEW data \in Datas, NEW q, NEW ok,
           NEW res \in Outcomes(op, id, data, q), ~res.ok
    PROVE  Explained(Op(op, id, data, q, ok))
<1>1. PICK o : o = Op(op, id, data, q, ok)
    OBVIOUS
<1>2. /\ o.op = op /\ o.id = id /\ o.data = data /\ o.where = q /\ o.before = Rows
    BY <1>1 DEF Op
<1>3. SUFFICES ASSUME ~Outdated, ~ContestedBy(o), ~Refusable(o), UpdateColumns # {}, op # "Update",
                      ~(op = "Insert" /\ id \in DOMAIN Rows),
                      ~(op \in NoneZero /\ \A n \in UpdateColumns : ~True(n, data)),
                      SqlOk(q, DOMAIN tables[T].cols), ~Garbled(op, data, q)
               PROVE  FALSE
    BY <1>1, <1>2 DEF Explained
<1>4. res \in Results(op, id, data, q)
    BY <1>3, AgreedFacts DEF Outcomes
<1>5. UpdateColumns \subseteq InsertColumns /\ NextId \notin DOMAIN Rows
    BY UsableFacts
<1>6. op # "DeleteMany" => \A n \in InsertColumns : Given(n, data) # "wide"
    BY <1>2, <1>3 DEF Refusable
<1>7. op \in ByName => \A n \in InsertColumns : ~(Given(n, data) = "zero" /\ Field(n).type = "time.Time")
    BY <1>2, <1>3 DEF Refusable
\* Every column that is not given has a value.
<1>8. op \in Inserts => \A vals : DOMAIN vals = InsertColumns => Complete(tables[T], vals)
    <2>1. op \in Inserts => \A n \in DOMAIN tables[T].cols \ InsertColumns :
              LET c == tables[T].cols[n] IN c.null \/ c.auto \/ c.default # "none"
        BY <1>2, <1>3 DEF Refusable
    <2>2. QED
        BY <2>1 DEF Complete
\* A unique index is met only where one can be.
<1>9. op \in Inserts => DOMAIN Rows = {} \/ Uniques(tables[T]) = {}
    BY <1>2, <1>3 DEF ContestedBy, Inserts
<1>10. ASSUME op \notin Inserts, NEW x \in Uniques(tables[T]), NEW n \in UpdateColumns \cap ToSet(x.cols)
       PROVE  Given(n, data) = "nil"
    BY <1>2, <1>3, <1>10 DEF ContestedBy, Inserts
<1>11. op \in Inserts => \A r \in DOMAIN Rows : \A set : ~Clash({r}, set)
    BY <1>9 DEF Clash
\* The values that are not zero.
<1>12. op \in NoneZero =>
           /\ Takes(tables[T], NoneZeroSet(data)) /\ DOMAIN NoneZeroSet(data) # {}
           /\ DOMAIN NoneZeroSet(data) \subseteq UpdateColumns
           /\ \A n \in DOMAIN NoneZeroSet(data) : Given(n, data) # "nil"
    <2>1. SUFFICES ASSUME op \in NoneZero
                   PROVE  /\ Takes(tables[T], NoneZeroSet(data)) /\ DOMAIN NoneZeroSet(data) # {}
                          /\ DOMAIN NoneZeroSet(data) \subseteq UpdateColumns
                          /\ \A n \in DOMAIN NoneZeroSet(data) : Given(n, data) # "nil"
        OBVIOUS
    <2>2. op # "DeleteMany"
        BY <2>1 DEF NoneZero
    <2>3. /\ Takes(tables[T], NoneZeroSet(data))
          /\ DOMAIN NoneZeroSet(data) = {n \in UpdateColumns : True(n, data)}
          /\ \A n \in DOMAIN NoneZeroSet(data) : Given(n, data) # "nil"
        BY <1>3, <1>6, <2>2, NoneZeroTaken
    <2>4. PICK n \in UpdateColumns : True(n, data)
        BY <1>3, <2>1
    <2>5. QED
        BY <2>3, <2>4
<1>13. CASE op = "Insert"
    <2>1. /\ Takes(tables[T], Named(InsertColumns, data))
          /\ DOMAIN Named(InsertColumns, data) = InsertColumns
        BY <1>3, <1>6, <1>7, <1>13, NamedTaken DEF ByName
    <2>2. PICK vals : vals = Named(InsertColumns, data)
        OBVIOUS
    <2>3. res = Insert(vals, id)
        BY <1>4, <1>13, <2>2 DEF Results
    <2>4. Complete(tables[T], vals) /\ op \in Inserts
        BY <1>8, <1>13, <2>1, <2>2 DEF Inserts
    <2>5. Repeated(vals, KeyFor(vals, id)) # {}
        BY <2>1, <2>2, <2>3, <2>4, RefusedFor
    <2>6. KeyFor(vals, id) \in DOMAIN Rows
        BY <1>9, <2>4, <2>5 DEF Repeated
    <2>7. KeyFor(vals, id) = id
        BY <1>5, <2>6 DEF KeyFor
    <2>8. QED
        BY <1>3, <1>13, <2>6, <2>7
<1>14. CASE op = "Upsert"
    <2>1. /\ Takes(tables[T], Named(InsertColumns, data))
          /\ DOMAIN Named(InsertColumns, data) = InsertColumns
          /\ Takes(tables[T], Named(UpdateColumns, data))
          /\ DOMAIN Named(UpdateColumns, data) = UpdateColumns
        BY <1>3, <1>5, <1>6, <1>7, <1>14, NamedTaken DEF ByName
    <2>2. PICK vals, set : vals = Named(InsertColumns, data) /\ set = Named(UpdateColumns, data)
        OBVIOUS
    <2>3. res \in Upsert(vals, id, set)
        BY <1>4, <1>14, <2>2 DEF Results
    <2>4. Complete(tables[T], vals) /\ op \in Inserts
        BY <1>8, <1>14, <2>1, <2>2 DEF Inserts
    <2>5. QED
        BY <1>3, <1>11, <2>1, <2>2, <2>3, <2>4, RefusedFor
<1>15. CASE op = "UpsertNoneZero"
    <2>1. ~RefusesNull(InsertColumns) /\ ~Broken(InsertColumns, data)
        BY <1>2, <1>3, <1>15 DEF Refusable
    <2>2. /\ Takes(tables[T], InsertClause(InsertColumns, data))
          /\ DOMAIN InsertClause(InsertColumns, data) = InsertColumns
        BY <1>3, <1>6, <1>15, <2>1, ClauseTaken
    <2>3. PICK vals, set : vals = InsertClause(InsertColumns, data) /\ set = NoneZeroSet(data)
        OBVIOUS
    <2>4. res \in Upsert(vals, 0, set)
        BY <1>4, <1>15, <2>1, <2>3 DEF Results
    <2>5. Complete(tables[T], vals) /\ op \in Inserts /\ op \in NoneZero
        BY <1>8, <1>15, <2>2, <2>3 DEF Inserts, NoneZero
    <2>6. QED
        BY <1>11, <1>12, <2>2, <2>3, <2>4, <2>5, RefusedFor
\* The statements that update.
<1>16. ASSUME op \notin Inserts, NEW ids, NEW vals, ~Update(ids, vals).ok, Takes(tables[T], vals),
              DOMAIN vals # {}, DOMAIN vals \subseteq UpdateColumns,
              \A n \in DOMAIN vals : Given(n, data) = "nil" => vals[n] = "null"
       PROVE  FALSE
    <2>1. Clash(ids, vals)
        BY <1>16, RefusedFor
    <2>2. DOMAIN vals \subseteq DOMAIN tables[T].cols
        BY <1>16 DEF Takes, Known
    <2>3. PICK x \in Uniques(tables[T]) : \E n \in UpdateColumns \cap ToSet(x.cols) :
              n \in DOMAIN vals /\ vals[n] # "null"
        BY <1>16, <2>1, <2>2, ClashContests
    <2>4. QED
        BY <1>10, <1>16, <2>3
<1>17. CASE op \in {"UpdateNoneZero", "UpdateManyNoneZero"}
    <2>1. \E ids : res = Update(ids, NoneZeroSet(data))
        BY <1>4, <1>17 DEF Results
    <2>2. op \in NoneZero /\ op \notin Inserts
        BY <1>17 DEF NoneZero, Inserts
    <2>3. QED
        BY <1>12, <1>16, <2>1, <2>2
<1>18. CASE op = "UpdateMany"
    <2>1. ~RefusesNull(UpdateColumns) /\ ~Broken(UpdateColumns, data)
        BY <1>2, <1>3, <1>5, <1>18 DEF Refusable, Broken
    <2>2. /\ Takes(tables[T], InsertClause(UpdateColumns, data))
          /\ DOMAIN InsertClause(UpdateColumns, data) = UpdateColumns
        BY <1>3, <1>5, <1>6, <1>18, <2>1, ClauseTaken
    <2>3. res = Update(Where(q), InsertClause(UpdateColumns, data))
        BY <1>4, <1>18, <2>1 DEF Results
    <2>4. \A n \in UpdateColumns : Given(n, data) = "nil" => InsertClause(UpdateColumns, data)[n] = "null"
        BY DEF InsertClause, Printed
    <2>5. QED
        BY <1>3, <1>16, <1>18, <2>2, <2>3, <2>4 DEF Inserts
<1>19. CASE op = "DeleteMany"
    BY <1>4, <1>19 DEF Results, Good
<1>20. QED
    BY <1>3, <1>13, <1>14, <1>15, <1>17, <1>18, <1>19 DEF Writes, ById, ByWhere

\* So the property holds after it.
LEMMA WriteErrorsKnown ==
    ASSUME TInv, Usable, NEW op \in Writes, NEW id, NEW data \in Datas, NEW q, Write(op, id, data, q)
    PROVE  DaoErrorsKnown'
<1>1. PICK res \in Outcomes(op, id, data, q) :
          /\ last' = Op(op, id, data, q, res.ok)
          /\ tables'[T].cols = tables[T].cols /\ tables'[T].pk = tables[T].pk
          /\ tables'[T].indexes = tables[T].indexes
          /\ files' = files /\ structs' = structs
    BY WriteFacts
<1>2. (DaoErrorsKnown <=> ((last.op # "none" /\ Agreed /\ ~last.ok) => Explained(last)))'
    BY ExplainedLast, PTL
<1>3. PICK o : o = Op(op, id, data, q, res.ok)
    OBVIOUS
<1>4. o.ok = res.ok /\ last' = o
    BY <1>1, <1>3 DEF Op
<1>5. (DaoErrorsKnown <=> ((o.op # "none" /\ Agreed /\ ~o.ok) => Explained(o)))'
    BY <1>2, <1>4
<1>6. Agreed /\ ~res.ok => Explained(o)
    BY <1>3, ResultKnown
<1>7. QED
    BY <1>1, <1>4, <1>5, <1>6, SameExplained

\* Both properties are about the last statement.
LEMMA NextStatement ==
    TInv /\ [Next]_vars /\ DaoErrorsKnown /\ WritesAsAsked => DaoErrorsKnown' /\ WritesAsAsked'
<1> SUFFICES ASSUME TInv, [Next]_vars, DaoErrorsKnown, WritesAsAsked
             PROVE  DaoErrorsKnown' /\ WritesAsAsked'
    OBVIOUS
<1>1. CASE last' = Nothing
    <2>1. last'.op = "none"
        BY <1>1 DEF Nothing
    <2>2. QED
        BY <2>1 DEF DaoErrorsKnown, WritesAsAsked
<1>2. CASE UNCHANGED vars
    <2>1. PICK o, rows : o = last /\ rows = Rows
        OBVIOUS
    <2>2. structs' = structs /\ files' = files /\ tables' = tables /\ last' = o /\ Rows' = rows
        BY <1>2, <2>1 DEF vars, Rows
    <2>3. DaoErrorsKnown'
        <3>1. (DaoErrorsKnown <=> ((last.op # "none" /\ Agreed /\ ~last.ok) => Explained(last)))'
            BY ExplainedLast, PTL
        <3>2. (DaoErrorsKnown <=> ((o.op # "none" /\ Agreed /\ ~o.ok) => Explained(o)))'
            BY <2>2, <3>1
        <3>3. (o.op # "none" /\ Agreed /\ ~o.ok) => Explained(o)
            BY <2>1, ExplainedLast
        <3>4. QED
            BY <2>2, <3>2, <3>3, SameExplained
    <2>4. WritesAsAsked'
        <3>1. (WritesAsAsked <=>
                   ((last.op # "none" /\ last.ok /\ ~Garbled(last.op, last.data, last.where)) =>
                        AsAsked(last, Rows)))'
            BY AskedOfLast, PTL
        <3>2. (WritesAsAsked <=> ((o.op # "none" /\ o.ok /\ ~Garbled(o.op, o.data, o.where)) =>
                                      AsAsked(o, rows)))'
            BY <2>2, <3>1
        <3>3. (o.op # "none" /\ o.ok /\ ~Garbled(o.op, o.data, o.where)) => AsAsked(o, rows)
            BY <2>1, AskedOfLast
        <3>4. QED
            BY <2>2, <3>2, <3>3, SameAsked, SameStatements
    <2>5. QED
        BY <2>3, <2>4
<1>3. ASSUME NEW op \in Writes, NEW id, NEW data \in Datas, NEW q, Usable, Write(op, id, data, q)
      PROVE  DaoErrorsKnown' /\ WritesAsAsked'
    BY <1>3, WriteErrorsKnown, WriteAsAsked
<1>4. CASE Serve
    <2>1. CASE (\E size \in Sizes : Open(size)) \/ SelectPage \/ CountMany
        BY <1>1, <2>1 DEF Open, SelectPage, CountMany
    <2>2. QED
        BY <1>3, <1>4, <2>1, Served
<1>5. CASE Migrate
    BY <1>1, <1>5 DEF Migrate
<1>6. QED
    BY <1>2, <1>4, <1>5 DEF Next

\* At first there is none.
LEMMA InitStatement == DaoInit => DaoErrorsKnown /\ WritesAsAsked
BY DEF DaoInit, Nothing, DaoErrorsKnown, WritesAsAsked

\* While the table is as the struct has it, an operation of the data access object
\* fails only for the reasons DaoErrorsKnown names (dao.sql.tmpl, daoimpl.go.tmpl).
THEOREM ErrorsAreKnown == Spec => []DaoErrorsKnown
BY InitTInv, NextTInv, InitStatement, NextStatement, PTL DEF Spec

\* A write that succeeds does to the rows it is about what was asked, and nothing
\* to others, whatever the statements know of the table, but for what isNil and
\* the templates' printing make of the data.
THEOREM WritesDoAsAsked == Spec => []WritesAsAsked
BY InitTInv, NextTInv, InitStatement, NextStatement, PTL DEF Spec

-----------------------------------------------------------------------------
(* Sequences of finite sets, and what is sorted. *)

\* A finite set as a sequence: each of its elements, once.
LEMMA SetAsSeq ==
    ASSUME NEW S, IsFiniteSet(S)
    PROVE  /\ DOMAIN SetToSeq(S) = 1..Cardinality(S) /\ Cardinality(S) \in Nat
           /\ \A i \in DOMAIN SetToSeq(S) : SetToSeq(S)[i] \in S
           /\ \A x \in S : \E i \in DOMAIN SetToSeq(S) : SetToSeq(S)[i] = x
           /\ \A i, j \in DOMAIN SetToSeq(S) : SetToSeq(S)[i] = SetToSeq(S)[j] => i = j
<1> DEFINE D == 1..Cardinality(S)
<1>1. Cardinality(S) \in Nat /\ ExistsBijection(D, S)
    BY FS_CardinalityType
<1>2. \E f \in [D -> S] : IsInjective(f)
    BY <1>1 DEF ExistsBijection, Bijection, Injection
<1>3. SetToSeq(S) \in [D -> S] /\ IsInjective(SetToSeq(S))
    BY <1>2 DEF SetToSeq
<1>4. IsFiniteSet(D) /\ Cardinality(D) = Cardinality(S)
    BY <1>1, FS_Interval
<1>5. SetToSeq(S) \in Injection(D, S)
    BY <1>3 DEF Injection
<1>6. SetToSeq(S) \in Surjection(D, S)
    BY <1>4, <1>5, FS_Injection
<1>7. \A x \in S : \E i \in D : SetToSeq(S)[i] = x
    BY <1>6 DEF Surjection
<1>8. QED
    BY <1>1, <1>3, <1>7 DEF IsInjective

\* Numbers that increase strictly within 1..N are the numbers from 1 to N.
LEMMA Increasing ==
    ASSUME NEW N \in Nat, NEW o \in [1..N -> 1..N], \A i, j \in 1..N : i < j => o[i] < o[j]
    PROVE  \A i \in 1..N : o[i] = i
<1>1. \A i \in 1..N : o[i] >= i
    <2> DEFINE S == {i \in 1..N : o[i] < i}
    <2>1. SUFFICES ASSUME S # {} PROVE FALSE
        OBVIOUS
    <2>2. S \in SUBSET Nat
        OBVIOUS
    <2> HIDE DEF S
    <2>3. PICK i \in S : \A y \in S : i <= y
        BY <2>1, <2>2, LeastElement
    <2>4. i \in 1..N /\ o[i] < i /\ o[i] \in 1..N
        BY DEF S
    <2>5. i - 1 \in 1..N /\ i - 1 < i
        BY <2>4
    <2>6. o[i - 1] < o[i] /\ o[i - 1] \in 1..N
        BY <2>4, <2>5
    <2>7. o[i - 1] >= i - 1
        <3>1. i - 1 \notin S
            BY <2>3, <2>4
        <3>2. QED
            BY <2>5, <2>6, <3>1 DEF S
    <2>8. QED
        BY <2>4, <2>6, <2>7
<1>2. \A i \in 1..N : o[i] <= i
    <2> DEFINE S == {N - i : i \in {k \in 1..N : o[k] > k}}
    <2>1. SUFFICES ASSUME S # {} PROVE FALSE
        OBVIOUS
    <2>2. S \in SUBSET Nat
        <3>1. \A i \in 1..N : N - i \in Nat
            OBVIOUS
        <3>2. QED
            BY <3>1
    <2>3. PICK m \in S : \A y \in S : m <= y
        BY <2>1, <2>2, LeastElement
    <2>4. PICK i \in 1..N : o[i] > i /\ m = N - i
        OBVIOUS
    <2>5. i + 1 \in 1..N /\ o[i + 1] \in 1..N /\ o[i] < o[i + 1]
        BY <2>4
    <2>6. o[i + 1] > i + 1
        BY <2>4, <2>5
    <2>7. N - (i + 1) \in S
        BY <2>5, <2>6
    <2>8. N - i <= N - (i + 1)
        BY <2>3, <2>4, <2>7
    <2>9. QED
        BY <2>8
<1>3. QED
    BY <1>1, <1>2

\* Items that are numbered from 1 are sorted one way.
LEMMA SortedNumbered ==
    ASSUME NEW N \in Nat, NEW R, NEW g \in [1..N -> R], \A k \in 1..N : g[k].order = k
    PROVE  Sorted({g[k] : k \in 1..N}) = g
<1> DEFINE items == {g[k] : k \in 1..N}
           Ok(s) == \A i, j \in DOMAIN s : i < j => s[i] # s[j] /\ s[i].order <= s[j].order
<1>1. Cardinality(items) = N
    <2>1. g \in [1..N -> items]
        OBVIOUS
    <2>2. \A i, j \in 1..N : g[i] = g[j] => i = j
        OBVIOUS
    <2>3. \A x \in items : \E i \in 1..N : g[i] = x
        OBVIOUS
    <2> HIDE DEF items
    <2>4. g \in Bijection(1..N, items)
        BY <2>1, <2>2, <2>3, Fun_IsBij
    <2>5. QED
        BY <2>4, FS_CountingElements DEF ExistsBijection
<1>2. g \in [1..N -> items] /\ Ok(g)
    OBVIOUS
<1>3. PICK s : s = Sorted(items)
    OBVIOUS
<1>4. s \in [1..N -> items] /\ Ok(s)
    <2> HIDE DEF items
    <2>1. s = CHOOSE f \in [1..N -> items] : \A i, j \in DOMAIN f : i < j => f[i] # f[j] /\ f[i].order <= f[j].order
        BY <1>1, <1>3 DEF Sorted
    <2>2. QED
        BY <1>2, <2>1
<1> DEFINE o == [i \in 1..N |-> s[i].order]
<1>5. \A i \in 1..N : o[i] \in 1..N /\ s[i] = g[o[i]]
    BY <1>4
<1>6. ASSUME NEW i \in 1..N, NEW j \in 1..N, i < j PROVE o[i] < o[j]
    <2>1. s[i] # s[j] /\ s[i].order <= s[j].order
        <3> HIDE DEF items
        <3>1. DOMAIN s = 1..N
            BY <1>4
        <3>2. QED
            BY <1>4, <1>6, <3>1
    <2>2. o[i] = s[i].order /\ o[j] = s[j].order
        OBVIOUS
    <2> HIDE DEF o, items
    <2>3. s[i] = g[o[i]] /\ s[j] = g[o[j]] /\ o[i] \in 1..N /\ o[j] \in 1..N
        BY <1>5
    <2>4. o[i] # o[j]
        BY <2>1, <2>3, Zenon
    <2>5. QED
        BY <2>1, <2>2, <2>3, <2>4
<1> HIDE DEF o
<1>7. o \in [1..N -> 1..N]
    BY <1>5 DEF o
<1>8. \A i \in 1..N : o[i] = i
    BY <1>6, <1>7, Increasing
<1>9. s = g
    <2>1. \A i \in 1..N : s[i] = g[i]
        BY <1>5, <1>8
    <2>2. s = [i \in 1..N |-> s[i]]
        BY <1>4
    <2>3. QED
        BY <2>1, <2>2
<1>10. QED
    BY <1>3, <1>9

-----------------------------------------------------------------------------
(* Tables to structs and back. *)

\* The field of a column has the column's properties, and is none embedded.
LEMMA FieldOfColumn == \A t, n :
    /\ NewFieldFromColumn(t, n).name = Snake[n]
    /\ NewFieldFromColumn(t, n).type # "embed"
    /\ NewFieldFromColumn(t, n).ptr = t.cols[n].null
    /\ NewFieldFromColumn(t, n).null = FALSE
    /\ NewFieldFromColumn(t, n).col = t.cols[n].type
    /\ NewFieldFromColumn(t, n).auto = t.cols[n].auto
    /\ NewFieldFromColumn(t, n).default = Quoted(t.cols[n].default)
<1>1. \A x : ToGoType(x) # "embed"
    BY DEF ToGoType
<1>2. QED
    BY <1>1 DEF NewFieldFromColumn

\* It has the flag pk if the column is one of the key.
LEMMA KeyField == \A t, n : NewFieldFromColumn(t, n).pk <=> n \in t.pk
BY DEF NewFieldFromColumn

\* Of the finite set of its columns, the struct has each once, and embeds none.
LEMMA FieldsOfTable ==
    ASSUME NEW t, IsFiniteSet(DOMAIN t.cols)
    PROVE  LET s == StructOf(t) IN
           /\ DOMAIN s \in SUBSET Nat
           /\ \A i \in DOMAIN s : \E n \in DOMAIN t.cols : s[i] = NewFieldFromColumn(t, n)
           /\ \A n \in DOMAIN t.cols : \E i \in DOMAIN s : s[i] = NewFieldFromColumn(t, n)
           /\ FlatEmbed(s) = {NewFieldFromColumn(t, n) : n \in DOMAIN t.cols}
<1> DEFINE names == SetToSeq(DOMAIN t.cols)
           s == StructOf(t)
           fs == {NewFieldFromColumn(t, n) : n \in DOMAIN t.cols}
<1>1. /\ DOMAIN names \in SUBSET Nat /\ \A i \in DOMAIN names : names[i] \in DOMAIN t.cols
      /\ \A n \in DOMAIN t.cols : \E i \in DOMAIN names : names[i] = n
    BY SetAsSeq
<1>2. DOMAIN s = DOMAIN names /\ \A i \in DOMAIN names : s[i] = NewFieldFromColumn(t, names[i])
    BY DEF StructOf
<1> HIDE DEF names, s
<1>3. ToSet(s) = fs
    BY <1>1, <1>2 DEF ToSet
<1>4. FlatEmbed(s) = fs
    <2>1. {f \in ToSet(s) : f.type # "embed"} = ToSet(s)
        BY <1>3, FieldOfColumn
    <2>2. QED
        BY <1>3, <2>1 DEF FlatEmbed
<1>5. QED
    BY <1>1, <1>2, <1>4 DEF s

\* The key comes back, if it is one column whose name does.
LEMMA KeyComesBack ==
    ASSUME NEW t, IsFiniteSet(DOMAIN t.cols), t.pk \subseteq DOMAIN t.cols, Cardinality(t.pk) <= 1,
           \A n \in t.pk : Snake[n] = n
    PROVE  KeyOf(StructOf(t)) = t.pk
<1>1. PICK s : s = StructOf(t)
    OBVIOUS
<1>2. /\ DOMAIN s \in SUBSET Nat
      /\ \A i \in DOMAIN s : \E n \in DOMAIN t.cols : s[i] = NewFieldFromColumn(t, n)
      /\ \A n \in DOMAIN t.cols : \E i \in DOMAIN s : s[i] = NewFieldFromColumn(t, n)
      /\ FlatEmbed(s) = {NewFieldFromColumn(t, n) : n \in DOMAIN t.cols}
    BY <1>1, FieldsOfTable
<1> DEFINE own == {i \in DOMAIN s : s[i].type # "embed" /\ s[i].pk}
<1>3. ASSUME NEW i \in own PROVE s[i].name \in t.pk
    <2>1. PICK n \in DOMAIN t.cols : s[i] = NewFieldFromColumn(t, n)
        BY <1>2
    <2>2. s[i].name = Snake[n]
        <3>1. NewFieldFromColumn(t, n).name = Snake[n]
            BY FieldOfColumn, Zenon
        <3>2. QED
            BY <2>1, <3>1
    <2>3. s[i].pk <=> n \in t.pk
        BY <2>1, KeyField
    <2>4. n \in t.pk
        BY <1>3, <2>3
    <2>5. QED
        BY <2>2, <2>4
<1>4. ASSUME NEW n \in t.pk PROVE \E i \in DOMAIN s : i \in own
    <2>1. PICK i \in DOMAIN s : s[i] = NewFieldFromColumn(t, n)
        BY <1>2
    <2>2. s[i].type # "embed"
        <3>1. NewFieldFromColumn(t, n).type # "embed"
            BY FieldOfColumn, Zenon
        <3>2. QED
            BY <2>1, <3>1
    <2>3. s[i].pk <=> n \in t.pk
        BY <2>1, KeyField
    <2>4. QED
        BY <2>2, <2>3
<1>5. own \in SUBSET Nat
    BY <1>2
<1>6. CASE t.pk = {}
    <2>1. own = {}
        BY <1>3, <1>6
    <2>2. {f \in FlatEmbed(s) : f.pk} = {}
        <3>1. \A n : ~NewFieldFromColumn(t, n).pk
            BY <1>6, KeyField
        <3>2. QED
            BY <1>2, <3>1
    <2>3. QED
        BY <1>1, <1>6, <2>1, <2>2 DEF KeyOf
<1>7. CASE t.pk # {}
    <2>1. IsFiniteSet(t.pk)
        BY FS_Subset
    <2>2. Cardinality(t.pk) \in Nat /\ Cardinality(t.pk) # 0
        BY <1>7, <2>1, FS_EmptySet, FS_CardinalityType
    <2>3. Cardinality(t.pk) = 1
        BY <2>2
    <2>4. PICK n : t.pk = {n}
        BY <2>1, <2>3, FS_Singleton
    <2>5. own # {}
        BY <1>4, <2>4
    <2> HIDE DEF own
    <2>6. Min(own) \in own
        <3>1. \E x \in own : \A y \in own : x =< y
            BY <1>5, <2>5, LeastElement
        <3>2. QED
            BY <3>1 DEF Min
    <2>7. s[Min(own)].name = n
        BY <1>3, <2>4, <2>6
    <2>8. KeyOf(s) = {s[Min(own)].name}
        BY <2>5 DEF KeyOf, own
    <2>9. QED
        BY <1>1, <2>4, <2>7, <2>8
<1>8. QED
    BY <1>6, <1>7

\* The names that come back, and a column, but for what its tag cuts.
Backs(t) == {Snake[n] : n \in DOMAIN t.cols}
Cut(c) == [type |-> c.type, null |-> c.null, auto |-> c.auto, default |-> Parsed(Quoted(c.default))]

\* The columns come back like that.
LEMMA ColumnsComeBack ==
    ASSUME NEW t, IsSchema(t)
    PROVE  LET cols == NewTableFromStruct(Source(StructOf(t))).cols
           IN DOMAIN cols = Backs(t) /\ \A n \in DOMAIN t.cols : cols[Snake[n]] = Cut(t.cols[n])
<1> DEFINE Made(n) == NewFieldFromColumn(t, n)
<1>1. PICK fields : fields = {Made(n) : n \in DOMAIN t.cols}
    OBVIOUS
<1>2. FlatEmbed(StructOf(t)) = fields
    BY <1>1, FieldsOfTable DEF IsSchema
<1>3. \A n : Made(n).name = Snake[n]
    BY FieldOfColumn, Zenon
<1>4. ASSUME NEW n \in DOMAIN t.cols PROVE ToColumn(Made(n)) = Cut(t.cols[n])
    <2>1. t.cols[n].type # "" /\ t.cols[n].null \in BOOLEAN
        BY DEF IsSchema, Columns
    <2>2. PICK f : f = Made(n)
        OBVIOUS
    <2>3. /\ f.ptr = t.cols[n].null /\ f.null = FALSE /\ f.col = t.cols[n].type
          /\ f.auto = t.cols[n].auto /\ f.default = Quoted(t.cols[n].default)
        BY <2>2, FieldOfColumn
    <2>4. (f.null \/ f.ptr) = t.cols[n].null
        BY <2>1, <2>3
    <2>5. (IF f.col # "" THEN f.col ELSE ToColumnType(f.type)) = t.cols[n].type
        BY <2>1, <2>3
    <2>6. ToColumn(f) = Cut(t.cols[n])
        BY <2>3, <2>4, <2>5 DEF ToColumn, Cut
    <2>7. QED
        BY <2>2, <2>6
<1>5. NewTableFromStruct(Source(StructOf(t))).cols =
          [n \in {f.name : f \in fields} |-> ToColumn(CHOOSE f \in fields : f.name = n)]
    BY <1>2 DEF NewTableFromStruct, Source
<1> HIDE DEF Made
<1>6. {f.name : f \in fields} = Backs(t)
    BY <1>1, <1>3 DEF Backs
<1>7. ASSUME NEW n \in DOMAIN t.cols PROVE (CHOOSE f \in fields : f.name = Snake[n]) = Made(n)
    <2>1. Made(n) \in fields /\ Made(n).name = Snake[n]
        BY <1>1, <1>3
    <2>2. ASSUME NEW f \in fields, f.name = Snake[n] PROVE f = Made(n)
        <3>1. PICK m \in DOMAIN t.cols : f = Made(m)
            BY <1>1
        <3>2. m = n
            BY <1>3, <2>2, <3>1 DEF IsSchema
        <3>3. QED
            BY <3>1, <3>2
    <2>3. QED
        BY <2>1, <2>2
<1>8. \A n \in DOMAIN t.cols : Snake[n] \in Backs(t)
    BY DEF Backs
<1>9. PICK cols : cols = NewTableFromStruct(Source(StructOf(t))).cols
    OBVIOUS
<1>10. DOMAIN cols = Backs(t)
    BY <1>5, <1>6, <1>9
<1>11. ASSUME NEW n \in DOMAIN t.cols PROVE cols[Snake[n]] = Cut(t.cols[n])
    <2>1. cols[Snake[n]] = ToColumn(CHOOSE f \in fields : f.name = Snake[n])
        BY <1>5, <1>6, <1>8, <1>9
    <2>2. QED
        BY <1>4, <1>7, <2>1
<1>12. QED
    BY <1>9, <1>10, <1>11

\* The clauses in the tag of a field: one of each index the column is in.
Around(t, n) == {x \in t.indexes : n \in ToSet(x.cols)}
OneOfEach(idx, in, S, n) ==
    /\ DOMAIN idx = DOMAIN in /\ DOMAIN in \in SUBSET Nat
    /\ \A i \in DOMAIN in : in[i] \in S /\ idx[i].name = in[i].name /\ idx[i].unique = in[i].unique
    /\ \A i \in DOMAIN in : idx[i].desc = FALSE
    /\ \A i \in DOMAIN in : in[i].cols[idx[i].order] = n /\ idx[i].order \in DOMAIN in[i].cols
    /\ \A x \in S : \E i \in DOMAIN in : in[i] = x
    /\ \A i, j \in DOMAIN in : in[i] = in[j] => i = j

\* So NewFieldFromColumn makes them.
LEMMA ClausesOfColumn ==
    ASSUME NEW t, NEW n, IsSchema(t)
    PROVE  OneOfEach(NewFieldFromColumn(t, n).idx, SetToSeq(Around(t, n)), Around(t, n), n)
<1> DEFINE idx == NewFieldFromColumn(t, n).idx
           S == Around(t, n)
           in == SetToSeq(S)
           At1(x) == CHOOSE k \in DOMAIN x.cols : x.cols[k] = n
<1>1. IsFiniteSet(S)
    BY FS_Subset DEF IsSchema, Around
<1>2. idx = [i \in DOMAIN in |-> [name |-> in[i].name, unique |-> in[i].unique, desc |-> FALSE,
                                   order |-> At1(in[i])]]
    BY DEF NewFieldFromColumn, Around
<1>3. \A x \in S : At1(x) \in DOMAIN x.cols /\ x.cols[At1(x)] = n
    BY DEF ToSet, Around
<1> HIDE DEF S, At1, idx
<1>4. /\ DOMAIN in = 1..Cardinality(S) /\ Cardinality(S) \in Nat
      /\ \A i \in DOMAIN in : in[i] \in S
      /\ \A x \in S : \E i \in DOMAIN in : in[i] = x
      /\ \A i, j \in DOMAIN in : in[i] = in[j] => i = j
    BY <1>1, SetAsSeq
<1> HIDE DEF in
<1>5. DOMAIN idx = DOMAIN in /\ \A i \in DOMAIN in :
          /\ idx[i].name = in[i].name /\ idx[i].unique = in[i].unique
          /\ idx[i].desc = FALSE /\ idx[i].order = At1(in[i])
    BY <1>2
<1>6. DOMAIN in \in SUBSET Nat
    BY <1>4
<1>7. OneOfEach(idx, in, S, n)
    BY <1>3, <1>4, <1>5, <1>6 DEF OneOfEach
<1>8. QED
    BY <1>7 DEF S, in, idx

\* No column of the table is in two indexes of a kind.
Apart(t) == \A x, y \in t.indexes : x # y /\ x.unique = y.unique => ToSet(x.cols) \cap ToSet(y.cols) = {}

\* No index has a descending column, or one whose name does not come back.
Plain(t) == \A x \in t.indexes : x.desc = {} /\ \A n \in ToSet(x.cols) : Snake[n] = n

\* Of the clauses for an index that is unique, or is not, the last counts.
ClauseThatCounts(f, u, name, k) ==
    /\ Clauses(f, u) # {}
    /\ f.idx[Max(Clauses(f, u))].name = name
    /\ f.idx[Max(Clauses(f, u))].order = k
    /\ f.idx[Max(Clauses(f, u))].desc = FALSE

\* With Apart, it is that of the index the column is in.
LEMMA ClauseOfIndex ==
    ASSUME NEW t, NEW x \in t.indexes, NEW k \in DOMAIN x.cols, NEW f,
           IsSchema(t), Apart(t), f = NewFieldFromColumn(t, x.cols[k])
    PROVE  ClauseThatCounts(f, x.unique, x.name, k)
<1>1. PICK n, S, in : n = x.cols[k] /\ S = Around(t, n) /\ in = SetToSeq(Around(t, n))
    OBVIOUS
<1>2. /\ DOMAIN f.idx = DOMAIN in /\ DOMAIN in \in SUBSET Nat
      /\ \A i \in DOMAIN in : in[i] \in S /\ f.idx[i].name = in[i].name /\ f.idx[i].unique = in[i].unique
      /\ \A i \in DOMAIN in : f.idx[i].desc = FALSE
      /\ \A i \in DOMAIN in : in[i].cols[f.idx[i].order] = n /\ f.idx[i].order \in DOMAIN in[i].cols
      /\ \A y \in S : \E i \in DOMAIN in : in[i] = y
      /\ \A i, j \in DOMAIN in : in[i] = in[j] => i = j
    <2>1. OneOfEach(f.idx, in, S, n)
        BY <1>1, ClausesOfColumn
    <2>2. QED
        BY <2>1 DEF OneOfEach
<1>3. x \in S /\ \A y \in S : y \in t.indexes /\ n \in ToSet(y.cols)
    BY <1>1 DEF ToSet, Around
<1>4. PICK i \in DOMAIN in : in[i] = x
    BY <1>2, <1>3
<1>5. \A y \in S : y.unique = x.unique => y = x
    BY <1>1, <1>3 DEF Apart
<1>6. Clauses(f, x.unique) = {i}
    BY <1>2, <1>4, <1>5 DEF Clauses
<1>7. Max({i}) = i
    <2>1. i \in Nat
        BY <1>2, <1>4
    <2>2. i >= i
        BY <2>1
    <2>3. QED
        BY <2>2 DEF Max
<1>8. f.idx[i].name = x.name /\ f.idx[i].desc = FALSE
    BY <1>2, <1>4
<1>9. f.idx[i].order = k
    <2>1. x.cols[f.idx[i].order] = n /\ f.idx[i].order \in DOMAIN x.cols
        BY <1>2, <1>4
    <2>2. IsInjective(x.cols)
        BY DEF IsSchema
    <2>3. QED
        BY <1>1, <2>1, <2>2 DEF IsInjective
<1>10. QED
    BY <1>1, <1>6, <1>7, <1>8, <1>9 DEF ClauseThatCounts

\* A column that has a clause is in an index of its kind.
LEMMA IndexOfClause ==
    ASSUME NEW t, IsSchema(t), NEW n, NEW u, Clauses(NewFieldFromColumn(t, n), u) # {}
    PROVE  \E x \in t.indexes : x.unique = u /\ \E k \in DOMAIN x.cols : x.cols[k] = n
<1>1. PICK S, in, f : /\ S = Around(t, n) /\ in = SetToSeq(Around(t, n))
                      /\ f = NewFieldFromColumn(t, n)
    OBVIOUS
<1>2. /\ DOMAIN f.idx = DOMAIN in
      /\ \A i \in DOMAIN in : in[i] \in S /\ f.idx[i].unique = in[i].unique
    <2>1. OneOfEach(f.idx, in, S, n)
        BY <1>1, ClausesOfColumn
    <2>2. QED
        BY <2>1 DEF OneOfEach
<1>3. PICK i \in DOMAIN in : f.idx[i].unique = u
    BY <1>1, <1>2 DEF Clauses
<1>4. in[i] \in t.indexes /\ in[i].unique = u /\ n \in ToSet(in[i].cols)
    BY <1>1, <1>2, <1>3 DEF Around
<1>5. QED
    BY <1>4 DEF ToSet

\* What the tag of its column k says of index x.
Item(x, k) == [name |-> x.name, order |-> k, col |-> x.cols[k], desc |-> FALSE]

\* The items are those of the indexes.
LEMMA ItemsComeBack ==
    ASSUME NEW t, IsSchema(t), Apart(t), Plain(t), NEW u
    PROVE  LET fields == {NewFieldFromColumn(t, n) : n \in DOMAIN t.cols} IN
           \A it : it \in IndexItems(fields, u) <=>
               \E x \in t.indexes : x.unique = u /\ \E k \in DOMAIN x.cols : it = Item(x, k)
<1> DEFINE Made(n) == NewFieldFromColumn(t, n)
           Item1(f) == [name |-> f.idx[Max(Clauses(f, u))].name, order |-> f.idx[Max(Clauses(f, u))].order,
                       col |-> f.name, desc |-> f.idx[Max(Clauses(f, u))].desc]
<1>1. PICK fields : fields = {Made(n) : n \in DOMAIN t.cols}
    OBVIOUS
<1>2. IndexItems(fields, u) = {Item1(f) : f \in {g \in fields : Clauses(g, u) # {}}}
    BY DEF IndexItems
<1>3. ASSUME NEW x \in t.indexes, x.unique = u, NEW k \in DOMAIN x.cols
      PROVE  x.cols[k] \in DOMAIN t.cols /\ Clauses(Made(x.cols[k]), u) # {} /\ Item1(Made(x.cols[k])) = Item(x, k)
    <2>1. x.cols[k] \in DOMAIN t.cols
        BY DEF IsSchema
    <2>2. PICK f : f = NewFieldFromColumn(t, x.cols[k])
        OBVIOUS
    <2>3. /\ Clauses(f, u) # {} /\ f.idx[Max(Clauses(f, u))].name = x.name
          /\ f.idx[Max(Clauses(f, u))].order = k /\ f.idx[Max(Clauses(f, u))].desc = FALSE
        <3>1. ClauseThatCounts(f, x.unique, x.name, k)
            BY <2>2, ClauseOfIndex
        <3>2. QED
            BY <1>3, <3>1 DEF ClauseThatCounts
    <2>4. f.name = x.cols[k]
        BY <2>2, FieldOfColumn DEF Plain, ToSet
    <2>5. QED
        BY <2>1, <2>2, <2>3, <2>4 DEF Item
<1>4. ASSUME NEW n \in DOMAIN t.cols, Clauses(Made(n), u) # {}
      PROVE  \E x \in t.indexes : x.unique = u /\ \E k \in DOMAIN x.cols : x.cols[k] = n
    BY <1>4, IndexOfClause
<1> HIDE DEF Made, Item1
<1>5. ASSUME NEW it \in IndexItems(fields, u)
      PROVE  \E x \in t.indexes : x.unique = u /\ \E k \in DOMAIN x.cols : it = Item(x, k)
    <2>1. PICK n \in DOMAIN t.cols : Clauses(Made(n), u) # {} /\ it = Item1(Made(n))
        BY <1>1, <1>2
    <2>2. PICK x \in t.indexes : x.unique = u /\ \E k \in DOMAIN x.cols : x.cols[k] = n
        BY <1>4, <2>1
    <2>3. QED
        BY <1>3, <2>1, <2>2
<1>6. ASSUME NEW x \in t.indexes, x.unique = u, NEW k \in DOMAIN x.cols
      PROVE  Item(x, k) \in IndexItems(fields, u)
    BY <1>1, <1>2, <1>3, <1>6
<1>7. QED
    BY <1>1, <1>5, <1>6 DEF Made

\* An index comes back, its columns in their order.
LEMMA IndexComesBack ==
    ASSUME NEW t, IsSchema(t), Apart(t), Plain(t), NEW x \in t.indexes
    PROVE  IndexNamed({NewFieldFromColumn(t, n) : n \in DOMAIN t.cols}, x.name, x.unique) = x
<1> DEFINE fields == {NewFieldFromColumn(t, n) : n \in DOMAIN t.cols}
           N == Len(x.cols)
           g == [k \in 1..N |-> Item(x, k)]
           items == {j \in IndexItems(fields, x.unique) : j.name = x.name}
<1>1. /\ x = [name |-> x.name, unique |-> x.unique, cols |-> x.cols, desc |-> {}]
      /\ N \in Nat /\ x.cols = [k \in 1..N |-> x.cols[k]] /\ DOMAIN x.cols = 1..N
    <2>1. x \in [name : STRING, unique : BOOLEAN, cols : Seq(DOMAIN t.cols), desc : SUBSET DOMAIN t.cols]
        BY DEF IsSchema
    <2>2. /\ x = [name |-> x.name, unique |-> x.unique, cols |-> x.cols, desc |-> {}]
          /\ x.cols \in Seq(DOMAIN t.cols)
        BY <2>1 DEF Plain
    <2>3. QED
        BY <2>2
<1>2. \A it : it \in IndexItems(fields, x.unique) <=>
               \E y \in t.indexes : y.unique = x.unique /\ \E k \in DOMAIN y.cols : it = Item(y, k)
    BY ItemsComeBack
<1> HIDE DEF fields
<1>3. \A y \in t.indexes : y.name = x.name => y = x
    BY DEF IsSchema
<1>4. \A y, k : /\ Item(y, k).name = y.name /\ Item(y, k).order = k /\ Item(y, k).col = y.cols[k]
                /\ Item(y, k).desc = FALSE
    BY DEF Item
<1>5. items = {g[k] : k \in 1..N}
    <2>1. \A it : it \in items <=> \E k \in 1..N : it = Item(x, k)
        BY <1>1, <1>2, <1>3, <1>4
    <2>2. QED
        BY <2>1
<1>6. Sorted(items) = g
    <2>1. g \in [1..N -> {Item(x, k) : k \in 1..N}] /\ \A k \in 1..N : g[k].order = k
        BY <1>4
    <2> HIDE DEF g, N
    <2>2. N \in Nat
        BY <1>1
    <2>3. QED
        BY <1>5, <2>1, <2>2, SortedNumbered
<1>7. [k \in DOMAIN g |-> g[k].col] = x.cols
    BY <1>1, <1>4
<1>8. IndexNamed(fields, x.name, x.unique) =
          [name |-> x.name, unique |-> x.unique, cols |-> [k \in DOMAIN Sorted(items) |-> Sorted(items)[k].col],
           desc |-> {j.col : j \in {i \in items : i.desc}}]
    BY DEF IndexNamed
<1>9. {j.col : j \in {i \in items : i.desc}} = {}
    <2>1. \A k \in 1..N : g[k] = Item(x, k)
        OBVIOUS
    <2> HIDE DEF items, g
    <2>2. \A i \in items : i.desc = FALSE
        BY <1>4, <1>5, <2>1
    <2>3. QED
        BY <2>2
<1> HIDE DEF items, g
<1>10. QED
    BY <1>1, <1>6, <1>7, <1>8, <1>9 DEF fields

\* So do all of them.
LEMMA IndexesComeBack ==
    ASSUME NEW t, IsSchema(t), Apart(t), Plain(t)
    PROVE  Indexes({NewFieldFromColumn(t, n) : n \in DOMAIN t.cols}) = t.indexes
<1> DEFINE fields == {NewFieldFromColumn(t, n) : n \in DOMAIN t.cols}
<1>1. \A u, it : it \in IndexItems(fields, u) <=>
               \E x \in t.indexes : x.unique = u /\ \E k \in DOMAIN x.cols : it = Item(x, k)
    BY ItemsComeBack
<1>2. \A x \in t.indexes : IndexNamed(fields, x.name, x.unique) = x
    BY IndexComesBack
<1> HIDE DEF fields
<1>3. \A y : y \in Indexes(fields) <=>
                 \E u \in BOOLEAN : \E it \in IndexItems(fields, u) : y = IndexNamed(fields, it.name, u)
    BY DEF Indexes
<1>4. ASSUME NEW y \in Indexes(fields) PROVE y \in t.indexes
    <2>1. PICK u \in BOOLEAN : \E it \in IndexItems(fields, u) : y = IndexNamed(fields, it.name, u)
        BY <1>3
    <2>2. PICK it \in IndexItems(fields, u) : y = IndexNamed(fields, it.name, u)
        BY <2>1
    <2>3. PICK x \in t.indexes : x.unique = u /\ \E k \in DOMAIN x.cols : it = Item(x, k)
        BY <1>1
    <2>4. it.name = x.name
        BY <2>3 DEF Item
    <2>5. QED
        BY <1>2, <2>2, <2>3, <2>4
<1>5. ASSUME NEW x \in t.indexes PROVE x \in Indexes(fields)
    <2>1. x.unique \in BOOLEAN /\ x.cols \in Seq(DOMAIN t.cols) /\ x.cols # << >>
        BY DEF IsSchema
    <2>2. 1 \in DOMAIN x.cols
        BY <2>1
    <2>3. Item(x, 1) \in IndexItems(fields, x.unique) /\ Item(x, 1).name = x.name
        BY <1>1, <2>2 DEF Item
    <2>4. x = IndexNamed(fields, Item(x, 1).name, x.unique)
        BY <1>2, <2>3
    <2>5. QED
        BY <1>3, <2>1, <2>3, <2>4
<1>6. QED
    BY <1>4, <1>5 DEF fields

\* The struct of a table makes the table again: its columns, but for what the
\* tag cuts, and the key and the indexes of one that is not Lossy.
LEMMA RoundTrip ==
    ASSUME NEW t, IsSchema(t), NEW u, u = NewTableFromStruct(Source(StructOf(t)))
    PROVE  /\ DOMAIN u.cols = Backs(t) /\ \A n \in DOMAIN t.cols : u.cols[Snake[n]] = Cut(t.cols[n])
           /\ Lossy(t) \/ (u.pk = t.pk /\ u.indexes = t.indexes)
<1>1. u.pk = KeyOf(StructOf(t)) /\ u.indexes = Indexes(FlatEmbed(StructOf(t)))
    <2>1. PICK k, i, c : /\ k = KeyOf(StructOf(t)) /\ i = Indexes(FlatEmbed(StructOf(t)))
                         /\ c = NewTableFromStruct(Source(StructOf(t))).cols
        OBVIOUS
    <2>2. u = [is |-> "table", cols |-> c, pk |-> k, indexes |-> i, rows |-> << >>]
        BY <2>1 DEF NewTableFromStruct, Source
    <2>3. QED
        BY <2>1, <2>2
<1>2. ASSUME ~Lossy(t) PROVE (u.pk = t.pk /\ u.indexes = t.indexes)
    <2>1. IsFiniteSet(DOMAIN t.cols) /\ t.pk \subseteq DOMAIN t.cols
        BY DEF IsSchema
    <2>2. Cardinality(t.pk) <= 1
        <3>1. IsFiniteSet(t.pk)
            BY <2>1, FS_Subset
        <3>2. Cardinality(t.pk) \in Nat
            BY <3>1, FS_CardinalityType
        <3>3. QED
            BY <1>2, <3>2 DEF Lossy
    <2>3. Apart(t) /\ Plain(t) /\ \A n \in t.pk : Snake[n] = n
        BY <1>2 DEF Lossy, Apart, Plain
    <2>4. FlatEmbed(StructOf(t)) = {NewFieldFromColumn(t, n) : n \in DOMAIN t.cols}
        BY <2>1, FieldsOfTable
    <2>5. KeyOf(StructOf(t)) = t.pk
        BY <2>1, <2>2, <2>3, KeyComesBack
    <2>6. Indexes({NewFieldFromColumn(t, n) : n \in DOMAIN t.cols}) = t.indexes
        BY <2>3, IndexesComeBack
    <2>7. QED
        BY <1>1, <2>4, <2>5, <2>6
<1>3. QED
    BY <1>2, ColumnsComeBack

-----------------------------------------------------------------------------
(* The structs that a reverse run wrote. *)

\* A table that no struct stands for is as the database had it.
Unread == \A t \in Table : tables[t] # None /\ ~Written(structs[t]) => IsSchema(tables[t])

\* While its domain file is empty, a table and what was read of it are the same.
Same(t, u) == t.cols = u.cols /\ t.pk = u.pk /\ t.indexes = u.indexes
Copied ==
    tool.pc = "domain" =>
        /\ structs[Current] = Torn /\ tables[Current] # None
        /\ Def # None /\ Same(Def, tables[Current]) /\ tool.defs[Current].meta = StructOf(Def)

\* Only columns of the definition are changed.
Altering == tool.pc = "column" => tool.alter \subseteq DOMAIN Def.cols

\* A table that is to be read is there.
ToRead == tool.pc \in {"table", "domain"} /\ tool.mode = "reverse" =>
              \A t \in tool.todo : tables[t] # None

\* Table t has only columns of o, by the old names or those that come back, and its
\* key and its indexes; what a column is may still be as an earlier struct had it.
Keeps(t, o) ==
    /\ DOMAIN t.cols \subseteq DOMAIN o.cols \cup Backs(o)
    /\ \A n \in DOMAIN t.cols : t.cols[n].default # "cut"
    /\ Lossy(o) \/ (t.pk = o.pk /\ t.indexes = o.indexes)
Carries(t) ==
    origin[t] # None =>
        /\ IsSchema(origin[t]) /\ structs[t] = Source(StructOf(origin[t]))
        /\ tables[t] # None => Keeps(tables[t], origin[t])
Carried == DOMAIN origin = Table /\ \A t \in Table : Carries(t)

CInv == Unread /\ Copied /\ Altering /\ ToRead /\ Carried

\* What IsSchema and Keeps ask is of columns, key and indexes.
LEMMA SameSchema ==
    ASSUME NEW t, NEW u, Same(t, u)
    PROVE  /\ IsSchema(t) <=> IsSchema(u)
           /\ \A o : Keeps(t, o) <=> Keeps(u, o)
BY DEF Same, IsSchema, Keeps

\* The first state.
LEMMA InitCInv == DaoInit => CInv
<1> SUFFICES ASSUME DaoInit PROVE CInv
    OBVIOUS
<1>1. PICK p \in Projects : structs = p.structs /\ tables = p.tables
    BY DEF DaoInit, Init
<1>2. tool.pc = "idle" /\ origin = [t \in Table |-> None]
    BY DEF DaoInit, Init, Idle
<1>3. \A t \in Table : p.tables[t] # None => IsSchema(p.tables[t])
    BY DdlAssumption
<1>4. QED
    BY <1>1, <1>2, <1>3 DEF CInv, Unread, Copied, Altering, ToRead, Carried, Carries

\* A step that is none of a domain file or a column, and leaves the structs and
\* tables, keeps the invariant.
LEMMA OtherStep ==
    ASSUME CInv, structs' = structs, tables' = tables, origin' = origin,
           tool'.pc \notin {"domain", "column"}, ToRead'
    PROVE  CInv'
<1>1. Copied' /\ Altering'
    BY DEF Copied, Altering
<1>2. Unread' /\ Carried'
    BY DEF CInv, Unread, Carried, Carries
<1>3. QED
    BY <1>1, <1>2 DEF CInv

\* What the tool does to a table that it forwards leaves it as the struct asks.
LEMMA TableStep ==
    ASSUME TInv, CInv, NEW c \in Table, Written(structs[c]), structs' = structs, origin' = origin,
           DOMAIN tables' = Table, \A t \in Table : t # c => tables'[t] = tables[t],
           (origin[c] # None /\ tables'[c] # None) => Keeps(tables'[c], origin[c])
    PROVE  Unread' /\ Carried'
<1>1. Unread'
    BY DEF CInv, Unread
<1>2. Carried'
    BY DEF CInv, Carried, Carries
<1>3. QED
    BY <1>1, <1>2

\* A table is created as its struct has it.
LEMMA CreateTableCarries == ASSUME TInv, CInv, CreateTable PROVE CInv'
<1>1. PICK c, d : c = Current /\ d = Def
    OBVIOUS
<1>2. /\ tool.pc = "table" /\ tool.mode = "forward" /\ c \in tool.todo
      /\ tool' = [tool EXCEPT !.todo = @ \ {c}, !.pc = "table"]
      /\ structs' = structs /\ origin' = origin
      /\ \/ tables' = tables
         \/ Creatable(d) /\ tables' = [tables EXCEPT ![c] = d]
    BY <1>1 DEF CreateTable, At, Current, Def, Next1, Fine, Refused, Failed
<1>3. tool'.pc \notin {"domain", "column"}
    BY <1>2 DEF TInv, Stages
<1>4. ToRead'
    BY <1>2 DEF TInv, Stages, ToRead
<1>5. CASE tables' = tables
    BY <1>2, <1>3, <1>5, <1>4, OtherStep
<1>6. CASE Creatable(d) /\ tables' = [tables EXCEPT ![c] = d]
    <2>1. c \in Table /\ Written(structs[c]) /\ d = NewTableFromStruct(structs[c])
        BY <1>1, <1>2 DEF TInv, Stages, Forward, Def
    <2>2. DOMAIN tables' = Table /\ tables'[c] = d /\ \A t \in Table : t # c => tables'[t] = tables[t]
        BY <1>6, <2>1 DEF TInv, Shapes
    <2>3. ASSUME origin[c] # None PROVE Keeps(d, origin[c])
        <3>1. PICK o : o = origin[c]
            OBVIOUS
        <3>2. IsSchema(o) /\ d = NewTableFromStruct(Source(StructOf(o)))
            BY <2>1, <2>3, <3>1 DEF CInv, Carried, Carries
        <3>3. DOMAIN d.cols = Backs(o) /\ (Lossy(o) \/ (d.pk = o.pk /\ d.indexes = o.indexes))
            BY <3>2, RoundTrip
        <3>4. \A n \in DOMAIN d.cols : d.cols[n].default # "cut"
            BY <1>6 DEF Creatable, Accepts
        <3>5. QED
            BY <3>1, <3>3, <3>4 DEF Keeps
    <2>4. Unread' /\ Carried'
        BY <1>2, <2>1, <2>2, <2>3, TableStep
    <2>5. QED
        BY <1>3, <1>4, <2>4 DEF CInv, Copied, Altering
<1>7. QED
    BY <1>2, <1>5, <1>6

\* A table that exists is altered, beginning with the columns of its definition.
LEMMA DescribeCarries == ASSUME TInv, CInv, Describe PROVE CInv'
<1>1. /\ tool.pc = "table" /\ tool.mode = "forward"
      /\ structs' = structs /\ tables' = tables /\ origin' = origin
      /\ \/ tool' = [tool EXCEPT !.pc = "column", !.alter = DOMAIN Def.cols]
         \/ tool' = Idle
    BY DEF Describe, At, Fine, Abort, Failed
<1>2. CASE tool' = Idle
    <2>1. tool'.pc = "idle"
        BY <1>2 DEF Idle
    <2>2. QED
        BY <1>1, <2>1, OtherStep DEF ToRead
<1>3. CASE tool' = [tool EXCEPT !.pc = "column", !.alter = DOMAIN Def.cols]
    <2>1. /\ tool'.pc = "column" /\ tool'.todo = tool.todo /\ tool'.defs = tool.defs
          /\ tool'.alter = DOMAIN Def.cols
        BY <1>3 DEF TInv, Stages
    <2>2. Def' = Def
        BY <2>1 DEF Current, Def
    <2>3. Copied' /\ Altering' /\ ToRead'
        BY <2>1, <2>2 DEF Copied, Altering, ToRead
    <2>4. Unread' /\ Carried'
        BY <1>1 DEF CInv, Unread, Carried, Carries
    <2>5. QED
        BY <2>3, <2>4 DEF CInv
<1>4. QED
    BY <1>1, <1>2, <1>3

\* A column that is altered is one of the table's, and leaves its key and indexes.
LEMMA AlterColumnCarries == ASSUME TInv, CInv, AlterColumn PROVE CInv'
<1>1. PICK c, n, d : c = Current /\ n = Column /\ d = Def
    OBVIOUS
<1>2. /\ tool.pc = "column" /\ tool.alter # {} /\ structs' = structs /\ origin' = origin
      /\ tool' = [tool EXCEPT !.alter = @ \ {n}]
      /\ \/ /\ Acceptable(tables[c], n, d.cols[n])
            /\ tables' = [tables EXCEPT ![c] = WithColumn(@, n, d.cols[n])]
         \/ tables' = tables
    BY <1>1 DEF AlterColumn, Fine, Failed, Refused
<1>3. n \in tool.alter /\ n \in DOMAIN d.cols
    BY <1>1, <1>2 DEF Column, CInv, Altering
<1>4. /\ c \in tool.todo /\ c \in Table /\ tables[c] # None /\ IsTable(tables[c])
      /\ Written(structs[c]) /\ d = NewTableFromStruct(structs[c])
    BY <1>1, <1>2 DEF TInv, Stages, Current, Forward, Shapes, Def
<1>5. /\ tool'.pc = "column" /\ tool'.todo = tool.todo /\ tool'.defs = tool.defs
      /\ tool'.alter = tool.alter \ {n}
    BY <1>2 DEF TInv, Stages
<1>6. Def' = d
    BY <1>1, <1>5 DEF Current, Def
<1>7. Copied' /\ Altering' /\ ToRead'
    <2>1. tool.alter \subseteq DOMAIN d.cols
        BY <1>1, <1>2 DEF CInv, Altering
    <2>2. QED
        BY <1>5, <1>6, <2>1 DEF Copied, Altering, ToRead
<1>8. /\ DOMAIN tables' = Table /\ \A t \in Table : t # c => tables'[t] = tables[t]
      /\ \/ tables'[c] = tables[c]
         \/ /\ tables'[c] = WithColumn(tables[c], n, d.cols[n])
            /\ Acceptable(tables[c], n, d.cols[n])
    BY <1>2, <1>4 DEF TInv, Shapes
<1>9. ASSUME origin[c] # None PROVE Keeps(tables'[c], origin[c])
    <2>1. PICK o, t, u : o = origin[c] /\ t = tables[c] /\ u = tables'[c]
        OBVIOUS
    <2>2. IsSchema(o) /\ Keeps(t, o) /\ structs[c] = Source(StructOf(o))
        BY <1>4, <1>9, <2>1 DEF CInv, Carried, Carries
    <2>3. DOMAIN d.cols = Backs(o)
        BY <1>4, <2>2, RoundTrip
    <2>4. CASE u = t
        BY <2>1, <2>2, <2>4
    <2>5. CASE u = WithColumn(t, n, d.cols[n]) /\ Acceptable(t, n, d.cols[n])
        <3> DEFINE cols == [m \in DOMAIN t.cols \cup {n} |-> IF m = n THEN d.cols[n] ELSE t.cols[m]]
        <3>1. DOMAIN t = {"is", "cols", "pk", "indexes", "rows"}
            BY <1>4, <2>1, Kinds
        <3>2. PICK rows : u = [t EXCEPT !.cols = cols, !.rows = rows]
            BY <2>5 DEF WithColumn
        <3>3. DOMAIN cols \subseteq DOMAIN o.cols \cup Backs(o)
            BY <1>3, <2>2, <2>3 DEF Keeps
        <3>4. \A m \in DOMAIN cols : cols[m].default # "cut"
            BY <2>2, <2>5 DEF Keeps, Acceptable, Accepts
        <3> HIDE DEF cols
        <3>5. u.cols = cols /\ u.pk = t.pk /\ u.indexes = t.indexes
            BY <3>1, <3>2
        <3>6. Keeps(u, o)
            BY <2>2, <3>3, <3>4, <3>5 DEF Keeps
        <3>7. QED
            BY <2>1, <3>6
    <2>6. QED
        BY <1>8, <2>1, <2>4, <2>5
<1>10. Unread' /\ Carried'
    BY <1>2, <1>4, <1>8, <1>9, TableStep
<1>11. QED
    BY <1>7, <1>10 DEF CInv

\* What is read of a table is the table, and its struct.
LEMMA ReadTableCarries == ASSUME TInv, CInv, ReadTable PROVE CInv'
<1>1. PICK c, d : c = Current /\ d = OfTable(tables[c])
    OBVIOUS
<1>2. /\ tool.pc = "table" /\ tool.mode = "reverse" /\ c \in tool.todo
      /\ tables' = tables /\ origin' = origin
      /\ \/ tool' = Idle /\ structs' = structs
         \/ /\ structs[c] = None
            /\ tool' = [[tool EXCEPT !.pc = "domain"] EXCEPT !.defs[c] = d]
            /\ structs' = [structs EXCEPT ![c] = Torn]
         \/ /\ tool' = [[tool EXCEPT !.todo = @ \ {c}, !.pc = "table"] EXCEPT !.defs[c] = d]
            /\ structs' = structs
    BY <1>1 DEF ReadTable, At, Refused, Fine, Next1, Current
<1>3. c \in DOMAIN tool.defs /\ c \in Table /\ tables[c] # None
    BY <1>2 DEF TInv, Stages, CInv, ToRead
<1>4. CASE tool' = Idle /\ structs' = structs
    <2>1. tool'.pc = "idle"
        BY <1>4 DEF Idle
    <2>2. QED
        BY <1>2, <1>4, <2>1, OtherStep DEF ToRead
<1>5. CASE /\ structs' = structs
           /\ tool' = [[tool EXCEPT !.todo = @ \ {c}, !.pc = "table"] EXCEPT !.defs[c] = d]
    <2>1. tool'.pc = "table" /\ tool'.mode = tool.mode /\ tool'.todo = tool.todo \ {c}
        BY <1>5 DEF TInv, Stages
    <2>2. ToRead'
        BY <1>2, <2>1 DEF CInv, ToRead
    <2>3. QED
        BY <1>2, <1>5, <2>1, <2>2, OtherStep
<1>6. CASE /\ structs[c] = None /\ structs' = [structs EXCEPT ![c] = Torn]
           /\ tool' = [[tool EXCEPT !.pc = "domain"] EXCEPT !.defs[c] = d]
    <2>1. PICK s, t : s = StructOf(tables[c]) /\ t = [tables[c] EXCEPT !.rows = << >>]
        OBVIOUS
    <2>2. d.table = t /\ d.meta = s
        BY <1>1, <2>1 DEF OfTable
    <2>3. /\ tool'.pc = "domain" /\ tool'.mode = tool.mode /\ tool'.todo = tool.todo
          /\ tool'.defs = [tool.defs EXCEPT ![c] = d]
        BY <1>6 DEF TInv, Stages
    <2>4. Current' = c
        BY <1>1, <2>3 DEF Current
    <2>5. Def' = t /\ tool'.defs[c].meta = s
        BY <1>3, <2>2, <2>3, <2>4 DEF Def
    <2>6. DOMAIN tables[c] = {"is", "cols", "pk", "indexes", "rows"}
        BY <1>3, Kinds DEF TInv, Shapes
    <2>7. /\ t.cols = tables[c].cols /\ t.pk = tables[c].pk /\ t.indexes = tables[c].indexes
          /\ DOMAIN t = {"is", "cols", "pk", "indexes", "rows"}
        BY <2>1, <2>6
    <2>8. t # None /\ s = StructOf(t)
        <3>1. StructOf(t) = StructOf(tables[c])
            BY <2>7 DEF StructOf, NewFieldFromColumn
        <3>2. QED
            BY <2>1, <2>7, <3>1, Kinds
    <2>9. structs'[c] = Torn /\ \A u \in Table : u # c => structs'[u] = structs[u]
        BY <1>3, <1>6 DEF TInv, Shapes
    <2>10. Copied'
        BY <1>2, <1>3, <2>4, <2>5, <2>7, <2>8, <2>9 DEF Copied, Same
    <2>11. Altering' /\ ToRead'
        BY <1>2, <2>3 DEF Altering, ToRead, CInv
    <2>12. Unread'
        BY <1>2, <1>6, <2>9 DEF CInv, Unread, Written
    <2>13. Carried'
        <3>1. origin[c] = None
            BY <1>3, <1>6, Kinds DEF CInv, Carried, Carries
        <3>2. QED
            BY <1>2, <2>9, <3>1 DEF CInv, Carried, Carries
    <2>14. QED
        BY <2>10, <2>11, <2>12, <2>13 DEF CInv
<1>7. QED
    BY <1>2, <1>4, <1>5, <1>6

\* The struct that is written is that of the table.
LEMMA GenDomainGoCarries == ASSUME TInv, CInv, GenDomainGo PROVE CInv'
<1>1. PICK c, m, d : c = Current /\ m = tool.defs[c].meta /\ d = Def
    OBVIOUS
<1>2. /\ tool.pc = "domain" /\ tables' = tables
      /\ tool' = [tool EXCEPT !.todo = @ \ {c}, !.pc = "table"]
      /\ \/ structs' = [structs EXCEPT ![c] = Source(m)] /\ origin' = [origin EXCEPT ![c] = d]
         \/ structs' = structs /\ origin' = origin
         \/ structs' = [structs EXCEPT ![c] = None] /\ origin' = origin
    BY <1>1 DEF GenDomainGo, Next1, Fine, Failed
<1>3. c \in Table /\ structs[c] = Torn /\ tables[c] # None /\ d # None /\ Same(d, tables[c]) /\ m = StructOf(d)
    BY <1>1, <1>2 DEF TInv, Stages, Current, CInv, Copied
<1>4. tool'.pc = "table" /\ tool'.mode = tool.mode /\ tool'.todo = tool.todo \ {c}
    BY <1>2 DEF TInv, Stages
<1>5. Copied' /\ Altering' /\ ToRead'
    BY <1>2, <1>4 DEF CInv, Copied, Altering, ToRead
<1>6. IsSchema(tables[c]) /\ IsSchema(d)
    BY <1>3, SameSchema DEF CInv, Unread, Written
<1>7. \A t \in Table : t # c => structs'[t] = structs[t] /\ origin'[t] = origin[t]
    BY <1>2 DEF TInv, Shapes, CInv, Carried
<1>8. Unread'
    BY <1>2, <1>6, <1>7 DEF CInv, Unread
<1>9. DOMAIN origin' = Table /\ Carries(c)'
    <2>1. CASE structs' = [structs EXCEPT ![c] = Source(m)] /\ origin' = [origin EXCEPT ![c] = d]
        <3>1. structs'[c] = Source(StructOf(d)) /\ origin'[c] = d /\ DOMAIN origin' = Table
            BY <1>3, <2>1 DEF TInv, Shapes, CInv, Carried
        <3>2. Keeps(d, d)
            BY <1>6 DEF Keeps, IsSchema, Columns
        <3>3. Keeps(tables[c], d)
            BY <1>3, <3>2, SameSchema
        <3>4. QED
            BY <1>2, <1>6, <3>1, <3>3 DEF Carries
    <2>2. CASE origin' = origin
        <3>1. origin[c] = None
            BY <1>3, Kinds DEF CInv, Carried, Carries
        <3>2. QED
            BY <2>2, <3>1 DEF CInv, Carried, Carries
    <2>3. QED
        BY <1>2, <2>1, <2>2
<1>10. \A t \in Table : t # c => Carries(t)'
    BY <1>2, <1>7 DEF CInv, Carried, Carries
<1>11. QED
    BY <1>5, <1>8, <1>9, <1>10 DEF CInv, Carried

\* A developer's struct carries no table, and an empty database has none.
LEMMA OutsideCarries == ASSUME TInv, CInv, Crash \/ Outside PROVE CInv'
<1>1. CASE Crash
    <2>1. /\ tool'.pc = "idle" /\ structs' = structs /\ tables' = tables /\ origin' = origin
        BY <1>1 DEF Crash, Abort, Idle
    <2>2. QED
        BY <2>1, OtherStep DEF ToRead
<1>2. ASSUME NEW t \in Table, NEW d \in Drafts[t], Edit(t, d) PROVE CInv'
    <2>1. /\ tool = Idle /\ tool' = Idle /\ tables' = tables
          /\ structs' = [structs EXCEPT ![t] = Source(d)] /\ origin' = [origin EXCEPT ![t] = None]
        BY <1>2 DEF Edit
    <2>2. /\ Written(structs'[t]) /\ origin'[t] = None /\ DOMAIN origin' = Table
          /\ \A u \in Table : u # t => structs'[u] = structs[u] /\ origin'[u] = origin[u]
        BY <2>1, Kinds DEF TInv, Shapes, CInv, Carried, Written
    <2>3. tool'.pc = "idle"
        BY <2>1 DEF Idle
    <2>4. Copied' /\ Altering' /\ ToRead'
        BY <2>3 DEF Copied, Altering, ToRead
    <2>5. Unread' /\ Carried'
        BY <2>1, <2>2 DEF CInv, Unread, Carried, Carries
    <2>6. QED
        BY <2>4, <2>5 DEF CInv
<1>3. CASE Fresh
    <2>1. /\ tool'.pc = "idle" /\ structs' = structs /\ origin' = origin
          /\ tables' = [t \in Table |-> None]
        BY <1>3 DEF Fresh, Idle
    <2>2. QED
        BY <2>1 DEF CInv, Unread, Copied, Altering, ToRead, Carried, Carries
<1>4. QED
    BY <1>1, <1>2, <1>3 DEF Outside

\* The steps that neither read nor change structs or tables.
LEMMA FileStepCarries ==
    ASSUME TInv, CInv, Altered \/ TablesDone \/ GenDao \/ WriteDao \/ DaosDone PROVE CInv'
<1>1. /\ structs' = structs /\ tables' = tables /\ origin' = origin
      /\ tool'.pc \in {"idle", "table", "dao", "write"}
      /\ tool'.pc = "table" => tool'.mode = "forward"
    <2>1. PICK c : c = Current
        OBVIOUS
    <2>2. CASE Altered
        <3>1. /\ structs' = structs /\ tables' = tables /\ origin' = origin /\ tool.pc = "column"
              /\ tool' = [tool EXCEPT !.todo = @ \ {c}, !.pc = "table"]
            BY <2>1, <2>2 DEF Altered, Next1
        <3>2. QED
            BY <3>1 DEF TInv, Stages
    <2>3. CASE TablesDone \/ GenDao \/ WriteDao \/ DaosDone
        <3>1. /\ structs' = structs /\ tables' = tables /\ origin' = origin
              /\ \/ tool' = Idle
                 \/ tool' = [tool EXCEPT !.pc = "dao", !.todo = DOMAIN tool.defs, !.left = DaoFiles]
                 \/ tool' = [tool EXCEPT !.pc = "write"]
                 \/ tool.pc = "dao" /\ tool' = [tool EXCEPT !.left = Tail(@)]
                 \/ tool' = [tool EXCEPT !.pc = "dao", !.left = Tail(@)]
                 \/ tool.pc = "dao" /\ tool' = [tool EXCEPT !.todo = @ \ {c}, !.left = DaoFiles]
            BY <2>1, <2>3 DEF TablesDone, GenDao, Daos, WriteDao, DaosDone, End, Abort, Fine
        <3>2. Idle.pc = "idle"
            BY DEF Idle
        <3>3. QED
            BY <3>1, <3>2 DEF TInv, Stages
    <2>4. QED
        BY <2>2, <2>3
<1>2. QED
    BY <1>1, OtherStep DEF ToRead

\* A run begins with the tables there are.
LEMMA StartCarries ==
    ASSUME TInv, CInv, NEW mode \in {"forward", "reverse"}, NEW dao, Start(mode, dao) PROVE CInv'
<1>1. PICK todo, defs : /\ todo = Has(IF mode = "forward" THEN structs ELSE tables)
                        /\ tool' = [pc |-> "table", mode |-> mode, dao |-> dao, todo |-> todo, defs |-> defs,
                                    exist |-> Has(tables), alter |-> {}, left |-> << >>]
    BY Zenon DEF Start
<1>2. structs' = structs /\ tables' = tables /\ origin' = origin
    BY Zenon DEF Start
<1>3. tool'.pc = "table" /\ tool'.mode = mode /\ tool'.todo = todo
    BY <1>1
<1>4. ToRead'
    BY <1>1, <1>2, <1>3 DEF ToRead, Has
<1>5. QED
    BY <1>2, <1>3, <1>4, OtherStep

\* The service writes rows.
LEMMA WriteCarries ==
    ASSUME TInv, CInv, Usable, tool.pc \in {"idle", "column"}, NEW op, NEW id, NEW data, NEW q,
           Write(op, id, data, q)
    PROVE  CInv'
<1>1. PICK rows : tables' = [tables EXCEPT ![T].rows = rows]
    BY DEF Write
<1>2. structs' = structs /\ origin' = origin /\ tool' = tool
    BY DEF Write
<1>3. T \in Table /\ tables[T] # None /\ IsTable(tables[T]) /\ Written(structs[T])
    BY UsableFacts DEF Usable, TInv, Shapes
<1>4. /\ DOMAIN tables' = Table /\ \A t \in Table : t # T => tables'[t] = tables[t]
      /\ tables'[T] = [tables[T] EXCEPT !.rows = rows]
    BY <1>1, <1>3 DEF TInv, Shapes
<1>5. Same(tables[T], tables'[T])
    <2>1. DOMAIN tables[T] = {"is", "cols", "pk", "indexes", "rows"}
        BY <1>3, Kinds
    <2>2. QED
        BY <1>4, <2>1 DEF Same
<1>6. origin[T] # None => Keeps(tables'[T], origin[T])
    BY <1>3, <1>5, SameSchema DEF CInv, Carried, Carries
<1>7. Unread' /\ Carried'
    BY <1>2, <1>3, <1>4, <1>6, TableStep
<1>8. Current' = Current /\ Def' = Def
    BY <1>2 DEF Current, Def
<1>9. Copied' /\ Altering' /\ ToRead'
    BY <1>2, <1>8 DEF CInv, Copied, Altering, ToRead
<1>10. QED
    BY <1>7, <1>9 DEF CInv

\* The invariant is about the variables of the tool only.
LEMMA SameCInv == CInv /\ UNCHANGED ddlVars => CInv'
BY DEF ddlVars, CInv, Unread, Copied, Altering, ToRead, Carried, Carries, Keeps, Same, Current, Def

\* Every step keeps the invariant.
LEMMA NextCInv == TInv /\ CInv /\ [Next]_vars => CInv'
<1> SUFFICES ASSUME TInv, CInv, [Next]_vars PROVE CInv'
    OBVIOUS
<1>1. CASE UNCHANGED vars
    BY <1>1, SameCInv DEF vars, ddlVars
<1>2. CASE Serve
    <2>1. ASSUME NEW op \in Writes, NEW id, NEW data \in Datas, NEW q, Usable,
                 tool.pc \in {"idle", "column"}, Write(op, id, data, q)
          PROVE  CInv'
        BY <2>1, WriteCarries
    <2>2. CASE (\E size \in Sizes : Open(size)) \/ SelectPage \/ CountMany
        BY <2>2, SameCInv DEF Open, SelectPage, CountMany
    <2>3. QED
        BY <1>2, <2>1, <2>2, Served DEF Serve
<1>3. CASE Migrate
    <2>1. ASSUME NEW mode \in {"forward", "reverse"}, NEW dao \in BOOLEAN, Start(mode, dao)
          PROVE  CInv'
        BY <2>1, StartCarries
    <2>2. CASE CreateTable \/ Describe \/ AlterColumn \/ ReadTable \/ GenDomainGo
        BY <2>2, CreateTableCarries, DescribeCarries, AlterColumnCarries, ReadTableCarries,
           GenDomainGoCarries
    <2>3. CASE Altered \/ TablesDone \/ GenDao \/ WriteDao \/ DaosDone \/ Crash \/ Outside
        BY <2>3, FileStepCarries, OutsideCarries
    <2>4. QED
        BY <1>3, <2>1, <2>2, <2>3 DEF Migrate, Tool
<1>4. QED
    BY <1>1, <1>2, <1>3 DEF Next

\* Tables that agree with structs that carry them are as they were read: of a
\* column that agrees the tag has cut nothing, for a table has no default cut.
LEMMA CarriedIsBack == ASSUME TInv, CInv PROVE StructsCarryTables
<1> SUFFICES ASSUME clean = "forward", tool = Idle, NEW t \in Table, origin[t] # None
             PROVE  LET old == origin[t].cols IN
                    /\ \A n \in DOMAIN old : /\ Snake[n] \in DOMAIN tables[t].cols
                                             /\ tables[t].cols[Snake[n]] = Back(old[n])
                    /\ DOMAIN tables[t].cols \subseteq DOMAIN old \cup {Snake[n] : n \in DOMAIN old}
                    /\ \/ Lossy(origin[t])
                       \/ tables[t].pk = origin[t].pk /\ tables[t].indexes = origin[t].indexes
    BY DEF StructsCarryTables
<1>1. PICK o, u, d : o = origin[t] /\ u = tables[t] /\ d = NewTableFromStruct(structs[t])
    OBVIOUS
<1>2. /\ u # None /\ IsSchema(o) /\ structs[t] = Source(StructOf(o)) /\ Keeps(u, o)
      /\ \A n \in DOMAIN d.cols : n \in DOMAIN u.cols /\ u.cols[n] = d.cols[n]
    <2>1. IsSchema(o) /\ structs[t] = Source(StructOf(o)) /\ (u # None => Keeps(u, o))
        BY <1>1 DEF CInv, Carried, Carries
    <2>2. Written(structs[t])
        BY <2>1, Kinds DEF Written
    <2>3. QED
        BY <1>1, <2>1, <2>2, TInvAgrees DEF TablesAgree
<1>3. DOMAIN d.cols = Backs(o) /\ \A n \in DOMAIN o.cols : d.cols[Snake[n]] = Cut(o.cols[n])
    BY <1>1, <1>2, RoundTrip
<1>4. ASSUME NEW n \in DOMAIN o.cols
      PROVE  Snake[n] \in DOMAIN u.cols /\ u.cols[Snake[n]] = Back(o.cols[n])
    <2>1. Snake[n] \in DOMAIN u.cols /\ u.cols[Snake[n]] = Cut(o.cols[n])
        BY <1>2, <1>3 DEF Backs
    <2>2. PICK c, x : c = o.cols[n] /\ x = Quoted(c.default)
        OBVIOUS
    <2>3. Cut(c).default = Parsed(x)
        BY <2>2 DEF Cut
    <2>4. Parsed(x) # "cut"
        BY <1>2, <2>1, <2>2, <2>3 DEF Keeps
    <2>5. Parsed(x) = x
        BY <2>4 DEF Parsed
    <2>6. c \in Columns
        BY <1>2, <2>2 DEF IsSchema
    <2>7. Back(c) = [type |-> c.type, null |-> c.null, auto |-> c.auto, default |-> x]
        <3>1. c = [type |-> c.type, null |-> c.null, auto |-> c.auto, default |-> c.default]
            BY <2>6 DEF Columns
        <3>2. Back(c) = [c EXCEPT !.default = x]
            BY <2>2 DEF Back
        <3>3. QED
            BY <3>1, <3>2
    <2>8. Cut(c) = Back(c)
        BY <2>2, <2>5, <2>7 DEF Cut
    <2>9. QED
        BY <2>1, <2>2, <2>8
<1>5. DOMAIN u.cols \subseteq DOMAIN o.cols \cup {Snake[n] : n \in DOMAIN o.cols}
    BY <1>2 DEF Keeps, Backs
<1>6. Lossy(o) \/ (u.pk = o.pk /\ u.indexes = o.indexes)
    BY <1>2 DEF Keeps
<1>7. QED
    BY <1>1, <1>4, <1>5, <1>6

\* A forward run without failures leaves the columns of a table as a reverse run
\* read them, or makes the same in an empty database, but for the names and the
\* defaults that do not come back, and the key and the indexes of one that is not
\* Lossy: NewFieldFromColumn writes into the tags what NewTableFromStruct takes
\* from them (table.go).
THEOREM StructsCarry == Spec => []StructsCarryTables
<1>1. Spec => []CInv
    BY InitTInv, InitCInv, NextTInv, NextCInv, PTL DEF Spec
<1>2. TInv /\ CInv => StructsCarryTables
    BY CarriedIsBack
<1>3. QED
    BY ToolKeepsInv, <1>1, <1>2, PTL
=============================================================================
