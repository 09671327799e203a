------------------------------- MODULE MCDao --------------------------------
EXTENDS Dao

Dom(name, type, default) ==
    [name |-> name, type |-> type, ptr |-> FALSE, col |-> "", pk |-> FALSE, auto |-> FALSE,
     null |-> FALSE, default |-> default, idx |-> << >>]
Id == [Dom("id", "int64", "none") EXCEPT !.pk = TRUE, !.auto = TRUE]
A == Dom("a", "string", "none")
PtrA == [A EXCEPT !.ptr = TRUE]
Time == Dom("at", "time.Time", "none")
Flag == Dom("on", "bool", "none")
PtrTime == [Time EXCEPT !.ptr = TRUE]
MCBase == {Id, A, Dom("made", "time.Time", "now")}
Embed == Dom("Base", "embed", "none")
Clause(name, u, k) == [name |-> name, unique |-> u, order |-> k, desc |-> FALSE]

First == {<<Embed, PtrA>>, <<Id, Dom("a", "uint", "none")>>,
          <<Id, Dom("a", "string", "with colon")>>,
          <<[Id EXCEPT !.idx = <<Clause("i", FALSE, 2)>>], [A EXCEPT !.idx = <<Clause("i", FALSE, 1)>>]>>}
MCDrafts == [t \in {"t", "u"} |-> IF t = "u" THEN {} ELSE {<<Id, PtrTime, Flag>>}]

Col(type, null, default) == [type |-> type, null |-> null, auto |-> FALSE, default |-> default]
Key == [Col("bigint", FALSE, "none") EXCEPT !.auto = TRUE]
Tab(name, col, indexes, rows) ==
    [is |-> "table", cols |-> [n \in {"id", name} |-> IF n = "id" THEN Key ELSE col],
     pk |-> {"id"}, indexes |-> indexes, rows |-> [r \in 1..Len(rows) |-> [n \in {"id", name} |->
         IF n = "id" THEN "set" ELSE rows[r]]]]
Varchar == Col("varchar", TRUE, "none")
Index(name, u, cols) == [name |-> name, unique |-> u, cols |-> cols, desc |-> {}]
One(t) == [u \in {"t", "u"} |-> IF u = "t" THEN t ELSE None]
\* Tables whose keys are too wide for a service to use them.
Wide(types) == [is |-> "table", cols |-> [n \in types |-> Col(n, n \in {"text", "float"}, "none")],
                pk |-> types \ {"text", "float"}, indexes |-> {}, rows |-> << >>]
Read ==
    {One(Wide({"int", "int unsigned", "bigint", "float"})),
     One(Wide({"double", "varchar", "text", "tinyint"})),
     One(Wide({"datetime", "mediumtext", "decimal"})), One(Wide({"bigint", "json"}))}
    \cup {One(Tab("a", Col("datetime", d # "now", d), {}, << >>)) : d \in {"value", "now", "with colon"}}
    \cup {One(Tab("a", Col("varchar", TRUE, "expression"), {}, << >>))}
    \cup {One(Tab("a1", Varchar, {}, <<"set">>))}
    \cup {One(Tab("a", Varchar, ix, << >>)) :
            ix \in {{Index("i", FALSE, <<"a">>), Index("j", FALSE, <<"a", "id">>)},
                    {Index("i", TRUE, <<"a", "id">>), Index("j", FALSE, <<"id", "a">>)},
                    {[Index("i", FALSE, <<"a">>) EXCEPT !.desc = {"a"}]}}}
    \cup {[t \in {"t", "u"} |-> Tab("a", Varchar, {}, << >>)]}
\* a1 comes back as a_1.
MCSnake == [n \in {"a_1", "made", "at", "on"} \cup UNION {DOMAIN s[t].cols : s \in Read, t \in {"t"}} |->
                IF n = "a1" THEN "a_1" ELSE n]
Full == One(Tab("a", Varchar, {}, <<"null", "zero">>))
Strict(indexes) == One(Tab("a", Col("varchar", FALSE, "none"), indexes, <<"zero", "set">>))
Timely == One(Tab("at", Col("datetime", FALSE, "none"), {}, <<"set">>))
\* Tables to read, and structs to apply, to nothing or to a table with rows.
MCProjects == {[structs |-> One(None), tables |-> s] : s \in Read}
    \cup {[structs |-> One(Source(d)), tables |-> One(None)] : d \in First}
    \cup {[structs |-> One(Source(<<Embed, PtrA>>)), tables |-> Full],
          [structs |-> One(Source(<<Id, A>>)), tables |-> Strict({})],
          [structs |-> One(Source(<<Id, A>>)), tables |-> Strict({Index("i", TRUE, <<"a">>)})],
          [structs |-> One(Source(<<Id, Time>>)), tables |-> Timely]}

Crit(col, sym, vals) == [sym |-> sym, col |-> col, vals |-> vals]
Parts == {Crit("a", "is", {}), Crit("a", "!=", {"zero"})}
MCWheres == Parts \cup
    {Crit("id", "is not", {}), Crit("a", "in", {}), Crit("a", "in", {"odd"}),
     [sym |-> "or", l |-> Crit("a", "is", {}), r |-> Crit("a", "!=", {"zero"})]}
=============================================================================
