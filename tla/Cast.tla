-------------------------------- MODULE Cast --------------------------------
(***************************************************************************)
(* The conversions of the package cast (caste.go), which the handlers of a *)
(* generated service apply to the texts of a request and which services    *)
(* call themselves.  A value carries its dynamic type t, its number n, if  *)
(* it is a text its form, and if it is a container its elements; a text    *)
(* that is a JSON object carries the values in it.  Numbers are kept in    *)
(* halves (3 is 1.5), so that floats can have a fraction.  Every           *)
(* conversion yields the set of its possible results: one, but for a float *)
(* outside the range of an integer type, where Go promises none, and for a *)
(* map that is walked in any order.                                        *)
(***************************************************************************)
EXTENDS Integers, Sequences

CONSTANTS
    Size,      \* how many values each integer type has; 2^8 to 2^64 in the code
    Dense      \* below it a float type has every number; 2^25 and 2^54 halves

Signed == {"int", "int8", "int16", "int32", "int64"}
Unsigned == {"uint", "uint8", "uint16", "uint32", "uint64"}
Ints == Signed \cup Unsigned
Floats == {"float32", "float64"}
Scalars == Ints \cup Floats \cup {"bool", "string", "time", "duration"}
DynamicMaps == {"map[string]interface{}", "map[interface{}]interface{}"}
\* The maps that are converted to; the others only come from the caller.
StringMaps == {"map[string]interface{}", "map[string]string", "map[string]int",
               "map[string]int64", "map[string]bool", "map[string][]string"}
KeyedByAny == {"map[interface{}]interface{}", "map[interface{}]string",
               "map[interface{}][]string", "map[interface{}][]interface{}"}
Maps == StringMaps \cup KeyedByAny \cup {"map[string][]interface{}"}

\* An integer type has more values than 0 and 1, as many below zero as from
\* zero on if it is signed, and at most 64 bits.  A float type has 1.5, and the
\* spacing of its numbers is at most 2^64 where there are integers.
ASSUME CastAssumption ==
    /\ \A t \in Ints : /\ Size[t] \in Nat /\ Size[t] > 2 /\ Size[t] % 2 = 0
                       /\ Size[t] <= Size["int64"]
    /\ \A t \in Floats : /\ Dense[t] \in Nat /\ Dense[t] > 3
                         /\ \E k \in 0..64 : 2 * Size["int64"] <= 2^k * Dense[t]

Num(t, n) == [t |-> t, form |-> "", n |-> n, elems |-> << >>]
Text(form, n) == [t |-> "string", form |-> form, n |-> n, elems |-> << >>]
Of(t, s) == [t |-> t, form |-> "", n |-> 0, elems |-> s]
Json(s) == [Text("json", 0) EXCEPT !.elems = s]
Nil == Num("nil", 0)
Error == Num("error", 0)
Panic == Num("panic", 0)

Low(t) == IF t \in Signed THEN -Size[t] ELSE 0
High(t) == Low(t) + 2 * Size[t] - 2
Whole(h) == h % 2 = 0
InRange(h, t) == h \in Low(t)..High(t)

\* A Go conversion between integer types drops the bits that do not fit.
Wrap(h, t) == ((h - Low(t)) % (2 * Size[t])) + Low(t)
Trunc(h) == IF h >= 0 THEN h - (h % 2) ELSE h + (h % 2)
FloatToInt(h, t) == IF InRange(Trunc(h), t) THEN {Num(t, Trunc(h))}
                    ELSE {Num(t, k) : k \in {j \in Low(t)..High(t) : Whole(j)}}
\* The nearest float: the spacing doubles with each power of 2 past Dense.
Abs(h) == IF h < 0 THEN -h ELSE h
Spacing(h, t) == LET Within(k) == Abs(h) < 2^k * Dense[t] IN
    2^(CHOOSE k \in 0..64 : Within(k) /\ \A j \in 0..(k - 1) : ~Within(j))
Round(h, t) == LET u == Spacing(h, t) IN IF Abs(h) % u = 0 THEN h
               ELSE LET down == Abs(h) - (Abs(h) % u)
                        a == IF (down \div u) % 2 = 0 THEN down ELSE down + u
                    IN IF h < 0 THEN -a ELSE a

-----------------------------------------------------------------------------
(* Texts of numbers, by their form: "num" is a decimal without a leading    *)
(* zero, "under" has underscores (1_000), "based" a prefix (0x1f), "octal"  *)
(* a leading zero (010, and n is 8), "padded" a leading zero but a digit    *)
(* above 7 (08), "exp" an exponent (1e3).  Integers are parsed with base 0, *)
(* so that the prefix decides; floats and durations as decimals.            *)
Numeric(s) == s.t = "string" /\ s.form = "num"
Parses0(s) == s.t = "string" /\ s.form \in {"num", "under", "based", "octal"}
ParsesFloat(s) == s.t = "string" /\ s.form \in {"num", "under", "octal", "padded", "exp"}
ParsesSpan(s) == s.t = "string" /\ s.form \in {"num", "octal", "padded"}
\* The digits of a number in base 8, read as a decimal.
Decimal[d \in Nat] == IF d < 8 THEN d ELSE 10 * Decimal[d \div 8] + (d % 8)
Digits(s) == IF s.form # "octal" THEN s.n
             ELSE IF s.n < 0 THEN -2 * Decimal[(-s.n) \div 2] ELSE 2 * Decimal[s.n \div 2]

-----------------------------------------------------------------------------
(* To the integer types.  Texts are parsed as 64 bits for every signed      *)
(* type, as the type's own width for the unsigned ones.                     *)
ToSigned(v, t) ==
    CASE v.t \in Ints              -> {Num(t, Wrap(v.n, t))}
      [] v.t \in Floats            -> FloatToInt(v.n, t)
      [] v.t \in {"bool", "nil"}   -> {Num(t, v.n)}
      [] Parses0(v) /\ Whole(v.n) /\ InRange(v.n, "int64") -> {Num(t, Wrap(v.n, t))}
      [] OTHER                     -> {Error}

ToUnsigned(v, t) ==
    CASE v.t \in Ints /\ v.n >= 0   -> {Num(t, Wrap(v.n, t))}
      [] v.t \in Floats /\ v.n >= 0 -> FloatToInt(v.n, t)
      [] v.t \in {"bool", "nil"}     -> {Num(t, v.n)}
      [] Parses0(v) /\ Whole(v.n) /\ InRange(v.n, t) -> {Num(t, v.n)}
      [] OTHER                     -> {Error}

ToInt64E(v) == ToSigned(v, "int64")
ToInt32E(v) == ToSigned(v, "int32")
ToInt16E(v) == ToSigned(v, "int16")
ToInt8E(v)  == ToSigned(v, "int8")
ToIntE(v)   == ToSigned(v, "int")
ToUintE(v)   == ToUnsigned(v, "uint")
ToUint64E(v) == ToUnsigned(v, "uint64")
ToUint32E(v) == ToUnsigned(v, "uint32")
ToUint16E(v) == ToUnsigned(v, "uint16")
ToUint8E(v)  == ToUnsigned(v, "uint8")

Floating(v) == v.t \in Ints \cup Floats \cup {"bool"} \/ ParsesFloat(v)
MutToFloat(v, t) ==       \* no run uses it: texts are parsed as 32 bits for both types
    IF Floating(v) THEN {Num(t, Round(Digits(v), IF v.t = "string" THEN "float32" ELSE t))}
    ELSE {Error}

ToFloat(v, t) == IF Floating(v) THEN {Num(t, Round(Digits(v), t))} ELSE {Error}
ToFloat64E(v) == ToFloat(v, "float64")
ToFloat32E(v) == ToFloat(v, "float32")

\* Only a bool, nil, an int, or a text ParseBool knows.
ToBoolE(v) ==
    CASE v.t \in {"bool", "nil"}  -> {Num("bool", v.n)}
      [] v.t = "int"              -> {Num("bool", IF v.n = 0 THEN 0 ELSE 2)}
      [] v.t = "string" /\ (v.form = "bool" \/ (v.form = "num" /\ v.n \in {0, 2}))
                                  -> {Num("bool", v.n)}
      [] OTHER                    -> {Error}

\* Seconds since 1970, as 64 bits; a text in one of the known layouts.
ToTimeE(v) ==
    CASE v.t \in {"int", "int64", "int32", "uint", "uint64", "uint32"}
                                                  -> {Num("time", Wrap(v.n, "int64"))}
      [] v.t = "time" \/ v.form = "date"          -> {Num("time", v.n)}
      [] OTHER                                    -> {Error}

\* Nanoseconds; a text without a unit is taken for nanoseconds.
ToDurationE(v) ==
    CASE v.t \in Ints   -> {Num("duration", w.n) : w \in ToInt64E(v)}
      [] v.t \in Floats -> {Num("duration", w.n) : w \in FloatToInt(v.n, "int64")}
      [] v.t = "duration" \/ v.form = "span" -> {Num("duration", v.n)}
      [] ParsesSpan(v) /\ InRange(Digits(v), "int64") -> {Num("duration", Trunc(Digits(v)))}
      [] OTHER          -> {Error}

ToStringE(v) ==
    CASE v.t = "string"           -> {v}
      [] v.t \in Ints \cup Floats -> {Text("num", v.n)}
      [] v.t = "bool"             -> {Text("bool", v.n)}
      [] v.t = "time"             -> {Text("date", v.n)}
      [] v.t = "duration"         -> {Text("span", v.n)}
      [] v.t = "nil"              -> {Text("empty", 0)}
      [] OTHER                    -> {Error}

-----------------------------------------------------------------------------
(* Containers.  Each(F, s) converts every element, and Zero(F, zero, v) has *)
(* no error: cast.go returns the zero value instead.                        *)
Each(F(_), s) == {r \in [DOMAIN s -> UNION {F(s[i]) : i \in DOMAIN s}] :
                      \A i \in DOMAIN s : r[i] \in F(s[i])}
Zero(F(_), zero, v) == {IF r = Error THEN zero ELSE r : r \in F(v)}
AllOf(t, F(_), s) == {IF \E i \in DOMAIN r : r[i] = Error THEN Error ELSE Of(t, r) :
                          r \in Each(F, s)}
ToBool(v) == Zero(ToBoolE, Num("bool", 0), v)
ToInt(v) == Zero(ToIntE, Num("int", 0), v)
ToInt64(v) == Zero(ToInt64E, Num("int64", 0), v)
ToString(v) == Zero(ToStringE, Text("empty", 0), v)

Lists == {"[]interface{}", "[]int", "[]string", "[]bool", "[]duration"}
\* Of the lists of the model, []interface{} is the only one it accepts.
ToSliceE(v) == IF v.t = "[]interface{}" THEN {v} ELSE {Error}
ListOf(t, F(_), v) == IF v.t = t THEN {v}
                      ELSE IF v.t \in Lists THEN AllOf(t, F, v.elems) ELSE {Error}
ToBoolSliceE(v) == ListOf("[]bool", ToBoolE, v)
ToIntSliceE(v) == ListOf("[]int", ToIntE, v)
ToDurationSliceE(v) == ListOf("[]duration", ToDurationE, v)
\* The other lists fall through to ToStringE, which refuses them; a single
\* value becomes a list of one text, a text the list of its words.
ToStringSliceE(v) ==
    CASE v.t = "[]string" -> {v}
      [] v.t \in {"[]interface{}", "[]int"} ->
             {Of("[]string", r) : r \in Each(ToString, v.elems)}
      [] v.t = "string" -> {Of("[]string", IF v.form = "empty" THEN << >> ELSE <<v>>)}
      [] v.t \in Scalars \ {"string"} -> AllOf("[]string", ToStringE, <<v>>)
      [] OTHER -> {Error}

ToStringSlice(v) == Zero(ToStringSliceE, Of("[]string", << >>), v)

\* What encoding/json makes of a value in an object: null leaves the zero value.
JsonText(e) == {IF e.t = "string" THEN e ELSE IF e.t = "nil" THEN Text("empty", 0) ELSE Error}
JsonBool(e) == {IF e.t \in {"bool", "nil"} THEN Num("bool", e.n) ELSE Error}
JsonWhole(t, e) == {IF e.t = "nil" \/ (e.t = "number" /\ Whole(e.n) /\ InRange(e.n, t))
                    THEN Num(t, e.n) ELSE Error}
JsonInt(e) == JsonWhole("int", e)
JsonInt64(e) == JsonWhole("int64", e)
JsonTexts(e) == IF e.t \in {"[]interface{}", "nil"} THEN AllOf("[]string", JsonText, e.elems)
                ELSE {Error}
Float(e) == IF e.t = "number" THEN Num("float64", Round(e.n, "float64")) ELSE e
JsonAny(e) == {IF e.t = "[]interface{}" THEN Of(e.t, [i \in DOMAIN e.elems |-> Float(e.elems[i])])
               ELSE Float(e)}
\* jsonStringToObject: of a text, if it is an object or null; of nothing else.
FromJson(t, F(_), v) == IF v.form = "json" THEN AllOf(t, F, v.elems) ELSE {Error}

\* Maps, as their values under some distinct keys.  A map of interface values
\* is converted without errors; a map of another type may fail as a whole.
AllTo(t, F(_), s) == {Of(t, r) : r \in Each(F, s)}
ToStringMapE(v) == IF v.t \in DynamicMaps THEN {Of("map[string]interface{}", v.elems)}
                   ELSE FromJson("map[string]interface{}", JsonAny, v)
ToStringMapStringE(v) ==
    CASE v.t = "map[string]string" -> {v}
      [] v.t \in DynamicMaps \cup {"map[interface{}]string"} ->
             AllTo("map[string]string", ToString, v.elems)
      [] OTHER -> FromJson("map[string]string", JsonText, v)
ToStringMapBoolE(v) ==
    CASE v.t = "map[string]bool" -> {v}
      [] v.t \in DynamicMaps -> AllTo("map[string]bool", ToBool, v.elems)
      [] OTHER -> FromJson("map[string]bool", JsonBool, v)
\* By reflection: a key that is an interface value cannot be set in a map of
\* strings, which panics with the first value that is converted.
Reflected(t, F(_), v) ==
    IF v.t \in KeyedByAny /\ v.elems # << >>
    THEN {IF r = Error THEN Error ELSE Panic : r \in UNION {F(v.elems[i]) : i \in DOMAIN v.elems}}
    ELSE AllOf(t, F, v.elems)
ToStringMapIntE(v) ==
    CASE v.t = "map[string]int" -> {v}
      [] v.t \in DynamicMaps -> AllTo("map[string]int", ToInt, v.elems)
      [] v.t \in Maps \ (DynamicMaps \cup {"map[string]int"}) ->
             Reflected("map[string]int", ToIntE, v)
      [] OTHER -> FromJson("map[string]int", JsonInt, v)
ToStringMapInt64E(v) ==
    CASE v.t = "map[string]int64" -> {v}
      [] v.t \in DynamicMaps -> AllTo("map[string]int64", ToInt64, v.elems)
      [] v.t \in Maps \ (DynamicMaps \cup {"map[string]int64"}) ->
             Reflected("map[string]int64", ToInt64E, v)
      [] OTHER -> FromJson("map[string]int64", JsonInt64, v)
\* A list stays one, any other value becomes a list of one text.
Single(e) == CASE e.t = "[]interface{}" -> ToStringSlice(e)
               [] e.t = "[]string" -> {e}
               [] OTHER -> {Of("[]string", <<r>>) : r \in ToString(e)}
ToStringMapStringSliceE(v) ==
    CASE v.t = "map[string][]string" -> {v}
      [] v.t \in {"map[string]interface{}", "map[string]string"} ->
             AllTo("map[string][]string", Single, v.elems)
      [] v.t = "map[interface{}]interface{}" ->
             AllOf("map[string][]string", ToStringSliceE, v.elems)
      [] v.t \in {"map[string][]interface{}", "map[interface{}][]string",
                  "map[interface{}][]interface{}", "map[interface{}]string"} ->
             AllTo("map[string][]string", ToStringSlice, v.elems)
      [] OTHER -> FromJson("map[string][]string", JsonTexts, v)

-----------------------------------------------------------------------------
\* Whether a type can hold a number, and a number survives a chain of types.
Fits(h, t) == CASE t \in Ints -> Whole(h) /\ InRange(h, t)
                [] t \in {"time", "duration"} -> Whole(h) /\ InRange(h, "int64")
                [] t \in Floats -> Round(h, t) = h
                [] t = "bool" -> h \in {0, 2}
                [] OTHER -> TRUE
=============================================================================
