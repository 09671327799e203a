------------------------------- MODULE MCCall -------------------------------
EXTENDS Call

\* 64-bit integers become 5 bits wide, and every other type as much narrower.
MCSize == [t \in Ints |-> CASE t \in {"int8", "uint8"} -> 4 [] t \in {"int16", "uint16"} -> 8
                            [] t \in {"int32", "uint32"} -> 16 [] OTHER -> 32]
MCDense == [t \in Floats |-> IF t = "float32" THEN 8 ELSE 32]

Types == {"ctx", "int8", "uint8", "uint64", "float64", "bool", "string", "[]int", "[]string",
          "vo", "map[string]interface{}", "file", "files"}
MCLower == [n \in {"User", "UserName", "Username"} |-> IF n = "User" THEN "user" ELSE "username"]
M(prefix, params) == [prefix |-> prefix, noun |-> "User", params |-> params, result |-> "value",
                      words |-> 1, err |-> TRUE, snaky |-> FALSE]
Alone(ms) == {<<m>> : m \in ms}
Prefixes == {"Get", "Put", "Delete", "Post"}
MCInterface ==
    \* every verb, with one parameter and with two
    Alone({M(v, <<t>>) : v \in Prefixes, t \in Types \cup Ints \cup {"float32", "[]bool"}})
    \cup Alone({M(v, <<t, u>>) : v \in Prefixes \ {"Put"}, t \in Types \ {"uint64", "float64"},
                                u \in Types \ {"uint64", "float64", "bool", "ctx"}})
    \* every kind of result, names that are not lowerCamel
    \cup Alone({[M(v, p) EXCEPT !.result = r, !.words = w, !.err = e, !.snaky = (w = 2)] :
                   v \in Prefixes, p \in {<<"string">>, <<"file">>}, r \in {"value", "file", "none"},
                   w \in {1, 2}, e \in BOOLEAN})
    \* methods that differ by their verb only
    \cup {api \in {<<M(v, <<"string">>), M(w, <<t>>)>> : v, w \in {"Post", "other", "Get"},
                                                         t \in {"string", "int8"}} :
              api[1].prefix # api[2].prefix}
    \* methods that differ by the case of letters only
    \cup {<<M(v[1], <<"string">>), M(v[2], <<t>>)>> : v \in {<<"Get", "GET">>, <<"POST", "other">>},
                                                   t \in {"string", "int8"}}
    \cup {<<[M(v, <<"string">>) EXCEPT !.noun = "UserName"],
            [M(w, <<t>>) EXCEPT !.noun = "Username"]>> :
               v, w \in {"Put", "Post", "other"}, t \in {"string", "int8"}}
=============================================================================
