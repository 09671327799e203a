-------------------------------- MODULE Call --------------------------------
(***************************************************************************)
(* One call of a service, from a generated client (the service's own, or   *)
(* one generated from its OpenAPI document) through the network to the     *)
(* generated handler (appendHttpHandlerImplTmpl in httphandlerimpl.go), to *)
(* the service's method and back.  The client and the server fail and give *)
(* up on their own; the method may convert what it got (Cast.tla).         *)
(***************************************************************************)
EXTENDS Api

CONSTANTS
    Interface,   \* the service interfaces, sequences of methods
    Cased,       \* the spellings of a result: "camel" or "snake"
    MaxCasts     \* bound of the model on the conversions a method makes

Methods == [prefix : Get \cup Put \cup Delete \cup {"Post", "POST", "other"},
            noun : DOMAIN Lower,
            params : Seq(STRING), snaky : BOOLEAN, result : {"value", "file", "none"},
            words : Nat \ {0}, err : BOOLEAN]

\* No two methods have one name.  Bound of the model: methods that share a
\* route take as many parameters, and only builtin ones.
ASSUME InterfaceAssumption ==
    /\ Interface \subseteq Seq(Methods)
    /\ \A api \in Interface : \A i, j \in DOMAIN api : i # j =>
           /\ <<api[i].prefix, api[i].noun>> # <<api[j].prefix, api[j].noun>>
           /\ Len(api[i].params) = Len(api[j].params)
           /\ \A k \in DOMAIN api[i].params : api[i].params[k] \in Builtin
ASSUME CasedAssumption == Cased \subseteq {"camel", "snake"}

VARIABLES
    call,      \* the interface, the method called, by which client, with what
    client,    \* where the client's method stands
    server,    \* where the handler stands
    at,        \* the parameter the handler parses next
    form,      \* _req.Form: not parsed, from the URL and a urlencoded body, or
               \* from a multipart body as well
    got,       \* the parameters the handler has parsed
    status,    \* the response: 0 while there is none
    outcome,   \* what the caller sees: a result, an error, or zero values
               \* without an error
    sends,     \* how often the request was sent
    ran,       \* history: how often the method called ran
    strayed,   \* history: another method ran instead
    held,      \* what the method has made of its argument, if it converts one
    casts,     \* history: how often it converted it, and
    exact      \* whether every type on the way could hold the argument

vars == <<call, client, server, at, form, got, status, outcome, sends, ran,
          strayed, held, casts, exact>>
told == <<status, outcome>>
past == <<ran, strayed>>
casting == <<held, casts, exact>>

Method == call.api[call.m]
Target == call.api[Routed(call.api, call.m)]
Placed(i) == Place(Method, call.args, call.via, i)

\* The values of a type that are tried: the ends of a range and between, and
\* texts of every kind (010 is the 8 of base 0).
Values(t) ==
    CASE t \in Ints -> {Num(t, Low(t)), Num(t, 2), Num(t, High(t))}
      [] t \in Floats -> {Num(t, 3), Num(t, 2)}
      [] t = "bool" -> {Num(t, 0), Num(t, 2)}
      [] t = "string" -> {Text("num", High("int64")), Text("word", 0), Text("empty", 0),
                          Text("octal", 16), Text("based", 2),
                          Json(<<Num("number", 2), Nil>>), Json(<<Of("[]interface{}", <<Nil>>)>>)}
      [] t = "[]int" -> {Of(t, << >>), Of(t, <<Num("int", Low("int")), Num("int", 2)>>)}
      [] t = "[]string" -> {Of(t, <<Text("word", 0)>>)}
      [] t = "[]bool" -> {Of(t, <<Num("bool", 2)>>)}
      [] t = "map[string]interface{}" ->
             {Of(t, <<Num("int64", High("int64"))>>), Of(t, <<Num("int", 2), Nil>>)}
      [] t = "map[string]struct{}" -> {Of(t, <<Num("struct", 0)>>)}
      [] t = "files" -> {Of(t, << >>), Of(t, <<Num("file", 0)>>)}
      [] OTHER -> {Num(t, 0)}

Args(params, via) == LET Typed(i) == Values(IF via = "svc" THEN params[i]
                                            ELSE ToGoType(SchemaOf(params[i])))
                     IN {a \in [DOMAIN params -> UNION {Typed(i) : i \in DOMAIN params}] :
                             \A i \in DOMAIN params : a[i] \in Typed(i)}

Init == /\ \E api \in Interface, c \in Cased, via \in {"svc", "doc"} :
             \E m \in (IF via = "svc" THEN DOMAIN api ELSE PathsOf(api)) :
               /\ ValidateRestApi(api[m].params)
               /\ \E a \in Args(api[m].params, via) :
                    call = [api |-> api, m |-> m, via |-> via, args |-> a, cased |-> c]
        /\ client = "select" /\ server = "none"
        /\ at = 1 /\ form = "none" /\ got = << >>
        /\ status = 0 /\ outcome = "none" /\ sends = 0
        /\ ran = 0 /\ strayed = FALSE
        /\ held = Nil /\ casts = 0 /\ exact = FALSE

-----------------------------------------------------------------------------
(* The client.  A failure becomes the method's error result, if it has one: *)
(* a client generated from the document always does.                        *)
Failed == IF call.via = "doc" \/ Method.err THEN "error" ELSE "silent"
Ends(o) == client' = "done" /\ outcome' = o

Select == /\ client = "select"
          /\ \/ client' = "open" /\ UNCHANGED outcome
             \/ Ends(Failed)                        \* SelectServer fails
          /\ UNCHANGED <<call, server, at, form, got, status, sends, past, casting>>

\* Opens the files and sends the request, which may never arrive.
Send == /\ client = "open"
        /\ \/ /\ ~(call.via = "svc" /\ Refused(Method, call.args))
              /\ client' = "wait" /\ sends' = sends + 1
              /\ server' = "parse"
              /\ UNCHANGED outcome
           \/ /\ call.via = "svc" /\ Attached(Method, call.args)
              /\ Ends(Failed)
              /\ UNCHANGED <<server, sends>>
        /\ UNCHANGED <<call, at, form, got, status, past, casting>>

\* The connection breaks or the minute of NewClient is over.  The handler may
\* be gone with it, or go on unheard.
Lose == /\ client = "wait" /\ Ends(Failed)
        /\ server' \in {server, "gone"}
        /\ UNCHANGED <<call, at, form, got, status, sends, past, casting>>

\* net/http sends a GET again if a kept connection broke before the response.
Replay == /\ client = "wait" /\ sends = 1 /\ HttpMethod(Method) = "GET"
          /\ sends' = sends + 1
          /\ server' = "parse" /\ at' = 1 /\ form' = "none" /\ got' = << >> /\ status' = 0
          /\ held' = Nil /\ casts' = 0 /\ exact' = FALSE
          /\ UNCHANGED <<call, client, outcome, past>>

MutReceive ==                          \* IsError() is not checked
    /\ client = "wait" /\ server = "answered"
    /\ Ends("ok")
    /\ UNCHANGED <<call, server, at, form, got, status, sends, past, casting>>

\* A result is found in the response if the handler spells it as the client does.
Spelled == Target.result # "value" \/ Target.words = 1 \/ call.cased = "camel"
Receive == /\ client = "wait" /\ server = "answered"
           /\ \/ status # 200 /\ Ends(Failed)
              \/ /\ status = 200
                 /\ Ends(IF Target.result # Method.result THEN Failed
                         ELSE IF Spelled /\ Target = Method THEN "ok" ELSE "zero")
              \/ status = 200 /\ Method.result = "file" /\ Ends(Failed)   \* no local file
           /\ UNCHANGED <<call, server, at, form, got, status, sends, past, casting>>

-----------------------------------------------------------------------------
(* The handler.  Parameters are parsed in order, the first failure answers. *)
Answer(s) == server' = "answered" /\ status' = s
Param == Target.params[at]
Parsed(v) == at' = at + 1 /\ got' = Append(got, v)
Refuse == Answer(400) /\ UNCHANGED <<at, got>>
CurrentForm == IF form # "none" THEN form
               ELSE IF Multipart(Method, call.args, call.via) THEN "multi" ELSE "url"

\* What fmt.Sprintf("%v") and a form make of a builtin value.
AsText(v) == CASE v.t = "string" -> v [] v.t = "bool" -> Text("bool", v.n) [] OTHER -> Text("num", v.n)
AsForm(v) == IF v.t \in Lists THEN Of("[]string", [i \in DOMAIN v.elems |-> AsText(v.elems[i])])
             ELSE AsText(v)
Absent == IF Param \in Lists THEN Of("[]string", << >>) ELSE Text("empty", 0)

MutRead(f) ==                          \* _req.PostForm, which lacks the URL's values
    IF Target = Method /\ (Placed(at) = "form" \/ (f = "multi" /\ Placed(at) = "multipart"))
    THEN AsForm(call.args[at]) ELSE Absent

\* What _req.Form holds for the parameter once the form is f.  Of another
\* method's arguments it holds nothing under the parameter's name.
Read(f) ==
    IF /\ Target = Method
       /\ Placed(at) \in {"form", "query"} \/ (f = "multi" /\ Placed(at) = "multipart")
    THEN AsForm(call.args[at]) ELSE Absent

\* castFuncMap: by the type of the parameter or the one a method asks for.
CastFunc(t, v) ==
    CASE t = "bool" -> ToBoolE(v)           [] t = "string" -> ToStringE(v)
      [] t = "float64" -> ToFloat64E(v)     [] t = "float32" -> ToFloat32E(v)
      [] t = "int64" -> ToInt64E(v)         [] t = "int32" -> ToInt32E(v)
      [] t = "int16" -> ToInt16E(v)         [] t = "int8" -> ToInt8E(v)
      [] t = "int" -> ToIntE(v)             [] t = "uint" -> ToUintE(v)
      [] t = "uint8" -> ToUint8E(v)         [] t = "uint16" -> ToUint16E(v)
      [] t = "uint32" -> ToUint32E(v)       [] t = "uint64" -> ToUint64E(v)
      [] t = "[]interface{}" -> ToSliceE(v) [] t = "[]bool" -> ToBoolSliceE(v)
      [] t = "[]string" -> ToStringSliceE(v) [] t = "[]int" -> ToIntSliceE(v)
      [] t = "[]duration" -> ToDurationSliceE(v)
      [] t = "time" -> ToTimeE(v)           [] t = "duration" -> ToDurationE(v)
      [] t = "map[string]interface{}" -> ToStringMapE(v)
      [] t = "map[string]string" -> ToStringMapStringE(v)
      [] t = "map[string]bool" -> ToStringMapBoolE(v)
      [] t = "map[string]int" -> ToStringMapIntE(v)
      [] t = "map[string]int64" -> ToStringMapInt64E(v)
      [] t = "map[string][]string" -> ToStringMapStringSliceE(v)
CastTypes == Scalars \cup StringMaps \cup Lists

\* ParseMultipartForm fails unless the request is one; else it adds the values
\* of the form to those FormValue may have read.
ParseFile == /\ Param \in Files
             /\ IF Multipart(Method, call.args, call.via)
                THEN Parsed(call.args[at]) /\ form' = "multi" /\ UNCHANGED <<server, status>>
                ELSE Refuse /\ UNCHANGED form
ParseCtx == /\ Param = "ctx"
            /\ Parsed(Num("ctx", 0)) /\ UNCHANGED <<server, form, status>>
\* JSON makes a float64 of every number in an interface{}, and a map of a struct.
Decoded(v) ==
    LET In(e) == CASE e.t \in Ints -> Num("float64", Round(e.n, "float64"))
                   [] e.t = "struct" -> Of("map[string]interface{}", << >>)
                   [] OTHER -> e
    IN IF v.t \notin {"map[string]interface{}", "map[string]struct{}"} THEN v
       ELSE Of("map[string]interface{}", [i \in DOMAIN v.elems |-> In(v.elems[i])])
ParseBody == /\ Param \in Bodies
             /\ IF Placed(at) = "body"
                THEN Parsed(Decoded(call.args[at])) /\ UNCHANGED <<server, status>>
                ELSE Refuse                                  \* io.EOF
             /\ UNCHANGED form
\* ParseForm reads no multipart body and leaves Form set, so that a later
\* FormValue does not parse it either.
ParseList == /\ Param \in Builtin \cap Lists
             /\ form' = IF form = "none" THEN "url" ELSE form
             /\ \E v \in CastFunc(Param, Read(form')) :
                  IF v = Error THEN Refuse ELSE Parsed(v) /\ UNCHANGED <<server, status>>
ParseValue == /\ Param \in Builtin \ Lists
              /\ form' = CurrentForm
              /\ \E v \in CastFunc(Param, Read(form')) :
                   IF v = Error THEN Refuse ELSE Parsed(v) /\ UNCHANGED <<server, status>>

Parse == /\ server = "parse" /\ at <= Len(Target.params)
         /\ ParseFile \/ ParseCtx \/ ParseBody \/ ParseList \/ ParseValue
         /\ UNCHANGED <<call, client, outcome, sends, past, casting>>

\* A value, or a text that every parser takes for the same number.
Numeral(v) == v.t \in Ints \cup Floats \/ Numeric(v)
Numbers(v) == IF v.t \notin Lists \cup Maps THEN <<v.n>>
              ELSE [i \in DOMAIN v.elems |->
                        IF v.elems[i].elems = << >> THEN v.elems[i].n ELSE v.elems[i].elems[1].n]

\* The method may put what it got under a key of a map, as it is or in a list.
Packed(v) ==
    {v} \cup {Of(t, <<v>>) : t \in DynamicMaps}
        \cup {Of(t, <<v>>) : t \in {"map[string]string", "map[interface{}]string"} \cap
                                   (IF v.t = "string" THEN Maps ELSE {})}
        \cup {Of(t, <<v>>) : t \in {"map[string][]string", "map[interface{}][]string"} \cap
                                   (IF v.t = "[]string" THEN Maps ELSE {})}
        \cup {Of(t, <<Of("[]interface{}", <<v>>)>>) :
                   t \in {"map[string][]interface{}", "map[interface{}][]interface{}"}}
Takes == /\ casts' = 0
         /\ \E v \in Packed(got[1]) :
              /\ held' = v
              /\ exact' = \/ Numeral(got[1])
                          \/ /\ v.t \in Lists \cup Maps /\ v = got[1]
                             /\ \A i \in DOMAIN v.elems : Numeral(v.elems[i])

Invoke == /\ server = "parse" /\ at > Len(Target.params)
          /\ server' = "method"
          /\ IF Target = Method THEN ran' = ran + 1 /\ UNCHANGED strayed
                                ELSE strayed' = TRUE /\ UNCHANGED ran
          /\ IF Len(got) = 1 /\ got[1].t \in CastTypes THEN Takes ELSE UNCHANGED casting
          /\ UNCHANGED <<call, client, at, form, got, told, sends>>

\* The method converts what it holds; net/http recovers a panic and breaks the
\* connection.
Element(t) == CASE t = "[]int" \/ t = "map[string]int" -> "int"
                [] t = "map[string]int64" -> "int64"
                [] t = "[]bool" \/ t = "map[string]bool" -> "bool"
                [] t = "[]duration" -> "duration"
                [] OTHER -> t
Convert(t) ==
    /\ server = "method" /\ held # Nil /\ held # Error
    /\ casts < MaxCasts /\ casts' = casts + 1
    /\ \E v \in CastFunc(t, held) :
         /\ held' = v
         /\ server' = IF v = Panic THEN "gone" ELSE server
         /\ exact' = (/\ exact
                      /\ \A i \in DOMAIN Numbers(held) : Fits(Numbers(held)[i], Element(t))
                      /\ ~(held.t \in DynamicMaps /\ t = "map[string]bool"))
    /\ UNCHANGED <<call, client, at, form, got, told, sends, past>>

\* The method returns: its results, an error (500), or context.Canceled (400);
\* a file that is nil or cannot be examined is a 500 as well.
Return == /\ server = "method"
          /\ \/ Answer(200)
             \/ Target.err /\ (Answer(500) \/ Answer(400))
             \/ Target.result = "file" /\ Answer(500)
          /\ held' = Nil /\ casts' = 0 /\ exact' = FALSE
          /\ UNCHANGED <<call, client, at, form, got, outcome, sends, past>>

Handle == Parse \/ Invoke \/ (\E t \in CastTypes : Convert(t)) \/ Return
Next == Select \/ Send \/ Lose \/ Replay \/ Receive \/ Handle

Spec == Init /\ [][Next]_vars

-----------------------------------------------------------------------------
(* Properties.                                                              *)

\* The arguments that do not reach the method as they are, all from the ways
\* the generators differ.
Lossy(i) ==
    LET p == Method.params[i]  a == call.args[i] IN
    \/ Placed(i) = "lost"
    \* a value in a multipart form, if a list before it was parsed without it
    \/ Placed(i) = "multipart" /\ \E j \in 1..i : Method.params[j] \in Lists
    \* no file, no multipart request; and a multipart request has no JSON body
    \/ p \in Files /\ ~Multipart(Method, call.args, call.via)
    \* the document knows an int8 as a 32-bit number
    \/ p \in Ints /\ ~InRange(a.n, p)
    \* every number in an interface{} comes back as a float64
    \/ /\ p = "map[string]interface{}"
       /\ \E k \in DOMAIN a.elems : ~Fits(a.elems[k].n, "float64")
    \* the document knows no value of any type: its client has structs without fields
    \/ p = "map[string]interface{}" /\ call.via = "doc"

\* A call's arguments arrive: the handler refuses none, and the method runs
\* with numbers and texts equal to the caller's, unless one is Lossy.  This is
\* the agreement of four generators (routes, handler, client, document).
ArgsArrive ==
    (Target = Method /\ \A i \in DOMAIN Method.params : ~Lossy(i)) =>
        /\ (server = "answered" /\ status = 400) => at > Len(Method.params)
        /\ \A i \in DOMAIN got : /\ got[i].form = call.args[i].form
                                 /\ Numbers(got[i]) = Numbers(call.args[i])

\* Another method runs in place of the one called only if their names are the
\* same but for the case of letters and for a Post that one of them lacks; and
\* only a method whose name begins with Get may run twice for one call.
Verbs == {Get, Put, Delete, {"Post", "POST", "other"}}
RunsAsNamed ==
    /\ strayed => \E j \in DOMAIN call.api :
           /\ j < call.m /\ Lower[call.api[j].noun] = Lower[Method.noun]
           /\ \E verb \in Verbs : {call.api[j].prefix, Method.prefix} \subseteq verb
    /\ ran > 1 => Method.prefix \in Get

\* What the caller sees tells what happened: results mean that the method
\* ran; a refusal of the handler, that it did not; zero values without an
\* error come only from a method without an error result, one in whose place
\* another ran, or a result spelled in snake case.
AnswerTellsEffects ==
    /\ outcome = "ok" => ran >= 1
    /\ (server = "answered" /\ status = 400 /\ at <= Len(Target.params) /\ sends = 1) => ran = 0
    /\ outcome = "silent" => ~Method.err /\ call.via = "svc"
    /\ outcome = "zero" => strayed \/ (call.cased = "snake" /\ Method.words > 1)

\* A number is not changed by any chain of conversions through types that can
\* all hold it (exact), whether as it is, as a text, or in a list or a map.  A
\* text counts if it is a plain decimal: of 010 the integers make 8, the others
\* 10.  A map of interface values made a map of bools is not exact: ToBool turns
\* every number that is not an int into false.
CastsKeep == exact /\ held \notin {Nil, Error, Panic} => Numbers(held) = Numbers(got[1])
=============================================================================
