----------------------------- MODULE CallProofs -----------------------------
(***************************************************************************)
(* Theorems about Call.tla, for every set of service interfaces, whatever  *)
(* the widths of the integers and however often the method converts: which *)
(* method runs and what the caller learns of it; that conversions through  *)
(* types that can hold a number keep it; and that the arguments arrive.    *)
(***************************************************************************)
EXTENDS Call, WellFoundedInduction, TLAPS

(* The inductive invariant of runs and answers, in named parts.            *)

\* The call is one of a method of an interface.
CallMade == /\ call.api \in Interface /\ call.m \in DOMAIN call.api
            /\ call.via \in {"svc", "doc"} /\ call.cased \in {"camel", "snake"}

\* The method runs at most once for every time the request was sent, and only
\* a GET is sent twice.
Counted == /\ sends \in Nat /\ ran \in Nat /\ at \in Nat
           /\ client \in {"select", "open"} => sends = 0
           /\ ran <= sends /\ (server = "parse" => ran < sends)
           /\ sends > 1 => HttpMethod(Method) = "GET"
           /\ sends = 1 /\ at <= Len(Target.params) => ran = 0

\* What the route leads to is what ran.
Ran == /\ strayed \in BOOLEAN
       /\ strayed => Target # Method
       /\ ran > 0 => Target = Method
       /\ server = "method" \/ status = 200 => ran >= 1 \/ strayed

Told == /\ outcome = "ok" => ran >= 1
        /\ outcome = "silent" => ~Method.err /\ call.via = "svc"
        /\ outcome = "zero" => strayed \/ (call.cased = "snake" /\ Method.words > 1)

IInv == CallMade /\ Counted /\ Ran /\ Told

-----------------------------------------------------------------------------
(* Every set of numbers that is not empty has a least one. *)
LEMMA Least ==
    ASSUME NEW S, S \subseteq Nat, S # {}
    PROVE  \E r \in S : \A j \in S : r <= j
<1>1. PICK r \in S : \A j \in S : ~(<<j, r>> \in OpToRel(<, Nat))
    BY WFMin, NatLessThanWellFounded, Zenon
<1>2. \A j \in S : ~(j < r)
    BY <1>1, Zenon DEF OpToRel
<1>3. QED
    BY <1>2

(* A request for a method is served by the first one with its route. *)
LEMMA RoutedFirst ==
    ASSUME NEW api \in Seq(Methods), NEW m \in DOMAIN api
    PROVE  /\ Routed(api, m) \in DOMAIN api /\ Routed(api, m) <= m
           /\ HttpMethod(api[Routed(api, m)]) = HttpMethod(api[m])
           /\ Lower[api[Routed(api, m)].noun] = Lower[api[m].noun]
<1> DEFINE Same(j) == /\ HttpMethod(api[j]) = HttpMethod(api[m])
                      /\ Pattern(api[j]) = Pattern(api[m])
           S == {j \in DOMAIN api : Same(j)}
           First(r) == Same(r) /\ \A j \in 1..(r - 1) : ~Same(j)
<1>1. DOMAIN api = 1..Len(api) /\ Len(api) \in Nat
    OBVIOUS
<1>2. m \in S /\ S \subseteq Nat
    BY <1>1
<1>3. PICK r \in S : \A j \in S : r <= j
    BY <1>2, Least
<1>4. r \in DOMAIN api /\ First(r)
    <2>1. ASSUME NEW j \in 1..(r - 1), Same(j) PROVE FALSE
        <3>1. j \in S
            BY <1>1, <1>3, <2>1
        <3>2. QED
            BY <1>1, <1>3, <2>1, <3>1
    <2>2. QED
        BY <1>3, <2>1
<1>5. Routed(api, m) = CHOOSE q \in DOMAIN api : First(q)
    BY DEF Routed
<1> HIDE DEF First
<1>6. Routed(api, m) \in DOMAIN api /\ First(Routed(api, m))
    BY <1>4, <1>5
<1> USE DEF First
<1>7. Routed(api, m) <= m
    <2>1. Routed(api, m) > m => m \in 1..(Routed(api, m) - 1)
        BY <1>1, <1>6
    <2>2. QED
        BY <1>1, <1>6, <2>1
<1>8. QED
    BY <1>6, <1>7 DEF Pattern

-----------------------------------------------------------------------------
(* Parsing a parameter goes on to the next one or answers 400. *)
LEMMA ParseEffect ==
    ASSUME Parse
    PROVE  /\ server = "parse" /\ at <= Len(Target.params)
           /\ UNCHANGED <<call, client, outcome, sends, ran, strayed>>
           /\ \/ at' = at + 1 /\ server' = "parse" /\ UNCHANGED status
              \/ at' = at /\ server' = "answered" /\ status' = 400
<1>1. /\ server = "parse" /\ at <= Len(Target.params)
      /\ UNCHANGED <<call, client, outcome, sends, ran, strayed>>
    BY DEF Parse, past
<1>2. Refuse => at' = at /\ server' = "answered" /\ status' = 400
    BY DEF Refuse, Answer
<1>3. \A v : Parsed(v) => at' = at + 1
    BY DEF Parsed
<1>4. ParseFile => \/ at' = at + 1 /\ UNCHANGED <<server, status>>
                   \/ Refuse
    BY <1>3 DEF ParseFile
<1>5. ParseCtx => at' = at + 1 /\ UNCHANGED <<server, status>>
    BY <1>3 DEF ParseCtx
<1>6. ParseBody => \/ at' = at + 1 /\ UNCHANGED <<server, status>>
                   \/ Refuse
    BY <1>3 DEF ParseBody
<1>7. ParseList => \/ at' = at + 1 /\ UNCHANGED <<server, status>>
                   \/ Refuse
    BY <1>3 DEF ParseList
<1>8. ParseValue => \/ at' = at + 1 /\ UNCHANGED <<server, status>>
                    \/ Refuse
    BY <1>3 DEF ParseValue
<1>9. QED
    BY <1>1, <1>2, <1>4, <1>5, <1>6, <1>7, <1>8 DEF Parse

(* The steps of the client keep the invariant. *)
LEMMA ClientIInv ==
    ASSUME IInv, Select \/ Send \/ Lose \/ Replay \/ Receive
    PROVE  IInv'
<1> USE DEF IInv
<1>1. UNCHANGED <<call, ran, strayed>> /\ UNCHANGED <<Method, Target>>
    BY DEF Select, Send, Lose, Replay, Receive, past, Method, Target
<1>2. CallMade'
    BY <1>1 DEF CallMade
<1>3. Counted'
    BY <1>1 DEF Counted, Select, Send, Lose, Replay, Receive, Ends, past
<1>4. Ran'
    BY <1>1 DEF Ran, Select, Send, Lose, Replay, Receive, told, past, Ends
<1>5. Told'
    <2>1. ASSUME outcome' = "silent", outcome # "silent"
          PROVE  ~Method.err /\ call.via = "svc"
        <3>1. outcome' = Failed
            BY <2>1 DEF Select, Send, Lose, Replay, Receive, Ends
        <3>2. QED
            BY <2>1, <3>1 DEF Failed, CallMade
    <2>2. ASSUME outcome' = "ok", outcome # "ok"
          PROVE  ran >= 1
        <3>1. status = 200 /\ Target = Method
            BY <2>2 DEF Select, Send, Lose, Replay, Receive, Ends, Failed
        <3>2. QED
            BY <3>1 DEF Ran
    <2>3. ASSUME outcome' = "zero", outcome # "zero"
          PROVE  strayed \/ (call.cased = "snake" /\ Method.words > 1)
        <3>1. status = 200 /\ ~(Spelled /\ Target = Method)
            BY <2>3 DEF Select, Send, Lose, Replay, Receive, Ends, Failed
        <3>2. CASE Target # Method
            BY <3>1, <3>2 DEF Ran, Counted
        <3>3. CASE ~Spelled /\ Target = Method
            <4>1. Method \in Methods
                BY InterfaceAssumption DEF CallMade, Method
            <4>2. Method.words \in Nat \ {0}
                BY <4>1 DEF Methods
            <4>3. QED
                BY <3>3, <4>2 DEF Spelled, CallMade
        <3>4. QED
            BY <3>1, <3>2, <3>3
    <2>4. QED
        BY <1>1, <2>1, <2>2, <2>3 DEF Told
<1>6. QED
    BY <1>2, <1>3, <1>4, <1>5

(* The steps of the handler keep the invariant. *)
LEMMA HandleIInv ==
    ASSUME IInv, Handle
    PROVE  IInv'
<1> USE DEF IInv
<1>1. UNCHANGED <<call, client, outcome, sends>> /\ UNCHANGED <<Method, Target>>
    BY ParseEffect DEF Handle, Invoke, Convert, Return, told, Method, Target
<1>2. CallMade'
    BY <1>1 DEF CallMade
<1>3. CASE Parse
    <2>1. Counted' /\ Ran' /\ Told'
        BY <1>1, <1>3, ParseEffect DEF Counted, Ran, Told
    <2>2. QED
        BY <1>2, <2>1
<1>4. CASE Invoke
    <2>1. /\ server = "parse" /\ at > Len(Target.params) /\ server' = "method"
          /\ UNCHANGED <<at, status>>
          /\ \/ Target = Method /\ ran' = ran + 1 /\ UNCHANGED strayed
             \/ Target # Method /\ strayed' = TRUE /\ UNCHANGED ran
        BY <1>4 DEF Invoke, told
    <2>2. Len(Target.params) \in Nat
        <3>1. Target \in Methods
            BY InterfaceAssumption, RoutedFirst DEF CallMade, Target
        <3>2. QED
            BY <3>1 DEF Methods
    <2>3. Counted'
        BY <1>1, <2>1, <2>2 DEF Counted
    <2>4. CASE Target = Method
        <3>1. ran' = ran + 1 /\ UNCHANGED strayed
            BY <2>1, <2>4
        <3>2. QED
            BY <1>1, <1>2, <2>1, <2>3, <2>4, <3>1 DEF Counted, Ran, Told
    <2>5. CASE Target # Method
        <3>1. strayed' /\ strayed' \in BOOLEAN /\ UNCHANGED ran
            BY <2>1, <2>5, Zenon
        <3>2. Ran' /\ Told'
            BY <1>1, <2>1, <2>5, <3>1 DEF Counted, Ran, Told
        <3>3. QED
            BY <1>2, <2>3, <3>2
    <2>6. QED
        BY <2>4, <2>5
<1>5. CASE \E t \in CastTypes : Convert(t)
    <2>1. server' \in {server, "gone"} /\ UNCHANGED <<at, status, ran, strayed>>
        BY <1>5 DEF Convert, told, past
    <2>2. QED
        BY <1>1, <1>2, <2>1 DEF Counted, Ran, Told
<1>6. CASE Return
    <2>1. server = "method" /\ server' = "answered" /\ UNCHANGED <<at, ran, strayed>>
        BY <1>6 DEF Return, Answer, past
    <2>2. QED
        BY <1>1, <1>2, <2>1 DEF Counted, Ran, Told
<1>7. QED
    BY <1>3, <1>4, <1>5, <1>6 DEF Handle

(* The invariant holds in every reachable state. *)
THEOREM CountsHold == Spec => []IInv
<1>1. Init => IInv
    <2>1. SUFFICES ASSUME Init PROVE IInv
        OBVIOUS
    <2>2. CallMade
        <3>1. PICK api \in Interface, c \in Cased, via \in {"svc", "doc"} :
                  \E m \in (IF via = "svc" THEN DOMAIN api ELSE PathsOf(api)) :
                      \E a \in Args(api[m].params, via) :
                          call = [api |-> api, m |-> m, via |-> via, args |-> a, cased |-> c]
            BY <2>1 DEF Init
        <3>2. QED
            BY <3>1, CasedAssumption DEF CallMade, PathsOf
    <2>3. ~strayed /\ strayed \in BOOLEAN
        BY <2>1, Zenon DEF Init
    <2>4. /\ sends = 0 /\ ran = 0 /\ at = 1 /\ status = 0 /\ server = "none"
          /\ client = "select" /\ outcome = "none"
        BY <2>1, Zenon DEF Init
    <2>5. Counted /\ Ran /\ Told
        BY <2>3, <2>4 DEF Counted, Ran, Told
    <2>6. QED
        BY <2>2, <2>5 DEF IInv
<1>2. IInv /\ [Next]_vars => IInv'
    <2>1. IInv /\ UNCHANGED vars => IInv'
        BY DEF vars, IInv, CallMade, Counted, Ran, Told, Method, Target, told, past
    <2>2. QED
        BY <2>1, ClientIInv, HandleIInv DEF Next
<1>3. QED
    BY <1>1, <1>2, PTL DEF Spec

-----------------------------------------------------------------------------
(* The results.                                                             *)

\* Another method runs in place of the one called only if their names are the
\* same but for the case of letters and a Post, and only a method named Get may
\* run twice.
THEOREM NamesDecide == Spec => []RunsAsNamed
<1>1. IInv => RunsAsNamed
    <2>1. SUFFICES ASSUME IInv PROVE RunsAsNamed
        OBVIOUS
    <2> DEFINE j == Routed(call.api, call.m)
    <2>2. /\ call.api \in Seq(Methods) /\ call.m \in DOMAIN call.api
          /\ call.api \in Interface
        BY <2>1, InterfaceAssumption DEF IInv, CallMade
    <2>3. /\ j \in DOMAIN call.api /\ j <= call.m
          /\ HttpMethod(call.api[j]) = HttpMethod(Method)
          /\ Lower[call.api[j].noun] = Lower[Method.noun]
        BY <2>2, RoutedFirst DEF Method
    <2> HIDE DEF j
    <2>4. Method \in Methods /\ call.api[j] \in Methods /\ DOMAIN call.api \subseteq Nat
        BY <2>2, <2>3 DEF Method
    <2>5. ASSUME strayed
          PROVE  j < call.m
        <3>1. j # call.m
            BY <2>1, <2>5 DEF IInv, Ran, Target, Method, j
        <3>2. QED
            BY <2>2, <2>3, <2>4, <3>1
    <2>6. \E verb \in Verbs : {call.api[j].prefix, Method.prefix} \subseteq verb
        <3>1. PICK p, q : p = call.api[j].prefix /\ q = Method.prefix
            OBVIOUS
        <3>2. /\ p \in Get \/ p \in Put \/ p \in Delete \/ p \in {"Post", "POST", "other"}
              /\ q \in Get \/ q \in Put \/ q \in Delete \/ q \in {"Post", "POST", "other"}
            BY <2>4, <3>1 DEF Methods
        <3>3. \/ p \in Get /\ q \in Get
              \/ p \in Put /\ q \in Put
              \/ p \in Delete /\ q \in Delete
              \/ p \in {"Post", "POST", "other"} /\ q \in {"Post", "POST", "other"}
            BY <2>3, <3>1, <3>2 DEF HttpMethod, Get, Put, Delete
        <3>4. QED
            BY <3>1, <3>3 DEF Verbs
    <2>7. ASSUME ran > 1
          PROVE  Method.prefix \in Get
        <3>1. HttpMethod(Method) = "GET"
            BY <2>1, <2>7 DEF IInv, Counted
        <3>2. QED
            BY <3>1 DEF HttpMethod
    <2>8. QED
        BY <2>3, <2>5, <2>6, <2>7 DEF RunsAsNamed
<1>2. QED
    BY <1>1, CountsHold, PTL

\* What the caller sees, results, an error or zero values, tells whether the
\* method ran, through every failure of the client, the network and the server.
THEOREM CallersLearn == Spec => []AnswerTellsEffects
<1>1. IInv => AnswerTellsEffects
    <2>1. IInv /\ at <= Len(Target.params) /\ sends = 1 => ran = 0
        BY DEF IInv, Counted
    <2>2. QED
        BY <2>1 DEF IInv, Told, AnswerTellsEffects
<1>2. QED
    BY <1>1, CountsHold, PTL

-----------------------------------------------------------------------------
(* A conversion in range changes nothing. *)
LEMMA Sizes ==
    ASSUME NEW t \in Ints
    PROVE  Size[t] \in Nat /\ Size[t] > 2 /\ Low(t) \in Int /\ High(t) \in Int
<1>1. Size[t] \in Nat /\ Size[t] > 2
    BY CastAssumption
<1>2. QED
    BY <1>1 DEF Low, High

LEMMA SmallMod ==
    ASSUME NEW k \in Nat, NEW d \in Nat, k < d
    PROVE  k % d = k
OBVIOUS

LEMMA WrapInRange ==
    ASSUME NEW t \in Ints, NEW h \in Int, InRange(h, t)
    PROVE  Wrap(h, t) = h
<1>1. PICK low \in Int : low = Low(t)
    BY Sizes
<1>2. PICK size \in Nat : size = Size[t]
    BY Sizes
<1>3. h - low \in Nat /\ h - low < 2 * size /\ 2 * size \in Nat
    BY <1>1, <1>2 DEF InRange, High
<1>4. (h - low) % (2 * size) = h - low
    BY <1>3, SmallMod
<1>5. Wrap(h, t) = ((h - low) % (2 * size)) + low
    BY <1>1, <1>2 DEF Wrap
<1>6. QED
    BY <1>4, <1>5, <1>1

LEMMA WrapInt ==
    ASSUME NEW t \in Ints, NEW h \in Int
    PROVE  Wrap(h, t) \in Int
<1>1. Size[t] \in Nat /\ Size[t] > 2 /\ Low(t) \in Int
    BY Sizes
<1>2. PICK d \in Nat \ {0} : d = 2 * Size[t]
    BY <1>1
<1>3. PICK k \in Int : k = h - Low(t)
    BY <1>1
<1>4. k % d \in Int
    OBVIOUS
<1>5. QED
    BY <1>1, <1>2, <1>3, <1>4 DEF Wrap

LEMMA TruncWhole ==
    ASSUME NEW h \in Int
    PROVE  Trunc(h) \in Int /\ (Whole(h) => Trunc(h) = h)
BY DEF Trunc, Whole

(* Types of 64 bits are the widest. *)
LEMMA Widest ==
    ASSUME NEW t \in Signed, NEW h \in Int, InRange(h, t)
    PROVE  InRange(h, "int64")
<1>1. t \in Ints /\ "int64" \in Ints /\ "int64" \in Signed
    BY DEF Ints, Signed
<1>2. Size[t] \in Nat /\ Size["int64"] \in Nat /\ Size[t] <= Size["int64"]
    BY <1>1, CastAssumption
<1>3. QED
    BY <1>1, <1>2 DEF InRange, Low, High

LEMMA FloatsCut ==
    ASSUME NEW t \in Ints, NEW h \in Int, NEW r \in FloatToInt(h, t)
    PROVE  /\ r.t = t /\ r.elems = << >> /\ r.n \in Int /\ r.form = ""
           /\ Whole(h) /\ InRange(h, t) => r.n = h
<1>1. CASE InRange(Trunc(h), t)
    <2>1. r = Num(t, Trunc(h))
        BY <1>1 DEF FloatToInt
    <2>2. QED
        BY <2>1, TruncWhole DEF Num
<1>2. CASE ~InRange(Trunc(h), t)
    <2>1. PICK k \in Low(t)..High(t) : r = Num(t, k)
        BY <1>2 DEF FloatToInt
    <2>2. k \in Int
        BY <2>1, Sizes
    <2>3. QED
        BY <1>2, <2>1, <2>2, TruncWhole DEF Num
<1>3. QED
    BY <1>1, <1>2

-----------------------------------------------------------------------------
Plain(v) == v.t \in Scalars /\ v.elems = << >> /\ v.n \in Int /\ (v.t # "string" => v.form = "")
Numbered(v) == Plain(v) /\ (v.t = "string" => v.form \in {"num", "bool", "date", "span"})

Yields(v, t, r) == /\ r.t = t /\ r.form = "" /\ r.elems = << >>
                   /\ t \notin Floats => r.n \in Int
                   /\ Fits(v.n, t) => r.n = v.n

LEMMA ErrorType == Error.t = "error" /\ Nil.t = "nil" /\ Panic.t = "panic"
BY DEF Error, Nil, Panic, Num

LEMMA SignedYields ==
    ASSUME NEW v, v.n \in Int, NEW t \in Signed, NEW r \in ToSigned(v, t), r # Error
    PROVE  Yields(v, t, r)
<1>1. t \in Ints /\ "int64" \in Ints
    BY DEF Ints, Signed
<1>2. Fits(v.n, t) => Whole(v.n) /\ InRange(v.n, t)
    BY <1>1 DEF Fits, Ints, Signed, Unsigned, Floats
<1>3. CASE r \in FloatToInt(v.n, t)
    <2>1. PICK h \in Int : h = v.n
        OBVIOUS
    <2>2. r \in FloatToInt(h, t)
        BY <1>3, <2>1
    <2>3. /\ r.t = t /\ r.elems = << >> /\ r.n \in Int /\ r.form = ""
          /\ Whole(h) /\ InRange(h, t) => r.n = h
        BY <1>1, <2>2, FloatsCut
    <2>4. QED
        BY <1>2, <2>1, <2>3 DEF Yields
<1>4. CASE r = Num(t, Wrap(v.n, t))
    <2>1. PICK k : k = Wrap(v.n, t)
        OBVIOUS
    <2>2. k \in Int /\ (Fits(v.n, t) => k = v.n)
        BY <1>1, <1>2, <2>1, WrapInRange, WrapInt
    <2>3. QED
        BY <1>4, <2>1, <2>2 DEF Yields, Num
<1>5. CASE r = Num(t, v.n)
    BY <1>5 DEF Yields, Num
<1>6. QED
    BY <1>3, <1>4, <1>5 DEF ToSigned

LEMMA UnsignedYields ==
    ASSUME NEW v, v.n \in Int, NEW t \in Unsigned, NEW r \in ToUnsigned(v, t), r # Error
    PROVE  Yields(v, t, r)
<1>1. t \in Ints
    BY DEF Ints
<1>2. Fits(v.n, t) => Whole(v.n) /\ InRange(v.n, t)
    BY <1>1 DEF Fits, Ints, Signed, Unsigned, Floats
<1>3. CASE r \in FloatToInt(v.n, t)
    <2>1. PICK h \in Int : h = v.n
        OBVIOUS
    <2>2. r \in FloatToInt(h, t)
        BY <1>3, <2>1
    <2>3. /\ r.t = t /\ r.elems = << >> /\ r.n \in Int /\ r.form = ""
          /\ Whole(h) /\ InRange(h, t) => r.n = h
        BY <1>1, <2>2, FloatsCut
    <2>4. QED
        BY <1>2, <2>1, <2>3 DEF Yields
<1>4. CASE r = Num(t, Wrap(v.n, t))
    <2>1. PICK k : k = Wrap(v.n, t)
        OBVIOUS
    <2>2. k \in Int /\ (Fits(v.n, t) => k = v.n)
        BY <1>1, <1>2, <2>1, WrapInRange, WrapInt
    <2>3. QED
        BY <1>4, <2>1, <2>2 DEF Yields, Num
<1>5. CASE r = Num(t, v.n)
    BY <1>5 DEF Yields, Num
<1>6. QED
    BY <1>3, <1>4, <1>5 DEF ToUnsigned

LEMMA FloatYields ==
    ASSUME NEW v, v.n \in Int, v.form # "octal", NEW t \in Floats, NEW r \in ToFloat(v, t),
           r # Error
    PROVE  Yields(v, t, r) /\ r.n = Round(v.n, t)
<1>1. r = Num(t, Round(v.n, t))
    BY DEF ToFloat, Digits
<1>2. Fits(v.n, t) => Round(v.n, t) = v.n
    BY DEF Fits, Ints, Signed, Unsigned, Floats
<1>3. QED
    BY <1>1, <1>2 DEF Yields, Num

LEMMA BoolYields ==
    ASSUME NEW v, v.n \in Int, NEW r \in ToBoolE(v), r # Error
    PROVE  Yields(v, "bool", r)
<1>1. Fits(v.n, "bool") => v.n \in {0, 2}
    BY DEF Fits, Ints, Signed, Unsigned, Floats
<1>2. PICK k : k = IF v.n = 0 THEN 0 ELSE 2
    OBVIOUS
<1>3. r = Num("bool", v.n) \/ r = Num("bool", k)
    BY <1>2 DEF ToBoolE
<1>4. CASE r = Num("bool", v.n)
    BY <1>4 DEF Yields, Num
<1>5. CASE r = Num("bool", k)
    <2>1. k \in Int
        BY <1>2
    <2>2. Fits(v.n, "bool") => k = v.n
        BY <1>1, <1>2
    <2>3. QED
        BY <1>5, <2>1, <2>2 DEF Yields, Num
<1>6. QED
    BY <1>3, <1>4, <1>5

LEMMA TimeYields ==
    ASSUME NEW v, v.n \in Int, NEW r \in ToTimeE(v), r # Error
    PROVE  Yields(v, "time", r)
<1>1. Fits(v.n, "time") => Whole(v.n) /\ InRange(v.n, "int64")
    BY DEF Fits, Ints, Signed, Unsigned, Floats
<1>2. PICK k : k = Wrap(v.n, "int64")
    OBVIOUS
<1>3. "int64" \in Ints
    BY DEF Ints, Signed
<1>4. k \in Int /\ (Fits(v.n, "time") => k = v.n)
    BY <1>1, <1>2, <1>3, WrapInRange, WrapInt
<1>5. r = Num("time", v.n) \/ r = Num("time", k)
    BY <1>2 DEF ToTimeE
<1>6. CASE r = Num("time", v.n)
    BY <1>6 DEF Yields, Num
<1>7. CASE r = Num("time", k)
    BY <1>4, <1>7 DEF Yields, Num
<1>8. QED
    BY <1>5, <1>6, <1>7

LEMMA DurationYields ==
    ASSUME NEW v, v.n \in Int, v.t # "string" => v.form = "", v.form # "octal",
           NEW r \in ToDurationE(v), r # Error
    PROVE  Yields(v, "duration", r)
<1>1. Fits(v.n, "duration") => Whole(v.n) /\ InRange(v.n, "int64")
    BY DEF Fits, Ints, Signed, Unsigned, Floats
<1>2. "int64" \in Ints /\ "int64" \in Signed
    BY DEF Ints, Signed
<1>3. PICK h \in Int : h = v.n
    OBVIOUS
<1>4. ASSUME NEW k, r = Num("duration", k), k \in Int,
             Whole(v.n) /\ InRange(v.n, "int64") => k = v.n
      PROVE  Yields(v, "duration", r)
    BY <1>1, <1>4 DEF Yields, Num
<1>5. CASE v.t \in Ints
    <2>1. PICK k : k = Wrap(v.n, "int64")
        OBVIOUS
    <2>2. k \in Int /\ (Whole(v.n) /\ InRange(v.n, "int64") => k = v.n)
        BY <1>2, <2>1, WrapInRange, WrapInt
    <2>3. ToInt64E(v) = {Num("int64", k)}
        BY <1>5, <2>1 DEF ToInt64E, ToSigned, Ints, Signed, Unsigned, Floats
    <2>4. r \in {Num("duration", w.n) : w \in ToInt64E(v)}
        BY <1>5 DEF ToDurationE, ParsesSpan, Ints, Signed, Unsigned, Floats
    <2>5. PICK w \in ToInt64E(v) : r = Num("duration", w.n)
        BY <2>4
    <2>6. w = Num("int64", k)
        BY <2>3, <2>5
    <2>7. w.n = k
        BY <2>6 DEF Num
    <2>8. QED
        BY <1>4, <2>2, <2>5, <2>7
<1>6. CASE v.t \in Floats
    <2>1. r \in {Num("duration", w.n) : w \in FloatToInt(v.n, "int64")}
        BY <1>6 DEF ToDurationE, ParsesSpan, Ints, Signed, Unsigned, Floats
    <2>2. PICK w \in FloatToInt(h, "int64") : r = Num("duration", w.n)
        BY <1>3, <2>1
    <2>3. w.n \in Int /\ (Whole(h) /\ InRange(h, "int64") => w.n = h)
        BY <1>2, <2>2, FloatsCut
    <2>4. QED
        BY <1>3, <1>4, <2>2, <2>3
<1>7. CASE v.t \notin Ints /\ v.t \notin Floats
    <2>1. r = Num("duration", v.n) \/ r = Num("duration", Trunc(v.n))
        BY <1>7 DEF ToDurationE, Digits
    <2>2. Trunc(v.n) \in Int /\ (Whole(v.n) => Trunc(v.n) = v.n)
        BY TruncWhole
    <2>3. QED
        BY <1>4, <2>1, <2>2
<1>8. QED
    BY <1>5, <1>6, <1>7

\* A scalar value, and one whose number a text carries as well.
LEMMA StringYields ==
    ASSUME NEW v, Plain(v), NEW r \in ToStringE(v)
    PROVE  /\ r # Error /\ Plain(r) /\ r.t = "string" /\ r.n = v.n
           /\ Numbered(v) => Numbered(r)
<1>1. CASE v.t = "string"
    <2>1. r = v
        BY <1>1 DEF ToStringE, Ints, Signed, Unsigned, Floats
    <2>2. v # Error
        BY <1>1, ErrorType
    <2>3. QED
        BY <1>1, <2>1, <2>2 DEF Numbered
<1>2. CASE v.t # "string"
    <2>1. \/ r = Text("num", v.n) \/ r = Text("bool", v.n)
          \/ r = Text("date", v.n) \/ r = Text("span", v.n)
        BY <1>2 DEF ToStringE, Plain, Scalars, Ints, Signed, Unsigned, Floats
    <2>2. PICK f \in {"num", "bool", "date", "span"} : r = Text(f, v.n)
        BY <2>1
    <2>3. r.t = "string" /\ r.form = f /\ r.n = v.n /\ r.elems = << >>
        BY <2>2 DEF Text
    <2>4. r # Error
        BY <2>3, ErrorType
    <2>5. v.n \in Int /\ "string" \in Scalars
        BY DEF Plain, Scalars
    <2>6. QED
        BY <2>3, <2>4, <2>5 DEF Plain, Numbered
<1>3. QED
    BY <1>1, <1>2

(* What castFuncMap makes of a value, one lemma for all scalar types. *)
LEMMA ScalarArms ==
    /\ \A t \in Signed : \A v : CastFunc(t, v) = ToSigned(v, t)
    /\ \A t \in Unsigned : \A v : CastFunc(t, v) = ToUnsigned(v, t)
    /\ \A t \in Floats : \A v : CastFunc(t, v) = ToFloat(v, t)
    /\ \A v : /\ CastFunc("bool", v) = ToBoolE(v) /\ CastFunc("string", v) = ToStringE(v)
              /\ CastFunc("time", v) = ToTimeE(v) /\ CastFunc("duration", v) = ToDurationE(v)
<1>1. ASSUME NEW v, NEW t \in Signed PROVE CastFunc(t, v) = ToSigned(v, t)
    BY <1>1 DEF CastFunc, Signed, ToInt64E, ToInt32E, ToInt16E, ToInt8E, ToIntE
<1>2. ASSUME NEW v, NEW t \in Unsigned PROVE CastFunc(t, v) = ToUnsigned(v, t)
    BY <1>2 DEF CastFunc, Unsigned, ToUint64E, ToUint32E, ToUint16E, ToUint8E, ToUintE
<1>3. ASSUME NEW v, NEW t \in Floats PROVE CastFunc(t, v) = ToFloat(v, t)
    BY <1>3 DEF CastFunc, Floats, ToFloat64E, ToFloat32E
<1>4. ASSUME NEW v
      PROVE  /\ CastFunc("bool", v) = ToBoolE(v) /\ CastFunc("string", v) = ToStringE(v)
             /\ CastFunc("time", v) = ToTimeE(v) /\ CastFunc("duration", v) = ToDurationE(v)
    BY DEF CastFunc
<1>5. QED
    BY <1>1, <1>2, <1>3, <1>4

LEMMA ContainerArms ==
    \A v : /\ CastFunc("[]interface{}", v) = ToSliceE(v)
           /\ CastFunc("[]bool", v) = ToBoolSliceE(v)
           /\ CastFunc("[]string", v) = ToStringSliceE(v)
           /\ CastFunc("[]int", v) = ToIntSliceE(v)
           /\ CastFunc("[]duration", v) = ToDurationSliceE(v)
           /\ CastFunc("map[string]interface{}", v) = ToStringMapE(v)
           /\ CastFunc("map[string]string", v) = ToStringMapStringE(v)
           /\ CastFunc("map[string]bool", v) = ToStringMapBoolE(v)
           /\ CastFunc("map[string]int", v) = ToStringMapIntE(v)
           /\ CastFunc("map[string]int64", v) = ToStringMapInt64E(v)
           /\ CastFunc("map[string][]string", v) = ToStringMapStringSliceE(v)
BY DEF CastFunc

\* No conversion to a scalar type changes a number the type can hold.
LEMMA ScalarYields ==
    ASSUME NEW v, v.n \in Int, v.t # "string" => v.form = "", v.form # "octal",
           NEW t \in Scalars, t # "string", NEW r \in CastFunc(t, v), r # Error
    PROVE  Yields(v, t, r)
<1>1. t \in Signed \/ t \in Unsigned \/ t \in Floats \/ t \in {"bool", "time", "duration"}
    BY DEF Scalars, Ints
<1>2. CASE t \in Signed
    BY <1>2, ScalarArms, SignedYields
<1>3. CASE t \in Unsigned
    BY <1>3, ScalarArms, UnsignedYields
<1>4. CASE t \in Floats
    BY <1>4, ScalarArms, FloatYields
<1>5. CASE t = "bool"
    BY <1>5, ScalarArms, BoolYields
<1>6. CASE t = "time"
    BY <1>6, ScalarArms, TimeYields
<1>7. CASE t = "duration"
    BY <1>7, ScalarArms, DurationYields
<1>8. QED
    BY <1>1, <1>2, <1>3, <1>4, <1>5, <1>6, <1>7

LEMMA ScalarKeeps ==
    ASSUME NEW v, Numbered(v), NEW t \in Scalars, NEW r \in CastFunc(t, v), r # Error,
           Fits(v.n, t)
    PROVE  Numbered(r) /\ r.t = t /\ r.n = v.n
<1>1. Plain(v)
    BY DEF Numbered
<1>2. CASE t = "string"
    BY <1>1, <1>2, ScalarArms, StringYields
<1>3. CASE t # "string"
    <2>1. Yields(v, t, r)
        BY <1>1, <1>3, ScalarYields DEF Plain, Numbered
    <2>2. QED
        BY <1>1, <1>3, <2>1 DEF Yields, Plain, Numbered
<1>4. QED
    BY <1>2, <1>3

-----------------------------------------------------------------------------
(* Containers.                                                              *)
Converted(f, s, k) == /\ DOMAIN f = DOMAIN s
                      /\ \A i \in DOMAIN s : f[i] \in CastFunc(k, s[i]) /\ f[i] # Error

LEMMA AllOfInts ==
    ASSUME NEW t, NEW s, NEW r \in AllOf(t, ToIntE, s), r # Error
    PROVE  \E f : r = Of(t, f) /\ Converted(f, s, "int")
<1>1. PICK f \in Each(ToIntE, s) :
          r = IF \E i \in DOMAIN f : f[i] = Error THEN Error ELSE Of(t, f)
    BY DEF AllOf
<1>2. DOMAIN f = DOMAIN s /\ \A i \in DOMAIN s : f[i] \in ToIntE(s[i])
    BY <1>1 DEF Each
<1>3. r = Of(t, f) /\ \A i \in DOMAIN s : f[i] # Error
    BY <1>1, <1>2
<1>4. \A i \in DOMAIN s : CastFunc("int", s[i]) = ToIntE(s[i])
    BY ScalarArms DEF ToIntE, Signed
<1>5. QED
    BY <1>2, <1>3, <1>4 DEF Converted

LEMMA AllOfInt64s ==
    ASSUME NEW t, NEW s, NEW r \in AllOf(t, ToInt64E, s), r # Error
    PROVE  \E f : r = Of(t, f) /\ Converted(f, s, "int64")
<1>1. PICK f \in Each(ToInt64E, s) :
          r = IF \E i \in DOMAIN f : f[i] = Error THEN Error ELSE Of(t, f)
    BY DEF AllOf
<1>2. DOMAIN f = DOMAIN s /\ \A i \in DOMAIN s : f[i] \in ToInt64E(s[i])
    BY <1>1 DEF Each
<1>3. r = Of(t, f) /\ \A i \in DOMAIN s : f[i] # Error
    BY <1>1, <1>2
<1>4. \A i \in DOMAIN s : CastFunc("int64", s[i]) = ToInt64E(s[i])
    BY ScalarArms DEF ToInt64E, Signed
<1>5. QED
    BY <1>2, <1>3, <1>4 DEF Converted

LEMMA AllOfBools ==
    ASSUME NEW t, NEW s, NEW r \in AllOf(t, ToBoolE, s), r # Error
    PROVE  \E f : r = Of(t, f) /\ Converted(f, s, "bool")
<1>1. PICK f \in Each(ToBoolE, s) :
          r = IF \E i \in DOMAIN f : f[i] = Error THEN Error ELSE Of(t, f)
    BY DEF AllOf
<1>2. DOMAIN f = DOMAIN s /\ \A i \in DOMAIN s : f[i] \in ToBoolE(s[i])
    BY <1>1 DEF Each
<1>3. r = Of(t, f) /\ \A i \in DOMAIN s : f[i] # Error
    BY <1>1, <1>2
<1>4. \A i \in DOMAIN s : CastFunc("bool", s[i]) = ToBoolE(s[i])
    BY ScalarArms
<1>5. QED
    BY <1>2, <1>3, <1>4 DEF Converted

LEMMA AllOfDurations ==
    ASSUME NEW t, NEW s, NEW r \in AllOf(t, ToDurationE, s), r # Error
    PROVE  \E f : r = Of(t, f) /\ Converted(f, s, "duration")
<1>1. PICK f \in Each(ToDurationE, s) :
          r = IF \E i \in DOMAIN f : f[i] = Error THEN Error ELSE Of(t, f)
    BY DEF AllOf
<1>2. DOMAIN f = DOMAIN s /\ \A i \in DOMAIN s : f[i] \in ToDurationE(s[i])
    BY <1>1 DEF Each
<1>3. r = Of(t, f) /\ \A i \in DOMAIN s : f[i] # Error
    BY <1>1, <1>2
<1>4. \A i \in DOMAIN s : CastFunc("duration", s[i]) = ToDurationE(s[i])
    BY ScalarArms
<1>5. QED
    BY <1>2, <1>3, <1>4 DEF Converted

LEMMA NoError ==
    ASSUME NEW v, v.n \in Int, Numeral(v), NEW t \in Signed, Fits(v.n, t)
    PROVE  Error \notin ToSigned(v, t)
<1>1. Whole(v.n) /\ InRange(v.n, t)
    BY DEF Fits, Ints, Signed, Unsigned, Floats
<1>2. InRange(v.n, "int64")
    BY <1>1, Widest
<1>3. \A n : Num(t, n) # Error
    <2>1. \A n : Num(t, n).t = t
        BY DEF Num
    <2>2. t # "error"
        BY DEF Signed
    <2>3. QED
        BY <2>1, <2>2, ErrorType
<1>4. t \in Ints
    BY DEF Ints
<1>5. Error \notin FloatToInt(v.n, t)
    BY <1>3 DEF FloatToInt
<1>6. CASE v.t \in Ints
    BY <1>3, <1>6 DEF ToSigned, Ints, Signed, Unsigned, Floats, Parses0
<1>7. CASE v.t \in Floats
    BY <1>5, <1>7 DEF ToSigned, Ints, Signed, Unsigned, Floats, Parses0
<1>8. CASE Numeric(v)
    BY <1>1, <1>2, <1>3, <1>8 DEF ToSigned, Ints, Signed, Unsigned, Floats, Numeric, Parses0
<1>9. QED
    BY <1>6, <1>7, <1>8 DEF Numeral

LEMMA EachToInt ==
    ASSUME NEW s, \A i \in DOMAIN s : Numbered(s[i]) /\ Numeral(s[i]) /\ Fits(s[i].n, "int"),
           NEW f \in Each(ToInt, s)
    PROVE  Converted(f, s, "int")
<1>1. DOMAIN f = DOMAIN s /\ \A i \in DOMAIN s : f[i] \in ToInt(s[i])
    BY DEF Each
<1>2. ASSUME NEW i \in DOMAIN s
      PROVE  f[i] \in CastFunc("int", s[i]) /\ f[i] # Error
    <2>1. Numbered(s[i]) /\ Numeral(s[i]) /\ Fits(s[i].n, "int") /\ s[i].n \in Int
        BY <1>2 DEF Numbered, Plain
    <2>2. CastFunc("int", s[i]) = ToIntE(s[i]) /\ Error \notin ToIntE(s[i])
        BY <2>1, ScalarArms, NoError DEF ToIntE, Signed
    <2>3. PICK q \in ToIntE(s[i]) : f[i] = IF q = Error THEN Num("int", 0) ELSE q
        BY <1>1, <1>2 DEF ToInt, Zero
    <2>4. QED
        BY <2>2, <2>3
<1>3. QED
    BY <1>1, <1>2 DEF Converted

LEMMA EachToInt64 ==
    ASSUME NEW s, \A i \in DOMAIN s : Numbered(s[i]) /\ Numeral(s[i]) /\ Fits(s[i].n, "int64"),
           NEW f \in Each(ToInt64, s)
    PROVE  Converted(f, s, "int64")
<1>1. DOMAIN f = DOMAIN s /\ \A i \in DOMAIN s : f[i] \in ToInt64(s[i])
    BY DEF Each
<1>2. ASSUME NEW i \in DOMAIN s
      PROVE  f[i] \in CastFunc("int64", s[i]) /\ f[i] # Error
    <2>1. Numbered(s[i]) /\ Numeral(s[i]) /\ Fits(s[i].n, "int64") /\ s[i].n \in Int
        BY <1>2 DEF Numbered, Plain
    <2>2. CastFunc("int64", s[i]) = ToInt64E(s[i]) /\ Error \notin ToInt64E(s[i])
        BY <2>1, ScalarArms, NoError DEF ToInt64E, Signed
    <2>3. PICK q \in ToInt64E(s[i]) : f[i] = IF q = Error THEN Num("int64", 0) ELSE q
        BY <1>1, <1>2 DEF ToInt64, Zero
    <2>4. QED
        BY <2>2, <2>3
<1>3. QED
    BY <1>1, <1>2 DEF Converted

LEMMA EachToString ==
    ASSUME NEW s, \A i \in DOMAIN s : Numbered(s[i]), NEW f \in Each(ToString, s)
    PROVE  Converted(f, s, "string")
<1>1. DOMAIN f = DOMAIN s /\ \A i \in DOMAIN s : f[i] \in ToString(s[i])
    BY DEF Each
<1>2. ASSUME NEW i \in DOMAIN s
      PROVE  f[i] \in CastFunc("string", s[i]) /\ f[i] # Error
    <2>1. PICK q \in ToStringE(s[i]) : f[i] = IF q = Error THEN Text("empty", 0) ELSE q
        BY <1>1, <1>2 DEF ToString, Zero
    <2>2. q # Error
        BY <1>2, StringYields DEF Numbered
    <2>3. QED
        BY <2>1, <2>2, ScalarArms
<1>3. QED
    BY <1>1, <1>2 DEF Converted

\* Exact values: scalars, lists and maps of them, and maps of lists of one.
ListMaps == {"map[string][]string", "map[interface{}][]string", "map[string][]interface{}",
             "map[interface{}][]interface{}"}
Filled(v) == /\ v.t \in Lists \cup Maps /\ v.t \notin ListMaps /\ v.form = ""
             /\ \A i \in DOMAIN v.elems : /\ Numbered(v.elems[i])
                                          /\ v.t \in DynamicMaps => Numeral(v.elems[i])
Group(e) == /\ e.t \in {"[]string", "[]interface{}"} /\ e.form = ""
            /\ \E w : e.elems = <<w>> /\ Numbered(w)
Grouped(v) == /\ v.t \in ListMaps /\ v.form = ""
              /\ \A i \in DOMAIN v.elems : Group(v.elems[i])
Exactly(v) == Numbered(v) \/ Filled(v) \/ Grouped(v)
Keeps(v, r) == Exactly(r) /\ Numbers(r) = Numbers(v)

LEMMA ListMapTypes ==
    /\ ListMaps \subseteq Maps \ (DynamicMaps \cup Lists \cup Scalars)
    /\ DynamicMaps \subseteq Maps \ (Lists \cup Scalars)
    /\ Maps \cap Scalars = {} /\ Maps \cap Lists = {} /\ Lists \cap Scalars = {}
BY DEF ListMaps, Maps, StringMaps, KeyedByAny, DynamicMaps, Lists, Scalars, Ints, Signed, Unsigned,
       Floats

LEMMA FlatNumbers ==
    ASSUME NEW v, v.t \in Lists \cup Maps, \A i \in DOMAIN v.elems : v.elems[i].elems = << >>
    PROVE  Numbers(v) = [i \in DOMAIN v.elems |-> v.elems[i].n]
<1>1. PICK s : s = v.elems
    OBVIOUS
<1>2. Numbers(v) = [i \in DOMAIN s |-> IF s[i].elems = << >> THEN s[i].n ELSE s[i].elems[1].n]
    BY <1>1 DEF Numbers
<1>3. QED
    BY <1>1, <1>2

LEMMA FilledNumbers ==
    ASSUME NEW v, Filled(v)
    PROVE  Numbers(v) = [i \in DOMAIN v.elems |-> v.elems[i].n]
<1>1. \A i \in DOMAIN v.elems : v.elems[i].elems = << >>
    BY DEF Filled, Numbered, Plain
<1>2. QED
    BY <1>1, FlatNumbers DEF Filled

LEMMA OfIs == \A t, f : /\ Of(t, f).t = t /\ Of(t, f).form = "" /\ Of(t, f).elems = f
BY DEF Of

LEMMA ConvertedKeeps ==
    ASSUME NEW v, Filled(v), NEW k \in Scalars, NEW f, Converted(f, v.elems, k),
           \A i \in DOMAIN v.elems : Fits(v.elems[i].n, k),
           NEW t \in Lists \cup Maps, t \notin DynamicMaps, t \notin ListMaps
    PROVE  Keeps(v, Of(t, f))
<1>1. \A i \in DOMAIN v.elems : Numbered(f[i]) /\ f[i].n = v.elems[i].n
    BY ScalarKeeps DEF Filled, Converted
<1>2. PICK r : r = Of(t, f)
    OBVIOUS
<1>3. r.t = t /\ r.form = "" /\ r.elems = f
    BY <1>2, OfIs
<1>4. DOMAIN f = DOMAIN v.elems
    BY DEF Converted
<1>5. Filled(r)
    BY <1>1, <1>3, <1>4 DEF Filled
<1>6. [i \in DOMAIN v.elems |-> v.elems[i].n] = [i \in DOMAIN f |-> f[i].n]
    BY <1>1, <1>4
<1>7. Numbers(r) = Numbers(v)
    BY <1>3, <1>5, <1>6, FilledNumbers
<1>8. QED
    BY <1>2, <1>5, <1>7 DEF Keeps, Exactly

(* The containers of one kind of element, each with what its cast does. *)
LEMMA FitEach ==
    ASSUME NEW v, Filled(v), NEW k, \A i \in DOMAIN Numbers(v) : Fits(Numbers(v)[i], k)
    PROVE  \A i \in DOMAIN v.elems : Fits(v.elems[i].n, k)
BY FilledNumbers

LEMMA ListKeeps ==
    ASSUME NEW v, Exactly(v), NEW t \in {"[]bool", "[]int", "[]duration"},
           \A i \in DOMAIN Numbers(v) : Fits(Numbers(v)[i], Element(t)),
           NEW r \in CastFunc(t, v), r # Error
    PROVE  Keeps(v, r)
<1>1. r = v => Keeps(v, r)
    BY DEF Keeps
<1>2. CASE v.t \in Lists
    <2>1. Filled(v)
        BY <1>2, ListMapTypes DEF Exactly, Grouped, Numbered, Plain
    <2>2. CASE t = "[]bool"
        <3>1. r \in ToBoolSliceE(v)
            BY <2>2, ContainerArms
        <3>2. r = v \/ r \in AllOf("[]bool", ToBoolE, v.elems)
            BY <1>2, <3>1 DEF ToBoolSliceE, ListOf
        <3>3. CASE r \in AllOf("[]bool", ToBoolE, v.elems)
            <4>1. PICK f : r = Of("[]bool", f) /\ Converted(f, v.elems, "bool")
                BY <3>3, AllOfBools
            <4>2. \A i \in DOMAIN v.elems : Fits(v.elems[i].n, "bool")
                BY <2>1, <2>2, FitEach DEF Element
            <4>3. /\ "bool" \in Scalars /\ "[]bool" \in Lists \cup Maps
                  /\ "[]bool" \notin DynamicMaps /\ "[]bool" \notin ListMaps
                BY DEF Lists, ListMaps, DynamicMaps, Scalars, Ints, Signed
            <4>4. QED
                BY <2>1, <4>1, <4>2, <4>3, ConvertedKeeps
        <3>4. QED
            BY <1>1, <3>2, <3>3
    <2>3. CASE t = "[]int"
        <3>1. r \in ToIntSliceE(v)
            BY <2>3, ContainerArms
        <3>2. r = v \/ r \in AllOf("[]int", ToIntE, v.elems)
            BY <1>2, <3>1 DEF ToIntSliceE, ListOf
        <3>3. CASE r \in AllOf("[]int", ToIntE, v.elems)
            <4>1. PICK f : r = Of("[]int", f) /\ Converted(f, v.elems, "int")
                BY <3>3, AllOfInts
            <4>2. \A i \in DOMAIN v.elems : Fits(v.elems[i].n, "int")
                BY <2>1, <2>3, FitEach DEF Element
            <4>3. /\ "int" \in Scalars /\ "[]int" \in Lists \cup Maps
                  /\ "[]int" \notin DynamicMaps /\ "[]int" \notin ListMaps
                BY DEF Lists, ListMaps, DynamicMaps, Scalars, Ints, Signed
            <4>4. QED
                BY <2>1, <4>1, <4>2, <4>3, ConvertedKeeps
        <3>4. QED
            BY <1>1, <3>2, <3>3
    <2>4. CASE t = "[]duration"
        <3>1. r \in ToDurationSliceE(v)
            BY <2>4, ContainerArms
        <3>2. r = v \/ r \in AllOf("[]duration", ToDurationE, v.elems)
            BY <1>2, <3>1 DEF ToDurationSliceE, ListOf
        <3>3. CASE r \in AllOf("[]duration", ToDurationE, v.elems)
            <4>1. PICK f : r = Of("[]duration", f) /\ Converted(f, v.elems, "duration")
                BY <3>3, AllOfDurations
            <4>2. \A i \in DOMAIN v.elems : Fits(v.elems[i].n, "duration")
                BY <2>1, <2>4, FitEach DEF Element
            <4>3. /\ "duration" \in Scalars /\ "[]duration" \in Lists \cup Maps
                  /\ "[]duration" \notin DynamicMaps /\ "[]duration" \notin ListMaps
                BY DEF Lists, ListMaps, DynamicMaps, Scalars, Ints, Signed
            <4>4. QED
                BY <2>1, <4>1, <4>2, <4>3, ConvertedKeeps
        <3>4. QED
            BY <1>1, <3>2, <3>3
    <2>5. QED
        BY <2>2, <2>3, <2>4
<1>3. CASE v.t \notin Lists
    <2>1. r \in ToBoolSliceE(v) \cup ToIntSliceE(v) \cup ToDurationSliceE(v)
        BY ContainerArms
    <2>2. FALSE
        BY <1>3, <2>1 DEF ToBoolSliceE, ToIntSliceE, ToDurationSliceE, ListOf, Lists
    <2>3. QED
        BY <2>2
<1>4. QED
    BY <1>2, <1>3

\* A scalar has one number, and becomes a list of one text.
LEMMA NumberOfScalar ==
    ASSUME NEW v, Plain(v)
    PROVE  Numbers(v) = <<v.n>>
BY ListMapTypes DEF Plain, Numbers

LEMMA OneElement == \A e : DOMAIN <<e>> = 1..1 /\ <<e>>[1] = e /\ <<e>> # << >>
OBVIOUS

\* A list of one text that has a number.
Listed(r, n) == /\ r.t = "[]string" /\ r.form = ""
                /\ \E e : r.elems = <<e>> /\ Numbered(e) /\ e.n = n

LEMMA ListedIs ==
    ASSUME NEW e, Numbered(e), NEW r, r = Of("[]string", <<e>>)
    PROVE  Listed(r, e.n)
<1>1. PICK s : s = <<e>>
    OBVIOUS
<1>2. r.t = "[]string" /\ r.form = "" /\ r.elems = s
    BY <1>1, OfIs
<1>3. QED
    BY <1>1, <1>2 DEF Listed

LEMMA OneText ==
    ASSUME NEW v, Numbered(v), NEW r, Listed(r, v.n)
    PROVE  Keeps(v, r)
<1>1. PICK e : r.elems = <<e>> /\ Numbered(e) /\ e.n = v.n
    BY DEF Listed
<1>2. r.t = "[]string" /\ r.form = ""
    BY DEF Listed
<1>3. Filled(r)
    <2>1. \A i \in DOMAIN r.elems : r.elems[i] = e
        <3>1. PICK s : s = <<e>>
            OBVIOUS
        <3>2. DOMAIN s = 1..1 /\ s[1] = e
            BY <3>1, OneElement
        <3>3. \A i \in DOMAIN s : s[i] = e
            BY <3>2
        <3>4. QED
            BY <1>1, <3>1, <3>3
    <2>2. r.t \in Lists \cup Maps /\ r.t \notin DynamicMaps /\ r.t \notin ListMaps
        BY <1>2 DEF Lists, ListMaps, DynamicMaps
    <2>3. QED
        BY <1>1, <1>2, <2>1, <2>2 DEF Filled
<1>4. Numbers(r) = [i \in DOMAIN r.elems |-> r.elems[i].n]
    BY <1>3, FilledNumbers
<1>5. Numbers(r) = <<e.n>>
    <2>1. DOMAIN r.elems = 1..1 /\ r.elems[1] = e
        BY <1>1, OneElement
    <2>2. [i \in 1..1 |-> e.n] = <<e.n>>
        OBVIOUS
    <2>3. [i \in DOMAIN r.elems |-> r.elems[i].n] = [i \in 1..1 |-> e.n]
        BY <2>1
    <2>4. QED
        BY <1>4, <2>2, <2>3
<1>6. Numbers(v) = <<v.n>>
    BY NumberOfScalar DEF Numbered
<1>7. QED
    BY <1>1, <1>3, <1>5, <1>6 DEF Keeps, Exactly

\* A scalar becomes a list of one text, and a list of one stays one.
LEMMA OneListed ==
    ASSUME NEW v, Numbered(v), NEW r \in ToStringSliceE(v)
    PROVE  Listed(r, v.n)
<1>1. v.t \in Scalars
    BY DEF Numbered, Plain
<1>2. CASE v.t = "string"
    <2>1. r = Of("[]string", <<v>>)
        BY <1>2 DEF Numbered, ToStringSliceE, Scalars, Ints, Signed, Unsigned, Floats
    <2>2. QED
        BY <2>1, ListedIs
<1>3. CASE v.t # "string"
    <2>1. r \in AllOf("[]string", ToStringE, <<v>>)
        BY <1>1, <1>3 DEF ToStringSliceE, Scalars, Ints, Signed, Unsigned, Floats
    <2>2. PICK f \in Each(ToStringE, <<v>>) :
              r = IF \E i \in DOMAIN f : f[i] = Error THEN Error ELSE Of("[]string", f)
        BY <2>1 DEF AllOf
    <2>3. f \in [1..1 -> ToStringE(v)] /\ f[1] \in ToStringE(v)
        BY <2>2 DEF Each
    <2>4. f[1] # Error /\ Numbered(f[1]) /\ f[1].n = v.n
        BY <2>3, StringYields DEF Numbered
    <2>5. f = <<f[1]>>
        BY <2>3
    <2>6. r = Of("[]string", <<f[1]>>)
        BY <2>2, <2>3, <2>4, <2>5
    <2>7. PICK e : e = f[1]
        OBVIOUS
    <2>8. QED
        BY <2>4, <2>6, <2>7, ListedIs
<1>4. QED
    BY <1>2, <1>3

LEMMA GroupListed ==
    ASSUME NEW v, Group(v), NEW r \in ToStringSliceE(v)
    PROVE  Listed(r, v.elems[1].n)
<1>1. PICK w : v.elems = <<w>> /\ Numbered(w)
    BY DEF Group
<1>2. v.elems[1] = w
    BY <1>1, OneElement
<1>3. CASE v.t = "[]string"
    <2>1. r = v
        BY <1>3 DEF ToStringSliceE, Scalars, Ints, Signed, Unsigned, Floats
    <2>2. QED
        BY <1>1, <1>2, <1>3, <2>1 DEF Listed, Group
<1>4. CASE v.t = "[]interface{}"
    <2>1. r \in {Of("[]string", f) : f \in Each(ToString, v.elems)}
        BY <1>4 DEF ToStringSliceE, Scalars, Ints, Signed, Unsigned, Floats
    <2>2. PICK f \in Each(ToString, v.elems) : r = Of("[]string", f)
        BY <2>1
    <2>3. f \in [1..1 -> ToString(w)] /\ f[1] \in ToString(w)
        BY <1>1, <2>2 DEF Each
    <2>4. PICK q \in ToStringE(w) : f[1] = IF q = Error THEN Text("empty", 0) ELSE q
        BY <2>3 DEF ToString, Zero
    <2>5. q # Error /\ Numbered(q) /\ q.n = w.n
        BY <1>1, <2>4, StringYields DEF Numbered
    <2>6. f = <<q>>
        BY <2>3, <2>4, <2>5
    <2>7. r = Of("[]string", <<q>>)
        BY <2>2, <2>6
    <2>8. QED
        BY <1>2, <2>5, <2>7, ListedIs
<1>5. QED
    BY <1>3, <1>4 DEF Group

LEMMA StringSliceKeeps ==
    ASSUME NEW v, Exactly(v), NEW r \in ToStringSliceE(v), r # Error
    PROVE  Keeps(v, r)
<1>1. CASE Numbered(v)
    BY <1>1, OneListed, OneText
<1>2. CASE Filled(v)
    <2>1. v.t \notin Scalars
        BY <1>2, ListMapTypes DEF Filled
    <2>2. CASE v.t \in {"[]interface{}", "[]int"}
        <3>1. r \in {Of("[]string", f) : f \in Each(ToString, v.elems)}
            BY <2>2 DEF ToStringSliceE, Scalars, Ints, Signed, Unsigned, Floats
        <3>2. PICK f \in Each(ToString, v.elems) : r = Of("[]string", f)
            BY <3>1
        <3>3. Converted(f, v.elems, "string")
            BY <1>2, <3>2, EachToString DEF Filled
        <3>4. \A h : Fits(h, "string")
            BY DEF Fits, Ints, Signed, Unsigned, Floats
        <3>5. /\ "[]string" \in Lists /\ "[]string" \notin DynamicMaps
              /\ "[]string" \notin ListMaps /\ "string" \in Scalars
            BY DEF Lists, DynamicMaps, ListMaps, Scalars
        <3>6. QED
            BY <1>2, <3>2, <3>3, <3>4, <3>5, ConvertedKeeps
    <2>3. CASE v.t \notin {"[]interface{}", "[]int"}
        <3>1. v.t # "string"
            BY <2>1 DEF Scalars
        <3>2. r = v
            BY <2>1, <2>3, <3>1 DEF ToStringSliceE
        <3>3. QED
            BY <3>2 DEF Keeps
    <2>4. QED
        BY <2>2, <2>3
<1>3. CASE Grouped(v)
    <2>1. v.t \notin Scalars /\ v.t \notin Lists
        BY <1>3, ListMapTypes DEF Grouped
    <2>2. r = Error
        BY <2>1 DEF ToStringSliceE, Scalars, Lists
    <2>3. QED
        BY <2>2
<1>4. QED
    BY <1>1, <1>2, <1>3 DEF Exactly

\* No scalar is made of a list, so a map of lists that becomes one of numbers
\* is empty.
LEMMA NoneOfGroup ==
    ASSUME NEW v, Group(v)
    PROVE  ToIntE(v) = {Error} /\ ToInt64E(v) = {Error}
BY DEF Group, ToIntE, ToInt64E, ToSigned, Ints, Signed, Unsigned, Floats, Parses0

LEMMA EmptyKeeps ==
    ASSUME NEW v, Grouped(v), DOMAIN v.elems = {}, NEW f, DOMAIN f = {},
           NEW t \in {"map[string]int", "map[string]int64"}
    PROVE  Keeps(v, Of(t, f))
<1>1. PICK w : w = Of(t, f)
    OBVIOUS
<1>2. w.t = t /\ w.form = "" /\ w.elems = f
    BY <1>1, OfIs
<1>3. t \in Lists \cup Maps /\ t \notin ListMaps /\ v.t \in Lists \cup Maps
    BY ListMapTypes DEF Grouped, Maps, StringMaps, ListMaps
<1>4. Filled(w)
    BY <1>2, <1>3 DEF Filled
<1>5. Numbers(w) = [i \in {} |-> w.elems[i].n]
    BY <1>2, <1>4, FilledNumbers
<1>6. Numbers(v) = [i \in {} |-> v.elems[i].n]
    BY <1>3, FlatNumbers
<1>7. Numbers(w) = Numbers(v)
    BY <1>5, <1>6
<1>8. QED
    BY <1>1, <1>4, <1>7 DEF Keeps, Exactly

LEMMA MapOfInts ==
    ASSUME NEW v, Exactly(v), v.t \in Maps,
           \A i \in DOMAIN Numbers(v) : Fits(Numbers(v)[i], "int"),
           NEW r \in Reflected("map[string]int", ToIntE, v), r # Error, r # Panic
    PROVE  Keeps(v, r)
<1>1. r \in AllOf("map[string]int", ToIntE, v.elems)
    BY DEF Reflected
<1>2. PICK f : r = Of("map[string]int", f) /\ Converted(f, v.elems, "int")
    BY <1>1, AllOfInts
<1>3. CASE Filled(v)
    <2>1. \A i \in DOMAIN v.elems : Fits(v.elems[i].n, "int")
        BY <1>3, FitEach
    <2>2. /\ "int" \in Scalars /\ "map[string]int" \in Lists \cup Maps
          /\ "map[string]int" \notin DynamicMaps /\ "map[string]int" \notin ListMaps
        BY DEF Maps, StringMaps, ListMaps, DynamicMaps, Scalars, Ints, Signed
    <2>3. QED
        BY <1>2, <1>3, <2>1, <2>2, ConvertedKeeps
<1>4. CASE Grouped(v)
    <2>1. \A i \in DOMAIN v.elems : f[i] \in ToIntE(v.elems[i]) /\ f[i] # Error
        BY <1>2, ScalarArms DEF Converted, ToIntE, Signed
    <2>2. \A i \in DOMAIN v.elems : ToIntE(v.elems[i]) = {Error}
        BY <1>4, NoneOfGroup DEF Grouped
    <2>3. DOMAIN v.elems = {} /\ DOMAIN f = {}
        BY <1>2, <2>1, <2>2 DEF Converted
    <2>4. QED
        BY <1>2, <1>4, <2>3, EmptyKeeps
<1>5. QED
    BY <1>3, <1>4, ListMapTypes DEF Exactly, Numbered, Plain

LEMMA MapOfInt64s ==
    ASSUME NEW v, Exactly(v), v.t \in Maps,
           \A i \in DOMAIN Numbers(v) : Fits(Numbers(v)[i], "int64"),
           NEW r \in Reflected("map[string]int64", ToInt64E, v), r # Error, r # Panic
    PROVE  Keeps(v, r)
<1>1. r \in AllOf("map[string]int64", ToInt64E, v.elems)
    BY DEF Reflected
<1>2. PICK f : r = Of("map[string]int64", f) /\ Converted(f, v.elems, "int64")
    BY <1>1, AllOfInt64s
<1>3. CASE Filled(v)
    <2>1. \A i \in DOMAIN v.elems : Fits(v.elems[i].n, "int64")
        BY <1>3, FitEach
    <2>2. /\ "int64" \in Scalars /\ "map[string]int64" \in Lists \cup Maps
          /\ "map[string]int64" \notin DynamicMaps /\ "map[string]int64" \notin ListMaps
        BY DEF Maps, StringMaps, ListMaps, DynamicMaps, Scalars, Ints, Signed
    <2>3. QED
        BY <1>2, <1>3, <2>1, <2>2, ConvertedKeeps
<1>4. CASE Grouped(v)
    <2>1. \A i \in DOMAIN v.elems : f[i] \in ToInt64E(v.elems[i]) /\ f[i] # Error
        BY <1>2, ScalarArms DEF Converted, ToInt64E, Signed
    <2>2. \A i \in DOMAIN v.elems : ToInt64E(v.elems[i]) = {Error}
        BY <1>4, NoneOfGroup DEF Grouped
    <2>3. DOMAIN v.elems = {} /\ DOMAIN f = {}
        BY <1>2, <2>1, <2>2 DEF Converted
    <2>4. QED
        BY <1>2, <1>4, <2>3, EmptyKeeps
<1>5. QED
    BY <1>3, <1>4, ListMapTypes DEF Exactly, Numbered, Plain

(* No exact value is an object of JSON. *)
LEMMA NoJson ==
    ASSUME NEW v, Exactly(v)
    PROVE  v.form # "json"
BY DEF Exactly, Numbered, Plain, Filled, Grouped

LEMMA DynamicKeeps ==
    ASSUME NEW v, Exactly(v), v.t \in DynamicMaps
    PROVE  Filled(v)
BY ListMapTypes DEF Exactly, Grouped, Numbered, Plain

LEMMA MapsKeep ==
    ASSUME NEW v, Exactly(v), NEW t \in {"map[string]int", "map[string]int64", "map[string]bool",
                                        "map[string]string", "map[string]interface{}"},
           \A i \in DOMAIN Numbers(v) : Fits(Numbers(v)[i], Element(t)),
           ~(v.t \in DynamicMaps /\ t = "map[string]bool"),
           NEW r \in CastFunc(t, v), r # Error, r # Panic
    PROVE  Keeps(v, r)
<1>1. r = v => Keeps(v, r)
    BY DEF Keeps
<1>2. v.form # "json"
    BY NoJson
<1>3. CASE t = "map[string]bool"
    <2>1. r \in ToStringMapBoolE(v)
        BY <1>3, ContainerArms
    <2>2. r = v
        BY <1>2, <1>3, <2>1 DEF ToStringMapBoolE, FromJson
    <2>3. QED
        BY <1>1, <2>2
<1>4. CASE t = "map[string]interface{}"
    <2>1. r \in ToStringMapE(v)
        BY <1>4, ContainerArms
    <2>2. v.t \in DynamicMaps /\ r = Of("map[string]interface{}", v.elems)
        BY <1>2, <2>1 DEF ToStringMapE, FromJson
    <2>3. r.t = "map[string]interface{}" /\ r.form = "" /\ r.elems = v.elems
        <3>1. PICK s : s = v.elems
            OBVIOUS
        <3>2. r = Of(t, s)
            BY <1>4, <2>2, <3>1
        <3>3. r.t = t /\ r.form = "" /\ r.elems = s
            BY <3>2, OfIs
        <3>4. QED
            BY <1>4, <3>1, <3>3
    <2>4. /\ "map[string]interface{}" \in Maps /\ "map[string]interface{}" \notin ListMaps
          /\ Filled(v)
        BY <2>2, DynamicKeeps DEF Maps, StringMaps, ListMaps
    <2>5. Filled(r)
        BY <2>2, <2>3, <2>4 DEF Filled
    <2>6. Numbers(v) = [i \in DOMAIN v.elems |-> v.elems[i].n]
        BY <2>4, FilledNumbers
    <2>7. Numbers(r) = [i \in DOMAIN r.elems |-> r.elems[i].n]
        BY <2>5, FilledNumbers
    <2>8. Numbers(r) = Numbers(v)
        BY <2>3, <2>6, <2>7
    <2>9. QED
        BY <2>5, <2>8 DEF Keeps, Exactly
<1>5. CASE t = "map[string]string"
    <2>1. r \in ToStringMapStringE(v)
        BY <1>5, ContainerArms
    <2>2. r = v \/ (v.t \in DynamicMaps \cup {"map[interface{}]string"}
                    /\ r \in {Of("map[string]string", f) : f \in Each(ToString, v.elems)})
        BY <1>2, <2>1 DEF ToStringMapStringE, AllTo, FromJson
    <2>3. ASSUME v.t \in DynamicMaps \cup {"map[interface{}]string"},
                 NEW f \in Each(ToString, v.elems), r = Of("map[string]string", f)
          PROVE  Keeps(v, r)
        <3>1. Filled(v)
            <4>1. v.t \notin Scalars /\ v.t \notin ListMaps
                BY <2>3 DEF DynamicMaps, ListMaps, Scalars, Ints, Signed, Unsigned, Floats
            <4>2. QED
                BY <4>1 DEF Exactly, Numbered, Plain, Grouped
        <3>2. Converted(f, v.elems, "string")
            BY <2>3, <3>1, EachToString DEF Filled
        <3>3. \A h : Fits(h, "string")
            BY DEF Fits, Ints, Signed, Unsigned, Floats
        <3>4. /\ "string" \in Scalars /\ "map[string]string" \in Lists \cup Maps
              /\ "map[string]string" \notin DynamicMaps /\ "map[string]string" \notin ListMaps
            BY DEF Maps, StringMaps, ListMaps, DynamicMaps, Scalars
        <3>5. QED
            BY <2>3, <3>1, <3>2, <3>3, <3>4, ConvertedKeeps
    <2>4. QED
        BY <1>1, <2>2, <2>3
<1>6. CASE t = "map[string]int"
    <2>1. r \in ToStringMapIntE(v)
        BY <1>6, ContainerArms
    <2>2. \A i \in DOMAIN Numbers(v) : Fits(Numbers(v)[i], "int")
        BY <1>6 DEF Element
    <2>3. \/ r = v
          \/ v.t \in DynamicMaps /\ r \in {Of("map[string]int", f) : f \in Each(ToInt, v.elems)}
          \/ v.t \in Maps /\ r \in Reflected("map[string]int", ToIntE, v)
        BY <1>2, <2>1 DEF ToStringMapIntE, AllTo, FromJson
    <2>4. ASSUME v.t \in DynamicMaps, NEW f \in Each(ToInt, v.elems),
                 r = Of("map[string]int", f)
          PROVE  Keeps(v, r)
        <3>1. Filled(v)
            BY <2>4, DynamicKeeps
        <3>2. \A i \in DOMAIN v.elems : Fits(v.elems[i].n, "int")
            BY <2>2, <3>1, FitEach
        <3>3. \A i \in DOMAIN v.elems : Numbered(v.elems[i]) /\ Numeral(v.elems[i])
            BY <2>4, <3>1 DEF Filled
        <3>4. Converted(f, v.elems, "int")
            BY <2>4, <3>2, <3>3, EachToInt
        <3>5. /\ "int" \in Scalars /\ "map[string]int" \in Lists \cup Maps
              /\ "map[string]int" \notin DynamicMaps /\ "map[string]int" \notin ListMaps
            BY DEF Maps, StringMaps, ListMaps, DynamicMaps, Scalars, Ints, Signed
        <3>6. QED
            BY <2>4, <3>1, <3>2, <3>4, <3>5, ConvertedKeeps
    <2>5. ASSUME v.t \in Maps, r \in Reflected("map[string]int", ToIntE, v)
          PROVE  Keeps(v, r)
        BY <2>2, <2>5, MapOfInts
    <2>6. QED
        BY <1>1, <2>3, <2>4, <2>5
<1>7. CASE t = "map[string]int64"
    <2>1. r \in ToStringMapInt64E(v)
        BY <1>7, ContainerArms
    <2>2. \A i \in DOMAIN Numbers(v) : Fits(Numbers(v)[i], "int64")
        BY <1>7 DEF Element
    <2>3. \/ r = v
          \/ v.t \in DynamicMaps /\ r \in {Of("map[string]int64", f) : f \in Each(ToInt64, v.elems)}
          \/ v.t \in Maps /\ r \in Reflected("map[string]int64", ToInt64E, v)
        BY <1>2, <2>1 DEF ToStringMapInt64E, AllTo, FromJson
    <2>4. ASSUME v.t \in DynamicMaps, NEW f \in Each(ToInt64, v.elems),
                 r = Of("map[string]int64", f)
          PROVE  Keeps(v, r)
        <3>1. Filled(v)
            BY <2>4, DynamicKeeps
        <3>2. \A i \in DOMAIN v.elems : Fits(v.elems[i].n, "int64")
            BY <2>2, <3>1, FitEach
        <3>3. \A i \in DOMAIN v.elems : Numbered(v.elems[i]) /\ Numeral(v.elems[i])
            BY <2>4, <3>1 DEF Filled
        <3>4. Converted(f, v.elems, "int64")
            BY <2>4, <3>2, <3>3, EachToInt64
        <3>5. /\ "int64" \in Scalars /\ "map[string]int64" \in Lists \cup Maps
              /\ "map[string]int64" \notin DynamicMaps /\ "map[string]int64" \notin ListMaps
            BY DEF Maps, StringMaps, ListMaps, DynamicMaps, Scalars, Ints, Signed
        <3>6. QED
            BY <2>4, <3>1, <3>2, <3>4, <3>5, ConvertedKeeps
    <2>5. ASSUME v.t \in Maps, r \in Reflected("map[string]int64", ToInt64E, v)
          PROVE  Keeps(v, r)
        BY <2>2, <2>5, MapOfInt64s
    <2>6. QED
        BY <1>1, <2>3, <2>4, <2>5
<1>8. QED
    BY <1>3, <1>4, <1>5, <1>6, <1>7

\* The number under one key of a map.
Under(e) == IF e.elems = << >> THEN e.n ELSE e.elems[1].n

LEMMA GroupMade ==
    ASSUME NEW v, v.t \in Maps, NEW f, DOMAIN f = DOMAIN v.elems,
           \A i \in DOMAIN v.elems : Listed(f[i], Under(v.elems[i]))
    PROVE  Keeps(v, Of("map[string][]string", f))
<1>1. PICK r : r = Of("map[string][]string", f)
    OBVIOUS
<1>2. r.t = "map[string][]string" /\ r.form = "" /\ r.elems = f
    BY <1>1, OfIs
<1>3. ASSUME NEW i \in DOMAIN f
      PROVE  Group(f[i]) /\ Under(f[i]) = Under(v.elems[i])
    <2>1. PICK e : f[i].elems = <<e>> /\ Numbered(e) /\ e.n = Under(v.elems[i])
        BY <1>3 DEF Listed
    <2>2. f[i].t = "[]string" /\ f[i].form = ""
        BY <1>3 DEF Listed
    <2>3. f[i].elems # << >> /\ f[i].elems[1] = e
        BY <2>1, OneElement
    <2>4. QED
        BY <2>1, <2>2, <2>3 DEF Group, Under
<1>4. Grouped(r)
    BY <1>2, <1>3 DEF Grouped, ListMaps
<1>5. Numbers(v) = [i \in DOMAIN v.elems |-> Under(v.elems[i])]
    BY DEF Numbers, Under
<1>6. Numbers(r) = [i \in DOMAIN f |-> Under(f[i])]
    <2>1. r.t \in Maps
        BY <1>2 DEF Maps, StringMaps
    <2>2. QED
        BY <1>2, <2>1 DEF Numbers, Under
<1>7. Numbers(r) = Numbers(v)
    BY <1>3, <1>5, <1>6
<1>8. QED
    BY <1>1, <1>4, <1>7 DEF Keeps, Exactly

LEMMA GroupsKeep ==
    ASSUME NEW v, Exactly(v), NEW r \in ToStringMapStringSliceE(v), r # Error
    PROVE  Keeps(v, r)
<1>1. v.form # "json"
    BY NoJson
<1>2. CASE v.t = "map[string][]string"
    <2>1. r = v
        BY <1>2 DEF ToStringMapStringSliceE
    <2>2. QED
        BY <2>1 DEF Keeps
<1>3. ASSUME NEW e, Numbered(e)
      PROVE  /\ Under(e) = e.n
             /\ \A s : s \in Single(e) \/ s \in ToStringSliceE(e) \/ s \in ToStringSlice(e)
                        => Listed(s, Under(e))
    <2>1. Under(e) = e.n /\ e.t # "[]interface{}" /\ e.t # "[]string"
        BY <1>3 DEF Under, Numbered, Plain, Scalars, Ints, Signed, Unsigned, Floats
    <2>2. ASSUME NEW s \in Single(e) PROVE Listed(s, e.n)
        <3>1. PICK w \in ToString(e) : s = Of("[]string", <<w>>)
            BY <2>1, <2>2 DEF Single
        <3>2. PICK q \in ToStringE(e) : w = IF q = Error THEN Text("empty", 0) ELSE q
            BY <3>1 DEF ToString, Zero
        <3>3. q # Error /\ Numbered(q) /\ q.n = e.n
            BY <1>3, <3>2, StringYields DEF Numbered
        <3>4. QED
            BY <3>1, <3>2, <3>3, ListedIs
    <2>3. ASSUME NEW s \in ToStringSliceE(e) PROVE Listed(s, e.n) /\ s # Error
        <3>1. Listed(s, e.n)
            BY <1>3, <2>3, OneListed
        <3>2. QED
            BY <3>1, ErrorType DEF Listed
    <2>4. ASSUME NEW s \in ToStringSlice(e) PROVE Listed(s, e.n)
        BY <2>3, <2>4 DEF ToStringSlice, Zero
    <2>5. QED
        BY <2>1, <2>2, <2>3, <2>4
<1>4. ASSUME NEW e, Group(e), NEW s \in ToStringSlice(e)
      PROVE  Listed(s, Under(e))
    <2>1. Under(e) = e.elems[1].n
        BY <1>4, OneElement DEF Group, Under
    <2>2. PICK q \in ToStringSliceE(e) : s = IF q = Error THEN Of("[]string", << >>) ELSE q
        BY <1>4 DEF ToStringSlice, Zero
    <2>3. Listed(q, e.elems[1].n)
        BY <1>4, <2>2, GroupListed
    <2>4. q # Error
        BY <2>3, ErrorType DEF Listed
    <2>5. QED
        BY <2>1, <2>2, <2>3, <2>4
<1>5. CASE v.t \in {"map[string]interface{}", "map[string]string"}
    <2>1. PICK f \in Each(Single, v.elems) : r = Of("map[string][]string", f)
        BY <1>5 DEF ToStringMapStringSliceE, AllTo
    <2>2. DOMAIN f = DOMAIN v.elems /\ \A i \in DOMAIN v.elems : f[i] \in Single(v.elems[i])
        BY <2>1 DEF Each
    <2>3. Filled(v) /\ v.t \in Maps
        BY <1>5 DEF Exactly, Grouped, Numbered, Plain, ListMaps, Maps, StringMaps, Scalars, Ints,
                    Signed, Unsigned, Floats
    <2>4. \A i \in DOMAIN v.elems : Listed(f[i], Under(v.elems[i]))
        BY <1>3, <2>2, <2>3 DEF Filled
    <2>5. QED
        BY <2>1, <2>2, <2>3, <2>4, GroupMade
<1>6. CASE v.t = "map[interface{}]interface{}"
    <2>1. r \in AllOf("map[string][]string", ToStringSliceE, v.elems)
        BY <1>6 DEF ToStringMapStringSliceE
    <2>2. PICK f \in Each(ToStringSliceE, v.elems) :
              r = IF \E i \in DOMAIN f : f[i] = Error THEN Error ELSE Of("map[string][]string", f)
        BY <2>1 DEF AllOf
    <2>3. r = Of("map[string][]string", f)
        BY <2>2
    <2>4. /\ DOMAIN f = DOMAIN v.elems
          /\ \A i \in DOMAIN v.elems : f[i] \in ToStringSliceE(v.elems[i])
        BY <2>2 DEF Each
    <2>5. Filled(v) /\ v.t \in Maps
        BY <1>6, DynamicKeeps DEF DynamicMaps, Maps, KeyedByAny
    <2>6. \A i \in DOMAIN v.elems : Listed(f[i], Under(v.elems[i]))
        BY <1>3, <2>4, <2>5 DEF Filled
    <2>7. QED
        BY <2>3, <2>4, <2>5, <2>6, GroupMade
<1>7. CASE v.t \in {"map[string][]interface{}", "map[interface{}][]string",
                    "map[interface{}][]interface{}", "map[interface{}]string"}
    <2>1. PICK f \in Each(ToStringSlice, v.elems) : r = Of("map[string][]string", f)
        BY <1>7 DEF ToStringMapStringSliceE, AllTo
    <2>2. /\ DOMAIN f = DOMAIN v.elems
          /\ \A i \in DOMAIN v.elems : f[i] \in ToStringSlice(v.elems[i])
        BY <2>1 DEF Each
    <2>3. v.t \in Maps /\ v.t \notin Scalars
        BY <1>7 DEF Maps, StringMaps, KeyedByAny, Scalars, Ints, Signed, Unsigned, Floats
    <2>4. \A i \in DOMAIN v.elems : Numbered(v.elems[i]) \/ Group(v.elems[i])
        BY <2>3 DEF Exactly, Numbered, Plain, Filled, Grouped
    <2>5. \A i \in DOMAIN v.elems : Listed(f[i], Under(v.elems[i]))
        BY <1>3, <1>4, <2>2, <2>4
    <2>6. QED
        BY <2>1, <2>2, <2>3, <2>5, GroupMade
<1>8. CASE v.t \notin {"map[string][]string", "map[string]interface{}", "map[string]string",
                       "map[interface{}]interface{}", "map[string][]interface{}",
                       "map[interface{}][]string", "map[interface{}][]interface{}",
                       "map[interface{}]string"}
    BY <1>1, <1>8 DEF ToStringMapStringSliceE, FromJson
<1>9. QED
    BY <1>2, <1>5, <1>6, <1>7, <1>8

(* No scalar is made of a container. *)
LEMMA NoScalarOfMany ==
    ASSUME NEW v, v.t \in Lists \cup Maps, v.form = "", NEW t \in Scalars
    PROVE  CastFunc(t, v) = {Error}
<1>1. /\ v.t \notin Ints /\ v.t \notin Floats /\ v.t \notin {"bool", "nil"} /\ v.t # "string"
      /\ v.t \notin {"time", "duration"} /\ ~Parses0(v) /\ ~ParsesFloat(v) /\ ~ParsesSpan(v)
    BY DEF Lists, Maps, StringMaps, KeyedByAny, DynamicMaps, Ints, Signed, Unsigned, Floats,
           Parses0, ParsesFloat, ParsesSpan
<1>2. \A s : ToSigned(v, s) = {Error} /\ ToUnsigned(v, s) = {Error} /\ ToFloat(v, s) = {Error}
    BY <1>1 DEF ToSigned, ToUnsigned, ToFloat, Floating
<1>3. ToBoolE(v) = {Error} /\ ToStringE(v) = {Error}
    BY <1>1 DEF ToBoolE, ToStringE, Ints, Signed
<1>4. ToTimeE(v) = {Error}
    BY <1>1 DEF ToTimeE, Ints, Signed, Unsigned
<1>5. ToDurationE(v) = {Error}
    BY <1>1 DEF ToDurationE
<1>6. t \in Signed \/ t \in Unsigned \/ t \in Floats \/ t \in {"bool", "string", "time", "duration"}
    BY DEF Scalars, Ints
<1>7. t \in Signed => CastFunc(t, v) = {Error}
    BY <1>2, ScalarArms
<1>8. t \in Unsigned => CastFunc(t, v) = {Error}
    BY <1>2, ScalarArms
<1>9. t \in Floats => CastFunc(t, v) = {Error}
    BY <1>2, ScalarArms
<1>10. t \in {"bool", "string", "time", "duration"} => CastFunc(t, v) = {Error}
    BY <1>3, <1>4, <1>5, ScalarArms
<1>11. QED
    BY <1>6, <1>7, <1>8, <1>9, <1>10

(* A conversion of an exact value to a type that can hold its numbers. *)
LEMMA CastKeeps ==
    ASSUME NEW v, Exactly(v), NEW t \in CastTypes,
           \A i \in DOMAIN Numbers(v) : Fits(Numbers(v)[i], Element(t)),
           ~(v.t \in DynamicMaps /\ t = "map[string]bool"),
           NEW r \in CastFunc(t, v), r # Error, r # Panic
    PROVE  Keeps(v, r)
<1>1. CASE t \in Scalars
    <2>1. CASE Numbered(v)
        <3>1. Numbers(v) = <<v.n>>
            BY <2>1, NumberOfScalar DEF Numbered
        <3>2. Element(t) = t
            BY <1>1 DEF Element, Scalars, Ints, Signed, Unsigned, Floats
        <3>3. Fits(v.n, t)
            BY <3>1, <3>2, OneElement
        <3>4. Numbered(r) /\ r.n = v.n
            BY <1>1, <2>1, <3>3, ScalarKeeps
        <3>5. Numbers(r) = <<r.n>>
            BY <3>4, NumberOfScalar DEF Numbered
        <3>6. QED
            BY <3>1, <3>4, <3>5 DEF Keeps, Exactly
    <2>2. CASE ~Numbered(v)
        <3>1. v.t \in Lists \cup Maps /\ v.form = ""
            BY <2>2, ListMapTypes DEF Exactly, Filled, Grouped
        <3>2. CastFunc(t, v) = {Error}
            BY <1>1, <3>1, NoScalarOfMany
        <3>3. QED
            BY <3>2
    <2>3. QED
        BY <2>1, <2>2
<1>2. CASE t \in {"[]bool", "[]int", "[]duration"}
    BY <1>2, ListKeeps
<1>3. CASE t = "[]string"
    BY <1>3, ContainerArms, StringSliceKeeps
<1>4. CASE t = "[]interface{}"
    <2>1. r = v
        BY <1>4, ContainerArms DEF ToSliceE
    <2>2. QED
        BY <2>1 DEF Keeps
<1>5. CASE t = "map[string][]string"
    BY <1>5, ContainerArms, GroupsKeep
<1>6. CASE t \in {"map[string]int", "map[string]int64", "map[string]bool", "map[string]string",
                  "map[string]interface{}"}
    BY <1>6, MapsKeep
<1>7. QED
    BY <1>1, <1>2, <1>3, <1>4, <1>5, <1>6 DEF CastTypes, Lists, StringMaps

Small(h) == h \in Int /\ Abs(h) < 2 * Size["int64"]

(* A float type has a spacing for every number the integers reach, and has  *)
(* the small numbers themselves.                                            *)
LEMMA SpacingFound ==
    ASSUME NEW t \in Floats, NEW h, Small(h)
    PROVE  /\ Spacing(h, t) \in Nat \ {0}
           /\ Abs(h) < Dense[t] => Spacing(h, t) = 1
<1> DEFINE Within(k) == Abs(h) < 2^k * Dense[t]
           First(k) == Within(k) /\ \A j \in 0..(k - 1) : ~Within(j)
           S == {k \in 0..64 : Within(k)}
<1>1. Abs(h) \in Nat /\ Dense[t] \in Nat /\ Dense[t] > 0 /\ Size["int64"] \in Nat
    <2>1. "int64" \in Ints
        BY DEF Ints, Signed
    <2>2. Size["int64"] \in Nat
        BY <2>1, CastAssumption
    <2>3. Dense[t] \in Nat /\ Dense[t] > 3
        BY CastAssumption
    <2>4. Abs(h) \in Nat
        BY DEF Small, Abs
    <2>5. QED
        BY <2>2, <2>3, <2>4
<1>2. PICK k \in 0..64 : 2 * Size["int64"] <= 2^k * Dense[t]
    BY CastAssumption
<1>3. k \in Nat /\ 2^k \in Int
    OBVIOUS
<1>4. k \in S
    BY <1>1, <1>2, <1>3 DEF Small
<1>5. S \subseteq Nat
    OBVIOUS
<1>6. PICK r \in S : \A j \in S : r <= j
    BY <1>4, <1>5, Least
<1>7. r \in 0..64 /\ First(r)
    <2>1. ASSUME NEW j \in 0..(r - 1), Within(j) PROVE FALSE
        <3>1. j \in 0..64 /\ j < r
            BY <1>5, <1>6
        <3>2. j \in S
            BY <2>1, <3>1
        <3>3. QED
            BY <1>5, <1>6, <3>1, <3>2
    <2>2. QED
        BY <1>6, <2>1
<1>8. PICK c : c = CHOOSE q \in 0..64 : First(q)
    OBVIOUS
<1>9. Spacing(h, t) = 2^c
    BY <1>8 DEF Spacing
<1> HIDE DEF First
<1>10. c \in 0..64 /\ First(c)
    BY <1>7, <1>8
<1> USE DEF First
<1>11. 2^c \in Int
    BY <1>10
<1>12. PICK u \in Int : u = 2^c
    BY <1>11
<1>13. Abs(h) < u * Dense[t]
    BY <1>10, <1>12
<1>14. u > 0
    <2>1. ASSUME u <= 0 PROVE u * Dense[t] <= 0
        BY <1>1, <2>1
    <2>2. QED
        BY <1>1, <1>13, <2>1
<1>15. ASSUME Abs(h) < Dense[t] PROVE u = 1
    <2>1. Within(0)
        BY <1>1, <1>15
    <2> HIDE DEF Within
    <2>2. c = 0
        <3>1. c > 0 => 0 \in 0..(c - 1)
            BY <1>10
        <3>2. QED
            BY <1>10, <2>1, <3>1
    <2>3. 2^0 = 1
        OBVIOUS
    <2>4. QED
        BY <1>12, <2>2, <2>3
<1>16. QED
    BY <1>9, <1>12, <1>14, <1>15

LEMMA RoundInt ==
    ASSUME NEW t \in Floats, NEW h, Small(h)
    PROVE  /\ Round(h, t) \in Int
           /\ Abs(h) < Dense[t] => Round(h, t) = h
<1>1. PICK u \in Nat \ {0} : u = Spacing(h, t) /\ (Abs(h) < Dense[t] => u = 1)
    BY SpacingFound
<1>2. PICK a \in Nat : a = Abs(h)
    BY DEF Small, Abs
<1>3. a % u \in Int /\ (u = 1 => a % u = 0)
    OBVIOUS
<1>4. PICK down \in Int : down = a - (a % u)
    BY <1>3
<1>5. PICK q \in Int : q = IF (down \div u) % 2 = 0 THEN down ELSE down + u
    OBVIOUS
<1>6. Round(h, t) = IF a % u = 0 THEN h ELSE IF h < 0 THEN -q ELSE q
    BY <1>1, <1>2, <1>4, <1>5 DEF Round
<1>7. QED
    BY <1>1, <1>2, <1>3, <1>6 DEF Small

-----------------------------------------------------------------------------
(* The arguments, and what the handler makes of their texts.                *)

\* The type of the argument for a parameter of type p: the document's clients
\* know fewer of them.
KindOf(p, via) == IF via = "svc" THEN p ELSE ToGoType(SchemaOf(p))

LEMMA Kinds ==
    ASSUME NEW via, NEW p \in Builtin \cup Files \cup Bodies \cup {"ctx"}
    PROVE  /\ p \in Ints => KindOf(p, via) \in Ints
           /\ p \notin Ints /\ p # "map[string]interface{}" => KindOf(p, via) = p
           /\ p = "map[string]interface{}" => KindOf(p, via) \in {p, "map[string]struct{}"}
           /\ via = "svc" => KindOf(p, via) = p
<1>1. ASSUME p \in Ints PROVE KindOf(p, via) \in Ints
    BY <1>1 DEF KindOf, ToGoType, SchemaOf, Ints, Signed, Unsigned
<1>2. ASSUME p \notin Ints, p # "map[string]interface{}" PROVE KindOf(p, via) = p
    <2>1. SchemaOf(p) = p
        BY <1>2 DEF SchemaOf, Ints, Signed, Unsigned
    <2>2. p # "integer/int32" /\ p # "integer/int64"
        BY DEF Builtin, Files, Bodies, Ints, Signed, Unsigned, Floats
    <2>3. ToGoType(p) = p
        BY <1>2, <2>2 DEF ToGoType
    <2>4. QED
        BY <2>1, <2>3 DEF KindOf
<1>3. p = "map[string]interface{}" => KindOf(p, via) \in {p, "map[string]struct{}"}
    BY DEF KindOf, ToGoType, SchemaOf, Ints, Signed, Unsigned
<1>4. via = "svc" => KindOf(p, via) = p
    BY DEF KindOf
<1>5. QED
    BY <1>1, <1>2, <1>3, <1>4

LEMMA IntValues ==
    ASSUME NEW p \in Ints, NEW v \in Values(p)
    PROVE  /\ v.t = p /\ v.form = "" /\ v.elems = << >>
           /\ Small(v.n) /\ Whole(v.n) /\ InRange(v.n, p)
<1>1. v = Num(p, Low(p)) \/ v = Num(p, 2) \/ v = Num(p, High(p))
    BY DEF Values, Ints, Signed, Unsigned, Floats
<1>2. PICK h : v = Num(p, h) /\ h \in {Low(p), 2, High(p)}
    BY <1>1
<1>3. v.t = p /\ v.form = "" /\ v.elems = << >> /\ v.n = h
    BY <1>2 DEF Num
<1>4. PICK s \in Nat : s = Size[p] /\ s > 2 /\ s % 2 = 0 /\ s <= Size["int64"]
    BY CastAssumption
<1>5. Size["int64"] \in Nat
    BY CastAssumption DEF Ints, Signed
<1>6. (Low(p) = -s \/ Low(p) = 0) /\ High(p) = Low(p) + 2 * s - 2
    BY <1>4 DEF Low, High
<1>7. PICK q \in Int : s = 2 * q
    <2>1. s % 2 = 0
        BY <1>4
    <2>2. s = 2 * (s \div 2) /\ s \div 2 \in Int
        BY <2>1
    <2>3. QED
        BY <2>2
<1>8. h \in Int /\ Low(p) <= h /\ h <= High(p)
    BY <1>2, <1>4, <1>6
<1>9. Whole(h)
    <2>1. \E k \in Int : h = 2 * k
        <3>1. -s = 2 * (-q) /\ 2 = 2 * 1 /\ 0 = 2 * 0
            BY <1>7
        <3>2. 2 * s - 2 = 2 * (2 * q - 1) /\ -s + 2 * s - 2 = 2 * (q - 1)
            BY <1>7
        <3>3. /\ -q \in Int /\ 1 \in Int /\ 0 \in Int /\ 2 * q - 1 \in Int /\ q - 1 \in Int
            OBVIOUS
        <3>4. h = -s \/ h = 2 \/ h = 0 \/ h = 2 * s - 2 \/ h = -s + 2 * s - 2
            BY <1>2, <1>4, <1>6
        <3>5. QED
            BY <3>1, <3>2, <3>3, <3>4
    <2>2. PICK k \in Int : h = 2 * k
        BY <2>1
    <2>3. QED
        BY <2>2 DEF Whole
<1>10. Small(h)
    BY <1>4, <1>5, <1>6, <1>8 DEF Small, Abs
<1>11. InRange(h, p)
    <2>1. Low(p) \in Int /\ High(p) \in Int
        BY Sizes
    <2>2. QED
        BY <1>8, <2>1 DEF InRange
<1>12. QED
    BY <1>3, <1>9, <1>10, <1>11

LEMMA SmallNumbers == Small(0) /\ Small(2) /\ Small(3) /\ Small(High("int64"))
<1>1. Size["int64"] \in Nat /\ Size["int64"] > 2 /\ "int64" \in Signed
    BY CastAssumption DEF Ints, Signed
<1>2. QED
    BY <1>1 DEF Small, Abs, High, Low

LEMMA FloatValues ==
    ASSUME NEW p \in Floats, NEW v \in Values(p)
    PROVE  v.t = p /\ v.form = "" /\ v.elems = << >> /\ v.n \in {2, 3} /\ Small(v.n)
<1>1. v = Num(p, 3) \/ v = Num(p, 2)
    BY DEF Values, Ints, Signed, Unsigned, Floats
<1>2. PICK h : v = Num(p, h) /\ h \in {2, 3}
    BY <1>1
<1>3. v.t = p /\ v.form = "" /\ v.elems = << >> /\ v.n = h
    BY <1>2 DEF Num
<1>4. QED
    BY <1>2, <1>3, SmallNumbers

LEMMA BoolValues ==
    ASSUME NEW v \in Values("bool")
    PROVE  v.t = "bool" /\ v.form = "" /\ v.elems = << >> /\ v.n \in {0, 2} /\ Small(v.n)
<1>1. v = Num("bool", 0) \/ v = Num("bool", 2)
    BY DEF Values, Ints, Signed, Unsigned, Floats
<1>2. PICK h : v = Num("bool", h) /\ h \in {0, 2}
    BY <1>1
<1>3. v.t = "bool" /\ v.form = "" /\ v.elems = << >> /\ v.n = h
    BY <1>2 DEF Num
<1>4. QED
    BY <1>2, <1>3, SmallNumbers

\* What a parameter of a string may hold, and what a number is parsed from.
IsText(v) == v.t = "string" /\ v.elems = << >> /\ v.form # "octal" /\ Small(v.n)
IsString(v) == v.t = "string" /\ (v.form = "num" => IsText(v))

LEMMA TextIs == \A f, n : /\ Text(f, n).t = "string" /\ Text(f, n).form = f
                          /\ Text(f, n).n = n /\ Text(f, n).elems = << >>
BY DEF Text

LEMMA JsonIs == \A s : Json(s).t = "string" /\ Json(s).form = "json"
BY DEF Json, Text

LEMMA StringValues ==
    ASSUME NEW v \in Values("string")
    PROVE  IsString(v)
<1>1. PICK h, a, b : /\ h = High("int64") /\ a = <<Num("number", 2), Nil>>
                     /\ b = <<Of("[]interface{}", <<Nil>>)>>
    OBVIOUS
<1>2. v \in {Text("num", h), Text("word", 0), Text("empty", 0), Text("octal", 16),
             Text("based", 2), Json(a), Json(b)}
    BY <1>1 DEF Values, Ints, Signed, Unsigned, Floats
<1>3. CASE v = Text("num", h)
    <2>1. v.t = "string" /\ v.form = "num" /\ v.n = h /\ v.elems = << >> /\ Small(h)
        BY <1>1, <1>3, TextIs, SmallNumbers
    <2>2. QED
        BY <2>1 DEF IsText, IsString
<1>4. CASE v # Text("num", h)
    <2>1. v.t = "string" /\ v.form \in {"word", "empty", "octal", "based", "json"}
        BY <1>2, <1>4, TextIs, JsonIs
    <2>2. QED
        BY <2>1 DEF IsString
<1>5. QED
    BY <1>3, <1>4

\* What is in a list of a type.
Within(p) == CASE p = "[]int" -> "int" [] p = "[]string" -> "string" [] OTHER -> "bool"

LEMMA ListValues ==
    ASSUME NEW p \in {"[]int", "[]string", "[]bool"}, NEW v \in Values(p)
    PROVE  /\ v.t = p /\ v.form = ""
           /\ \A i \in DOMAIN v.elems : v.elems[i] \in Values(Within(p))
<1>1. CASE p = "[]int"
    <2>1. v = Of(p, << >>) \/ v = Of(p, <<Num("int", Low("int")), Num("int", 2)>>)
        BY <1>1 DEF Values, Ints, Signed, Unsigned, Floats
    <2>2. {Num("int", Low("int")), Num("int", 2)} \subseteq Values("int")
        BY DEF Values, Ints, Signed, Unsigned, Floats
    <2>3. PICK a, b : a = Num("int", Low("int")) /\ b = Num("int", 2)
        OBVIOUS
    <2>4. PICK s : v = Of(p, s) /\ (s = << >> \/ s = <<a, b>>)
        BY <2>1, <2>3
    <2>5. v.t = p /\ v.form = "" /\ v.elems = s
        BY <2>4, OfIs
    <2>6. \A i \in DOMAIN s : s[i] \in {a, b}
        BY <2>4
    <2>7. QED
        BY <1>1, <2>2, <2>3, <2>5, <2>6 DEF Within
<1>2. CASE p = "[]string"
    <2>1. v = Of(p, <<Text("word", 0)>>)
        BY <1>2 DEF Values, Ints, Signed, Unsigned, Floats
    <2>2. Text("word", 0) \in Values("string")
        BY DEF Values, Ints, Signed, Unsigned, Floats
    <2>3. PICK a, s : a = Text("word", 0) /\ s = <<a>>
        OBVIOUS
    <2>4. v = Of(p, s)
        BY <2>1, <2>3
    <2>5. v.t = p /\ v.form = "" /\ v.elems = s
        BY <2>4, OfIs
    <2>6. \A i \in DOMAIN s : s[i] = a
        BY <2>3
    <2>7. QED
        BY <1>2, <2>2, <2>3, <2>5, <2>6 DEF Within
<1>3. CASE p = "[]bool"
    <2>1. v = Of(p, <<Num("bool", 2)>>)
        BY <1>3 DEF Values, Ints, Signed, Unsigned, Floats
    <2>2. Num("bool", 2) \in Values("bool")
        BY DEF Values, Ints, Signed, Unsigned, Floats
    <2>3. PICK a, s : a = Num("bool", 2) /\ s = <<a>>
        OBVIOUS
    <2>4. v = Of(p, s)
        BY <2>1, <2>3
    <2>5. v.t = p /\ v.form = "" /\ v.elems = s
        BY <2>4, OfIs
    <2>6. \A i \in DOMAIN s : s[i] = a
        BY <2>3
    <2>7. QED
        BY <1>3, <2>2, <2>3, <2>5, <2>6 DEF Within
<1>4. QED
    BY <1>1, <1>2, <1>3

LEMMA OneInList ==
    ASSUME NEW a, NEW s, s = <<a>>
    PROVE  \A i \in DOMAIN s : s[i] = a
OBVIOUS

LEMMA TwoElements == \A a, b : \A i \in DOMAIN <<a, b>> : <<a, b>>[i] \in {a, b}
<1>1. ASSUME NEW a, NEW b, NEW i \in DOMAIN <<a, b>> PROVE <<a, b>>[i] \in {a, b}
    <2>1. i = 1 \/ i = 2
        OBVIOUS
    <2>2. QED
        BY <2>1
<1>2. QED
    BY <1>1

LEMMA MapValues ==
    ASSUME NEW v \in Values("map[string]interface{}")
    PROVE  /\ v.t = "map[string]interface{}" /\ v.form = ""
           /\ \A i \in DOMAIN v.elems :
                  v.elems[i] \in Values("int64") \cup Values("int") \cup {Nil}
<1>1. PICK p : p = "map[string]interface{}"
    OBVIOUS
<1>2. \/ v = Of(p, <<Num("int64", High("int64"))>>)
      \/ v = Of(p, <<Num("int", 2), Nil>>)
    BY <1>1 DEF Values, Ints, Signed, Unsigned, Floats
<1>3. Num("int64", High("int64")) \in Values("int64") /\ Num("int", 2) \in Values("int")
    BY DEF Values, Ints, Signed, Unsigned, Floats
<1>4. PICK a, b : a = Num("int64", High("int64")) /\ b = Num("int", 2)
    OBVIOUS
<1>5. PICK s : v = Of(p, s) /\ (s = <<a>> \/ s = <<b, Nil>>)
    BY <1>2, <1>4
<1>6. v.t = p /\ v.form = "" /\ v.elems = s
    BY <1>5, OfIs
<1>7. \A i \in DOMAIN s : s[i] \in {a, b, Nil}
    <2>1. CASE s = <<a>>
        BY <2>1, OneInList
    <2>2. CASE s = <<b, Nil>>
        <3>1. PICK c : c = Nil
            OBVIOUS
        <3>2. s = <<b, c>>
            BY <2>2, <3>1
        <3>3. \A i \in DOMAIN s : s[i] \in {b, c}
            BY <3>2, TwoElements
        <3>4. QED
            BY <3>1, <3>3
    <2>3. QED
        BY <1>5, <2>1, <2>2
<1>8. QED
    BY <1>1, <1>3, <1>4, <1>6, <1>7

\* The texts of a form.
LEMMA Texts ==
    ASSUME NEW p \in Builtin \ Lists, NEW v \in Values(p)
    PROVE  /\ IsString(AsText(v)) /\ AsText(v).n = v.n /\ v.t = p
           /\ AsText(v).elems = v.elems
           /\ p # "string" => /\ IsText(AsText(v)) /\ v.elems = << >> /\ v.form = ""
                              /\ Small(v.n)
           /\ p = "string" => AsText(v) = v
           /\ p = "bool" => AsText(v).form = "bool" /\ v.n \in {0, 2}
           /\ p \in Ints \cup Floats => AsText(v).form = "num"
<1>1. CASE p \in Ints \cup Floats
    <2>1. v.t = p /\ v.form = "" /\ v.elems = << >> /\ Small(v.n)
        BY <1>1, IntValues, FloatValues
    <2>2. p # "string" /\ p # "bool"
        BY <1>1 DEF Ints, Signed, Unsigned, Floats
    <2>3. AsText(v) = Text("num", v.n)
        BY <2>1, <2>2 DEF AsText
    <2>4. /\ AsText(v).t = "string" /\ AsText(v).form = "num" /\ AsText(v).n = v.n
          /\ AsText(v).elems = << >>
        BY <2>3, TextIs
    <2>5. QED
        BY <2>1, <2>2, <2>4 DEF IsText, IsString
<1>2. CASE p = "bool"
    <2>1. v.t = p /\ v.form = "" /\ v.elems = << >> /\ Small(v.n) /\ v.n \in {0, 2}
        BY <1>2, BoolValues
    <2>2. AsText(v) = Text("bool", v.n)
        BY <1>2, <2>1 DEF AsText
    <2>3. /\ AsText(v).t = "string" /\ AsText(v).form = "bool" /\ AsText(v).n = v.n
          /\ AsText(v).elems = << >>
        BY <2>2, TextIs
    <2>4. p # "string" /\ p \notin Ints \cup Floats
        BY <1>2 DEF Ints, Signed, Unsigned, Floats
    <2>5. QED
        BY <2>1, <2>3, <2>4 DEF IsText, IsString
<1>3. CASE p = "string"
    <2>1. IsString(v)
        BY <1>3, StringValues
    <2>2. AsText(v) = v
        BY <1>3, <2>1 DEF AsText, IsString
    <2>3. p # "bool" /\ p \notin Ints \cup Floats
        BY <1>3 DEF Ints, Signed, Unsigned, Floats
    <2>4. QED
        BY <1>3, <2>1, <2>2, <2>3 DEF IsString
<1>4. QED
    BY <1>1, <1>2, <1>3 DEF Builtin, Lists

LEMMA ListTexts ==
    ASSUME NEW p \in Builtin \cap Lists, NEW v \in Values(p)
    PROVE  /\ p \in {"[]int", "[]string", "[]bool"} /\ Within(p) \in Builtin \ Lists
           /\ v.t = p /\ v.form = ""
           /\ \A i \in DOMAIN v.elems : v.elems[i] \in Values(Within(p))
           /\ AsForm(v) = Of("[]string", [i \in DOMAIN v.elems |-> AsText(v.elems[i])])
<1>1. p \in {"[]int", "[]string", "[]bool"}
    BY DEF Builtin, Lists, Ints, Signed, Unsigned, Floats
<1>2. Within(p) \in Builtin \ Lists
    BY <1>1 DEF Within, Builtin, Lists, Ints, Signed
<1>3. /\ v.t = p /\ v.form = ""
      /\ \A i \in DOMAIN v.elems : v.elems[i] \in Values(Within(p))
    BY <1>1, ListValues
<1>4. QED
    BY <1>1, <1>2, <1>3 DEF AsForm, Lists

-----------------------------------------------------------------------------
(* What a text becomes: a value whose number the method may convert.        *)
Fine(v) == /\ v.t \in Scalars /\ Numeral(v) => Numbered(v)
           /\ v.t \in Lists \cup Maps =>
                  /\ v.t \notin ListMaps /\ v.form = ""
                  /\ \A i \in DOMAIN v.elems : Numeral(v.elems[i]) => Numbered(v.elems[i])

LEMMA TextFine ==
    ASSUME NEW v, IsString(v), Numeral(v)
    PROVE  Numbered(v)
BY DEF IsString, IsText, Small, Numeral, Numeric, Numbered, Plain, Scalars, Ints, Signed, Unsigned,
       Floats

LEMMA ScalarParses ==
    ASSUME NEW t \in Builtin \ Lists, NEW v, IsString(v), t # "string" => IsText(v),
           NEW r \in CastFunc(t, v), r # Error
    PROVE  Fine(r) /\ (t # "string" => Plain(r) /\ r.t = t /\ r.form = "")
<1>1. t \in Scalars
    BY DEF Builtin, Lists, Scalars
<1>2. CASE t = "string"
    <2>1. r = v
        BY <1>2, ScalarArms DEF IsString, ToStringE, Ints, Signed, Unsigned, Floats
    <2>2. r.t \notin Lists \cup Maps
        BY <2>1, ListMapTypes DEF IsString, Scalars
    <2>3. QED
        BY <1>2, <2>1, <2>2, TextFine DEF Fine
<1>3. CASE t # "string"
    <2>1. v.n \in Int /\ v.t = "string" /\ v.form # "octal"
        BY <1>3 DEF IsText, Small
    <2>2. Yields(v, t, r)
        BY <1>1, <1>3, <2>1, ScalarYields
    <2>3. r.n \in Int
        <3>1. CASE t \in Floats
            <4>1. r = Num(t, Round(v.n, t))
                BY <2>1, <3>1, ScalarArms DEF ToFloat, Digits
            <4>2. Round(v.n, t) \in Int
                BY <1>3, <3>1, RoundInt DEF IsText
            <4>3. QED
                BY <4>1, <4>2 DEF Num
        <3>2. CASE t \notin Floats
            BY <2>2, <3>2 DEF Yields
        <3>3. QED
            BY <3>1, <3>2
    <2>4. Plain(r) /\ Numbered(r) /\ r.t = t /\ r.form = ""
        BY <1>1, <1>3, <2>2, <2>3 DEF Yields, Plain, Numbered
    <2>5. t \notin Lists \cup Maps
        BY <1>1, ListMapTypes
    <2>6. QED
        BY <2>4, <2>5 DEF Fine
<1>4. QED
    BY <1>2, <1>3

\* How a list of texts is converted.
Making(f, r, t, v) ==
    /\ DOMAIN f = DOMAIN v.elems
    /\ \A i \in DOMAIN f : f[i] \in CastFunc(Within(t), v.elems[i])
    /\ \/ r = Error /\ \E i \in DOMAIN f : f[i] = Error
       \/ r = Of(t, f) /\ \A i \in DOMAIN f : f[i] # Error
MadeFrom(r, t, v) == \E f : Making(f, r, t, v)

LEMMA ListCast ==
    ASSUME NEW t \in {"[]int", "[]string", "[]bool"}, NEW v, v.t = "[]string",
           NEW r \in CastFunc(t, v)
    PROVE  \/ t = "[]string" /\ r = v
           \/ t # "[]string" /\ MadeFrom(r, t, v)
<1>1. CASE t = "[]string"
    BY <1>1, ContainerArms DEF ToStringSliceE, Scalars, Ints, Signed, Unsigned, Floats
<1>2. CASE t = "[]int"
    <2>1. r \in AllOf("[]int", ToIntE, v.elems)
        BY <1>2, ContainerArms DEF ToIntSliceE, ListOf, Lists
    <2>2. PICK f \in Each(ToIntE, v.elems) :
              r = IF \E i \in DOMAIN f : f[i] = Error THEN Error ELSE Of("[]int", f)
        BY <2>1 DEF AllOf
    <2>3. DOMAIN f = DOMAIN v.elems /\ \A i \in DOMAIN v.elems : f[i] \in ToIntE(v.elems[i])
        BY <2>2 DEF Each
    <2>4. \A w : CastFunc("int", w) = ToIntE(w)
        BY ScalarArms DEF ToIntE, Signed
    <2>5. Within(t) = "int"
        BY <1>2 DEF Within
    <2>6. QED
        BY <1>2, <2>2, <2>3, <2>4, <2>5 DEF MadeFrom, Making
<1>3. CASE t = "[]bool"
    <2>1. r \in AllOf("[]bool", ToBoolE, v.elems)
        BY <1>3, ContainerArms DEF ToBoolSliceE, ListOf, Lists
    <2>2. PICK f \in Each(ToBoolE, v.elems) :
              r = IF \E i \in DOMAIN f : f[i] = Error THEN Error ELSE Of("[]bool", f)
        BY <2>1 DEF AllOf
    <2>3. DOMAIN f = DOMAIN v.elems /\ \A i \in DOMAIN v.elems : f[i] \in ToBoolE(v.elems[i])
        BY <2>2 DEF Each
    <2>4. \A w : CastFunc("bool", w) = ToBoolE(w)
        BY ScalarArms
    <2>5. Within(t) = "bool"
        BY <1>3 DEF Within
    <2>6. QED
        BY <1>3, <2>2, <2>3, <2>4, <2>5 DEF MadeFrom, Making
<1>4. QED
    BY <1>1, <1>2, <1>3

LEMMA ListParses ==
    ASSUME NEW t \in {"[]int", "[]string", "[]bool"}, NEW v, v.t = "[]string", v.form = "",
           \A i \in DOMAIN v.elems : /\ IsString(v.elems[i])
                                     /\ t # "[]string" => IsText(v.elems[i]),
           NEW r \in CastFunc(t, v), r # Error
    PROVE  Fine(r)
<1>1. CASE r = v
    <2>1. v.t \notin Scalars /\ v.t \notin ListMaps
        BY DEF ListMaps, Scalars, Ints, Signed, Unsigned, Floats
    <2>2. ASSUME NEW i \in DOMAIN v.elems, Numeral(v.elems[i])
          PROVE  Numbered(v.elems[i])
        <3>1. PICK e : e = v.elems[i]
            OBVIOUS
        <3>2. IsString(e)
            BY <3>1
        <3>3. Numeral(e)
            BY <2>2, <3>1
        <3>4. QED
            BY <3>1, <3>2, <3>3, TextFine
    <2>3. QED
        BY <1>1, <2>1, <2>2 DEF Fine
<1>2. CASE r # v
    <2>0. PICK f : Making(f, r, t, v)
        BY <1>2, ListCast DEF MadeFrom
    <2>1. /\ DOMAIN f = DOMAIN v.elems
          /\ \A i \in DOMAIN f : f[i] \in CastFunc(Within(t), v.elems[i]) /\ f[i] # Error
          /\ r = Of(t, f)
        BY <2>0 DEF Making
    <2>2. Within(t) \in Builtin \ Lists
        BY DEF Within, Builtin, Lists, Ints, Signed
    <2>3. t # "[]string"
        BY <1>2, ListCast
    <2>4. Within(t) # "string"
        BY <2>3 DEF Within
    <2>5. ASSUME NEW i \in DOMAIN f PROVE Numbered(f[i])
        <3>1. PICK w \in Builtin \ Lists : w = Within(t)
            BY <2>2
        <3>2. /\ IsString(v.elems[i]) /\ IsText(v.elems[i])
              /\ f[i] \in CastFunc(w, v.elems[i]) /\ f[i] # Error
            BY <2>1, <2>3, <3>1
        <3>3. Plain(f[i]) /\ f[i].t = w
            BY <2>4, <3>1, <3>2, ScalarParses
        <3>4. QED
            BY <2>4, <3>1, <3>3 DEF Numbered
    <2>6. \A i \in DOMAIN f : Numbered(f[i])
        BY <2>5
    <2>7. r.t = t /\ r.form = "" /\ r.elems = f
        BY <2>1, OfIs
    <2>8. t \notin Scalars /\ t \notin ListMaps
        BY DEF ListMaps, Scalars, Ints, Signed, Unsigned, Floats
    <2>9. QED
        BY <2>6, <2>7, <2>8 DEF Fine
<1>3. QED
    BY <1>1, <1>2

-----------------------------------------------------------------------------
(* A value that fits its parameter comes out of its text as it went in.     *)
Same(r, a) == r # Error /\ r.form = a.form /\ Numbers(r) = Numbers(a)

LEMMA ScalarArrives ==
    ASSUME NEW p \in Builtin \ Lists, NEW k, NEW a \in Values(k),
           IF p \in Ints THEN k \in Ints /\ InRange(a.n, p) ELSE k = p,
           NEW r \in CastFunc(p, AsText(a))
    PROVE  Same(r, a) /\ r.n = a.n /\ r.elems = a.elems
<1>1. k \in Builtin \ Lists /\ (p # "string" => k # "string")
    <2>1. CASE p \in Ints
        BY <2>1 DEF Builtin, Lists, Ints, Signed, Unsigned
    <2>2. CASE p \notin Ints
        BY <2>2
    <2>3. QED
        BY <2>1, <2>2
<1>2. CASE p = "string"
    <2>1. k = p
        BY <1>2 DEF Ints, Signed, Unsigned
    <2>2. AsText(a) = a /\ a.t = "string"
        BY <1>1, <1>2, <2>1, Texts
    <2>3. ToStringE(a) = {a}
        BY <2>2 DEF ToStringE, Ints, Signed, Unsigned, Floats
    <2>4. r = a
        BY <1>2, <2>2, <2>3, ScalarArms
    <2>5. a # Error
        BY <2>2, ErrorType
    <2>6. QED
        BY <2>4, <2>5 DEF Same
<1>3. PICK v : v = AsText(a)
    OBVIOUS
<1>4. ASSUME p # "string"
      PROVE  /\ v.t = "string" /\ v.elems = << >> /\ v.n \in Int /\ v.n = a.n
             /\ a.t = k /\ a.elems = << >> /\ a.form = "" /\ Small(a.n)
             /\ v.form # "octal"
    <2>1. /\ IsText(AsText(a)) /\ AsText(a).n = a.n /\ a.t = k /\ a.elems = << >>
          /\ a.form = "" /\ Small(a.n)
        <3>1. k \in Builtin \ Lists /\ k # "string" /\ a \in Values(k)
            BY <1>1, <1>4
        <3>2. AsText(a).n = a.n /\ a.t = k
            BY <3>1, Texts
        <3>3. IsText(AsText(a))
            BY <3>1, Texts
        <3>4. a.elems = << >>
            <4>1. AsText(a).elems = a.elems
                BY <3>1, Texts
            <4>2. QED
                BY <3>3, <4>1 DEF IsText
        <3>5. a.form = ""
            BY <3>1, Texts
        <3>6. Small(a.n)
            BY <3>1, Texts
        <3>7. QED
            BY <3>2, <3>3, <3>4, <3>5, <3>6
    <2>2. IsText(v) /\ v.n = a.n
        BY <1>3, <2>1
    <2>3. QED
        BY <2>1, <2>2 DEF IsText, Small
<1>5. p # "string" => Numbers(a) = <<a.n>>
    <2>1. k \in Scalars
        BY <1>1 DEF Builtin, Lists, Scalars
    <2>2. QED
        BY <1>4, <2>1, ListMapTypes DEF Numbers
<1>6. ASSUME NEW n, n = a.n, r = Num(p, n), p # "string"
      PROVE  Same(r, a) /\ r.n = a.n /\ r.elems = a.elems
    <2>1. r.t = p /\ r.form = "" /\ r.n = n /\ r.elems = << >>
        BY <1>6 DEF Num
    <2>2. p \in Scalars /\ p # "error"
        BY DEF Builtin, Lists, Scalars, Ints, Signed, Unsigned, Floats
    <2>3. Numbers(r) = <<r.n>>
        BY <2>1, <2>2, ListMapTypes DEF Numbers
    <2>4. QED
        BY <1>4, <1>5, <1>6, <2>1, <2>2, <2>3, ErrorType DEF Same
<1>7. CASE p \in Ints
    <2>0. p # "string"
        BY <1>7 DEF Ints, Signed, Unsigned
    <2>1. k \in Ints /\ InRange(a.n, p) /\ Whole(a.n)
        BY <1>7, IntValues
    <2>2. Parses0(v)
        BY <1>1, <1>3, <1>4, <2>0, <2>1, Texts DEF Parses0
    <2>3. v.t \notin Ints /\ v.t \notin Floats /\ v.t \notin {"bool", "nil"}
        BY <1>4, <2>0 DEF Ints, Signed, Unsigned, Floats
    <2>4. CASE p \in Signed
        <3>1. InRange(v.n, "int64")
            BY <1>4, <2>0, <2>1, <2>4, Widest
        <3>2. ToSigned(v, p) = {Num(p, Wrap(v.n, p))}
            BY <1>4, <2>0, <2>1, <2>2, <2>3, <3>1 DEF ToSigned
        <3>3. Wrap(v.n, p) = v.n
            BY <1>4, <1>7, <2>0, <2>1, WrapInRange
        <3>4. r = Num(p, a.n)
            BY <1>3, <1>4, <2>0, <2>4, <3>2, <3>3, ScalarArms
        <3>5. QED
            BY <1>6, <2>0, <3>4
    <2>5. CASE p \in Unsigned
        <3>1. ToUnsigned(v, p) = {Num(p, v.n)}
            BY <1>4, <2>0, <2>1, <2>2, <2>3 DEF ToUnsigned
        <3>2. r = Num(p, a.n)
            BY <1>3, <1>4, <2>0, <2>5, <3>1, ScalarArms
        <3>3. QED
            BY <1>6, <2>0, <3>2
    <2>6. QED
        BY <1>7, <2>4, <2>5 DEF Ints
<1>8. CASE p \in Floats
    <2>0. p # "string"
        BY <1>8 DEF Floats
    <2>1. k = p
        BY <1>8 DEF Ints, Signed, Unsigned, Floats
    <2>2. a.n \in {2, 3} /\ Small(a.n)
        BY <1>8, <2>1, FloatValues
    <2>3. Floating(v)
        BY <1>1, <1>3, <1>4, <1>8, <2>0, <2>1, Texts DEF Floating, ParsesFloat
    <2>4. r = Num(p, Round(v.n, p))
        BY <1>3, <1>4, <1>8, <2>0, <2>3, ScalarArms DEF ToFloat, Digits
    <2>5. Abs(a.n) < Dense[p]
        <3>1. Dense[p] \in Nat /\ Dense[p] > 3
            BY <1>8, CastAssumption
        <3>2. PICK h \in {2, 3} : h = a.n
            BY <2>2
        <3>3. Abs(h) = h
            BY DEF Abs
        <3>4. QED
            BY <3>1, <3>2, <3>3
    <2>6. Round(a.n, p) = a.n
        BY <1>8, <2>2, <2>5, RoundInt
    <2>7. QED
        BY <1>4, <1>6, <2>0, <2>4, <2>6
<1>9. CASE p = "bool"
    <2>1. k = p
        BY <1>9 DEF Ints, Signed, Unsigned
    <2>2. v.form = "bool"
        BY <1>1, <1>3, <1>9, <2>1, Texts
    <2>3. ToBoolE(v) = {Num("bool", v.n)}
        BY <1>4, <1>9, <2>2 DEF ToBoolE
    <2>4. r = Num(p, a.n)
        BY <1>3, <1>4, <1>9, <2>3, ScalarArms
    <2>5. QED
        BY <1>6, <1>9, <2>4
<1>10. QED
    BY <1>2, <1>7, <1>8, <1>9 DEF Builtin, Lists

\* Containers with the same elements, or with elements of the same numbers.
LEMMA SameNumbers ==
    ASSUME NEW v, NEW r, v.t \in Lists \cup Maps, r.t \in Lists \cup Maps,
           DOMAIN r.elems = DOMAIN v.elems,
           \A i \in DOMAIN v.elems : /\ r.elems[i].n = v.elems[i].n
                                     /\ r.elems[i].elems = v.elems[i].elems
    PROVE  Numbers(r) = Numbers(v)
<1>1. Numbers(v) = [i \in DOMAIN v.elems |-> Under(v.elems[i])]
    BY DEF Numbers, Under
<1>2. Numbers(r) = [i \in DOMAIN v.elems |-> Under(r.elems[i])]
    BY DEF Numbers, Under
<1>3. \A i \in DOMAIN v.elems : Under(r.elems[i]) = Under(v.elems[i])
    BY DEF Under
<1>4. QED
    BY <1>1, <1>2, <1>3

LEMMA ListArrives ==
    ASSUME NEW p \in Builtin \cap Lists, NEW a \in Values(p), NEW r \in CastFunc(p, AsForm(a))
    PROVE  Same(r, a)
<1>1. /\ p \in {"[]int", "[]string", "[]bool"} /\ Within(p) \in Builtin \ Lists
      /\ a.t = p /\ a.form = ""
      /\ \A i \in DOMAIN a.elems : a.elems[i] \in Values(Within(p))
      /\ AsForm(a) = Of("[]string", [i \in DOMAIN a.elems |-> AsText(a.elems[i])])
    BY ListTexts
<1>2. PICK w \in Builtin \ Lists : w = Within(p)
    BY <1>1
<1>3. PICK s : s = [i \in DOMAIN a.elems |-> AsText(a.elems[i])]
    OBVIOUS
<1>4. PICK v : v = AsForm(a)
    OBVIOUS
<1>5. v.t = "[]string" /\ v.form = "" /\ v.elems = s
    <2>1. v = Of("[]string", s)
        BY <1>1, <1>3, <1>4
    <2>2. QED
        BY <2>1, OfIs
<1>6. DOMAIN s = DOMAIN a.elems /\ \A i \in DOMAIN s : s[i] = AsText(a.elems[i])
    BY <1>3
<1>9. ASSUME NEW f, DOMAIN f = DOMAIN s, r.elems = f, r.t = p, r.form = "",
             \A i \in DOMAIN f : f[i].n = a.elems[i].n /\ f[i].elems = a.elems[i].elems
      PROVE  Same(r, a)
    <2>1. r.t \in Lists \cup Maps /\ a.t \in Lists \cup Maps
        BY <1>1, <1>9 DEF Lists
    <2>2. Numbers(r) = Numbers(a)
        BY <1>6, <1>9, <2>1, SameNumbers
    <2>3. r # Error
        BY <1>1, <1>9, ErrorType
    <2>4. QED
        BY <1>1, <1>9, <2>2, <2>3 DEF Same
<1>10. CASE p = "[]string" /\ r = v
    <2>1. w = "string"
        BY <1>2, <1>10 DEF Within
    <2>2. ASSUME NEW i \in DOMAIN s
          PROVE  s[i].n = a.elems[i].n /\ s[i].elems = a.elems[i].elems
        <3>1. a.elems[i] \in Values(w)
            BY <1>1, <1>2, <1>6
        <3>2. /\ AsText(a.elems[i]).n = a.elems[i].n
              /\ AsText(a.elems[i]).elems = a.elems[i].elems
            BY <3>1, Texts
        <3>3. QED
            BY <1>6, <3>2
    <2>3. QED
        BY <1>5, <1>9, <1>10, <2>2
<1>11. CASE ~(p = "[]string" /\ r = v)
    <2>1. PICK f : Making(f, r, p, v)
        <3>1. r \in CastFunc(p, v)
            BY <1>4
        <3>2. MadeFrom(r, p, v)
            BY <1>1, <1>5, <1>11, <3>1, ListCast
        <3>3. QED
            BY <3>2 DEF MadeFrom
    <2>2. DOMAIN f = DOMAIN s /\ \A i \in DOMAIN f : f[i] \in CastFunc(w, AsText(a.elems[i]))
        BY <1>2, <1>5, <1>6, <2>1 DEF Making
    <2>3. ASSUME NEW i \in DOMAIN f
          PROVE  f[i] # Error /\ f[i].n = a.elems[i].n /\ f[i].elems = a.elems[i].elems
        <3>1. a.elems[i] \in Values(w)
            BY <1>1, <1>2, <1>6, <2>2
        <3>2. f[i] \in CastFunc(w, AsText(a.elems[i]))
            BY <2>2
        <3>3. w \in Ints => InRange(a.elems[i].n, w)
            BY <3>1, IntValues
        <3>4. /\ Same(f[i], a.elems[i]) /\ f[i].n = a.elems[i].n
              /\ f[i].elems = a.elems[i].elems
            BY <3>1, <3>2, <3>3, ScalarArrives
        <3>5. QED
            BY <3>4 DEF Same
    <2>4. r = Of(p, f)
        BY <2>1, <2>3 DEF Making
    <2>5. r.t = p /\ r.form = "" /\ r.elems = f
        BY <2>4, OfIs
    <2>6. QED
        BY <1>9, <2>2, <2>3, <2>5
<1>12. QED
    BY <1>10, <1>11

-----------------------------------------------------------------------------
(* What the handler parses.                                                 *)

\* The caller has an argument of its type for every parameter.
ArgsMade == /\ DOMAIN call.args = DOMAIN Method.params
            /\ \A i \in DOMAIN Method.params :
                   call.args[i] \in Values(KindOf(Method.params[i], call.via))

LEMMA Targets ==
    ASSUME CallMade
    PROVE  /\ Method \in Methods /\ Target \in Methods
           /\ Target # Method => \A k \in DOMAIN Target.params : Target.params[k] \in Builtin
<1>1. call.api \in Seq(Methods) /\ call.m \in DOMAIN call.api /\ call.api \in Interface
    BY InterfaceAssumption DEF CallMade
<1>2. PICK r : r = Routed(call.api, call.m)
    OBVIOUS
<1>3. r \in DOMAIN call.api
    BY <1>1, <1>2, RoutedFirst
<1>4. Method = call.api[call.m] /\ Target = call.api[r]
    BY <1>2 DEF Method, Target
<1>5. r # call.m => \A k \in DOMAIN call.api[r].params : call.api[r].params[k] \in Builtin
    BY <1>1, <1>3, InterfaceAssumption
<1>6. QED
    BY <1>1, <1>3, <1>4, <1>5

LEMMA Params ==
    ASSUME NEW m \in Methods
    PROVE  DOMAIN m.params = 1..Len(m.params) /\ Len(m.params) \in Nat
<1>1. m.params \in Seq(STRING)
    BY DEF Methods
<1>2. QED
    BY <1>1

LEMMA AbsentText ==
    /\ IsText(Text("empty", 0)) /\ IsString(Text("empty", 0))
    /\ \A f : /\ Of("[]string", f).t = "[]string" /\ Of("[]string", f).form = ""
              /\ Of("[]string", f).elems = f
<1>1. PICK v : v = Text("empty", 0)
    OBVIOUS
<1>2. v.t = "string" /\ v.n = 0 /\ v.elems = << >>
    BY <1>1, TextIs
<1>3. IsText(v) /\ IsString(v)
    <2>1. v.form = "empty"
        BY <1>1, TextIs
    <2>2. QED
        BY <1>2, <2>1, SmallNumbers DEF IsText, IsString
<1>4. QED
    BY <1>1, <1>3, OfIs

LEMMA NumIs == \A t, n : /\ Num(t, n).t = t /\ Num(t, n).form = ""
                         /\ Num(t, n).n = n /\ Num(t, n).elems = << >>
BY DEF Num

LEMMA ReadText ==
    ASSUME CallMade, ArgsMade, at \in DOMAIN Target.params, Param \in Builtin, NEW f
    PROVE  /\ Param \notin Lists => /\ IsString(Read(f))
                                    /\ Param # "string" => IsText(Read(f))
           /\ Param \in Lists => /\ Read(f).t = "[]string" /\ Read(f).form = ""
                                 /\ \A i \in DOMAIN Read(f).elems :
                                        /\ IsString(Read(f).elems[i])
                                        /\ Param # "[]string" => IsText(Read(f).elems[i])
<1>1. CASE Read(f) = Absent
    <2>1. CASE Param \in Lists
        <3>1. PICK s : s = << >>
            OBVIOUS
        <3>2. Read(f) = Of("[]string", s)
            BY <1>1, <2>1, <3>1 DEF Absent
        <3>3. Read(f).t = "[]string" /\ Read(f).form = "" /\ Read(f).elems = s
            BY <3>2, AbsentText
        <3>4. DOMAIN s = {}
            BY <3>1
        <3>5. QED
            BY <2>1, <3>3, <3>4
    <2>2. CASE Param \notin Lists
        BY <1>1, <2>2, AbsentText DEF Absent
    <2>3. QED
        BY <2>1, <2>2
<1>2. CASE Read(f) # Absent
    <2>1. PICK a, k : a = call.args[at] /\ k = KindOf(Param, call.via)
        OBVIOUS
    <2>2. Target = Method /\ Read(f) = AsForm(a)
        BY <1>2, <2>1 DEF Read
    <2>3. a \in Values(k)
        BY <2>1, <2>2 DEF ArgsMade, Param
    <2>4. IF Param \in Ints THEN k \in Ints ELSE k = Param
        <3>1. Param # "map[string]interface{}"
            BY DEF Builtin, Ints, Signed, Unsigned, Floats
        <3>2. QED
            BY <2>1, <3>1, Kinds
    <2>5. CASE Param \in Lists
        <3>1. k = Param
            BY <2>4, <2>5 DEF Ints, Signed, Unsigned, Lists
        <3>2. PICK p \in Builtin \cap Lists : p = Param
            BY <2>5
        <3>3. a \in Values(p)
            BY <2>3, <3>1, <3>2
        <3>4. /\ Within(p) \in Builtin \ Lists
              /\ \A i \in DOMAIN a.elems : a.elems[i] \in Values(Within(p))
              /\ AsForm(a) = Of("[]string", [i \in DOMAIN a.elems |-> AsText(a.elems[i])])
            BY <3>3, ListTexts
        <3>5. PICK s : s = [i \in DOMAIN a.elems |-> AsText(a.elems[i])]
            OBVIOUS
        <3>6. Read(f) = Of("[]string", s)
            BY <2>2, <3>4, <3>5
        <3>7. Read(f).t = "[]string" /\ Read(f).form = "" /\ Read(f).elems = s
            BY <3>6, AbsentText
        <3>8. Within(p) = "string" => p = "[]string"
            BY <3>4 DEF Within, Lists, Builtin
        <3>9. ASSUME NEW i \in DOMAIN s
              PROVE  IsString(s[i]) /\ (p # "[]string" => IsText(s[i]))
            <4>1. PICK w \in Builtin \ Lists : w = Within(p)
                BY <3>4
            <4>2. s[i] = AsText(a.elems[i]) /\ a.elems[i] \in Values(w)
                BY <3>4, <3>5, <4>1
            <4>3. IsString(AsText(a.elems[i])) /\ (w # "string" => IsText(AsText(a.elems[i])))
                BY <4>2, Texts
            <4>4. QED
                BY <3>8, <4>1, <4>2, <4>3
        <3>10. QED
            BY <2>5, <3>2, <3>7, <3>9
    <2>6. CASE Param \notin Lists
        <3>1. k \in Builtin \ Lists
            BY <2>4, <2>6 DEF Builtin, Lists, Ints, Signed, Unsigned
        <3>2. IsString(AsText(a)) /\ (k # "string" => IsText(AsText(a))) /\ a.t = k
            BY <2>3, <3>1, Texts
        <3>3. AsForm(a) = AsText(a)
            BY <3>1, <3>2 DEF AsForm
        <3>4. k = "string" => Param = "string"
            BY <2>4 DEF Ints, Signed, Unsigned
        <3>5. QED
            BY <2>2, <2>6, <3>2, <3>3, <3>4
    <2>7. QED
        BY <2>5, <2>6
<1>3. QED
    BY <1>1, <1>2

(* The JSON of a map, whose numbers are all floats. *)
LEMMA DecodedMap ==
    ASSUME NEW v \in Values("map[string]interface{}")
    PROVE  /\ Fine(Decoded(v))
           /\ (\A k \in DOMAIN v.elems : Fits(v.elems[k].n, "float64")) =>
                  Decoded(v).form = v.form /\ Numbers(Decoded(v)) = Numbers(v)
<1> DEFINE In(e) == CASE e.t \in Ints -> Num("float64", Round(e.n, "float64"))
                      [] e.t = "struct" -> Of("map[string]interface{}", << >>)
                      [] OTHER -> e
<1>1. /\ v.t = "map[string]interface{}" /\ v.form = ""
      /\ \A i \in DOMAIN v.elems : v.elems[i] \in Values("int64") \cup Values("int") \cup {Nil}
    BY MapValues
<1>2. PICK s : s = [i \in DOMAIN v.elems |-> In(v.elems[i])]
    OBVIOUS
<1>3. Decoded(v) = Of("map[string]interface{}", s)
    BY <1>1, <1>2 DEF Decoded
<1>4. PICK r : r = Decoded(v)
    OBVIOUS
<1>5. r.t = "map[string]interface{}" /\ r.form = "" /\ r.elems = s
    <2>1. r = Of("map[string]interface{}", s)
        BY <1>1, <1>3, <1>4
    <2>2. QED
        BY <2>1, OfIs
<1>6. DOMAIN s = DOMAIN v.elems /\ \A i \in DOMAIN s : s[i] = In(v.elems[i])
    BY <1>2
<1>7. \A e \in Values("int64") \cup Values("int") \cup {Nil} :
          /\ Numeral(In(e)) => Numbered(In(e))
          /\ e.elems = << >> /\ In(e).elems = << >>
          /\ Fits(e.n, "float64") => In(e).n = e.n
    <2>1. SUFFICES ASSUME NEW e \in Values("int64") \cup Values("int") \cup {Nil}
                   PROVE  /\ Numeral(In(e)) => Numbered(In(e))
                          /\ e.elems = << >> /\ In(e).elems = << >>
                          /\ Fits(e.n, "float64") => In(e).n = e.n
        OBVIOUS
    <2>2. CASE e = Nil
        <3>1. e.t = "nil" /\ e.elems = << >>
            BY <2>2 DEF Nil, Num
        <3>2. In(e) = e
            BY <3>1 DEF Ints, Signed, Unsigned
        <3>3. ~Numeral(e)
            BY <3>1 DEF Numeral, Numeric, Ints, Signed, Unsigned, Floats
        <3>4. QED
            BY <3>1, <3>2, <3>3
    <2>3. CASE e \in Values("int64") \cup Values("int")
        <3>1. e.t \in Ints /\ e.elems = << >> /\ Small(e.n)
            BY <2>3, IntValues DEF Ints, Signed
        <3>2. PICK h : h = Round(e.n, "float64")
            OBVIOUS
        <3>3. h \in Int
            BY <3>1, <3>2, RoundInt DEF Floats
        <3>4. In(e) = Num("float64", h)
            BY <3>1, <3>2 DEF Ints, Signed, Unsigned
        <3>5. PICK q : q = In(e)
            OBVIOUS
        <3>6. q.t = "float64" /\ q.form = "" /\ q.elems = << >> /\ q.n = h
            <4>1. q = Num("float64", h)
                BY <3>4, <3>5
            <4>2. QED
                BY <4>1, NumIs
        <3>7. Numbered(q)
            BY <3>3, <3>6 DEF Numbered, Plain, Scalars, Floats
        <3>8. Fits(e.n, "float64") => h = e.n
            BY <3>2 DEF Fits, Ints, Signed, Unsigned, Floats
        <3>9. QED
            BY <3>1, <3>5, <3>6, <3>7, <3>8
    <2>4. QED
        BY <2>2, <2>3
<1> HIDE DEF In
<1>8. Fine(r)
    <2>1. \A i \in DOMAIN s : Numeral(s[i]) => Numbered(s[i])
        BY <1>1, <1>6, <1>7
    <2>2. r.t \notin Scalars /\ r.t \notin ListMaps
        BY <1>5 DEF ListMaps, Scalars, Ints, Signed, Unsigned, Floats
    <2>3. QED
        BY <1>5, <2>1, <2>2 DEF Fine
<1>9. ASSUME \A k \in DOMAIN v.elems : Fits(v.elems[k].n, "float64")
      PROVE  Numbers(r) = Numbers(v)
    <2>1. ASSUME NEW i \in DOMAIN s
          PROVE  s[i].elems = << >> /\ v.elems[i].elems = << >> /\ s[i].n = v.elems[i].n
        <3>1. PICK e : e = v.elems[i]
            OBVIOUS
        <3>2. e \in Values("int64") \cup Values("int") \cup {Nil} /\ s[i] = In(e)
            BY <1>1, <1>6, <3>1
        <3>3. Fits(e.n, "float64")
            BY <1>6, <1>9, <3>1
        <3>4. QED
            BY <1>7, <3>1, <3>2, <3>3
    <2>2. v.t \in Lists \cup Maps /\ r.t \in Lists \cup Maps
        BY <1>1, <1>5 DEF Maps, StringMaps
    <2>3. Numbers(v) = [i \in DOMAIN v.elems |-> v.elems[i].n]
        BY <1>6, <2>1, <2>2, FlatNumbers
    <2>4. Numbers(r) = [i \in DOMAIN s |-> s[i].n]
        BY <1>5, <2>1, <2>2, FlatNumbers
    <2>5. QED
        BY <1>6, <2>1, <2>3, <2>4
<1>10. QED
    BY <1>1, <1>4, <1>5, <1>8, <1>9

\* The structs without fields of a client generated from the document.
LEMMA DecodedStructs ==
    ASSUME NEW v \in Values("map[string]struct{}")
    PROVE  Fine(Decoded(v))
<1>1. PICK e : e = Num("struct", 0)
    OBVIOUS
<1>2. PICK w : w = <<e>>
    OBVIOUS
<1>3. v = Of("map[string]struct{}", w)
    BY <1>1, <1>2 DEF Values, Ints, Signed, Unsigned, Floats
<1>4. v.t = "map[string]struct{}" /\ v.elems = w /\ e.t = "struct"
    BY <1>1, <1>3, OfIs, NumIs
<1>5. PICK empty : empty = Of("map[string]interface{}", << >>)
    OBVIOUS
<1>6. PICK s : s = [i \in DOMAIN w |-> empty]
    OBVIOUS
<1>7. \A i \in DOMAIN w : w[i].t = "struct"
    <2>1. \A i \in DOMAIN w : w[i] = e
        BY <1>2, OneInList
    <2>2. QED
        BY <1>4, <2>1
<1>8. PICK r : r = Decoded(v)
    OBVIOUS
<1>9. r = Of("map[string]interface{}", s)
    <2> DEFINE In(x) == CASE x.t \in Ints -> Num("float64", Round(x.n, "float64"))
                          [] x.t = "struct" -> Of("map[string]interface{}", << >>)
                          [] OTHER -> x
    <2>1. Decoded(v) = Of("map[string]interface{}", [i \in DOMAIN v.elems |-> In(v.elems[i])])
        BY <1>4 DEF Decoded
    <2>2. \A i \in DOMAIN w : In(w[i]) = empty
        BY <1>5, <1>7 DEF Ints, Signed, Unsigned
    <2> HIDE DEF In
    <2>3. [i \in DOMAIN v.elems |-> In(v.elems[i])] = s
        BY <1>4, <1>6, <2>2
    <2>4. QED
        BY <1>8, <2>1, <2>3
<1>10. r.t = "map[string]interface{}" /\ r.form = "" /\ r.elems = s
    BY <1>9, OfIs
<1>11. \A i \in DOMAIN s : ~Numeral(s[i])
    <2>1. empty.t = "map[string]interface{}"
        BY <1>5, OfIs
    <2>2. ~Numeral(empty)
        BY <2>1 DEF Numeral, Numeric, Ints, Signed, Unsigned, Floats
    <2>3. QED
        BY <1>6, <2>2
<1>12. r.t \notin Scalars /\ r.t \notin ListMaps
    BY <1>10 DEF ListMaps, Scalars, Ints, Signed, Unsigned, Floats
<1>13. QED
    BY <1>8, <1>10, <1>11, <1>12 DEF Fine

\* The values of the other parameters have one number, and no use.
LEMMA PlainValues ==
    /\ \A v \in Values("vo") : v.t = "vo" /\ v.form = "" /\ Decoded(v) = v
    /\ \A v \in Values("ctx") : v = Num("ctx", 0)
    /\ \A v \in Values("file") : v.t = "file"
    /\ \A v \in Values("files") : v.t = "files"
<1>1. ASSUME NEW v \in Values("vo") PROVE v.t = "vo" /\ v.form = "" /\ Decoded(v) = v
    <2>1. v = Num("vo", 0)
        BY DEF Values, Ints, Signed, Unsigned, Floats
    <2>2. v.t = "vo" /\ v.form = ""
        BY <2>1 DEF Num
    <2>3. QED
        BY <2>2 DEF Decoded
<1>2. ASSUME NEW v \in Values("ctx") PROVE v = Num("ctx", 0)
    BY DEF Values, Ints, Signed, Unsigned, Floats
<1>3. ASSUME NEW v \in Values("file") PROVE v.t = "file"
    <2>1. v = Num("file", 0)
        BY DEF Values, Ints, Signed, Unsigned, Floats
    <2>2. QED
        BY <2>1 DEF Num
<1>4. ASSUME NEW v \in Values("files") PROVE v.t = "files"
    <2>1. PICK s : v = Of("files", s)
        BY DEF Values, Ints, Signed, Unsigned, Floats
    <2>2. QED
        BY <2>1, OfIs
<1>5. QED
    BY <1>1, <1>2, <1>3, <1>4

LEMMA Useless ==
    ASSUME NEW v, v.t \in {"vo", "ctx", "file", "files"}
    PROVE  Fine(v)
BY DEF Fine, Scalars, Ints, Signed, Unsigned, Floats, Lists, Maps, StringMaps, KeyedByAny

(* Whatever a parameter is parsed to, a conversion of it is sound. *)
LEMMA ParsesFine ==
    ASSUME CallMade, ArgsMade, at \in Nat \ {0}, Parse
    PROVE  got' = got \/ \E v : Fine(v) /\ got' = Append(got, v)
<1>1. at \in DOMAIN Target.params
    <2>1. DOMAIN Target.params = 1..Len(Target.params) /\ Len(Target.params) \in Nat
        BY Targets, Params
    <2>2. QED
        BY <2>1 DEF Parse
<1>2. ParseFile \/ ParseCtx \/ ParseBody \/ ParseList \/ ParseValue
    BY DEF Parse
<1>3. Param \notin Builtin => Target = Method
    BY <1>1, Targets DEF Param
<1>4. /\ \A v : Parsed(v) => got' = Append(got, v)
      /\ Refuse => got' = got
    BY DEF Parsed, Refuse
<1>5. PICK a, k : a = call.args[at] /\ k = KindOf(Param, call.via)
    OBVIOUS
<1>6. Target = Method => a \in Values(k)
    BY <1>1, <1>5 DEF ArgsMade, Param
<1>7. CASE ParseFile
    <2>1. Param \in Files
        BY <1>7 DEF ParseFile
    <2>2. Param \notin Builtin
        BY <2>1 DEF Files, Builtin, Ints, Signed, Unsigned, Floats
    <2>3. k = Param
        <3>1. Param \notin Ints /\ Param # "map[string]interface{}"
            BY <2>1, <2>2 DEF Files, Builtin
        <3>2. QED
            BY <1>5, <2>1, <3>1, Kinds
    <2>4. a \in Values("file") \/ a \in Values("files")
        BY <1>3, <1>6, <2>1, <2>2, <2>3 DEF Files
    <2>5. Fine(a)
        <3>1. a.t \in {"file", "files"}
            BY <2>4, PlainValues
        <3>2. QED
            BY <3>1, Useless
    <2>6. Parsed(call.args[at]) \/ Refuse
        BY <1>7 DEF ParseFile
    <2>7. Parsed(a) \/ Refuse
        BY <1>5, <2>6
    <2>8. QED
        BY <1>4, <2>5, <2>7
<1>8. CASE ParseCtx
    <2>1. Parsed(Num("ctx", 0))
        BY <1>8 DEF ParseCtx
    <2>2. PICK c : c = Num("ctx", 0)
        OBVIOUS
    <2>3. Fine(c)
        <3>1. c.t = "ctx"
            BY <2>2, NumIs
        <3>2. QED
            BY <3>1, Useless
    <2>4. QED
        BY <1>4, <2>1, <2>2, <2>3
<1>9. CASE ParseBody
    <2>1. Param \in Bodies
        BY <1>9 DEF ParseBody
    <2>2. Param \notin Builtin
        BY <2>1 DEF Bodies, Builtin, Ints, Signed, Unsigned, Floats
    <2>3. k \in {"vo", "map[string]interface{}", "map[string]struct{}"}
        <3>1. Param \notin Ints
            BY <2>2 DEF Builtin
        <3>2. QED
            BY <1>5, <2>1, <3>1, Kinds DEF Bodies
    <2>4. a \in Values("vo") \/ a \in Values("map[string]interface{}")
          \/ a \in Values("map[string]struct{}")
        BY <1>3, <1>6, <2>2, <2>3
    <2>5. Fine(Decoded(a))
        <3>1. CASE a \in Values("vo")
            <4>1. a.t = "vo" /\ Decoded(a) = a
                BY <3>1, PlainValues
            <4>2. Fine(a)
                BY <4>1, Useless
            <4>3. QED
                BY <4>1, <4>2
        <3>2. CASE a \in Values("map[string]interface{}")
            BY <3>2, DecodedMap
        <3>3. CASE a \in Values("map[string]struct{}")
            BY <3>3, DecodedStructs
        <3>4. QED
            BY <2>4, <3>1, <3>2, <3>3
    <2>6. Parsed(Decoded(call.args[at])) \/ Refuse
        BY <1>9 DEF ParseBody
    <2>7. PICK d : d = Decoded(a)
        OBVIOUS
    <2>8. Parsed(d) \/ Refuse
        BY <1>5, <2>6, <2>7
    <2>9. QED
        BY <1>4, <2>5, <2>7, <2>8
<1>10. CASE ParseList
    <2>1. Param \in Builtin /\ Param \in Lists
        BY <1>10 DEF ParseList
    <2>2. PICK f, t, w : f = form' /\ t = Param /\ w = Read(f)
        OBVIOUS
    <2>3. \E v \in CastFunc(t, w) : IF v = Error THEN Refuse ELSE Parsed(v)
        BY <1>10, <2>2 DEF ParseList
    <2>4. PICK v \in CastFunc(t, w) : IF v = Error THEN Refuse ELSE Parsed(v)
        BY <2>3
    <2>5. /\ w.t = "[]string" /\ w.form = ""
          /\ \A i \in DOMAIN w.elems : /\ IsString(w.elems[i])
                                       /\ t # "[]string" => IsText(w.elems[i])
        BY <1>1, <2>1, <2>2, ReadText
    <2>6. t \in {"[]int", "[]string", "[]bool"}
        BY <2>1, <2>2 DEF Builtin, Lists, Ints, Signed, Unsigned, Floats
    <2>7. v # Error => Fine(v)
        BY <2>5, <2>6, ListParses
    <2>8. QED
        BY <1>4, <2>4, <2>7
<1>11. CASE ParseValue
    <2>1. Param \in Builtin /\ Param \notin Lists
        BY <1>11 DEF ParseValue
    <2>2. PICK f, t, w : f = form' /\ t = Param /\ w = Read(f)
        OBVIOUS
    <2>3. \E v \in CastFunc(t, w) : IF v = Error THEN Refuse ELSE Parsed(v)
        BY <1>11, <2>2 DEF ParseValue
    <2>4. PICK v \in CastFunc(t, w) : IF v = Error THEN Refuse ELSE Parsed(v)
        BY <2>3
    <2>5. IsString(w) /\ (t # "string" => IsText(w))
        BY <1>1, <2>1, <2>2, ReadText
    <2>6. t \in Builtin \ Lists
        BY <2>1, <2>2
    <2>7. v # Error => Fine(v)
        BY <2>5, <2>6, ScalarParses
    <2>8. QED
        BY <1>4, <2>4, <2>7
<1>12. QED
    BY <1>2, <1>7, <1>8, <1>9, <1>10, <1>11

-----------------------------------------------------------------------------
(* The parameters parsed, as a sequence that grows.                         *)
IsSeq(s) == \E T : s \in Seq(T)

LEMMA AppendIs ==
    ASSUME NEW s, IsSeq(s), NEW v
    PROVE  /\ IsSeq(Append(s, v)) /\ Len(s) \in Nat /\ DOMAIN s = 1..Len(s)
           /\ Len(Append(s, v)) = Len(s) + 1
           /\ DOMAIN Append(s, v) = 1..(Len(s) + 1)
           /\ \A i \in DOMAIN s : Append(s, v)[i] = s[i]
           /\ Append(s, v)[Len(s) + 1] = v
<1>1. PICK R : s \in Seq(R)
    BY DEF IsSeq
<1>2. PICK T : T = R \cup {v}
    OBVIOUS
<1>3. s \in Seq(T)
    <2>1. \A i \in DOMAIN s : s[i] \in R
        BY <1>1
    <2>2. s \in [1..Len(s) -> T] /\ Len(s) \in Nat
        BY <1>1, <1>2, <2>1
    <2>3. QED
        BY <1>1, <1>2
<1>4. v \in T
    BY <1>2
<1>5. Append(s, v) \in Seq(T)
    BY <1>3, <1>4
<1>6. IsSeq(Append(s, v))
    BY <1>5 DEF IsSeq
<1>7. QED
    BY <1>1, <1>3, <1>4, <1>6

(* The inductive invariant of the arguments, in named parts.                *)

\* Nothing is parsed before the request is sent.
Begun == /\ ArgsMade /\ at \in Nat \ {0} /\ IsSeq(got) /\ form \in {"none", "url", "multi"}
         /\ client \in {"select", "open"} => server = "none"
         /\ server = "none" => at = 1 /\ form = "none" /\ got = << >>

\* What is parsed is sound to convert, and what the method holds of it, if
\* every type on the way could hold it, has the same numbers.
Held == /\ \A i \in DOMAIN got : Fine(got[i])
        /\ server \in {"none", "parse"} => ~exact
        /\ server \in {"none", "parse", "method"} => held # Panic
        /\ exact /\ held \notin {Nil, Error, Panic} =>
               Exactly(held) /\ Numbers(held) = Numbers(got[1])

CInv == CallMade /\ Begun /\ Held

LEMMA EmptySeq == IsSeq(<< >>) /\ Len(<< >>) = 0 /\ DOMAIN << >> = {}
<1>1. << >> \in Seq({})
    OBVIOUS
<1>2. QED
    BY <1>1 DEF IsSeq

(* The steps before and after the method keep it. *)
LEMMA ClientCInv ==
    ASSUME CInv, Select \/ Send \/ Lose \/ Replay \/ Receive
    PROVE  CInv'
<1>1. call' = call /\ Method' = Method
    BY DEF Select, Send, Lose, Replay, Receive, Method
<1>2. CallMade' /\ ArgsMade'
    BY <1>1 DEF CInv, Begun, CallMade, ArgsMade
<1>3. CASE Replay
    <2>1. /\ at' = 1 /\ form' = "none" /\ got' = << >> /\ server' = "parse"
          /\ client = "wait" /\ client' = client
        BY <1>3 DEF Replay
    <2>2. ~exact' /\ held' # Panic
        <3>1. ~exact' /\ held' = Nil
            BY <1>3, Zenon DEF Replay
        <3>2. QED
            BY <3>1, ErrorType
    <2>3. Begun'
        BY <1>2, <2>1, EmptySeq DEF Begun
    <2>4. Held'
        BY <2>1, <2>2, EmptySeq DEF Held
    <2>5. QED
        BY <1>2, <2>3, <2>4 DEF CInv
<1>4. CASE Select \/ Send \/ Lose \/ Receive
    <2>1. UNCHANGED <<at, form, got, held, exact>>
        BY <1>4 DEF Select, Send, Lose, Receive, casting
    <2>2. /\ server' # server => server' \in {"parse", "gone"}
          /\ client' \in {"open", "wait", "done"}
          /\ client' = "open" => client = "select" /\ server' = server
          /\ server' = "parse" /\ server # "parse" => client = "open"
        BY <1>4 DEF Select, Send, Lose, Receive, Ends
    <2>3. Begun'
        BY <1>2, <2>1, <2>2 DEF CInv, Begun
    <2>4. ASSUME server' \in {"none", "parse"} PROVE ~exact
        BY <2>2, <2>4 DEF CInv, Begun, Held
    <2>5. ASSUME server' \in {"none", "parse", "method"} PROVE held' # Panic
        BY <2>1, <2>2, <2>5 DEF CInv, Begun, Held
    <2>6. Held'
        BY <2>1, <2>4, <2>5 DEF CInv, Held
    <2>7. QED
        BY <1>2, <2>3, <2>6 DEF CInv
<1>5. QED
    BY <1>3, <1>4

LEMMA ParseForm ==
    ASSUME form \in {"none", "url", "multi"}, Parse
    PROVE  form' \in {"none", "url", "multi"}
BY DEF Parse, ParseFile, ParseCtx, ParseBody, ParseList, ParseValue, CurrentForm

LEMMA ParseCInv ==
    ASSUME CInv, Parse
    PROVE  CInv'
<1>1. /\ UNCHANGED <<call, client, held, exact>> /\ Method' = Method
      /\ server = "parse" /\ server' \in {"parse", "answered"} /\ at' \in {at, at + 1}
    BY ParseEffect DEF Parse, casting, Method
<1>2. CallMade' /\ ArgsMade'
    BY <1>1 DEF CInv, Begun, CallMade, ArgsMade
<1>3. got' = got \/ \E v : Fine(v) /\ got' = Append(got, v)
    BY ParsesFine DEF CInv, Begun
<1>4. IsSeq(got') /\ \A i \in DOMAIN got' : Fine(got'[i])
    <2>1. CASE got' = got
        BY <2>1 DEF CInv, Begun, Held
    <2>2. CASE \E v : Fine(v) /\ got' = Append(got, v)
        <3>1. PICK v : Fine(v) /\ got' = Append(got, v)
            BY <2>2
        <3>2. PICK s : s = got
            OBVIOUS
        <3>3. PICK r : r = got'
            OBVIOUS
        <3>4. IsSeq(s) /\ r = Append(s, v) /\ \A i \in DOMAIN s : Fine(s[i])
            BY <3>1, <3>2, <3>3 DEF CInv, Begun, Held
        <3>5. /\ IsSeq(r) /\ DOMAIN s = 1..Len(s) /\ DOMAIN r = 1..(Len(s) + 1)
              /\ Len(s) \in Nat /\ \A i \in DOMAIN s : r[i] = s[i]
              /\ r[Len(s) + 1] = v
            BY <3>4, AppendIs
        <3>6. ASSUME NEW i \in DOMAIN r PROVE Fine(r[i])
            <4>1. i \in DOMAIN s \/ i = Len(s) + 1
                BY <3>5
            <4>2. CASE i \in DOMAIN s
                BY <3>4, <3>5, <4>2
            <4>3. CASE i = Len(s) + 1
                BY <3>1, <3>5, <4>3
            <4>4. QED
                BY <4>1, <4>2, <4>3
        <3>7. QED
            BY <3>3, <3>5, <3>6
    <2>3. QED
        BY <1>3, <2>1, <2>2
<1>5. Begun'
    <2>1. client \notin {"select", "open"}
        BY <1>1 DEF CInv, Begun
    <2>2. at' \in Nat \ {0}
        BY <1>1 DEF CInv, Begun
    <2>3. QED
        BY <1>1, <1>2, <1>4, <2>1, <2>2, ParseForm DEF CInv, Begun
<1>6. Held'
    <2>1. ~exact
        BY <1>1 DEF CInv, Held
    <2>2. QED
        BY <1>1, <1>4, <2>1 DEF CInv, Held
<1>7. QED
    BY <1>2, <1>5, <1>6 DEF CInv

\* What the method takes over is sound to convert if it is a number, or is made
\* of numbers.
LEMMA TakesOver ==
    ASSUME NEW v, Fine(v), v.t \in CastTypes,
           \/ Numeral(v)
           \/ v.t \in Lists \cup Maps /\ \A i \in DOMAIN v.elems : Numeral(v.elems[i])
    PROVE  Exactly(v)
<1>1. CASE v.t \in Lists \cup Maps
    <2>1. ~Numeral(v)
        BY <1>1, ListMapTypes DEF Numeral, Numeric, Scalars, Ints, Floats
    <2>2. QED
        BY <1>1, <2>1 DEF Fine, Exactly, Filled
<1>2. CASE v.t \notin Lists \cup Maps
    <2>1. v.t \in Scalars
        BY <1>2 DEF CastTypes, Maps
    <2>2. QED
        BY <1>2, <2>1 DEF Fine, Exactly
<1>3. QED
    BY <1>1, <1>2

\* Under a key of a map a number is still one.
LEMMA PackedKeeps ==
    ASSUME NEW v, Numbered(v), Numeral(v), NEW r \in Packed(v)
    PROVE  Keeps(v, r)
<1>1. v.t \in Scalars /\ v.t # "[]string" /\ v.elems = << >>
    BY DEF Numbered, Plain, Scalars, Ints, Signed, Unsigned, Floats
<1>2. Numbers(v) = <<v.n>>
    BY NumberOfScalar DEF Numbered
<1>3. ASSUME NEW t \in Maps, t \notin ListMaps, r = Of(t, <<v>>)
      PROVE  Keeps(v, r)
    <2>1. PICK s : s = <<v>>
        OBVIOUS
    <2>2. r.t = t /\ r.form = "" /\ r.elems = s
        BY <1>3, <2>1, OfIs
    <2>3. \A i \in DOMAIN s : s[i] = v
        BY <2>1, OneInList
    <2>4. Filled(r)
        BY <1>3, <2>2, <2>3 DEF Filled
    <2>5. Numbers(r) = [i \in DOMAIN s |-> s[i].n]
        BY <2>2, <2>4, FilledNumbers
    <2>6. [i \in DOMAIN s |-> s[i].n] = <<v.n>>
        <3>1. DOMAIN s = 1..1
            BY <2>1, OneElement
        <3>2. [i \in DOMAIN s |-> s[i].n] = [i \in 1..1 |-> v.n]
            BY <2>3, <3>1
        <3>3. [i \in 1..1 |-> v.n] = <<v.n>>
            OBVIOUS
        <3>4. QED
            BY <3>2, <3>3
    <2>7. QED
        BY <1>2, <2>4, <2>5, <2>6 DEF Keeps, Exactly
<1>4. ASSUME NEW t \in ListMaps, r = Of(t, <<Of("[]interface{}", <<v>>)>>)
      PROVE  Keeps(v, r)
    <2>1. PICK u : u = <<v>>
        OBVIOUS
    <2>2. PICK e : e = Of("[]interface{}", u)
        OBVIOUS
    <2>3. e.t = "[]interface{}" /\ e.form = "" /\ e.elems = u
        BY <2>2, OfIs
    <2>4. PICK s : s = <<e>>
        OBVIOUS
    <2>5. r.t = t /\ r.form = "" /\ r.elems = s
        BY <1>4, <2>1, <2>2, <2>4, OfIs
    <2>6. DOMAIN s = 1..1 /\ \A i \in DOMAIN s : s[i] = e
        BY <2>4, OneInList, OneElement
    <2>7. Group(e)
        BY <2>1, <2>3 DEF Group
    <2>8. Grouped(r)
        BY <2>5, <2>6, <2>7 DEF Grouped
    <2>9. Under(e) = v.n
        BY <2>1, <2>3, OneElement DEF Under
    <2>10. Numbers(r) = [i \in DOMAIN s |-> Under(s[i])]
        BY <2>5, ListMapTypes DEF Numbers, Under
    <2>11. [i \in DOMAIN s |-> Under(s[i])] = [i \in 1..1 |-> v.n]
        BY <2>6, <2>9
    <2>12. [i \in 1..1 |-> v.n] = <<v.n>>
        OBVIOUS
    <2>13. QED
        BY <1>2, <2>8, <2>10, <2>11, <2>12 DEF Keeps, Exactly
<1>5. CASE r = v
    BY <1>5 DEF Keeps, Exactly
<1>6. CASE r # v
    <2>1. \/ \E t \in Maps \ ListMaps : r = Of(t, <<v>>)
          \/ \E t \in ListMaps : r = Of(t, <<Of("[]interface{}", <<v>>)>>)
        BY <1>1, <1>6 DEF Packed, DynamicMaps, ListMaps, Maps, StringMaps, KeyedByAny
    <2>2. QED
        BY <1>3, <1>4, <2>1
<1>7. QED
    BY <1>5, <1>6

LEMMA InvokeHeld ==
    ASSUME CInv, Invoke
    PROVE  /\ held' # Panic
           /\ exact' /\ held' \notin {Nil, Error, Panic} =>
                  Exactly(held') /\ Numbers(held') = Numbers(got'[1])
<1>1. got' = got /\ server = "parse"
    BY DEF Invoke
<1>2. ~exact /\ held # Panic
    BY <1>1 DEF CInv, Held
<1>3. CASE Len(got) = 1 /\ got[1].t \in CastTypes
    <2>1. PICK g : g = got[1]
        OBVIOUS
    <2>2. Takes
        BY <1>3 DEF Invoke
    <2>3. PICK v \in Packed(g) :
              /\ held' = v
              /\ exact' = (\/ Numeral(g)
                           \/ /\ v.t \in Lists \cup Maps /\ v = g
                              /\ \A i \in DOMAIN v.elems : Numeral(v.elems[i]))
        BY <2>1, <2>2, Zenon DEF Takes
    <2>4. Fine(g)
        <3>1. PICK s : s = got
            OBVIOUS
        <3>2. IsSeq(s) /\ Len(s) = 1 /\ \A i \in DOMAIN s : Fine(s[i])
            BY <1>3, <3>1 DEF CInv, Begun, Held
        <3>3. DOMAIN s = 1..Len(s)
            BY <3>2, AppendIs
        <3>4. QED
            BY <2>1, <3>1, <3>2, <3>3
    <2>5. v # Panic
        <3>1. v.t \in CastTypes \/ v.t \in Maps
            <4>1. v = g \/ \E t \in Maps, w \in {<<g>>, <<Of("[]interface{}", <<g>>)>>} :
                                v = Of(t, w)
                BY <2>3 DEF Packed, DynamicMaps, Maps, StringMaps, KeyedByAny
            <4>2. CASE v = g
                BY <1>3, <2>1, <4>2
            <4>3. CASE v # g
                BY <4>1, <4>3, OfIs
            <4>4. QED
                BY <4>2, <4>3
        <3>2. v.t # "panic"
            BY <3>1 DEF CastTypes, Scalars, Ints, Signed, Unsigned, Floats, Lists, Maps,
                        StringMaps, KeyedByAny
        <3>3. QED
            BY <3>2, ErrorType
    <2>6. ASSUME Numeral(g)
          PROVE  Exactly(v) /\ Numbers(v) = Numbers(g)
        <3>1. g.t \in Scalars
            BY <2>6 DEF Numeral, Numeric, Scalars
        <3>2. Numbered(g)
            BY <2>4, <2>6, <3>1 DEF Fine
        <3>3. QED
            BY <2>3, <2>6, <3>2, PackedKeeps DEF Keeps
    <2>7. ASSUME v.t \in Lists \cup Maps, v = g, \A i \in DOMAIN v.elems : Numeral(v.elems[i])
          PROVE  Exactly(v) /\ Numbers(v) = Numbers(g)
        BY <1>3, <2>1, <2>4, <2>7, TakesOver
    <2>8. exact' => Exactly(v) /\ Numbers(v) = Numbers(g)
        BY <2>3, <2>6, <2>7, Zenon
    <2>9. QED
        BY <1>1, <2>1, <2>3, <2>5, <2>8
<1>4. CASE ~(Len(got) = 1 /\ got[1].t \in CastTypes)
    <2>1. exact' = exact /\ held' = held
        BY <1>4, Zenon DEF Invoke, casting
    <2>2. QED
        BY <1>2, <2>1, Zenon
<1>5. QED
    BY <1>3, <1>4

LEMMA ConvertHeld ==
    ASSUME CInv, NEW t \in CastTypes, Convert(t), exact', held' \notin {Nil, Error, Panic}
    PROVE  Exactly(held') /\ Numbers(held') = Numbers(got'[1])
<1>1. PICK r \in CastFunc(t, held) :
          /\ held' = r
          /\ exact' = (/\ exact
                       /\ \A i \in DOMAIN Numbers(held) : Fits(Numbers(held)[i], Element(t))
                       /\ ~(held.t \in DynamicMaps /\ t = "map[string]bool"))
    BY DEF Convert
<1>2. /\ exact
      /\ \A i \in DOMAIN Numbers(held) : Fits(Numbers(held)[i], Element(t))
      /\ ~(held.t \in DynamicMaps /\ t = "map[string]bool")
    BY <1>1, Zenon
<1>3. held \notin {Nil, Error, Panic} /\ got' = got
    BY DEF Convert, CInv, Held
<1>4. PICK v : v = held
    OBVIOUS
<1>5. Exactly(v) /\ Numbers(v) = Numbers(got[1])
    BY <1>2, <1>3, <1>4 DEF CInv, Held
<1>6. r # Error /\ r # Panic /\ r \in CastFunc(t, v)
    BY <1>1, <1>4
<1>7. Keeps(v, r)
    <2>1. /\ \A i \in DOMAIN Numbers(v) : Fits(Numbers(v)[i], Element(t))
          /\ ~(v.t \in DynamicMaps /\ t = "map[string]bool")
        BY <1>2, <1>4
    <2>2. QED
        BY <1>5, <1>6, <2>1, CastKeeps
<1>8. QED
    BY <1>1, <1>3, <1>5, <1>7 DEF Keeps

LEMMA MethodCInv ==
    ASSUME CInv, Invoke \/ (\E t \in CastTypes : Convert(t)) \/ Return
    PROVE  CInv'
<1>1. /\ UNCHANGED <<call, client, at, form, got>> /\ Method' = Method
      /\ server \in {"parse", "method"} /\ server' \in {"method", "answered", "gone"}
    BY DEF Invoke, Convert, Return, Answer, Method
<1>2. CallMade' /\ ArgsMade'
    BY <1>1 DEF CInv, Begun, CallMade, ArgsMade
<1>3. Begun'
    BY <1>1, <1>2 DEF CInv, Begun
<1>4. ASSUME exact', held' \notin {Nil, Error, Panic}
      PROVE  Exactly(held') /\ Numbers(held') = Numbers(got'[1])
    <2>1. CASE Invoke
        BY <1>4, <2>1, InvokeHeld
    <2>2. CASE \E t \in CastTypes : Convert(t)
        BY <1>4, <2>2, ConvertHeld
    <2>3. CASE Return
        <3>1. ~exact'
            BY <2>3, Zenon DEF Return
        <3>2. QED
            BY <1>4, <3>1
    <2>4. QED
        BY <2>1, <2>2, <2>3
<1>5. server' \in {"none", "parse", "method"} => held' # Panic
    <2>1. CASE Invoke
        BY <2>1, InvokeHeld
    <2>2. CASE \E t \in CastTypes : Convert(t)
        BY <1>1, <2>2 DEF Convert
    <2>3. CASE Return
        BY <2>3 DEF Return, Answer
    <2>4. QED
        BY <2>1, <2>2, <2>3
<1>6. Held'
    BY <1>1, <1>4, <1>5 DEF CInv, Held
<1>7. QED
    BY <1>2, <1>3, <1>6 DEF CInv

LEMMA InitCall ==
    ASSUME Init
    PROVE  CallMade /\ ArgsMade
<1>1. PICK api \in Interface, c \in Cased, via \in {"svc", "doc"} :
          \E m \in (IF via = "svc" THEN DOMAIN api ELSE PathsOf(api)) :
              \E a \in Args(api[m].params, via) :
                  call = [api |-> api, m |-> m, via |-> via, args |-> a, cased |-> c]
    BY DEF Init
<1>2. PICK m \in (IF via = "svc" THEN DOMAIN api ELSE PathsOf(api)) :
          \E a \in Args(api[m].params, via) :
              call = [api |-> api, m |-> m, via |-> via, args |-> a, cased |-> c]
    BY <1>1
<1>3. PICK a \in Args(api[m].params, via) :
          call = [api |-> api, m |-> m, via |-> via, args |-> a, cased |-> c]
    BY <1>2
<1>4. CallMade
    BY <1>3, CasedAssumption DEF CallMade, PathsOf
<1>5. Method = api[m] /\ call.args = a /\ call.via = via
    BY <1>3 DEF Method
<1>6. PICK params : params = api[m].params
    OBVIOUS
<1>7. /\ DOMAIN a = DOMAIN params
      /\ \A i \in DOMAIN params : a[i] \in Values(KindOf(params[i], via))
    <2>1. a \in Args(params, via)
        BY <1>6
    <2>2. QED
        BY <2>1 DEF Args, KindOf
<1>8. QED
    BY <1>4, <1>5, <1>6, <1>7 DEF ArgsMade

LEMMA CastsInv == Spec => []CInv
<1>1. Init => CInv
    <2>1. SUFFICES ASSUME Init PROVE CInv
        OBVIOUS
    <2>2. ~exact
        BY <2>1, Zenon DEF Init
    <2>3. at = 1 /\ form = "none" /\ got = << >> /\ server = "none" /\ held = Nil
        BY <2>1, Zenon DEF Init
    <2>4. QED
        BY <2>1, <2>2, <2>3, InitCall, EmptySeq, ErrorType DEF CInv, Begun, Held
<1>2. CInv /\ [Next]_vars => CInv'
    <2>1. CInv /\ UNCHANGED vars => CInv'
        BY DEF vars, CInv, CallMade, ArgsMade, Begun, Held, Method
    <2>2. QED
        BY <2>1, ClientCInv, ParseCInv, MethodCInv DEF Next, Handle
<1>3. QED
    BY <1>1, <1>2, PTL DEF Spec

\* A number keeps its value through every chain of conversions by a method
\* whose types can all hold it, as a scalar, a text, in a list or in a map.
THEOREM NumbersKept == Spec => []CastsKeep
<1>1. CInv => CastsKeep
    BY DEF CInv, Held, CastsKeep
<1>2. QED
    BY <1>1, CastsInv, PTL

-----------------------------------------------------------------------------
(* Where the arguments of a call go, and that the handler looks there.      *)

LEMMA HasParams ==
    ASSUME CallMade
    PROVE  DOMAIN Method.params = 1..Len(Method.params) /\ Len(Method.params) \in Nat
BY Targets, Params

\* Only the service's own client makes a multipart form of builtin arguments,
\* and only of a request that carries a file.
LEMMA BuiltinPlace ==
    ASSUME NEW i \in DOMAIN Method.params, Method.params[i] \in Builtin, Placed(i) # "lost"
    PROVE  /\ Placed(i) \in {"query", "form", "multipart"}
           /\ Placed(i) = "multipart" => Multipart(Method, call.args, call.via)
<1>1. /\ Method.params[i] # "ctx" /\ Method.params[i] \notin Files
      /\ Method.params[i] \notin Bodies
    BY DEF Builtin, Files, Bodies, Ints, Signed, Unsigned, Floats
<1>2. CASE call.via = "svc"
    <2>1. Placed(i) = IF HttpMethod(Method) = "GET" \/ HasBody(Method) THEN "query"
                      ELSE IF Formless(Method) THEN "lost"
                      ELSE IF Attached(Method, call.args) THEN "multipart" ELSE "form"
        BY <1>1, <1>2 DEF Placed, Place, SvcPlace
    <2>2. Placed(i) \in {"query", "form", "multipart"}
        BY <2>1
    <2>3. ASSUME Placed(i) = "multipart"
          PROVE  Multipart(Method, call.args, call.via)
        <3>1. Attached(Method, call.args)
            BY <2>1, <2>3
        <3>2. PICK k \in DOMAIN Method.params : Method.params[k] \in Files
            BY <3>1 DEF Attached, Files
        <3>3. Method.params[k] # "ctx" /\ Method.params[k] \notin Bodies
            BY <3>2 DEF Files, Bodies
        <3>4. Place(Method, call.args, call.via, k) = "multipart"
            BY <1>2, <3>1, <3>2, <3>3 DEF Place, SvcPlace
        <3>5. QED
            BY <3>2, <3>4 DEF Multipart
    <2>4. QED
        BY <2>2, <2>3
<1>3. CASE call.via # "svc"
    <2>1. OperationOf(Method, i) \in {"form", "query"}
        BY <1>1 DEF OperationOf
    <2>2. Placed(i) = IF Method.snaky THEN "lost" ELSE OperationOf(Method, i)
        BY <1>3, <2>1 DEF Placed, Place, Operation2Method
    <2>3. QED
        BY <2>1, <2>2
<1>4. QED
    BY <1>2, <1>3

LEMMA BodyPlace ==
    ASSUME NEW i \in DOMAIN Method.params, Method.params[i] \in Bodies, Placed(i) # "lost"
    PROVE  Placed(i) = "body"
<1>1. Method.params[i] # "ctx" /\ Method.params[i] \notin Files
    BY DEF Files, Bodies
<1>2. CASE call.via = "svc"
    BY <1>1, <1>2 DEF Placed, Place, SvcPlace
<1>3. CASE call.via # "svc"
    <2>1. OperationOf(Method, i) = "json"
        BY <1>1 DEF OperationOf
    <2>2. QED
        BY <1>3, <2>1 DEF Placed, Place, Operation2Method
<1>4. QED
    BY <1>2, <1>3

\* Nothing of the call is lost.
Lossless == Target = Method /\ \A i \in DOMAIN Method.params : ~Lossy(i)
Arrived(v, a) == v.form = a.form /\ Numbers(v) = Numbers(a)

\* A multipart form is left unread only after a list.
FormRead(k) == form = "url" /\ Multipart(Method, call.args, call.via) =>
                   \E j \in 1..k : Method.params[j] \in Lists

\* The handler finds the argument of the parameter that it parses next.
LEMMA Finds ==
    ASSUME CallMade, at \in DOMAIN Method.params, Lossless, Param \in Builtin,
           NEW f, f \in {"url", "multi"},
           f = "url" /\ Multipart(Method, call.args, call.via) =>
               \E j \in 1..at : Method.params[j] \in Lists
    PROVE  Read(f) = AsForm(call.args[at])
<1>1. Param = Method.params[at] /\ ~Lossy(at) /\ Target = Method
    BY DEF Param, Lossless
<1>2. Placed(at) # "lost"
    BY <1>1 DEF Lossy
<1>3. /\ Placed(at) \in {"query", "form", "multipart"}
      /\ Placed(at) = "multipart" => Multipart(Method, call.args, call.via)
    BY <1>1, <1>2, BuiltinPlace
<1>4. Placed(at) = "multipart" => f = "multi"
    <2>1. Placed(at) = "multipart" => ~\E j \in 1..at : Method.params[j] \in Lists
        BY <1>1 DEF Lossy
    <2>2. QED
        BY <1>3, <2>1
<1>5. QED
    BY <1>1, <1>3, <1>4 DEF Read

(* Parsing an argument that is not lost brings it to the method as it is.   *)
LEMMA ParseArrives ==
    ASSUME CallMade, ArgsMade, at \in DOMAIN Method.params, form \in {"none", "url", "multi"},
           Lossless, FormRead(at - 1), Parse
    PROVE  /\ \E v : Parsed(v) /\ Arrived(v, call.args[at])
           /\ server' = server
           /\ form' = "url" /\ Multipart(Method, call.args, call.via) =>
                  \E j \in 1..at : Method.params[j] \in Lists
<1>1. /\ Param = Method.params[at] /\ ~Lossy(at)
      /\ Target = Method /\ at \in Nat \ {0} /\ at \in 1..at
    BY HasParams DEF Param, Lossless
<1>2. PICK a, k : a = call.args[at] /\ k = KindOf(Param, call.via)
    OBVIOUS
<1>3. a \in Values(k)
    BY <1>1, <1>2 DEF ArgsMade
<1>4. (form = "url" /\ Multipart(Method, call.args, call.via)) =>
          \E j \in 1..at : Method.params[j] \in Lists
    BY <1>1 DEF FormRead
<1>5. CASE ParseFile
    <2>1. Param \in Files
        BY <1>5 DEF ParseFile
    <2>2. Multipart(Method, call.args, call.via)
        BY <1>1, <2>1 DEF Lossy
    <2>3. Parsed(call.args[at]) /\ form' = "multi" /\ server' = server
        BY <1>5, <2>2 DEF ParseFile
    <2>4. Parsed(a) /\ Arrived(a, a)
        BY <1>2, <2>3 DEF Arrived
    <2>5. QED
        BY <1>2, <2>3, <2>4
<1>6. CASE ParseCtx
    <2>1. Param = "ctx" /\ Parsed(Num("ctx", 0)) /\ form' = form /\ server' = server
        BY <1>6 DEF ParseCtx
    <2>2. k = "ctx"
        BY <1>2, <2>1, Kinds DEF Ints, Signed, Unsigned
    <2>3. a = Num("ctx", 0)
        BY <1>3, <2>2, PlainValues
    <2>4. Parsed(a) /\ Arrived(a, a)
        BY <2>1, <2>3 DEF Arrived
    <2>5. QED
        BY <1>2, <1>4, <2>1, <2>4
<1>7. CASE ParseBody
    <2>1. Param \in Bodies /\ form' = form
        BY <1>7 DEF ParseBody
    <2>2. Placed(at) = "body"
        BY <1>1, <2>1, BodyPlace DEF Lossy
    <2>3. Parsed(Decoded(call.args[at])) /\ server' = server
        BY <1>7, <2>2 DEF ParseBody
    <2>4. PICK d : d = Decoded(a)
        OBVIOUS
    <2>5. Parsed(d)
        BY <1>2, <2>3, <2>4
    <2>6. k = Param
        <3>1. CASE Param = "vo"
            BY <1>2, <3>1, Kinds DEF Bodies, Ints, Signed, Unsigned
        <3>2. CASE Param = "map[string]interface{}"
            <4>1. call.via = "svc"
                BY <1>1, <3>2 DEF Lossy, CallMade
            <4>2. QED
                BY <1>2, <2>1, <4>1, Kinds
        <3>3. QED
            BY <2>1, <3>1, <3>2 DEF Bodies
    <2>7. Arrived(d, a)
        <3>1. CASE Param = "vo"
            <4>1. d = a
                BY <1>3, <2>4, <2>6, <3>1, PlainValues
            <4>2. QED
                BY <4>1 DEF Arrived
        <3>2. CASE Param = "map[string]interface{}"
            <4>1. a \in Values("map[string]interface{}")
                BY <1>3, <2>6, <3>2
            <4>2. \A j \in DOMAIN a.elems : Fits(a.elems[j].n, "float64")
                BY <1>1, <1>2, <3>2 DEF Lossy
            <4>3. Decoded(a).form = a.form /\ Numbers(Decoded(a)) = Numbers(a)
                BY <4>1, <4>2, DecodedMap
            <4>4. QED
                BY <2>4, <4>3 DEF Arrived
        <3>3. QED
            BY <2>1, <3>1, <3>2 DEF Bodies
    <2>8. QED
        BY <1>2, <1>4, <2>1, <2>3, <2>5, <2>7
<1>8. CASE ParseList
    <2>1. /\ Param \in Builtin /\ Param \in Lists
          /\ form' = IF form = "none" THEN "url" ELSE form
          /\ \E v \in CastFunc(Param, Read(form')) :
                 IF v = Error THEN Refuse ELSE Parsed(v) /\ server' = server
        BY <1>8 DEF ParseList
    <2>2. PICK f : f = form' /\ f \in {"url", "multi"}
        BY <2>1
    <2>3. \E j \in 1..at : Method.params[j] \in Lists
        BY <1>1, <2>1
    <2>4. PICK t \in Builtin \cap Lists : t = Param
        BY <2>1
    <2>5. Read(f) = AsForm(a)
        <3>1. (f = "url" /\ Multipart(Method, call.args, call.via)) =>
                  \E j \in 1..at : Method.params[j] \in Lists
            BY <2>3
        <3>2. Read(f) = AsForm(call.args[at])
            BY <2>1, <2>2, <3>1, Finds
        <3>3. QED
            BY <1>2, <3>2
    <2>6. a \in Values(t)
        <3>1. k = Param
            BY <1>2, <2>1, Kinds DEF Lists, Ints, Signed, Unsigned
        <3>2. QED
            BY <1>3, <2>4, <3>1
    <2>7. PICK v \in CastFunc(t, AsForm(a)) :
              IF v = Error THEN Refuse ELSE Parsed(v) /\ server' = server
        BY <2>1, <2>2, <2>4, <2>5
    <2>8. Same(v, a)
        BY <2>6, ListArrives
    <2>9. Parsed(v) /\ server' = server /\ Arrived(v, a)
        BY <2>7, <2>8 DEF Same, Arrived
    <2>10. QED
        BY <1>2, <2>3, <2>9
<1>9. CASE ParseValue
    <2>1. /\ Param \in Builtin /\ Param \notin Lists
          /\ form' = CurrentForm
          /\ \E v \in CastFunc(Param, Read(form')) :
                 IF v = Error THEN Refuse ELSE Parsed(v) /\ server' = server
        BY <1>9 DEF ParseValue
    <2>2. PICK f : f = form' /\ f \in {"url", "multi"}
        BY <2>1 DEF CurrentForm
    <2>3. (f = "url" /\ Multipart(Method, call.args, call.via)) =>
              \E j \in 1..at : Method.params[j] \in Lists
        BY <1>4, <2>1, <2>2 DEF CurrentForm
    <2>4. PICK t \in Builtin \ Lists : t = Param
        BY <2>1
    <2>5. Read(f) = AsForm(a)
        BY <1>2, <2>1, <2>2, <2>3, Finds
    <2>6. IF t \in Ints THEN k \in Ints /\ InRange(a.n, t) ELSE k = t
        <3>1. IF Param \in Ints THEN k \in Ints ELSE k = Param
            <4>1. Param # "map[string]interface{}"
                BY <2>1 DEF Builtin, Ints, Signed, Unsigned, Floats
            <4>2. QED
                BY <1>2, <2>1, <4>1, Kinds
        <3>2. Param \in Ints => InRange(a.n, Param)
            BY <1>1, <1>2 DEF Lossy
        <3>3. QED
            BY <2>4, <3>1, <3>2
    <2>7. AsForm(a) = AsText(a)
        <3>1. k \in Builtin \ Lists
            BY <2>4, <2>6 DEF Builtin, Lists, Ints, Signed, Unsigned
        <3>2. a.t = k
            BY <1>3, <3>1, Texts
        <3>3. QED
            BY <3>1, <3>2 DEF AsForm
    <2>8. PICK v \in CastFunc(t, AsText(a)) :
              IF v = Error THEN Refuse ELSE Parsed(v) /\ server' = server
        BY <2>1, <2>2, <2>4, <2>5, <2>7
    <2>9. Same(v, a)
        BY <1>3, <2>6, ScalarArrives
    <2>10. Parsed(v) /\ server' = server /\ Arrived(v, a)
        BY <2>8, <2>9 DEF Same, Arrived
    <2>11. QED
        BY <1>2, <2>2, <2>3, <2>10
<1>10. QED
    BY <1>5, <1>6, <1>7, <1>8, <1>9 DEF Parse

-----------------------------------------------------------------------------
\* While nothing of the call is lost, every parameter before the next one has
\* been parsed to its argument, and no parameter was refused.
Arriving ==
    Lossless =>
        /\ server = "parse" => Len(got) = at - 1 /\ FormRead(at - 1)
        /\ server = "method" => at > Len(Method.params)
        /\ server = "answered" /\ status = 400 => at > Len(Method.params)
        /\ \A i \in DOMAIN got : Arrived(got[i], call.args[i])

LEMMA SameCall ==
    ASSUME call' = call
    PROVE  /\ Method' = Method /\ Target' = Target /\ (Lossless' <=> Lossless)
           /\ Multipart(Method, call.args, call.via)' = Multipart(Method, call.args, call.via)
BY DEF Method, Target, Lossless, Lossy, Placed

LEMMA ArrivingNext ==
    ASSUME call' = call,
           Lossless =>
               /\ server' = "parse" => Len(got') = at' - 1 /\ FormRead(at - 1)'
               /\ server' = "method" => at' > Len(Method.params)
               /\ server' = "answered" /\ status' = 400 => at' > Len(Method.params)
               /\ \A i \in DOMAIN got' : Arrived(got'[i], call.args[i])
    PROVE  Arriving'
<1>1. Method' = Method /\ (Lossless' <=> Lossless)
    BY SameCall
<1>2. (\A i \in DOMAIN got : Arrived(got[i], call.args[i]))'
          <=> \A i \in DOMAIN got' : Arrived(got'[i], call.args[i])
    BY DEF Arrived, Numbers
<1>3. QED
    BY <1>1, <1>2 DEF Arriving

LEMMA ClientArrives ==
    ASSUME CInv, Arriving, Select \/ Send \/ Lose \/ Replay \/ Receive
    PROVE  Arriving'
<1>1. call' = call
    BY DEF Select, Send, Lose, Replay, Receive
<1>2. SUFFICES ASSUME Lossless
               PROVE  /\ server' = "parse" => Len(got') = at' - 1 /\ FormRead(at - 1)'
                      /\ server' = "method" => at' > Len(Method.params)
                      /\ server' = "answered" /\ status' = 400 => at' > Len(Method.params)
                      /\ \A i \in DOMAIN got' : Arrived(got'[i], call.args[i])
    BY <1>1, ArrivingNext
<1>3. CASE Replay
    <2>1. /\ at' = 1 /\ form' = "none" /\ got' = << >> /\ server' = "parse"
        BY <1>3 DEF Replay
    <2>2. FormRead(at - 1)'
        BY <2>1 DEF FormRead
    <2>3. QED
        BY <2>1, <2>2, EmptySeq
<1>4. CASE Send /\ server' = "parse"
    <2>1. server = "none" /\ UNCHANGED <<at, form, got>>
        BY <1>4 DEF Send, CInv, Begun
    <2>2. at = 1 /\ form = "none" /\ got = << >>
        BY <2>1 DEF CInv, Begun
    <2>3. FormRead(at - 1)'
        BY <2>1, <2>2 DEF FormRead
    <2>4. QED
        BY <1>4, <2>1, <2>2, <2>3, EmptySeq
<1>5. CASE ~Replay /\ ~(Send /\ server' = "parse")
    <2>1. UNCHANGED <<at, form, got, status>> /\ server' \in {server, "gone"}
        BY <1>5 DEF Select, Send, Lose, Receive, told
    <2>2. FormRead(at - 1)' = FormRead(at - 1)
        BY <1>1, <2>1, SameCall DEF FormRead
    <2>3. QED
        BY <1>2, <2>1, <2>2 DEF Arriving
<1>6. QED
    BY <1>3, <1>4, <1>5

LEMMA ParseKeepsArriving ==
    ASSUME CInv, Arriving, Parse
    PROVE  Arriving'
<1>1. call' = call /\ server = "parse"
    BY ParseEffect
<1>2. SUFFICES ASSUME Lossless
               PROVE  /\ server' = "parse" => Len(got') = at' - 1 /\ FormRead(at - 1)'
                      /\ server' = "method" => at' > Len(Method.params)
                      /\ server' = "answered" /\ status' = 400 => at' > Len(Method.params)
                      /\ \A i \in DOMAIN got' : Arrived(got'[i], call.args[i])
    BY <1>1, ArrivingNext
<1>3. /\ Target = Method /\ at \in Nat \ {0} /\ Len(got) = at - 1 /\ FormRead(at - 1)
      /\ \A i \in DOMAIN got : Arrived(got[i], call.args[i])
    BY <1>1, <1>2 DEF Arriving, Lossless, CInv, Begun
<1>4. at \in DOMAIN Method.params
    BY <1>3, HasParams DEF Parse, CInv
<1>5. /\ \E v : Parsed(v) /\ Arrived(v, call.args[at])
      /\ server' = server
      /\ form' = "url" /\ Multipart(Method, call.args, call.via) =>
             \E j \in 1..at : Method.params[j] \in Lists
    BY <1>2, <1>3, <1>4, ParseArrives DEF CInv, Begun
<1>6. PICK v : Parsed(v) /\ Arrived(v, call.args[at])
    BY <1>5
<1>7. at' = at + 1 /\ got' = Append(got, v)
    BY <1>6 DEF Parsed
<1>8. FormRead(at - 1)'
    <2>1. at' - 1 = at
        BY <1>3, <1>7
    <2>2. QED
        BY <1>1, <1>5, <2>1, SameCall DEF FormRead
<1>9. PICK s, r, n : s = got /\ r = got' /\ n = at
    OBVIOUS
<1>10. IsSeq(s) /\ r = Append(s, v) /\ Len(s) = n - 1 /\ n \in Nat
    BY <1>3, <1>7, <1>9 DEF CInv, Begun
<1>11. /\ DOMAIN s = 1..Len(s) /\ DOMAIN r = 1..(Len(s) + 1) /\ Len(r) = Len(s) + 1
       /\ \A i \in DOMAIN s : r[i] = s[i]
       /\ r[Len(s) + 1] = v
    BY <1>10, AppendIs
<1>12. ASSUME NEW i \in DOMAIN r PROVE Arrived(r[i], call.args[i])
    <2>1. i \in DOMAIN s \/ i = n
        BY <1>10, <1>11
    <2>2. CASE i \in DOMAIN s
        BY <1>3, <1>9, <1>11, <2>2
    <2>3. CASE i = n
        <3>1. r[i] = v
            BY <1>10, <1>11, <2>3
        <3>2. QED
            BY <1>6, <1>9, <2>3, <3>1
    <2>4. QED
        BY <2>1, <2>2, <2>3
<1>13. Len(got') = at' - 1
    BY <1>3, <1>7, <1>9, <1>10, <1>11
<1>14. QED
    BY <1>1, <1>5, <1>8, <1>9, <1>12, <1>13

LEMMA MethodArrives ==
    ASSUME CInv, Arriving, Invoke \/ (\E t \in CastTypes : Convert(t)) \/ Return
    PROVE  Arriving'
<1>1. /\ UNCHANGED <<call, at, form, got>>
      /\ server' \in {"method", "answered", "gone"}
      /\ Invoke => at > Len(Target.params) /\ server' = "method"
      /\ ~Invoke => server = "method"
    BY DEF Invoke, Convert, Return, Answer
<1>2. SUFFICES ASSUME Lossless
               PROVE  /\ server' = "parse" => Len(got') = at' - 1 /\ FormRead(at - 1)'
                      /\ server' = "method" => at' > Len(Method.params)
                      /\ server' = "answered" /\ status' = 400 => at' > Len(Method.params)
                      /\ \A i \in DOMAIN got' : Arrived(got'[i], call.args[i])
    BY <1>1, ArrivingNext
<1>3. /\ at > Len(Method.params)
      /\ \A i \in DOMAIN got : Arrived(got[i], call.args[i])
    BY <1>1, <1>2 DEF Arriving, Lossless
<1>4. QED
    BY <1>1, <1>3

LEMMA ArrivingHolds == Spec => []Arriving
<1>1. Init => Arriving
    <2>1. Init => server = "none" /\ got = << >>
        BY Zenon DEF Init
    <2>2. QED
        BY <2>1, EmptySeq DEF Arriving
<1>2. CInv /\ Arriving /\ [Next]_vars => Arriving'
    <2>1. Arriving /\ UNCHANGED vars => Arriving'
        <3>1. ASSUME Arriving, UNCHANGED vars PROVE Arriving'
            <4>1. UNCHANGED <<call, server, at, form, got, status>>
                BY <3>1 DEF vars
            <4>2. FormRead(at - 1)' = FormRead(at - 1)
                BY <4>1, SameCall DEF FormRead
            <4>3. QED
                BY <3>1, <4>1, <4>2, ArrivingNext DEF Arriving
        <3>2. QED
            BY <3>1
    <2>2. QED
        BY <2>1, ClientArrives, ParseKeepsArriving, MethodArrives DEF Next, Handle
<1>3. QED
    BY <1>1, <1>2, CastsInv, PTL DEF Spec

\* Unless a generator's choice loses an argument (Lossy), the handler refuses
\* none, and the method runs with the numbers and the texts of the caller's:
\* the routes, the handler, the client and the document agree.
THEOREM ArgumentsArrive == Spec => []ArgsArrive
<1>1. Arriving => ArgsArrive
    BY DEF Arriving, ArgsArrive, Lossless, Arrived
<1>2. QED
    BY <1>1, ArrivingHolds, PTL
=============================================================================
