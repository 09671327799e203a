-------------------------------- MODULE Api ---------------------------------
(***************************************************************************)
(* What the generators make of the methods of a service interface: routes  *)
(* (httphandler.go), the OpenAPI document (doc.go, openapi/v3), and the    *)
(* requests that the service's own client (httpclient.go) and a client     *)
(* generated from the document (openapi/v3/codegen/client) send.           *)
(*                                                                         *)
(* A method is a record: prefix, a verb as the name spells it or "other",  *)
(* and noun make up its name; params are the types of its parameters,      *)
(* snaky says that their names are not lowerCamel;                         *)
(* result is "value", "file" or "none", words that of its name; err says   *)
(* whether it has an error result.                                         *)
(***************************************************************************)
EXTENDS Integers, Sequences, FiniteSets, Cast

CONSTANT Lower       \* a noun in lower case

Files == {"file", "files"}
Bodies == {"vo", "map[string]interface{}"}
Builtin == Ints \cup Floats \cup {"bool", "string", "[]int", "[]string", "[]bool"}

\* The verbs, as a name may spell them.
Get == {"Get", "GET"}
Put == {"Put", "PUT"}
Delete == {"Delete", "DELETE"}

MutHttpMethod(m) ==       \* no run uses it: a name without a verb is a GET
    CASE m.prefix \in {"Post", "POST"} -> "POST" [] m.prefix \in Put -> "PUT"
      [] m.prefix \in Delete -> "DELETE" [] OTHER -> "GET"

\* The verb a name begins with; POST if it begins with none.
HttpMethod(m) == CASE m.prefix \in Get -> "GET" [] m.prefix \in Put -> "PUT"
                   [] m.prefix \in Delete -> "DELETE" [] OTHER -> "POST"
\* The name without the verb, in lower case.
Pattern(m) == Lower[m.noun]
\* gorilla/mux serves a request with the first route that matches it.
Routed(api, m) == CHOOSE r \in DOMAIN api :
    LET Matches(j) == /\ HttpMethod(api[j]) = HttpMethod(api[m])
                      /\ Pattern(api[j]) = Pattern(api[m])
    IN Matches(r) /\ \A j \in 1..(r - 1) : ~Matches(j)

\* At most one parameter that has to go into the body; files count once.
ValidateRestApi(params) ==
    LET nonBasic == {i \in DOMAIN params : params[i] \notin Builtin \cup Files \cup {"ctx"}}
        files == {i \in DOMAIN params : params[i] \in Files}
    IN Cardinality(nonBasic) + (IF files = {} THEN 0 ELSE 1) <= 1

-----------------------------------------------------------------------------
(* The document.                                                            *)

\* SchemaOf forgets the width and the sign of the integers up to 32 bits.
SchemaOf(t) == CASE t \in Ints \ {"int64", "uint64"} -> "integer/int32"
                 [] t \in {"int64", "uint64"} -> "integer/int64"
                 [] OTHER -> t
\* The type of a field of the client generated from it.  What is of any type in
\* a map becomes a struct without fields.
ToGoType(schema) == CASE schema = "integer/int32" -> "int"
                      [] schema = "integer/int64" -> "int64"
                      [] schema = "map[string]interface{}" -> "map[string]struct{}"
                      [] OTHER -> schema

\* Where an operation says a parameter goes.
OperationOf(m, i) ==
    CASE m.params[i] = "ctx" -> "ctx"
      [] m.params[i] \in Files -> "upload"
      [] m.params[i] \in Bodies -> "json"
      [] OTHER -> IF /\ HttpMethod(m) = "POST"
                     /\ \A j \in DOMAIN m.params : m.params[j] \in Builtin \cup {"ctx"}
                  THEN "form" ELSE "query"

\* pathmap[endpoint] = v3path: of two methods with one endpoint the later stays.
PathsOf(api) == {m \in DOMAIN api : \A j \in DOMAIN api :
                     j > m => Pattern(api[j]) # Pattern(api[m])}

-----------------------------------------------------------------------------
(* The requests.  A parameter is in the query, in a urlencoded form, in a   *)
(* multipart form, in a JSON body, or lost.                                 *)

Attached(m, args) == \E i \in DOMAIN m.params :
    m.params[i] = "file" \/ (m.params[i] = "files" /\ args[i].elems # << >>)
HasBody(m) == \E i \in DOMAIN m.params : m.params[i] \in Bodies
\* resty sends no body with a GET; net/http reads no form from that of a DELETE.
Bodiless(m) == HttpMethod(m) = "GET"
Formless(m) == HttpMethod(m) \in {"GET", "DELETE"}
\* resty makes a multipart request of files, and refuses one with these verbs.
Refused(m, args) == Attached(m, args) /\ Formless(m)

SvcPlace(m, args, i) ==
    CASE m.params[i] = "ctx" -> "ctx"
      [] m.params[i] \in Files -> IF Attached(m, args) THEN "multipart" ELSE "lost"
      [] m.params[i] \in Bodies -> IF Bodiless(m) THEN "lost" ELSE "body"
      [] OTHER -> IF HttpMethod(m) = "GET" \/ HasBody(m) THEN "query"
                  ELSE IF Formless(m) THEN "lost"
                  ELSE IF Attached(m, args) THEN "multipart" ELSE "form"

\* A file's schema has no properties, so the client has no parameter for it,
\* nor for the body of a GET.  Names are turned into lowerCamel.
Operation2Method(m, i) ==
    LET p == OperationOf(m, i) IN
    CASE p = "json" -> IF Bodiless(m) THEN "lost" ELSE "body"
      [] p \in {"form", "query"} -> IF m.snaky THEN "lost" ELSE p
      [] OTHER -> IF p = "upload" THEN "lost" ELSE p

Place(m, args, via, i) == IF via = "svc" THEN SvcPlace(m, args, i)
                          ELSE Operation2Method(m, i)
Multipart(m, args, via) == \E i \in DOMAIN m.params :
    m.params[i] \in Files /\ Place(m, args, via, i) = "multipart"
=============================================================================
