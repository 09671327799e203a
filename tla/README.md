# go-doudou in TLA+

A verification project for [go-doudou](https://github.com/unionj-cloud/go-doudou), a Go toolkit that generates
RESTful services from a Go interface and gives them, at run time, a memberlist-based service registry,
client-side load balancing, an HTTP server, and helpers for MySQL and Elasticsearch. The modules translate the
source under `src/`; paths below are relative to it.

## Inventory

| component | state | operations | what is hard | what makes it correct |
|---|---|---|---|---|
| service registry `svc/registry` | slice `members` of pointers to memberlist's records | callbacks NotifyJoin, NotifyLeave, NotifyUpdate; Discover; NewNode, Register | callbacks run on memberlist's goroutines, Discover on the caller's, no common lock; indexes that may be -1; meta data that does not parse; start-up order | members = the live nodes, each once; Discover answers exactly the live nodes of a service |
| load balancer `svc/http/client.go` | counter `current` per provider | SelectServer | goroutines share the counter, list changes between and under calls, empty list | index in range; round robin; counter bounded |
| HTTP server `svc/http/default.go`, `srv.go`, `middleware.go` | router, listener, signal channel | AddRoute, AddMiddleware, Run; Logger, Rest, Metrics | listener on its own goroutine, grace period, SIGINT, requests in flight, order of effects and responses | no request lost without a response; stops when asked |
| generated `main` `svc/internal/codegen/main.go:30-64` | database connection, node | start-up in order, deferred close | failure between two steps; nothing leaves the cluster at the end | what was acquired is released; discoverable = serving |
| service commands `svc/svc.go` | files, image, cluster | Init, Http, Push, Deploy, Shutdown, Scale, Publish, GenClient | a step of several failing; repeat after failure | a repeated command completes |
| service generators `svc/internal/codegen` | files of the project | one Gen function per file: create once, overwrite, extend | interruption between create and write; user edits | user code survives; a second run changes nothing |
| ddl tool `ddl/exec.go`, `ddl/table`, `ddl/ddlast`, `ddl/codegen` | tables of the database, structs of the domain package, dao files | struct to table (create, alter), table to struct | statement by statement, no transaction; repeated runs | repeated run is a no-op; no column is dropped |
| query builder `ddl/query`, `ddl/wrapper.go` | criteria tree | And, Or, Sql; transactions | precedence, parentheses | SQL means the tree |
| Elasticsearch list `esutils/list.go` | two channels, errgroup, shared `err` | List | blocking sends after a failure; a variable shared by ten goroutines | every hit once or an error; returns |
| Elasticsearch queries and pages `esutils` | - | query tree; Page | page boundaries | pages partition the hits |
| source inspection `astutils` | collectors | struct and interface collectors, tag rewriting | embedded and aliased structs | fields of a struct in order, each once |
| OpenAPI `openapi/v3` | schemas by name | schema of a type, client generation | references, nesting | references resolve |
| casts `cast` | - | conversions | widths, signs | value kept or error |
| command line `cmd`, struct tags `name`, small utilities | files | - | - | - |

Interactions: memberlist calls the registry's callbacks; SelectServer calls Discover through
`registry.IRegistry`; the generated `main` creates the node before the service and the HTTP server; the
generated clients call SelectServer before each request; the service commands call the generators, which use the
source inspection and the OpenAPI model.

The hazards, with the line where each bites and the property that guards against it, are in `PROJECT.json` under
`hazards`.

## Plan

The order followed the importance of the behaviour: who is called, what a call returns, what survives a failure,
what the generated code agrees on.

1. **Registry, load balancer** - `Directory`, `Registry`, `MemberSlice`, `RoundRobin`, `LoadBalancer`; proofs of
   all of them, with the three refinements.
2. **Elasticsearch list** - `EsList` and its proofs.
3. **Life of a service process** - `ServiceProcess`: the generated `main`, `NewNode`, the gossip delegate, the
   server's Run, signals, peers, requests through `Logger`; and its proofs.
4. **Generators** - `Scaffold`: `svc init` and `svc http` on a file system, with stops and edits; and its
   proofs.
5. **Calls** - `Cast`, `Api`, `Call`: the four generators that have to agree on a request (routes, handler,
   client, document), the network between them, and the conversions; and proofs about `Call`.
6. **Database** - `Ddl`, `Dao`: the ddl tool in both directions, and a service that uses the data access object
   while the tool goes on; and proofs about both.

What is not there, and why, is under *Not modelled*.

## Modules

### Registry and Directory

`Directory` is what the registry promises: a set of live nodes, announced and withdrawn, and a list that always
shows them. The refinement `DirSpec` maps to it the nodes whose announcements all parsed (`Live \ tainted`):
announcing bytes that do not parse withdraws a node. `Registry` is `node.go` and `eventdelegate.go`.
hashicorp/memberlist is external: it keeps one record per node name (`status`, `meta`), holds its node lock
while it calls a callback, and passes the same record pointer every time, which is why the code may look the
pointer up in `members`. `status` is the state memberlist keeps of a node. It keeps it in `nodeState`, around
the `Node` that the code has a pointer to; the field `State` of that `Node` is never written (memberlist
v0.2.4), so that the check of `node.go:54` (`IsAlive`) holds for every member: suspected nodes are answered too.
`meta` is the record's Meta; a service name stands for JSON that names the service, `garbled` for bytes that
`json.Unmarshal` refuses (`NodeMeta` ignores the error of `json.Marshal`, `delegate.go:13`, so even this code
can announce them). The actions are what the library does: `Join`, `Update`, `Leave`, each with its callback
(`NotifyJoin`, `NotifyUpdate`, `NotifyLeave`), and `Probe`, a change between alive and suspect for which it
makes no callback. Index -1 of `IndexOfAny` is 0 here; using it panics, and `process` records that.

### MemberSlice

The same callbacks and one `Discover`, at the grain of memory accesses. `mem` holds the words of the slice
header and the slots of the backing arrays, a callback fixes its `stores` when it starts, and they land one at a
time **in any order**, since nothing synchronises them with the reader. `Discover` copies the header in two
loads (`range` evaluates it once), loads slots by that copy, and reads Meta through the pointers (State tells
nothing, see above: a record met in a stale slot is answered like any other). A load beyond the capacity of the
array it points into ends in `wild`, a nil pointer in `nil`. `Cap`, the capacity of each array, may be any
increasing sequence, since growslice decides it; `MCMemberSlice` lets it double. `R` maps the slice back to the
list of `Registry`, which it implements (`SliceIsList`). Exploring the model showed that a racing Discover can
end in `nil` and `wild`, miss members, answer one twice and answer one that left; the properties say when it
cannot.

### RoundRobin and LoadBalancer

`RoundRobin` is the body of `SelectServer` in its four steps for any number of goroutines, Discover answering
any length; the history `serial` says that no two selections overlapped and all got the same number of nodes.
`LoadBalancer` EXTENDS `RoundRobin` and has `Registry` as the instance `Reg`. Its Discover takes time: `Ask`
begins it, `Change` is any step of the cluster, whose callback has memberlist's lock until its stores have
landed (`Land`), and `Answer`, `AskFails` or `Crash` end it. What a Discover answers that no callback overlapped
is what `Registry` says; one that some did overlap (`Overtaken`) answers anything the theorems of
`MemberSliceProofs` leave open: a removal may hide nodes, an append may bring back one that left or end the walk
in a panic. Whatever happens to the counter is a step of `RoundRobin`, whose properties it therefore has. The
counter is an unbounded natural; `CounterBounded`, proved, is what makes its 64 bits irrelevant.

### EsList

The unlimited branch of `Es.List`: `producer`, `worker` and `main` are the program counters of the producer, of
the workers and of the calling goroutine. A send on an unbuffered channel and its receive are one step. `errVar`
is the `err` of the enclosing function, which all workers assign and read; the read in `err != nil` and the
second read in `errors.Wrap` are steps of their own (`Test`, `Wrap`): the error a worker tests, and the one it
wraps, may be another's, also after a callback of its own that succeeded. The select with a `default` is one
step and the send it commits to another. A page holds at least one hit, as Elasticsearch's scroll answers
`io.EOF` instead of an empty page. `callback`, chosen at the start, says whether the caller passed one: without
it a worker neither fails nor skips a hit.

### ServiceProcess

One generated service. `main` is where its main goroutine stands in the template of
`svc/internal/codegen/main.go`, in `NewNode` (`create`, `assign`, `register`) and in `Run` (`serve` to `drain`);
`closing` and `unwind` are the ordinary and the panicking way to the deferred close of the database. `Listen` is
the goroutine that `newServer` leaves behind, `req` the place of each request in `Logger`: `Dump` before the
handler, `Inner` the handler, `Copy` after it. `view` is what peers believe of the address (a restart takes the
same one), and `Contact` a packet exchanged with them: memberlist piggybacks what `GetBroadcasts` answers on its
packets, and `broadcasts` is nil while `gossip` is `bare`. A handler is one step with at most one effect, which
needs the database connection; it may refuse its parameters (400) before, and answer 500 with the effect
standing or not. `Telling` are the requests of methods with an error result, the others answer zero values
whatever happened. Since `signal.Notify` comes late, SIGINT (`Interrupt`) kills a process that still starts, or
one that unwinds; SIGTERM always does (`Kill`). Left out: addresses and ports, the requests' timeouts.

### Scaffold

The files of a service while `go-doudou svc init` and `svc http` run, run again, and are stopped. A file is
absent, empty or whole; a whole one carries the interface methods its code serves (`methods`), those it declares
twice (`again`), and the developer's edits. `steps` is the list of files the command still has to visit, in the
order of `init.go` and `svc.go`, and `phase` where it stands in the generator of the first: `stat`, `mod`
(reading go.mod), `read`, `rewrite`, `write`. The generators share three shapes: `Create` (only if absent),
`Truncate` (always anew) and, for `handlerimpl.go` with `--handler`, parse, read, extend and write over. All Go
source goes through `FixImport`, which parses it before it writes and panics if it cannot (`FixImportPanics`).
Methods that `svc http` accepts can lead there: those in `NoHandler` (no result, so that the handler's
assignment has no left side, or parameters without names) for `handlerimpl.go`, those in `NoClient` for
`client.go`. The developer saves files (`Save`), changes the interface (`Design`) and removes empty files
(`Remove`) at any moment, between any two steps; `Interrupt` stops a command at any of them. A template's text,
formatting and imports are left out. `saved`, `torn` and `unparsed` are history.

### Cast, Api and Call

`Cast` is `cast/caste.go`: numbers of every integer and float type, texts, lists and maps, and the conversion
from each to each. A number is kept in halves, so that a float may have a fraction; a conversion yields the set
of its results, which has one element except where Go leaves the result open (a float outside an integer's
range, a map walked in any order). An integer type is as wide as its `Size` says, the number of its values; a
float type has every number below its `Dense`, and beyond it numbers whose spacing doubles with every power of two.
Texts of numbers come in forms, since the integer types parse them with base 0 (`010` is 8, `0x1f` and
`1_000` are numbers, `08` is none) and floats and durations as decimals. A text that is a JSON object converts
to the maps; a map with keys that are interface values panics on its way to a map of integers (`Reflected`).

`Api` holds what the generators derive from a method, as operators: the verb and the route (`HttpMethod`,
`Pattern`, which is in lower case, `Routed`: gorilla/mux takes the first route that matches), what `svc http`
refuses (`ValidateRestApi`), the schema the document gives a type and the type a client makes of the schema
(`SchemaOf`, `ToGoType`), which methods the document has (`PathsOf`), and where either client puts a parameter
(`SvcPlace`, `Operation2Method`). resty v2.6.0 drops the body of a GET, sends that of a DELETE, and refuses
files in either (`Bodiless`, `Refused`); net/http reads no form from a DELETE (`Formless`).

`Call` is one call: the client selects a server, opens files, sends; the handler parses parameter after
parameter (`ParseFile`, `ParseCtx`, `ParseBody`, `ParseList`, `ParseValue`, by kind), invokes the method, which
may convert what it got by any function of the package, as it is or put into a map (`Packed`), and answers.
`form` is the state of `_req.Form`, which decides what `FormValue` reads: the generated handler calls
`ParseForm` for lists and `ParseMultipartForm` for files, in the order of the parameters. The network loses a
request or an answer at any time (`Lose`) and net/http sends a GET again (`Replay`). Headers, path variables and
the middlewares are left out.

### Ddl and Dao

`Ddl` is the tool: `structs` are the domain files, `tables` the database, `files` the three data access files of
each table, `tool` the run under way. Every SQL statement and every file is a step, and each may fail
(`Failed`); the code logs a failed statement and goes on, panics on a failed `desc`, and returns on a failed
file. `Crash` stops it anywhere. `NewTableFromStruct` and `NewFieldFromColumn` are the two translations, with
what they lose: a tag cut at a colon, clauses of which the last counts, one key, a name that comes back as
another (`Snake`: `address1` becomes `address_1`), a default that is an expression and comes back as its text
(`Quoted`), the order of a descending index. `origin` is history: the table from which a reverse run wrote a
struct, as long as nobody writes another. MySQL is external, reduced to what makes a statement fail and what a
changed column does to the rows. Directories, tables and columns are walked in an order nothing depends on, so
that what a run has still to do is a set. A project is one that compiles, on tables MySQL can hold
(`DdlAssumption`).

`Dao` EXTENDS it with a service that uses the generated object of one table: the statements of `dao.sql.tmpl` as
they come out of `templateutils`, on the columns and fields that the *file* was generated with, while the struct
and the table may have moved on. A cell is `null`, `zero`, `set`, what a default gives, or `other`; what a
caller has may also be `odd`, a text with quotes or backslashes or a time of another zone, or `wide`, more than
the column holds. Values that are printed into a statement (`Printed`) are not escaped, so that an odd text
makes it fail, or write something else or to other rows (`Garbled`, `Distorted`); those that the driver sends
(`Sent`) are. `isNil` is modelled as it behaves: its condition is inverted (`templateutils.go:50`), so that
columns of most types are set to null. The database refuses what MySQL's strict mode, the default, refuses, the
zero time too, and what repeats a unique index. `reader` is a caller that goes through `PageMany` while
`HasNext`, two statements per page. `Usable` says when the service compiles, and bounds the model to structs
whose key is the table's and is not a time, and to fields that keep their types. Further bounds: two columns
never come back under one name, an index is over whole columns, a garbled statement leaves keys alone, two cells
`other` and two times of CURRENT_TIMESTAMP differ, and times have no fractions of a second.

## Runs

| run | question | bounds and why they are enough |
|---|---|---|
| `registry` | are the members the live nodes, what does Discover answer | 3 nodes (first, middle and last entry of the slice), 2 services, one unparsable value, 4 entries, so that a node can be listed twice; the same run checks the refinement of the directory |
| `member_slice` | what can a racing Discover miss | 3 nodes, arrays of 1, 2 and 4 slots (two reallocations and in-place appends), up to 2 callbacks during the call, any history before |
| `member_slice_refine` | is the slice the list | 2 nodes, unparsable meta data, duplicates |
| `round_robin` | index and counter; turns while selections do not overlap | 3 goroutines, lists of 0 to 3, 5 calls: more than a round |
| `round_robin_race` | are two goroutines served in turn | **violated**: see Findings |
| `load_balancer` | selection under a changing cluster | 2 nodes that come and go with parsable and unparsable meta data, answers of up to 3 entries, 4 calls of one caller (any number: proved) whose Discover any number of callbacks overlap |
| `es_list` | results, lost hits, hangs, return | 3 workers, 4 hits: 1 more than workers, enough for all to give up while the producer holds one; pages of up to 3, so that a second page comes; with and without a callback |
| `service_process` | what is released, lost, answered; when the nil queue is met; does an interrupted service end | 2 requests (one in time and one late, or never ending; one of a method that can report errors and one that cannot), 2 starts (a second one that peers know), every step may fail |
| `scaffold` | are edits kept, handlers declared once, torn files noticed | 4 methods (the first, another, one whose code does not parse, and one the tool refuses), edits of the extended file and of a file created once, 2 edits and 3 commands: init, http, and http again |
| `scaffold_rule` | are existing files left alone | **violated**: see Findings; no edits |
| `call` | which arguments arrive, which method runs, what an answer tells, what the casts keep | every verb with every type of parameter, alone and in pairs (what a parameter loses depends on one before it); two methods of one route, by a `Post` or by the case of letters; texts that are decimal, octal, hexadecimal, JSON or no number; integers of 2 to 5 bits (`MCSize`) and floats that have every multiple of a half below 4 and 16 (`MCDense`), so that each width has values that only the next holds; 2 conversions in a row: there and back |
| `dao` | what a clean run of the tool guarantees, which operations fail, what they change, what a reader misses | 2 tables, one the service uses; 2 runs of the tool (reverse then forward, forward twice), 1 change by the developer and 1 failure between them; every column type, columns whose name, default, key or index does not come back; data of every kind, conditions with an odd text, a unique index; rows up to id 3, 1 write at any point, pages of 2 rows, so that three rows make a full page and one that is not (every size: proved) |

Every run but the findings' passes. `CHECK_DEADLOCK FALSE` stands where the program really stops: a panicked
process, a bound on calls, commands or starts reached, List returned or hung. Symmetry is used in runs without
liveness only.

**Fairness.** `FairSpec` of `EsList` is weak fairness of the whole next-state relation: as long as some
goroutine can run, one does. Go's scheduler guarantees more. It assumes that a scroll request and a callback
end. `FairSpec` of `ServiceProcess` is weak fairness of the main goroutine alone: it is never starved, and the
timer of the grace period fires, since `GDD_GRACETIMEOUT` is finite or replaced by 15s. Requests, peers and
signals owe nothing.

## What the checks show

* The callbacks keep the list exact for every node that always announced parsable meta data, whatever the others
  did (`MembersExact`), so that for these nodes the slice implements the directory (`DirSpec`). The index -1 is
  reached only after a node announced meta data that does not parse (`PanicNeedsTaint`); then it does panic: a
  node ignored by NotifyJoin and then updated or leaving with parsable meta data stops the process.
* Discover answers every listed node of the service, suspected ones too (`DiscoverExact`). A racing Discover
  hides a node only if a removal ran meanwhile (`JoinsHideNothing`), and crashes only if an append did
  (`CrashNeedsJoin`). It can answer a node that left long ago: an append may show the new length before it fills
  the slot, which still points to a removed record, and nothing in the record says so; without an append it
  cannot (`GhostNeedsAppend`). Without any callback it answers what it should (`CalmDiscoverExact`), and twice
  only a node that once announced meta data that does not parse.
* The index of SelectServer is always in range and the counter bounded, and nodes get their turns as long as no
  two selections overlap (`SerialFairTurns`). A division by zero needs that no node was live and of the service
  throughout the call's Discover, or that a removal ran meanwhile, which can hide the nodes that were
  (`PanicOnlyUnserved`).
* List never answers a hit twice and never all-failed as success. Without an error it may lack hits, because
  `err` is shared: a worker that tests another's error and then wraps nil drops what it had, also the result of
  a callback that succeeded. It takes a failed callback, and costs fewer hits than there are workers
  (`EveryHitOnce`). It returns unless it is abandoned (`Terminates`), which takes a failure and more hits than
  workers (`AbandonedNeedsHits`): a fixed pool of ten goroutines can hang on eleven hits.
* An interrupted service ends, whatever its requests do (`StopsWhenAsked`), and loses or leaves without a
  connection only requests that outlived the grace period (`GraceKept`). The database is closed on every way out
  of `main` that Go code controls (`ConnReleased`). Results mean that the request took effect, if its method can
  report an error. A 400 of the handler for its parameters, a 500 once the connection is closed, and a 500 from
  `Logger`'s dump mean that it did not; any other 500, and `Logger`'s 400 after a multipart form, tell nothing
  (`AnswersTellEffects`). The nil queue is met only by a process that the cluster knew before it started, or
  whose address is someone's seed (`CrashNeedsPast`): then a restart can crash.
* An edit made by hand survives every run of `svc http` in the files it does not generate anew, unless it was
  saved between the reading and the writing of `handlerimpl.go`, or the command was stopped in the middle of the
  writing (`EditsKept`); a handler is declared twice only if it was written by hand between the parsing and the
  reading (`DeclaredOnce`). A generated file is left empty by a stop, or since its source did not parse
  (`EmptyIsExplained`): one method without a result is enough for `handlerimpl.go`, and `svc http` accepts it. A
  command that completes has made the handlers, the client and the OpenAPI document agree with the interface,
  but a file that was left empty before stays empty (`AgreesAtEnd`): `os.Stat` finds it, and nothing generates
  it again.
* The arguments of a call arrive as they were (`ArgsArrive`), but for those listed in `Lossy`: what the
  service's client puts into the form of a DELETE or the body of a GET, files in either; in a multipart form,
  values after a list, since `ParseForm` leaves `Form` set; files that are not there; through the document,
  names that are not lowerCamel, files, values of any type in a map (they become structs without fields), and
  integers narrower than 32 bits sent out of their range; whole numbers in an `interface{}` that no float64
  holds. Whatever is lost, a method runs in place of another only if their names are the same but for the case
  of letters and a `Post`, and twice only if it is a `Get` (`RunsAsNamed`); an error of a method without an
  error result is zero values to the caller (`AnswerTellsEffects`).
* A chain of conversions through types that can all hold a number keeps it (`CastsKeep`), if a text of it is a
  plain decimal: `010` is 8 to the integers and 10 to the others. Outside, the narrowing integer conversions
  wrap silently, and `ToBool` makes false of every number that is not an `int`.
* After a run of the ddl tool without failures every struct has its table (`TablesAgree`), and structs written
  from tables make the same columns again, under the names that come back and with the text of what was an
  expression for a default. The key and the indexes come back but for keys of several columns, columns in two
  indexes, descending indexes, and those over columns that are renamed (`StructsCarryTables`). Run on the old
  database, the tool adds a renamed column beside the old one. A default with a colon never gets to the
  database.
* While the table is as the struct has it, the generated operations fail only for the reasons `DaoErrorsKnown`
  lists: keys and unique indexes, conditions and data the database refuses, statements older than both, and
  three mistakes of the templates: `Update` has one placeholder more than arguments (`dao.sql.tmpl:60-68`) and
  always fails, the inverted `isNil` makes `UpdateMany` and `UpsertNoneZero` write null to columns that refuse
  it, and texts are printed without escapes. What succeeds does what was asked (`WritesAsAsked`), but for the
  nulls of `isNil`, the zone of a printed time, and statements into which a text with quotes or backslashes was
  printed: of those the model says nothing.
* A reader of pages sees every row that was there when it began, unless one is deleted meanwhile (`ReadAll`).

### Findings

`round_robin_race`: README.md:218 calls the strategy of SelectServer round robin. Two goroutines that select at
once undo each other's additions (`client.go:100-101`), and a node is selected two times more often than another
although the list never changed.

`scaffold_rule`: README.md:174 says that the files other than handler.go and handlerimpl.go are generated only
if they do not exist. The go client and the OpenAPI document are written anew by every run that is asked for
them (`httpclient.go`, `doc.go`).

## Proofs

Each proof module EXTENDS the module it is about. It defines an inductive invariant as a conjunction of named
parts, has one lemma per action (or group of actions) with a step per part, and derives the properties from it.
The theorems hold for every value of the constants that meets the assumptions named where the constants are
declared (finite sets where something is counted, `Service \subseteq Meta`, interfaces made of methods, structs
with distinct fields); TLC evaluates those in the runs.

`RegistryProofs`, for any sets of nodes, services and meta data: type correctness, `MembersExact`,
`PanicNeedsTaint` and `DiscoverExact`. The strengthening `LiveParsable` is needed since NotifyLeave looks at the
meta data the node announced last. The lemmas on `IndexOfAny` and `Without` say which entries a removal keeps,
those on `Filter` which ones Discover answers. `ImplementsDirectory` is the refinement of `Directory`, without
an assumption on what nodes announce.

`MemberSliceProofs`, for any number of arrays of any capacities and any number of callbacks during a Discover.
`WInv` is about the callbacks alone: what a callback has yet to store leaves every element but the one it adds
where it is (`Adding`), and no slot of the slice empty (`Filled`). With it the settled slice is the list of
`Registry` (`SliceIsListRead`), and the invariant of `RegistryProofs` holds of it, instantiated. `RInv` is about
the reader, by the kinds of callbacks that overlapped it: without a growth it reads the current array
(`SameArray`), without an append no empty slot (`NoEmptySlot`), without a leave every node it should find stays
at one position of every array it may be reading (`NothingHidden`), without any of them it reads the list
(`CalmReading`). `Leftover` says what callbacks leave in the slots beyond the list, and `NoGhost` that without
an append in place no slot within the reader's reach points to a node that was not listed during the call. From
these come `GhostNeedsAppend`, `CrashNeedsJoin`, `JoinsHideNothing` and `CalmDiscoverExact`, for stores that
land in any order.

`RoundRobinProofs`: `PickInRange` and `CounterBounded` for any number of goroutines and any lengths, and
`SerialFairTurns`: while nothing overlaps, the invariant ties the counter to the node that is next in turn. The
load balancer implements the round robin (`SelectsInTurn`), because Discover never answers more than the members
(`ServingBounds`, `OvertakenBounds`), and so has these properties too. `PanicOnlyUnserved`, an action property,
rests on `SteadyKept` (nodes that are live and of the service throughout a Discover are listed and of it
throughout, by the registry's invariant) and `EmptyUnserved` (a call that got no nodes had none of those, or a
removal overtook it). `FairSinceChange`, for a single caller, starts anew at every change of Discover's answer:
the counter may be left at any value, also out of range, until the first selection from the new answer, and from
then on the element that comes sooner was selected less often, by one at most (`Turns`).

`EsListProofs`, for any number of hits, workers and any page sizes: type correctness, `EveryHitOnce`,
`SomeSuccess`, `LastErrAgrees` and `AbandonedNeedsHits`. Its `IInv` says where each hit is (`HitsApart`: with
the producer, one worker, the result channel, or done, and nowhere twice; `Accounted`: a hit without a result is
with a worker that ended with it; `AllTaken`: the producer leaves only when none remain or something failed) and
what is still to be seen of failures (`ErrSeen`; `FailureSeen`: only a failure makes a worker drop a hit;
`Spared`: without an error of the group some worker drops none). `AbandonedNeedsHits` rests on `GaveUp`: a
worker that ended early holds a failed hit, so that all of them and the producer together stand for more hits
than workers.

`ServiceProcessProofs`: type correctness, `ConnReleased`, `AnswersTellEffects`, `CrashNeedsPast` and the action
property `GraceKept` for any number of requests and starts. `ConnStage`, `GossipStage` and `HttpStage` fix the
connection, the queue of broadcasts and the listener at every stage of `main`; none of the properties is
inductive without them: that an exit finds the connection closed, or that a request without one is late, depends
on how `main` got there. `RequestStage` says at each stage of a request what its answer will tell of its effect.
`UnservedIsLate` is the fact `GraceKept` turns on: a connection is closed under a request only after the
deferred close, hence after the grace period.

`ScaffoldProofs`: `EditsKept`, `DeclaredOnce`, `EmptyIsExplained` and `AgreesAtEnd` for any interface and any
number of commands, stops and edits. `EditsKept` needs that the copy of `handlerimpl.go` has every edit saved
before the reading (`CopyStage`) and that a file being written is empty (`Writing`); `EmptyIsExplained` needs
that `svc http` never runs without a readable `go.mod` (`ModKept`: `svc.go` is whole only after `go.mod` is),
since `GenGoClient` would otherwise panic on a file it has just truncated; `DeclaredOnce` needs that the
handlers to be added are none that the file has, unless one was written by hand (`Unexcused`). `AgreesAtEnd`
speaks of all steps of a command at once; its invariant `Progress` says it step by step: every file of the
command is still to be visited, once, or is as the command leaves it (`Made`) and stays so, and the handlers
missing from `handlerimpl.go` are on their way there (`Extending`).

`CallProofs`, for any set of interfaces, any widths of the types and any number of conversions:

* `RunsAsNamed` and `AnswerTellsEffects`: `Counted` says that the method ran less often than the request was
  sent while the handler parses; `Ran` that what ran is what the route leads to. `RoutedFirst` is the fact about
  the router: the first route with the same verb and pattern, which is at or before the method's own; two names
  with one route differ by the case of letters or a `Post`, because `InterfaceAssumption` says that no two
  methods of an interface have one name.
* `CastsKeep`: `CastKeeps` is the lemma about `castFuncMap`, over lemmas for each group of its conversions: from
  a value whose numbers are all carried exactly (`Exactly`: a scalar, a plain decimal text of one, a list or map
  of these, a map of lists of one) and fit the type, a conversion that succeeds makes such a value with the same
  numbers. The invariant `Held` applies it at each conversion. That the chain starts with such a value is
  `ParsesFine`: whatever the handler makes of a text, also of another method's request, converts soundly if it
  is a number.
* `ArgsArrive`: `ScalarArrives` and `ListArrives` say that what `fmt` prints of an argument in the range of the
  parameter's type is parsed to the same value, also where the document's client has a wider type.
  `BuiltinPlace`, `BodyPlace` and `Finds` relate where a client puts an argument to what `_req.Form` holds when
  the handler asks. The invariant `Arriving` needs `FormRead`: the form of a multipart request is read without
  its body only after a list, and then every value of the multipart form is `Lossy`.

`DaoProofs`, for any tables, structs and conditions, any number of runs, failures, edits and writes, and pages
of any size:

* `TablesAgree`: `Forward` says that a forward run applies the structs as they are, since nobody changes them
  under it, and `Applied` that the tables, and the columns of the present table, it is done with agree, if
  nothing failed. That a column, once altered, stays as it is while the following ones are altered is a step of
  each action.
* `StructsCarryTables`: the round trip from a table to its struct and back, for any number of columns, keys and
  indexes. Lemmas on the two translations (`NewFieldFromColumn`, `NewTableFromStruct`) say that every column
  comes back under its new name (`Backs`) with its clauses cut (`Cut`), that the key does if it has one column,
  and that every index does, with its columns in their order, if none is renamed or descending (`Plain`) and no
  column is in two of a kind (`Apart`): then every clause of a tag counts, and sorting by the order it gives
  restores the sequence. The invariant carries this through the runs: a struct is what was written from its
  `origin` or still to be read back (`Unread`, `Copied`), and a table that a run has altered holds, up to its
  rows, the columns it came from and those of the struct (`Keeps`, `Altering`, `ToRead`, `Carried`). `IsSchema`,
  part of `DdlAssumption`, is what MySQL guarantees of a table: finitely many columns, the key and the indexes
  among them, no column twice in an index, one index to a name.
* `ReadAll`: a row of the beginning that was not seen is beyond the pages read so far, in the order of the ids
  (`Reading`). Rows that come can only push it further; the arithmetic of `HasNext` (`PagesCover`) says that a
  row beyond the last page does not exist, and `Ranks` that the rank of a row is less than the number of rows.
* `WritesAsAsked`, `DaoErrorsKnown`: lemmas say what `Insert`, `Update` and `Upsert` do to the rows and when
  they are refused, and, operation by operation, that what succeeds is as asked (`AsAsked`) and what fails is
  explained (`Explained`); they need of the state that tables, structs and files are well formed (`Shapes`), and
  that the ids are finitely many (`RowIds`), so that the next one of an auto_increment key is new (`NextIdNew`).
  What a unique index does is carried through `Repeated` and `Clash`: a row that an upsert finds shares the
  values of one with what was given.

Where an argument is an induction over numbers it is by the least counterexample (`LeastElement`, from the
well-foundedness of the naturals).

Only model-checked: `Terminates` and `StopsWhenAsked`, liveness under fairness, which is out of the prover's
reach. Every other property of a passing run is a theorem. `CastAssumption` is all that the proofs know of the
types: an integer type has more values than 0 and 1, half of them below zero if it is signed, and at most as
many as `int64`; a float type has 1.5, and its spacing at the largest integers is at most 2^64.

## Not modelled

See the components in `PROJECT.json` for each part.

* **Service commands** (`push`, `deploy`, `shutdown`, `scale`, `publish`): fixed sequences of calls of docker,
  kubectl and npm that stop at the first failure and keep nothing between runs; the state is in those tools.
* **Addresses and ports**: a node is identified with its address; `BaseUrl` and `GDD_PORT` are decided by the
  environment.
* **Documents written by hand**: the client generator also reads OpenAPI documents that no service generated
  (references, headers, path parameters, several contents). `Api` models the documents that go-doudou writes.
* **Go source inspection** (`astutils`): the models take what it collects as given. Parsing and printing Go keep
  no state.
* **Of the database**: `base.go`, the transactions of `wrapper.go` (sqlx), the extra clause of a column, names
  of tables that do not come back and their prefixes, types changed under existing statements, MySQL outside its
  strict mode, migrations while a reader is between two pages, `SelectMany`'s text.
* **Of the casts**: lists of other types, pointers, Stringers and errors, bytes, NaN and the infinities, texts
  of several words.
* **Elasticsearch queries and pages**, single-request wrappers, the limited form of `List`: one request each.
* **Command line, banners, logging, formatting, the containers of the integration tests.**
