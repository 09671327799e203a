--------------------------- MODULE ServiceProcess ---------------------------
(***************************************************************************)
(* The life of one generated service: the main function of                 *)
(* svc/internal/codegen/main.go:30-64, NewNode of svc/registry/node.go,    *)
(* Run of svc/http/default.go and the requests that pass through Logger of *)
(* svc/http/middleware.go, with the signals that may reach the process at  *)
(* any moment and what the peers of its cluster believe of its address.    *)
(* A process that ended may be started again at the same address.          *)
(***************************************************************************)
EXTENDS Naturals

CONSTANTS
    Request,    \* the requests that may arrive
    Telling,    \* those of methods that have a result of type error
    Micro,      \* GDD_MODE is "micro"
    MayFail,    \* whether what can fail may fail
    MaxStarts   \* bound of the model on the number of starts

ASSUME ServiceProcessAssumption == /\ Micro \in BOOLEAN /\ MayFail \in BOOLEAN
                                   /\ MaxStarts \in Nat

VARIABLES
    main,       \* where the main goroutine stands, "down" without a process
    db,         \* conn: "none", "open" or "closed"
    gossip,     \* memberlist: "none", "bare" before broadcasts is assigned,
                \* "ready", "shut"
    http,       \* the server: "none", "starting", "listening", "failed", "closed"
    interrupt,  \* a SIGINT was put in Run's channel
    req,        \* where each request stands, or how it ended
    view,       \* what peers believe of the address: "none", "alive",
                \* "suspect" or "dead"
    starts,     \* the number of starts so far
    end,        \* how the last process ended
    effects,    \* history: the requests whose handler took effect
    late,       \* history: the requests that outlived the grace period
    known       \* history: peers knew the address of this process by themselves

vars == <<main, db, gossip, http, interrupt, req, view, starts, end, effects,
          late, known>>
process == <<db, gossip, http, interrupt, view, starts, end, known>>
requests == <<req, effects, late>>

Busy(r) == req[r] \in {"dump", "inner", "copy", "copyRefused", "copyFailed", "copyError"}

Init == /\ main = "down" /\ db = "none" /\ gossip = "none" /\ http = "none"
        /\ interrupt = FALSE /\ view = "none" /\ known = FALSE
        /\ starts = 0 /\ end = "none"
        /\ req = [r \in Request |-> "none"] /\ effects = {} /\ late = {}

-----------------------------------------------------------------------------
(* The main goroutine.                                                      *)

Start ==
    /\ main = "down" /\ starts < MaxStarts
    /\ main' = "env" /\ db' = "none" /\ end' = "none"
    /\ starts' = starts + 1 /\ known' = (view # "none")
    /\ UNCHANGED <<gossip, http, interrupt, view>> /\ UNCHANGED requests

\* The process ends; the requests it was serving are lost.
Down(how) ==
    /\ main' = "down" /\ end' = how
    /\ gossip' = "none" /\ http' = "none" /\ interrupt' = FALSE
    /\ req' = [r \in Request |-> IF Busy(r) THEN "lost" ELSE req[r]]
    /\ UNCHANGED <<db, view, starts, known, effects, late>>

At(here, there) == /\ main = here /\ main' = there
                   /\ UNCHANGED requests

\* A panic of the main goroutine runs its deferred functions.
Panic(here) == At(here, "unwind")

\* Load ends the process on an error, with logrus.Fatal.
LoadEnv == \/ At("env", "db") /\ UNCHANGED process
           \/ MayFail /\ main = "env" /\ Down("fatal")

\* Mutant of the step below: Close is deferred before the error is checked.
MutOpenDb == \/ /\ At("db", IF Micro THEN "create" ELSE "serve")
                /\ db' = "open"
                /\ UNCHANGED <<gossip, http, interrupt, view, starts, end, known>>
             \/ MayFail /\ Panic("db") /\ UNCHANGED process

\* The deferred Close is only registered after NewDb's error is checked.
OpenDb == \/ /\ At("db", IF Micro THEN "create" ELSE "serve")
             /\ db' = "open"
             /\ UNCHANGED <<gossip, http, interrupt, view, starts, end, known>>
          \/ MayFail /\ main = "db" /\ Down("panicked")

\* memberlist.Create starts its goroutines before it returns.
Create == \/ /\ At("create", "assign")
             /\ gossip' = "bare"
             /\ UNCHANGED <<db, http, interrupt, view, starts, end, known>>
          \/ MayFail /\ Panic("create") /\ UNCHANGED process

\* Mutant of the step below: Register comes before the fields are set.
MutAssign == At("assign", "register") /\ UNCHANGED process

\* The fields memberlist and broadcasts are set.
Assign == /\ At("assign", "register")
          /\ gossip' = "ready"
          /\ UNCHANGED <<db, http, interrupt, view, starts, end, known>>

\* Register does nothing without a seed, else it joins through it; when that
\* fails NewNode shuts memberlist down, and peers may have noted it or not.
Register ==
    \/ /\ At("register", "serve")
       /\ view' \in {view, "alive"}
       /\ UNCHANGED <<db, gossip, http, interrupt, starts, end, known>>
    \/ /\ MayFail /\ Panic("register")
       /\ view' \in {view, "alive"}
       /\ gossip' = "shut"
       /\ UNCHANGED <<db, http, interrupt, starts, end, known>>

\* newServer leaves ListenAndServe to a goroutine, and goes on.
Serve == /\ At("serve", "notify")
         /\ http' = "starting"
         /\ UNCHANGED <<db, gossip, interrupt, view, starts, end, known>>

Notify == At("notify", "wait") /\ UNCHANGED process

\* <-c, and Shutdown closes the listener.
Shutdown == /\ At("wait", "drain")
            /\ interrupt
            /\ http' = "closed"
            /\ UNCHANGED <<db, gossip, interrupt, view, starts, end, known>>

\* Mutants, which no run uses: plausible mistakes in the code they precede.
MutDrained ==     \* the grace period is not waited for
    /\ main = "drain"
    /\ main' = "closing"
    /\ UNCHANGED process /\ UNCHANGED requests
MutExpire == FALSE /\ UNCHANGED vars    \* no deadline
MutCloseDb ==     \* closed on the way of the ordinary return only
    /\ main \in {"closing", "unwind"}
    /\ main' = "exit"
    /\ db' = IF main = "closing" THEN "closed" ELSE db
    /\ UNCHANGED <<gossip, http, interrupt, view, starts, end, known>>
    /\ UNCHANGED requests
\* Shutdown returns when all requests are done, or when the grace period is
\* over; its error is not looked at.
Drained == /\ At("drain", "closing")
           /\ \A r \in Request : ~Busy(r)
           /\ UNCHANGED process

Expire == /\ main = "drain" /\ main' = "closing"
          /\ \E r \in Request : Busy(r)
          /\ late' = late \cup {r \in Request : Busy(r)}
          /\ UNCHANGED process /\ UNCHANGED <<req, effects>>

\* The deferred function of main.
CloseDb == /\ main \in {"closing", "unwind"}
           /\ main' = "exit"
           /\ db' = "closed"
           /\ UNCHANGED <<gossip, http, interrupt, view, starts, end, known>>
           /\ UNCHANGED requests

Exit == main = "exit" /\ Down("exited")

Main == \/ LoadEnv \/ OpenDb \/ Create \/ Assign \/ Register \/ Serve \/ Notify
        \/ Shutdown \/ Drained \/ Expire \/ CloseDb \/ Exit

-----------------------------------------------------------------------------
(* Requests, each on a goroutine of net/http.                               *)

Go(r, here, there) == /\ req[r] = here
                      /\ req' = [req EXCEPT ![r] = there]
                      /\ UNCHANGED main /\ UNCHANGED process
                      /\ UNCHANGED late

Listen == /\ http = "starting"
          /\ http' \in IF MayFail THEN {"listening", "failed"} ELSE {"listening"}
          /\ UNCHANGED <<main, db, gossip, interrupt, view, starts, end, known>>
          /\ UNCHANGED requests

Accept(r) == /\ http = "listening"
             /\ Go(r, "none", "dump") /\ UNCHANGED effects

\* Mutant of the step below: the handler runs although the dump failed.
MutDump(r) ==
    /\ req[r] = "dump"
    /\ \/ req' = [req EXCEPT ![r] = "inner"] /\ UNCHANGED effects
       \/ /\ req' = [req EXCEPT ![r] = "serverError"]
          /\ effects' = effects \cup {r}
    /\ UNCHANGED main /\ UNCHANGED process /\ UNCHANGED late

\* Logger dumps the request, and answers 500 itself when that fails.
Dump(r) == \/ Go(r, "dump", "inner") /\ UNCHANGED effects
           \/ MayFail /\ Go(r, "dump", "serverError") /\ UNCHANGED effects

\* The generated handler, httphandlerimpl.go:107-225: it refuses parameters it
\* cannot read with 400 before it calls the method.  The method takes effect
\* through the connection, or finds it closed; it may fail with its effect
\* standing or not, and its results may be impossible to send, which is 500
\* (400 if it was cancelled).  A panic before or after the effect is recovered
\* by net/http, which closes the client's connection.
Handle(r, there, effect) ==
    /\ Go(r, "inner", there)
    /\ effects' = IF effect THEN effects \cup {r} ELSE effects

Inner(r) ==
    \/ MayFail /\ Handle(r, "copyRefused", FALSE)
    \/ db = "open" /\ Handle(r, "copy", TRUE)
    \/ db # "open" /\ Handle(r, "copyError", FALSE)
    \/ /\ MayFail
       /\ \E effect \in IF db = "open" THEN BOOLEAN ELSE {FALSE} :
              \/ Handle(r, "aborted", effect)
              \/ db = "open" /\ Handle(r, "copyFailed", effect)

\* Logger parses a multipart form once more, answers 400 when that fails, and
\* else copies the recorded response.  A method without a result of type error
\* cannot tell the handler that it failed: the response is its zero values.
Copy(r) ==
    /\ UNCHANGED effects
    /\ \/ Go(r, "copy", "answered")
       \/ Go(r, "copyRefused", "refused")
       \/ Go(r, "copyFailed", "failed")
       \/ Go(r, "copyError", "dbError")
       \/ r \notin Telling /\ (Go(r, "copyFailed", "answered") \/ Go(r, "copyError", "answered"))
       \/ MayFail /\ \E there \in {"copy", "copyRefused", "copyFailed", "copyError"} :
                         Go(r, there, "badRequest")

Serving == /\ main # "down"
           /\ Listen \/ \E r \in Request : Accept(r) \/ Dump(r) \/ Inner(r) \/ Copy(r)

-----------------------------------------------------------------------------
(* Signals and peers.                                                       *)

\* SIGINT: before signal.Notify it kills the process.
Interrupt == /\ main # "down" /\ ~interrupt
             /\ \/ /\ main \in {"wait", "drain", "closing"} \/ (main = "exit" /\ http # "none")
                   /\ interrupt' = TRUE
                   /\ UNCHANGED <<main, db, gossip, http, view, starts, end, known>>
                   /\ UNCHANGED requests
                \/ /\ main \in {"env", "db", "create", "assign", "register", "serve",
                                "notify", "unwind"} \/ (main = "exit" /\ http = "none")
                   /\ Down("killed")

\* SIGTERM and SIGKILL, at any time.
Kill == main # "down" /\ Down("killed")

\* A peer whose GDD_SEED is this address joins through it.
Meet == /\ gossip \in {"bare", "ready"}
        /\ view' = "alive" /\ known' = TRUE
        /\ UNCHANGED <<main, db, gossip, http, interrupt, starts, end>>
        /\ UNCHANGED requests

\* A packet is exchanged with a peer that knows the address, be it to probe
\* it, to gossip or to announce it dead.  The answer asks GetBroadcasts for
\* messages, which dereferences broadcasts.
Contact == /\ view # "none"
           /\ \/ gossip = "bare" /\ Down("crashed")
              \/ /\ gossip = "ready"
                 /\ view' = "alive"
                 /\ UNCHANGED <<main, db, gossip, http, interrupt, starts, end, known>>
                 /\ UNCHANGED requests

\* Packets get lost: the address is suspected and declared dead.
Suspect == /\ \/ view = "alive" /\ view' = "suspect"
              \/ view = "suspect" /\ view' = "dead"
           /\ UNCHANGED <<main, db, gossip, http, interrupt, starts, end, known>>
           /\ UNCHANGED requests

Next == \/ Start \/ Main \/ Serving
        \/ Interrupt \/ Kill \/ Meet \/ Contact \/ Suspect

Spec == Init /\ [][Next]_vars

\* The main goroutine is never starved, and the timer of the grace period
\* fires; nothing is assumed of the requests.
FairSpec == Spec /\ WF_vars(Main)

-----------------------------------------------------------------------------
(* Properties *)

TypeOK ==
    /\ main \in {"down", "env", "db", "create", "assign", "register", "serve",
                 "notify", "wait", "drain", "closing", "unwind", "exit"}
    /\ db \in {"none", "open", "closed"}
    /\ gossip \in {"none", "bare", "ready", "shut"}
    /\ http \in {"none", "starting", "listening", "failed", "closed"}
    /\ interrupt \in BOOLEAN /\ known \in BOOLEAN
    /\ req \in [Request -> {"none", "dump", "inner", "copy", "copyRefused", "copyFailed",
                            "copyError", "answered", "refused", "failed", "dbError",
                            "serverError", "badRequest", "aborted", "lost"}]
    /\ view \in {"none", "alive", "suspect", "dead"}
    /\ starts \in 0..MaxStarts
    /\ end \in {"none", "fatal", "panicked", "killed", "crashed", "exited"}
    /\ effects \subseteq Request /\ late \subseteq Request
    /\ main \in {"closing", "unwind"} => db = "open"

\* An ordered end answers every request that is done within the grace period,
\* and takes the database from none of them: it only loses, or leaves without
\* a connection, requests that outlived that period.
GraceKept ==
    [][\A r \in Request :
           /\ Busy(r) /\ req'[r] = "lost" /\ end' = "exited" => r \in late
           /\ req'[r] = "copyError" => r \in late]_vars

\* However the start fails or the service ends, the connection is closed,
\* unless something ends the process from outside main's goroutine.
ConnReleased == main = "down" /\ db = "open" => end \in {"killed", "crashed"}

\* What an answer tells of the effects.  Results mean that the request took
\* effect, if its method has an error to return.  Three answers mean that it did
\* not: the handler's 400 for its parameters, the handler's 500 once the
\* connection is closed, and Logger's own 500.  The handler's 500 otherwise and
\* Logger's 400 tell nothing: the effect may stand.
AnswersTellEffects == \A r \in Request :
    /\ req[r] = "answered" /\ r \in Telling => r \in effects
    /\ req[r] \in {"refused", "serverError", "dbError"} => r \notin effects

\* The window in which GetBroadcasts meets a nil queue is open to a process
\* only if peers knew its address before it started, or joined through it.
CrashNeedsPast == end = "crashed" => known

\* A service that was interrupted ends, whatever its requests do.
StopsWhenAsked == interrupt ~> main = "down"
=============================================================================
