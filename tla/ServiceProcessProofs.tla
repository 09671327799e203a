------------------------ MODULE ServiceProcessProofs ------------------------
(***************************************************************************)
(* Theorems about ServiceProcess.tla, for every number of requests and of  *)
(* starts, whether the mode is micro and whether things fail or not.       *)
(***************************************************************************)
EXTENDS ServiceProcess, TLAPS

(* The inductive invariant, in named parts.                                *)

\* The connection at every stage of main.
ConnStage ==
    /\ main \in {"env", "db"} => db = "none"
    /\ main \in {"create", "assign", "register", "serve", "notify", "wait",
                 "drain", "closing", "unwind"} => db = "open"
    /\ main = "exit" => db = "closed"
    /\ ConnReleased

\* The window without a queue of broadcasts, and who knows the address in it.
GossipStage ==
    /\ gossip = "bare" => main = "assign"
    /\ main \in {"env", "db", "create", "assign"} /\ view # "none" => known
    /\ CrashNeedsPast

\* The server at every stage of main; who is served when main comes to an end
\* has outlived the grace period.
HttpStage ==
    /\ main \in {"down", "env", "db", "create", "assign", "register", "serve",
                 "unwind"} => http = "none"
    /\ main \in {"drain", "closing"} => http = "closed"
    /\ main = "exit" => http \in {"none", "closed"}
    /\ http = "none" => \A r \in Request : ~Busy(r)
    /\ main \in {"closing", "exit"} => \A r \in Request : Busy(r) => r \in late

\* The effects at every stage of a request.
RequestStage == \A r \in Request :
    /\ req[r] = "copy" \/ (req[r] = "answered" /\ r \in Telling) => r \in effects
    /\ req[r] \in {"none", "dump", "inner", "copyRefused", "copyError", "refused",
                   "serverError", "dbError"} => r \notin effects
    /\ req[r] = "copyError" => r \in late

IInv == TypeOK /\ ConnStage /\ GossipStage /\ HttpStage /\ RequestStage

-----------------------------------------------------------------------------
(* However the process goes down, the invariant holds, if the connection    *)
(* was released or the end came from outside, and a crash is accounted for. *)
LEMMA DownIInv ==
    ASSUME IInv, NEW how \in {"fatal", "panicked", "killed", "crashed", "exited"},
           Down(how),
           db = "open" => how \in {"killed", "crashed"},
           how = "crashed" => known
    PROVE  IInv'
<1> USE DEF IInv
<1>1. TypeOK'
    BY DEF TypeOK, Down, Busy
<1>2. ConnStage'
    BY DEF ConnStage, ConnReleased, Down
<1>3. GossipStage'
    BY DEF GossipStage, CrashNeedsPast, Down
<1>4. HttpStage'
    BY DEF HttpStage, Down, Busy
<1>5. RequestStage'
    BY DEF RequestStage, Down, Busy, TypeOK
<1>6. QED
    BY <1>1, <1>2, <1>3, <1>4, <1>5

(* A start keeps the invariant. *)
LEMMA StartIInv ==
    ASSUME IInv, Start
    PROVE  IInv'
<1> USE ServiceProcessAssumption DEF IInv, Start, requests
<1>1. TypeOK'
    BY DEF TypeOK
<1>2. ConnStage' /\ GossipStage'
    BY DEF ConnStage, ConnReleased, GossipStage, CrashNeedsPast
<1>3. HttpStage'
    BY DEF HttpStage, Busy
<1>4. RequestStage'
    BY DEF RequestStage
<1>5. QED
    BY <1>1, <1>2, <1>3, <1>4

(* Every step of main keeps the invariant. *)
LEMMA MainIInv ==
    ASSUME IInv, Main
    PROVE  IInv'
<1> USE DEF IInv, requests, process, At, Panic
<1>1. CASE LoadEnv
    <2>1. CASE At("env", "db") /\ UNCHANGED process
        BY <2>1 DEF TypeOK, ConnStage, ConnReleased, GossipStage, CrashNeedsPast,
                    HttpStage, RequestStage, Busy
    <2>2. CASE main = "env" /\ Down("fatal")
        BY <2>2, DownIInv DEF ConnStage
    <2>3. QED
        BY <1>1, <2>1, <2>2 DEF LoadEnv
<1>2. CASE OpenDb
    <2>1. CASE main = "db" /\ Down("panicked")
        BY <2>1, DownIInv DEF ConnStage
    <2>2. CASE At("db", IF Micro THEN "create" ELSE "serve") /\ db' = "open"
               /\ UNCHANGED <<gossip, http, interrupt, view, starts, end, known>>
        BY <2>2 DEF TypeOK, ConnStage, ConnReleased, GossipStage, CrashNeedsPast,
                    HttpStage, RequestStage, Busy
    <2>3. QED
        BY <1>2, <2>1, <2>2 DEF OpenDb
<1>3. CASE Create
    BY <1>3 DEF Create, TypeOK, ConnStage, ConnReleased, GossipStage, CrashNeedsPast,
                HttpStage, RequestStage, Busy
<1>4. CASE Assign
    BY <1>4 DEF Assign, TypeOK, ConnStage, ConnReleased, GossipStage, CrashNeedsPast,
                HttpStage, RequestStage, Busy
<1>5. CASE Register
    BY <1>5 DEF Register, TypeOK, ConnStage, ConnReleased, GossipStage, CrashNeedsPast,
                HttpStage, RequestStage, Busy
<1>6. CASE Serve \/ Notify
    BY <1>6 DEF Serve, Notify, TypeOK, ConnStage, ConnReleased, GossipStage,
                CrashNeedsPast, HttpStage, RequestStage, Busy
<1>7. CASE Shutdown
    BY <1>7 DEF Shutdown, TypeOK, ConnStage, ConnReleased, GossipStage,
                CrashNeedsPast, HttpStage, RequestStage, Busy
<1>8. CASE Drained
    BY <1>8 DEF Drained, TypeOK, ConnStage, ConnReleased, GossipStage,
                CrashNeedsPast, HttpStage, RequestStage, Busy
<1>9. CASE Expire
    BY <1>9 DEF Expire, TypeOK, ConnStage, ConnReleased, GossipStage,
                CrashNeedsPast, HttpStage, RequestStage, Busy
<1>10. CASE CloseDb
    BY <1>10 DEF CloseDb, TypeOK, ConnStage, ConnReleased, GossipStage,
                 CrashNeedsPast, HttpStage, RequestStage, Busy
<1>11. CASE Exit
    BY <1>11, DownIInv DEF Exit, ConnStage
<1>12. QED
    BY <1>1, <1>2, <1>3, <1>4, <1>5, <1>6, <1>7, <1>8, <1>9, <1>10, <1>11 DEF Main

(* A request found without a connection has outlived the grace period. *)
LEMMA UnservedIsLate ==
    ASSUME IInv, main # "down", NEW r \in Request, Busy(r), db # "open"
    PROVE  r \in late
<1>1. http # "none"
    BY DEF IInv, HttpStage
<1>2. main = "exit"
    BY <1>1 DEF IInv, TypeOK, HttpStage, ConnStage
<1>3. QED
    BY <1>2 DEF IInv, HttpStage

(* The goroutines of the server keep the invariant. *)
LEMMA ServingIInv ==
    ASSUME IInv, Serving
    PROVE  IInv'
<1> USE DEF IInv, process, requests
<1>1. CASE Listen
    BY <1>1 DEF Serving, Listen, TypeOK, ConnStage, ConnReleased, GossipStage,
                CrashNeedsPast, HttpStage, RequestStage, Busy
<1>2. ASSUME NEW r \in Request, Accept(r) \/ Dump(r) \/ Inner(r) \/ Copy(r)
      PROVE  IInv'
    <2>1. UNCHANGED <<main, db, gossip, http, interrupt, view, starts, end, known, late>>
        BY <1>2 DEF Accept, Dump, Inner, Handle, Copy, Go
    <2>2. TypeOK'
        <3>1. effects' = effects \/ effects' = effects \cup {r}
            BY <1>2 DEF Accept, Dump, Inner, Handle, Copy, Go
        <3>2. req' \in [Request -> {"none", "dump", "inner", "copy", "copyRefused",
                                   "copyFailed", "copyError", "answered", "refused", "failed",
                                   "dbError", "serverError", "badRequest", "aborted", "lost"}]
            BY <1>2 DEF Accept, Dump, Inner, Handle, Copy, Go, TypeOK
        <3>3. QED
            BY <2>1, <3>1, <3>2 DEF TypeOK
    <2>3. ConnStage' /\ GossipStage'
        BY <2>1 DEF ConnStage, ConnReleased, GossipStage, CrashNeedsPast
    <2>4. HttpStage'
        BY <1>2, <2>1 DEF HttpStage, Accept, Dump, Inner, Handle, Copy, Go, TypeOK, Busy
    <2>5. RequestStage'
        <3>1. main # "down"
            BY DEF Serving
        <3>2. req[r] = "inner" /\ db # "open" => r \in late
            BY <3>1, UnservedIsLate DEF Busy
        <3>3. CASE Inner(r)
            <4>1. /\ req[r] = "inner" /\ r \notin effects
                  /\ effects' = effects \/ effects' = effects \cup {r}
                BY <3>3 DEF Inner, Handle, Go, RequestStage
            <4>2. /\ req'[r] \in {"copyRefused", "copyError"} => effects' = effects
                  /\ req'[r] = "copy" => effects' = effects \cup {r}
                  /\ req'[r] = "copyError" => r \in late
                BY <3>2, <3>3, <4>1 DEF Inner, Handle, Go, TypeOK
            <4>3. /\ req'[r] \in {"copyRefused", "copyError", "copy", "copyFailed", "aborted"}
                  /\ \A q \in Request \ {r} : req'[q] = req[q]
                BY <3>3 DEF Inner, Handle, Go, TypeOK
            <4>4. QED
                BY <2>1, <4>1, <4>2, <4>3 DEF RequestStage
        <3>4. CASE Accept(r) \/ Dump(r) \/ Copy(r)
            BY <2>1, <3>4 DEF RequestStage, Accept, Dump, Copy, Go, TypeOK
        <3>5. QED
            BY <1>2, <3>3, <3>4
    <2>6. QED
        BY <2>2, <2>3, <2>4, <2>5
<1>3. QED
    BY <1>1, <1>2 DEF Serving

(* Signals and peers keep the invariant. *)
LEMMA OutsideIInv ==
    ASSUME IInv, Interrupt \/ Kill \/ Meet \/ Contact \/ Suspect
    PROVE  IInv'
<1> USE DEF IInv, requests
<1>1. CASE Interrupt
    <2>1. CASE Down("killed")
        BY <2>1, DownIInv
    <2>2. CASE UNCHANGED <<main, db, gossip, http, view, starts, end, known, requests>>
               /\ interrupt' = TRUE
        BY <2>2 DEF TypeOK, ConnStage, ConnReleased, GossipStage, CrashNeedsPast,
                    HttpStage, RequestStage, Busy
    <2>3. QED
        BY <1>1, <2>1, <2>2 DEF Interrupt
<1>2. CASE Kill
    BY <1>2, DownIInv DEF Kill
<1>3. CASE Meet
    BY <1>3 DEF Meet, TypeOK, ConnStage, ConnReleased, GossipStage, CrashNeedsPast,
                HttpStage, RequestStage, Busy
<1>4. CASE Contact
    <2>1. CASE view # "none" /\ gossip = "bare" /\ Down("crashed")
        BY <2>1, DownIInv DEF GossipStage
    <2>2. CASE view # "none" /\ view' = "alive"
               /\ UNCHANGED <<main, db, gossip, http, interrupt, starts, end, known, requests>>
        BY <2>2 DEF TypeOK, ConnStage, ConnReleased, GossipStage, CrashNeedsPast,
                    HttpStage, RequestStage, Busy
    <2>3. QED
        BY <1>4, <2>1, <2>2 DEF Contact
<1>5. CASE Suspect
    BY <1>5 DEF Suspect, TypeOK, ConnStage, ConnReleased, GossipStage, CrashNeedsPast,
                HttpStage, RequestStage, Busy
<1>6. QED
    BY <1>1, <1>2, <1>3, <1>4, <1>5

(* The invariant holds in every reachable state. *)
THEOREM StagesHold == Spec => []IInv
<1>1. Init => IInv
    <2>1. Init => TypeOK
        <3>1. Init => interrupt \in BOOLEAN /\ known \in BOOLEAN
            BY Zenon DEF Init
        <3>2. Init => starts \in 0..MaxStarts
            BY ServiceProcessAssumption, SMT DEF Init
        <3>3. QED
            BY <3>1, <3>2 DEF Init, TypeOK
    <2>2. Init => ConnStage /\ GossipStage
        BY DEF Init, ConnStage, ConnReleased, GossipStage, CrashNeedsPast
    <2>3. Init => HttpStage /\ RequestStage
        BY DEF Init, HttpStage, RequestStage, Busy
    <2>4. QED
        BY <2>1, <2>2, <2>3 DEF IInv
<1>2. IInv /\ [Next]_vars => IInv'
    <2>1. SUFFICES ASSUME IInv, [Next]_vars PROVE IInv'
        OBVIOUS
    <2>2. CASE UNCHANGED vars
        BY <2>1, <2>2 DEF vars, IInv, TypeOK, ConnStage, ConnReleased, GossipStage,
                          CrashNeedsPast, HttpStage, RequestStage, Busy
    <2>3. QED
        BY <2>1, <2>2, StartIInv, MainIInv, ServingIInv, OutsideIInv DEF Next
<1>3. QED
    BY <1>1, <1>2, PTL DEF Spec

-----------------------------------------------------------------------------
(* The results.                                                             *)

\* Whatever is stopped, fails or is started again, the variables stay in their
\* ranges, and main's deferred functions only ever close an open connection.
THEOREM ProcessIsTyped == Spec => []TypeOK
<1>1. IInv => TypeOK
    BY DEF IInv
<1>2. QED
    BY <1>1, StagesHold, PTL

\* However the start fails or the service ends, main releases its connection,
\* unless something ends the process from outside main's goroutine.
THEOREM MainReleasesConn == Spec => []ConnReleased
<1>1. IInv => ConnReleased
    BY DEF IInv, ConnStage
<1>2. QED
    BY <1>1, StagesHold, PTL

\* Of every request, whatever fails and whenever the process ends: results
\* mean that it took effect, if its method has an error to return; a refusal of
\* its parameters, a 500 without a connection and Logger's 500 mean that it did
\* not.
THEOREM AnswersAreTrue == Spec => []AnswersTellEffects
<1>1. IInv => AnswersTellEffects
    BY DEF IInv, RequestStage, AnswersTellEffects
<1>2. QED
    BY <1>1, StagesHold, PTL

\* A process crashes in GetBroadcasts only if its peers knew its address.
THEOREM CrashIsForeseen == Spec => []CrashNeedsPast
<1>1. IInv => CrashNeedsPast
    BY DEF IInv, GossipStage
<1>2. QED
    BY <1>1, StagesHold, PTL

\* An ordered end loses no request that is done within the grace period, and
\* takes the database from none.
THEOREM GraceHolds == Spec => GraceKept
<1> DEFINE Kept == \A r \in Request :
               /\ Busy(r) /\ req'[r] = "lost" /\ end' = "exited" => r \in late
               /\ req'[r] = "copyError" => r \in late
<1>1. IInv /\ IInv' /\ [Next]_vars => [Kept]_vars
    <2>1. SUFFICES ASSUME IInv, IInv', Next, NEW r \in Request
                   PROVE  /\ Busy(r) /\ req'[r] = "lost" /\ end' = "exited" => r \in late
                          /\ req'[r] = "copyError" => r \in late
        OBVIOUS
    <2>2. ASSUME req'[r] = "copyError"
          PROVE  r \in late
        <3>1. r \in late'
            BY <2>1, <2>2 DEF IInv, RequestStage
        <3>2. CASE Expire
            BY <2>1, <2>2, <3>2 DEF IInv, RequestStage, Expire
        <3>3. CASE UNCHANGED late
            BY <3>1, <3>3
        <3>4. Expire \/ UNCHANGED late
            BY <2>1 DEF Next, Start, Main, LoadEnv, OpenDb, Create, Assign, Register, Serve,
                        Notify, Shutdown, Drained, CloseDb, Exit, At, Panic, Down, Serving,
                        Listen, Accept, Dump, Inner, Handle, Copy, Go, Interrupt, Kill, Meet,
                        Contact, Suspect, requests, process, vars
        <3>5. QED
            BY <3>2, <3>3, <3>4
    <2>3. ASSUME Busy(r), req'[r] = "lost", end' = "exited"
          PROVE  r \in late
        <3>1. CASE Exit
            BY <2>1, <2>3, <3>1 DEF Exit, IInv, HttpStage
        <3>2. CASE \E how \in {"fatal", "panicked", "killed", "crashed"} : Down(how)
            BY <2>3, <3>2 DEF Down
        <3>3. CASE UNCHANGED req
            BY <2>3, <3>3 DEF Busy
        <3>4. CASE \E q \in Request : Accept(q) \/ Dump(q) \/ Inner(q) \/ Copy(q)
            BY <2>1, <2>3, <3>4 DEF Accept, Dump, Inner, Handle, Copy, Go, Busy, IInv, TypeOK
        <3>5. \/ Exit \/ UNCHANGED req
              \/ \E how \in {"fatal", "panicked", "killed", "crashed"} : Down(how)
              \/ \E q \in Request : Accept(q) \/ Dump(q) \/ Inner(q) \/ Copy(q)
            BY <2>1 DEF Next, Start, Main, LoadEnv, OpenDb, Create, Assign, Register, Serve,
                        Notify, Shutdown, Drained, Expire, CloseDb, At, Panic, Serving,
                        Listen, Interrupt, Kill, Meet, Contact, Suspect, requests, process
        <3>6. QED
            BY <3>1, <3>2, <3>3, <3>4, <3>5
    <2>4. QED
        BY <2>2, <2>3
<1>2. QED
    BY <1>1, StagesHold, PTL DEF Spec, GraceKept
=============================================================================
