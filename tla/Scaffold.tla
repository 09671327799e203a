------------------------------ MODULE Scaffold ------------------------------
(***************************************************************************)
(* The files of a generated service: go-doudou svc init                    *)
(* (svc/internal/codegen/init.go) and go-doudou svc http (svc/svc.go:61-99 *)
(* and the Gen functions of svc/internal/codegen), step by step, with a    *)
(* developer who edits the files meanwhile and may stop a command at any   *)
(* moment.                                                                 *)
(*                                                                         *)
(* A file is absent, empty, or whole with the interface methods its code   *)
(* serves and the edits the developer made in it by hand.                  *)
(***************************************************************************)
EXTENDS Naturals, Sequences

CONSTANTS
    Method,     \* the methods the service interface may have
    Sample,     \* the one that svc.go has at first
    Refused,    \* those that validateRestApi does not accept
    NoHandler,  \* those whose generated handler does not parse: without a result,
                \* or with parameters or results that have no names
    NoClient,   \* those whose generated client method does not parse: with
                \* parameters or results that have no names
    Interface,  \* bound of the model: what the interface is changed to
    Touched,    \* bound of the model: the files the developer edits
    MaxEdits,   \* bound of the model on the edits
    MaxRuns     \* bound of the model on the commands

ASSUME ScaffoldAssumption == /\ Sample \in Method /\ Refused \subseteq Method
                             /\ NoHandler \subseteq Method /\ NoClient \subseteq Method
                             /\ Interface \subseteq SUBSET Method
                             /\ MaxEdits \in Nat /\ MaxRuns \in Nat

VARIABLES
    file,     \* the files
    cmd,      \* the command that runs: "idle", "init" or "http"
    steps,    \* the steps of the command that are still to do
    phase,    \* where the first of them stands
    opts,     \* the flags of the command
    ic,       \* the methods of the interface, as the command read them
    missing,  \* the methods GenHttpHandlerImplWithImpl is going to add
    copy,     \* handlerimpl.go, as it was read to be extended
    runs,     \* the number of commands so far
    saved,    \* history: by number of the edit, the file it was saved in and
              \* the phase of the step that was working on that file, or
              \* "torn" once a stop left the file empty
    torn,     \* history: the files a stop left empty
    unparsed  \* history: the files left empty as their source did not parse

vars == <<file, cmd, steps, phase, opts, ic, missing, copy, runs, saved, torn, unparsed>>
developer == <<runs, saved, torn, unparsed>>

InitSteps == <<".gitignore", "go.mod", ".env", "vo.go", "svc.go", "Dockerfile">>
HttpSteps(o) ==
    <<"config.go", "dotenv.go", "db.go", "middleware.go", "main.go", "handler.go",
      "handlerimpl.go">> \o (IF o.client THEN <<"client.go">> ELSE << >>)
    \o <<"svcimpl.go">> \o (IF o.doc THEN <<"openapi3.json">> ELSE << >>)

File == {".gitignore", "go.mod", ".env", "vo.go", "svc.go", "Dockerfile", "config.go",
         "dotenv.go", "db.go", "middleware.go", "main.go", "handler.go",
         "handlerimpl.go", "client.go", "svcimpl.go", "openapi3.json"}
Overwritten == {"handler.go", "client.go", "openapi3.json"}
ASSUME TouchedAssumption == Touched \subseteq File

Content(state, methods, again, edits) ==
    [state |-> state, methods |-> methods, again |-> again, edits |-> edits]
Absent == Content("absent", {}, {}, {})
Empty == Content("empty", {}, {}, {})
Fresh(methods) == Content("whole", methods, {}, {})
Whole(f) == file[f].state = "whole"

Flags == [handler : BOOLEAN, client : BOOLEAN, doc : BOOLEAN]

NoFlags == [handler |-> FALSE, client |-> FALSE, doc |-> FALSE]

Init == /\ file = [f \in File |-> Absent]
        /\ cmd = "idle" /\ steps = << >> /\ phase = "stat" /\ opts = NoFlags
        /\ ic = {} /\ missing = {} /\ copy = Empty
        /\ runs = 0 /\ saved = << >> /\ torn = {} /\ unparsed = {}

-----------------------------------------------------------------------------
(* What the steps are made of.                                              *)

At(f, here) == steps # << >> /\ Head(steps) = f /\ phase = here

\* The step goes on with its next phase, or is done.
Go(there) == phase' = there /\ UNCHANGED <<cmd, steps, opts, ic>>
Done == /\ steps' = Tail(steps) /\ phase' = "stat"
        /\ UNCHANGED <<cmd, opts, ic>>

\* Without a command its variables have no meaning, and take their first values.
Leave == /\ cmd' = "idle" /\ steps' = << >> /\ phase' = "stat" /\ opts' = NoFlags
         /\ ic' = {} /\ missing' = {} /\ copy' = Empty
Stop == Leave /\ UNCHANGED <<file, runs>>
Panic == Stop /\ UNCHANGED <<saved, torn, unparsed>>

Put(f, content) == file' = [file EXCEPT ![f] = content]
                   /\ UNCHANGED <<missing, copy>> /\ UNCHANGED developer
Keep == UNCHANGED <<file, missing, copy>> /\ UNCHANGED developer

\* Mutant of the operator below: the file is created before go.mod is read.
MutCreate(f, needsMod) ==
    /\ At(f, "stat")
    /\ \/ file[f] # Absent /\ Done /\ Keep
       \/ /\ file[f] = Absent /\ (needsMod => Whole("go.mod"))
          /\ Go("write") /\ Put(f, Empty)
       \/ /\ file[f] = Absent /\ needsMod /\ ~Whole("go.mod")
          /\ file' = [file EXCEPT ![f] = Empty]
          /\ Leave /\ UNCHANGED developer

\* os.Stat: an existing file, whatever it holds, is left alone.  Else the name of the
\* module is read from the first line of go.mod, where the file imports parts
\* of it, and the file is created.
Create(f, needsMod) ==
    /\ At(f, "stat")
    /\ \/ file[f] # Absent /\ Done /\ Keep
       \/ /\ file[f] = Absent /\ (needsMod => Whole("go.mod"))
          /\ Go("write") /\ Put(f, Empty)
       \/ file[f] = Absent /\ needsMod /\ ~Whole("go.mod") /\ Panic

\* Mutant of the operator below: an existing file is left alone.
MutTruncate(f, there) == /\ At(f, "stat")
                         /\ IF Whole(f) THEN Done /\ Keep ELSE Go(there) /\ Put(f, Empty)
\* os.Create truncates what is there.
Truncate(f, there) == At(f, "stat") /\ Go(there) /\ Put(f, Empty)

\* The module's name is read after the file was created.
ReadMod(f, there) == /\ At(f, "mod")
                     /\ \/ Whole("go.mod") /\ Go(there) /\ Keep
                        \/ ~Whole("go.mod") /\ Panic

\* FixImport parses the source before it writes anything, and panics if it
\* cannot; a file that was created for it stays empty.
FixImportPanics(f) == /\ Stop
                      /\ unparsed' = unparsed \cup {g \in {f} : file[g] = Empty}
                      /\ UNCHANGED <<saved, torn>>

Write(f, methods) == At(f, "write") /\ Done /\ Put(f, Fresh(methods))
\* The source is generated from declarations that may make it one that does
\* not parse; all other sources do.
WriteIfParsed(f, methods, unparsable) ==
    \/ methods \cap unparsable = {} /\ Write(f, methods)
    \/ At(f, "write") /\ methods \cap unparsable # {} /\ FixImportPanics(f)

-----------------------------------------------------------------------------
(* The steps of svc init.                                                   *)

GenGitignore == Create(".gitignore", FALSE) \/ Write(".gitignore", {})
GenMod == Create("go.mod", FALSE) \/ Write("go.mod", {})
GenEnv == Create(".env", FALSE) \/ Write(".env", {})
GenVo == Create("vo.go", FALSE) \/ Write("vo.go", {})
GenSvc == Create("svc.go", TRUE) \/ Write("svc.go", {Sample})
GenDockerfile == Create("Dockerfile", FALSE) \/ Write("Dockerfile", {})

InitSvc == /\ cmd = "init"
           /\ GenGitignore \/ GenMod \/ GenEnv \/ GenVo \/ GenSvc \/ GenDockerfile

-----------------------------------------------------------------------------
(* The steps of svc http.                                                   *)

GenConfig == Create("config.go", FALSE) \/ Write("config.go", {})
GenDotenv == Create("dotenv.go", FALSE) \/ Write("dotenv.go", {})
GenDb == Create("db.go", TRUE) \/ Write("db.go", {})
GenHttpMiddleware == Create("middleware.go", FALSE) \/ Write("middleware.go", {})
GenMain == Create("main.go", TRUE) \/ Write("main.go", {})
GenSvcImpl == Create("svcimpl.go", TRUE) \/ Write("svcimpl.go", ic)

GenHttpHandler == Truncate("handler.go", "write") \/ Write("handler.go", ic)
GenGoClient == \/ Truncate("client.go", "mod") \/ ReadMod("client.go", "write")
               \/ WriteIfParsed("client.go", ic, NoClient)

\* ioutil.WriteFile truncates before it writes.
GenDoc == Truncate("openapi3.json", "write") \/ Write("openapi3.json", ic)

\* Without --handler: stubs, once.
GenHttpHandlerImpl == /\ ~opts.handler
                      /\ \/ Create("handlerimpl.go", TRUE)
                         \/ Write("handlerimpl.go", ic)

\* Mutant of the step below: all handlers are generated again.
MutParse ==
    /\ At("handlerimpl.go", "stat")
    /\ file' = IF Whole("handlerimpl.go") THEN file
               ELSE [file EXCEPT !["handlerimpl.go"] = Empty]
    /\ missing' = ic
    /\ Go("mod") /\ UNCHANGED copy /\ UNCHANGED developer
\* With --handler: the file is created, or parsed for the handlers it has; an
\* empty one does not parse.
Parse ==
    LET impl == file["handlerimpl.go"] IN
    /\ At("handlerimpl.go", "stat")
    /\ \/ /\ impl = Absent
          /\ file' = [file EXCEPT !["handlerimpl.go"] = Empty]
          /\ missing' = ic
          /\ Go("mod") /\ UNCHANGED copy /\ UNCHANGED developer
       \/ /\ impl.state = "whole"
          /\ missing' = ic \ impl.methods
          /\ Go("mod") /\ UNCHANGED <<file, copy>> /\ UNCHANGED developer
       \/ impl = Empty /\ Panic

\* Mutant of the step below: the generated code alone is written back.
MutReadAll == /\ At("handlerimpl.go", "read")
              /\ copy' = Empty
              /\ Go("rewrite") /\ UNCHANGED <<file, missing>> /\ UNCHANGED developer
\* The file is read for a second time, and the new handlers are appended.
ReadAll == /\ At("handlerimpl.go", "read")
           /\ copy' = file["handlerimpl.go"]
           /\ Go("rewrite") /\ UNCHANGED <<file, missing>> /\ UNCHANGED developer

\* FixImport formats the result and writes it over the file, if it parses; a
\* developer saves nothing that does not.
Rewrite == /\ At("handlerimpl.go", "rewrite")
           /\ \/ missing \cap NoHandler = {} /\ Go("write") /\ Put("handlerimpl.go", Empty)
              \/ missing \cap NoHandler # {} /\ FixImportPanics("handlerimpl.go")
Extend == /\ At("handlerimpl.go", "write")
          /\ Done
          /\ file' = [file EXCEPT !["handlerimpl.go"] =
                 Content("whole", copy.methods \cup missing,
                         copy.again \cup (copy.methods \cap missing), copy.edits)]
          /\ missing' = {} /\ copy' = Empty
          /\ UNCHANGED developer

GenHttpHandlerImplWithImpl ==
    /\ opts.handler
    /\ Parse \/ ReadMod("handlerimpl.go", "read") \/ ReadAll \/ Rewrite \/ Extend

Http == /\ cmd = "http"
        /\ \/ GenConfig \/ GenDotenv \/ GenDb \/ GenHttpMiddleware \/ GenMain
           \/ GenHttpHandler \/ GenHttpHandlerImplWithImpl \/ GenHttpHandlerImpl
           \/ GenGoClient \/ GenSvcImpl \/ GenDoc

-----------------------------------------------------------------------------
(* The commands.                                                            *)

Begin == cmd = "idle" /\ runs < MaxRuns /\ runs' = runs + 1

StartInit == /\ Begin
             /\ cmd' = "init" /\ steps' = InitSteps
             /\ UNCHANGED <<file, phase, opts, ic, missing, copy, saved, torn, unparsed>>

\* svc.go, and with --doc the files of vo, must parse, and the interface must
\* be acceptable, before anything is generated.
Accepts(o) == /\ o.doc => Whole("vo.go")
              /\ Whole("svc.go") /\ file["svc.go"].methods \cap Refused = {}

StartHttp == /\ Begin
             /\ \E o \in Flags :
                   \/ /\ Accepts(o)
                      /\ cmd' = "http" /\ steps' = HttpSteps(o) /\ opts' = o
                      /\ ic' = file["svc.go"].methods
                   \/ ~Accepts(o) /\ UNCHANGED <<cmd, steps, opts, ic>>
             /\ UNCHANGED <<file, phase, missing, copy, saved, torn, unparsed>>

Finish == cmd # "idle" /\ steps = << >> /\ Stop /\ UNCHANGED <<saved, torn, unparsed>>

\* The command is stopped from outside, and may leave a file empty.
Interrupt == /\ cmd # "idle" /\ Stop
             /\ LET lost == {f \in File : steps # << >> /\ Head(steps) = f /\ file[f] = Empty}
                IN  /\ torn' = torn \cup lost
                    /\ saved' = [i \in DOMAIN saved |->
                                    IF saved[i].in \in lost THEN [saved[i] EXCEPT !.during = "torn"]
                                    ELSE saved[i]]
             /\ UNCHANGED unparsed

-----------------------------------------------------------------------------
(* The developer.                                                           *)

Edit == 1..MaxEdits
tool == <<cmd, steps, phase, opts, ic, missing, copy, runs>>

Note(f) == /\ Len(saved) < MaxEdits
           /\ saved' = Append(saved, [in |-> f, during |->
                   IF steps # << >> /\ Head(steps) = f THEN phase ELSE "none"])

\* Something is changed by hand; in handlerimpl.go, a handler may be added.
Save == \E f \in Touched, new \in {{}} \cup {{m} : m \in Method} :
           /\ Whole(f) /\ f # "svc.go" /\ Note(f)
           /\ new \cap file[f].methods = {}
           /\ f # "handlerimpl.go" => new = {}
           /\ file' = [file EXCEPT ![f].edits = @ \cup {Len(saved) + 1},
                                   ![f].methods = @ \cup new]
           /\ UNCHANGED tool /\ UNCHANGED <<torn, unparsed>>

\* The interface is changed.
Design == \E methods \in Interface :
           /\ Whole("svc.go") /\ Note("svc.go")
           /\ file' = [file EXCEPT !["svc.go"].edits = @ \cup {Len(saved) + 1},
                                   !["svc.go"].methods = methods]
           /\ UNCHANGED tool /\ UNCHANGED <<torn, unparsed>>

\* A file that was left empty is removed.
Remove == \E f \in File :
           /\ cmd = "idle" /\ file[f] = Empty
           /\ file' = [file EXCEPT ![f] = Absent]
           /\ torn' = torn \ {f} /\ unparsed' = unparsed \ {f}
           /\ UNCHANGED tool /\ UNCHANGED saved

Next == \/ StartInit \/ StartHttp \/ InitSvc \/ Http \/ Finish \/ Interrupt
        \/ Save \/ Design \/ Remove

Spec == Init /\ [][Next]_vars

-----------------------------------------------------------------------------
(* Properties *)

\* An edit made by hand stays in a file that is not generated anew each time,
\* but for two cases: it was saved between the reading and the writing of the
\* file, or a command was stopped in the middle of the writing.
EditsKept == \A e \in DOMAIN saved :
    LET f == saved[e].in IN
    \/ e \in file[f].edits
    \/ f \in Overwritten \/ saved[e].during \in {"rewrite", "torn"}
    \/ At(f, "write") /\ e \in copy.edits

\* No handler is declared twice, but for one that was written by hand after
\* the file was parsed and before it was read.
DeclaredOnce == file["handlerimpl.go"].again # {} =>
    \E e \in DOMAIN saved : saved[e].in = "handlerimpl.go" /\ saved[e].during \in {"mod", "read"}

\* A file is empty for one of two reasons only: a command was stopped in the
\* middle of the writing, or the code that was generated for handlerimpl.go or
\* client.go does not parse.  No other panic of a command leaves one behind.
EmptyIsExplained == \A f \in File : file[f] = Empty =>
    \/ f \in torn
    \/ f \in unparsed /\ f \in {"handlerimpl.go", "client.go"}
    \/ steps # << >> /\ Head(steps) = f /\ phase # "stat"

\* A command that comes to its end has made the generated code agree with the
\* interface it read; a file that was left empty, by an earlier stop or since
\* its source did not parse, is still empty only if such a file is never
\* generated again.
AgreesAtEnd == cmd = "http" /\ steps = << >> =>
    /\ file["handler.go"].methods = ic
    /\ opts.client => file["client.go"].methods = ic
    /\ opts.doc => file["openapi3.json"].methods = ic
    /\ opts.handler => ic \subseteq file["handlerimpl.go"].methods
    /\ LET steps0 == HttpSteps(opts) IN
       \A i \in DOMAIN steps0 :
           \/ Whole(steps0[i])
           \/ /\ steps0[i] \in (torn \cup unparsed) \ Overwritten
              /\ opts.handler => steps0[i] # "handlerimpl.go"

\* README.md, rule 8 of the interface rules: the files other than handler.go and
\* handlerimpl.go are generated if they do not exist; if they do, nothing is
\* done to them.
ExistingLeftAlone ==
    [][\A f \in File \ {"handler.go", "handlerimpl.go"} :
           Whole(f) /\ saved' = saved => file'[f] = file[f]]_vars
=============================================================================
