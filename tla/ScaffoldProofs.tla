--------------------------- MODULE ScaffoldProofs ---------------------------
(***************************************************************************)
(* Theorems about Scaffold.tla, for any methods and however many commands  *)
(* are run, stopped and overlapped by edits.                               *)
(***************************************************************************)
EXTENDS Scaffold, TLAPS

(* The inductive invariant, in named parts.                                *)

Contents == [state : {"absent", "empty", "whole"}, methods : SUBSET Method,
             again : SUBSET Method, edits : SUBSET Nat]
Phases == {"stat", "mod", "read", "rewrite", "write"}
Saves == [in : File, during : Phases \cup {"none", "torn"}]

Types == /\ file \in [File -> Contents] /\ copy \in Contents
         /\ ic \subseteq Method /\ missing \subseteq Method
         /\ steps \in Seq(File) /\ phase \in Phases /\ torn \subseteq File
         /\ unparsed \subseteq File
         /\ saved \in Seq(Saves)
         /\ cmd = "idle" => steps = << >>
         /\ steps = << >> => phase = "stat"

\* Nobody is at svc http without a go.mod that can be read.
ModKept == /\ Whole("svc.go") => Whole("go.mod")
           /\ At("svc.go", "write") => Whole("go.mod")
           /\ cmd = "http" => Whole("go.mod")

\* A file is empty while it is written, and so stays without edits.
Writing == /\ \A f \in File : At(f, "write") => file[f] = Empty
           /\ At("client.go", "mod") => file["client.go"] = Empty

\* The copy of handlerimpl.go exists while it is extended, and has all edits
\* but those saved since it was made.
CopyStage ==
    /\ copy # Empty => /\ opts.handler
                       /\ At("handlerimpl.go", "rewrite") \/ At("handlerimpl.go", "write")
    /\ At("handlerimpl.go", "rewrite") =>
           \A e \in DOMAIN saved :
               saved[e].in = "handlerimpl.go" /\ e \in file["handlerimpl.go"].edits
                   => e \in copy.edits \/ saved[e].during = "rewrite"

\* Some handler was written by hand between the parsing and the reading.
Excused == \E e \in DOMAIN saved :
               saved[e].in = "handlerimpl.go" /\ saved[e].during \in {"mod", "read"}
Unexcused == ~Excused =>
    /\ file["handlerimpl.go"].again = {} /\ copy.again = {}
    /\ copy.methods \cap missing = {}
    /\ At("handlerimpl.go", "mod") \/ At("handlerimpl.go", "read") =>
           missing \cap file["handlerimpl.go"].methods = {}

IInv == /\ Types /\ ModKept /\ Writing /\ CopyStage /\ Unexcused
        /\ EditsKept /\ EmptyIsExplained

-----------------------------------------------------------------------------
(* What the steps of a command are made of.                                 *)

(* The first contents of a file are contents. *)
LEMMA ContentsTyped ==
    /\ Empty \in Contents /\ Absent \in Contents
    /\ \A methods \in SUBSET Method : Fresh(methods) \in Contents
BY DEF Contents, Empty, Absent, Fresh, Content

(* What was saved was saved in a file. *)
LEMMA SavedTyped ==
    ASSUME Types
    PROVE  \A e \in DOMAIN saved : saved[e] \in Saves /\ saved[e].in \in File
<1>1. \A e \in DOMAIN saved : saved[e] \in Saves
    BY DEF Types
<1>2. QED
    BY <1>1 DEF Saves

(* Go and Done as facts about At: a step that is done leaves every phase but *)
(* the first.                                                                *)
LEMMA DoneAt ==
    ASSUME Types, steps # << >>, Done
    PROVE  /\ steps' \in Seq(File) /\ phase' = "stat" /\ UNCHANGED <<cmd, opts, ic>>
           /\ \A f : ~At(f, "write")' /\ ~At(f, "mod")' /\ ~At(f, "read")' /\ ~At(f, "rewrite")'
BY DEF Types, Done, At

(* A panic before a step has touched its file keeps the invariant. *)
LEMMA PanicIInv ==
    ASSUME IInv, phase = "stat", Panic
    PROVE  IInv'
<1> USE DEF IInv
<1>1. /\ UNCHANGED <<file, runs, saved, torn, unparsed>> /\ cmd' = "idle" /\ steps' = << >>
      /\ phase' = "stat" /\ ic' = {} /\ missing' = {} /\ copy' = Empty
    BY DEF Panic, Stop, Leave
<1>2. Types'
    BY <1>1, ContentsTyped DEF Types, Phases
<1>3. ModKept' /\ Writing' /\ CopyStage' /\ Unexcused'
    BY <1>1 DEF ModKept, Writing, CopyStage, Unexcused, Excused, Whole, At, Empty, Content
<1>4. EditsKept' /\ EmptyIsExplained'
    BY <1>1 DEF EditsKept, EmptyIsExplained, At
<1>5. QED
    BY <1>2, <1>3, <1>4

(* A panic of FixImport leaves the files as they are, too. *)
LEMMA FixImportIInv ==
    ASSUME IInv, NEW f \in {"handlerimpl.go", "client.go"}, NEW p \in {"rewrite", "write"},
           At(f, p), f = "handlerimpl.go" => p = "rewrite", FixImportPanics(f)
    PROVE  IInv'
<1> USE DEF IInv
<1>1. /\ UNCHANGED <<file, runs, saved, torn>> /\ cmd' = "idle" /\ steps' = << >>
      /\ phase' = "stat" /\ ic' = {} /\ missing' = {} /\ copy' = Empty
      /\ unparsed' = unparsed \cup {g \in {f} : file[g] = Empty}
      /\ f \in File
    BY DEF FixImportPanics, Stop, Leave, File
<1>2. Types'
    <2>1. unparsed' \subseteq File
        BY <1>1 DEF Types
    <2>2. QED
        BY <1>1, <2>1, ContentsTyped DEF Types, Phases
<1>3. ModKept' /\ Writing' /\ CopyStage' /\ Unexcused'
    BY <1>1 DEF ModKept, Writing, CopyStage, Unexcused, Excused, Whole, At, Empty, Content
<1>4. EditsKept'
    <2>1. ~At("handlerimpl.go", "write") /\ \A g : At(g, "write") => g \in Overwritten
        BY DEF At, Overwritten
    <2>2. QED
        BY <1>1, <2>1 DEF EditsKept
<1>5. EmptyIsExplained'
    BY <1>1 DEF EmptyIsExplained, At
<1>6. QED
    BY <1>2, <1>3, <1>4, <1>5

(* Create keeps the invariant. *)
LEMMA CreateIInv ==
    ASSUME IInv, cmd # "idle", NEW f \in File, NEW needsMod \in BOOLEAN,
           Create(f, needsMod), f = "svc.go" => needsMod
    PROVE  IInv'
<1> USE DEF IInv
<1>1. At(f, "stat") /\ steps # << >> /\ phase = "stat"
    BY DEF Create, At
<1>2. CASE file[f] # Absent /\ Done /\ Keep
    <2>1. UNCHANGED <<file, missing, copy, runs, saved, torn, unparsed>>
        BY <1>2 DEF Keep, developer
    <2>2. Types'
        BY <1>1, <1>2, <2>1, DoneAt DEF Types, Phases
    <2>3. ModKept' /\ Writing' /\ CopyStage' /\ Unexcused'
        BY <1>1, <1>2, <2>1, DoneAt DEF ModKept, Writing, CopyStage, Unexcused, Excused, Whole, At
    <2>4. EditsKept' /\ EmptyIsExplained'
        BY <1>1, <2>1 DEF EditsKept, EmptyIsExplained, At
    <2>5. QED
        BY <2>2, <2>3, <2>4
<1>3. CASE file[f] = Absent /\ (needsMod => Whole("go.mod")) /\ Go("write") /\ Put(f, Empty)
    <2>1. /\ file' = [file EXCEPT ![f] = Empty] /\ phase' = "write"
          /\ UNCHANGED <<missing, copy, runs, saved, torn, unparsed, cmd, steps, opts, ic>>
        BY <1>3 DEF Put, Go, developer
    <2>2. Types'
        BY <1>1, <2>1, ContentsTyped DEF Types, Phases
    <2>3. \A g \in File : file'[g] = IF g = f THEN Empty ELSE file[g]
        BY <2>1 DEF Types
    <2>4. \A g, p : At(g, p)' <=> g = f /\ p = "write"
        BY <1>1, <2>1 DEF At
    <2>5. ModKept'
        BY <1>3, <2>1, <2>3, <2>4 DEF ModKept, Whole, Empty, Absent, Content, File
    <2>6. Writing' /\ CopyStage'
        BY <1>1, <2>1, <2>3, <2>4 DEF Writing, CopyStage, At
    <2>7. Unexcused'
        BY <1>1, <2>1, <2>3, <2>4 DEF Unexcused, Excused, Empty, Content, File
    <2>8. EditsKept'
        BY <1>1, <1>3, <2>1, <2>3, <2>4 DEF EditsKept, At, Empty, Absent, Content, Types, Saves
    <2>9. EmptyIsExplained'
        BY <1>1, <2>1, <2>3 DEF EmptyIsExplained, At
    <2>10. QED
        BY <2>2, <2>5, <2>6, <2>7, <2>8, <2>9
<1>4. CASE Panic
    BY <1>1, <1>4, PanicIInv
<1>5. QED
    BY <1>2, <1>3, <1>4 DEF Create

(* Write keeps the invariant; nothing but Extend writes a copy. *)
LEMMA WriteIInv ==
    ASSUME IInv, cmd # "idle", NEW f \in File, NEW methods \in SUBSET Method,
           Write(f, methods), f = "handlerimpl.go" => ~opts.handler
    PROVE  IInv'
<1> USE DEF IInv
<1>1. /\ steps # << >> /\ At(f, "write") /\ Done /\ file[f] = Empty /\ copy = Empty
      /\ file' = [file EXCEPT ![f] = Fresh(methods)]
      /\ UNCHANGED <<missing, copy, runs, saved, torn, unparsed>>
    BY DEF Write, Put, developer, Writing, CopyStage, At
<1>2. Types'
    BY <1>1, DoneAt, ContentsTyped DEF Types, Phases
<1>3. \A g \in File : file'[g] = IF g = f THEN Fresh(methods) ELSE file[g]
    BY <1>1 DEF Types
<1>4. /\ \A g : ~At(g, "write")' /\ ~At(g, "mod")' /\ ~At(g, "read")' /\ ~At(g, "rewrite")'
      /\ UNCHANGED <<cmd, opts, ic>> /\ phase' = "stat"
    BY <1>1, DoneAt
<1>5. ModKept'
    BY <1>1, <1>3, <1>4 DEF ModKept, Whole, Fresh, Content, File, Empty
<1>6. Writing' /\ CopyStage'
    BY <1>1, <1>4 DEF Writing, CopyStage
<1>7. Unexcused'
    BY <1>1, <1>3, <1>4 DEF Unexcused, Excused, Fresh, Empty, Content, File
<1>8. EditsKept'
    BY <1>1, <1>3, <1>4 DEF EditsKept, Empty, Fresh, Content, Types, Saves
<1>9. EmptyIsExplained'
    BY <1>1, <1>3, <1>4 DEF EmptyIsExplained, At, Fresh, Empty, Content
<1>10. QED
    BY <1>2, <1>5, <1>6, <1>7, <1>8, <1>9

(* Truncating a file that is generated each time keeps the invariant. *)
LEMMA TruncateIInv ==
    ASSUME IInv, cmd # "idle", NEW f \in Overwritten, NEW there \in {"write", "mod"},
           Truncate(f, there)
    PROVE  IInv'
<1> USE DEF IInv
<1>1. /\ f \in File /\ f \notin {"svc.go", "go.mod", "handlerimpl.go"}
      /\ At(f, "stat") /\ steps # << >> /\ phase = "stat" /\ phase' = there
      /\ file' = [file EXCEPT ![f] = Empty]
      /\ UNCHANGED <<missing, copy, runs, saved, torn, unparsed, cmd, steps, opts, ic>>
    BY DEF Truncate, Go, Put, developer, At, File, Overwritten
<1>2. Types'
    BY <1>1, ContentsTyped DEF Types, Phases
<1>3. \A g \in File : file'[g] = IF g = f THEN Empty ELSE file[g]
    BY <1>1 DEF Types
<1>4. \A g, p : At(g, p)' <=> g = f /\ p = there
    BY <1>1 DEF At
<1>5. ModKept' /\ Writing' /\ CopyStage'
    BY <1>1, <1>3, <1>4 DEF ModKept, Writing, CopyStage, Whole, File, At
<1>6. Unexcused'
    BY <1>1, <1>3, <1>4 DEF Unexcused, Excused, File
<1>7. EditsKept'
    BY <1>1, <1>3, <1>4 DEF EditsKept, Types, Saves, At
<1>8. EmptyIsExplained'
    BY <1>1, <1>3 DEF EmptyIsExplained, At
<1>9. QED
    BY <1>2, <1>5, <1>6, <1>7, <1>8

(* Of svc http, go.mod can be read once a file was created or truncated. *)
LEMMA ReadModIInv ==
    ASSUME IInv, cmd = "http",
           ReadMod("client.go", "write") \/ ReadMod("handlerimpl.go", "read")
    PROVE  IInv'
<1> USE DEF IInv
<1>1. /\ UNCHANGED <<file, missing, copy, runs, saved, torn, unparsed, cmd, steps, opts, ic>>
      /\ steps # << >> /\ phase = "mod"
      /\ \/ At("client.go", "mod") /\ phase' = "write"
         \/ At("handlerimpl.go", "mod") /\ phase' = "read"
    BY DEF ReadMod, ModKept, Go, Keep, developer, At
<1>2. Types'
    BY <1>1 DEF Types, Phases
<1>3. ModKept' /\ Writing' /\ CopyStage'
    BY <1>1 DEF ModKept, Writing, CopyStage, Whole, At
<1>4. Unexcused' /\ EditsKept' /\ EmptyIsExplained'
    BY <1>1 DEF Unexcused, Excused, EditsKept, EmptyIsExplained, At
<1>5. QED
    BY <1>2, <1>3, <1>4

(* handlerimpl.go is extended in four phases, of which parsing is the first. *)
LEMMA ParseIInv ==
    ASSUME IInv, cmd = "http", opts.handler, Parse
    PROVE  IInv'
<1> USE DEF IInv
<1> DEFINE hi == "handlerimpl.go"
<1>1. At(hi, "stat") /\ steps # << >> /\ phase = "stat" /\ hi \in File /\ copy = Empty
    BY DEF Parse, At, CopyStage, File
<1>2. CASE file[hi] = Empty /\ Panic
    BY <1>1, <1>2, PanicIInv
<1>3. CASE /\ \/ file[hi] = Absent /\ file' = [file EXCEPT ![hi] = Empty] /\ missing' = ic
              \/ file[hi].state = "whole" /\ file' = file /\ missing' = ic \ file[hi].methods
           /\ Go("mod") /\ UNCHANGED copy /\ UNCHANGED developer
    <2>1. /\ phase' = "mod" /\ UNCHANGED <<copy, runs, saved, torn, unparsed, cmd, steps, opts, ic>>
        BY <1>3 DEF Go, developer
    <2>2. /\ file \in [File -> Contents] /\ file' \in [File -> Contents]
          /\ missing' \subseteq Method
        BY <1>3, ContentsTyped DEF Types
    <2>3. /\ \A g \in File \ {hi} : file'[g] = file[g]
          /\ file'[hi] \in {file[hi], Empty} /\ (file'[hi] # file[hi] => file[hi] = Absent)
          /\ missing' \cap file'[hi].methods = {}
        BY <1>1, <1>3, <2>2 DEF Empty, Content
    <2>4. Types'
        BY <1>1, <2>1, <2>2 DEF Types, Phases
    <2>5. \A g, p : At(g, p)' <=> g = hi /\ p = "mod"
        BY <1>1, <2>1 DEF At
    <2>6. ModKept' /\ Writing' /\ CopyStage'
        BY <1>1, <2>1, <2>3, <2>5 DEF ModKept, Writing, CopyStage, Whole, File
    <2>7. Unexcused'
        BY <1>1, <2>1, <2>3 DEF Unexcused, Excused, Empty, Content
    <2>8. EditsKept'
        <3>1. \A g \in File : file'[g].edits = file[g].edits
            <4>1. Empty.edits = Absent.edits
                BY DEF Empty, Absent, Content
            <4>2. QED
                BY <1>1, <2>3, <4>1
        <3>2. \A e \in DOMAIN saved : saved[e].in \in File
            BY SavedTyped
        <3>3. \A f : ~At(f, "write")
            BY <1>1 DEF At
        <3>4. QED
            BY <2>1, <3>1, <3>2, <3>3 DEF EditsKept
    <2>9. EmptyIsExplained'
        BY <1>1, <2>1, <2>3 DEF EmptyIsExplained, At
    <2>10. QED
        BY <2>4, <2>6, <2>7, <2>8, <2>9
<1>4. QED
    BY <1>2, <1>3 DEF Parse

(* Then it is read again, *)
LEMMA ReadAllIInv ==
    ASSUME IInv, cmd = "http", opts.handler, ReadAll
    PROVE  IInv'
<1> USE DEF IInv
<1> DEFINE hi == "handlerimpl.go"
<1>1. /\ At(hi, "read") /\ steps # << >> /\ phase = "read" /\ hi \in File
      /\ copy' = file[hi] /\ phase' = "rewrite"
      /\ UNCHANGED <<file, missing, runs, saved, torn, unparsed, cmd, steps, opts, ic>>
    BY DEF ReadAll, At, Go, developer, File
<1>2. \A g, p : At(g, p)' <=> g = hi /\ p = "rewrite"
    BY <1>1 DEF At
<1>3. Types'
    BY <1>1 DEF Types, Phases
<1>4. ModKept' /\ Writing' /\ CopyStage'
    BY <1>1, <1>2 DEF ModKept, Writing, CopyStage, Whole
<1>5. Unexcused'
    BY <1>1, <1>2 DEF Unexcused, Excused
<1>6. EditsKept' /\ EmptyIsExplained'
    BY <1>1, <1>2 DEF EditsKept, EmptyIsExplained, At
<1>7. QED
    BY <1>3, <1>4, <1>5, <1>6

(* truncated, if the new source parses, *)
LEMMA RewriteIInv ==
    ASSUME IInv, cmd = "http", opts.handler, Rewrite
    PROVE  IInv'
<1> USE DEF IInv
<1> DEFINE hi == "handlerimpl.go"
<1>1. CASE Go("write") /\ Put(hi, Empty)
    <2>1. /\ At(hi, "rewrite") /\ steps # << >> /\ phase = "rewrite" /\ hi \in File
          /\ file' = [file EXCEPT ![hi] = Empty] /\ phase' = "write"
          /\ UNCHANGED <<copy, missing, runs, saved, torn, unparsed, cmd, steps, opts, ic>>
        BY <1>1 DEF Rewrite, At, Go, Put, developer, File
    <2>2. /\ \A g, p : At(g, p)' <=> g = hi /\ p = "write"
          /\ \A g \in File : file'[g] = IF g = hi THEN Empty ELSE file[g]
        BY <2>1 DEF At, Types
    <2>3. Types'
        BY <2>1, ContentsTyped DEF Types, Phases
    <2>4. ModKept' /\ Writing' /\ CopyStage'
        BY <2>1, <2>2 DEF ModKept, Writing, CopyStage, Whole, File
    <2>5. Unexcused'
        BY <2>1, <2>2 DEF Unexcused, Excused, Empty, Content
    <2>6. EditsKept'
        BY <2>1, <2>2 DEF EditsKept, CopyStage, Types, Saves, At
    <2>7. EmptyIsExplained'
        BY <2>1, <2>2 DEF EmptyIsExplained, At
    <2>8. QED
        BY <2>3, <2>4, <2>5, <2>6, <2>7
<1>2. CASE FixImportPanics(hi)
    BY <1>2, FixImportIInv DEF Rewrite
<1>3. QED
    BY <1>1, <1>2 DEF Rewrite

(* and written with the handlers that were missing. *)
LEMMA ExtendIInv ==
    ASSUME IInv, cmd = "http", opts.handler, Extend
    PROVE  IInv'
<1> USE DEF IInv
<1> DEFINE hi == "handlerimpl.go"
           new == Content("whole", copy.methods \cup missing,
                          copy.again \cup (copy.methods \cap missing), copy.edits)
<1>1. /\ At(hi, "write") /\ steps # << >> /\ hi \in File /\ file[hi] = Empty /\ Done
      /\ file' = [file EXCEPT ![hi] = new] /\ missing' = {} /\ copy' = Empty
      /\ UNCHANGED <<runs, saved, torn, unparsed>>
    BY DEF Extend, At, developer, File, Writing
<1>2. /\ new.state = "whole" /\ new.again = copy.again \cup (copy.methods \cap missing)
      /\ new.edits = copy.edits
    BY DEF Content
<1>3. new \in Contents
    BY DEF Contents, Content, Types
<1> HIDE DEF new
<1>4. /\ \A g : ~At(g, "write")' /\ ~At(g, "mod")' /\ ~At(g, "read")' /\ ~At(g, "rewrite")'
      /\ UNCHANGED <<cmd, opts, ic>> /\ phase' = "stat"
      /\ \A g \in File : file'[g] = IF g = hi THEN new ELSE file[g]
    BY <1>1, DoneAt DEF Types
<1>5. Types'
    BY <1>1, <1>3, DoneAt, ContentsTyped DEF Types, Phases
<1>6. ModKept' /\ Writing' /\ CopyStage'
    BY <1>1, <1>4 DEF ModKept, Writing, CopyStage, Whole, File
<1>7. Unexcused'
    BY <1>1, <1>2, <1>4 DEF Unexcused, Excused, Empty, Content
<1>8. EditsKept'
    <2>1. SUFFICES ASSUME NEW e \in DOMAIN saved, saved[e].in \notin Overwritten,
                          saved[e].during \notin {"rewrite", "torn"}
                   PROVE  e \in file'[saved[e].in].edits
        BY <1>1 DEF EditsKept
    <2>2. saved[e].in \in File
        BY SavedTyped
    <2>3. e \in file[saved[e].in].edits \/ (At(saved[e].in, "write") /\ e \in copy.edits)
        BY <2>1 DEF EditsKept
    <2>4. CASE saved[e].in = hi
        <3>1. file[hi].edits = {}
            BY <1>1 DEF Empty, Content
        <3>2. QED
            BY <1>1, <1>2, <1>4, <2>3, <2>4, <3>1
    <2>5. CASE saved[e].in # hi
        BY <1>1, <1>4, <2>2, <2>3, <2>5 DEF At
    <2>6. QED
        BY <2>4, <2>5
<1>9. EmptyIsExplained'
    BY <1>1, <1>2, <1>4 DEF EmptyIsExplained, At, Empty, Content
<1>10. QED
    BY <1>5, <1>6, <1>7, <1>8, <1>9

(* Every step of a command keeps the invariant. *)
LEMMA StepIInv ==
    ASSUME IInv, InitSvc \/ Http
    PROVE  IInv'
<1> USE DEF IInv
<1>1. Sample \in Method /\ ic \in SUBSET Method /\ {} \in SUBSET Method /\ {Sample} \in SUBSET Method
    BY ScaffoldAssumption DEF Types
<1>2. CASE InitSvc
    <2>1. cmd # "idle" /\ {".gitignore", "go.mod", ".env", "vo.go", "svc.go", "Dockerfile"} \subseteq File
        BY <1>2 DEF InitSvc, File
    <2>2. QED
        BY <1>1, <1>2, <2>1, CreateIInv, WriteIInv
        DEF InitSvc, GenGitignore, GenMod, GenEnv, GenVo, GenSvc, GenDockerfile
<1>3. CASE Http
    <2>1. cmd = "http" /\ cmd # "idle" /\ File = File \cup Overwritten
        BY <1>3 DEF Http, File, Overwritten
    <2>2. CASE GenConfig \/ GenDotenv \/ GenDb \/ GenHttpMiddleware \/ GenMain \/ GenSvcImpl
        <3>1. {"config.go", "dotenv.go", "db.go", "middleware.go", "main.go", "svcimpl.go"} \subseteq File
            BY DEF File
        <3>2. QED
            BY <1>1, <2>1, <2>2, <3>1, CreateIInv, WriteIInv
            DEF GenConfig, GenDotenv, GenDb, GenHttpMiddleware, GenMain, GenSvcImpl
    <2>3. CASE GenHttpHandler \/ GenGoClient \/ GenDoc
        <3>1. {"handler.go", "client.go", "openapi3.json"} \subseteq File \cap Overwritten
            BY DEF File, Overwritten
        <3>2. QED
            BY <1>1, <2>1, <2>3, <3>1, TruncateIInv, WriteIInv, ReadModIInv, FixImportIInv
            DEF GenHttpHandler, GenGoClient, GenDoc, WriteIfParsed
    <2>4. CASE GenHttpHandlerImpl
        <3>1. "handlerimpl.go" \in File
            BY DEF File
        <3>2. QED
            BY <1>1, <2>1, <2>4, <3>1, CreateIInv, WriteIInv DEF GenHttpHandlerImpl
    <2>5. CASE GenHttpHandlerImplWithImpl
        BY <2>1, <2>5, ParseIInv, ReadModIInv, ReadAllIInv, RewriteIInv, ExtendIInv
        DEF GenHttpHandlerImplWithImpl
    <2>6. QED
        BY <1>3, <2>2, <2>3, <2>4, <2>5 DEF Http
<1>4. QED
    BY <1>2, <1>3

-----------------------------------------------------------------------------
(* A command begins: nothing is at any step yet. *)
LEMMA StartIInv ==
    ASSUME IInv, StartInit \/ StartHttp
    PROVE  IInv'
<1> USE DEF IInv
<1>1. /\ UNCHANGED <<file, phase, missing, copy, saved, torn, unparsed>> /\ steps = << >>
      /\ cmd = "idle"
    BY DEF StartInit, StartHttp, Begin, Types
<1>2. /\ steps' \in Seq(File) /\ ic' \subseteq Method
      /\ cmd' = "http" => Whole("svc.go")
      /\ cmd' = "idle" => steps' = << >>
    <2>1. CASE StartInit
        BY <1>1, <2>1 DEF StartInit, InitSteps, File, Types
    <2>2. CASE StartHttp
        <3>1. \A o \in Flags : HttpSteps(o) \in Seq(File)
            <4>1. /\ <<"config.go", "dotenv.go", "db.go", "middleware.go", "main.go", "handler.go",
                       "handlerimpl.go">> \in Seq(File)
                  /\ <<"client.go">> \in Seq(File) /\ << >> \in Seq(File)
                  /\ <<"svcimpl.go">> \in Seq(File) /\ <<"openapi3.json">> \in Seq(File)
                BY DEF File
            <4>2. \A s, t \in Seq(File) : s \o t \in Seq(File)
                OBVIOUS
            <4>3. QED
                BY <4>1, <4>2, Zenon DEF HttpSteps
        <3>2. "svc.go" \in File
            BY DEF File
        <3>3. file["svc.go"].methods \subseteq Method
            BY <3>2 DEF Types, Contents
        <3>4. QED
            BY <1>1, <2>2, <3>1, <3>3 DEF StartHttp, Accepts, Types
    <2>3. QED
        BY <2>1, <2>2
<1>3. /\ phase = "stat" /\ phase' = "stat"
      /\ \A f : \A p \in Phases \ {"stat"} : ~At(f, p) /\ ~At(f, p)'
    BY <1>1 DEF At, Types
<1>4. Types'
    BY <1>1, <1>2 DEF Types
<1>5. ModKept' /\ Writing' /\ CopyStage'
    BY <1>1, <1>2, <1>3 DEF ModKept, Writing, CopyStage, Whole, Phases
<1>6. Unexcused'
    BY <1>1, <1>3 DEF Unexcused, Excused, Phases
<1>7. EditsKept' /\ EmptyIsExplained'
    BY <1>1, <1>3 DEF EditsKept, EmptyIsExplained, At, Phases
<1>8. QED
    BY <1>4, <1>5, <1>6, <1>7

(* A command ends. *)
LEMMA FinishIInv ==
    ASSUME IInv, Finish
    PROVE  IInv'
BY PanicIInv DEF IInv, Types, Finish, Panic

(* A command that is stopped may leave the file it was writing empty. *)
LEMMA InterruptIInv ==
    ASSUME IInv, Interrupt
    PROVE  IInv'
<1> USE DEF IInv
<1> DEFINE lost == {f \in File : steps # << >> /\ Head(steps) = f /\ file[f] = Empty}
           hi == "handlerimpl.go"
<1>1. /\ UNCHANGED <<file, runs, unparsed>> /\ cmd' = "idle" /\ steps' = << >>
      /\ phase' = "stat" /\ ic' = {} /\ missing' = {} /\ copy' = Empty
      /\ torn' = torn \cup lost
      /\ saved' = [i \in DOMAIN saved |->
                      IF saved[i].in \in lost THEN [saved[i] EXCEPT !.during = "torn"] ELSE saved[i]]
    BY DEF Interrupt, Stop, Leave
<1>2. /\ saved \in Seq(Saves) /\ DOMAIN saved = 1..Len(saved) /\ Len(saved) \in Nat
      /\ \A e \in DOMAIN saved : saved[e] \in Saves
    BY DEF Types
<1>3. \A e \in DOMAIN saved :
          /\ saved'[e] \in Saves /\ saved'[e].in = saved[e].in
          /\ saved'[e].during = IF saved[e].in \in lost THEN "torn" ELSE saved[e].during
    BY <1>1, <1>2 DEF Saves
<1>4. DOMAIN saved' = DOMAIN saved /\ saved' \in Seq(Saves)
    <2>1. saved' \in [1..Len(saved) -> Saves]
        BY <1>1, <1>2, <1>3
    <2>2. QED
        BY <1>1, <1>2, <2>1
<1>5. Types'
    BY <1>1, <1>4, ContentsTyped DEF Types, Phases
<1>6. ModKept' /\ Writing' /\ CopyStage'
    BY <1>1 DEF ModKept, Writing, CopyStage, Whole, At
<1>7. Unexcused'
    <2>1. CASE hi \in lost
        BY <1>1, <2>1 DEF Unexcused, At, Empty, Content
    <2>2. CASE hi \notin lost
        BY <1>1, <1>3, <1>4, <2>2 DEF Unexcused, Excused, At, Empty, Content
    <2>3. QED
        BY <2>1, <2>2
<1>8. EditsKept'
    <2>1. SUFFICES ASSUME NEW e \in DOMAIN saved, saved[e].in \notin Overwritten,
                          saved[e].in \notin lost, saved[e].during \notin {"rewrite", "torn"}
                   PROVE  e \in file[saved[e].in].edits
        BY <1>1, <1>3, <1>4 DEF EditsKept
    <2>2. saved[e].in \in File
        BY <1>2 DEF Saves
    <2>3. ~At(saved[e].in, "write")
        BY <2>1, <2>2 DEF Writing, At
    <2>4. QED
        BY <2>1, <2>3 DEF EditsKept
<1>9. EmptyIsExplained'
    BY <1>1 DEF EmptyIsExplained
<1>10. QED
    BY <1>5, <1>6, <1>7, <1>8, <1>9

(* The developer saves a whole file. *)
LEMMA SaveIInv ==
    ASSUME IInv, Save \/ Design
    PROVE  IInv'
<1> USE DEF IInv
<1> DEFINE hi == "handlerimpl.go"
           here(f) == IF steps # << >> /\ Head(steps) = f THEN phase ELSE "none"
<1>1. PICK f \in File :
          /\ Whole(f) /\ saved' = Append(saved, [in |-> f, during |-> here(f)])
          /\ file' \in [File -> Contents] /\ \A g \in File \ {f} : file'[g] = file[g]
          /\ file'[f].state = file[f].state /\ file'[f].again = file[f].again
          /\ file'[f].edits = file[f].edits \cup {Len(saved) + 1}
          /\ UNCHANGED <<cmd, steps, phase, opts, ic, missing, copy, runs, torn, unparsed>>
    <2>1. \E f \in File, methods \in SUBSET Method :
              /\ Whole(f) /\ Note(f) /\ UNCHANGED tool /\ UNCHANGED <<torn, unparsed>>
              /\ file' = [file EXCEPT ![f].edits = @ \cup {Len(saved) + 1}, ![f].methods = methods]
        <3>1. CASE Design
            BY <3>1, ScaffoldAssumption DEF Design, File
        <3>2. CASE Save
            <4>1. PICK f \in Touched, new \in {{}} \cup {{m} : m \in Method} :
                      /\ Whole(f) /\ Note(f) /\ UNCHANGED tool /\ UNCHANGED <<torn, unparsed>>
                      /\ file' = [file EXCEPT ![f].edits = @ \cup {Len(saved) + 1},
                                              ![f].methods = @ \cup new]
                BY <3>2 DEF Save
            <4>2. f \in File /\ file[f] \in Contents
                BY TouchedAssumption DEF Types
            <4>3. file[f].methods \cup new \in SUBSET Method
                BY <4>2 DEF Contents
            <4>4. [file EXCEPT ![f].edits = @ \cup {Len(saved) + 1}, ![f].methods = @ \cup new]
                  = [file EXCEPT ![f].edits = @ \cup {Len(saved) + 1},
                                 ![f].methods = file[f].methods \cup new]
                BY <4>2 DEF Types, Contents
            <4>5. QED
                BY <4>1, <4>2, <4>3, <4>4
        <3>3. QED
            BY <3>1, <3>2
    <2>2. PICK f \in File, methods \in SUBSET Method :
              /\ Whole(f) /\ Note(f) /\ UNCHANGED tool /\ UNCHANGED <<torn, unparsed>>
              /\ file' = [file EXCEPT ![f].edits = @ \cup {Len(saved) + 1}, ![f].methods = methods]
        BY <2>1
    <2>3. file[f] \in Contents /\ Len(saved) + 1 \in Nat
        BY DEF Types
    <2>4. /\ \A g \in File \ {f} : file'[g] = file[g]
          /\ DOMAIN file' = File
          /\ file'[f] = [file[f] EXCEPT !.edits = @ \cup {Len(saved) + 1}, !.methods = methods]
        BY <2>2 DEF Types
    <2>5. /\ file'[f] \in Contents
          /\ file'[f].state = file[f].state /\ file'[f].again = file[f].again
          /\ file'[f].edits = file[f].edits \cup {Len(saved) + 1}
        <3>1. file'[f] = [state |-> file[f].state, methods |-> methods, again |-> file[f].again,
                          edits |-> file[f].edits \cup {Len(saved) + 1}]
            BY <2>3, <2>4 DEF Contents
        <3>2. /\ file[f].state \in {"absent", "empty", "whole"} /\ file[f].again \in SUBSET Method
              /\ file[f].edits \cup {Len(saved) + 1} \in SUBSET Nat
            BY <2>3 DEF Contents
        <3>3. QED
            BY <3>1, <3>2 DEF Contents
    <2>6. file' \in [File -> Contents]
        BY <2>2, <2>4, <2>5 DEF Types
    <2>7. QED
        BY <2>2, <2>4, <2>5, <2>6 DEF Note, tool
<1>2. /\ DOMAIN saved' = 1..(Len(saved) + 1) /\ DOMAIN saved = 1..Len(saved)
      /\ \A e \in DOMAIN saved : saved'[e] = saved[e]
      /\ saved'[Len(saved) + 1] = [in |-> f, during |-> here(f)]
      /\ Len(saved) \in Nat
    <2>1. saved \in Seq(Saves)
        BY DEF Types
    <2>2. QED
        BY <1>1, <2>1
<1>3. /\ \A e \in DOMAIN saved : e # Len(saved) + 1 /\ e \in DOMAIN saved'
      /\ Len(saved) + 1 \in DOMAIN saved'
      /\ \A e \in DOMAIN saved' : e \in DOMAIN saved \/ e = Len(saved) + 1
    BY <1>2
<1>4. Types'
    <2>1. [in |-> f, during |-> here(f)] \in Saves
        BY DEF Types, Saves
    <2>2. saved' \in Seq(Saves)
        BY <1>1, <2>1 DEF Types
    <2>3. QED
        BY <1>1, <2>2 DEF Types
<1>5. file[f] # Empty /\ file'[f] # Empty /\ Whole(f)
    BY <1>1 DEF Whole, Empty, Content
<1>6. \A g, p : At(g, p)' <=> At(g, p)
    BY <1>1 DEF At
<1> HIDE DEF here
<1>7. ModKept' /\ Writing'
    BY <1>1, <1>5, <1>6 DEF ModKept, Writing, Whole, File
<1>8. CopyStage'
    BY <1>1, <1>2, <1>3, <1>6 DEF CopyStage, At, here, File
<1>9. Unexcused'
    BY <1>1, <1>2, <1>3, <1>6 DEF Unexcused, Excused, At, here, File
<1>10. EditsKept'
    BY <1>1, <1>2, <1>3, <1>6, SavedTyped DEF EditsKept
<1>11. EmptyIsExplained'
    BY <1>1, <1>5 DEF EmptyIsExplained
<1>12. QED
    BY <1>4, <1>7, <1>8, <1>9, <1>10, <1>11

(* The developer removes a file that was left empty. *)
LEMMA RemoveIInv ==
    ASSUME IInv, Remove
    PROVE  IInv'
<1> USE DEF IInv
<1>1. PICK f \in File :
          /\ cmd = "idle" /\ file[f] = Empty /\ file' = [file EXCEPT ![f] = Absent]
          /\ torn' = torn \ {f} /\ unparsed' = unparsed \ {f}
          /\ UNCHANGED <<cmd, steps, phase, opts, ic, missing, copy, runs, saved>>
    BY DEF Remove, tool
<1>2. \A g \in File : file'[g] = IF g = f THEN Absent ELSE file[g]
    BY <1>1 DEF Types
<1>3. Empty.edits = Absent.edits /\ Empty # Absent /\ Absent.again = {} /\ Absent.methods = {}
      /\ Absent.state # "whole" /\ Empty.state # "whole"
    BY DEF Empty, Absent, Content
<1>4. \A g, p : ~At(g, p) /\ ~At(g, p)'
    BY <1>1 DEF At, Types
<1>5. Types'
    BY <1>1, ContentsTyped DEF Types
<1>6. ModKept' /\ Writing' /\ CopyStage'
    BY <1>1, <1>2, <1>3, <1>4 DEF ModKept, Writing, CopyStage, Whole, File
<1>7. Unexcused'
    BY <1>1, <1>2, <1>3, <1>4 DEF Unexcused, Excused, File
<1>8. EditsKept'
    BY <1>1, <1>2, <1>3, <1>4, SavedTyped DEF EditsKept
<1>9. EmptyIsExplained'
    BY <1>1, <1>2, <1>3 DEF EmptyIsExplained, Types
<1>10. QED
    BY <1>5, <1>6, <1>7, <1>8, <1>9

(* The invariant holds in every reachable state. *)
THEOREM FilesHold == Spec => []IInv
<1>1. Init => IInv
    <2>1. SUFFICES ASSUME Init PROVE IInv
        OBVIOUS
    <2>2. \A f, p : p # "stat" => ~At(f, p)
        BY <2>1 DEF Init, At
    <2>3. \A f \in File : file[f] = Absent
        BY <2>1 DEF Init
    <2>4. Types
        BY <2>1, ContentsTyped DEF Init, Types, Phases
    <2>5. /\ Absent.state # "whole" /\ Absent # Empty /\ Absent.again = {}
          /\ Empty.again = {} /\ Empty.methods = {}
        BY DEF Absent, Empty, Content
    <2>6. ModKept /\ Writing /\ CopyStage /\ Unexcused /\ EditsKept /\ EmptyIsExplained
        BY <2>1, <2>2, <2>3, <2>5
        DEF Init, ModKept, Writing, CopyStage, Unexcused, EditsKept, EmptyIsExplained, Whole, File
    <2>7. QED
        BY <2>4, <2>6 DEF IInv
<1>2. IInv /\ [Next]_vars => IInv'
    <2>1. IInv /\ UNCHANGED vars => IInv'
        BY DEF vars, IInv, Types, ModKept, Writing, CopyStage, Unexcused, Excused,
               EditsKept, EmptyIsExplained, Whole, At
    <2>2. QED
        BY <2>1, StartIInv, StepIInv, FinishIInv, InterruptIInv, SaveIInv, RemoveIInv DEF Next
<1>3. QED
    BY <1>1, <1>2, PTL DEF Spec

-----------------------------------------------------------------------------
(* The results.                                                             *)

\* However commands and edits overlap, an edit stays in a file that is not
\* generated anew, unless it was saved between the reading and the writing of
\* the file, or a command was stopped in the middle of the writing.
THEOREM HandsWorkStays == Spec => []EditsKept
<1>1. IInv => EditsKept
    BY DEF IInv
<1>2. QED
    BY <1>1, FilesHold, PTL

\* However often svc http --handler is run, no handler is declared twice, but
\* for one written by hand between the parsing and the reading of the file.
THEOREM NoSecondHandler == Spec => []DeclaredOnce
<1>1. IInv => DeclaredOnce
    BY DEF IInv, Unexcused, Excused, DeclaredOnce
<1>2. QED
    BY <1>1, FilesHold, PTL

\* Only a stop from outside leaves a file empty, and a source generated for
\* handlerimpl.go or client.go that does not parse; no other panic does.
THEOREM EmptyFilesExplained == Spec => []EmptyIsExplained
<1>1. IInv => EmptyIsExplained
    BY DEF IInv
<1>2. QED
    BY <1>1, FilesHold, PTL

-----------------------------------------------------------------------------
(* svc http makes each of its files once.                                   *)

(* One element more at the end of a sequence. *)
LEMMA AppendOne ==
    ASSUME NEW S, NEW s \in Seq(S), NEW e \in S
    PROVE  /\ s \o <<e>> \in Seq(S) /\ Len(s \o <<e>>) = Len(s) + 1
           /\ DOMAIN (s \o <<e>>) = 1..(Len(s) + 1)
           /\ \A i \in DOMAIN s : (s \o <<e>>)[i] = s[i]
           /\ (s \o <<e>>)[Len(s) + 1] = e
OBVIOUS

\* No element comes twice.
Once(s) == \A i, j \in DOMAIN s : s[i] = s[j] => i = j
Listed(s) == {s[i] : i \in DOMAIN s}

(* A sequence that grows by something new. *)
LEMMA OnceMore ==
    ASSUME NEW S, NEW s \in Seq(S), NEW e \in S, Once(s), e \notin Listed(s)
    PROVE  s \o <<e>> \in Seq(S) /\ Once(s \o <<e>>) /\ Listed(s \o <<e>>) = Listed(s) \cup {e}
<1>1. /\ DOMAIN s = 1..Len(s) /\ Len(s) \in Nat
      /\ \A i \in DOMAIN (s \o <<e>>) : i \in DOMAIN s \/ i = Len(s) + 1
      /\ Len(s) + 1 \in DOMAIN (s \o <<e>>) /\ DOMAIN s \subseteq DOMAIN (s \o <<e>>)
    BY AppendOne
<1>2. Once(s \o <<e>>)
    BY <1>1, AppendOne DEF Once, Listed
<1>3. Listed(s \o <<e>>) = Listed(s) \cup {e}
    BY <1>1, AppendOne DEF Listed
<1>4. QED
    BY <1>2, <1>3, AppendOne

(* svc http works on each of its files once, among them all those that are *)
(* generated.                                                              *)
LEMMA StepsOnce ==
    ASSUME NEW o
    PROVE  /\ HttpSteps(o) \in Seq(File) /\ Once(HttpSteps(o))
           /\ {"handler.go", "handlerimpl.go"} \subseteq Listed(HttpSteps(o))
           /\ o.client => "client.go" \in Listed(HttpSteps(o))
           /\ o.doc => "openapi3.json" \in Listed(HttpSteps(o))
<1> DEFINE s0 == <<"config.go", "dotenv.go", "db.go", "middleware.go", "main.go", "handler.go", "handlerimpl.go">>
           s1 == s0 \o (IF o.client THEN <<"client.go">> ELSE << >>)
           s2 == s1 \o <<"svcimpl.go">>
<1>1. /\ s0 \in Seq(File) /\ Once(s0)
      /\ Listed(s0) = {"config.go", "dotenv.go", "db.go", "middleware.go", "main.go",
                       "handler.go", "handlerimpl.go"}
    BY DEF File, Once, Listed
<1>2. {"client.go", "svcimpl.go", "openapi3.json"} \subseteq File
    BY DEF File
<1> HIDE DEF s0
<1>3. \A s \in Seq(File) : s \o << >> = s
    OBVIOUS
<1>4. /\ s1 \in Seq(File) /\ Once(s1)
      /\ Listed(s1) = Listed(s0) \cup (IF o.client THEN {"client.go"} ELSE {})
    <2>1. CASE o.client
        BY <1>1, <1>2, <2>1, OnceMore
    <2>2. CASE ~o.client
        BY <1>1, <1>3, <2>2
    <2>3. QED
        BY <2>1, <2>2
<1> HIDE DEF s1
<1>5. /\ s2 \in Seq(File) /\ Once(s2) /\ Listed(s2) = Listed(s1) \cup {"svcimpl.go"}
    BY <1>1, <1>2, <1>4, OnceMore
<1> HIDE DEF s2
<1>6. HttpSteps(o) = s2 \o (IF o.doc THEN <<"openapi3.json">> ELSE << >>)
    BY DEF HttpSteps, s0, s1, s2
<1>7. CASE o.doc
    <2>1. /\ HttpSteps(o) = s2 \o <<"openapi3.json">>
          /\ "openapi3.json" \in File /\ "openapi3.json" \notin Listed(s2)
        BY <1>1, <1>2, <1>4, <1>5, <1>6, <1>7
    <2>2. /\ HttpSteps(o) \in Seq(File) /\ Once(HttpSteps(o))
          /\ Listed(HttpSteps(o)) = Listed(s2) \cup {"openapi3.json"}
        BY <1>5, <2>1, OnceMore
    <2>3. QED
        BY <1>1, <1>4, <1>5, <2>2
<1>8. CASE ~o.doc
    BY <1>1, <1>3, <1>4, <1>5, <1>6, <1>8
<1>9. QED
    BY <1>7, <1>8

-----------------------------------------------------------------------------
(* What a command has made by the time it comes to its end.                 *)

\* The step for f was done, and left what AgreesAtEnd promises of the file.
Made(f) ==
    /\ \/ Whole(f)
       \/ /\ f \in (torn \cup unparsed) \ Overwritten
          /\ opts.handler => f # "handlerimpl.go"
    /\ f \in Overwritten => file[f].methods = ic
    /\ f = "handlerimpl.go" /\ opts.handler => ic \subseteq file[f].methods

\* The handlers that are not in handlerimpl.go yet are going to be added.
Extending ==
    LET hi == "handlerimpl.go" IN
    /\ At(hi, "mod") \/ At(hi, "read") => ic \subseteq missing \cup file[hi].methods
    /\ opts.handler /\ (At(hi, "rewrite") \/ At(hi, "write"))
           => ic \subseteq missing \cup copy.methods

Formed == \A f \in File : Whole(f) \/ file[f] \in {Empty, Absent}

\* Each file of the command is still to do or made.
Progress == /\ Once(steps)
            /\ cmd = "http" =>
                   \A f \in Listed(HttpSteps(opts)) : f \in Listed(steps) \/ Made(f)

Ending == Formed /\ Extending /\ Progress

\* What one step for the file f does, and how it ends.
Works(f) ==
    /\ f \in File /\ steps # << >> /\ Head(steps) = f
    /\ \A g \in File \ {f} : file'[g] = file[g]
    /\ Whole(f)' \/ file'[f] \in {Empty, Absent}
    /\ \/ cmd' = "idle" /\ steps' = << >>
       \/ /\ UNCHANGED <<cmd, opts, ic, torn, unparsed>>
          /\ Extending'
          /\ \/ steps' = steps
             \/ steps' = Tail(steps) /\ Made(f)'

(* A panic ends the command and leaves the files as they are. *)
LEMMA PanicWorks ==
    ASSUME Formed, NEW f \in File, At(f, phase), Panic \/ FixImportPanics(f)
    PROVE  Works(f)
BY DEF Works, Panic, FixImportPanics, Stop, Leave, At, Formed, Whole

(* A file that Create leaves alone was whole, or left empty by a stop. *)
LEMMA CreateWorks ==
    ASSUME Types, EmptyIsExplained, Formed, NEW f \in File \ Overwritten, NEW needsMod,
           Create(f, needsMod), f = "handlerimpl.go" => ~opts.handler
    PROVE  Works(f)
<1>1. At(f, "stat") /\ steps # << >> /\ Head(steps) = f /\ phase = "stat"
    BY DEF Create, At
<1>2. CASE file[f] # Absent /\ Done /\ Keep
    <2>1. /\ file' = file /\ UNCHANGED <<torn, unparsed>> /\ phase' = "stat"
          /\ steps' = Tail(steps) /\ UNCHANGED <<cmd, opts, ic>>
        BY <1>2 DEF Keep, Done, developer
    <2>2. Whole(f) \/ f \in torn \cup unparsed
        BY <1>1, <1>2 DEF Formed, EmptyIsExplained
    <2>3. Made(f)'
        BY <2>1, <2>2 DEF Made, Whole
    <2>4. Extending'
        BY <2>1 DEF Extending, At
    <2>5. QED
        BY <1>1, <2>1, <2>3, <2>4 DEF Works, Formed, Whole
<1>3. CASE Go("write") /\ Put(f, Empty)
    <2>1. /\ file' = [file EXCEPT ![f] = Empty] /\ UNCHANGED <<torn, unparsed>> /\ phase' = "write"
          /\ steps' = steps /\ UNCHANGED <<cmd, opts, ic>>
        BY <1>3 DEF Put, Go, developer
    <2>2. Extending'
        BY <1>1, <2>1 DEF Extending, At
    <2>3. QED
        BY <1>1, <2>1, <2>2 DEF Works, Types
<1>4. CASE Panic
    BY <1>1, <1>4, PanicWorks
<1>5. QED
    BY <1>2, <1>3, <1>4 DEF Create

(* What is written serves the methods of the interface. *)
LEMMA WriteWorks ==
    ASSUME Types, NEW f \in File, NEW methods, Write(f, methods),
           f \in Overwritten => methods = ic, f = "handlerimpl.go" => ~opts.handler
    PROVE  Works(f)
<1>1. /\ steps # << >> /\ Head(steps) = f
      /\ file' = [file EXCEPT ![f] = Fresh(methods)] /\ UNCHANGED <<torn, unparsed>> /\ phase' = "stat"
      /\ steps' = Tail(steps) /\ UNCHANGED <<cmd, opts, ic>>
    BY DEF Write, At, Done, Put, developer
<1>2. /\ file'[f] = Fresh(methods) /\ \A g \in File \ {f} : file'[g] = file[g]
      /\ Fresh(methods).state = "whole" /\ Fresh(methods).methods = methods
    BY <1>1 DEF Types, Fresh, Content
<1>3. Made(f)'
    BY <1>1, <1>2 DEF Made, Whole
<1>4. Extending'
    BY <1>1 DEF Extending, At
<1>5. QED
    BY <1>1, <1>2, <1>3, <1>4 DEF Works, Whole

(* A client that does not parse is not written. *)
LEMMA ClientWorks ==
    ASSUME Types, Formed, WriteIfParsed("client.go", ic, NoClient)
    PROVE  Works("client.go")
<1>1. "client.go" \in File
    BY DEF File
<1>2. CASE Write("client.go", ic)
    BY <1>1, <1>2, WriteWorks
<1>3. CASE At("client.go", "write") /\ FixImportPanics("client.go")
    BY <1>1, <1>3, PanicWorks DEF At
<1>4. QED
    BY <1>2, <1>3 DEF WriteIfParsed

(* A truncated file is still to do. *)
LEMMA TruncateWorks ==
    ASSUME Types, NEW f \in Overwritten, NEW there, Truncate(f, there)
    PROVE  Works(f)
<1>1. /\ f \in File /\ f # "handlerimpl.go" /\ steps # << >> /\ Head(steps) = f
      /\ file' = [file EXCEPT ![f] = Empty] /\ UNCHANGED <<torn, unparsed>>
      /\ steps' = steps /\ UNCHANGED <<cmd, opts, ic>>
    BY DEF Truncate, At, Go, Put, developer, File, Overwritten
<1>2. Extending'
    BY <1>1 DEF Extending, At
<1>3. QED
    BY <1>1, <1>2 DEF Works, Types

(* Reading go.mod changes no file. *)
LEMMA ReadModWorks ==
    ASSUME Types, Formed, Extending,
           ReadMod("client.go", "write") \/ ReadMod("handlerimpl.go", "read")
    PROVE  Works(Head(steps))
<1>1. PICK f \in {"client.go", "handlerimpl.go"} :
          /\ At(f, "mod") /\ f \in File
          /\ \/ Panic
             \/ /\ UNCHANGED <<file, missing, torn, unparsed, steps, cmd, opts, ic>>
                /\ f = "client.go" \/ phase' = "read"
    BY DEF ReadMod, Go, Keep, developer, File
<1>2. CASE Panic
    BY <1>1, <1>2, PanicWorks DEF At
<1>3. CASE /\ UNCHANGED <<file, missing, torn, unparsed, steps, cmd, opts, ic>>
           /\ f = "client.go" \/ phase' = "read"
    <2>1. Extending'
        BY <1>1, <1>3 DEF Extending, At
    <2>2. QED
        BY <1>1, <1>3, <2>1 DEF Works, Formed, Whole, At
<1>4. QED
    BY <1>1, <1>2, <1>3

(* Handlers that were not there when handlerimpl.go was parsed are missing; *)
(* the developer only adds to those that were.                              *)
LEMMA ExtendWorks ==
    ASSUME Types, Formed, Extending, opts.handler,
           Parse \/ ReadAll \/ Rewrite \/ Extend
    PROVE  Works("handlerimpl.go")
<1> DEFINE hi == "handlerimpl.go"
<1>1. hi \in File /\ hi \notin Overwritten
    BY DEF File, Overwritten
<1>2. CASE Parse
    <2>1. CASE Panic
        BY <1>1, <1>2, <2>1, PanicWorks DEF Parse, At
    <2>2. CASE /\ \/ file' = [file EXCEPT ![hi] = Empty] /\ missing' = ic
                  \/ file' = file /\ missing' = ic \ file[hi].methods
               /\ Go("mod") /\ UNCHANGED developer
        <3>1. UNCHANGED <<cmd, steps, opts, ic, torn, unparsed>> /\ phase' = "mod"
            BY <2>2 DEF Go, developer
        <3>2. ic \subseteq missing' \cup file'[hi].methods
            BY <2>2
        <3>3. Extending'
            BY <3>1, <3>2 DEF Extending, At
        <3>4. Whole(hi)' \/ file'[hi] \in {Empty, Absent}
            BY <1>1, <2>2 DEF Formed, Whole, Types
        <3>5. QED
            BY <1>1, <1>2, <2>2, <3>1, <3>3, <3>4 DEF Works, Parse, At, Types
    <2>3. QED
        BY <1>2, <2>1, <2>2 DEF Parse
<1>3. CASE ReadAll
    <2>1. /\ UNCHANGED <<cmd, steps, opts, ic, torn, unparsed, file, missing>> /\ phase' = "rewrite"
          /\ copy' = file[hi] /\ At(hi, "read")
        BY <1>3 DEF ReadAll, Go, developer
    <2>2. Extending'
        BY <2>1 DEF Extending, At
    <2>3. QED
        BY <1>1, <2>1, <2>2 DEF Works, At, Formed, Whole
<1>4. CASE Rewrite
    <2>1. CASE Go("write") /\ Put(hi, Empty)
        <3>1. /\ UNCHANGED <<cmd, steps, opts, ic, torn, unparsed, missing, copy>> /\ phase' = "write"
              /\ file' = [file EXCEPT ![hi] = Empty] /\ At(hi, "rewrite")
            BY <1>4, <2>1 DEF Rewrite, Go, Put, developer
        <3>2. Extending'
            BY <3>1 DEF Extending, At
        <3>3. QED
            BY <1>1, <3>1, <3>2 DEF Works, At, Types
    <2>2. CASE FixImportPanics(hi)
        BY <1>1, <1>4, <2>2, PanicWorks DEF Rewrite, At
    <2>3. QED
        BY <1>4, <2>1, <2>2 DEF Rewrite
<1>5. CASE Extend
    <2>1. /\ UNCHANGED <<cmd, opts, ic, torn, unparsed>> /\ phase' = "stat" /\ steps' = Tail(steps)
          /\ At(hi, "write")
          /\ file' = [file EXCEPT ![hi] =
                 Content("whole", copy.methods \cup missing,
                         copy.again \cup (copy.methods \cap missing), copy.edits)]
        BY <1>5 DEF Extend, Done, developer
    <2>2. /\ Whole(hi)' /\ file'[hi].methods = copy.methods \cup missing
          /\ \A g \in File \ {hi} : file'[g] = file[g]
        BY <1>1, <2>1 DEF Types, Whole, Content
    <2>3. Made(hi)'
        BY <1>1, <2>1, <2>2 DEF Made, Extending
    <2>4. Extending'
        BY <2>1 DEF Extending, At
    <2>5. QED
        BY <1>1, <2>1, <2>2, <2>3, <2>4 DEF Works, At
<1>6. QED
    BY <1>2, <1>3, <1>4, <1>5

(* Every step of a command works on the first of its files. *)
LEMMA CommandWorks ==
    ASSUME IInv, Ending, InitSvc \/ Http
    PROVE  Works(Head(steps))
<1>1. Types /\ EmptyIsExplained /\ Formed /\ Extending
    BY DEF IInv, Ending
<1>2. \A f : Works(f) => Works(Head(steps))
    <2>1. ASSUME NEW f, Works(f) PROVE f = Head(steps)
        BY <2>1 DEF Works
    <2>2. ASSUME NEW f, Works(f) PROVE Works(Head(steps))
        BY <2>1, <2>2, Zenon
    <2>3. QED
        BY <2>2
<1>3. CASE InitSvc
    <2>1. {".gitignore", "go.mod", ".env", "vo.go", "svc.go", "Dockerfile"}
              \subseteq File \ Overwritten
        BY DEF File, Overwritten
    <2>2. QED
        BY <1>1, <1>2, <1>3, <2>1, CreateWorks, WriteWorks
        DEF InitSvc, GenGitignore, GenMod, GenEnv, GenVo, GenSvc, GenDockerfile
<1>4. CASE GenConfig \/ GenDotenv \/ GenDb \/ GenHttpMiddleware \/ GenMain \/ GenSvcImpl
    <2>1. {"config.go", "dotenv.go", "db.go", "middleware.go", "main.go", "svcimpl.go"}
              \subseteq File \ Overwritten
        BY DEF File, Overwritten
    <2>2. QED
        BY <1>1, <1>2, <1>4, <2>1, CreateWorks, WriteWorks
        DEF GenConfig, GenDotenv, GenDb, GenHttpMiddleware, GenMain, GenSvcImpl
<1>5. CASE GenHttpHandler \/ GenGoClient \/ GenDoc
    <2>1. /\ {"handler.go", "client.go", "openapi3.json"} \subseteq File \cap Overwritten
          /\ "handlerimpl.go" \notin Overwritten
        BY DEF File, Overwritten
    <2>2. QED
        BY <1>1, <1>2, <1>5, <2>1, TruncateWorks, WriteWorks, ReadModWorks, ClientWorks
        DEF GenHttpHandler, GenGoClient, GenDoc
<1>6. CASE GenHttpHandlerImpl
    <2>1. "handlerimpl.go" \in File \ Overwritten
        BY DEF File, Overwritten
    <2>2. QED
        BY <1>1, <1>2, <1>6, <2>1, CreateWorks, WriteWorks DEF GenHttpHandlerImpl
<1>7. CASE GenHttpHandlerImplWithImpl
    BY <1>1, <1>2, <1>7, ExtendWorks, ReadModWorks DEF GenHttpHandlerImplWithImpl
<1>8. QED
    BY <1>3, <1>4, <1>5, <1>6, <1>7 DEF Http

(* The first step of a command is done. *)
LEMMA OnceLess ==
    ASSUME NEW S, NEW s \in Seq(S), s # << >>, Once(s)
    PROVE  Once(Tail(s)) /\ Listed(Tail(s)) = Listed(s) \ {Head(s)} /\ Head(s) \in Listed(s)
<1>1. /\ DOMAIN s = 1..Len(s) /\ DOMAIN Tail(s) = 1..(Len(s) - 1) /\ Len(s) \in Nat \ {0}
      /\ \A i \in DOMAIN Tail(s) : Tail(s)[i] = s[i + 1]
      /\ Head(s) = s[1]
    OBVIOUS
<1>2. /\ 1 \in DOMAIN s
      /\ \A i \in DOMAIN Tail(s) : i + 1 \in DOMAIN s /\ i + 1 # 1
      /\ \A i \in DOMAIN s : i # 1 => i - 1 \in DOMAIN Tail(s) /\ (i - 1) + 1 = i
    BY <1>1
<1>3. \A i, j \in DOMAIN s : s[i] = s[j] => i = j
    BY DEF Once
<1>4. Once(Tail(s))
    BY <1>1, <1>3 DEF Once
<1>5. \A e : e \in Listed(Tail(s)) => e \in Listed(s) /\ e # Head(s)
    BY <1>1, <1>2, <1>3 DEF Listed
<1>6. \A e : e \in Listed(s) /\ e # Head(s) => e \in Listed(Tail(s))
    BY <1>1, <1>2 DEF Listed
<1>7. QED
    <2>1. Head(s) \in Listed(s)
        BY <1>1, <1>2 DEF Listed
    <2>2. Listed(Tail(s)) = Listed(s) \ {Head(s)}
        BY <1>5, <1>6, Zenon
    <2>3. QED
        BY <1>4, <2>1, <2>2, Zenon

(* A step on one file leaves the others as made as they were. *)
LEMMA WorksEnding ==
    ASSUME IInv, Ending, NEW f, Works(f)
    PROVE  Ending'
<1>1. /\ f \in File /\ steps # << >> /\ Head(steps) = f /\ steps \in Seq(File)
      /\ \A g \in File \ {f} : file'[g] = file[g]
      /\ Whole(f)' \/ file'[f] \in {Empty, Absent}
    BY DEF Works, IInv, Types
<1>2. Formed'
    BY <1>1 DEF Ending, Formed, Whole
<1>3. CASE cmd' = "idle" /\ steps' = << >>
    BY <1>2, <1>3 DEF Ending, Extending, Progress, Once, At
<1>4. CASE /\ UNCHANGED <<cmd, opts, ic, torn, unparsed>> /\ Extending'
           /\ \/ steps' = steps
              \/ steps' = Tail(steps) /\ Made(f)'
    <2>1. Once(steps)
        BY DEF Ending, Progress
    <2>2. /\ Once(steps') /\ f \in Listed(steps)
          /\ \/ Listed(steps') = Listed(steps)
             \/ Listed(steps') = Listed(steps) \ {f} /\ Made(f)'
        BY <1>1, <1>4, <2>1, OnceLess
    <2>3. Listed(HttpSteps(opts)) \subseteq File
        BY StepsOnce DEF Listed
    <2>4. \A g \in File \ {f} : Made(g) => Made(g)'
        BY <1>1, <1>4 DEF Made, Whole
    <2>5. cmd = "http" => \A g \in Listed(HttpSteps(opts)) : g \in Listed(steps') \/ Made(g)'
        BY <2>2, <2>3, <2>4 DEF Ending, Progress
    <2>6. Listed(HttpSteps(opts))' = Listed(HttpSteps(opts)) /\ cmd' = cmd
        BY <1>4 DEF Listed, HttpSteps
    <2>7. QED
        BY <1>2, <1>4, <2>2, <2>5, <2>6 DEF Ending, Progress, Once, Listed
<1>5. QED
    BY <1>3, <1>4 DEF Works

(* A command begins with all of its files to do. *)
LEMMA StartEnding ==
    ASSUME IInv, Ending, StartInit \/ StartHttp
    PROVE  Ending'
<1>1. UNCHANGED <<file, phase>> /\ phase = "stat"
    BY DEF StartInit, StartHttp, Begin, IInv, Types
<1>2. Formed' /\ Extending'
    BY <1>1 DEF Ending, Formed, Whole, Extending, At
<1>3. CASE StartInit
    <2>1. Once(InitSteps)
        BY DEF Once, InitSteps
    <2>2. QED
        BY <1>2, <1>3, <2>1 DEF StartInit, Ending, Progress, Once
<1>4. CASE StartHttp
    <2>1. PICK o \in Flags :
              \/ cmd' = "http" /\ steps' = HttpSteps(o) /\ opts' = o
              \/ UNCHANGED <<cmd, steps, opts, ic>>
        BY <1>4 DEF StartHttp
    <2>2. CASE cmd' = "http" /\ steps' = HttpSteps(o) /\ opts' = o
        <3>1. Once(steps') /\ HttpSteps(opts)' = steps'
            BY <2>2, StepsOnce DEF HttpSteps
        <3>2. QED
            BY <1>2, <3>1 DEF Ending, Progress, Once, Listed
    <2>3. CASE UNCHANGED <<cmd, steps, opts, ic>>
        <3>1. cmd' # "http"
            BY <1>4, <2>3 DEF StartHttp, Begin
        <3>2. QED
            BY <1>2, <2>3, <3>1 DEF Ending, Progress, Once
    <2>4. QED
        BY <2>1, <2>2, <2>3
<1>5. QED
    BY <1>3, <1>4

(* Without a command there is nothing to bring to an end. *)
LEMMA IdleEnding ==
    ASSUME IInv, Ending, Finish \/ Interrupt \/ Remove
    PROVE  Ending'
<1>1. cmd' = "idle" /\ steps' = << >>
    BY DEF Finish, Interrupt, Remove, Stop, Leave, tool, IInv, Types
<1>2. \A f \in File : file'[f] = file[f] \/ file'[f] = Absent
    BY DEF Finish, Interrupt, Remove, Stop, IInv, Types
<1>3. QED
    BY <1>1, <1>2 DEF Ending, Formed, Whole, Extending, Progress, Once, At

(* The developer takes nothing away that a command has made. *)
LEMMA SaveEnding ==
    ASSUME IInv, Ending, Save \/ Design
    PROVE  Ending'
<1>1. /\ file \in [File -> Contents] /\ "svc.go" \in File
      /\ "svc.go" \notin Overwritten
    BY DEF IInv, Types, File, Overwritten
<1>2. PICK f \in File :
          /\ Whole(f) /\ Whole(f)' /\ \A g \in File \ {f} : file'[g] = file[g]
          /\ \/ f = "svc.go"
             \/ file'[f].methods = file[f].methods
             \/ f = "handlerimpl.go" /\ file[f].methods \subseteq file'[f].methods
          /\ UNCHANGED <<cmd, steps, phase, opts, ic, missing, copy, torn, unparsed>>
    <2>1. CASE Save
        <3>1. PICK f \in Touched, new \in {{}} \cup {{m} : m \in Method} :
                  /\ Whole(f) /\ (f # "handlerimpl.go" => new = {})
                  /\ file' = [file EXCEPT ![f].edits = @ \cup {Len(saved) + 1},
                                          ![f].methods = @ \cup new]
                  /\ UNCHANGED tool /\ UNCHANGED <<torn, unparsed>>
            BY <2>1 DEF Save
        <3>2. f \in File /\ file[f] \in Contents
            BY <1>1, TouchedAssumption
        <3>3. /\ \A g \in File \ {f} : file'[g] = file[g]
              /\ file'[f] = [file[f] EXCEPT !.edits = @ \cup {Len(saved) + 1}, !.methods = @ \cup new]
            BY <1>1, <3>1, <3>2
        <3>4. file'[f].state = file[f].state /\ file'[f].methods = file[f].methods \cup new
            BY <3>2, <3>3 DEF Contents
        <3>5. QED
            BY <3>1, <3>2, <3>3, <3>4 DEF Whole, tool
    <2>2. CASE Design
        <3>1. PICK methods \in Interface :
                  /\ Whole("svc.go")
                  /\ file' = [file EXCEPT !["svc.go"].edits = @ \cup {Len(saved) + 1},
                                          !["svc.go"].methods = methods]
                  /\ UNCHANGED tool /\ UNCHANGED <<torn, unparsed>>
            BY <2>2 DEF Design
        <3>2. file["svc.go"] \in Contents
            BY <1>1
        <3>3. /\ \A g \in File \ {"svc.go"} : file'[g] = file[g]
              /\ file'["svc.go"] = [file["svc.go"] EXCEPT !.edits = @ \cup {Len(saved) + 1},
                                                          !.methods = methods]
            BY <1>1, <3>1
        <3>4. file'["svc.go"].state = file["svc.go"].state
            BY <3>2, <3>3 DEF Contents
        <3>5. QED
            BY <1>1, <3>1, <3>3, <3>4 DEF Whole, tool
    <2>3. QED
        BY <2>1, <2>2
<1>3. Formed'
    BY <1>2 DEF Ending, Formed, Whole
<1>4. /\ \A g, p : At(g, p)' <=> At(g, p)
      /\ "handlerimpl.go" \in File /\ file["handlerimpl.go"].methods \subseteq file'["handlerimpl.go"].methods
    BY <1>2 DEF At, File
<1>5. Extending'
    BY <1>2, <1>4 DEF Ending, Extending
<1>6. \A g \in File : Made(g) => Made(g)'
    BY <1>1, <1>2 DEF Made, Whole, Overwritten
<1>7. Listed(HttpSteps(opts)) \subseteq File
    BY StepsOnce DEF Listed
<1>8. Progress'
    BY <1>2, <1>6, <1>7 DEF Ending, Progress, Once, Listed, HttpSteps
<1>9. QED
    BY <1>3, <1>5, <1>8 DEF Ending

\* A command of svc http that comes to its end has made the generated code agree
\* with the interface it read, through all edits meanwhile and whatever earlier
\* commands left behind; only a file that a stop, or source that does not parse, left
\* empty, and that is never generated again, is still empty.
THEOREM EndAgrees == Spec => []AgreesAtEnd
<1>1. Init => Ending
    BY DEF Init, Ending, Formed, Extending, Progress, Once, At
<1>2. IInv /\ Ending /\ [Next]_vars => Ending'
    <2>1. IInv /\ Ending /\ (InitSvc \/ Http) => Ending'
        BY CommandWorks, WorksEnding
    <2>2. Ending /\ UNCHANGED vars => Ending'
        BY SMTT(30) DEF vars, Ending, Formed, Whole, Extending, Progress, Made, Once, Listed, HttpSteps, At
    <2>3. QED
        BY <2>1, <2>2, StartEnding, IdleEnding, SaveEnding DEF Next
<1>3. Ending => AgreesAtEnd
    <2>1. SUFFICES ASSUME Ending, cmd = "http", steps = << >>
                   PROVE  AgreesAtEnd
        BY DEF AgreesAtEnd
    <2>2. \A f \in Listed(HttpSteps(opts)) : Made(f)
        BY <2>1 DEF Ending, Progress, Listed
    <2>3. /\ Made("handler.go") /\ Made("handlerimpl.go")
          /\ opts.client => Made("client.go")
          /\ opts.doc => Made("openapi3.json")
        BY <2>2, StepsOnce
    <2>4. \A i \in DOMAIN HttpSteps(opts) : Made(HttpSteps(opts)[i])
        BY <2>2 DEF Listed
    <2>5. /\ file["handler.go"].methods = ic
          /\ opts.client => file["client.go"].methods = ic
          /\ opts.doc => file["openapi3.json"].methods = ic
          /\ opts.handler => ic \subseteq file["handlerimpl.go"].methods
        BY <2>3 DEF Made, Overwritten
    <2>6. \A i \in DOMAIN HttpSteps(opts) :
              \/ Whole(HttpSteps(opts)[i])
              \/ /\ HttpSteps(opts)[i] \in (torn \cup unparsed) \ Overwritten
                 /\ opts.handler => HttpSteps(opts)[i] # "handlerimpl.go"
        BY <2>4 DEF Made
    <2>7. QED
        BY <2>5, <2>6, Zenon DEF AgreesAtEnd
<1>4. QED
    BY <1>1, <1>2, <1>3, FilesHold, PTL DEF Spec
=============================================================================
