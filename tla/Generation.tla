------------------------------ MODULE Generation ------------------------------
\* The command agen (cmd/agen/main.go: run, Generate, loadSpec; internal/config: Load,
\* AutoDiscover; gen/write.go: WriteSource, writer.Generate): from the command line and
\* a configuration file to the files of a package, with the document and the generated
\* code on one disk, runs that fail or crash anywhere, and runs that follow.
\*
\* A path is a sequence of names.  Parsing and building are the business of the modules
\* DocumentParser and CodeBuilder: here a document says how they end.  Expanding the
\* document is the business of Expansion.
EXTENDS Naturals, SequencesExt, Functions

CONSTANTS
  ExpandTree(_),  \* what asyncapi.Expand makes of a tree: [node, ok]
  Scenarios,  \* [documents, places, invocations]: what the author may write and where to,
              \* and how agen may be started
  MaxRuns, MaxFaults
\* A document: its tree, how parsing and building it end, what there is to generate, and
\* the template whose output gofmt refuses, if one does.  An invocation: agen.yml, {} if
\* there is none, positional arguments and flags.
IsSeq(s) == s \in Seq(ToSet(s))
IsInvocation(x) ==
  /\ \A c \in x.config : IsSeq(c.spec) /\ IsSeq(c.dir) /\ IsSeq(c.output)
  /\ \A c, e \in x.config : c = e
  /\ IsSeq(x.args) /\ \A a \in ToSet(x.args) \cup {x.target} : IsSeq(a)
ASSUME GenerationAssumption ==
  \A s \in Scenarios : \A x \in s.invocations : IsInvocation(x)

VARIABLES
  scenario,
  disk,     \* path -> [doc, by]: the document, generated code, dumps
  stage,    \* where run and Generate are
  asked,    \* the invocation
  cfg,      \* *config.Config
  doc,      \* the document as it was read
  pending,  \* the templates still to write
  outcome,  \* empty, "ok", "failed" or "crashed"
  before,   \* the disk when the run started
  runs, faults
vars == <<scenario, disk, stage, asked, cfg, doc, pending, outcome, before, runs, faults>>

empty == ""          \* Go's zero string
Home == <<"work">>   \* the working directory
ConfigDir == <<>>    \* agen.yml lies in its parent: AutoDiscover looks upwards
Unset == <<"unset">>
Under(dir, path) == IsPrefix(dir, path)
File(d, by) == [doc |-> d, by |-> by]
NoDoc == [tree |-> empty, ends |-> empty, has |-> {}, breaks |-> empty]
\* the disk after a file was written
Written(path, file) == [p \in DOMAIN disk \cup {path} |-> IF p = path THEN file ELSE disk[p]]

\* A URL.  filepath.Join (Load) and filepath.Clean (Generate) make one slash of the two
\* behind its scheme: it is read like a file that is not there, and never fetched.
Url == <<"https:", "host", "doc">>

LoadRaw(c) ==  \* mutant
  [spec |-> ConfigDir \o (IF c.spec = Unset THEN <<>> ELSE c.spec), dir |-> c.dir, output |-> c.output]
\* config.Load, setDefaults: what is relative is so to the file, an absent spec too
Load(c) ==
  [spec |-> ConfigDir \o (IF c.spec = Unset THEN <<>> ELSE c.spec),
   dir |-> ConfigDir \o (IF c.dir = Unset THEN <<"api">> ELSE c.dir), output |-> c.output]
NoConfig == [spec |-> Unset, dir |-> Unset, output |-> Unset]
\* positional arguments override the file, and flags both
Override(c) ==
  [spec |-> IF asked.args = <<>> THEN c.spec ELSE Home \o asked.args[1],
   dir |-> IF asked.target # Unset THEN Home \o asked.target
           ELSE IF Len(asked.args) = 2 THEN Home \o asked.args[2] ELSE c.dir,
   output |-> c.output]

-----------------------------------------------------------------------------
\* the files of WriteSource, in their order
Templates == <<"schemas", "interfaces", "json", "validators", "defaults", "cfg", "servers",
  "operations", "msg", "handlers", "subscriber", "server", "client", "middleware",
  "unimplemented", "fakes", "equality", "unique_validators">>
Receives(d) == {"subscriber", "receive"} \subseteq d.has
Enabled(d, t) ==
  CASE t \in {"schemas", "cfg", "msg"} -> TRUE
    [] t = "operations" -> {"send", "receive"} \cap d.has # {}
    [] t \in {"handlers", "subscriber"} -> Receives(d)
    [] t = "server" -> Receives(d) /\ "wired" \in d.has
    [] t = "client" -> {"publisher", "send"} \subseteq d.has
    [] t \in {"middleware", "unimplemented"} -> Receives(d) /\ t \in d.has
    [] t \in {"equality", "unique_validators"} -> "equality" \in d.has
    [] OTHER -> t \in d.has
Plan(d) == {t \in ToSet(Templates) : Enabled(d, t)}
\* the template whose turn it is
IsNext(t) ==
  \E i \in DOMAIN Templates :
    /\ t = Templates[i] /\ t \in pending
    /\ \A j \in 1..(i - 1) : Templates[j] \notin pending
FileOf(t) == Append(cfg.dir, t)

-----------------------------------------------------------------------------
Nobody == [config |-> {}, args |-> <<>>, target |-> Unset, clean |-> FALSE]
Init ==
  /\ scenario \in Scenarios
  /\ \E d \in scenario.documents, p \in scenario.places : disk = [x \in {p} |-> File(d, "author")]
  /\ stage = "idle" /\ asked = Nobody /\ cfg = NoConfig /\ doc = NoDoc
  /\ pending = {} /\ outcome = empty /\ before = disk /\ runs = 0 /\ faults = 0

\* the author writes the document anew
Edit ==
  /\ stage = "idle" /\ outcome # empty
  /\ \E d \in scenario.documents, p \in scenario.places : disk' = Written(p, File(d, "author"))
  /\ outcome' = empty
  /\ UNCHANGED <<scenario, stage, asked, cfg, doc, pending, before, runs, faults>>

Start ==
  /\ stage = "idle" /\ runs < MaxRuns /\ runs' = runs + 1
  /\ asked' \in scenario.invocations
  /\ stage' = "config" /\ outcome' = empty /\ before' = disk /\ cfg' = NoConfig /\ doc' = NoDoc
  /\ UNCHANGED <<scenario, disk, pending, faults>>

Ends(how) == stage' = "idle" /\ outcome' = how /\ pending' = {}
Goes(to) == stage' = to /\ UNCHANGED <<outcome, pending>>
Fault == faults < MaxFaults /\ faults' = faults + 1

LoadConfig ==
  /\ stage = "config"
  /\ IF asked.config = {} THEN cfg' = NoConfig /\ Goes("arguments")
     ELSE \E c \in asked.config :
            IF c.valid THEN cfg' = Load(c) /\ Goes("arguments") ELSE UNCHANGED cfg /\ Ends("failed")
  /\ UNCHANGED <<scenario, disk, asked, doc, before, runs, faults>>

TakeArguments ==
  /\ stage = "arguments"
  /\ IF Len(asked.args) > 2 \/ (asked.args = <<>> /\ cfg.spec = Unset)
     THEN UNCHANGED cfg /\ Ends("failed")
     ELSE cfg' = Override(cfg) /\ Goes("clean")
  /\ UNCHANGED <<scenario, disk, asked, doc, before, runs, faults>>

Clean ==
  /\ stage = "clean" /\ Goes("load")
  /\ disk' = IF asked.clean /\ cfg.dir # Unset
             THEN Restrict(disk, {p \in DOMAIN disk : ~Under(cfg.dir, p)}) ELSE disk
  /\ UNCHANGED <<scenario, asked, cfg, doc, before, runs, faults>>

LoadSpec ==
  /\ stage = "load"
  /\ IF cfg.spec \in DOMAIN disk THEN doc' = disk[cfg.spec].doc /\ Goes("build")
     ELSE UNCHANGED doc /\ Ends("failed")
  /\ UNCHANGED <<scenario, disk, asked, cfg, before, runs, faults>>

\* parser.Parse, BuildFeatures, NewGenerator, MkdirAll: nothing is written before them
Build ==
  /\ stage = "build"
  /\ IF doc.ends # "ok" \/ cfg.dir = Unset THEN Ends("failed")
     ELSE stage' = "write" /\ pending' = Plan(doc) /\ UNCHANGED outcome
  /\ UNCHANGED <<scenario, disk, asked, cfg, doc, before, runs, faults>>

WriteFileIfAbsent ==  \* mutant
  \E t \in pending :
    /\ stage = "write" /\ IsNext(t) /\ doc.breaks # t
    /\ disk' = IF FileOf(t) \in DOMAIN disk THEN disk ELSE Written(FileOf(t), File(doc, "agen"))
    /\ pending' = pending \ {t}
    /\ UNCHANGED <<scenario, stage, asked, cfg, doc, outcome, before, runs, faults>>
WriteFile ==
  \E t \in pending :
    /\ stage = "write" /\ IsNext(t) /\ doc.breaks # t
    /\ disk' = Written(FileOf(t), File(doc, "agen"))
    /\ pending' = pending \ {t}
    /\ UNCHANGED <<scenario, stage, asked, cfg, doc, outcome, before, runs, faults>>
\* writer.Generate dumps what could not be formatted or written where agen runs;
\* writeFormattedCode, behind the last two files, does not
WriteFails ==
  \E t \in pending :
    /\ stage = "write" /\ IsNext(t)
    /\ IF doc.breaks = t THEN UNCHANGED faults ELSE Fault
    /\ disk' = IF t \in {"equality", "unique_validators"} THEN disk
               ELSE Written(Append(Home, t \o ".dump"), File(doc, "agen"))
    /\ Ends("failed")
    /\ UNCHANGED <<scenario, asked, cfg, doc, before, runs>>

\* the expanded document is written last, to a path relative to where agen runs
Finish ==
  /\ stage = "write" /\ pending = {}
  /\ IF cfg.output = Unset THEN Ends("ok") /\ UNCHANGED <<disk, faults>>
     ELSE LET e == ExpandTree(doc.tree) IN
          \/ /\ e.ok /\ Ends("ok") /\ UNCHANGED faults
             /\ disk' = Written(Home \o cfg.output, File([doc EXCEPT !.tree = e.node], "expand"))
          \/ ~e.ok /\ Ends("failed") /\ UNCHANGED <<disk, faults>>
          \/ e.ok /\ Ends("failed") /\ Fault /\ UNCHANGED disk
  /\ UNCHANGED <<scenario, asked, cfg, doc, before, runs>>

Crash ==
  /\ stage # "idle" /\ Fault /\ Ends("crashed")
  /\ UNCHANGED <<scenario, disk, asked, cfg, doc, before, runs>>

Next == Edit \/ Start \/ LoadConfig \/ TakeArguments \/ Clean \/ LoadSpec \/ Build
        \/ WriteFile \/ WriteFails \/ Finish \/ Crash
Spec == Init /\ [][Next]_vars

-----------------------------------------------------------------------------
\* What the invocation asks for: the first of flag, argument, file and default that names
\* a directory, and the argument or file that names a document.
Config(x) == CHOOSE c \in x.config : TRUE
WantedDir(x) ==
  IF x.target # Unset THEN Home \o x.target
  ELSE IF Len(x.args) = 2 THEN Home \o x.args[2]
  ELSE IF x.config # {} /\ Config(x).dir # Unset THEN ConfigDir \o Config(x).dir
  ELSE (IF x.config = {} THEN Home ELSE ConfigDir) \o <<"api">>
WantedSpec(x) ==
  IF x.args # <<>> THEN Home \o x.args[1]
  ELSE IF x.config = {} \/ Config(x).spec = Unset THEN Unset ELSE ConfigDir \o Config(x).spec
Code(d, dir) == {p \in DOMAIN d : Under(dir, p) /\ d[p].by = "agen"}
\* where the expanded document is to go, over whatever is there
Output(x) ==
  IF x.config = {} THEN {} ELSE {Home \o o : o \in {Config(x).output} \ {Unset}}
Files(x, d) == {Append(WantedDir(x), t) : t \in Plan(d)} \ Output(x)

\* A run that succeeds leaves the code of its document, all of it and in the directory it
\* was asked to: after a clean nothing else, whatever runs that failed or crashed had left
\* there.  One that fails leaves what was there, unless it was told to clean, or a
\* template, the disk or the expansion failed once it was writing.
AllOrNothing ==
  /\ outcome = "ok" =>
       /\ \A p \in Files(asked, doc) : p \in DOMAIN disk /\ disk[p] = File(doc, "agen")
       /\ asked.clean => Code(disk, WantedDir(asked)) = Files(asked, doc)
  /\ outcome = "failed" /\ doc.breaks = empty /\ faults = 0 =>
       asked.clean \/ disk = before \/ ~ExpandTree(doc.tree).ok

\* A run with a valid document fails for no other reason than the disk.  It holds unless
\*  - the document is at a URL ("file path or http(s):// URL");
\*  - no directory is named and there is no configuration ("Default: ./api");
\*  - cleaning the directory removes the document, which lies in it;
\*  - a reference that no one parses leads nowhere: the expansion comes last and fails;
\*  - the generated code is none that gofmt reads.
Unnamed(x) == x.config = {} /\ x.target = Unset /\ Len(x.args) < 2
FailsForAReason ==
  LET spec == WantedSpec(asked) IN
  outcome = "failed" /\ faults = 0 =>
    \/ Len(asked.args) > 2 \/ spec = Unset
    \/ asked.config # {} /\ ~Config(asked).valid
    \/ spec \notin DOMAIN before \/ before[spec].doc.ends # "ok"
    \/ Unnamed(asked)
    \/ asked.clean /\ Under(WantedDir(asked), spec)
    \/ ~ExpandTree(before[spec].doc.tree).ok \/ before[spec].doc.breaks # empty
=============================================================================
