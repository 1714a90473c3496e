---------------------------- MODULE GenerationProofs ----------------------------
(* Proofs about Generation, for all scenarios, numbers of runs and faults, and *)
(* whatever expanding a document makes of it.                                  *)
EXTENDS Generation, SequenceTheorems, TLAPS

-----------------------------------------------------------------------------
(* Paths.                                                                  *)

LEMMA SeqIs ==
  ASSUME NEW S, NEW s \in Seq(S)
  PROVE  IsSeq(s) /\ \A i \in 1..Len(s) : s[i] \in ToSet(s)
<1>1. s \in [1..Len(s) -> ToSet(s)] /\ Len(s) \in Nat
  BY DEF ToSet
<1>2. QED
  BY <1>1, SeqDef DEF IsSeq

LEMMA NamePath ==
  ASSUME NEW x
  PROVE  IsSeq(<<x>>) /\ Len(<<x>>) = 1 /\ <<x>>[1] = x
<1>1. x \in {x}
  OBVIOUS
<1>2. <<x>> \in Seq({x})
  BY <1>1
<1>3. QED
  BY <1>2, SeqIs

LEMMA HomeIsNamed ==
  ASSUME NEW p, IsSeq(p)
  PROVE  IsSeq(Home \o p) /\ Home \o p # Unset
<1>. DEFINE S == ToSet(p) \cup ToSet(Home)
<1>1. Len(Home) = 1 /\ Home[1] = "work" /\ IsSeq(Home)
  BY NamePath DEF Home
<1>2. Home \in Seq(S) /\ p \in Seq(S)
  BY <1>1 DEF IsSeq
<1>3. Home \o p \in Seq(S) /\ (Home \o p)[1] = Home[1]
  <2>. HIDE DEF S
  <2>1. Len(p) \in Nat /\ 1 \in 1..(Len(Home) + Len(p))
    BY <1>1, <1>2
  <2>2. QED
    BY <1>1, <1>2, <2>1, ConcatProperties
<1>4. Unset[1] = "unset"
  BY DEF Unset
<1>5. "work" # "unset"
  OBVIOUS
<1>6. QED
  BY <1>1, <1>3, <1>4, <1>5, SeqIs

LEMMA ConfigDirIsRoot ==
  ASSUME NEW p, IsSeq(p)
  PROVE  ConfigDir \o p = p
  BY DEF ConfigDir, IsSeq

LEMMA ApiIsNamed == IsSeq(<<"api">>) /\ <<"api">> # Unset
<1>1. Unset[1] = "unset"
  BY DEF Unset
<1>2. "api" # "unset"
  OBVIOUS
<1>3. QED
  BY <1>1, <1>2, NamePath

LEMMA UnderAppend ==
  ASSUME NEW dir, IsSeq(dir), NEW t
  PROVE  Under(dir, Append(dir, t))
<1>. DEFINE S == ToSet(dir) \cup {t}
<1>1. dir \in Seq(S) /\ t \in S
  BY DEF IsSeq
<1>2. Append(dir, t) \in Seq(S) /\ Len(Append(dir, t)) = Len(dir) + 1
      /\ \A i \in 1..Len(dir) : Append(dir, t)[i] = dir[i]
  BY <1>1
<1>3. SubSeq(Append(dir, t), 1, Len(dir)) = SubSeq(dir, 1, Len(dir))
  BY <1>1, <1>2
<1>4. QED
  BY <1>1, <1>2, <1>3 DEF Under, IsPrefix

LEMMA TemplatesNamed == \A t \in ToSet(Templates) : t # empty
<1>1. ToSet(Templates) =
        {"schemas", "interfaces", "json", "validators", "defaults", "cfg", "servers",
         "operations", "msg", "handlers", "subscriber", "server", "client", "middleware",
         "unimplemented", "fakes", "equality", "unique_validators"}
  BY DEF Templates, ToSet
<1>2. QED
  BY <1>1, Zenon DEF empty

-----------------------------------------------------------------------------
(* What the code makes of an invocation is what it asks for.               *)

LEMMA OneConfig ==
  ASSUME NEW x, IsInvocation(x), NEW c \in x.config
  PROVE  Config(x) = c
  BY DEF Config, IsInvocation

LEMMA ArgumentsAreSeqs ==
  ASSUME NEW x, IsInvocation(x)
  PROVE  /\ Len(x.args) \in Nat /\ (x.args = <<>> <=> Len(x.args) = 0)
         /\ \A i \in 1..Len(x.args) : IsSeq(x.args[i])
         /\ IsSeq(x.target)
<1>1. x.args \in Seq(ToSet(x.args)) /\ \A i \in 1..Len(x.args) : x.args[i] \in ToSet(x.args)
  BY SeqIs DEF IsInvocation, IsSeq
<1>2. QED
  BY <1>1 DEF IsInvocation

LEMMA WantedIsNamed ==
  ASSUME NEW x, IsInvocation(x)
  PROVE  IsSeq(WantedDir(x)) /\ WantedDir(x) # Unset
<1>1. x.config # {} => IsSeq(Config(x).dir) /\ ConfigDir \o Config(x).dir = Config(x).dir
  BY ConfigDirIsRoot, OneConfig DEF IsInvocation
<1>2. ConfigDir \o <<"api">> = <<"api">>
  BY ApiIsNamed, ConfigDirIsRoot
<1>3. Len(x.args) = 2 => IsSeq(x.args[2])
  BY ArgumentsAreSeqs
<1>4. QED
  BY <1>1, <1>2, <1>3, ArgumentsAreSeqs, ApiIsNamed, HomeIsNamed DEF WantedDir

\* *config.Config once the file was read
Read(x) == IF x.config = {} THEN NoConfig ELSE Load(Config(x))
\* ... and what it holds once arguments and flags were taken.
Chosen ==
  /\ cfg.dir = IF Unnamed(asked) THEN Unset ELSE WantedDir(asked)
  /\ WantedSpec(asked) \in {cfg.spec, Unset}
  /\ Output(asked) = {Home \o o : o \in {cfg.output} \ {Unset}}

LEMMA Overrides ==
  ASSUME IsInvocation(asked), Len(asked.args) <= 2, NEW c, c = Read(asked),
         cfg' = Override(c), asked' = asked
  PROVE  Chosen'
<1>. DEFINE y == Config(asked)
<1>1. DOMAIN c = {"spec", "dir", "output"}
  BY DEF Read, NoConfig, Load
<1>2. /\ cfg'.spec = IF asked.args = <<>> THEN c.spec ELSE Home \o asked.args[1]
      /\ cfg'.output = c.output
      /\ cfg'.dir = IF asked.target # Unset THEN Home \o asked.target
                     ELSE IF Len(asked.args) = 2 THEN Home \o asked.args[2] ELSE c.dir
  BY <1>1 DEF Override
<1>3. CASE asked.config = {}
  <2>1. c.spec = Unset /\ c.dir = Unset /\ c.output = Unset
    BY <1>3 DEF Read, NoConfig
  <2>2. cfg'.dir = IF Unnamed(asked) THEN Unset ELSE WantedDir(asked)
    <3>1. PICK n \in Nat : n = Len(asked.args)
      BY ArgumentsAreSeqs
    <3>2. n <= 2
      BY <3>1
    <3>3. n < 2 <=> n # 2
      BY <3>2
    <3>4. QED
      BY <1>2, <1>3, <2>1, <3>1, <3>3 DEF Unnamed, WantedDir
  <2>3. WantedSpec(asked) \in {cfg'.spec, Unset}
    BY <1>2, <1>3, <2>1 DEF WantedSpec
  <2>4. Output(asked) = {} /\ {Home \o o : o \in {cfg'.output} \ {Unset}} = {}
    BY <1>2, <1>3, <2>1 DEF Output
  <2>5. QED
    BY <2>2, <2>3, <2>4 DEF Chosen
<1>4. CASE asked.config # {}
  <2>1. /\ c.spec = ConfigDir \o (IF y.spec = Unset THEN <<>> ELSE y.spec)
        /\ c.dir = ConfigDir \o (IF y.dir = Unset THEN <<"api">> ELSE y.dir)
        /\ c.output = y.output
    BY <1>4 DEF Read, Load
  <2>2. QED
    BY <1>2, <1>4, <2>1, ArgumentsAreSeqs DEF Chosen, Unnamed, WantedDir, WantedSpec, Output
<1>5. QED
  BY <1>3, <1>4

-----------------------------------------------------------------------------
(* The invariant.                                                          *)

Known ==
  /\ scenario \in Scenarios /\ faults \in Nat
  /\ stage # "idle" \/ outcome # empty => IsInvocation(asked)
  /\ stage # "idle" => outcome = empty

Configured ==
  /\ stage = "arguments" => cfg = Read(asked)
  /\ stage \in {"clean", "load", "build", "write"} => Chosen

\* The document that is generated from is the one that was there at the start.
Kept ==
  /\ stage \in {"config", "arguments", "clean"} => disk = before
  /\ stage \in {"load", "build"} =>
       disk = IF asked.clean /\ ~Unnamed(asked)
              THEN Restrict(before, {p \in DOMAIN before : ~Under(WantedDir(asked), p)}) ELSE before
  /\ stage \in {"build", "write"} => cfg.spec \in DOMAIN before /\ doc = before[cfg.spec].doc

\* What is not pending is written, and beside it a cleaned directory has no code.
Writing ==
  stage = "write" =>
    /\ ~Unnamed(asked) /\ doc.ends = "ok" /\ pending \subseteq Plan(doc)
    /\ \A t \in Plan(doc) \ pending : FileOf(t) \in DOMAIN disk /\ disk[FileOf(t)] = File(doc, "agen")
    /\ asked.clean =>
         Code(disk, WantedDir(asked)) \subseteq {Append(WantedDir(asked), t) : t \in Plan(doc)}

Inv == Known /\ Configured /\ Kept /\ Writing /\ AllOrNothing /\ FailsForAReason

LEMMA InitInv == Init => Inv
<1>1. "ok" # empty /\ "failed" # empty
  BY Zenon DEF empty
<1>2. QED
  BY <1>1 DEF Init, Inv, Known, Configured, Kept, Writing, AllOrNothing, FailsForAReason

\* What a run that ends with an error has to show.
LEMMA EndsFailed ==
  ASSUME Inv, stage # "idle", Ends("failed"),
         UNCHANGED <<scenario, asked, doc, before, runs>>, faults' \in Nat,
         faults' = 0 /\ doc.breaks = empty =>
           asked.clean \/ disk' = before \/ ~ExpandTree(doc.tree).ok,
         faults' = 0 =>
           \/ Len(asked.args) > 2 \/ WantedSpec(asked) = Unset
           \/ asked.config # {} /\ ~Config(asked).valid
           \/ WantedSpec(asked) \notin DOMAIN before
           \/ before[WantedSpec(asked)].doc.ends # "ok"
           \/ Unnamed(asked)
           \/ asked.clean /\ Under(WantedDir(asked), WantedSpec(asked))
           \/ ~ExpandTree(before[WantedSpec(asked)].doc.tree).ok
           \/ before[WantedSpec(asked)].doc.breaks # empty
  PROVE  Inv'
<1>1. stage' = "idle" /\ outcome' = "failed" /\ IsInvocation(asked)
  BY DEF Inv, Known, Ends
<1>2. Known' /\ Configured' /\ Kept' /\ Writing'
  BY <1>1 DEF Inv, Known, Configured, Kept, Writing
<1>3. AllOrNothing'
  BY <1>1 DEF AllOrNothing
<1>4. FailsForAReason'
  BY <1>1 DEF FailsForAReason
<1>5. QED
  BY <1>2, <1>3, <1>4 DEF Inv

\* A step of a run that goes on has no outcome to answer for.
LEMMA GoesOn ==
  ASSUME Known', stage' # "idle", Configured', Kept', Writing'
  PROVE  Inv'
<1>1. "ok" # empty /\ "failed" # empty
  BY Zenon DEF empty
<1>2. QED
  BY <1>1 DEF Inv, Known, AllOrNothing, FailsForAReason

-----------------------------------------------------------------------------
(* Every action keeps it.                                                  *)

LEMMA StageNames ==
  /\ "idle" # "config" /\ "idle" # "arguments" /\ "idle" # "clean" /\ "idle" # "load"
  /\ "idle" # "build" /\ "idle" # "write" /\ "config" # "arguments" /\ "config" # "clean"
  /\ "ok" # empty /\ "failed" # empty /\ "crashed" # empty /\ "crashed" # "failed"
  /\ "crashed" # "ok" /\ "ok" # "failed" /\ "agen" # "expand"
  BY Zenon DEF empty

LEMMA EditKeeps == Inv /\ Edit => Inv'
<1>. SUFFICES ASSUME Inv, Edit PROVE Inv'
  OBVIOUS
<1>1. stage' = "idle" /\ outcome' = empty
  BY DEF Edit
<1>2. Known' /\ Configured' /\ Kept' /\ Writing'
  BY <1>1, StageNames DEF Edit, Inv, Known, Configured, Kept, Writing
<1>3. QED
  BY <1>1, <1>2, StageNames DEF Inv, AllOrNothing, FailsForAReason

LEMMA StartKeeps == Inv /\ Start => Inv'
<1>. SUFFICES ASSUME Inv, Start PROVE Inv'
  OBVIOUS
<1>1. stage' = "config" /\ outcome' = empty /\ disk' = before'
  BY DEF Start
<1>2. IsInvocation(asked')
  BY GenerationAssumption DEF Start, Inv, Known
<1>3. Known' /\ Configured' /\ Kept' /\ Writing'
  BY <1>1, <1>2, StageNames DEF Start, Inv, Known, Configured, Kept, Writing
<1>4. QED
  BY <1>1, <1>3, StageNames, GoesOn

LEMMA LoadConfigKeeps == Inv /\ LoadConfig => Inv'
<1>. SUFFICES ASSUME Inv, LoadConfig PROVE Inv'
  OBVIOUS
<1>1. /\ stage = "config" /\ stage # "idle" /\ IsInvocation(asked) /\ faults \in Nat
      /\ outcome = empty /\ disk = before
  BY StageNames DEF LoadConfig, Inv, Known, Kept
<1>2. CASE stage' = "arguments" /\ cfg' = Read(asked) /\ outcome' = empty
  <2>1. Known' /\ Configured' /\ Kept' /\ Writing'
    BY <1>1, <1>2 DEF LoadConfig, Inv, Known, Configured, Kept, Writing, Read
  <2>2. QED
    BY <1>2, <2>1, GoesOn
<1>3. CASE asked.config # {} /\ ~Config(asked).valid /\ Ends("failed")
  BY <1>1, <1>3, EndsFailed DEF LoadConfig
<1>4. ASSUME NEW c \in asked.config PROVE Config(asked) = c
  BY <1>1, OneConfig
<1>5. QED
  BY <1>1, <1>2, <1>3, <1>4 DEF LoadConfig, Goes, Read

LEMMA TakeArgumentsKeeps == Inv /\ TakeArguments => Inv'
<1>. SUFFICES ASSUME Inv, TakeArguments PROVE Inv'
  OBVIOUS
<1>1. /\ stage = "arguments" /\ stage # "idle" /\ IsInvocation(asked) /\ faults \in Nat
      /\ outcome = empty /\ disk = before /\ cfg = Read(asked)
  BY StageNames DEF TakeArguments, Inv, Known, Kept, Configured
<1>2. CASE Len(asked.args) > 2 \/ (asked.args = <<>> /\ cfg.spec = Unset)
  <2>1. Len(asked.args) > 2 \/ WantedSpec(asked) = Unset
    BY <1>1, <1>2 DEF WantedSpec, Read, NoConfig, Load
  <2>2. Ends("failed")
    BY <1>2 DEF TakeArguments
  <2>3. QED
    BY <1>1, <2>1, <2>2, EndsFailed DEF TakeArguments
<1>3. CASE ~(Len(asked.args) > 2 \/ (asked.args = <<>> /\ cfg.spec = Unset))
  <2>1. stage' = "clean" /\ cfg' = Override(cfg) /\ outcome' = empty /\ asked' = asked
    BY <1>1, <1>3 DEF TakeArguments, Goes
  <2>2. Len(asked.args) <= 2
    BY <1>1, <1>3, ArgumentsAreSeqs
  <2>3. Chosen'
    BY <1>1, <2>1, <2>2, Overrides
  <2>4. Known' /\ Configured' /\ Kept' /\ Writing'
    BY <1>1, <2>1, <2>3, StageNames DEF TakeArguments, Inv, Known, Configured, Kept, Writing
  <2>5. QED
    BY <2>1, <2>4, StageNames, GoesOn
<1>4. QED
  BY <1>2, <1>3

LEMMA CleanKeeps == Inv /\ Clean => Inv'
<1>. SUFFICES ASSUME Inv, Clean PROVE Inv'
  OBVIOUS
<1>1. /\ stage = "clean" /\ IsInvocation(asked) /\ outcome = empty /\ disk = before /\ Chosen
      /\ stage' = "load" /\ outcome' = empty
  BY StageNames DEF Clean, Goes, Inv, Known, Kept, Configured
<1>2. cfg.dir # Unset <=> ~Unnamed(asked)
  BY <1>1, WantedIsNamed DEF Chosen
<1>3. disk' = IF asked.clean /\ ~Unnamed(asked)
              THEN Restrict(before, {p \in DOMAIN before : ~Under(WantedDir(asked), p)}) ELSE before
  BY <1>1, <1>2 DEF Clean, Chosen
<1>4. UNCHANGED <<scenario, asked, cfg, doc, before, runs, faults>>
  BY DEF Clean
<1>5. Chosen'
  BY <1>1, <1>4 DEF Chosen
<1>6. Known' /\ Configured' /\ Writing'
  BY <1>1, <1>4, <1>5, StageNames DEF Inv, Known, Configured, Writing
<1>7. Kept'
  BY <1>1, <1>3, <1>4, StageNames DEF Kept
<1>8. QED
  BY <1>1, <1>6, <1>7, StageNames, GoesOn

LEMMA LoadSpecKeeps == Inv /\ LoadSpec => Inv'
<1>. SUFFICES ASSUME Inv, LoadSpec PROVE Inv'
  OBVIOUS
<1>. DEFINE left == {p \in DOMAIN before : ~Under(WantedDir(asked), p)}
<1>1. /\ stage = "load" /\ stage # "idle" /\ IsInvocation(asked) /\ faults \in Nat
      /\ outcome = empty /\ Chosen
      /\ disk = IF asked.clean /\ ~Unnamed(asked) THEN Restrict(before, left) ELSE before
  BY StageNames DEF LoadSpec, Inv, Known, Kept, Configured
<1>2. UNCHANGED <<scenario, disk, asked, cfg, before, runs, faults>>
  BY DEF LoadSpec
<1>3. DOMAIN Restrict(before, left) = left /\ \A p \in left : Restrict(before, left)[p] = before[p]
  BY DEF Restrict
<1>4. CASE cfg.spec \in DOMAIN disk
  <2>1. stage' = "build" /\ outcome' = empty /\ doc' = disk[cfg.spec].doc
    BY <1>1, <1>4 DEF LoadSpec, Goes
  <2>2. cfg.spec \in DOMAIN before /\ doc' = before[cfg.spec].doc
    BY <1>1, <1>3, <1>4, <2>1
  <2>3. Chosen'
    BY <1>1, <1>2 DEF Chosen
  <2>4. Known' /\ Configured' /\ Writing'
    BY <1>1, <1>2, <2>1, <2>3, StageNames DEF Inv, Known, Configured, Writing
  <2>5. Kept'
    BY <1>1, <1>2, <2>1, <2>2, StageNames DEF Kept
  <2>6. QED
    BY <2>1, <2>4, <2>5, StageNames, GoesOn
<1>5. CASE cfg.spec \notin DOMAIN disk
  <2>1. Ends("failed") /\ doc' = doc
    BY <1>5 DEF LoadSpec
  <2>2. asked.clean \/ disk' = before
    BY <1>1, <1>2
  <2>3. \/ WantedSpec(asked) = Unset \/ WantedSpec(asked) \notin DOMAIN before
        \/ asked.clean /\ Under(WantedDir(asked), WantedSpec(asked))
    BY <1>1, <1>3, <1>5 DEF Chosen
  <2>4. QED
    BY <1>1, <1>2, <2>1, <2>2, <2>3, EndsFailed
<1>6. QED
  BY <1>4, <1>5

LEMMA BuildKeeps == Inv /\ Build => Inv'
<1>. SUFFICES ASSUME Inv, Build PROVE Inv'
  OBVIOUS
<1>. DEFINE left == {p \in DOMAIN before : ~Under(WantedDir(asked), p)}
<1>1. /\ stage = "build" /\ stage # "idle" /\ IsInvocation(asked) /\ faults \in Nat
      /\ outcome = empty /\ Chosen /\ cfg.spec \in DOMAIN before /\ doc = before[cfg.spec].doc
      /\ disk = IF asked.clean /\ ~Unnamed(asked) THEN Restrict(before, left) ELSE before
  BY StageNames DEF Build, Inv, Known, Kept, Configured
<1>2. UNCHANGED <<scenario, disk, asked, cfg, doc, before, runs, faults>>
  BY DEF Build
<1>3. CASE doc.ends # "ok" \/ cfg.dir = Unset
  <2>1. Ends("failed") /\ (asked.clean \/ disk' = before)
    BY <1>1, <1>2, <1>3 DEF Build
  <2>2. \/ WantedSpec(asked) = Unset \/ before[WantedSpec(asked)].doc.ends # "ok"
        \/ Unnamed(asked)
    BY <1>1, <1>3, WantedIsNamed DEF Chosen
  <2>3. QED
    BY <1>1, <1>2, <2>1, <2>2, EndsFailed
<1>4. CASE ~(doc.ends # "ok" \/ cfg.dir = Unset)
  <2>1. stage' = "write" /\ pending' = Plan(doc) /\ outcome' = empty
    BY <1>1, <1>4 DEF Build
  <2>2. ~Unnamed(asked)
    BY <1>1, <1>4 DEF Chosen
  <2>3. asked.clean => Code(disk, WantedDir(asked)) = {}
    BY <1>1, <2>2 DEF Code, Restrict
  <2>4. Chosen'
    BY <1>1, <1>2 DEF Chosen
  <2>5. Known' /\ Configured' /\ Kept'
    BY <1>1, <1>2, <2>1, <2>4, StageNames DEF Inv, Known, Configured, Kept
  <2>6. Writing'
    BY <1>2, <1>4, <2>1, <2>2, <2>3 DEF Writing
  <2>7. QED
    BY <2>1, <2>5, <2>6, StageNames, GoesOn
<1>5. QED
  BY <1>3, <1>4

LEMMA FilePlace ==
  ASSUME NEW d, NEW by
  PROVE  File(d, by).doc = d /\ File(d, by).by = by
  BY DEF File

LEMMA WriteFileKeeps == Inv /\ WriteFile => Inv'
<1>. SUFFICES ASSUME Inv, WriteFile PROVE Inv'
  OBVIOUS
<1>. DEFINE files == {Append(WantedDir(asked), t) : t \in Plan(doc)}
<1>1. PICK t \in pending :
        /\ stage = "write" /\ pending' = pending \ {t}
        /\ disk' = Written(FileOf(t), File(doc, "agen"))
  BY DEF WriteFile
<1>2. UNCHANGED <<scenario, stage, asked, cfg, doc, outcome, before, runs, faults>>
  BY DEF WriteFile
<1>3. /\ outcome = empty /\ Chosen /\ ~Unnamed(asked) /\ doc.ends = "ok" /\ pending \subseteq Plan(doc)
      /\ \A u \in Plan(doc) \ pending : FileOf(u) \in DOMAIN disk /\ disk[FileOf(u)] = File(doc, "agen")
      /\ asked.clean => Code(disk, WantedDir(asked)) \subseteq files
  BY <1>1, StageNames DEF Inv, Known, Configured, Writing
<1>4. \A u : FileOf(u)' = FileOf(u) /\ FileOf(u) = Append(WantedDir(asked), u)
  BY <1>2, <1>3 DEF FileOf, Chosen
<1>5. /\ DOMAIN disk' = DOMAIN disk \cup {FileOf(t)}
      /\ \A p \in DOMAIN disk' : disk'[p] = IF p = FileOf(t) THEN File(doc, "agen") ELSE disk[p]
  BY <1>1 DEF Written
<1>6. \A u \in Plan(doc) \ pending' : FileOf(u) \in DOMAIN disk' /\ disk'[FileOf(u)] = File(doc, "agen")
  BY <1>1, <1>3, <1>5
<1>7. asked.clean => Code(disk', WantedDir(asked)) \subseteq files
  BY <1>1, <1>3, <1>4, <1>5 DEF Code
<1>8. Writing'
  BY <1>1, <1>2, <1>3, <1>4, <1>6, <1>7 DEF Writing
<1>9. Chosen'
  BY <1>2, <1>3 DEF Chosen
<1>10. Known' /\ Configured' /\ Kept'
  BY <1>1, <1>2, <1>9 DEF Inv, Known, Configured, Kept
<1>11. QED
  BY <1>1, <1>2, <1>8, <1>10, StageNames, GoesOn

LEMMA WriteFailsKeeps == Inv /\ WriteFails => Inv'
<1>. SUFFICES ASSUME Inv, WriteFails PROVE Inv'
  OBVIOUS
<1>1. /\ stage = "write" /\ Ends("failed")
      /\ UNCHANGED <<scenario, asked, cfg, doc, before, runs>>
  BY DEF WriteFails
<1>2. /\ faults \in Nat /\ Chosen /\ cfg.spec \in DOMAIN before /\ doc = before[cfg.spec].doc
      /\ pending \subseteq Plan(doc)
  BY <1>1, StageNames DEF Inv, Known, Configured, Kept, Writing
<1>3. PICK t \in pending : IF doc.breaks = t THEN faults' = faults ELSE faults' = faults + 1
  BY DEF WriteFails, Fault
<1>4. t # empty
  BY <1>2, TemplatesNamed DEF Plan
<1>5. faults' \in Nat /\ (faults' = 0 => doc.breaks # empty)
  BY <1>2, <1>3, <1>4
<1>6. faults' = 0 => WantedSpec(asked) = Unset \/ before[WantedSpec(asked)].doc.breaks # empty
  BY <1>2, <1>5 DEF Chosen
<1>7. QED
  BY <1>1, <1>5, <1>6, EndsFailed, StageNames

\* What a run that succeeds has to show.
LEMMA SucceedsWith ==
  ASSUME Inv, stage # "idle", stage' = "idle", outcome' = "ok",
         UNCHANGED <<scenario, asked, doc, before, runs>>, faults' = faults,
         \A p \in Files(asked, doc) : p \in DOMAIN disk' /\ disk'[p] = File(doc, "agen"),
         asked.clean => Code(disk', WantedDir(asked)) = Files(asked, doc)
  PROVE  Inv'
<1>1. Known' /\ Configured' /\ Kept' /\ Writing'
  BY DEF Inv, Known, Configured, Kept, Writing
<1>2. QED
  BY <1>1, StageNames DEF Inv, AllOrNothing, FailsForAReason

LEMMA FinishKeeps == Inv /\ Finish => Inv'
<1>. SUFFICES ASSUME Inv, Finish PROVE Inv'
  OBVIOUS
<1>. DEFINE dir == WantedDir(asked)
            files == {Append(dir, t) : t \in Plan(doc)}
            to == Home \o cfg.output
<1>1. /\ stage = "write" /\ pending = {}
      /\ UNCHANGED <<scenario, asked, cfg, doc, before, runs>>
  BY DEF Finish
<1>2. /\ faults \in Nat /\ Chosen /\ cfg.spec \in DOMAIN before /\ doc = before[cfg.spec].doc
      /\ IsInvocation(asked) /\ ~Unnamed(asked)
      /\ \A t \in Plan(doc) : FileOf(t) \in DOMAIN disk /\ disk[FileOf(t)] = File(doc, "agen")
      /\ asked.clean => Code(disk, dir) \subseteq files
  BY <1>1, StageNames DEF Inv, Known, Configured, Kept, Writing
<1>3. \A t : FileOf(t) = Append(dir, t) /\ Under(dir, Append(dir, t))
  BY <1>2, WantedIsNamed, UnderAppend DEF FileOf, Chosen
<1>4. /\ \A p \in files : p \in DOMAIN disk /\ disk[p] = File(doc, "agen")
      /\ files \subseteq Code(disk, dir)
  <2>1. SUFFICES ASSUME NEW t \in Plan(doc), NEW p, p = Append(dir, t)
                 PROVE  p \in DOMAIN disk /\ disk[p] = File(doc, "agen") /\ p \in Code(disk, dir)
    BY Zenon
  <2>2. p \in DOMAIN disk /\ disk[p] = File(doc, "agen") /\ Under(dir, p)
    BY <1>2, <1>3, <2>1
  <2>3. QED
    BY <2>2, FilePlace DEF Code
<1>5. Files(asked, doc) = IF cfg.output = Unset THEN files ELSE files \ {to}
  BY <1>2 DEF Chosen, Files
<1>6. CASE Ends("ok") /\ faults' = faults
  <2>1. stage' = "idle" /\ outcome' = "ok"
    BY <1>6 DEF Ends
  <2>2. CASE cfg.output = Unset
    <3>1. disk' = disk
      BY <2>1, <2>2, StageNames DEF Finish, Ends
    <3>2. asked.clean => Code(disk', dir) = files
      BY <1>2, <1>4, <3>1
    <3>3. Files(asked, doc) = files
      BY <1>5, <2>2
    <3>4. QED
      BY <1>1, <1>4, <1>6, <2>1, <3>1, <3>2, <3>3, StageNames, SucceedsWith
  <2>3. CASE cfg.output # Unset
    <3>1. PICK d : disk' = Written(to, File(d, "expand"))
      BY <2>1, <2>3, StageNames DEF Finish, Ends
    <3>2. /\ DOMAIN disk' = DOMAIN disk \cup {to}
          /\ \A p \in DOMAIN disk' : disk'[p] = IF p = to THEN File(d, "expand") ELSE disk[p]
      BY <3>1 DEF Written
    <3>3. Code(disk', dir) = Code(disk, dir) \ {to}
      BY <3>2, FilePlace, StageNames DEF Code
    <3>4. \A p \in files \ {to} : p \in DOMAIN disk' /\ disk'[p] = File(doc, "agen")
      BY <1>4, <3>2
    <3>5. Files(asked, doc) = files \ {to}
      BY <1>5, <2>3
    <3>6. asked.clean => Code(disk', dir) = files \ {to}
      BY <1>2, <1>4, <3>3
    <3>7. QED
      BY <1>1, <1>6, <2>1, <3>4, <3>5, <3>6, StageNames, SucceedsWith
  <2>4. QED
    BY <2>2, <2>3
<1>7. CASE Ends("failed") /\ ((~ExpandTree(doc.tree).ok /\ faults' = faults) \/ Fault)
  <2>1. faults' \in Nat /\ (faults' = 0 => ~ExpandTree(doc.tree).ok)
    BY <1>2, <1>7 DEF Fault
  <2>2. faults' = 0 => WantedSpec(asked) = Unset \/ ~ExpandTree(before[WantedSpec(asked)].doc.tree).ok
    BY <1>2, <2>1 DEF Chosen
  <2>3. QED
    BY <1>1, <1>7, <2>1, <2>2, EndsFailed, StageNames
<1>8. QED
  BY <1>6, <1>7 DEF Finish

LEMMA CrashKeeps == Inv /\ Crash => Inv'
<1>. SUFFICES ASSUME Inv, Crash PROVE Inv'
  OBVIOUS
<1>1. /\ stage # "idle" /\ stage' = "idle" /\ outcome' = "crashed" /\ faults' = faults + 1
      /\ UNCHANGED <<scenario, disk, asked, cfg, doc, before, runs>>
  BY DEF Crash, Ends, Fault
<1>2. Known' /\ Configured' /\ Kept' /\ Writing'
  BY <1>1, StageNames DEF Inv, Known, Configured, Kept, Writing
<1>3. QED
  BY <1>1, <1>2, StageNames DEF Inv, AllOrNothing, FailsForAReason

LEMMA NextInv == Inv /\ [Next]_vars => Inv'
<1>. SUFFICES ASSUME Inv, [Next]_vars PROVE Inv'
  OBVIOUS
<1>1. CASE UNCHANGED vars
  BY <1>1 DEF vars, Inv, Known, Configured, Kept, Writing, AllOrNothing, FailsForAReason, Chosen,
     FileOf, Code
<1>2. CASE Next
  BY <1>2, EditKeeps, StartKeeps, LoadConfigKeeps, TakeArgumentsKeeps, CleanKeeps, LoadSpecKeeps,
     BuildKeeps, WriteFileKeeps, WriteFailsKeeps, FinishKeeps, CrashKeeps DEF Next
<1>3. QED
  BY <1>1, <1>2

-----------------------------------------------------------------------------
(* Whatever runs failed or crashed before it, a run that succeeds leaves the   *)
(* code of its document where it was asked to, and nothing else after a clean; *)
(* a run that fails before it writes leaves the disk as it was (Generate,      *)
(* cmd/agen/main.go 115-230, WriteSource).                                     *)
THEOREM RunsLeaveAllOrNothing == Spec => []AllOrNothing
<1>1. Inv => AllOrNothing
  BY DEF Inv
<1>2. QED
  BY <1>1, InitInv, NextInv, PTL DEF Spec

(* Every failure of a run without faults has one of the listed reasons, all of *)
(* which can be read off the invocation and the disk it found (run, Generate,  *)
(* loadSpec in cmd/agen/main.go; Load, setDefaults in internal/config).        *)
THEOREM FailuresHaveReasons == Spec => []FailsForAReason
<1>1. Inv => FailsForAReason
  BY DEF Inv
<1>2. QED
  BY <1>1, InitInv, NextInv, PTL DEF Spec

=============================================================================
