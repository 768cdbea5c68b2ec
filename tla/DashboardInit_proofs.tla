------------------------- MODULE DashboardInit_proofs -------------------------
(***************************************************************************)
(* Proofs about DashboardInit: what `init` keeps, when it is at rest, and  *)
(* what `init --check` vouches for, for any project, any checks people     *)
(* write, and any number of edits, commands and crashes.                   *)
(***************************************************************************)
EXTENDS DashboardInit, TLAPS

-----------------------------------------------------------------------------
(* The checks that are proposed *)

\* A proposal adds a check that does the job it is proposed for.
Sound(p) ==
    /\ p.def \in Checks /\ ~p.def.disabled /\ Plain(p.def) = p.def
    /\ covered(p, p.def)

LEMMA CheckShape ==
  ASSUME NEW K, NEW D, NEW T, NEW C, NEW P, NEW S,
         NEW k \in K, NEW d \in D, NEW t \in T, NEW c \in C, NEW p \in P, NEW s \in S
  PROVE  [key |-> k, dir |-> d, tool |-> t, command |-> c, parser |-> p, source |-> s,
          disabled |-> FALSE, extra |-> FALSE]
           \in [key : K, dir : D, tool : T, command : C, parser : P, source : S,
                disabled : BOOLEAN, extra : BOOLEAN]
OBVIOUS

\* What the rows of the table have in common.
Fits(p) ==
    /\ p.def = [key |-> p.def.key, dir |-> p.def.dir, tool |-> p.def.tool,
                command |-> p.def.command, parser |-> p.def.parser, source |-> p.def.source,
                disabled |-> FALSE, extra |-> FALSE]
    /\ covered(p, p.def)

LEMMA RowFits ==
  ASSUME NEW lang, NEW required, NEW by, NEW arg, NEW name, NEW dir, NEW tool, NEW command, NEW parser,
         \/ by = "command" /\ arg \in command
         \/ by = "parser" /\ arg = parser
         \/ by = "tool" /\ arg = tool
         \/ by = "node" /\ arg = dir /\ parser = "npm-audit"
  PROVE  Fits(Row(lang, required, by, arg, Def(name, dir, tool, command, parser)))
<1>1. PICK d : d = Def(name, dir, tool, command, parser)
  OBVIOUS
<1>2. PICK p : p = Row(lang, required, by, arg, d)
  OBVIOUS
<1>3. p.by = by /\ p.arg = arg /\ p.def = d
  BY <1>2 DEF Row
<1>4. /\ d = [key |-> d.key, dir |-> d.dir, tool |-> d.tool, command |-> d.command,
              parser |-> d.parser, source |-> d.source, disabled |-> FALSE, extra |-> FALSE]
      /\ d.dir = dir /\ d.tool = tool /\ d.command = command /\ d.parser = parser
  BY <1>1 DEF Def
<1>5. covered(p, d)
  BY <1>3, <1>4 DEF covered, cmdHas, parserIs, toolOrCmd
<1>6. Fits(p)
  BY <1>3, <1>4, <1>5 DEF Fits
<1> QED BY <1>1, <1>2, <1>6

LEMMA FitsSound ==
  ASSUME NEW p \in Table \cup {NodeAudit(f.dir) : f \in Files}, Fits(p)
  PROVE  Sound(p)
<1>1. PICK d : d = p.def
  OBVIOUS
<1>2. /\ d = [key |-> d.key, dir |-> d.dir, tool |-> d.tool, command |-> d.command,
              parser |-> d.parser, source |-> d.source, disabled |-> FALSE, extra |-> FALSE]
      /\ d \in Known
  BY <1>1 DEF Fits, Known
<1>3. d.disabled = FALSE /\ d.extra = FALSE
  BY <1>2
<1>4. d \in Checks
  <2>1. /\ d.key \in {c.key : c \in Known} /\ d.dir \in {c.dir : c \in Known}
        /\ d.tool \in {c.tool : c \in Known} /\ d.command \in {c.command : c \in Known}
        /\ d.parser \in {c.parser : c \in Known} /\ d.source \in {c.source : c \in Known}
    BY <1>2
  <2>2. [key |-> d.key, dir |-> d.dir, tool |-> d.tool, command |-> d.command,
         parser |-> d.parser, source |-> d.source, disabled |-> FALSE, extra |-> FALSE] \in Checks
    BY <2>1, CheckShape, Zenon DEF Checks
  <2> QED BY <1>2, <2>2, Zenon
<1>5. Plain(d) = d
  BY <1>3, <1>4 DEF Plain, Checks
<1> QED BY <1>1, <1>3, <1>4, <1>5 DEF Fits, Sound

LEMMA TableFits == ASSUME NEW p \in Table PROVE Fits(p)
<1>1. CASE p = Row("go", TRUE, "command", "go build",
                   Def("build", "", "go", {"go build"}, "exit"))
  BY <1>1, RowFits
<1>2. CASE p = Row("go", TRUE, "command", "go vet",
                   Def("vet", "", "go", {"go vet"}, "exit"))
  BY <1>2, RowFits
<1>3. CASE p = Row("go", TRUE, "command", "go test",
                   Def("tests", "", "go test", {"go test"}, "gotest"))
  BY <1>3, RowFits
<1>4. CASE p = Row("go", TRUE, "tool", "govulncheck",
                   Def("govulncheck", "", "govulncheck", {"govulncheck"}, "govulncheck"))
  BY <1>4, RowFits
<1>5. CASE p = Row("go", FALSE, "parser", "gosec-json",
                   Def("gosec", "", "gosec", {"gosec"}, "gosec-json"))
  BY <1>5, RowFits
<1>6. CASE p = Row("python", TRUE, "tool", "pip-audit",
                   Def("pip-audit", "", "pip-audit", {"pip-audit", "audit"}, "exit"))
  BY <1>6, RowFits
<1>7. CASE p = Row("python", FALSE, "tool", "bandit",
                   Def("bandit", "", "bandit", {"bandit"}, "exit"))
  BY <1>7, RowFits
<1>8. CASE p = Row("php", TRUE, "tool", "composer",
                   Def("composer-audit", "", "composer", {"composer", "audit"}, "exit"))
  BY <1>8, RowFits
<1>9. CASE p = Row("ruby", TRUE, "tool", "bundler-audit",
                   Def("bundler-audit", "", "bundler-audit", {"bundler-audit", "audit"}, "exit"))
  BY <1>9, RowFits
<1>10. CASE p = Row("rust", TRUE, "command", "cargo audit",
                   Def("cargo-audit", "", "cargo", {"cargo audit", "audit"}, "exit"))
  BY <1>10, RowFits
<1>11. CASE p = Row("jvm", TRUE, "tool", "osv-scanner",
                   Def("osv-scanner", "", "osv-scanner", {"osv-scanner"}, "exit"))
  BY <1>11, RowFits
<1>12. CASE p = Row("any", TRUE, "parser", "gitleaks",
                   Def("gitleaks", "", "gitleaks", {"gitleaks"}, "gitleaks"))
  BY <1>12, RowFits
<1>13. CASE p = Row("any", FALSE, "parser", "semgrep-json",
                   Def("semgrep", "", "semgrep", {"semgrep"}, "semgrep-json"))
  BY <1>13, RowFits
<1>14. CASE p = Row("any", FALSE, "tool", "syft",
                   Def("sbom", "", "syft", {"syft"}, "exit"))
  BY <1>14, RowFits
<1>15. CASE p = Row("docker", FALSE, "tool", "trivy",
                   Def("trivy-fs", "", "trivy", {"trivy"}, "exit"))
  BY <1>15, RowFits
<1>16. CASE p = Row("terraform", FALSE, "tool", "checkov",
                   Def("checkov", "", "checkov", {"checkov"}, "exit"))
  BY <1>16, RowFits
<1> QED
  BY <1>1, <1>2, <1>3, <1>4, <1>5, <1>6, <1>7, <1>8, <1>9, <1>10, <1>11, <1>12, <1>13, <1>14, <1>15, <1>16 DEF Table

LEMMA NodeFits == ASSUME NEW dir PROVE Fits(NodeAudit(dir))
<1>1. "audit" \in {"npm", "audit"}
  OBVIOUS
<1> QED BY <1>1, RowFits DEF NodeAudit

LEMMA ProposalsSound ==
  ASSUME NEW files \in SUBSET Files, NEW p \in proposalsFor(detectStack(files))
  PROVE  Sound(p)
<1>1. CASE p \in Table
  BY <1>1, TableFits, FitsSound
<1>2. CASE p \notin Table
  <2>1. PICK f \in files : p = NodeAudit(f.dir)
    BY <1>2 DEF proposalsFor, detectStack
  <2> QED BY <2>1, NodeFits, FitsSound
<1> QED BY <1>1, <1>2

-----------------------------------------------------------------------------
(* What people and `init` change of a check *)

LEMMA PlainCheck ==
  ASSUME NEW c \in Checks
  PROVE  /\ Plain(c) \in Checks
         /\ Plain(c).tool = c.tool /\ Plain(c).dir = c.dir /\ Plain(c).command = c.command
         /\ Plain(c).parser = c.parser
BY DEF Plain, Checks

LEMMA WrittenCheck ==
  ASSUME NEW c \in Checks, NEW d, d = [c EXCEPT !.extra = FALSE]
  PROVE  /\ d \in Checks /\ d.disabled = c.disabled /\ d.extra = FALSE
         /\ Plain(d) = Plain(c)
<1>1. d \in Checks /\ d.disabled = c.disabled /\ d.extra = FALSE
  BY DEF Checks
<1>2. Plain(d) = Plain(c)
  BY <1>1 DEF Plain, Checks
<1> QED BY <1>1, <1>2

LEMMA DisabledCheck ==
  ASSUME NEW c \in Checks, NEW d, d = [c EXCEPT !.disabled = TRUE]
  PROVE  /\ d \in Checks /\ d.disabled = TRUE
         /\ Plain(d) = Plain(c)
<1>1. d \in Checks /\ d.disabled = TRUE /\ d.extra = c.extra
  BY DEF Checks
<1>2. Plain(d) = Plain(c)
  BY <1>1 DEF Plain, Checks
<1> QED BY <1>1, <1>2

\* Coverage does not see what Plain forgets.
LEMMA SameJob ==
  ASSUME NEW c \in Checks, NEW d \in Checks, Plain(c) = Plain(d)
  PROVE  \A p : covered(p, c) <=> covered(p, d)
<1>1. c.tool = d.tool /\ c.dir = d.dir /\ c.command = d.command /\ c.parser = d.parser
  BY PlainCheck
<1> QED BY <1>1 DEF covered, cmdHas, parserIs, toolOrCmd

-----------------------------------------------------------------------------
(* The merge *)

LEMMA ConfigForm ==
  ASSUME NEW cfg \in Configs
  PROVE  /\ cfg.checks \subseteq Checks /\ cfg.docs \subseteq Docs
         /\ cfg.standards \in {"absent", "empty", "authored"} /\ cfg.unknown \in BOOLEAN
         /\ cfg = [checks |-> cfg.checks, docs |-> cfg.docs, standards |-> cfg.standards,
                   unknown |-> cfg.unknown]
BY DEF Configs

LEMMA EmptyConfig == Empty \in Configs /\ Empty.checks = {}
<1>1. Empty.checks = {} /\ Empty.docs = {} /\ Empty.standards = "absent" /\ Empty.unknown = FALSE
  BY DEF Empty
<1> QED BY <1>1 DEF Empty, Configs

LEMMA NotAFile ==
  ASSUME NEW cfg \in Configs PROVE cfg \notin {Absent, Torn}
BY ConfigAssumption

LEMMA Merged ==
  ASSUME NEW cfg \in Configs, NEW add, \A p \in add : Sound(p), NEW found \in SUBSET Docs,
         NEW m, m = Merge(cfg, add, found)
  PROVE  /\ m \in Configs
         /\ m.checks = {[c EXCEPT !.extra = FALSE] : c \in cfg.checks} \cup {p.def : p \in add}
         /\ m.docs = IF found # {} THEN found ELSE cfg.docs
         /\ m.standards = IF cfg.standards = "absent" THEN "empty" ELSE cfg.standards
         /\ m.unknown = cfg.unknown
<1>1. /\ m.checks = {[c EXCEPT !.extra = FALSE] : c \in cfg.checks} \cup {p.def : p \in add}
      /\ m.docs = IF found # {} THEN found ELSE cfg.docs
      /\ m.standards = IF cfg.standards = "absent" THEN "empty" ELSE cfg.standards
      /\ m.unknown = cfg.unknown
      /\ m = [checks |-> m.checks, docs |-> m.docs, standards |-> m.standards, unknown |-> m.unknown]
  BY DEF Merge
<1>2. m.checks \subseteq Checks
  <2>1. {[c EXCEPT !.extra = FALSE] : c \in cfg.checks} \subseteq Checks
    BY ConfigForm, WrittenCheck
  <2>2. {p.def : p \in add} \subseteq Checks
    BY DEF Sound
  <2> QED BY <1>1, <2>1, <2>2
<1>3. m.docs \subseteq Docs /\ m.standards \in {"absent", "empty", "authored"} /\ m.unknown \in BOOLEAN
  BY <1>1, ConfigForm
<1>4. m \in Configs
  BY <1>1, <1>2, <1>3 DEF Configs
<1> QED BY <1>1, <1>4

LEMMA MissingSound ==
  ASSUME NEW files \in SUBSET Files, NEW checks
  PROVE  \A p \in Missing(checks, detectStack(files)) : Sound(p)
BY ProposalsSound DEF Missing

-----------------------------------------------------------------------------
(* Types *)

LEMMA InitTyped == Init => TypeOK
<1> SUFFICES ASSUME Init PROVE TypeOK
  OBVIOUS
<1>1. /\ NoJob \in [opts : Options, cfg : Configs, known : SUBSET Edits, quiet : BOOLEAN, seed : BOOLEAN]
      /\ NoVerdict \in [code : {0, 1}, checks : SUBSET Checks, files : SUBSET Files]
  BY EmptyConfig DEF NoJob, NoVerdict, Options
<1> QED BY <1>1 DEF Init, TypeOK

Jobs == [opts : Options, cfg : Configs, known : SUBSET Edits, quiet : BOOLEAN, seed : BOOLEAN]

LEMMA Ended ==
  ASSUME Finish
  PROVE  pc' = "idle" /\ job' \in Jobs /\ job'.cfg = Empty /\ job'.quiet = FALSE
<1>1. NoJob \in Jobs /\ NoJob.cfg = Empty /\ NoJob.quiet = FALSE
  BY EmptyConfig DEF NoJob, Options, Jobs
<1> QED BY <1>1 DEF Finish

LEMMA ReadTyped ==
  ASSUME TypeOK, NEW opts \in Options, ReadConfig(opts)
  PROVE  TypeOK'
<1>1. /\ UNCHANGED <<project, docs, config, tasks, edits, settled, changes, crashes>>
      /\ inits' = inits + 1 /\ gate' = NoVerdict
  BY DEF ReadConfig
<1>2. gate' \in [code : {0, 1}, checks : SUBSET Checks, files : SUBSET Files]
  BY <1>1 DEF NoVerdict
<1>3. job' \in Jobs /\ pc' \in {"idle", "detect"}
  <2>1. CASE Finish
    BY <2>1, Ended
  <2>2. CASE ~Finish
    <3>1. /\ pc' = "detect" /\ (config \in Configs \/ config = Absent \/ opts.force)
          /\ job' = [opts  |-> opts,
                     cfg   |-> IF opts.force \/ config = Absent THEN Empty ELSE config,
                     known |-> IF opts.force THEN {} ELSE edits,
                     quiet |-> TRUE,
                     seed  |-> FALSE]
      BY <2>2 DEF ReadConfig, TypeOK
    <3>2. (IF opts.force \/ config = Absent THEN Empty ELSE config) \in Configs
      BY <3>1, EmptyConfig
    <3>3. (IF opts.force THEN {} ELSE edits) \in SUBSET Edits
      BY DEF TypeOK
    <3> QED BY <3>1, <3>2, <3>3 DEF Jobs
  <2> QED BY <2>1, <2>2
<1> QED BY <1>1, <1>2, <1>3 DEF TypeOK, Jobs

LEMMA DetectTyped ==
  ASSUME TypeOK, Detect
  PROVE  TypeOK'
<1> DEFINE old == job.cfg.checks
           add == Missing(old, detectStack(project))
<1>1. /\ UNCHANGED <<project, docs, config, tasks, edits, settled, changes, inits, crashes>>
      /\ pc = "detect"
  BY DEF Detect
<1>2. job \in Jobs /\ job.cfg \in Configs /\ old \subseteq Checks
  BY ConfigForm DEF TypeOK, Jobs
<1>3. CASE job.opts.check
  <2>1. /\ Finish
        /\ gate' = [code |-> reportCheck(auditConfig(old, add, project)), checks |-> old, files |-> project]
    BY <1>3 DEF Detect
  <2>2. reportCheck(auditConfig(old, add, project)) \in {0, 1}
    BY DEF reportCheck
  <2>3. gate' \in [code : {0, 1}, checks : SUBSET Checks, files : SUBSET Files]
    BY <1>2, <2>1, <2>2 DEF TypeOK
  <2> QED BY <1>1, <2>1, <2>3, Ended DEF TypeOK, Jobs
<1>4. CASE ~job.opts.check /\ job.opts.dryRun
  BY <1>1, <1>4, Ended DEF TypeOK, Jobs, Detect
<1>5. CASE ~job.opts.check /\ ~job.opts.dryRun
  <2>1. /\ job' = [job EXCEPT !.cfg = Merge(@, add, docs), !.seed = (tasks = Absent)]
        /\ pc' = "openconfig" /\ gate' = gate
    BY <1>5 DEF Detect
  <2>2. Merge(job.cfg, add, docs) \in Configs
    <3>1. project \in SUBSET Files /\ docs \in SUBSET Docs
      BY DEF TypeOK
    <3>2. \A p \in add : Sound(p)
      BY <3>1, MissingSound
    <3> HIDE DEF add
    <3> QED BY <1>2, <3>1, <3>2, Merged
  <2>3. job' \in Jobs
    BY <1>2, <2>1, <2>2 DEF Jobs
  <2> QED BY <1>1, <2>1, <2>3 DEF TypeOK, Jobs
<1> QED BY <1>3, <1>4, <1>5

LEMMA CommandTyped ==
  ASSUME TypeOK, OpenConfig \/ WriteConfig \/ OpenTasks \/ WriteTasks \/ Exit \/ Die
  PROVE  TypeOK'
<1>1. CASE OpenConfig \/ WriteConfig \/ OpenTasks \/ WriteTasks
  <2>1. job' = job /\ gate' = gate /\ job.cfg \in Configs
    BY <1>1 DEF OpenConfig, WriteConfig, OpenTasks, WriteTasks, TypeOK
  <2>2. settled' \in BOOLEAN
    BY <1>1, Zenon DEF OpenConfig, WriteConfig, OpenTasks, WriteTasks, TypeOK
  <2> QED BY <1>1, <2>1, <2>2 DEF OpenConfig, WriteConfig, OpenTasks, WriteTasks, TypeOK
<1>2. CASE Exit
  <2>1. settled' \in BOOLEAN
    BY <1>2 DEF Exit, TypeOK
  <2> QED BY <1>2, <2>1, Ended DEF Exit, TypeOK, Jobs
<1>3. CASE Die
  BY <1>3, Ended DEF Die, TypeOK, Jobs
<1> QED BY <1>1, <1>2, <1>3

\* A change by people leaves the command alone, but for what it missed.
LEMMA ChangedTyped ==
  ASSUME TypeOK, Changed
  PROVE  /\ job' \in Jobs /\ settled' = FALSE /\ changes' \in Nat /\ UNCHANGED <<pc, gate, inits, crashes>>
         /\ job'.cfg = job.cfg /\ job'.known = job.known /\ job'.seed = job.seed
         /\ (pc # "idle" => job'.quiet = FALSE)
<1>1. job \in Jobs
  BY DEF TypeOK, Jobs
<1>2. /\ job' = IF pc = "idle" THEN job ELSE [job EXCEPT !.quiet = FALSE]
      /\ settled' = FALSE /\ changes' = changes + 1 /\ UNCHANGED <<pc, gate, inits, crashes>>
  BY DEF Changed
<1>3. /\ job' \in Jobs
      /\ job'.cfg = job.cfg /\ job'.known = job.known /\ job'.seed = job.seed
      /\ (pc # "idle" => job'.quiet = FALSE)
  BY <1>1, <1>2 DEF Jobs
<1> QED BY <1>2, <1>3 DEF TypeOK

\* What people make of config.json when they save it.
Edit(new, owed) ==
    \/ \E c \in HandChecks :
         /\ \A d \in config.checks : Plain(d) # Plain(c)
         /\ new = [config EXCEPT !.checks = @ \cup {c}]
         /\ owed = edits \cup {<<"check", Plain(c)>>}
    \/ \E c \in config.checks :
         /\ new = [config EXCEPT !.checks = (@ \ {c}) \cup {[c EXCEPT !.disabled = TRUE]}]
         /\ owed = edits \cup {<<"off", Plain(c)>>}
    \/ \E c \in config.checks :
         /\ new = [config EXCEPT !.checks = @ \ {c}]
         /\ owed = edits \ {<<what, Plain(c)>> : what \in {"check", "off"}}
    \/ /\ new = [config EXCEPT !.standards = "authored", !.unknown = TRUE]
       /\ owed = edits \cup {Authored}

Saves == \/ \E c \in HandChecks : AddCheck(c)
         \/ Readable /\ \E c \in config.checks : DisableCheck(c) \/ RemoveCheck(c)
         \/ Author

LEMMA SavesEdit ==
  ASSUME Saves
  PROVE  /\ Readable /\ Changed /\ UNCHANGED <<project, docs, tasks>>
         /\ Edit(config', edits')
BY DEF Saves, AddCheck, DisableCheck, RemoveCheck, Author, Save, Edit

LEMMA EditTyped ==
  ASSUME TypeOK, Readable, NEW new, NEW owed, Edit(new, owed)
  PROVE  new \in Configs /\ owed \subseteq Edits
<1>1. config \in Configs /\ edits \subseteq Edits
  BY DEF TypeOK, Readable
<1>2. \A c \in Checks : Plain(c) \in Checks
  BY PlainCheck
<1>3. ASSUME NEW checks \in SUBSET Checks PROVE [config EXCEPT !.checks = checks] \in Configs
  BY <1>1 DEF Configs
<1>4. HandChecks \subseteq Checks /\ config.checks \subseteq Checks
  BY <1>1, ConfigForm, ConfigAssumption
<1>5. ASSUME NEW c \in HandChecks, new = [config EXCEPT !.checks = @ \cup {c}],
             owed = edits \cup {<<"check", Plain(c)>>}
      PROVE  new \in Configs /\ owed \subseteq Edits
  <2>1. config.checks \cup {c} \in SUBSET Checks
    BY <1>4
  <2>2. <<"check", Plain(c)>> \in Edits
    BY <1>2, <1>4 DEF Edits
  <2> QED BY <1>1, <1>3, <1>5, <2>1, <2>2
<1>6. ASSUME NEW c \in config.checks,
             new = [config EXCEPT !.checks = (@ \ {c}) \cup {[c EXCEPT !.disabled = TRUE]}],
             owed = edits \cup {<<"off", Plain(c)>>}
      PROVE  new \in Configs /\ owed \subseteq Edits
  <2>1. (config.checks \ {c}) \cup {[c EXCEPT !.disabled = TRUE]} \in SUBSET Checks
    BY <1>4, DisabledCheck
  <2>2. <<"off", Plain(c)>> \in Edits
    BY <1>2, <1>4 DEF Edits
  <2> QED BY <1>1, <1>3, <1>6, <2>1, <2>2
<1>7. ASSUME NEW c \in config.checks, new = [config EXCEPT !.checks = @ \ {c}],
             owed = edits \ {<<what, Plain(c)>> : what \in {"check", "off"}}
      PROVE  new \in Configs /\ owed \subseteq Edits
  <2>1. config.checks \ {c} \in SUBSET Checks
    BY <1>4
  <2> QED BY <1>1, <1>3, <1>7, <2>1
<1>8. ASSUME new = [config EXCEPT !.standards = "authored", !.unknown = TRUE],
             owed = edits \cup {Authored}
      PROVE  new \in Configs /\ owed \subseteq Edits
  BY <1>1, <1>8 DEF Configs, Edits
<1> QED BY <1>5, <1>6, <1>7, <1>8 DEF Edit

Around == \/ \E f \in Files : AddFile(f) \/ RemoveFile(f)
          \/ \E d \in Docs : AddDoc(d)

LEMMA PeopleTyped ==
  ASSUME TypeOK, Around \/ Saves \/ WorkOnTasks
  PROVE  TypeOK'
<1>1. Changed
  BY SavesEdit DEF Around, AddFile, RemoveFile, AddDoc, WorkOnTasks
<1>2. /\ job' \in Jobs /\ settled' = FALSE /\ changes' \in Nat /\ UNCHANGED <<pc, gate, inits, crashes>>
  BY <1>1, ChangedTyped
<1>3. CASE Around
  BY <1>2, <1>3 DEF Around, AddFile, RemoveFile, AddDoc, TypeOK, Jobs
<1>4. CASE Saves
  <2>1. /\ UNCHANGED <<project, docs, tasks>> /\ config' \in Configs /\ edits' \subseteq Edits
    BY <1>4, SavesEdit, EditTyped
  <2> QED BY <1>2, <2>1 DEF TypeOK, Jobs
<1>5. CASE WorkOnTasks
  <2>1. UNCHANGED <<project, docs, config>> /\ tasks' = "worked" /\ edits' \subseteq Edits
    BY <1>5 DEF WorkOnTasks, TypeOK, Edits
  <2> QED BY <1>2, <2>1 DEF TypeOK, Jobs
<1> QED BY <1>3, <1>4, <1>5

LEMMA NextTyped == TypeOK /\ [Next]_vars => TypeOK'
<1> SUFFICES ASSUME TypeOK, [Next]_vars PROVE TypeOK'
  OBVIOUS
<1>1. CASE UNCHANGED vars
  BY <1>1 DEF vars, TypeOK
<1>2. CASE Next
  BY <1>2, ReadTyped, DetectTyped, CommandTyped, PeopleTyped DEF Next, Around, Saves
<1> QED BY <1>1, <1>2

-----------------------------------------------------------------------------
(* What people wrote is kept *)

\* A configuration has in it what it owes: the checks people wrote, those they
\* turned off, still off and not there a second time, and their evidence.
Kept(cfg, owed) ==
    /\ \A c \in HandChecks : <<"check", Plain(c)>> \in owed => \E d \in cfg.checks : Plain(d) = Plain(c)
    /\ \A x \in Checks : <<"off", x>> \in owed => \E d \in cfg.checks : Plain(d) = x /\ d.disabled = TRUE
    /\ Authored \in owed => cfg.standards = "authored" /\ cfg.unknown = TRUE
    /\ \A c, d \in cfg.checks : Plain(c) = Plain(d) => c = d

\* The file has what it owes; so has what a command read, of the edits it read,
\* and what it is about to write; a file that is not there owes nothing.
KeptInv ==
    /\ Readable => Kept(config, edits)
    /\ pc \in {"detect", "openconfig"} => Kept(job.cfg, job.known)
    /\ pc = "writeconfig" => config = Torn /\ Kept(job.cfg, edits)
    /\ ~Readable /\ pc # "writeconfig" => edits \subseteq {Worked}
    /\ Worked \in edits => tasks = "worked"
    /\ pc = "writetasks" => tasks = Torn

\* The tasks do not concern the configuration.
LEMMA KeptLess ==
  ASSUME NEW cfg, NEW owed, Kept(cfg, owed), NEW less, less \subseteq owed \cup {Worked}
  PROVE  Kept(cfg, less)
<1>1. \A x : <<"check", x>> # Worked /\ <<"off", x>> # Worked
  BY DEF Worked
<1>2. Authored # Worked
  BY DEF Authored, Worked
<1>3. /\ \A x : <<"check", x>> \in less => <<"check", x>> \in owed
      /\ \A x : <<"off", x>> \in less => <<"off", x>> \in owed
      /\ Authored \in less => Authored \in owed
  BY <1>1, <1>2
<1> QED BY <1>3 DEF Kept

LEMMA KeptNothing ==
  ASSUME NEW owed, owed \subseteq {Worked}
  PROVE  Kept(Empty, owed)
<1>1. Kept(Empty, {})
  BY EmptyConfig DEF Kept
<1> QED BY <1>1, KeptLess

\* The merge keeps what it was given: an existing check is written back as it
\* was, and nothing is added that a check people turned off would have covered.
LEMMA MergeKeeps ==
  ASSUME NEW cfg \in Configs, NEW owed, Kept(cfg, owed), NEW files \in SUBSET Files,
         NEW add, add = Missing(cfg.checks, detectStack(files)),
         NEW found \in SUBSET Docs, NEW m, m = Merge(cfg, add, found)
  PROVE  Kept(m, owed)
<1>0. \A p \in add : Sound(p)
  BY MissingSound
<1>1. \A p \in add : p.def \in Checks /\ Plain(p.def) = p.def /\ covered(p, p.def)
  BY <1>0 DEF Sound
<1>2. /\ m.checks = {[c EXCEPT !.extra = FALSE] : c \in cfg.checks} \cup {p.def : p \in add}
      /\ m.standards = IF cfg.standards = "absent" THEN "empty" ELSE cfg.standards
      /\ m.unknown = cfg.unknown
  BY DEF Merge
<1>3. cfg.checks \subseteq Checks
  BY ConfigForm
<1>4. ASSUME NEW c \in cfg.checks
      PROVE  \E d \in m.checks : Plain(d) = Plain(c) /\ d.disabled = c.disabled
  <2>1. PICK d : d = [c EXCEPT !.extra = FALSE]
    OBVIOUS
  <2>2. d \in m.checks
    BY <1>2, <2>1
  <2>3. Plain(d) = Plain(c) /\ d.disabled = c.disabled
    BY <1>3, <2>1, WrittenCheck
  <2> QED BY <2>2, <2>3
<1>5. \A c \in HandChecks : <<"check", Plain(c)>> \in owed => \E d \in m.checks : Plain(d) = Plain(c)
  BY <1>4 DEF Kept
<1>6. \A x \in Checks : <<"off", x>> \in owed => \E d \in m.checks : Plain(d) = x /\ d.disabled = TRUE
  <2> SUFFICES ASSUME NEW x \in Checks, <<"off", x>> \in owed
               PROVE  \E d \in m.checks : Plain(d) = x /\ d.disabled = TRUE
    OBVIOUS
  <2>1. PICK c \in cfg.checks : Plain(c) = x /\ c.disabled = TRUE
    BY DEF Kept
  <2>2. PICK d \in m.checks : Plain(d) = Plain(c) /\ d.disabled = c.disabled
    BY <1>4
  <2> QED BY <2>1, <2>2
<1>7. Authored \in owed => m.standards = "authored" /\ m.unknown = TRUE
  BY <1>2 DEF Kept
<1>8. ASSUME NEW c \in cfg.checks, NEW p \in add PROVE Plain(c) # Plain(p.def)
  <2>1. p.def \in Checks /\ covered(p, p.def) /\ ~covered(p, c) /\ c \in Checks
    BY <1>1, <1>3 DEF Missing
  <2> QED BY <2>1, SameJob
<1>9. ASSUME NEW d \in m.checks
      PROVE  \/ \E c \in cfg.checks : d = [c EXCEPT !.extra = FALSE] /\ Plain(d) = Plain(c)
             \/ \E p \in add : d = p.def /\ Plain(d) = d
  <2>1. CASE \E c \in cfg.checks : d = [c EXCEPT !.extra = FALSE]
    BY <1>3, <2>1, WrittenCheck
  <2>2. CASE \E p \in add : d = p.def
    BY <1>1, <2>2
  <2> QED BY <1>2, <2>1, <2>2
<1>10. ASSUME NEW d \in m.checks, NEW e \in m.checks, Plain(d) = Plain(e) PROVE d = e
  <2>1. CASE \E c \in cfg.checks : d = [c EXCEPT !.extra = FALSE] /\ Plain(d) = Plain(c)
    <3>1. PICK c \in cfg.checks : d = [c EXCEPT !.extra = FALSE] /\ Plain(d) = Plain(c)
      BY <2>1
    <3>2. CASE \E b \in cfg.checks : e = [b EXCEPT !.extra = FALSE] /\ Plain(e) = Plain(b)
      BY <1>10, <3>1, <3>2 DEF Kept
    <3>3. CASE \E p \in add : e = p.def /\ Plain(e) = e
      BY <1>8, <1>10, <3>1, <3>3
    <3> QED BY <1>9, <3>2, <3>3
  <2>2. CASE \E p \in add : d = p.def /\ Plain(d) = d
    <3>2. CASE \E b \in cfg.checks : e = [b EXCEPT !.extra = FALSE] /\ Plain(e) = Plain(b)
      BY <1>8, <1>10, <2>2, <3>2
    <3>3. CASE \E p \in add : e = p.def /\ Plain(e) = e
      BY <1>10, <2>2, <3>3
    <3> QED BY <1>9, <3>2, <3>3
  <2> QED BY <1>9, <2>1, <2>2
<1> QED BY <1>5, <1>6, <1>7, <1>10 DEF Kept

\* People who edit the file keep what it owes to others.
LEMMA EditKeeps ==
  ASSUME TypeOK, Readable, Kept(config, edits), NEW new, NEW owed, Edit(new, owed)
  PROVE  Kept(new, owed)
<1>1. config \in Configs /\ config.checks \subseteq Checks /\ HandChecks \subseteq Checks
  BY ConfigForm, ConfigAssumption DEF TypeOK, Readable
<1>2. ASSUME NEW checks
      PROVE  LET n == [config EXCEPT !.checks = checks]
             IN  n.checks = checks /\ n.standards = config.standards /\ n.unknown = config.unknown
  BY <1>1 DEF Configs
<1>3. \A x, y : <<"check", x>> # <<"off", y>> /\ <<"check", x>> # Authored /\ <<"off", x>> # Authored
  BY DEF Authored
<1>4. ASSUME NEW c \in HandChecks, \A d \in config.checks : Plain(d) # Plain(c),
             new = [config EXCEPT !.checks = @ \cup {c}], owed = edits \cup {<<"check", Plain(c)>>}
      PROVE  Kept(new, owed)
  <2>1. /\ new.checks = config.checks \cup {c} /\ new.standards = config.standards
        /\ new.unknown = config.unknown
    BY <1>2, <1>4
  <2>2. /\ \A x : <<"check", x>> \in owed => <<"check", x>> \in edits \/ x = Plain(c)
        /\ \A x : <<"off", x>> \in owed => <<"off", x>> \in edits
        /\ Authored \in owed => Authored \in edits
    BY <1>3, <1>4
  <2> QED BY <1>4, <2>1, <2>2 DEF Kept
<1>5. ASSUME NEW c \in config.checks,
             new = [config EXCEPT !.checks = (@ \ {c}) \cup {[c EXCEPT !.disabled = TRUE]}],
             owed = edits \cup {<<"off", Plain(c)>>}
      PROVE  Kept(new, owed)
  <2>1. PICK b : b = [c EXCEPT !.disabled = TRUE]
    OBVIOUS
  <2>2. /\ new.checks = (config.checks \ {c}) \cup {b} /\ new.standards = config.standards
        /\ new.unknown = config.unknown
    BY <1>2, <1>5, <2>1
  <2>3. b.disabled = TRUE /\ Plain(b) = Plain(c)
    BY <1>1, <2>1, DisabledCheck
  <2>4. /\ \A x : <<"check", x>> \in owed => <<"check", x>> \in edits
        /\ \A x : <<"off", x>> \in owed => <<"off", x>> \in edits \/ x = Plain(c)
        /\ Authored \in owed => Authored \in edits
    BY <1>3, <1>5
  <2>5. \A x \in HandChecks : <<"check", Plain(x)>> \in owed => \E d \in new.checks : Plain(d) = Plain(x)
    BY <2>2, <2>3, <2>4 DEF Kept
  <2>6. \A x \in Checks : <<"off", x>> \in owed => \E d \in new.checks : Plain(d) = x /\ d.disabled = TRUE
    BY <2>2, <2>3, <2>4 DEF Kept
  <2>7. \A d, e \in new.checks : Plain(d) = Plain(e) => d = e
    BY <2>2, <2>3 DEF Kept
  <2> QED BY <2>2, <2>4, <2>5, <2>6, <2>7 DEF Kept
<1>6. ASSUME NEW c \in config.checks, new = [config EXCEPT !.checks = @ \ {c}],
             owed = edits \ {<<what, Plain(c)>> : what \in {"check", "off"}}
      PROVE  Kept(new, owed)
  <2>1. /\ new.checks = config.checks \ {c} /\ new.standards = config.standards
        /\ new.unknown = config.unknown
    BY <1>2, <1>6
  <2>2. /\ \A x : <<"check", x>> \in owed => <<"check", x>> \in edits /\ x # Plain(c)
        /\ \A x : <<"off", x>> \in owed => <<"off", x>> \in edits /\ x # Plain(c)
        /\ Authored \in owed => Authored \in edits
    BY <1>6
  <2> QED BY <2>1, <2>2 DEF Kept
<1>7. ASSUME new = [config EXCEPT !.standards = "authored", !.unknown = TRUE],
             owed = edits \cup {Authored}
      PROVE  Kept(new, owed)
  <2>1. new.checks = config.checks /\ new.standards = "authored" /\ new.unknown = TRUE
    BY <1>1, <1>7 DEF Configs
  <2>2. /\ \A x : <<"check", x>> \in owed => <<"check", x>> \in edits
        /\ \A x : <<"off", x>> \in owed => <<"off", x>> \in edits
    BY <1>3, <1>7
  <2> QED BY <2>1, <2>2 DEF Kept
<1> QED BY <1>4, <1>5, <1>6, <1>7 DEF Edit

LEMMA InitKept == Init => KeptInv
<1> SUFFICES ASSUME Init PROVE KeptInv
  OBVIOUS
<1>1. ~Readable /\ edits = {} /\ pc = "idle"
  BY DEF Init, Readable
<1> QED BY <1>1 DEF KeptInv

LEMMA ReadKept ==
  ASSUME TypeOK, KeptInv, NEW opts \in Options, ReadConfig(opts)
  PROVE  KeptInv'
<1>1. UNCHANGED <<config, tasks, edits>> /\ pc = "idle" /\ (Readable' <=> Readable)
  BY DEF ReadConfig, Readable
<1>2. CASE Finish
  BY <1>1, <1>2 DEF KeptInv, Finish
<1>3. CASE ~Finish
  <2>1. /\ pc' = "detect" /\ ~(config = Torn /\ ~opts.force)
        /\ job' = [opts  |-> opts,
                   cfg   |-> IF opts.force \/ config = Absent THEN Empty ELSE config,
                   known |-> IF opts.force THEN {} ELSE edits,
                   quiet |-> TRUE,
                   seed  |-> FALSE]
    BY <1>3 DEF ReadConfig
  <2>2. /\ job'.cfg = IF opts.force \/ config = Absent THEN Empty ELSE config
        /\ job'.known = IF opts.force THEN {} ELSE edits
    BY <2>1
  <2>3. CASE opts.force \/ config = Absent
    <3>1. job'.cfg = Empty /\ job'.known \subseteq {Worked}
      BY <1>1, <2>2, <2>3 DEF KeptInv, Readable
    <3>2. Kept(job'.cfg, job'.known)
      BY <3>1, KeptNothing
    <3> QED BY <1>1, <2>1, <3>2 DEF KeptInv, Kept
  <2>4. CASE ~opts.force /\ config # Absent
    <3>1. job'.cfg = config /\ job'.known = edits /\ Readable
      BY <2>1, <2>2, <2>4 DEF Readable
    <3>2. Kept(job'.cfg, job'.known)
      BY <3>1 DEF KeptInv
    <3> QED BY <1>1, <2>1, <3>2 DEF KeptInv, Kept
  <2> QED BY <2>3, <2>4
<1> QED BY <1>2, <1>3

LEMMA DetectKept ==
  ASSUME TypeOK, KeptInv, Detect
  PROVE  KeptInv'
<1>1. UNCHANGED <<config, tasks, edits>> /\ pc = "detect" /\ (Readable' <=> Readable)
  BY DEF Detect, Readable
<1>2. CASE Finish
  BY <1>1, <1>2 DEF KeptInv, Finish
<1>3. CASE ~Finish
  <2> DEFINE add == Missing(job.cfg.checks, detectStack(project))
  <2>1. /\ job' = [job EXCEPT !.cfg = Merge(@, add, docs), !.seed = (tasks = Absent)]
        /\ pc' = "openconfig"
    BY <1>3 DEF Detect
  <2>2. /\ job \in Jobs /\ job.cfg \in Configs /\ project \in SUBSET Files /\ docs \in SUBSET Docs
    BY DEF TypeOK, Jobs
  <2> HIDE DEF add
  <2>3. job'.cfg = Merge(job.cfg, add, docs) /\ job'.known = job.known
    BY <2>1, <2>2 DEF Jobs
  <2>4. Kept(job.cfg, job.known)
    BY <1>1 DEF KeptInv
  <2>5. Kept(job'.cfg, job'.known)
    BY <2>2, <2>3, <2>4, MergeKeeps DEF add
  <2> QED BY <1>1, <2>1, <2>5 DEF KeptInv, Kept
<1> QED BY <1>2, <1>3

LEMMA CommandKept ==
  ASSUME TypeOK, KeptInv, OpenConfig \/ WriteConfig \/ OpenTasks \/ WriteTasks \/ Exit \/ Die
  PROVE  KeptInv'
<1>1. Torn # Absent /\ Torn # "worked" /\ job.cfg \in Configs /\ job.cfg \notin {Absent, Torn}
  BY NotAFile, ConfigAssumption DEF TypeOK
<1>2. CASE OpenConfig
  <2>1. /\ pc = "openconfig" /\ pc' = "writeconfig" /\ config' = Torn /\ ~Readable'
        /\ edits' = edits \cap (job.known \cup {Worked}) /\ UNCHANGED <<tasks, job>>
    BY <1>2 DEF OpenConfig, Readable
  <2>2. Kept(job.cfg, edits')
    BY <2>1, KeptLess DEF KeptInv
  <2> QED BY <2>1, <2>2 DEF KeptInv, Kept
<1>3. CASE WriteConfig
  <2>1. /\ pc = "writeconfig" /\ pc' \in {"opentasks", "exit"} /\ config' = job.cfg /\ Readable'
        /\ UNCHANGED <<tasks, job, edits>>
    BY <1>1, <1>3 DEF WriteConfig, Readable
  <2> QED BY <2>1 DEF KeptInv, Kept
<1>4. CASE OpenTasks
  <2>1. /\ pc = "opentasks" /\ pc' = "writetasks" /\ tasks' = Torn /\ edits' = edits \ {Worked}
        /\ UNCHANGED <<config, job>> /\ (Readable' <=> Readable)
    BY <1>4 DEF OpenTasks, Readable
  <2>2. Readable => Kept(config, edits')
    BY <2>1, KeptLess DEF KeptInv
  <2> QED BY <2>1, <2>2 DEF KeptInv, Kept
<1>5. CASE WriteTasks
  <2>1. /\ pc = "writetasks" /\ pc' = "exit" /\ UNCHANGED <<config, job, edits>>
        /\ (Readable' <=> Readable) /\ Worked \notin edits
    BY <1>1, <1>5 DEF WriteTasks, Readable, KeptInv
  <2> QED BY <2>1 DEF KeptInv, Kept
<1>6. CASE Exit
  <2>1. pc = "exit" /\ pc' = "idle" /\ UNCHANGED <<config, tasks, edits>> /\ (Readable' <=> Readable)
    BY <1>6 DEF Exit, Finish, Readable
  <2> QED BY <2>1 DEF KeptInv, Kept
<1>7. CASE Die
  <2>1. /\ pc' = "idle" /\ UNCHANGED <<config, tasks>> /\ (Readable' <=> Readable)
        /\ edits' = IF config = Torn THEN edits \cap {Worked} ELSE edits
    BY <1>7 DEF Die, Finish, Readable
  <2>2. edits' \subseteq edits /\ (config = Torn => edits' \subseteq {Worked})
    BY <2>1
  <2>3. Readable => Kept(config, edits')
    BY <2>2, KeptLess DEF KeptInv
  <2>4. ~Readable => edits' \subseteq {Worked}
    BY <1>1, <2>2 DEF KeptInv, Readable
  <2> QED BY <2>1, <2>2, <2>3, <2>4 DEF KeptInv, Kept
<1> QED BY <1>2, <1>3, <1>4, <1>5, <1>6, <1>7

LEMMA PeopleKept ==
  ASSUME TypeOK, KeptInv, Around \/ Saves \/ WorkOnTasks
  PROVE  KeptInv'
<1>1. Changed
  BY SavesEdit DEF Around, AddFile, RemoveFile, AddDoc, WorkOnTasks
<1>2. pc' = pc /\ job'.cfg = job.cfg /\ job'.known = job.known
  BY <1>1, ChangedTyped
<1>3. CASE Around
  <2>1. UNCHANGED <<config, tasks, edits>> /\ (Readable' <=> Readable)
    BY <1>3 DEF Around, AddFile, RemoveFile, AddDoc, Readable
  <2> QED BY <1>2, <2>1 DEF KeptInv, Kept
<1>4. CASE Saves
  <2>1. Readable /\ tasks' = tasks /\ Edit(config', edits')
    BY <1>4, SavesEdit
  <2>2. Kept(config', edits') /\ config' \in Configs
    BY <2>1, EditKeeps, EditTyped DEF KeptInv
  <2>3. Readable' /\ pc # "writeconfig"
    BY <2>1, <2>2, NotAFile DEF Readable, KeptInv
  <2>4. Worked \in edits' => Worked \in edits
    BY <2>1 DEF Edit, Worked, Authored
  <2> QED BY <1>2, <2>1, <2>2, <2>3, <2>4 DEF KeptInv, Kept
<1>5. CASE WorkOnTasks
  <2>1. /\ tasks \in {Absent, "baseline"} /\ tasks' = "worked" /\ edits' = edits \cup {Worked}
        /\ config' = config /\ (Readable' <=> Readable)
    BY <1>5 DEF WorkOnTasks, Readable
  <2>2. /\ Readable => Kept(config, edits')
        /\ pc = "writeconfig" => Kept(job.cfg, edits')
    BY <2>1, KeptLess DEF KeptInv
  <2>3. pc # "writetasks"
    BY <2>1, ConfigAssumption DEF KeptInv
  <2> QED BY <1>2, <2>1, <2>2, <2>3 DEF KeptInv, Kept
<1> QED BY <1>3, <1>4, <1>5

LEMMA NextKept == TypeOK /\ KeptInv /\ [Next]_vars => KeptInv'
<1> SUFFICES ASSUME TypeOK, KeptInv, [Next]_vars PROVE KeptInv'
  OBVIOUS
<1>1. CASE UNCHANGED vars
  BY <1>1 DEF vars, KeptInv, Kept, Readable
<1>2. CASE Next
  BY <1>2, ReadKept, DetectKept, CommandKept, PeopleKept DEF Next, Around, Saves
<1> QED BY <1>1, <1>2

-----------------------------------------------------------------------------
(* Init comes to rest *)

\* Where init would change nothing.
Rest(cfg, files, found) ==
    /\ Missing(cfg.checks, detectStack(files)) = {}
    /\ found \subseteq cfg.docs
    /\ Merge(cfg, {}, found) = cfg

Writing == pc \in {"openconfig", "writeconfig", "opentasks", "writetasks", "exit"}

\* What an undisturbed command is about to write, and has written, is at rest.
RestInv ==
    /\ Writing => job.seed \/ tasks # Absent
    /\ Writing /\ job.quiet => Rest(job.cfg, project, docs)
    /\ pc \in {"opentasks", "writetasks", "exit"} /\ job.quiet => config = job.cfg
    /\ pc = "exit" => tasks # Absent
    /\ pc = "writeconfig" => ~settled
    /\ settled => Rest(config, project, docs) /\ tasks # Absent

\* What was not covered is added, and what is added covers; nothing is left that
\* a second merge would write otherwise.
LEMMA MergeRests ==
  ASSUME NEW cfg \in Configs, NEW files \in SUBSET Files,
         NEW add, add = Missing(cfg.checks, detectStack(files)),
         NEW found \in SUBSET Docs, NEW m, m = Merge(cfg, add, found)
  PROVE  Rest(m, files, found)
<1>1. \A p \in add : Sound(p)
  BY MissingSound
<1>2. \A p \in add : p.def \in Checks /\ Plain(p.def) = p.def /\ covered(p, p.def)
  BY <1>1 DEF Sound
<1>3. /\ m \in Configs
      /\ m.checks = {[c EXCEPT !.extra = FALSE] : c \in cfg.checks} \cup {p.def : p \in add}
      /\ m.docs = IF found # {} THEN found ELSE cfg.docs
      /\ m.standards = IF cfg.standards = "absent" THEN "empty" ELSE cfg.standards
      /\ m.unknown = cfg.unknown
  <2>1. m \in Configs
    BY <1>1, Merged
  <2> QED BY <2>1 DEF Merge
<1>4. cfg.checks \subseteq Checks
  BY ConfigForm
<1>5. Missing(m.checks, detectStack(files)) = {}
  <2> SUFFICES ASSUME NEW p \in proposalsFor(detectStack(files))
               PROVE  \E d \in m.checks : covered(p, d)
    BY DEF Missing
  <2>1. CASE p \in add
    BY <1>2, <1>3, <2>1
  <2>2. CASE p \notin add
    <3>1. PICK c \in cfg.checks : covered(p, c)
      BY <2>2 DEF Missing
    <3>2. PICK d : d = [c EXCEPT !.extra = FALSE]
      OBVIOUS
    <3>3. c \in Checks /\ d \in Checks /\ Plain(d) = Plain(c)
      BY <1>4, <3>2, WrittenCheck
    <3>4. covered(p, d)
      BY <3>1, <3>3, SameJob
    <3> QED BY <1>3, <3>2, <3>4
  <2> QED BY <2>1, <2>2
<1>6. \A d \in m.checks : [d EXCEPT !.extra = FALSE] = d
  <2> SUFFICES ASSUME NEW d \in m.checks PROVE [d EXCEPT !.extra = FALSE] = d
    OBVIOUS
  <2>1. d \in Checks
    BY <1>3, ConfigForm
  <2>2. d.extra = FALSE
    <3>1. CASE \E c \in cfg.checks : d = [c EXCEPT !.extra = FALSE]
      BY <1>4, <3>1, WrittenCheck
    <3>2. CASE \E p \in add : d = p.def
      <4>1. Plain(d) = d
        BY <1>2, <3>2
      <4> QED BY <2>1, <4>1 DEF Plain, Checks
    <3> QED BY <1>3, <3>1, <3>2
  <2> QED BY <2>1, <2>2 DEF Checks
<1>7. Merge(m, {}, found) = m
  <2>1. PICK n : n = Merge(m, {}, found)
    OBVIOUS
  <2>2. /\ n \in Configs
        /\ n.checks = {[d EXCEPT !.extra = FALSE] : d \in m.checks}
        /\ n.docs = IF found # {} THEN found ELSE m.docs
        /\ n.standards = IF m.standards = "absent" THEN "empty" ELSE m.standards
        /\ n.unknown = m.unknown
    <3>0. m \in Configs /\ \A p \in {} : Sound(p)
      BY <1>3
    <3>1. n \in Configs
      BY <2>1, <3>0, Merged, Zenon
    <3>2. n.checks = {[d EXCEPT !.extra = FALSE] : d \in m.checks} \cup {p.def : p \in {}}
      BY <2>1 DEF Merge
    <3>3. n.checks = {[d EXCEPT !.extra = FALSE] : d \in m.checks}
      BY <3>2
    <3> QED BY <2>1, <3>1, <3>3 DEF Merge
  <2>3. n.checks = m.checks
    <3>1. \A x : x \in n.checks <=> \E d \in m.checks : x = [d EXCEPT !.extra = FALSE]
      BY <2>2
    <3>2. ASSUME NEW x \in n.checks PROVE x \in m.checks
      <4>1. PICK d \in m.checks : x = [d EXCEPT !.extra = FALSE]
        BY <3>1
      <4>2. [d EXCEPT !.extra = FALSE] = d
        BY <1>6
      <4> QED BY <4>1, <4>2
    <3>3. ASSUME NEW x \in m.checks PROVE x \in n.checks
      <4>1. x = [x EXCEPT !.extra = FALSE]
        BY <1>6
      <4> QED BY <3>1, <4>1
    <3> QED BY <3>2, <3>3
  <2>4. n.docs = m.docs /\ n.standards = m.standards /\ n.unknown = m.unknown
    BY <1>3, <2>2
  <2>5. n = m
    BY <1>3, <2>2, <2>3, <2>4, ConfigForm, Zenon
  <2> QED BY <2>1, <2>5
<1>8. found \subseteq m.docs
  BY <1>3
<1> QED BY <1>5, <1>7, <1>8 DEF Rest

LEMMA InitRest == Init => RestInv
BY DEF Init, RestInv, Writing

LEMMA ReadRest ==
  ASSUME TypeOK, RestInv, NEW opts \in Options, ReadConfig(opts)
  PROVE  RestInv'
<1>1. UNCHANGED <<project, docs, config, tasks, settled>> /\ pc' \in {"idle", "detect"}
  BY DEF ReadConfig, Finish
<1> QED BY <1>1 DEF RestInv, Writing

LEMMA DetectRest ==
  ASSUME TypeOK, RestInv, Detect
  PROVE  RestInv'
<1>1. UNCHANGED <<project, docs, config, tasks, settled>>
  BY DEF Detect
<1>2. CASE Finish
  BY <1>1, <1>2 DEF RestInv, Writing, Finish
<1>3. CASE ~Finish
  <2> DEFINE add == Missing(job.cfg.checks, detectStack(project))
  <2>1. /\ job' = [job EXCEPT !.cfg = Merge(@, add, docs), !.seed = (tasks = Absent)]
        /\ pc' = "openconfig"
    BY <1>3 DEF Detect
  <2>2. /\ job \in Jobs /\ job.cfg \in Configs /\ project \in SUBSET Files /\ docs \in SUBSET Docs
    BY DEF TypeOK, Jobs
  <2> HIDE DEF add
  <2>3. job'.cfg = Merge(job.cfg, add, docs) /\ job'.seed = (tasks = Absent)
    BY <2>1, <2>2 DEF Jobs
  <2>4. Rest(job'.cfg, project, docs)
    BY <2>2, <2>3, MergeRests DEF add
  <2>5. Rest(job'.cfg, project', docs')
    BY <1>1, <2>4
  <2> QED BY <1>1, <2>1, <2>3, <2>5 DEF RestInv, Writing
<1> QED BY <1>2, <1>3

LEMMA CommandRest ==
  ASSUME TypeOK, RestInv, OpenConfig \/ WriteConfig \/ OpenTasks \/ WriteTasks \/ Exit \/ Die
  PROVE  RestInv'
<1>1. Torn # Absent /\ "baseline" # Absent
  BY ConfigAssumption
<1>2. UNCHANGED <<project, docs>>
  BY DEF OpenConfig, WriteConfig, OpenTasks, WriteTasks, Exit, Die
<1>3. CASE OpenConfig
  BY <1>2, <1>3 DEF OpenConfig, RestInv, Writing
<1>4. CASE WriteConfig
  BY <1>2, <1>4 DEF WriteConfig, RestInv, Writing
<1>5. CASE OpenTasks
  BY <1>1, <1>2, <1>5 DEF OpenTasks, RestInv, Writing
<1>6. CASE WriteTasks
  BY <1>1, <1>2, <1>6 DEF WriteTasks, RestInv, Writing
<1>7. CASE Exit
  BY <1>2, <1>7 DEF Exit, Finish, RestInv, Writing
<1>8. CASE Die
  BY <1>2, <1>8 DEF Die, Finish, RestInv, Writing
<1> QED BY <1>3, <1>4, <1>5, <1>6, <1>7, <1>8

LEMMA PeopleRest ==
  ASSUME TypeOK, RestInv, Around \/ Saves \/ WorkOnTasks
  PROVE  RestInv'
<1>1. Changed
  BY SavesEdit DEF Around, AddFile, RemoveFile, AddDoc, WorkOnTasks
<1>2. pc' = pc /\ job'.seed = job.seed /\ settled' = FALSE /\ (pc # "idle" => job'.quiet = FALSE)
  BY <1>1, ChangedTyped
<1>3. tasks' = tasks \/ tasks' # Absent
  BY SavesEdit, ConfigAssumption DEF Around, AddFile, RemoveFile, AddDoc, WorkOnTasks
<1> QED BY <1>2, <1>3 DEF RestInv, Writing

LEMMA NextRest == TypeOK /\ RestInv /\ [Next]_vars => RestInv'
<1> SUFFICES ASSUME TypeOK, RestInv, [Next]_vars PROVE RestInv'
  OBVIOUS
<1>1. CASE UNCHANGED vars
  BY <1>1 DEF vars, RestInv, Writing
<1>2. CASE Next
  BY <1>2, ReadRest, DetectRest, CommandRest, PeopleRest DEF Next, Around, Saves
<1> QED BY <1>1, <1>2

-----------------------------------------------------------------------------
(* What init --check vouches for *)

\* The checks of a project that --check passes.
Passes(checks, files) ==
    auditConfig(checks, Missing(checks, detectStack(files)), files) = {}

LEMMA RequiredDone ==
  ASSUME NEW checks, NEW files, Passes(checks, files),
         NEW p \in proposalsFor(detectStack(files)), p.required = TRUE
  PROVE  \E c \in checks : covered(p, c)
BY DEF Passes, auditConfig, Missing

\* A required row of the table has a check: one whose command has the words, or
\* one that declares or runs the tool.
LEMMA RowDone ==
  ASSUME NEW checks, NEW files, Passes(checks, files),
         NEW lang \in detectStack(files).flags \cup {"any"}, NEW by, NEW arg, NEW def,
         Row(lang, TRUE, by, arg, def) \in Table,
         by \in {"command", "tool", "parser"}
  PROVE  \E c \in checks : IF by = "command" THEN arg \in c.command ELSE arg \in Names(c)
<1>1. PICK p : p = Row(lang, TRUE, by, arg, def)
  OBVIOUS
<1>2. p.lang = lang /\ p.required = TRUE /\ p.by = by /\ p.arg = arg
  BY <1>1 DEF Row
<1>3. p \in proposalsFor(detectStack(files))
  BY <1>1, <1>2 DEF proposalsFor
<1>4. PICK c \in checks : covered(p, c)
  BY <1>2, <1>3, RequiredDone
<1>5. IF by = "command" THEN arg \in c.command ELSE arg \in Names(c)
  BY <1>2, <1>4 DEF covered, cmdHas, parserIs, toolOrCmd, Names
<1> QED BY <1>5

LEMMA Flagged ==
  ASSUME NEW files, NEW f \in Seen(files), NEW lang, lang \in Language(f.name)
  PROVE  lang \in detectStack(files).flags
BY DEF detectStack, Seen

LEMMA Vouched ==
  ASSUME NEW checks, NEW files, Passes(checks, files)
  PROVE  /\ \A word \in NeededCommands(files) : \E c \in checks : word \in c.command
         /\ \A tool \in NeededTools(files) : \E c \in checks : tool \in Names(c)
         /\ \A dir \in NodeDirs(files) :
               \E c \in checks : c.dir = dir /\ {"audit", "npm-audit"} \cap Names(c) # {}
         /\ \A c \in checks : ~c.disabled => DirExists(c.dir, files)
<1>1. ASSUME NEW f \in Seen(files), f.name = "go.mod"
      PROVE  \E c \in checks : "go build" \in c.command
  <2>1. "go" \in detectStack(files).flags \cup {"any"}
    BY <1>1, Flagged DEF Language
  <2>2. Row("go", TRUE, "command", "go build",
            Def("build", "", "go", {"go build"}, "exit")) \in Table
    BY DEF Table
  <2> QED BY <2>1, <2>2, RowDone
<1>2. ASSUME NEW f \in Seen(files), f.name = "go.mod"
      PROVE  \E c \in checks : "go vet" \in c.command
  <2>1. "go" \in detectStack(files).flags \cup {"any"}
    BY <1>2, Flagged DEF Language
  <2>2. Row("go", TRUE, "command", "go vet",
            Def("vet", "", "go", {"go vet"}, "exit")) \in Table
    BY DEF Table
  <2> QED BY <2>1, <2>2, RowDone
<1>3. ASSUME NEW f \in Seen(files), f.name = "go.mod"
      PROVE  \E c \in checks : "go test" \in c.command
  <2>1. "go" \in detectStack(files).flags \cup {"any"}
    BY <1>3, Flagged DEF Language
  <2>2. Row("go", TRUE, "command", "go test",
            Def("tests", "", "go test", {"go test"}, "gotest")) \in Table
    BY DEF Table
  <2> QED BY <2>1, <2>2, RowDone
<1>4. ASSUME NEW f \in Seen(files), f.name = "Cargo.toml"
      PROVE  \E c \in checks : "cargo audit" \in c.command
  <2>1. "rust" \in detectStack(files).flags \cup {"any"}
    BY <1>4, Flagged DEF Language
  <2>2. Row("rust", TRUE, "command", "cargo audit",
            Def("cargo-audit", "", "cargo", {"cargo audit", "audit"}, "exit")) \in Table
    BY DEF Table
  <2> QED BY <2>1, <2>2, RowDone
<1>5. ASSUME NEW f \in Seen(files), f.name = "go.mod"
      PROVE  \E c \in checks : "govulncheck" \in Names(c)
  <2>1. "go" \in detectStack(files).flags \cup {"any"}
    BY <1>5, Flagged DEF Language
  <2>2. Row("go", TRUE, "tool", "govulncheck",
            Def("govulncheck", "", "govulncheck", {"govulncheck"}, "govulncheck")) \in Table
    BY DEF Table
  <2> QED BY <2>1, <2>2, RowDone
<1>6. ASSUME NEW f \in Seen(files), f.name \in {"pyproject.toml", "requirements.txt", "Pipfile"}
      PROVE  \E c \in checks : "pip-audit" \in Names(c)
  <2>1. "python" \in detectStack(files).flags \cup {"any"}
    BY <1>6, Flagged DEF Language
  <2>2. Row("python", TRUE, "tool", "pip-audit",
            Def("pip-audit", "", "pip-audit", {"pip-audit", "audit"}, "exit")) \in Table
    BY DEF Table
  <2> QED BY <2>1, <2>2, RowDone
<1>7. ASSUME NEW f \in Seen(files), f.name = "composer.json"
      PROVE  \E c \in checks : "composer" \in Names(c)
  <2>1. "php" \in detectStack(files).flags \cup {"any"}
    BY <1>7, Flagged DEF Language
  <2>2. Row("php", TRUE, "tool", "composer",
            Def("composer-audit", "", "composer", {"composer", "audit"}, "exit")) \in Table
    BY DEF Table
  <2> QED BY <2>1, <2>2, RowDone
<1>8. ASSUME NEW f \in Seen(files), f.name = "Gemfile"
      PROVE  \E c \in checks : "bundler-audit" \in Names(c)
  <2>1. "ruby" \in detectStack(files).flags \cup {"any"}
    BY <1>8, Flagged DEF Language
  <2>2. Row("ruby", TRUE, "tool", "bundler-audit",
            Def("bundler-audit", "", "bundler-audit", {"bundler-audit", "audit"}, "exit")) \in Table
    BY DEF Table
  <2> QED BY <2>1, <2>2, RowDone
<1>9. ASSUME NEW f \in Seen(files), f.name \in {"pom.xml", "build.gradle", "build.gradle.kts"}
      PROVE  \E c \in checks : "osv-scanner" \in Names(c)
  <2>1. "jvm" \in detectStack(files).flags \cup {"any"}
    BY <1>9, Flagged DEF Language
  <2>2. Row("jvm", TRUE, "tool", "osv-scanner",
            Def("osv-scanner", "", "osv-scanner", {"osv-scanner"}, "exit")) \in Table
    BY DEF Table
  <2> QED BY <2>1, <2>2, RowDone
<1>10. \E c \in checks : "gitleaks" \in Names(c)
  <2>1. Row("any", TRUE, "parser", "gitleaks",
            Def("gitleaks", "", "gitleaks", {"gitleaks"}, "gitleaks")) \in Table
    BY DEF Table
  <2> QED BY <2>1, RowDone
<1>11. ASSUME NEW word \in NeededCommands(files) PROVE \E c \in checks : word \in c.command
  <2>1. PICK f \in Seen(files) :
          word \in CASE f.name = "go.mod"     -> {"go build", "go vet", "go test"}
                     [] f.name = "Cargo.toml" -> {"cargo audit"}
                     [] OTHER                 -> {}
    BY DEF NeededCommands
  <2>2. \/ f.name = "go.mod" /\ word \in {"go build", "go vet", "go test"}
        \/ f.name = "Cargo.toml" /\ word = "cargo audit"
    BY <2>1
  <2> QED BY <1>1, <1>2, <1>3, <1>4, <2>2
<1>12. ASSUME NEW tool \in NeededTools(files) PROVE \E c \in checks : tool \in Names(c)
  <2>1. CASE tool = "gitleaks"
    BY <1>10, <2>1
  <2>2. CASE tool # "gitleaks"
    <3>1. PICK f \in Seen(files) :
            tool \in CASE f.name = "go.mod" -> {"govulncheck"}
                       [] f.name \in {"pyproject.toml", "requirements.txt", "Pipfile"} -> {"pip-audit"}
                       [] f.name = "composer.json" -> {"composer"}
                       [] f.name = "Gemfile" -> {"bundler-audit"}
                       [] f.name \in {"pom.xml", "build.gradle", "build.gradle.kts"} -> {"osv-scanner"}
                       [] OTHER -> {}
      BY <2>2 DEF NeededTools
    <3>2. \/ f.name = "go.mod" /\ tool = "govulncheck"
          \/ f.name \in {"pyproject.toml", "requirements.txt", "Pipfile"} /\ tool = "pip-audit"
          \/ f.name = "composer.json" /\ tool = "composer"
          \/ f.name = "Gemfile" /\ tool = "bundler-audit"
          \/ f.name \in {"pom.xml", "build.gradle", "build.gradle.kts"} /\ tool = "osv-scanner"
      BY <3>1
    <3> QED BY <1>5, <1>6, <1>7, <1>8, <1>9, <3>2
  <2> QED BY <2>1, <2>2
<1>13. ASSUME NEW dir \in NodeDirs(files)
       PROVE  \E c \in checks : c.dir = dir /\ {"audit", "npm-audit"} \cap Names(c) # {}
  <2>1. dir \in detectStack(files).node
    BY DEF NodeDirs, Seen, detectStack
  <2>2. PICK p : p = NodeAudit(dir)
    OBVIOUS
  <2>3. p.required = TRUE /\ p.by = "node" /\ p.arg = dir
    BY <2>2 DEF NodeAudit, Row
  <2>4. p \in proposalsFor(detectStack(files))
    BY <2>1, <2>2 DEF proposalsFor
  <2>5. PICK c \in checks : covered(p, c)
    BY <2>3, <2>4, RequiredDone
  <2> QED BY <2>3, <2>5 DEF covered, cmdHas, parserIs, Names
<1>14. \A c \in checks : ~c.disabled => DirExists(c.dir, files)
  BY DEF Passes, auditConfig
<1> QED BY <1>11, <1>12, <1>13, <1>14

\* The verdict is about what was read and the project at that moment.
LEMMA NextVouches ==
  ASSUME TypeOK, CheckSeesHoles, [Next]_vars
  PROVE  CheckSeesHoles'
<1>1. CASE gate' = gate
  BY <1>1 DEF CheckSeesHoles
<1>2. CASE gate' = NoVerdict
  BY <1>2 DEF CheckSeesHoles, NoVerdict
<1>3. CASE Detect /\ job.opts.check
  <2> DEFINE old == job.cfg.checks
  <2>1. gate' = [code |-> reportCheck(auditConfig(old, Missing(old, detectStack(project)), project)),
                 checks |-> old, files |-> project]
    BY <1>3 DEF Detect
  <2>2. /\ gate'.code = reportCheck(auditConfig(old, Missing(old, detectStack(project)), project))
        /\ gate'.checks = old /\ gate'.files = project
    BY <2>1
  <2>3. CASE gate'.code = 0
    <3>1. Passes(old, project)
      BY <2>2, <2>3 DEF reportCheck, Passes
    <3>2. /\ \A word \in NeededCommands(project) : \E c \in old : word \in c.command
          /\ \A tool \in NeededTools(project) : \E c \in old : tool \in Names(c)
          /\ \A dir \in NodeDirs(project) :
                \E c \in old : c.dir = dir /\ {"audit", "npm-audit"} \cap Names(c) # {}
          /\ \A c \in old : ~c.disabled => DirExists(c.dir, project)
      BY <3>1, Vouched
    <3> QED BY <2>2, <3>2 DEF CheckSeesHoles
  <2> QED BY <2>3 DEF CheckSeesHoles
<1>4. gate' = gate \/ gate' = NoVerdict \/ (Detect /\ job.opts.check)
  <2>1. CASE UNCHANGED vars
    BY <2>1 DEF vars
  <2>2. CASE Around \/ Saves \/ WorkOnTasks
    <3>1. Changed
      BY <2>2, SavesEdit DEF Around, AddFile, RemoveFile, AddDoc, WorkOnTasks
    <3> QED BY <3>1 DEF Changed
  <2>3. CASE Next /\ ~(Around \/ Saves \/ WorkOnTasks)
    BY <2>3 DEF Next, Around, Saves, ReadConfig, Detect, OpenConfig, WriteConfig, OpenTasks, WriteTasks,
                Exit, Die
  <2> QED BY <2>1, <2>2, <2>3
<1> QED BY <1>1, <1>2, <1>3, <1>4

-----------------------------------------------------------------------------
(* Theorems *)

\* runInit and the people around it keep every file, the running command and the
\* last verdict of --check well formed: what is written is a configuration again.
THEOREM TypeCorrect == Spec => []TypeOK
<1>1. Init => TypeOK
  BY InitTyped
<1>2. TypeOK /\ [Next]_vars => TypeOK'
  BY NextTyped
<1> QED BY <1>1, <1>2, PTL DEF Spec

\* The merge of runInit and the seeding of tasks.json never drop what people
\* wrote, for any checks they write and however often init runs or dies.
THEOREM EditsAreKept == Spec => []EditsKept
<1>1. Init => KeptInv
  BY InitKept
<1>2. TypeOK /\ KeptInv /\ [Next]_vars => KeptInv'
  BY NextKept
<1>3. TypeOK /\ KeptInv => EditsKept
  <2> SUFFICES ASSUME TypeOK, KeptInv PROVE EditsKept
    OBVIOUS
  <2>1. CASE Readable
    <3>1. Kept(config, edits) /\ config.checks \subseteq Checks
      BY <2>1, ConfigForm DEF KeptInv, TypeOK, Readable
    <3>2. \A d \in config.checks : <<"off", Plain(d)>> \in edits => d.disabled
      BY <3>1, PlainCheck DEF Kept
    <3>3. config # Torn
      BY <2>1 DEF Readable
    <3> QED BY <3>1, <3>2, <3>3 DEF EditsKept, Kept, KeptInv
  <2>2. CASE ~Readable
    BY <2>2 DEF EditsKept, KeptInv
  <2> QED BY <2>1, <2>2
<1> QED BY <1>1, <1>2, <1>3, TypeCorrect, PTL DEF Spec

\* An init that nothing disturbed leaves config.json and tasks.json at rest, for
\* every project and every configuration it started from: proposals are covered
\* by what was written, and one more init changes nothing.
THEOREM InitComesToRest == Spec => []InitSettles
<1>1. Init => RestInv
  BY InitRest
<1>2. TypeOK /\ RestInv /\ [Next]_vars => RestInv'
  BY NextRest
<1>3. RestInv => InitSettles
  BY DEF RestInv, Rest, InitSettles
<1> QED BY <1>1, <1>2, <1>3, TypeCorrect, PTL DEF Spec

\* An exit code 0 of `init --check` (auditConfig, reportCheck) means that every job
\* required for the project, in every language init knows, has a check in the
\* configuration, enabled or turned off on purpose, and every enabled check a
\* directory to run in: for any project, any checks people write, turn off or
\* remove, and any commands and deaths before.
THEOREM CheckVouches == Spec => []CheckSeesHoles
<1>1. Init => CheckSeesHoles
  BY DEF Init, CheckSeesHoles, NoVerdict
<1>2. TypeOK /\ CheckSeesHoles /\ [Next]_vars => CheckSeesHoles'
  BY NextVouches
<1> QED BY <1>1, <1>2, TypeCorrect, PTL DEF Spec

=============================================================================
