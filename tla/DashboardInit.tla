----------------------------- MODULE DashboardInit -----------------------------
(***************************************************************************)
(* `security-dashboard init`: detects the stack of the project, proposes a *)
(* check for each thing it finds, and merges what is missing into          *)
(* security/config.json, which people edit too; seeds tasks.json.  With    *)
(* --check it is a CI gate that fails when the configuration no longer     *)
(* covers the stack.                                                       *)
(*                                                                         *)
(* A command is the set of substrings that coverage looks for in it, and a *)
(* key its name and directory.  Of the configuration the checks (a set:    *)
(* nothing depends on their order), the recorded compliance documents, the *)
(* authored standards and one key this program does not know are kept.     *)
(* os.WriteFile truncates before it writes, so a file is Torn in between.  *)
(***************************************************************************)
EXTENDS Naturals

CONSTANTS Files,       \* files that may be in the project: [dir, name], dir "" the root
          Docs,        \* documents that may be in security/compliance/
          HandChecks,  \* checks that people write by hand
          Absent, Torn,
          MaxChanges,  \* bound: changes by people
          MaxInits,    \* bound: commands started
          MaxCrashes   \* bound: commands that die

ASSUME BoundsAssumption == {MaxChanges, MaxInits, MaxCrashes} \subseteq Nat

VARIABLES
    project,   \* files of the project
    docs,      \* documents in security/compliance/
    config,    \* config.json: Absent, Torn, or what it says
    tasks,     \* tasks.json: Absent, Torn, "baseline", or "worked" on by people
    pc, job,   \* the command that runs, if any
    gate,      \* the last --check that ended: exit code and what it looked at
    edits,     \* history: what people put into the files and the files owe them
    settled,   \* history: nothing changed since an init ended well
    changes, inits, crashes

vars == <<project, docs, config, tasks, pc, job, gate, edits, settled, changes, inits, crashes>>

-----------------------------------------------------------------------------
(* Detection *)

\* Directories here are one level deep; other names that start with a dot are
\* skipped too.
SkipDirs == {"node_modules", "vendor", "dist", "build", "out", "target", "coverage",
             "__pycache__", "venv", ".venv", "tmp", "testdata"}

\* Any Dockerfile.* counts as Dockerfile, and any *.tf as main.tf.
Language(name) ==
    CASE name = "go.mod" -> {"go"}
      [] name \in {"pyproject.toml", "requirements.txt", "Pipfile"} -> {"python"}
      [] name = "composer.json" -> {"php"}
      [] name = "Gemfile" -> {"ruby"}
      [] name = "Cargo.toml" -> {"rust"}
      [] name \in {"pom.xml", "build.gradle", "build.gradle.kts"} -> {"jvm"}
      [] name = "Dockerfile" -> {"docker"}
      [] name = "main.tf" -> {"terraform"}
      [] OTHER -> {}

detectStack(files) ==
    LET seen == {f \in files : f.dir \notin SkipDirs}
    IN  [flags |-> UNION {Language(f.name) : f \in seen},
         node  |-> {f.dir : f \in {g \in seen : g.name = "package.json"}}]

DirExists(dir, files) == dir = "" \/ \E f \in files : f.dir = dir

-----------------------------------------------------------------------------
(* Proposals and coverage *)

cmdHas(c, sub)     == sub \in c.command
parserIs(c, p)     == c.parser = p
toolOrCmd(c, tool) == c.tool = tool \/ cmdHas(c, tool)

\* A check as `init` writes it.
Def(name, dir, tool, command, parser) ==
    [key |-> <<name, dir>>, dir |-> dir, tool |-> tool, command |-> command, parser |-> parser,
     source |-> "detected", disabled |-> FALSE, extra |-> FALSE]

\* What it is proposed for, and how a check that does its job is recognised.
Row(lang, required, by, arg, def) ==
    [lang |-> lang, required |-> required, by |-> by, arg |-> arg, def |-> def]

Table == {
    Row("go", TRUE, "command", "go build", Def("build", "", "go", {"go build"}, "exit")),
    Row("go", TRUE, "command", "go vet", Def("vet", "", "go", {"go vet"}, "exit")),
    Row("go", TRUE, "command", "go test", Def("tests", "", "go test", {"go test"}, "gotest")),
    Row("go", TRUE, "tool", "govulncheck",
        Def("govulncheck", "", "govulncheck", {"govulncheck"}, "govulncheck")),
    Row("go", FALSE, "parser", "gosec-json", Def("gosec", "", "gosec", {"gosec"}, "gosec-json")),
    Row("python", TRUE, "tool", "pip-audit",
        Def("pip-audit", "", "pip-audit", {"pip-audit", "audit"}, "exit")),
    Row("python", FALSE, "tool", "bandit", Def("bandit", "", "bandit", {"bandit"}, "exit")),
    Row("php", TRUE, "tool", "composer",
        Def("composer-audit", "", "composer", {"composer", "audit"}, "exit")),
    Row("ruby", TRUE, "tool", "bundler-audit",
        Def("bundler-audit", "", "bundler-audit", {"bundler-audit", "audit"}, "exit")),
    Row("rust", TRUE, "command", "cargo audit",
        Def("cargo-audit", "", "cargo", {"cargo audit", "audit"}, "exit")),
    Row("jvm", TRUE, "tool", "osv-scanner",
        Def("osv-scanner", "", "osv-scanner", {"osv-scanner"}, "exit")),
    Row("any", TRUE, "parser", "gitleaks",
        Def("gitleaks", "", "gitleaks", {"gitleaks"}, "gitleaks")),
    Row("any", FALSE, "parser", "semgrep-json",
        Def("semgrep", "", "semgrep", {"semgrep"}, "semgrep-json")),
    Row("any", FALSE, "tool", "syft", Def("sbom", "", "syft", {"syft"}, "exit")),
    Row("docker", FALSE, "tool", "trivy", Def("trivy-fs", "", "trivy", {"trivy"}, "exit")),
    Row("terraform", FALSE, "tool", "checkov", Def("checkov", "", "checkov", {"checkov"}, "exit"))}

\* The audit is run at the root, wherever the project is.
NodeAuditAtRoot(dir) ==
    Row("node", TRUE, "node", dir, Def("npm-audit", "", "npm", {"npm", "audit"}, "npm-audit"))

\* The audit of the Node project in one directory.  All three package managers
\* have "npm" and "audit" in their commands.
NodeAudit(dir) ==
    Row("node", TRUE, "node", dir, Def("npm-audit", dir, "npm", {"npm", "audit"}, "npm-audit"))

proposalsFor(s) ==
    {row \in Table : row.lang \in s.flags \cup {"any"}} \cup {NodeAudit(dir) : dir \in s.node}

\* Every check that people may write or that may be proposed, and from its parts
\* the checks there can be: turned off by people or not, extra when it has fields
\* that this program does not know.
Known == HandChecks \cup {p.def : p \in Table \cup {NodeAudit(f.dir) : f \in Files}}

Checks == [key : {c.key : c \in Known}, dir : {c.dir : c \in Known}, tool : {c.tool : c \in Known},
           command : {c.command : c \in Known}, parser : {c.parser : c \in Known},
           source : {c.source : c \in Known}, disabled : BOOLEAN, extra : BOOLEAN]

Configs == [checks : SUBSET Checks, docs : SUBSET Docs,
            standards : {"absent", "empty", "authored"}, unknown : BOOLEAN]

ASSUME ConfigAssumption ==
    /\ HandChecks \subseteq Checks
    /\ Absent # Torn /\ Absent \notin Configs /\ Torn \notin Configs
    /\ \A v \in {Absent, Torn} : v \notin {"baseline", "worked"}

\* A check that people turned off does not count.
coveredUnlessOff(p, c) ==
    /\ ~c.disabled
    /\ \/ cmdHas(c, p.arg) \/ parserIs(c, p.arg) \/ toolOrCmd(c, p.arg)
       \/ c.dir = p.arg /\ parserIs(c, "npm-audit")

\* An audit of one language passes for that of another.
coveredByAnyAudit(p, c) ==
    CASE p.by = "command" -> cmdHas(c, p.arg)
      [] p.by = "parser"  -> parserIs(c, p.arg)
      [] p.by = "tool"    -> toolOrCmd(c, p.arg) \/ cmdHas(c, "audit")
      [] p.by = "node"    -> c.dir = p.arg /\ (parserIs(c, "npm-audit") \/ cmdHas(c, "audit"))

\* Whether check c does the job of proposal p, whatever its key, enabled or not.
covered(p, c) ==
    CASE p.by = "command" -> cmdHas(c, p.arg)
      [] p.by = "parser"  -> parserIs(c, p.arg)
      [] p.by = "tool"    -> toolOrCmd(c, p.arg)
      [] p.by = "node"    -> c.dir = p.arg /\ (parserIs(c, "npm-audit") \/ cmdHas(c, "audit"))

Missing(checks, s) == {p \in proposalsFor(s) : \A c \in checks : ~covered(p, c)}

\* Directories are not looked at.
auditConfigMissingOnly(checks, missing, files) ==
    {p.def.key : p \in {m \in missing : m.required}}

\* The failures of auditConfig: a required job nobody does, a check that runs in
\* a directory that is gone.  (Tools, documents and evidence only warn.)
auditConfig(checks, missing, files) ==
    {p.def.key : p \in {m \in missing : m.required}} \cup
    {c.key : c \in {d \in checks : ~d.disabled /\ ~DirExists(d.dir, files)}}

\* The exit code of --check: failures count, warnings do not.
reportCheck(failures) == IF failures = {} THEN 0 ELSE 1

-----------------------------------------------------------------------------
(* The merge *)

Empty == [checks |-> {}, docs |-> {}, standards |-> "absent", unknown |-> FALSE]

\* Existing checks are written back as far as this program knows their fields,
\* new ones are appended; documents are recorded when there are any; the rest
\* of the file is copied.
Merge(existing, add, found) ==
    [checks    |-> {[c EXCEPT !.extra = FALSE] : c \in existing.checks} \cup {p.def : p \in add},
     docs      |-> IF found # {} THEN found ELSE existing.docs,
     standards |-> IF existing.standards = "absent" THEN "empty" ELSE existing.standards,
     unknown   |-> existing.unknown]

\* What people wrote about a check, apart from what may change of it.
Plain(c) == [c EXCEPT !.disabled = FALSE, !.extra = FALSE]

\* Edits that are not about one check.
Authored == <<"authored", "standards">>
Worked   == <<"worked", "tasks">>

Options == [dryRun : BOOLEAN, check : BOOLEAN, force : BOOLEAN]

\* The command's options; what it read, and once it has merged, what it writes;
\* the edits it read; whether nothing changed meanwhile; whether there were no tasks.
NoJob     == [opts |-> [dryRun |-> FALSE, check |-> FALSE, force |-> FALSE],
              cfg |-> Empty, known |-> {}, quiet |-> FALSE, seed |-> FALSE]
NoVerdict == [code |-> 1, checks |-> {}, files |-> {}]

Init == /\ project \in SUBSET Files /\ docs = {}
        /\ config = Absent /\ tasks = Absent
        /\ pc = "idle" /\ job = NoJob
        /\ gate = NoVerdict
        /\ edits = {} /\ settled = FALSE
        /\ changes = 0 /\ inits = 0 /\ crashes = 0

-----------------------------------------------------------------------------
(* The command *)

Finish == pc' = "idle" /\ job' = NoJob

\* runInit up to the detection.  A file that does not parse is an error unless
\* it is ignored (--force); --check needs a file.
ReadConfig(opts) ==
    /\ pc = "idle" /\ inits < MaxInits
    /\ inits' = inits + 1 /\ gate' = NoVerdict
    /\ IF (config = Torn /\ ~opts.force) \/ (config = Absent /\ opts.check)
       THEN Finish
       ELSE /\ pc' = "detect"
            /\ job' = [opts  |-> opts,
                       cfg   |-> IF opts.force \/ config = Absent THEN Empty ELSE config,
                       known |-> IF opts.force THEN {} ELSE edits,
                       quiet |-> TRUE,
                       seed  |-> FALSE]
    /\ UNCHANGED <<project, docs, config, tasks, edits, settled, changes, crashes>>

\* Detect the stack and decide what to add.  --check ends here with its verdict;
\* --dry-run reports and writes nothing.
Detect ==
    /\ pc = "detect"
    /\ LET old == job.cfg.checks
           add == Missing(old, detectStack(project))
       IN  \/ /\ job.opts.check
              /\ gate' = [code   |-> reportCheck(auditConfig(old, add, project)),
                          checks |-> old, files |-> project]
              /\ Finish
           \/ /\ ~job.opts.check /\ job.opts.dryRun
              /\ Finish /\ UNCHANGED gate
           \/ /\ ~job.opts.check /\ ~job.opts.dryRun
              /\ job' = [job EXCEPT !.cfg = Merge(@, add, docs), !.seed = (tasks = Absent)]
              /\ pc' = "openconfig" /\ UNCHANGED gate
    /\ UNCHANGED <<project, docs, config, tasks, edits, settled, changes, inits, crashes>>

\* os.WriteFile empties config.json.  What people saved after the command read
\* it, and with --force all they wrote, is gone.
OpenConfig ==
    /\ pc = "openconfig"
    /\ config' = Torn /\ pc' = "writeconfig"
    /\ edits' = edits \cap (job.known \cup {Worked})
    /\ settled' = FALSE
    /\ UNCHANGED <<project, docs, tasks, job, gate, changes, inits, crashes>>

WriteConfig ==
    /\ pc = "writeconfig"
    /\ config' = job.cfg
    /\ pc' = IF job.seed THEN "opentasks" ELSE "exit"
    /\ UNCHANGED <<project, docs, tasks, job, gate, edits, settled, changes, inits, crashes>>

\* tasks.json is seeded when there was none, as seen before the configuration
\* was written.
OpenTasks ==
    /\ pc = "opentasks"
    /\ tasks' = Torn /\ pc' = "writetasks"
    /\ edits' = edits \ {Worked}
    /\ UNCHANGED <<project, docs, config, job, gate, settled, changes, inits, crashes>>

WriteTasks ==
    /\ pc = "writetasks"
    /\ tasks' = "baseline" /\ pc' = "exit"
    /\ UNCHANGED <<project, docs, config, job, gate, edits, settled, changes, inits, crashes>>

Exit ==
    /\ pc = "exit"
    /\ Finish
    /\ settled' = job.quiet
    /\ UNCHANGED <<project, docs, config, tasks, gate, edits, changes, inits, crashes>>

\* The process dies, or a write fails, where it stands.  A file that was being
\* written is Torn for good.
Die ==
    /\ pc # "idle" /\ crashes < MaxCrashes
    /\ crashes' = crashes + 1
    /\ Finish
    /\ edits' = IF config = Torn THEN edits \cap {Worked} ELSE edits
    /\ UNCHANGED <<project, docs, config, tasks, gate, settled, changes, inits>>

-----------------------------------------------------------------------------
(* People, at any time: they change the project and edit the two files. *)

Changed == /\ changes < MaxChanges /\ changes' = changes + 1
           /\ settled' = FALSE
           /\ job' = IF pc = "idle" THEN job ELSE [job EXCEPT !.quiet = FALSE]
           /\ UNCHANGED <<pc, gate, inits, crashes>>

AddFile(f)    == /\ f \notin project /\ project' = project \cup {f} /\ Changed
                 /\ UNCHANGED <<docs, config, tasks, edits>>
RemoveFile(f) == /\ f \in project /\ project' = project \ {f} /\ Changed
                 /\ UNCHANGED <<docs, config, tasks, edits>>
AddDoc(d)     == /\ d \notin docs /\ docs' = docs \cup {d} /\ Changed
                 /\ UNCHANGED <<project, config, tasks, edits>>

Readable == config \notin {Absent, Torn}

\* Save config.json as `new`, and remember what the file now owes to people.
Save(new, owed) == /\ Readable /\ config' = new /\ edits' = owed /\ Changed
                   /\ UNCHANGED <<project, docs, tasks>>

AddCheck(c) == /\ Readable /\ \A d \in config.checks : Plain(d) # Plain(c)
               /\ Save([config EXCEPT !.checks = @ \cup {c}], edits \cup {<<"check", Plain(c)>>})

DisableCheck(c) == /\ Readable /\ ~c.disabled
                   /\ Save([config EXCEPT !.checks = (@ \ {c}) \cup {[c EXCEPT !.disabled = TRUE]}],
                           edits \cup {<<"off", Plain(c)>>})

RemoveCheck(c) == /\ Readable
                  /\ Save([config EXCEPT !.checks = @ \ {c}],
                          edits \ {<<what, Plain(c)>> : what \in {"check", "off"}})

\* The agent writes the standards with their evidence, and an app adds a key.
Author == /\ Readable /\ Authored \notin edits
          /\ Save([config EXCEPT !.standards = "authored", !.unknown = TRUE], edits \cup {Authored})

WorkOnTasks == /\ tasks \in {Absent, "baseline"}
               /\ tasks' = "worked" /\ edits' = edits \cup {Worked} /\ Changed
               /\ UNCHANGED <<project, docs, config>>

Next == \/ \E opts \in Options : ReadConfig(opts)
        \/ Detect \/ OpenConfig \/ WriteConfig \/ OpenTasks \/ WriteTasks \/ Exit \/ Die
        \/ \E f \in Files : AddFile(f) \/ RemoveFile(f)
        \/ \E d \in Docs : AddDoc(d)
        \/ \E c \in HandChecks : AddCheck(c)
        \/ Readable /\ \E c \in config.checks : DisableCheck(c) \/ RemoveCheck(c)
        \/ Author \/ WorkOnTasks

Spec == Init /\ [][Next]_vars

-----------------------------------------------------------------------------
(* Properties *)

Edits == ({"check", "off"} \X Checks) \cup {Authored, Worked}

TypeOK ==
    /\ project \subseteq Files /\ docs \subseteq Docs
    /\ config \in Configs \cup {Absent, Torn}
    /\ tasks \in {Absent, Torn, "baseline", "worked"}
    /\ pc \in {"idle", "detect", "openconfig", "writeconfig", "opentasks", "writetasks", "exit"}
    /\ job \in [opts : Options, cfg : Configs, known : SUBSET Edits, quiet : BOOLEAN, seed : BOOLEAN]
    /\ gate \in [code : {0, 1}, checks : SUBSET Checks, files : SUBSET Files]
    /\ edits \subseteq Edits /\ settled \in BOOLEAN
    /\ changes \in Nat /\ inits \in Nat /\ crashes \in Nat

\* What people put into the files stays there through every re-run, crashes
\* included: their checks, their evidence, keys this program does not know, a
\* check they turned off (no enabled check takes its place), the tasks they
\* worked on.  The files stop owing an edit in three ways only: the edit was
\* saved after a running command had read the file, --force was given, or the
\* command died between emptying the file and writing it.
EditsKept ==
    /\ Readable =>
         /\ \A c \in HandChecks : <<"check", Plain(c)>> \in edits =>
               \E d \in config.checks : Plain(d) = Plain(c)
         /\ \A d \in config.checks : <<"off", Plain(d)>> \in edits => d.disabled
         /\ Authored \in edits => config.standards = "authored" /\ config.unknown
    /\ Worked \in edits => tasks = "worked"
    /\ config = Torn /\ pc = "idle" => edits \subseteq {Worked}

\* After an init that nothing disturbed the files are at rest: every proposal is
\* covered by what was just written, the documents are on record, there are
\* tasks, and one more init would write the same file again.
InitSettles ==
    settled => /\ Missing(config.checks, detectStack(project)) = {}
               /\ docs \subseteq config.docs
               /\ Merge(config, {}, docs) = config
               /\ tasks # Absent

\* What must be in a command, and which tools must be declared or run, for what is in
\* the project to be looked at: the required jobs, per file and not per language.
Seen(files) == {f \in files : f.dir \notin SkipDirs}

NeededCommands(files) ==
    UNION {CASE f.name = "go.mod"     -> {"go build", "go vet", "go test"}
             [] f.name = "Cargo.toml" -> {"cargo audit"}
             [] OTHER                 -> {} : f \in Seen(files)}

NeededTools(files) ==
    {"gitleaks"} \cup
    UNION {CASE f.name = "go.mod"                                         -> {"govulncheck"}
             [] f.name \in {"pyproject.toml", "requirements.txt", "Pipfile"} -> {"pip-audit"}
             [] f.name = "composer.json"                                  -> {"composer"}
             [] f.name = "Gemfile"                                        -> {"bundler-audit"}
             [] f.name \in {"pom.xml", "build.gradle", "build.gradle.kts"} -> {"osv-scanner"}
             [] OTHER                                                     -> {} : f \in Seen(files)}

NodeDirs(files) == {f.dir : f \in {g \in Seen(files) : g.name = "package.json"}}

\* What a check declares or runs.
Names(c) == {c.tool, c.parser} \cup c.command

\* When `init --check` exits 0, every job required for the project it looked at has a
\* check for it in the configuration it looked at, enabled or turned off on purpose,
\* for every language; every Node project has an audit of some kind in its own
\* directory, on or off; and every enabled check has a directory to run in.  Whether
\* a check runs what it declares, and whether the audit is one of Node packages, is
\* not looked at (NodeAudited).
CheckSeesHoles ==
    gate.code = 0 =>
      /\ \A word \in NeededCommands(gate.files) : \E c \in gate.checks : word \in c.command
      /\ \A tool \in NeededTools(gate.files) : \E c \in gate.checks : tool \in Names(c)
      /\ \A dir \in NodeDirs(gate.files) :
            \E c \in gate.checks : c.dir = dir /\ {"audit", "npm-audit"} \cap Names(c) # {}
      /\ \A c \in gate.checks : ~c.disabled => DirExists(c.dir, gate.files)

\* "absent => a real coverage hole (fails --check)": when --check exits 0, the
\* packages of every Node project are audited by a Node package manager.
NodeAudited ==
    gate.code = 0 =>
      \A dir \in NodeDirs(gate.files) : \E c \in gate.checks : c.dir = dir /\ "npm" \in c.command
================================================================================
