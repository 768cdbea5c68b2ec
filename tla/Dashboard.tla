------------------------------- MODULE Dashboard -------------------------------
(***************************************************************************)
(* cmd/security-dashboard: the commands `scan`, `render` and `task done`,  *)
(* which share the files of the directory security/ without any lock: one  *)
(* manifest per run, tasks.json, badge.svg and dashboard.html.             *)
(*                                                                         *)
(* os.WriteFile and os.Create truncate a file before they write it, so a   *)
(* file is Torn between the two steps, and stays so after a crash there.   *)
(* One clock serves the seconds of run ids and the days of tasks.          *)
(***************************************************************************)
EXTENDS Integers, Sequences, FiniteSets, FiniteSetsExt

CONSTANTS Procs,        \* processes that run commands
          Configs,      \* what config.json may hold when it is read, since people edit
                        \* it: sequences of checks (parser, gating, probed, disabled),
                        \* or Torn when it does not parse
          InitTasks,    \* tasks.json at the start: task id -> task
          TaskIds,      \* ids given to `task done`, known or not
          DueSoonDays,  \* dueSoonDays, scaled down
          None, Bad,    \* a date that is absent, a date that is unreadable
          Torn,         \* a file that was truncated and not yet written
          MaxClock,     \* bound: time
          MaxAhead,     \* bound: how far ahead a date given to `task done` may lie
          MaxCommands,  \* bound: commands started
          MaxCrashes    \* bound: commands that die

Parsers  == {"exit", "gotest", "govulncheck", "gitleaks", "gosec-json", "semgrep-json",
             "sarif", "npm-audit", "eslint-json", "vitest-json"}
Statuses == {"pass", "fail", "warn", "skipped", "error"}

Checks   == [parser : Parsers, gating : BOOLEAN, probed : BOOLEAN, disabled : BOOLEAN]
Result   == [status : Statuses, gating : BOOLEAN, parser : Parsers,
             failed : BOOLEAN, severe : BOOLEAN]
Results  == Seq(Result)
Runs     == [id : Nat, results : Results]
Dates    == Int \cup {None, Bad}
Task     == [status : {"", "pending", "in-progress", "automated", "waived", "blocked"},
             lastRun : Dates, nextDue : Dates, cadenceDays : Nat, intervalDays : Nat]
Tasks    == [DOMAIN InitTasks -> Task]
Postures == {"none", "green", "amber", "red"}
Pages    == [latest : Runs, posture : Postures, tasks : Tasks \cup {<<>>}, day : Nat,
             summary : {"ok", "warn", "bad"}]

ASSUME DashboardAssumption ==
    /\ Configs \subseteq {Torn} \cup Seq(Checks)
    /\ {DueSoonDays, MaxClock, MaxAhead, MaxCommands, MaxCrashes} \subseteq Nat
    /\ InitTasks \in Tasks /\ DOMAIN InitTasks \subseteq TaskIds
    /\ None \notin Int /\ Bad \notin Int /\ None # Bad
    /\ Torn \notin Results \cup Tasks \cup Pages

VARIABLES
    clock,
    runs,      \* runs/<id>.json: id -> results of the checks, or Torn
    tasks,     \* tasks.json: task id -> task, or Torn
    badge,     \* badge.svg: a posture, or Torn
    page,      \* dashboard.html: what it shows, or Torn
    pc, job,   \* per process: where it is, and the data of its command
    exit,      \* per process: how its last command ended
    alone,     \* history, per process: no other command overlapped its command
    recorded,  \* history: task id -> date of the last completion reported
    raced,     \* history: tasks.json was written from a copy that was stale
    commands, crashes

files   == <<runs, tasks, badge, page>>
history == <<alone, recorded, raced>>
vars    == <<clock, files, pc, job, exit, history, commands, crashes>>

NoRun  == [id |-> 0, results |-> <<>>]
NoPage == [latest |-> NoRun, posture |-> "none", tasks |-> <<>>, day |-> 0, summary |-> "ok"]
NoExit == [code |-> 0, results |-> <<>>]

\* The arguments and local variables of a command.
NoJob  == [cmd |-> "none", task |-> None, date |-> Bad, checks |-> <<>>, id |-> 0,
           results |-> <<>>, copy |-> <<>>, latest |-> NoRun, shown |-> NoPage]

-----------------------------------------------------------------------------
(* Checks.  A tool ends with a code and a report: nothing found, minor or    *)
(* severe findings, a JSON object that is not its report at all (npm audit   *)
(* without a lockfile prints {"error": ...}), or text that does not parse.   *)

NotInstalled == [exit |-> 127, report |-> "none"]
Outcomes(c) ==
    (IF c.probed THEN {NotInstalled} ELSE {}) \cup
    [exit   : {0, 1},
     report : IF c.parser \in {"exit", "gotest"} THEN {"none"}
              ELSE {"clean", "minor", "severe", "foreign", "garbled"}]

Found(tool) == tool.report \in {"minor", "severe"}

\* countJSONArray and npmAuditCounts read a field that is missing as zero findings;
\* the other JSON parsers refuse an object without their fields.
CountsMissing == {"gosec-json", "semgrep-json", "npm-audit"}

parseResult(parser, tool) ==
    CASE parser \in {"exit", "gotest"} -> IF tool.exit = 0 THEN "pass" ELSE "fail"
      [] parser = "govulncheck" -> IF Found(tool) THEN "fail" ELSE "pass"
      [] parser = "gitleaks" -> IF Found(tool) \/ tool.exit # 0 THEN "fail" ELSE "pass"
      [] OTHER -> IF tool.report = "garbled" THEN "error"
                  ELSE IF tool.report = "foreign"
                       THEN IF parser \in CountsMissing THEN "pass" ELSE "error"
                  ELSE IF tool.report = "clean" THEN "pass"
                  ELSE IF parser \in {"gosec-json", "semgrep-json"} THEN "warn"
                  ELSE IF parser = "vitest-json" \/ tool.report = "severe" THEN "fail"
                  ELSE "warn"

\* The tool failed, and not because of findings it reported: it left no report, or it
\* is a test runner (vitest also exits 1 for a suite that does not load, with no test
\* failed).  Scanners exit 1 after a good report, too, for the findings in it.
Failed(c, tool) ==
    tool.exit = 1 /\ (tool.report \in {"none", "foreign", "garbled"} \/ c.parser = "vitest-json")

runCheck(c, tool) ==
    [status |-> IF tool = NotInstalled THEN "skipped" ELSE parseResult(c.parser, tool),
     gating |-> c.gating, parser |-> c.parser,
     failed |-> Failed(c, tool), severe |-> tool.report = "severe"]

\* A check that could not be parsed is not counted as failed.
tallyFailsOnly(results) == {i \in DOMAIN results : results[i].status = "fail"}

\* tally: the checks counted as failed.
tally(results) == {i \in DOMAIN results : results[i].status \in {"fail", "error"}}

GatingFail(results) == {i \in tally(results) : results[i].gating}

posture(run) ==
    IF run = NoRun THEN "none"
    ELSE IF GatingFail(run.results) # {} THEN "red"
    ELSE IF \E i \in DOMAIN run.results : run.results[i].status # "pass" THEN "amber"
    ELSE "green"

-----------------------------------------------------------------------------
(* Manual tasks                                                              *)

\* The interval of a task: intervalDays, else what its cadence says; 0 is none.
Interval(t) == IF t.intervalDays > 0 THEN t.intervalDays ELSE t.cadenceDays

Due(t) == IF t.nextDue # None THEN t.nextDue ELSE t.lastRun + Interval(t)

taskStatus(t, today) ==
    IF t.status \in {"automated", "waived", "blocked"} THEN t.status
    ELSE IF t.lastRun = None THEN "never"
    ELSE IF Bad \in {t.lastRun, t.nextDue} THEN "unknown"
    ELSE IF t.nextDue = None /\ Interval(t) = 0 THEN "event"
    ELSE IF Due(t) < today THEN "overdue"
    ELSE IF Due(t) - today <= DueSoonDays THEN "due-soon" ELSE "current"

\* Tasks that were never run are left out of the verdict.
summarizeTasksRun(file, today) ==
    LET states == {taskStatus(file[t], today) : t \in DOMAIN file}
    IN  IF states \cap {"overdue", "blocked"} # {} THEN "bad"
        ELSE IF "due-soon" \in states THEN "warn" ELSE "ok"

\* summarizeTasks: the class of the one-line verdict on all tasks.  A date that is
\* unreadable is not counted.
summarizeTasks(file, today) ==
    LET states == {taskStatus(file[t], today) : t \in DOMAIN file}
    IN  IF states \cap {"overdue", "blocked", "never"} # {} THEN "bad"
        ELSE IF "due-soon" \in states THEN "warn" ELSE "ok"

isPlaceholderStatus(status) == status \in {"", "pending", "in-progress"}

\* The date given is ignored.
DoneToday(t, date) == [t EXCEPT !.lastRun = clock,
                                !.nextDue = None,
                                !.status = IF isPlaceholderStatus(@) THEN "" ELSE @]

\* The date agreed on for this one time stays after it was met.
DoneKeepsDue(t, date) == [t EXCEPT !.lastRun = date,
                                   !.status = IF isPlaceholderStatus(@) THEN "" ELSE @]

Done(t, date) == [t EXCEPT !.lastRun = date,
                           !.nextDue = None,
                           !.status = IF isPlaceholderStatus(@) THEN "" ELSE @]

-----------------------------------------------------------------------------
Init == /\ clock = 1
        /\ runs = <<>> /\ tasks = InitTasks /\ badge = "none"
        /\ page = [latest |-> NoRun, posture |-> "none", tasks |-> InitTasks, day |-> 1,
                    summary |-> summarizeTasks(InitTasks, 1)]
        /\ pc = [p \in Procs |-> "idle"] /\ job = [p \in Procs |-> NoJob]
        /\ exit = [p \in Procs |-> NoExit]
        /\ alone = [p \in Procs |-> TRUE]
        /\ recorded = [t \in DOMAIN InitTasks |-> InitTasks[t].lastRun]
        /\ raced = FALSE /\ commands = 0 /\ crashes = 0

Goto(p, label) == pc' = [pc EXCEPT ![p] = label]

Tick == /\ clock < MaxClock
        /\ clock' = clock + 1
        /\ UNCHANGED <<files, pc, job, exit, history, commands, crashes>>

Begin(p, label, j) ==
    /\ pc[p] = "idle" /\ commands < MaxCommands
    /\ commands' = commands + 1
    /\ Goto(p, label)
    /\ job' = [job EXCEPT ![p] = j]
    /\ exit' = [exit EXCEPT ![p] = NoExit]
    /\ alone' = [q \in Procs |-> IF q = p THEN \A r \in Procs : pc[r] = "idle"
                                          ELSE alone[q] /\ pc[q] = "idle"]
    /\ UNCHANGED <<clock, files, recorded, raced, crashes>>

StartScan(p)   == Begin(p, "config", [NoJob EXCEPT !.cmd = "scan"])
StartRender(p) == Begin(p, "config", [NoJob EXCEPT !.cmd = "render"])
StartTask(p)   == \E t \in TaskIds, d \in 0..(clock + MaxAhead) \cup {Bad} :
                    Begin(p, "readtasks", [NoJob EXCEPT !.cmd = "task", !.task = t, !.date = d])

Finish(p, code) ==
    /\ Goto(p, "idle")
    /\ job' = [job EXCEPT ![p] = NoJob]
    /\ exit' = [exit EXCEPT ![p] = [code |-> code, results |-> job[p].results]]

\* loadConfig: the first step of `scan` and `render`, and of `task done` the one after
\* the completion is recorded.  The id of a run is the second its checks start in.
LoadConfig(p) ==
    /\ pc[p] = "config"
    /\ \E checks \in Configs :
         CASE checks = Torn -> Finish(p, 1)
           [] checks # Torn /\ job[p].cmd = "scan" ->
                /\ job' = [job EXCEPT ![p].id = clock, ![p].checks = checks]
                /\ Goto(p, "checks") /\ UNCHANGED exit
           [] OTHER -> Goto(p, "loadruns") /\ UNCHANGED <<job, exit>>
    /\ UNCHANGED <<clock, files, history, commands, crashes>>

\* performScan: one round of its loop, or its end.  Checks turned off are passed over.
RunCheck(p) ==
    /\ pc[p] = "checks"
    /\ LET left == job[p].checks
       IN  \/ /\ left = <<>>
              /\ Goto(p, "openrun") /\ UNCHANGED job
           \/ /\ left # <<>> /\ Head(left).disabled
              /\ job' = [job EXCEPT ![p].checks = Tail(left)]
              /\ UNCHANGED pc
           \/ /\ left # <<>> /\ ~Head(left).disabled
              /\ \E tool \in Outcomes(Head(left)) :
                   job' = [job EXCEPT ![p].checks  = Tail(left),
                                      ![p].results = Append(@, runCheck(Head(left), tool))]
              /\ UNCHANGED pc
    /\ UNCHANGED <<clock, files, exit, history, commands, crashes>>

\* markTaskDone up to its write: a date that is unreadable, a file that does not
\* parse, and an unknown id are errors.
ReadTasks(p) ==
    /\ pc[p] = "readtasks"
    /\ IF job[p].date = Bad \/ tasks = Torn THEN Finish(p, 1)
       ELSE IF job[p].task \notin DOMAIN tasks THEN Finish(p, 1)
       ELSE /\ job' = [job EXCEPT ![p].copy = [tasks EXCEPT ![job[p].task] = Done(@, job[p].date)]]
            /\ Goto(p, "opentasks")
            /\ UNCHANGED exit
    /\ UNCHANGED <<clock, files, history, commands, crashes>>

\* runs/<id>.json of the command of p now holds `content`.
SaveRun(p, content) ==
    runs' = [id \in DOMAIN runs \cup {job[p].id} |-> IF id = job[p].id THEN content ELSE runs[id]]

OpenRun(p) ==
    /\ pc[p] = "openrun"
    /\ SaveRun(p, Torn)
    /\ Goto(p, "writerun")
    /\ UNCHANGED <<clock, tasks, badge, page, job, exit, history, commands, crashes>>

WriteRun(p) ==
    /\ pc[p] = "writerun"
    /\ SaveRun(p, job[p].results)
    /\ Goto(p, "loadruns")
    /\ UNCHANGED <<clock, tasks, badge, page, job, exit, history, commands, crashes>>

OpenTasks(p) ==
    /\ pc[p] = "opentasks"
    /\ tasks' = Torn
    /\ Goto(p, "writetasks")
    /\ UNCHANGED <<clock, runs, badge, page, job, exit, history, commands, crashes>>

\* Another process that has read tasks.json holds a copy that is stale now.
WriteTasks(p) ==
    /\ pc[p] = "writetasks"
    /\ tasks' = job[p].copy
    /\ recorded' = [recorded EXCEPT ![job[p].task] = job[p].date]
    /\ raced' = (raced \/ \E q \in Procs \ {p} : pc[q] \in {"opentasks", "writetasks"})
    /\ Goto(p, "config")
    /\ UNCHANGED <<clock, runs, badge, page, job, exit, alone, commands, crashes>>

-----------------------------------------------------------------------------
(* render                                                                    *)

Whole == {id \in DOMAIN runs : runs[id] # Torn}

\* The oldest run comes first.
LatestOldest == IF Whole = {} THEN NoRun ELSE [id |-> Min(Whole), results |-> runs[Min(Whole)]]

\* loadRuns()[0]: manifests that do not parse are passed over.
Latest == IF Whole = {} THEN NoRun ELSE [id |-> Max(Whole), results |-> runs[Max(Whole)]]

LoadRuns(p) ==
    /\ pc[p] = "loadruns"
    /\ job' = [job EXCEPT ![p].latest = Latest]
    /\ Goto(p, "loadtasks")
    /\ UNCHANGED <<clock, files, exit, history, commands, crashes>>

\* loadTasks ignores a file that does not parse: the page shows no task.
LoadTasks(p) ==
    /\ pc[p] = "loadtasks"
    /\ LET read == IF tasks = Torn THEN <<>> ELSE tasks
       IN  job' = [job EXCEPT ![p].shown =
                     [latest |-> job[p].latest, posture |-> posture(job[p].latest),
                      tasks |-> read, day |-> clock, summary |-> summarizeTasks(read, clock)]]
    /\ Goto(p, "openbadge")
    /\ UNCHANGED <<clock, files, exit, history, commands, crashes>>

OpenBadge(p) ==
    /\ pc[p] = "openbadge"
    /\ badge' = Torn
    /\ Goto(p, "writebadge")
    /\ UNCHANGED <<clock, runs, tasks, page, job, exit, history, commands, crashes>>

writeBadge(p) ==
    /\ pc[p] = "writebadge"
    /\ badge' = job[p].shown.posture
    /\ Goto(p, "openpage")
    /\ UNCHANGED <<clock, runs, tasks, page, job, exit, history, commands, crashes>>

OpenPage(p) ==
    /\ pc[p] = "openpage"
    /\ page' = Torn
    /\ Goto(p, "writepage")
    /\ UNCHANGED <<clock, runs, tasks, badge, job, exit, history, commands, crashes>>

WritePage(p) ==
    /\ pc[p] = "writepage"
    /\ page' = job[p].shown
    /\ Goto(p, "exit")
    /\ UNCHANGED <<clock, runs, tasks, badge, job, exit, history, commands, crashes>>

\* The exit code of a scan is its gate; it is decided after the page is written.
Exit(p) ==
    /\ pc[p] = "exit"
    /\ Finish(p, IF job[p].cmd = "scan" /\ GatingFail(job[p].results) # {} THEN 1 ELSE 0)
    /\ UNCHANGED <<clock, files, history, commands, crashes>>

\* The process is killed, or a read or write fails and it exits 1.
Die(p) ==
    /\ pc[p] # "idle" /\ crashes < MaxCrashes
    /\ crashes' = crashes + 1
    /\ Finish(p, 1)
    /\ UNCHANGED <<clock, files, history, commands>>

Command(p) ==
    \/ StartScan(p) \/ StartRender(p) \/ StartTask(p)
    \/ LoadConfig(p) \/ RunCheck(p) \/ OpenRun(p) \/ WriteRun(p)
    \/ ReadTasks(p) \/ OpenTasks(p) \/ WriteTasks(p)
    \/ LoadRuns(p) \/ LoadTasks(p)
    \/ OpenBadge(p) \/ writeBadge(p) \/ OpenPage(p) \/ WritePage(p)
    \/ Exit(p) \/ Die(p)

Next == Tick \/ \E p \in Procs : Command(p)

Spec == Init /\ [][Next]_vars

-----------------------------------------------------------------------------
(* Properties *)

Labels == {"idle", "config", "checks", "readtasks", "opentasks", "writetasks", "openrun", "writerun",
           "loadruns", "loadtasks", "openbadge", "writebadge", "openpage", "writepage", "exit"}

Jobs == [cmd : {"none", "scan", "render", "task"}, task : TaskIds \cup {None}, date : Dates,
         checks : Seq(Checks), id : Nat, results : Results, copy : Tasks \cup {<<>>},
         latest : Runs, shown : Pages]

TypeOK ==
    /\ clock \in Nat \ {0}
    /\ DOMAIN runs \subseteq 1..clock
    /\ \A id \in DOMAIN runs : runs[id] \in Results \cup {Torn}
    /\ tasks \in Tasks \cup {Torn}
    /\ badge \in Postures \cup {Torn}
    /\ page \in Pages \cup {Torn}
    /\ pc \in [Procs -> Labels] /\ job \in [Procs -> Jobs]
    /\ exit \in [Procs -> [code : {0, 1}, results : Results]]
    /\ alone \in [Procs -> BOOLEAN]
    /\ recorded \in [DOMAIN InitTasks -> Dates]
    /\ raced \in BOOLEAN
    /\ {commands, crashes} \subseteq Nat

\* The gate, whatever checks people make a gate of: a scan that exits 0 had no gating
\* check with severe findings, and none whose tool failed where the parser answers
\* for that.  The exceptions: gosec and semgrep grade no severity (gradeFindings), and
\* the parsers that are not strict believe what they find in the output.
StrictParsers == {"exit", "gotest", "gitleaks", "sarif", "eslint-json"}
GateHolds ==
    \A p \in Procs : exit[p].code = 0 =>
      \A i \in DOMAIN exit[p].results :
        LET r == exit[p].results[i]
        IN  r.gating => /\ r.severe => r.parser \in {"gosec-json", "semgrep-json"}
                        /\ r.failed => r.parser \notin StrictParsers

\* What the comments on parseResult say (checks.go:112, 123): where the output does not
\* answer, the exit code does, and output that is not a report is never a pass.  At the
\* least, a scan none of whose tools worked does not exit 0 with every check passed.
DeadScanNotGreen ==
    \A p \in Procs : (exit[p].code = 0 /\ exit[p].results # <<>>) =>
      \E i \in DOMAIN exit[p].results :
        ~exit[p].results[i].failed \/ exit[p].results[i].status # "pass"

\* A command that ran alone leaves a page and a badge that show what is on disk:
\* the newest whole run, a scan's own also when it failed the gate, and the tasks.
\* Earlier commands may have died at any step.
PageMatchesDisk ==
    \A p \in Procs : (pc[p] = "exit" /\ alone[p]) =>
      /\ page # Torn /\ badge = page.posture
      /\ \A id \in Whole : id <= page.latest.id
      /\ job[p].cmd = "scan" => page.latest = [id |-> job[p].id, results |-> job[p].results]
      /\ tasks # Torn => page.tasks = tasks

\* A completion that was recorded is in tasks.json with its date until the next
\* one of the same task, unless a stale copy was written over it or the file
\* was torn.
CompletionsKept ==
    (tasks # Torn /\ ~raced) => \A t \in DOMAIN tasks : tasks[t].lastRun = recorded[t]

\* After `task done`, run alone, the page shows the task as done: not as never
\* run, and not as overdue while its interval has not passed.
DoneShowsDone ==
    \A p \in Procs : (pc[p] = "exit" /\ alone[p] /\ job[p].cmd = "task") =>
      LET t     == page.tasks[job[p].task]
          state == taskStatus(t, page.day)
      IN  /\ state \notin {"never", "unknown"}
          /\ state = "overdue" => job[p].date + Interval(t) < page.day

\* The verdict on the tasks is not better than what people did: after a command that
\* ran alone a page that says all tasks are on schedule has, for every task people
\* still perform, a completion that was recorded and whose deadline, agreed on or
\* computed, had not passed that day.  A date that nobody can read is the exception:
\* such a task counts as on schedule.
SummaryHonest ==
    \A p \in Procs : (pc[p] = "exit" /\ alone[p] /\ tasks # Torn /\ ~raced
                       /\ page.summary = "ok") =>
      \A t \in DOMAIN tasks :
        \/ tasks[t].status \in {"automated", "waived"}
        \/ Bad \in {recorded[t], tasks[t].nextDue}
        \/ /\ recorded[t] # None
           /\ IF tasks[t].nextDue # None THEN tasks[t].nextDue >= page.day
              ELSE Interval(tasks[t]) > 0 => recorded[t] + Interval(tasks[t]) >= page.day
=============================================================================
