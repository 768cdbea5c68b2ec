----------------------------- MODULE Dashboard_proofs -----------------------------
(***************************************************************************)
(* Theorems about Dashboard, for every number of processes, commands and   *)
(* deaths, every tasks.json to start from, and every configuration people  *)
(* may write in between.                                                   *)
(***************************************************************************)
EXTENDS Dashboard, NaturalsInduction, WellFoundedInduction, TLAPS

\* Where a command is between two steps of the code.
Rendering == {"openbadge", "writebadge", "openpage", "writepage", "exit"}
Scanned   == {"loadruns", "loadtasks"} \cup Rendering
Scanning  == {"checks", "openrun", "writerun"}

\* What a command holds, whoever else runs: a scan its id, `task done` a copy of
\* tasks.json that has the completion, and is otherwise what was recorded unless
\* somebody wrote the file since.
JobInv(p) ==
    /\ pc[p] \in Scanning => job[p].cmd = "scan" /\ job[p].id \in 1..clock
    /\ pc[p] \in {"readtasks", "opentasks", "writetasks"} =>
         job[p].cmd = "task" /\ job[p].date \in Int \cup {Bad}
    /\ pc[p] \in {"opentasks", "writetasks"} =>
         /\ job[p].copy \in Tasks
         /\ job[p].task \in DOMAIN InitTasks
         /\ job[p].date \in Int
         /\ job[p].copy[job[p].task].nextDue = None
         /\ job[p].copy[job[p].task].lastRun = job[p].date
         /\ ~raced => \A t \in DOMAIN InitTasks :
                        t # job[p].task => job[p].copy[t].lastRun = recorded[t]

\* Nobody else is active while a command runs alone.
AloneInv ==
    \A p \in Procs : (alone[p] /\ pc[p] # "idle") => \A q \in Procs \ {p} : pc[q] = "idle"

\* A scan that runs alone has the newest run: no run is newer when it starts, and
\* nobody adds one.
OwnRun(p) ==
    /\ \A id \in DOMAIN runs : id <= job[p].id
    /\ pc[p] \in Scanned => job[p].id \in DOMAIN runs /\ runs[job[p].id] = job[p].results

\* `task done` that runs alone has its completion in the file.
OwnTask(p) ==
    /\ tasks \in Tasks
    /\ job[p].task \in DOMAIN InitTasks
    /\ job[p].date \in Int
    /\ tasks[job[p].task].nextDue = None
    /\ tasks[job[p].task].lastRun = job[p].date

\* A command that runs alone renders what is on disk.
OwnPage(p) ==
    /\ pc[p] \in {"loadtasks"} \cup Rendering => job[p].latest = Latest
    /\ pc[p] \in Rendering =>
         /\ job[p].shown.latest = Latest
         /\ tasks # Torn => /\ job[p].shown.tasks = tasks
                            /\ job[p].shown.summary = summarizeTasks(tasks, job[p].shown.day)
    /\ pc[p] \in {"openpage", "writepage", "exit"} => badge = job[p].shown.posture
    /\ pc[p] = "exit" => page = job[p].shown

DiskInv(p) ==
    (alone[p] /\ pc[p] # "idle") =>
      /\ (job[p].cmd = "scan" /\ pc[p] \in Scanning \cup Scanned) => OwnRun(p)
      /\ (job[p].cmd = "task" /\ pc[p] \in {"config"} \cup Scanned) => OwnTask(p)
      /\ OwnPage(p)

IInv == /\ TypeOK /\ CompletionsKept /\ AloneInv
        /\ \A p \in Procs : JobInv(p) /\ DiskInv(p)

-----------------------------------------------------------------------------
(* Operators *)

LEMMA Constants ==
  /\ None \notin Int /\ Bad \notin Int /\ None # Bad /\ None \in Dates /\ Bad \in Dates
  /\ InitTasks \in Tasks /\ Torn \notin Results /\ Torn \notin Tasks /\ Torn \notin Pages
  /\ <<>> \in Results /\ NoRun \in Runs
<1>1. <<>> \in Results /\ NoRun \in Runs
  BY DEF Results, NoRun, Runs
<1> QED BY <1>1, DashboardAssumption DEF Dates

LEMMA LeastNat ==
  ASSUME NEW S \in SUBSET Nat, NEW s \in S
  PROVE  \E m \in S : \A k \in S : m <= k
<1>1. IsWellFoundedOn(OpToRel(<, Nat), Nat)
  BY NatLessThanWellFounded
<1>2. PICK m \in S : \A k \in S : ~(<<k, m>> \in OpToRel(<, Nat))
  BY <1>1, WFMin, Zenon
<1>3. ASSUME NEW k \in S PROVE m <= k
  <2>1. k \in Nat /\ m \in Nat
    OBVIOUS
  <2>2. (k < m) => <<k, m>> \in OpToRel(<, Nat)
    BY <2>1 DEF OpToRel
  <2>3. ~(k < m)
    BY <1>2, <2>2, Zenon
  <2> QED BY <2>1, <2>3
<1> QED BY <1>3

\* A non-empty bounded set of numbers has a largest element.
LEMMA MaxIn ==
  ASSUME NEW n \in Nat, NEW S \in SUBSET (1..n), S # {}
  PROVE  Max(S) \in S /\ \A y \in S : y <= Max(S)
<1> DEFINE T == {k \in Nat : \A y \in S : y <= k}
<1>1. n \in T
  OBVIOUS
<1>2. PICK m \in T : \A k \in T : m <= k
  BY <1>1, LeastNat
<1>3. m \in S
  <2> SUFFICES ASSUME m \notin S PROVE FALSE
    OBVIOUS
  <2>1. PICK y \in S : TRUE
    OBVIOUS
  <2>2. \A z \in S : z <= m - 1
    BY <1>2
  <2>3. m - 1 \in Nat
    BY <2>1, <2>2
  <2>4. m - 1 \in T
    BY <2>2, <2>3
  <2> QED BY <1>2, <2>3, <2>4
<1>4. \E x \in S : \A y \in S : x >= y
  BY <1>2, <1>3
<1> QED BY <1>4 DEF Max

\* loadRuns()[0] is the newest run that parses.
LEMMA LatestIsNewest ==
  ASSUME TypeOK
  PROVE  /\ Latest \in Runs
         /\ \A id \in Whole : id <= Latest.id
         /\ Whole # {} => Latest = [id |-> Max(Whole), results |-> runs[Max(Whole)]]
                          /\ Max(Whole) \in Whole
<1>1. Whole \in SUBSET (1..clock) /\ clock \in Nat
  BY DEF TypeOK, Whole
<1>2. CASE Whole = {}
  BY <1>2, Constants DEF Latest
<1>3. CASE Whole # {}
  <2>1. Max(Whole) \in Whole /\ \A y \in Whole : y <= Max(Whole)
    BY <1>1, <1>3, MaxIn
  <2>2. runs[Max(Whole)] \in Results /\ Max(Whole) \in Nat
    BY <1>1, <2>1 DEF TypeOK, Whole
  <2>3. Latest = [id |-> Max(Whole), results |-> runs[Max(Whole)]]
    BY <1>3 DEF Latest
  <2> HIDE DEF Whole
  <2> QED BY <1>3, <2>1, <2>2, <2>3 DEF Runs
<1> QED BY <1>2, <1>3

\* A run that no other is newer than is the latest.
LEMMA LatestIsOwn ==
  ASSUME TypeOK, NEW n \in DOMAIN runs, runs[n] # Torn, \A id \in DOMAIN runs : id <= n
  PROVE  Latest = [id |-> n, results |-> runs[n]]
<1>1. n \in Whole /\ Whole \subseteq Nat /\ n \in Nat
  BY DEF Whole, TypeOK
<1>2. Max(Whole) \in Whole /\ Latest = [id |-> Max(Whole), results |-> runs[Max(Whole)]]
  BY <1>1, LatestIsNewest
<1>3. n <= Latest.id
  BY <1>1, LatestIsNewest
<1>4. Max(Whole) <= n
  BY <1>2 DEF Whole
<1>5. Max(Whole) = n
  BY <1>1, <1>2, <1>3, <1>4
<1> QED BY <1>2, <1>5

LEMMA Verdicts ==
  /\ \A run : posture(run) \in Postures
  /\ \A file, day : summarizeTasks(file, day) \in {"ok", "warn", "bad"}
BY DEF posture, Postures, summarizeTasks

\* A check is graded with one of the five statuses.
LEMMA Graded ==
  ASSUME NEW c \in Checks, NEW tool \in Outcomes(c)
  PROVE  runCheck(c, tool) \in Result
<1>1. c.gating \in BOOLEAN /\ c.parser \in Parsers
  BY DEF Checks
<1>2. Failed(c, tool) \in BOOLEAN /\ (tool.report = "severe") \in BOOLEAN
  BY Zenon DEF Failed
<1> DEFINE status == IF tool = NotInstalled THEN "skipped" ELSE parseResult(c.parser, tool)
           severe == tool.report = "severe"
<1>3. status \in Statuses
  BY DEF parseResult, Statuses
<1>4. severe \in BOOLEAN
  BY <1>2
<1> HIDE DEF status, severe
<1>5. [status |-> status, gating |-> c.gating, parser |-> c.parser,
       failed |-> Failed(c, tool), severe |-> severe] \in Result
  BY <1>1, <1>2, <1>3, <1>4 DEF Result
<1> QED BY <1>5 DEF runCheck, status, severe

\* What markTaskDone does to a task.
LEMMA DoneTask ==
  ASSUME NEW file \in Tasks, NEW t \in DOMAIN InitTasks, NEW date \in Int,
         NEW new, new = [file EXCEPT ![t] = Done(@, date)]
  PROVE  /\ new \in Tasks
         /\ new[t].lastRun = date /\ new[t].nextDue = None
         /\ \A u \in DOMAIN InitTasks : u # t => new[u] = file[u]
<1>1. file[t] \in Task
  BY DEF Tasks
<1> DEFINE done == Done(file[t], date)
<1>2. done \in Task /\ done.lastRun = date /\ done.nextDue = None
  BY <1>1, Constants DEF Task, Done, isPlaceholderStatus, Dates
<1> HIDE DEF done
<1>3. [file EXCEPT ![t] = done] \in Tasks
  BY <1>2 DEF Tasks
<1>4. [file EXCEPT ![t] = done][t] = done
  BY DEF Tasks
<1>5. \A u \in DOMAIN InitTasks : u # t => [file EXCEPT ![t] = done][u] = file[u]
  BY DEF Tasks
<1> QED BY <1>2, <1>3, <1>4, <1>5 DEF done

-----------------------------------------------------------------------------
(* Types *)

LEMMA NoJobTyped ==
  /\ NoJob \in Jobs /\ NoPage \in Pages
  /\ \A t \in TaskIds, d \in Int \cup {Bad} :
       [NoJob EXCEPT !.cmd = "task", !.task = t, !.date = d] \in Jobs
  /\ \A cmd \in {"scan", "render"} : [NoJob EXCEPT !.cmd = cmd] \in Jobs
<1>1. NoPage \in Pages
  BY Constants DEF NoPage, Pages, Postures
<1>2. <<>> \in Seq(Checks)
  OBVIOUS
<1>3. NoJob \in Jobs
  BY <1>1, <1>2, Constants DEF NoJob, Jobs
<1> QED BY <1>1, <1>3 DEF Jobs, Dates

LEMMA InitTyped == Init => TypeOK
<1> SUFFICES ASSUME Init PROVE TypeOK
  OBVIOUS
<1>1. page \in Pages
  BY Constants, Verdicts DEF Init, Pages, Postures
<1>2. exit \in [Procs -> [code : {0, 1}, results : Results]]
  BY Constants DEF Init, NoExit
<1>3. recorded \in [DOMAIN InitTasks -> Dates]
  BY Constants DEF Init, Tasks, Task
<1>4. pc \in [Procs -> Labels] /\ job \in [Procs -> Jobs]
  BY NoJobTyped DEF Init, Labels
<1>5. raced \in BOOLEAN /\ alone \in [Procs -> BOOLEAN]
  BY Zenon DEF Init
<1>6. clock \in Nat \ {0} /\ tasks \in Tasks \cup {Torn} /\ badge \in Postures \cup {Torn}
      /\ {commands, crashes} \subseteq Nat
  BY Constants DEF Init, Postures
<1>7. DOMAIN runs = {}
  BY DEF Init
<1> QED BY <1>1, <1>2, <1>3, <1>4, <1>5, <1>6, <1>7 DEF TypeOK

\* A command that ends, however it ends.
LEMMA FinishTyped ==
  ASSUME TypeOK, NEW p \in Procs, NEW code \in {0, 1}, Finish(p, code)
  PROVE  /\ pc' \in [Procs -> Labels] /\ job' \in [Procs -> Jobs]
         /\ exit' \in [Procs -> [code : {0, 1}, results : Results]]
<1>1. pc' \in [Procs -> Labels]
  BY DEF Finish, Goto, TypeOK, Labels
<1>2. job' \in [Procs -> Jobs]
  BY NoJobTyped DEF Finish, TypeOK
<1>3. job[p].results \in Results
  BY DEF TypeOK, Jobs
<1>4. exit' \in [Procs -> [code : {0, 1}, results : Results]]
  BY <1>3 DEF Finish, TypeOK
<1> QED BY <1>1, <1>2, <1>4

LEMMA BeginTyped ==
  ASSUME TypeOK, NEW p \in Procs, NEW label \in Labels, NEW j \in Jobs, Begin(p, label, j)
  PROVE  TypeOK'
<1>1. pc' \in [Procs -> Labels] /\ job' \in [Procs -> Jobs]
  BY DEF Begin, Goto, TypeOK
<1>2. exit' \in [Procs -> [code : {0, 1}, results : Results]]
  BY Constants DEF Begin, NoExit, TypeOK
<1>3. alone' \in [Procs -> BOOLEAN]
  BY Zenon DEF Begin, TypeOK
<1>4. raced' \in BOOLEAN
  BY DEF Begin, TypeOK
<1>5. commands' \in Nat /\ crashes' \in Nat
  BY DEF Begin, TypeOK
<1> QED BY <1>1, <1>2, <1>3, <1>4, <1>5 DEF TypeOK, Begin, files

LEMMA JobFields ==
  ASSUME NEW j \in Jobs
  PROVE  /\ \A v \in Seq(Checks) : [j EXCEPT !.checks = v] \in Jobs
         /\ \A v \in Seq(Checks), w \in Results : [j EXCEPT !.checks = v, !.results = w] \in Jobs
         /\ \A v \in Seq(Checks), w \in Nat : [j EXCEPT !.id = w, !.checks = v] \in Jobs
         /\ \A v \in Tasks : [j EXCEPT !.copy = v] \in Jobs
         /\ \A v \in Runs : [j EXCEPT !.latest = v] \in Jobs
         /\ \A v \in Pages : [j EXCEPT !.shown = v] \in Jobs
BY DEF Jobs

LEMMA RunCheckTyped ==
  ASSUME TypeOK, NEW p \in Procs, RunCheck(p)
  PROVE  /\ pc' \in [Procs -> Labels] /\ job' \in [Procs -> Jobs]
<1> DEFINE left == job[p].checks
<1>0. job[p] \in Jobs /\ left \in Seq(Checks) /\ job[p].results \in Results
  BY DEF TypeOK, Jobs
<1>1. CASE left = <<>>
  BY <1>1 DEF RunCheck, Goto, TypeOK, Labels
<1>2. CASE left # <<>> /\ Head(left).disabled
  <2>1. Tail(left) \in Seq(Checks)
    BY <1>0, <1>2
  <2>2. [job[p] EXCEPT !.checks = Tail(left)] \in Jobs
    BY <1>0, <2>1, JobFields
  <2>3. job' = [job EXCEPT ![p].checks = Tail(left)] /\ pc' = pc
    BY <1>2 DEF RunCheck
  <2> HIDE DEF left
  <2> QED BY <2>2, <2>3 DEF TypeOK
<1>3. CASE left # <<>> /\ ~Head(left).disabled
  <2>1. PICK tool \in Outcomes(Head(left)) :
          job' = [job EXCEPT ![p].checks  = Tail(left),
                             ![p].results = Append(@, runCheck(Head(left), tool))]
    BY <1>3 DEF RunCheck
  <2>2. Tail(left) \in Seq(Checks) /\ Head(left) \in Checks
    BY <1>0, <1>3
  <2>3. runCheck(Head(left), tool) \in Result
    BY <2>2, Graded
  <2> DEFINE results == Append(job[p].results, runCheck(Head(left), tool))
  <2>4. results \in Results
    BY <1>0, <2>3 DEF Results
  <2>5. job' = [job EXCEPT ![p].checks = Tail(left), ![p].results = results]
    BY <2>1
  <2> HIDE DEF results
  <2>6. job' \in [Procs -> Jobs]
    <3>1. [job[p] EXCEPT !.checks = Tail(left), !.results = results] \in Jobs
      BY <1>0, <2>2, <2>4, JobFields
    <3> QED BY <2>5, <3>1 DEF TypeOK
  <2>7. pc' = pc
    BY <1>3 DEF RunCheck
  <2> QED BY <2>6, <2>7 DEF TypeOK
<1> QED BY <1>1, <1>2, <1>3

\* Every step of a command preserves the types.
LEMMA CommandTyped ==
  ASSUME IInv, NEW p \in Procs, Command(p)
  PROVE  TypeOK'
<1> USE DEF files, history
<1>0. TypeOK /\ JobInv(p) /\ job[p] \in Jobs
  BY DEF IInv, TypeOK
<1>1. CASE StartScan(p) \/ StartRender(p) \/ StartTask(p)
  <2>1. CASE StartScan(p)
    BY <1>0, <2>1, NoJobTyped, BeginTyped DEF StartScan, Labels
  <2>2. CASE StartRender(p)
    BY <1>0, <2>2, NoJobTyped, BeginTyped DEF StartRender, Labels
  <2>3. CASE StartTask(p)
    <3>1. PICK t \in TaskIds, d \in 0..(clock + MaxAhead) \cup {Bad} :
            Begin(p, "readtasks", [NoJob EXCEPT !.cmd = "task", !.task = t, !.date = d])
      BY <2>3 DEF StartTask
    <3>2. d \in Int \cup {Bad}
      BY <1>0 DEF TypeOK
    <3>3. [NoJob EXCEPT !.cmd = "task", !.task = t, !.date = d] \in Jobs
      BY <3>2, NoJobTyped
    <3> QED BY <1>0, <3>1, <3>3, BeginTyped DEF Labels
  <2> QED BY <1>1, <2>1, <2>2, <2>3
<1>2. CASE LoadConfig(p)
  <2>1. PICK checks \in Configs :
          CASE checks = Torn -> Finish(p, 1)
            [] checks # Torn /\ job[p].cmd = "scan" ->
                 /\ job' = [job EXCEPT ![p].id = clock, ![p].checks = checks]
                 /\ Goto(p, "checks") /\ UNCHANGED exit
            [] OTHER -> Goto(p, "loadruns") /\ UNCHANGED <<job, exit>>
    BY <1>2 DEF LoadConfig
  <2>2. UNCHANGED <<clock, files, history, commands, crashes>>
    BY <1>2 DEF LoadConfig
  <2>3. pc' \in [Procs -> Labels] /\ job' \in [Procs -> Jobs]
        /\ exit' \in [Procs -> [code : {0, 1}, results : Results]]
    <3>1. CASE checks = Torn
      BY <1>0, <2>1, <3>1, FinishTyped
    <3>2. CASE checks # Torn /\ job[p].cmd = "scan"
      <4>1. checks \in Seq(Checks) /\ clock \in Nat
        BY <1>0, <3>2, DashboardAssumption DEF TypeOK
      <4>2. [job[p] EXCEPT !.id = clock, !.checks = checks] \in Jobs
        BY <1>0, <4>1, JobFields
      <4>3. job' = [job EXCEPT ![p].id = clock, ![p].checks = checks]
            /\ Goto(p, "checks") /\ UNCHANGED exit
        BY <2>1, <3>2
      <4> QED BY <1>0, <4>2, <4>3 DEF Goto, TypeOK, Labels
    <3>3. CASE checks # Torn /\ job[p].cmd # "scan"
      <4>1. Goto(p, "loadruns") /\ UNCHANGED <<job, exit>>
        BY <2>1, <3>3
      <4> QED BY <1>0, <4>1 DEF Goto, TypeOK, Labels
    <3> QED BY <3>1, <3>2, <3>3
  <2> QED BY <1>0, <2>2, <2>3 DEF TypeOK
<1>3. CASE RunCheck(p)
  BY <1>0, <1>3, RunCheckTyped DEF RunCheck, TypeOK
<1>4. CASE OpenRun(p) \/ WriteRun(p)
  <2>1. job[p].id \in 1..clock /\ job[p].results \in Results
    BY <1>0, <1>4 DEF JobInv, Scanning, OpenRun, WriteRun, Jobs
  <2>2. pc' \in [Procs -> Labels]
    BY <1>0, <1>4 DEF OpenRun, WriteRun, Goto, TypeOK, Labels
  <2>3. DOMAIN runs' \subseteq 1..clock /\ \A id \in DOMAIN runs' : runs'[id] \in Results \cup {Torn}
    BY <1>0, <1>4, <2>1 DEF OpenRun, WriteRun, SaveRun, TypeOK
  <2> QED BY <1>0, <1>4, <2>2, <2>3 DEF OpenRun, WriteRun, TypeOK
<1>5. CASE ReadTasks(p)
  <2>1. UNCHANGED <<clock, files, history, commands, crashes>>
    BY <1>5 DEF ReadTasks
  <2>2. pc' \in [Procs -> Labels] /\ job' \in [Procs -> Jobs]
        /\ exit' \in [Procs -> [code : {0, 1}, results : Results]]
    <3>1. CASE Finish(p, 1)
      BY <1>0, <3>1, FinishTyped
    <3>2. CASE /\ job[p].date # Bad /\ tasks # Torn /\ job[p].task \in DOMAIN tasks
               /\ job' = [job EXCEPT ![p].copy = [tasks EXCEPT ![job[p].task] = Done(@, job[p].date)]]
               /\ Goto(p, "opentasks") /\ UNCHANGED exit
      <4>1. tasks \in Tasks /\ DOMAIN tasks = DOMAIN InitTasks
        BY <1>0, <3>2 DEF TypeOK, Tasks
      <4> DEFINE copy == [tasks EXCEPT ![job[p].task] = Done(@, job[p].date)]
      <4>2. copy \in Tasks
        <5>1. job[p].date \in Int
          BY <1>0, <1>5, <3>2 DEF JobInv, ReadTasks
        <5>2. job[p].task \in DOMAIN InitTasks
          BY <3>2, <4>1
        <5> QED BY <4>1, <5>1, <5>2, DoneTask
      <4>3. [job[p] EXCEPT !.copy = copy] \in Jobs
        BY <1>0, <4>2, JobFields
      <4>4. job' = [job EXCEPT ![p].copy = copy]
        BY <3>2
      <4> HIDE DEF copy
      <4> QED BY <1>0, <3>2, <4>3, <4>4 DEF TypeOK, Goto, Labels
    <3> QED BY <1>5, <3>1, <3>2 DEF ReadTasks
  <2> QED BY <1>0, <2>1, <2>2 DEF TypeOK
<1>6. CASE OpenTasks(p)
  BY <1>0, <1>6 DEF OpenTasks, TypeOK, Goto, Labels
<1>7. CASE WriteTasks(p)
  <2>1. job[p].copy \in Tasks /\ job[p].task \in DOMAIN InitTasks /\ job[p].date \in Dates
    BY <1>0, <1>7 DEF JobInv, WriteTasks, Dates
  <2>2. raced' \in BOOLEAN
    BY <1>7, Zenon DEF WriteTasks
  <2>3. pc' \in [Procs -> Labels] /\ recorded' \in [DOMAIN InitTasks -> Dates] /\ tasks' \in Tasks
    BY <1>0, <1>7, <2>1 DEF WriteTasks, TypeOK, Goto, Labels
  <2> QED BY <1>0, <1>7, <2>2, <2>3 DEF WriteTasks, TypeOK
<1>8. CASE LoadRuns(p)
  <2>1. [job[p] EXCEPT !.latest = Latest] \in Jobs
    BY <1>0, LatestIsNewest, JobFields
  <2>2. job' \in [Procs -> Jobs] /\ pc' \in [Procs -> Labels]
    BY <1>0, <1>8, <2>1 DEF LoadRuns, TypeOK, Goto, Labels
  <2> QED BY <1>0, <1>8, <2>2 DEF LoadRuns, TypeOK
<1>9. CASE LoadTasks(p)
  <2> DEFINE read  == IF tasks = Torn THEN <<>> ELSE tasks
             shown == [latest |-> job[p].latest, posture |-> posture(job[p].latest),
                       tasks |-> read, day |-> clock, summary |-> summarizeTasks(read, clock)]
  <2>1. job' = [job EXCEPT ![p].shown = shown] /\ Goto(p, "openbadge")
    BY <1>9 DEF LoadTasks
  <2>2. read \in Tasks \cup {<<>>} /\ job[p].latest \in Runs /\ clock \in Nat
    BY <1>0 DEF TypeOK, Jobs
  <2>3. summarizeTasks(read, clock) \in {"ok", "warn", "bad"} /\ posture(job[p].latest) \in Postures
    BY Verdicts
  <2> HIDE DEF read
  <2>4. shown \in Pages
    BY <2>2, <2>3 DEF Pages
  <2> HIDE DEF shown
  <2>5. [job[p] EXCEPT !.shown = shown] \in Jobs
    BY <1>0, <2>4, JobFields
  <2>6. job' \in [Procs -> Jobs] /\ pc' \in [Procs -> Labels]
    BY <1>0, <2>1, <2>5 DEF TypeOK, Goto, Labels
  <2> QED BY <1>0, <1>9, <2>6 DEF LoadTasks, TypeOK
<1>10. CASE OpenBadge(p) \/ writeBadge(p)
  <2>1. job[p].shown.posture \in Postures
    BY <1>0 DEF Jobs, Pages
  <2>2. pc' \in [Procs -> Labels] /\ badge' \in Postures \cup {Torn}
    BY <1>0, <1>10, <2>1 DEF OpenBadge, writeBadge, TypeOK, Goto, Labels
  <2> QED BY <1>0, <1>10, <2>2 DEF OpenBadge, writeBadge, TypeOK
<1>11. CASE OpenPage(p) \/ WritePage(p)
  <2>1. job[p].shown \in Pages
    BY <1>0 DEF Jobs
  <2>2. pc' \in [Procs -> Labels] /\ page' \in Pages \cup {Torn}
    BY <1>0, <1>11, <2>1 DEF OpenPage, WritePage, TypeOK, Goto, Labels
  <2> QED BY <1>0, <1>11, <2>2 DEF OpenPage, WritePage, TypeOK
<1>12. CASE Exit(p)
  <2>1. PICK code \in {0, 1} : Finish(p, code)
    BY <1>12 DEF Exit
  <2>2. pc' \in [Procs -> Labels] /\ job' \in [Procs -> Jobs]
        /\ exit' \in [Procs -> [code : {0, 1}, results : Results]]
    BY <1>0, <2>1, FinishTyped
  <2> QED BY <1>0, <1>12, <2>2 DEF Exit, TypeOK
<1>13. CASE Die(p)
  <2>1. pc' \in [Procs -> Labels] /\ job' \in [Procs -> Jobs]
        /\ exit' \in [Procs -> [code : {0, 1}, results : Results]]
    BY <1>0, <1>13, FinishTyped DEF Die
  <2> QED BY <1>0, <1>13, <2>1 DEF Die, TypeOK
<1> QED BY <1>1, <1>2, <1>3, <1>4, <1>5, <1>6, <1>7, <1>8, <1>9, <1>10, <1>11, <1>12, <1>13 DEF Command

-----------------------------------------------------------------------------
(* Who a step of a command can disturb *)

\* A step of p leaves the other processes where they are.
LEMMA OthersStay ==
  ASSUME TypeOK, NEW p \in Procs, Command(p), NEW q \in Procs \ {p}
  PROVE  pc'[q] = pc[q] /\ job'[q] = job[q] /\ exit'[q] = exit[q]
<1> USE DEF TypeOK, Goto, Finish
<1>1. CASE StartScan(p) \/ StartRender(p) \/ StartTask(p)
  BY <1>1 DEF StartScan, StartRender, StartTask, Begin
<1>2. CASE LoadConfig(p)
  BY <1>2 DEF LoadConfig
<1>3. CASE RunCheck(p)
  BY <1>3 DEF RunCheck
<1>4. CASE ReadTasks(p)
  BY <1>4 DEF ReadTasks
<1>5. CASE OpenRun(p) \/ WriteRun(p) \/ OpenTasks(p) \/ WriteTasks(p) \/ LoadRuns(p) \/ LoadTasks(p)
  BY <1>5 DEF OpenRun, WriteRun, OpenTasks, WriteTasks, LoadRuns, LoadTasks
<1>6. CASE OpenBadge(p) \/ writeBadge(p) \/ OpenPage(p) \/ WritePage(p) \/ Exit(p) \/ Die(p)
  BY <1>6 DEF OpenBadge, writeBadge, OpenPage, WritePage, Exit, Die
<1> QED BY <1>1, <1>2, <1>3, <1>4, <1>5, <1>6 DEF Command

\* Only a command that starts changes who is alone; only WriteTasks changes what
\* was recorded and whether a copy was stale; no command moves the clock.
LEMMA HistoryStays ==
  ASSUME TypeOK, NEW p \in Procs, Command(p)
  PROVE  /\ clock' = clock
         /\ \/ /\ pc[p] = "idle"
               /\ alone' = [q \in Procs |-> IF q = p THEN \A r \in Procs : pc[r] = "idle"
                                                     ELSE alone[q] /\ pc[q] = "idle"]
            \/ pc[p] # "idle" /\ alone' = alone
         /\ WriteTasks(p) \/ (recorded' = recorded /\ raced' = raced)
<1> USE DEF history
<1>1. CASE StartScan(p) \/ StartRender(p) \/ StartTask(p)
  BY <1>1 DEF StartScan, StartRender, StartTask, Begin
<1>2. CASE LoadConfig(p) \/ RunCheck(p) \/ ReadTasks(p)
  BY <1>2 DEF LoadConfig, RunCheck, ReadTasks
<1>5. CASE OpenRun(p) \/ WriteRun(p) \/ OpenTasks(p) \/ WriteTasks(p) \/ LoadRuns(p) \/ LoadTasks(p)
  BY <1>5 DEF OpenRun, WriteRun, OpenTasks, WriteTasks, LoadRuns, LoadTasks
<1>6. CASE OpenBadge(p) \/ writeBadge(p) \/ OpenPage(p) \/ WritePage(p) \/ Exit(p) \/ Die(p)
  BY <1>6 DEF OpenBadge, writeBadge, OpenPage, WritePage, Exit, Die
<1> QED BY <1>1, <1>2, <1>5, <1>6 DEF Command

\* While one process steps, no other that is active is alone.
LEMMA OthersNotAlone ==
  ASSUME TypeOK, AloneInv, NEW p \in Procs, Command(p), NEW q \in Procs \ {p}
  PROVE  ~(alone'[q] /\ pc'[q] # "idle")
<1>1. pc'[q] = pc[q]
  BY OthersStay
<1>2. CASE pc[p] = "idle"
  <2>1. alone'[q] = (alone[q] /\ pc[q] = "idle")
    BY <1>2, HistoryStays
  <2> QED BY <1>1, <2>1
<1>3. CASE pc[p] # "idle"
  <2>1. alone'[q] = alone[q]
    BY <1>3, HistoryStays
  <2> QED BY <1>1, <1>3, <2>1 DEF AloneInv
<1> QED BY <1>2, <1>3

LEMMA AloneKept ==
  ASSUME TypeOK, AloneInv, NEW p \in Procs, Command(p)
  PROVE  AloneInv'
<1> SUFFICES ASSUME NEW r \in Procs, alone'[r], pc'[r] # "idle", NEW q \in Procs \ {r}
             PROVE  pc'[q] = "idle"
  BY DEF AloneInv
<1>1. r = p
  BY OthersNotAlone
<1>2. pc'[q] = pc[q]
  BY <1>1, OthersStay
<1>3. CASE pc[p] = "idle"
  <2>1. alone'[p] = \A z \in Procs : pc[z] = "idle"
    BY <1>3, HistoryStays
  <2> QED BY <1>1, <1>2, <2>1
<1>4. CASE pc[p] # "idle"
  <2>1. alone'[p] = alone[p]
    BY <1>4, HistoryStays
  <2> QED BY <1>1, <1>2, <1>4, <2>1 DEF AloneInv
<1> QED BY <1>3, <1>4

-----------------------------------------------------------------------------
(* The completions *)

\* A copy of another process is stale once tasks.json is written.
LEMMA OtherJobs ==
  ASSUME IInv, NEW p \in Procs, Command(p), NEW q \in Procs \ {p}
  PROVE  JobInv(q)'
<1>1. TypeOK /\ JobInv(q)
  BY DEF IInv
<1>2. pc'[q] = pc[q] /\ job'[q] = job[q] /\ clock' = clock
  BY <1>1, OthersStay, HistoryStays
<1>3. CASE WriteTasks(p)
  <2>1. pc[q] \in {"opentasks", "writetasks"} => raced'
    BY <1>3, Zenon DEF WriteTasks
  <2> QED BY <1>1, <1>2, <2>1 DEF JobInv
<1>4. CASE ~WriteTasks(p)
  <2>1. recorded' = recorded /\ raced' = raced
    BY <1>1, <1>4, HistoryStays
  <2> QED BY <1>1, <1>2, <2>1 DEF JobInv
<1> QED BY <1>3, <1>4

LEMMA OwnJob ==
  ASSUME IInv, NEW p \in Procs, Command(p)
  PROVE  JobInv(p)'
<1>0. TypeOK /\ JobInv(p) /\ job[p] \in Jobs /\ clock' = clock
  BY HistoryStays DEF IInv, TypeOK
<1>1. CASE StartScan(p) \/ StartRender(p)
  <2>1. pc'[p] = "config"
    BY <1>0, <1>1 DEF StartScan, StartRender, Begin, Goto, TypeOK
  <2> QED BY <2>1 DEF JobInv, Scanning
<1>2. CASE StartTask(p)
  <2>1. PICK t \in TaskIds, d \in 0..(clock + MaxAhead) \cup {Bad} :
          Begin(p, "readtasks", [NoJob EXCEPT !.cmd = "task", !.task = t, !.date = d])
    BY <1>2 DEF StartTask
  <2>2. d \in Int \cup {Bad}
    BY <1>0 DEF TypeOK
  <2>3. pc'[p] = "readtasks" /\ job'[p] = [NoJob EXCEPT !.cmd = "task", !.task = t, !.date = d]
    BY <1>0, <2>1 DEF Begin, Goto, TypeOK
  <2>4. job'[p].cmd = "task" /\ job'[p].date = d
    BY <2>3 DEF NoJob
  <2> QED BY <2>2, <2>3, <2>4 DEF JobInv, Scanning
<1>3. CASE LoadConfig(p)
  <2>1. \/ pc'[p] \in {"idle", "loadruns"}
        \/ pc'[p] = "checks" /\ job[p].cmd = "scan" /\ job'[p].cmd = job[p].cmd /\ job'[p].id = clock
    BY <1>0, <1>3 DEF LoadConfig, Finish, Goto, TypeOK, Jobs
  <2>2. clock \in 1..clock
    BY <1>0 DEF TypeOK
  <2> QED BY <1>0, <2>1, <2>2 DEF JobInv, Scanning
<1>4. CASE RunCheck(p)
  <2>1. pc'[p] \in {"checks", "openrun"} /\ job'[p].cmd = job[p].cmd /\ job'[p].id = job[p].id
        /\ pc[p] = "checks"
    BY <1>0, <1>4 DEF RunCheck, Goto, TypeOK, Jobs
  <2> QED BY <1>0, <2>1 DEF JobInv, Scanning
<1>5. CASE ReadTasks(p)
  <2>1. CASE Finish(p, 1)
    <3>1. pc'[p] = "idle"
      BY <1>0, <2>1 DEF Finish, Goto, TypeOK
    <3> QED BY <3>1 DEF JobInv, Scanning
  <2>2. CASE /\ job[p].date # Bad /\ tasks # Torn /\ job[p].task \in DOMAIN tasks
             /\ job' = [job EXCEPT ![p].copy = [tasks EXCEPT ![job[p].task] = Done(@, job[p].date)]]
             /\ Goto(p, "opentasks")
    <3>1. tasks \in Tasks /\ job[p].task \in DOMAIN InitTasks
      BY <1>0, <2>2 DEF TypeOK, Tasks
    <3>2. job[p].date \in Int /\ job[p].cmd = "task"
      BY <1>0, <1>5, <2>2 DEF JobInv, ReadTasks
    <3> DEFINE copy == [tasks EXCEPT ![job[p].task] = Done(@, job[p].date)]
    <3>3. /\ copy \in Tasks
          /\ copy[job[p].task].lastRun = job[p].date /\ copy[job[p].task].nextDue = None
          /\ \A u \in DOMAIN InitTasks : u # job[p].task => copy[u] = tasks[u]
      BY <3>1, <3>2, DoneTask
    <3>4. ~raced => \A u \in DOMAIN InitTasks : tasks[u].lastRun = recorded[u]
      BY <2>2, <3>1 DEF IInv, CompletionsKept, Tasks
    <3>5. pc'[p] = "opentasks" /\ job'[p] = [job[p] EXCEPT !.copy = copy]
      BY <1>0, <2>2 DEF Goto, TypeOK
    <3> HIDE DEF copy
    <3>6. job'[p].copy = copy /\ job'[p].task = job[p].task /\ job'[p].date = job[p].date
          /\ job'[p].cmd = job[p].cmd
      BY <1>0, <3>5 DEF Jobs
    <3>7. recorded' = recorded /\ raced' = raced
      BY <1>5 DEF ReadTasks, history
    <3> QED BY <3>1, <3>2, <3>3, <3>4, <3>5, <3>6, <3>7 DEF JobInv, Scanning
  <2> QED BY <1>5, <2>1, <2>2 DEF ReadTasks
<1>6. CASE OpenRun(p)
  BY <1>0, <1>6 DEF OpenRun, Goto, TypeOK, JobInv, Scanning
<1>7. CASE OpenTasks(p)
  BY <1>0, <1>7 DEF OpenTasks, Goto, TypeOK, JobInv, Scanning, history
<1>8. CASE WriteRun(p) \/ WriteTasks(p) \/ LoadRuns(p) \/ LoadTasks(p) \/ OpenBadge(p)
           \/ writeBadge(p) \/ OpenPage(p) \/ WritePage(p) \/ Exit(p) \/ Die(p)
  <2>1. pc'[p] \in {"idle", "config"} \cup Scanned
    BY <1>0, <1>8 DEF WriteRun, WriteTasks, LoadRuns, LoadTasks, OpenBadge, writeBadge, OpenPage,
                      WritePage, Exit, Die, Finish, Goto, TypeOK, Scanned, Rendering
  <2> QED BY <2>1 DEF JobInv, Scanning, Scanned, Rendering
<1> QED BY <1>1, <1>2, <1>3, <1>4, <1>5, <1>6, <1>7, <1>8 DEF Command

LEMMA CompletionsStay ==
  ASSUME IInv, NEW p \in Procs, Command(p)
  PROVE  CompletionsKept'
<1>0. TypeOK /\ JobInv(p) /\ CompletionsKept
  BY DEF IInv
<1>1. CASE WriteTasks(p)
  <2> SUFFICES ASSUME ~raced', NEW t \in DOMAIN tasks' PROVE tasks'[t].lastRun = recorded'[t]
    BY DEF CompletionsKept
  <2>1. ~raced
    BY <1>1, Zenon DEF WriteTasks
  <2>2. tasks' = job[p].copy /\ recorded' = [recorded EXCEPT ![job[p].task] = job[p].date]
        /\ pc[p] = "writetasks"
    BY <1>1 DEF WriteTasks
  <2>3. job[p].copy \in Tasks /\ t \in DOMAIN InitTasks
    BY <1>0, <2>2 DEF JobInv, Tasks
  <2>4. recorded \in [DOMAIN InitTasks -> Dates]
    BY <1>0 DEF TypeOK
  <2>5. CASE t = job[p].task
    BY <1>0, <2>2, <2>3, <2>4, <2>5 DEF JobInv
  <2>6. CASE t # job[p].task
    BY <1>0, <2>1, <2>2, <2>3, <2>4, <2>6 DEF JobInv
  <2> QED BY <2>5, <2>6
<1>2. CASE OpenTasks(p)
  BY <1>2 DEF OpenTasks, CompletionsKept
<1>3. CASE ~WriteTasks(p) /\ ~OpenTasks(p)
  <2>1. recorded' = recorded /\ raced' = raced
    BY <1>0, <1>3, HistoryStays
  <2>2. tasks' = tasks
    BY <1>3 DEF Command, StartScan, StartRender, StartTask, Begin, LoadConfig, RunCheck, OpenRun, WriteRun,
                ReadTasks, LoadRuns, LoadTasks, OpenBadge, writeBadge, OpenPage, WritePage, Exit, Die, files
  <2> QED BY <1>0, <2>1, <2>2 DEF CompletionsKept
<1> QED BY <1>1, <1>2, <1>3

-----------------------------------------------------------------------------
(* What a command that runs alone sees of the disk *)

\* The latest run, and what DiskInv says, depend on these variables only.
LEMMA LatestStays ==
  ASSUME runs' = runs
  PROVE  Latest' = Latest
BY DEF Latest, Whole

LEMMA OwnDisk ==
  ASSUME IInv, TypeOK', NEW p \in Procs, Command(p)
  PROVE  DiskInv(p)'
<1> SUFFICES ASSUME alone'[p], pc'[p] # "idle"
             PROVE  /\ (job[p].cmd = "scan" /\ pc[p] \in Scanning \cup Scanned)' => OwnRun(p)'
                    /\ (job[p].cmd = "task" /\ pc[p] \in {"config"} \cup Scanned)' => OwnTask(p)'
                    /\ OwnPage(p)'
  BY DEF DiskInv
<1> USE DEF Scanning, Scanned, Rendering
<1>0. TypeOK /\ JobInv(p) /\ DiskInv(p) /\ job[p] \in Jobs /\ clock' = clock
  BY HistoryStays DEF IInv, TypeOK
<1>1. CASE StartScan(p) \/ StartRender(p)
  <2>1. PICK cmd \in {"scan", "render"} : Begin(p, "config", [NoJob EXCEPT !.cmd = cmd])
    BY <1>1 DEF StartScan, StartRender
  <2>2. pc'[p] = "config" /\ job'[p] = [NoJob EXCEPT !.cmd = cmd]
    BY <1>0, <2>1 DEF Begin, Goto, TypeOK
  <2>3. job'[p].cmd = cmd
    BY <2>2 DEF NoJob
  <2> QED BY <2>2, <2>3 DEF OwnPage
<1>2. CASE StartTask(p)
  <2>1. pc'[p] = "readtasks"
    BY <1>0, <1>2 DEF StartTask, Begin, Goto, TypeOK
  <2> QED BY <2>1 DEF OwnPage
<1>3. CASE ~(StartScan(p) \/ StartRender(p) \/ StartTask(p))
  <2>0. pc[p] # "idle" /\ alone[p]
    <3>1. pc[p] # "idle"
      BY <1>3 DEF Command, LoadConfig, RunCheck, OpenRun, WriteRun, ReadTasks, OpenTasks, WriteTasks, LoadRuns,
                  LoadTasks, OpenBadge, writeBadge, OpenPage, WritePage, Exit, Die
    <3> QED BY <1>0, <3>1, HistoryStays
  <2>1. /\ (job[p].cmd = "scan" /\ pc[p] \in Scanning \cup Scanned) => OwnRun(p)
        /\ (job[p].cmd = "task" /\ pc[p] \in {"config"} \cup Scanned) => OwnTask(p)
        /\ OwnPage(p)
    BY <1>0, <2>0 DEF DiskInv
  <2>2. CASE LoadConfig(p)
    <3>1. runs' = runs /\ tasks' = tasks /\ pc[p] = "config"
      BY <2>2 DEF LoadConfig, files
    <3>2. \/ /\ pc'[p] = "checks" /\ job[p].cmd = "scan" /\ job'[p].cmd = "scan" /\ job'[p].id = clock
          \/ pc'[p] = "loadruns" /\ job' = job /\ job[p].cmd # "scan"
      BY <1>0, <2>2 DEF LoadConfig, Finish, Goto, TypeOK, Jobs
    <3>3. \A id \in DOMAIN runs : id <= clock
      BY <1>0 DEF TypeOK
    <3>4. CASE pc'[p] = "checks"
      BY <3>1, <3>2, <3>3, <3>4 DEF OwnRun, OwnPage
    <3>5. CASE pc'[p] = "loadruns"
      BY <2>1, <3>1, <3>2, <3>5 DEF OwnTask, OwnPage
    <3> QED BY <3>2, <3>4, <3>5
  <2>3. CASE RunCheck(p)
    <3>1. runs' = runs /\ pc[p] = "checks"
      BY <2>3 DEF RunCheck, files
    <3>2. pc'[p] \in {"checks", "openrun"} /\ job'[p].cmd = job[p].cmd /\ job'[p].id = job[p].id
      BY <1>0, <2>3 DEF RunCheck, Goto, TypeOK, Jobs
    <3>3. job[p].cmd = "scan"
      BY <1>0, <3>1 DEF JobInv
    <3> QED BY <2>1, <3>1, <3>2, <3>3 DEF OwnRun, OwnPage
  <2>4. CASE OpenRun(p) \/ WriteRun(p)
    <3>1. job' = job /\ job[p].cmd = "scan" /\ job[p].id \in Nat /\ OwnRun(p)
      BY <1>0, <2>1, <2>4 DEF OpenRun, WriteRun, JobInv
    <3>2. PICK content : SaveRun(p, content) /\ (WriteRun(p) => content = job[p].results)
      BY <2>4 DEF OpenRun, WriteRun
    <3>3. DOMAIN runs' = DOMAIN runs \cup {job[p].id} /\ runs'[job[p].id] = content
      BY <3>2 DEF SaveRun
    <3>4. \A id \in DOMAIN runs' : id <= job[p].id
      BY <3>1, <3>3 DEF OwnRun
    <3>5. pc'[p] = "writerun" \/ (pc'[p] = "loadruns" /\ WriteRun(p))
      BY <1>0, <2>4 DEF OpenRun, WriteRun, Goto, TypeOK
    <3>6. OwnRun(p)'
      BY <3>1, <3>2, <3>3, <3>4, <3>5 DEF OwnRun
    <3> QED BY <3>1, <3>5, <3>6 DEF OwnPage
  <2>5. CASE ReadTasks(p) \/ OpenTasks(p)
    <3>1. pc'[p] \in {"opentasks", "writetasks"}
      BY <1>0, <2>5 DEF ReadTasks, OpenTasks, Finish, Goto, TypeOK
    <3> QED BY <3>1 DEF OwnPage
  <2>6. CASE WriteTasks(p)
    <3>1. pc'[p] = "config" /\ job' = job /\ tasks' = job[p].copy /\ pc[p] = "writetasks"
      BY <1>0, <2>6 DEF WriteTasks, Goto, TypeOK
    <3>2. OwnTask(p)'
      BY <1>0, <3>1 DEF JobInv, OwnTask
    <3> QED BY <3>1, <3>2 DEF OwnPage
  <2>7. CASE LoadRuns(p)
    <3>1. runs' = runs /\ tasks' = tasks /\ pc[p] = "loadruns" /\ pc'[p] = "loadtasks"
      BY <1>0, <2>7 DEF LoadRuns, files, Goto, TypeOK
    <3>2. Latest' = Latest
      BY <3>1, LatestStays
    <3>3. job'[p] = [job[p] EXCEPT !.latest = Latest]
      BY <1>0, <2>7 DEF LoadRuns, TypeOK
    <3>4. /\ job'[p].latest = Latest /\ job'[p].cmd = job[p].cmd /\ job'[p].id = job[p].id
          /\ job'[p].results = job[p].results /\ job'[p].task = job[p].task /\ job'[p].date = job[p].date
      BY <1>0, <3>3 DEF Jobs
    <3>5. OwnPage(p)'
      BY <3>1, <3>2, <3>4 DEF OwnPage
    <3> QED BY <2>1, <3>1, <3>4, <3>5 DEF OwnRun, OwnTask
  <2>8. CASE LoadTasks(p)
    <3> DEFINE read  == IF tasks = Torn THEN <<>> ELSE tasks
               shown == [latest |-> job[p].latest, posture |-> posture(job[p].latest),
                         tasks |-> read, day |-> clock, summary |-> summarizeTasks(read, clock)]
    <3>1. runs' = runs /\ tasks' = tasks /\ pc[p] = "loadtasks" /\ pc'[p] = "openbadge"
      BY <1>0, <2>8 DEF LoadTasks, files, Goto, TypeOK
    <3>2. Latest' = Latest
      BY <3>1, LatestStays
    <3>3. job'[p] = [job[p] EXCEPT !.shown = shown]
      BY <1>0, <2>8 DEF LoadTasks, TypeOK
    <3>4. tasks # Torn => shown.tasks = tasks /\ shown.summary = summarizeTasks(tasks, shown.day)
      OBVIOUS
    <3>5. shown.latest = job[p].latest
      OBVIOUS
    <3> HIDE DEF shown
    <3>6. /\ job'[p].shown = shown /\ job'[p].latest = job[p].latest /\ job'[p].cmd = job[p].cmd
          /\ job'[p].id = job[p].id /\ job'[p].results = job[p].results
          /\ job'[p].task = job[p].task /\ job'[p].date = job[p].date
      BY <1>0, <3>3 DEF Jobs
    <3>7. job[p].latest = Latest
      BY <2>1, <3>1 DEF OwnPage
    <3>8. /\ job'[p].latest = Latest' /\ job'[p].shown.latest = Latest'
          /\ tasks' # Torn => /\ job'[p].shown.tasks = tasks'
                              /\ job'[p].shown.summary = summarizeTasks(tasks', job'[p].shown.day)
      BY <3>1, <3>2, <3>4, <3>5, <3>6, <3>7
    <3>9. OwnPage(p)'
      BY <3>1, <3>8 DEF OwnPage, summarizeTasks, taskStatus, Due, Interval
    <3> QED BY <2>1, <3>1, <3>6, <3>9 DEF OwnRun, OwnTask
  <2>9. CASE OpenBadge(p) \/ writeBadge(p) \/ OpenPage(p) \/ WritePage(p)
    <3>1. /\ runs' = runs /\ tasks' = tasks /\ job' = job
          /\ pc[p] \in Rendering /\ pc'[p] \in Rendering
      BY <1>0, <2>9 DEF OpenBadge, writeBadge, OpenPage, WritePage, Goto, TypeOK
    <3>2. Latest' = Latest
      BY <3>1, LatestStays
    <3>3. pc'[p] \in {"openpage", "writepage", "exit"} => badge' = job[p].shown.posture
      BY <1>0, <2>1, <2>9 DEF OpenBadge, writeBadge, OpenPage, WritePage, Goto, TypeOK, OwnPage
    <3>4. pc'[p] = "exit" => page' = job[p].shown
      BY <1>0, <2>9 DEF OpenBadge, writeBadge, OpenPage, WritePage, Goto, TypeOK
    <3>5. OwnPage(p)'
      BY <2>1, <3>1, <3>2, <3>3, <3>4 DEF OwnPage
    <3> QED BY <2>1, <3>1, <3>5 DEF OwnRun, OwnTask
  <2>10. CASE Exit(p) \/ Die(p)
    BY <1>0, <2>10 DEF Exit, Die, Finish, Goto, TypeOK
  <2> QED BY <1>3, <2>2, <2>3, <2>4, <2>5, <2>6, <2>7, <2>8, <2>9, <2>10 DEF Command
<1> QED BY <1>1, <1>2, <1>3

-----------------------------------------------------------------------------
(* The invariant *)

LEMMA InitIInv == Init => IInv
<1> SUFFICES ASSUME Init PROVE IInv
  OBVIOUS
<1>1. TypeOK
  BY InitTyped
<1>2. \A p \in Procs : pc[p] = "idle"
  BY DEF Init
<1>3. CompletionsKept
  BY Constants DEF Init, CompletionsKept, Tasks
<1>4. ASSUME NEW p \in Procs PROVE JobInv(p) /\ DiskInv(p)
  BY <1>2 DEF JobInv, DiskInv, Scanning
<1> QED BY <1>1, <1>2, <1>3, <1>4 DEF IInv, AloneInv

LEMMA TickKeeps ==
  ASSUME IInv, Tick
  PROVE  IInv'
<1>1. /\ clock \in Nat /\ clock' = clock + 1 /\ runs' = runs /\ tasks' = tasks /\ badge' = badge /\ page' = page
      /\ UNCHANGED <<pc, job, exit, alone, recorded, raced, commands, crashes>>
  BY DEF Tick, files, history, IInv, TypeOK
<1>2. Latest' = Latest
  BY <1>1, LatestStays
<1>3. TypeOK'
  BY <1>1 DEF IInv, TypeOK
<1>4. CompletionsKept' /\ AloneInv'
  BY <1>1 DEF IInv, CompletionsKept, AloneInv
<1>5. ASSUME NEW p \in Procs PROVE JobInv(p)'
  BY <1>1 DEF IInv, JobInv
<1>6. ASSUME NEW p \in Procs PROVE DiskInv(p)'
  <2>1. OwnRun(p) => OwnRun(p)'
    BY <1>1 DEF OwnRun
  <2>2. OwnTask(p) => OwnTask(p)'
    BY <1>1 DEF OwnTask
  <2>3. OwnPage(p) => OwnPage(p)'
    BY <1>1, <1>2 DEF OwnPage
  <2> QED BY <1>1, <2>1, <2>2, <2>3 DEF IInv, DiskInv
<1> QED BY <1>3, <1>4, <1>5, <1>6 DEF IInv

LEMMA NextIInv ==
  ASSUME IInv, [Next]_vars
  PROVE  IInv'
<1>1. CASE Tick
  BY <1>1, TickKeeps
<1>2. ASSUME NEW p \in Procs, Command(p) PROVE IInv'
  <2>1. TypeOK' /\ CompletionsKept'
    BY <1>2, CommandTyped, CompletionsStay
  <2>2. AloneInv'
    BY <1>2, AloneKept DEF IInv
  <2>3. ASSUME NEW q \in Procs PROVE JobInv(q)' /\ DiskInv(q)'
    <3>1. CASE q = p
      BY <1>2, <2>1, <3>1, OwnJob, OwnDisk
    <3>2. CASE q # p
      <4>1. JobInv(q)'
        BY <1>2, <3>2, OtherJobs
      <4>2. DiskInv(q)'
        BY <1>2, <3>2, OthersNotAlone DEF IInv, DiskInv
      <4> QED BY <4>1, <4>2
    <3> QED BY <3>1, <3>2
  <2> QED BY <2>1, <2>2, <2>3 DEF IInv
<1>3. CASE UNCHANGED vars
  <2>1. UNCHANGED <<clock, runs, tasks, badge, page, pc, job, exit, alone, recorded, raced, commands, crashes>>
    BY <1>3 DEF vars, files, history
  <2>2. Latest' = Latest
    BY <2>1, LatestStays
  <2> QED BY <2>1, <2>2 DEF IInv, TypeOK, CompletionsKept, AloneInv, JobInv, DiskInv, OwnRun, OwnTask, OwnPage
<1> QED BY <1>1, <1>2, <1>3 DEF Next

LEMMA IInvHolds == Spec => []IInv
BY InitIInv, NextIInv, PTL DEF Spec

-----------------------------------------------------------------------------
(* What follows from it *)

\* Every file, and what every command holds, stays in its type.
THEOREM TypeCorrect == Spec => []TypeOK
<1>1. IInv => TypeOK
  BY DEF IInv
<1> QED BY <1>1, IInvHolds, PTL

\* A completion that was recorded stays in tasks.json however commands interleave
\* and die, unless a copy that was stale was written over it.
THEOREM CompletionsStand == Spec => []CompletionsKept
<1>1. IInv => CompletionsKept
  BY DEF IInv
<1> QED BY <1>1, IInvHolds, PTL

\* A command that ran alone leaves the page and the badge as the files are, whatever
\* earlier commands left behind.
THEOREM PageTrue == Spec => []PageMatchesDisk
<1>1. ASSUME IInv PROVE PageMatchesDisk
  <2> SUFFICES ASSUME NEW p \in Procs, pc[p] = "exit", alone[p]
               PROVE  /\ page # Torn /\ badge = page.posture
                      /\ \A id \in Whole : id <= page.latest.id
                      /\ job[p].cmd = "scan" => page.latest = [id |-> job[p].id, results |-> job[p].results]
                      /\ tasks # Torn => page.tasks = tasks
    BY DEF PageMatchesDisk
  <2>1. TypeOK /\ job[p] \in Jobs
    BY <1>1 DEF IInv, TypeOK
  <2>2. OwnPage(p) /\ (job[p].cmd = "scan" => OwnRun(p))
    BY <1>1 DEF IInv, DiskInv, Scanned, Rendering
  <2>3. /\ page = job[p].shown /\ badge = page.posture /\ page.latest = Latest
        /\ tasks # Torn => page.tasks = tasks
    BY <2>2 DEF OwnPage, Rendering
  <2>4. page # Torn
    BY <2>1, <2>3, Constants DEF Jobs
  <2>5. \A id \in Whole : id <= page.latest.id
    BY <2>1, <2>3, LatestIsNewest
  <2>6. ASSUME job[p].cmd = "scan" PROVE page.latest = [id |-> job[p].id, results |-> job[p].results]
    <3>1. /\ job[p].id \in DOMAIN runs /\ runs[job[p].id] = job[p].results
          /\ \A id \in DOMAIN runs : id <= job[p].id
      BY <2>2, <2>6 DEF OwnRun, Scanned, Rendering
    <3>2. runs[job[p].id] # Torn
      BY <2>1, <3>1, Constants DEF Jobs
    <3>3. Latest = [id |-> job[p].id, results |-> runs[job[p].id]]
      BY <2>1, <3>1, <3>2, LatestIsOwn
    <3> QED BY <2>3, <3>1, <3>3
  <2> QED BY <2>3, <2>4, <2>5, <2>6
<1> QED BY <1>1, IInvHolds, PTL

\* After `task done`, run alone, the page shows the task as done, on the date given.
THEOREM DoneIsShown == Spec => []DoneShowsDone
<1>1. ASSUME IInv PROVE DoneShowsDone
  <2> SUFFICES ASSUME NEW p \in Procs, pc[p] = "exit", alone[p], job[p].cmd = "task"
               PROVE  /\ taskStatus(page.tasks[job[p].task], page.day) \notin {"never", "unknown"}
                      /\ taskStatus(page.tasks[job[p].task], page.day) = "overdue" =>
                            job[p].date + Interval(page.tasks[job[p].task]) < page.day
    BY DEF DoneShowsDone
  <2>1. OwnPage(p) /\ OwnTask(p)
    BY <1>1 DEF IInv, DiskInv, Scanned, Rendering
  <2>2. tasks # Torn
    BY <2>1, Constants DEF OwnTask
  <2>3. page.tasks = tasks
    BY <2>1, <2>2 DEF OwnPage, Rendering
  <2> DEFINE t == tasks[job[p].task]
  <2>4. t.nextDue = None /\ t.lastRun = job[p].date /\ job[p].date \in Int
    BY <2>1 DEF OwnTask
  <2> HIDE DEF t
  <2>5. taskStatus(t, page.day) \notin {"never", "unknown"}
    BY <2>4, Constants DEF taskStatus
  <2>6. taskStatus(t, page.day) = "overdue" => job[p].date + Interval(t) < page.day
    BY <2>4, Constants DEF taskStatus, Due
  <2> QED BY <2>3, <2>5, <2>6 DEF t
<1> QED BY <1>1, IInvHolds, PTL

\* A page that says all tasks are on schedule is right about every task people still
\* perform, but for dates nobody can read.
THEOREM VerdictHonest == Spec => []SummaryHonest
<1>1. ASSUME IInv PROVE SummaryHonest
  <2> SUFFICES ASSUME NEW p \in Procs, pc[p] = "exit", alone[p], tasks # Torn, ~raced, page.summary = "ok",
                      NEW t \in DOMAIN tasks
               PROVE  \/ tasks[t].status \in {"automated", "waived"}
                      \/ Bad \in {recorded[t], tasks[t].nextDue}
                      \/ /\ recorded[t] # None
                         /\ IF tasks[t].nextDue # None THEN tasks[t].nextDue >= page.day
                            ELSE Interval(tasks[t]) > 0 => recorded[t] + Interval(tasks[t]) >= page.day
    BY DEF SummaryHonest
  <2>1. TypeOK /\ tasks[t].lastRun = recorded[t]
    BY <1>1 DEF IInv, CompletionsKept
  <2>2. OwnPage(p)
    BY <1>1 DEF IInv, DiskInv
  <2>3. page.summary = summarizeTasks(tasks, page.day) /\ page \in Pages
    BY <2>1, <2>2 DEF OwnPage, Rendering, TypeOK, Jobs
  <2>4. tasks \in Tasks /\ page.day \in Nat
    BY <2>1, <2>3 DEF TypeOK, Pages
  <2> DEFINE u == tasks[t]
  <2>5. u \in Task
    BY <2>4 DEF Tasks
  <2>6. Interval(u) \in Nat
    BY <2>5 DEF Task, Interval
  <2>7. taskStatus(u, page.day) \notin {"overdue", "blocked", "never", "due-soon"}
    <3> DEFINE states == {taskStatus(tasks[v], page.day) : v \in DOMAIN tasks}
    <3>1. states \cap {"overdue", "blocked", "never"} = {} /\ "due-soon" \notin states
      BY <2>3 DEF summarizeTasks
    <3>2. taskStatus(u, page.day) \in states
      OBVIOUS
    <3> HIDE DEF states, u
    <3> QED BY <3>1, <3>2
  <2> HIDE DEF u
  <2>8. u.status = "blocked" => taskStatus(u, page.day) = "blocked"
    BY DEF taskStatus
  <2>9. SUFFICES ASSUME u.status \notin {"automated", "waived", "blocked"}, u.lastRun # Bad, u.nextDue # Bad
                 PROVE  /\ u.lastRun # None
                        /\ IF u.nextDue # None THEN u.nextDue >= page.day
                           ELSE Interval(u) > 0 => u.lastRun + Interval(u) >= page.day
    BY <2>1, <2>7, <2>8 DEF u
  <2>10. u.lastRun # None
    BY <2>7, <2>9 DEF taskStatus
  <2>11. u.lastRun \in Int /\ u.nextDue \in Int \cup {None}
    BY <2>5, <2>9, <2>10 DEF Task, Dates
  <2>12. CASE u.nextDue = None /\ Interval(u) = 0
    BY <2>6, <2>10, <2>12
  <2>13. CASE ~(u.nextDue = None /\ Interval(u) = 0)
    <3>1. ~(Due(u) < page.day)
      BY <2>7, <2>9, <2>10, <2>13 DEF taskStatus
    <3> QED BY <2>4, <2>6, <2>10, <2>11, <3>1 DEF Due
  <2> QED BY <2>12, <2>13
<1> QED BY <1>1, IInvHolds, PTL

-----------------------------------------------------------------------------
(* The gate *)

\* What GateHolds asks the gate to stop, of one result.
Stops(r) == \/ r.severe /\ r.parser \notin {"gosec-json", "semgrep-json"}
            \/ r.failed /\ r.parser \in StrictParsers

\* What the gate must stop counts as failed.
Seen(r) == Stops(r) => r.status \in {"fail", "error"}

\* What a command holds of the checks, and what it ended with.
JobGate(j) ==
    /\ \A i \in DOMAIN j.results : Seen(j.results[i])
    /\ j.cmd # "scan" => j.results = <<>>

ExitGate(e) ==
    e.code = 0 => \A i \in DOMAIN e.results : e.results[i].gating => ~Stops(e.results[i])

GateInv == \A p \in Procs : JobGate(job[p]) /\ ExitGate(exit[p])

\* Severe findings fail a check under all parsers that grade severity, and a tool that
\* failed does so under the five strict ones.
LEMMA FailureSeen ==
  ASSUME NEW c \in Checks, NEW tool \in Outcomes(c)
  PROVE  Seen(runCheck(c, tool))
<1> DEFINE r == runCheck(c, tool)
<1>1. /\ r.parser = c.parser /\ r.failed = Failed(c, tool) /\ r.severe = (tool.report = "severe")
      /\ r.status = IF tool = NotInstalled THEN "skipped" ELSE parseResult(c.parser, tool)
  BY DEF runCheck
<1> HIDE DEF r
<1> SUFFICES ASSUME Stops(r) PROVE r.status \in {"fail", "error"}
  BY DEF Seen, r
<1>2. tool.report = "severe" \/ tool.exit = 1
  BY <1>1 DEF Stops, Failed
<1>3. tool # NotInstalled
  BY <1>2 DEF NotInstalled
<1>4. /\ tool.exit \in {0, 1} /\ c.parser \in Parsers
      /\ tool.report \in IF c.parser \in {"exit", "gotest"} THEN {"none"}
                         ELSE {"clean", "minor", "severe", "foreign", "garbled"}
  BY <1>3 DEF Outcomes, Checks
<1>5. CASE tool.report = "severe" /\ c.parser \notin {"gosec-json", "semgrep-json"}
  BY <1>1, <1>3, <1>4, <1>5 DEF parseResult, Found, Parsers
<1>6. CASE Failed(c, tool) /\ c.parser \in StrictParsers
  BY <1>1, <1>3, <1>4, <1>6 DEF parseResult, Found, Failed, StrictParsers, CountsMissing
<1> QED BY <1>1, <1>5, <1>6 DEF Stops

LEMMA GateStep ==
  ASSUME IInv, GateInv, NEW p \in Procs, Command(p)
  PROVE  GateInv'
<1>0. TypeOK /\ job[p] \in Jobs /\ JobInv(p)
  BY DEF IInv, TypeOK
<1>1. SUFFICES JobGate(job'[p]) /\ ExitGate(exit'[p])
  BY <1>0, OthersStay DEF GateInv
<1>2. ASSUME NEW label, NEW j, Begin(p, label, j), j.results = <<>>
      PROVE  JobGate(job'[p]) /\ ExitGate(exit'[p])
  <2>1. job'[p] = j /\ exit'[p] = NoExit
    BY <1>0, <1>2 DEF Begin, TypeOK
  <2> QED BY <1>2, <2>1 DEF NoExit, JobGate, ExitGate
<1>3. ASSUME NEW code, Finish(p, code), code = 0 => GatingFail(job[p].results) = {}
      PROVE  JobGate(job'[p]) /\ ExitGate(exit'[p])
  <2>1. job'[p] = NoJob /\ exit'[p] = [code |-> code, results |-> job[p].results]
    BY <1>0, <1>3 DEF Finish, TypeOK
  <2>2. JobGate(NoJob)
    BY DEF NoJob, JobGate
  <2>3. ASSUME code = 0, NEW i \in DOMAIN job[p].results, job[p].results[i].gating
        PROVE  ~Stops(job[p].results[i])
    <3>1. job[p].results[i].status \notin {"fail", "error"}
      BY <1>3, <2>3 DEF GatingFail, tally
    <3> QED BY <2>3, <3>1 DEF GateInv, JobGate, Seen
  <2> QED BY <2>1, <2>2, <2>3 DEF ExitGate
<1>4. ASSUME exit' = exit, job'[p].results = job[p].results, job'[p].cmd = job[p].cmd
      PROVE  JobGate(job'[p]) /\ ExitGate(exit'[p])
  BY <1>4 DEF GateInv, JobGate
<1>5. CASE StartScan(p) \/ StartRender(p)
  <2>1. PICK cmd \in {"scan", "render"} : Begin(p, "config", [NoJob EXCEPT !.cmd = cmd])
    BY <1>5 DEF StartScan, StartRender
  <2> DEFINE j == [NoJob EXCEPT !.cmd = cmd]
  <2>2. j.results = <<>>
    BY DEF NoJob
  <2> QED BY <1>2, <2>1, <2>2
<1>6. CASE StartTask(p)
  <2>1. PICK t \in TaskIds, d \in 0..(clock + MaxAhead) \cup {Bad} :
          Begin(p, "readtasks", [NoJob EXCEPT !.cmd = "task", !.task = t, !.date = d])
    BY <1>6 DEF StartTask
  <2> DEFINE j == [NoJob EXCEPT !.cmd = "task", !.task = t, !.date = d]
  <2>2. j.results = <<>>
    BY DEF NoJob
  <2> QED BY <1>2, <2>1, <2>2
<1>7. CASE LoadConfig(p)
  <2>1. PICK checks \in Configs :
          CASE checks = Torn -> Finish(p, 1)
            [] checks # Torn /\ job[p].cmd = "scan" ->
                 /\ job' = [job EXCEPT ![p].id = clock, ![p].checks = checks]
                 /\ Goto(p, "checks") /\ UNCHANGED exit
            [] OTHER -> Goto(p, "loadruns") /\ UNCHANGED <<job, exit>>
    BY <1>7 DEF LoadConfig
  <2>2. CASE checks = Torn
    BY <1>3, <2>1, <2>2
  <2>3. CASE checks # Torn /\ job[p].cmd = "scan"
    <3>1. job'[p] = [job[p] EXCEPT !.id = clock, !.checks = checks] /\ exit' = exit
      BY <1>0, <2>1, <2>3 DEF TypeOK
    <3>2. job'[p].results = job[p].results /\ job'[p].cmd = job[p].cmd
      BY <1>0, <2>3, <3>1 DEF Jobs
    <3> QED BY <1>4, <3>1, <3>2
  <2>4. CASE checks # Torn /\ job[p].cmd # "scan"
    BY <1>4, <2>1, <2>4
  <2> QED BY <2>2, <2>3, <2>4
<1>8. CASE RunCheck(p)
  <2> DEFINE left == job[p].checks
  <2>1. left \in Seq(Checks) /\ job[p].results \in Results /\ exit' = exit /\ job[p].cmd = "scan"
    BY <1>0, <1>8 DEF Jobs, RunCheck, JobInv, Scanning
  <2>2. CASE left = <<>>
    BY <1>4, <1>8, <2>2, <2>1 DEF RunCheck
  <2>3. CASE left # <<>>
    <3>3. CASE Head(left).disabled
      <4>1. job'[p] = [job[p] EXCEPT !.checks = Tail(left)]
        BY <1>0, <1>8, <2>3, <3>3 DEF RunCheck, TypeOK
      <4>2. job'[p].results = job[p].results /\ job'[p].cmd = job[p].cmd
        BY <1>0, <2>1, <4>1 DEF Jobs
      <4> QED BY <1>4, <2>1, <4>2
    <3>4. CASE ~Head(left).disabled
      <4>1. PICK tool \in Outcomes(Head(left)) :
              job' = [job EXCEPT ![p].checks  = Tail(left),
                                 ![p].results = Append(@, runCheck(Head(left), tool))]
        BY <1>8, <2>3, <3>4 DEF RunCheck
      <4> DEFINE new == runCheck(Head(left), tool)
      <4>2. Head(left) \in Checks
        BY <2>1, <2>3
      <4>3. Seen(new)
        BY <4>2, FailureSeen
      <4>4. job'[p] = [job[p] EXCEPT !.checks = Tail(left), !.results = Append(@, new)]
        BY <1>0, <4>1 DEF TypeOK
      <4> HIDE DEF new
      <4>5. job'[p].results = Append(job[p].results, new) /\ job'[p].cmd = "scan"
        BY <1>0, <2>1, <4>4 DEF Jobs
      <4>6. \A i \in DOMAIN Append(job[p].results, new) :
               \/ i \in DOMAIN job[p].results /\ Append(job[p].results, new)[i] = job[p].results[i]
               \/ Append(job[p].results, new)[i] = new
        BY <2>1 DEF Results
      <4>7. \A i \in DOMAIN job'[p].results : Seen(job'[p].results[i])
        BY <4>3, <4>5, <4>6 DEF GateInv, JobGate
      <4> QED BY <2>1, <4>5, <4>7 DEF GateInv, JobGate
    <3> QED BY <3>3, <3>4
  <2> QED BY <2>2, <2>3
<1>9. CASE ReadTasks(p)
  <2>1. CASE Finish(p, 1)
    BY <1>3, <2>1
  <2>2. CASE /\ job' = [job EXCEPT ![p].copy = [tasks EXCEPT ![job[p].task] = Done(@, job[p].date)]]
             /\ UNCHANGED exit
    <3>1. job'[p].results = job[p].results /\ job'[p].cmd = job[p].cmd
      BY <1>0, <2>2 DEF TypeOK, Jobs
    <3> QED BY <1>4, <2>2, <3>1
  <2> QED BY <1>9, <2>1, <2>2 DEF ReadTasks
<1>10. CASE LoadRuns(p) \/ LoadTasks(p)
  <2>1. job'[p].results = job[p].results /\ job'[p].cmd = job[p].cmd
        /\ exit' = exit
    BY <1>0, <1>10 DEF LoadRuns, LoadTasks, TypeOK, Jobs
  <2> QED BY <1>4, <2>1
<1>11. CASE Exit(p)
  <2>1. job[p].cmd # "scan" => GatingFail(job[p].results) = {}
    BY DEF GateInv, JobGate, GatingFail, tally
  <2> QED BY <1>3, <1>11, <2>1 DEF Exit
<1>12. CASE Die(p)
  BY <1>3, <1>12 DEF Die
<1>13. CASE OpenRun(p) \/ WriteRun(p) \/ OpenTasks(p) \/ WriteTasks(p)
            \/ OpenBadge(p) \/ writeBadge(p) \/ OpenPage(p) \/ WritePage(p)
  <2>1. job' = job /\ exit' = exit
    BY <1>13 DEF OpenRun, WriteRun, OpenTasks, WriteTasks, OpenBadge, writeBadge, OpenPage, WritePage
  <2> QED BY <1>4, <2>1
<1> QED BY <1>5, <1>6, <1>7, <1>8, <1>9, <1>10, <1>11, <1>12, <1>13 DEF Command

\* Whatever checks the configurations make a gate of, and however people change them
\* between scans, a scan that exits 0 had no gating check with severe findings and none
\* whose tool failed under a strict parser.
THEOREM GateSound == Spec => []GateHolds
<1>1. Init => GateInv
  BY DEF Init, GateInv, JobGate, ExitGate, NoJob, NoExit
<1>2. IInv /\ GateInv /\ [Next]_vars => GateInv'
  <2> SUFFICES ASSUME IInv, GateInv, [Next]_vars PROVE GateInv'
    OBVIOUS
  <2>1. ASSUME NEW p \in Procs, Command(p) PROVE GateInv'
    BY <2>1, GateStep
  <2>2. CASE Tick \/ UNCHANGED vars
    BY <2>2 DEF Tick, vars, GateInv
  <2> QED BY <2>1, <2>2 DEF Next
<1>3. GateInv => GateHolds
  BY DEF GateInv, ExitGate, Stops, GateHolds
<1> QED BY <1>1, <1>2, <1>3, IInvHolds, PTL DEF Spec
=============================================================================
