# Verification of the tamper-evident audit log

TLA+ models of the audit server (`cmd/server`), the log forwarder
(`cmd/log-forwarder`), the client libraries (`clients/`) and the security
dashboard (`cmd/security-dashboard`), the TLC runs that check them on small
instances, and theorems about all of these parts but queries, with
proofs checked by TLAPS. Paths and line numbers refer to `src/`.

## 1. The system

| Part | State it keeps | Operations |
|---|---|---|
| **hash chain** (`cmd/server/main.go`) | none: entries (index, timestamp, prevHash, payloadHash, entryHash, record) | seal an entry on a head; walk a log and report the first line that does not follow |
| **file backend** (`FileStore`) | the file of JSON lines; `lastIndex`, `lastHash` in memory; one mutex | `NewFileStore`, `Append`, `Verify`, `QueryLogs` |
| **Postgres backend** (`PostgresStore`) | table `audit_log_entries`; no head in memory; advisory lock 987654321 | `Append` (one transaction), `Verify`, `QueryLogs` (statements without a transaction) |
| **queries** (`query.go`, both `QueryLogs`, the limits of `loadConfig`) | none | parse and bound a request, cursors, pages, totals |
| **client registry** (`auth.go`, `clientstore_postgres.go`, `clients_cli.go`, `router.go`) | table `audit_clients` | `audit clients register/list/rotate/revoke`; `requireAuth`; stamping of writes; scoping of reads |
| **forwarder** (`follower.go`, `main.go`, `delivery.go`, `checkpoint.go`, `config.go`, `parser.go`) | open file, `readOffset`, `committedOffset`, `pending`; checkpoint file; dead-letter file | load and validate the configuration, read, cut lines, parse, deliver or dead-letter, checkpoint, follow rotation and truncation |
| **client libraries** (`go-lib/client.go`, `node-lib/index.mjs`) | one call: attempt, backoff, previous delay | `WriteLog` / `writeLog` with retries |
| **security dashboard** (`checks.go`, `main.go`, `render.go`, `badge.go`, `tasks.go`) | the files of `security/`: a manifest per run, `tasks.json`, `badge.svg`, `dashboard.html` | `scan` (with its exit code as a gate), `render`, `task done`; `task list` and `bundle` only read |
| **dashboard init** (`init.go`) | `config.json`, which people edit too; `tasks.json` when there is none | detect the stack, propose checks, merge; `--dry-run`, `--force`, and `--check` as a CI gate |
| metrics, integrity verifier of the forwarder | none that anything depends on | not modelled |
| producers, retry simulator, deployment scripts | none | not modelled |

How they interact: a producer or the forwarder calls a client library, which
POSTs to the server, possibly several times; `requireAuth` resolves the token
in the registry; the handler stamps the record with the client id and calls
`Append` of the configured backend; readers page through `GET /v1/logs`, and
`GET /v1/verify` walks the chain. The forwarder's own input is a file that an
application writes and that log rotation renames or truncates. Goroutines of
one server share the `FileStore` and its mutex; several server processes may
share the database, where only the advisory lock orders them. The dashboard is
separate: its commands run by hand, in a pre-push hook and in CI, and share
nothing with the server.

What is hard to get right, and what has to hold:

- *Storage failures* (file backend). `Append` writes one buffer and never
  repairs what a failed or interrupted write leaves. No acknowledged entry may
  be lost or overtaken without `/v1/verify` reporting it, and a restart must
  take over the head that is on disk or refuse.
- *Interleaving and lost connections* (Postgres backend). The head is read in
  one statement and used in another; a `COMMIT` may take effect after its caller
  was told 500. The table must stay one gap-free chain.
- *Reading while others write*. Pages must neither skip nor repeat an entry,
  and two implementations of paging must agree at every limit.
- *Commands racing with requests* (registry). A rotated or revoked token must be
  dead for requests that arrive later, and attribution must survive rotation and
  revocation.
- *Lost answers* (client libraries). A retry may store an entry twice, but only
  when the client could not know; a call must end within its deadline.
- *Crashes, rotation, truncation* (forwarder). The checkpoint must not pass a
  line that was not handled, also when the power goes between the steps that
  write it, and the halves of two lines must not be joined.
- *Commands that share files without a lock* (dashboard). A tool that fails must
  stop the gate, whatever its parser makes of its output; a command that dies
  must not leave a page that a later one does not repair; completions of manual
  tasks must not get lost, and lapsed ones must not be called on schedule.
- *A generated file that people edit* (`init`). A re-run must keep what people
  wrote and turned off, settle, and as a gate notice every hole in the coverage.

The full list, each hazard at its line, is under `hazards` in `PROJECT.json`.

## 2. Modules

| Module | Models | Checked by |
|---|---|---|
| `AuditChain` | entries, `Seal`, the verification walk | every store run |
| `AuditLog` | abstract: what the `Store` interface promises | refined by both backends |
| `FileStore` | the file backend | `FileStore`, `FileStorePowerLoss` |
| `PostgresStore` | the Postgres backend | `PostgresStore` |
| `LogQuery` | parsing, paging of both backends, a paging reader | `LogQuery` |
| `ClientRegistry` | registry, commands, requests | `ClientRegistry` |
| `RetryClient` | one call of either client library | `RetryClient` |
| `ForwarderConfig` | operators: configuration, parser and client settings of the forwarder | `Forwarder`, `RetryClient` |
| `Forwarder` | follower, delivery callback, checkpoint file; extends `ForwarderConfig` | `Forwarder`, `ForwarderRotation` |
| `Dashboard` | `scan`, `render`, `task done` and their files | `Dashboard`, `DashboardGate` |
| `DashboardInit` | `init` and the people who edit its files | `DashboardInit`, `DashboardInitCheck` |
| `AuditChain_proofs` | lemmas on chained logs and the verification walk, used by both backends | TLAPS |
| `FileStore_proofs`, `PostgresStore_proofs` | safety of the backends, and that each implements `AuditLog` | TLAPS |
| `ClientRegistry_proofs`, `RetryClient_proofs`, `Forwarder_proofs`, `Dashboard_proofs`, `DashboardInit_proofs` | safety of these components | TLAPS |
| `MC...` | symmetry sets and configuration sets of the runs; `MCRetryClient` joins `RetryClient` and `ForwarderConfig` | |

An operator whose comment describes a mistake (`LockShared`,
`NewFileStoreRepairs`, `StampSent`, ...) is not part of any specification. It is
a plausible bug, listed under `mutants` with the property that detects it when
it replaces the operation it stands before.

### AuditChain and AuditLog

SHA-256 is symbolic: the hash of an entry is the sequence of everything it
commits to (its predecessor's hash, its index, timestamp and payload hash), so
it is injective by construction; this is the usual assumption of collision
freedom. `LineOk` is one iteration of `verifyChainUnsafe`, `VerifyResult` its
result. The same operators serve Postgres, whose `Verify` makes the same
comparisons on rows in index order.

`AuditLog` says what callers may rely on: entries are only ever sealed onto the
end; what was acknowledged stays; a log may become *damaged* (verification
reports it), only after a storage failure, only once and for ever, and the
damage may take the last entry only when nobody was told about it.

### FileStore

`lines` is what a `bufio.Scanner` reads, `open` says that the last line has no
newline. A write either completes (`AppendWrite`), fails (`AppendFails`) or is
cut off by a crash (`CrashInWrite`); the last two leave nothing, part of a line,
or the whole line without its newline, and `Append` leaves that as it is. A
later write is glued to an unterminated line. `NewFileStore` verifies the file
and refuses to serve (the process exits, and may be started again) when it does
not verify. `Call` to `Return` is one HTTP request; all of `Append`, `Verify`
and `QueryLogs` hold the mutex from `Lock` to `Return`. `QueryLogs` here is the
query without a filter that fits on one page; `LogQuery` has the rest.
`SpecPowerLoss` adds `PowerLoss`: `Append` never calls fsync, so any number of
trailing lines, or part of one, may be gone.

### PostgresStore

Each statement of `Append` is an action: `Begin`, `AdvisoryLock`, `ReadHead`
(one SELECT, one snapshot), `Insert` (waits for an uncommitted row with the same
key, fails on a committed one), `Commit`, `Answer`. `StatementFails` is an error
with rollback. `ConnectionLost` answers 500 at once while the session lives on
as an *orphan* that holds the lock until the database rolls it back or carries
out a `COMMIT` it had received. `Verify` is one SELECT; a query with
`count=true` is two.

### LogQuery

`loadConfig` makes the limits in force of what the environment gives
(`envInt`). A raw request gives each parameter as absent, unparsable or a number;
`parseLogQuery`, `decodeCursor` and `normalizeLimit` are `query.go`. The file
backend is the loop of `FileStore.QueryLogs`, one `ScanLine` per line, the
Postgres backend the filters, the cursor and `LIMIT n+1 OFFSET k`. `int64`
wraps, at a scaled-down `MaxInt64`. Readers follow `nextCursor` to the end as
`docs/querying.md` describes, while entries are appended.

### ClientRegistry

Operators run `audit clients` commands: the database is opened, the flags are
parsed, one statement is executed, and its result is printed or lost. Requests
arrive with any token issued so far (or none), are authenticated against the
row of that moment (`requireAuth`), and handled later, when the row may have
changed. Appending is one atomic step here, which is what `AuditLog` grants; the
answer may still be 500, when the result of a `COMMIT` is lost. `HandlerFails` is
a body or a query that is refused (a 413 is counted as a 400) and a store that fails.
A secret is a number; `minted` counts them, so a later token of a client has a
larger secret.

### RetryClient

One call with one configuration. `Send` puts an attempt on the network; the
server may store it, refuse it or fail (`Serve`), also after the client gave up
on it, and each answer may be lost. `computeRetryDelay` (Go) and
`computeRetryDelayMs` (Node) are the sets of delays the random choice ranges
over, each with its own library's reading of the jitter (`GoJitter`, `NodeJitter`).
Go returns a refusal where it meets it; Node throws, and whether the error is final
is decided in the `catch` that also meets network errors (`Throw`, `Catch`). The Go caller's context may end at any moment (`ContextEnds`).

The forwarder calls `WriteLog` with a deadline (`delivery.go:88`), so for such
configurations time is counted: `Elapse` is what a request takes, at most the
timeout of the HTTP client and what is left of the deadline, `Wake` needs the
whole delay to fit, and `SleepCancelled` is `sleepWithContext` at the deadline.
These configurations are `ClientConfig(applyDefaults(raw))` for the raw files that
`Validate` accepts: the composition of the forwarder's configuration with the
library. `ClientConfig` is in milliseconds; the run scales it to units of 50 ms,
rounding up, so that what is positive stays positive.

### ForwarderConfig

`applyDefaults`, `Problems` (`Validate`) and `Accepted` (`LoadConfig`) work on a
config file of which the spelling of the mode, the presence of the required
strings, whether the pattern compiles, and the numbers are kept. `Parse` maps
each kind of line (a JSON object, a line that matches the pattern, other text, a
blank line) to an event, an event without a message, which `WriteLog` refuses to
send, or an error.

### Forwarder

A line is two units, so half of it can be read. `Read` and `CutLine` are
`readAvailable`, the callback of `main.go` is `ParseFails`, `Delivered`,
`DeliveryFails` (dead letter) or `DeadLetterFails` (the error ends the process),
`SaveAfterLine` is the checkpoint after each line. A checkpoint is two steps: the
synced temporary file is renamed (`SaveCheckpoint`), then the directory is synced
(`SyncDirectory`); `durable` is what a loss of power between the two may bring
back. `PowerLoss` may also erase dead letters, which are never synced. `StatFile`
and `SwitchFile` are the two halves of `handleFileChanges`, with the second
`readAvailable` (labels `drain...`) between them. `Tick` is the `select` of `Run`.
The application and the log rotation are external actions and may come between
any two of these steps. `gentle` restricts the environment (not the program): the
file is only rotated while the forwarder follows it and the application is
between two lines, the application switches at once, and the forwarder is not
stopped or killed between a rotation and its switch of files. What becomes of a
line follows from its kind and the configured mode (`ForwarderConfig!Parse`).

### Dashboard

Processes run `scan`, `render` and `task done`. Every write of a file is two
steps, because `os.WriteFile` and `os.Create` truncate first: in between, and
for good after a death, the file is `Torn`. `RunCheck` picks what a tool does
(missing, or an exit code and a report: clean, minor, severe, a JSON object that is
not its report at all, or text that does not parse) and passes over checks that are
turned off; `parseResult` grades it as each parser does. A tool has `Failed` when it
exits 1 without a report, or runs tests. `LoadConfig` may find any of
`Configs`, because people edit `config.json`, or a file that does not parse.
`task done` reads it last, after the completion is recorded. The run's id is the
second it started in. `LoadRuns` and `LoadTasks` skip what does not parse, as the code
does. `Done` is what `markTaskDone` does to a task, `taskStatus` the state the
page shows it in, `summarizeTasks` the class of the verdict on all of them; a
cadence is its number of days, 0 for event-driven.

### DashboardInit

One `init` at a time runs against files that people edit at any moment. A command
is the set of substrings that `covered` looks for; the checks of a configuration
and the proposals are sets, because nothing depends on their order; `Table` and
`NodeAudit` are the proposals of `proposalsFor`. `job` is what a running command
holds: its options, what it read and, after `Detect`, what it will write. `ReadConfig`, `Detect`, `OpenConfig`, `WriteConfig`,
`OpenTasks`, `WriteTasks`, `Exit` are `runInit` in its order: the stat of
`tasks.json` comes before the configuration is written. `edits` is what people
wrote and the files owe them: saving a check, turning one off, authoring evidence
and working on tasks put something into it, and only the three events that the
comment of `EditsKept` names take it out. An edit names a check by what people
wrote of it (`Plain`), apart from whether it is turned off. `gate` is the verdict of the last
`--check` with the configuration and the project it looked at.

## 3. Runs

| Run | Result | What it shows |
|---|---|---|
| `FileStore` | holds | `NoSilentLoss`: a file that verifies holds every entry answered with 201. `NoFork`: one 201 per index. `ReadYourWrites`: a query or verification that succeeds covers what was acknowledged before. `DamageIsPermanent`. `ImplementsAuditLog`. `CallsReturn`. |
| `FileStorePowerLoss` | `NoSilentLoss` fails | A power loss after the 201 may leave a shorter file that verifies: a deletion `/v1/verify` does not detect (`README.md:13`). |
| `PostgresStore` | holds | `HeadStaysCurrent`: the head read under the lock is current until the commit, so the primary key never rejects an append. `TableIsChain`, `AckedStored`, `ReadYourWrites`, `ImplementsAuditLog` (never damaged), `CallsReturn`. |
| `LogQuery` | holds | `PagesComplete`: paging while others append returns every matching entry once and in order, and a cursor always leads to a non-empty page. `PageRespectsQuery`: no request gets an entry at or before its cursor, or more than the limit it asked for and the one configured, whatever the operator configured. `BackendsAgree`: both backends return the same response to every valid request of paging, client and app, up to the case of app labels. |
| `ClientRegistry` | holds | `CutOver`: a request that arrives with a rotated or revoked token never succeeds, and 401 only goes to tokens that do not work. `ReadsOwnEntries`: attribution. `ExitZeroTookEffect`, `RevokedForGood`: commands. |
| `RetryClient` | holds | `DuplicatesOnlyWhenUnsure`: success means stored, and an entry is stored twice only when the client could not know; `RefusalIsFinal`: also where Node's error passes through the retrying `catch`; `DelaysBounded`; `LibrariesAgree`: Go and Node draw from the same delays unless the jitter is negative; `DeadlineHolds`: a delivery of the forwarder never outlives `request_timeout_ms`, and a request that hangs is its last; `CallReturns`. |
| `Forwarder` | holds | `CheckpointNotAhead`: every line below the checkpoint is stored or dead-lettered, or not in the configured format; `OnlyWholeLines`; `FewResent`: at most one line is sent again per crash or loss of power; `OffsetsAgree`, also after truncation; `EveryLineHandled` where rotation is gentle. |
| `ForwarderRotation` | `NothingLost` fails | Without that restriction, a rotation while the forwarder is down loses the rest of the old file (`docs/log-forwarder-plan.md:15`, `176`). |
| `Dashboard` | holds | `GateHolds`: a scan that exits 0 had no gating check with severe findings (`gosec` and `semgrep` grade none), and no gating tool that failed under one of the five strict parsers (`exit`, `gotest`, `gitleaks`, `sarif`, `eslint-json`). `PageMatchesDisk`: a command that ran alone leaves page and badge as the files are, also after earlier deaths and when the gate failed. `CompletionsKept`: only a stale copy loses a completion. `DoneShowsDone`. `SummaryHonest`: the page calls the tasks on schedule only when each has a recorded completion whose deadline had not passed. |
| `DashboardGate` | `DeadScanNotGreen` fails | Not all parsers are strict. `govulncheck` passes a tool that dies without a report, as a gate (`checks.go:112`, `146`); `npm-audit` takes an error object for a report without findings (`checks.go:124`, `475`), as in `security/runs/20260902T214509Z.json:95`. With both, a scan none of whose tools worked exits 0 with every check passed. |
| `DashboardInit` | holds | `EditsKept`: what people put into the files stays through re-runs and deaths, up to three named events. `InitSettles`: after an undisturbed `init` everything is covered and one more changes nothing. `CheckSeesHoles`: `--check` exits 0 only when every required job has a check, enabled or turned off on purpose, and every enabled check has its directory. |
| `DashboardInitCheck` | `NodeAudited` fails | At the root any command with "audit" in it, such as `pip-audit`, covers a `package.json` (`init.go:47`, `474`). |

Differences between documents or comments and code that came up while modelling
and have no run of their own:

- *Server.* `COUNT(*)` and the page are two snapshots, so `items` can outnumber
  `total`, "the size of the whole matching set" (`docs/querying.md:120`,
  `main.go:598`). The 409 of `/v1/verify` is said to mean "entries were altered"
  (`docs/authorization.md:207`), but a failed write alone causes it, as the
  reachable damage of `FileStore` shows. `app` is "Exact match"
  (`docs/querying.md:133`), but the file backend ignores case (`main.go:698`, the
  exception in `BackendsAgree`). A missing flag of `audit clients` exits 1 while
  the database is down (`clients_cli.go:203`), where `docs/authorization.md:61`
  promises exit code 2 "before the database is touched".
- *Client libraries.* A negative jitter is 0 in Go (`client.go:108`) and the default of
  100 ms in Node (`index.mjs:43`): the exception in `LibrariesAgree`. No document says
  what it means.
- *Forwarder.* A request that hangs uses up the deadline of its delivery, so it is
  dead-lettered after one attempt whatever `retry_max_attempts` says
  (`delivery.go:88`; `docs/log-forwarder-plan.md:113` plans retries for network
  failures). A rejected line is only counted (`main.go:78`), where
  `docs/log-forwarder-plan.md:224` plans a "dead-letter with raw line capture".
  Mode `custom` never compiles `regex_pattern` (`parser.go:29`), so it has no
  regex step. A blank line in mode `custom` has no message and always becomes a
  dead letter. The checkpoint is to move "only after successful server response"
  (`docs/log-forwarder-plan.md:133`), but also moves past dead letters, which are
  not synced (`delivery.go:76`). A restart while the file is missing fails in
  `Validate`.
- *Dashboard.* Two overlapping commands can leave an older page than the files
  (`main.go:350` re-renders "so the page and the manifest never disagree"). A
  gating check with status `error` fails the gate but is not named (`main.go:268`).
  `task` "needs no config" (`main.go:225`), but `task done` exits 1 after recording
  when `config.json` does not parse. A task with an unreadable date, and a
  `tasks.json` that does not parse, count as on schedule (`tasks.go:194`, `403`).
  Of the parsers that are not strict, `gosec-json` and `semgrep-json` take a missing
  field for zero findings on purpose (`checks.go:305`), and `vitest-json` passes a run
  in which no test failed, whatever its exit code. The repository's own `config.json`
  gates on `exit`, `gotest`, `gitleaks` and `govulncheck`; the others are advice there.
- *Dashboard init.* Unknown fields of a check are dropped, although "a key this
  binary doesn't know about survives the merge" (`init.go:647`, true at the top
  level only). What people save while `init` runs is overwritten. A torn
  `config.json` needs `--force`, which drops all of it; a torn `tasks.json` is
  never seeded again. Recorded documents are not cleared when the last one is
  removed. A required check that people turned off counts as covered, as intended
  (`init.go:110`, `main.go:115`), so `--check` vouches for checks that exist, not for
  checks that run. A switch of package managers goes unnoticed, and directories `a-b` and
  `a/b` get the same key.

### Bounds

- `FileStore`: two goroutines, two records, appends below index 3, two faults.
  Two faults allow a torn write followed by a crash, or two torn writes; with
  two goroutines one can hold the mutex while the other waits; three indexes let
  an entry be written before, at and after the damage.
- `PostgresStore`: two sessions, two records, three rows, two faults: an orphan
  and another fault while the other session waits.
- `LogQuery`: four entries of two clients and two app labels that differ in
  case; default limit 2, maximal limit 3 and maximal offset 2, or a configured
  default of 3 above a maximum of 1; `MaxInt64` 5. So every bound lies inside the
  log and cursors go past the wrap.
- `ClientRegistry`: two ids, two operators, one request, two secrets (two
  clients, or one and its rotation), one attributed entry besides the legacy
  one, one outage or lost result.
- `RetryClient`: 486 configurations: both languages, three strategies, and
  for each number a negative, zero, crossing or ordinary value; up to three
  attempts. And 18 config files of the forwarder, with backoffs of 0 or 20 to
  150 ms, up to five attempts and a deadline of 250 ms, which a few sleeps fill.
- `Forwarder`: three lines of two units, one of each kind but `pattern`, a buffer of
  three units (so that a read ends in the middle of a line), three mishaps: up to
  two rotations, one truncation, the rest crashes, interrupts and losses of power.
  Mode `custom` with rough rotation, mode `json` with gentle rotation, and a file
  that `Validate` rejects.
- `Dashboard`: two processes, two commands, one death, a clock of two days; a gate
  with one of four parsers, which go by the exit code, by both, by a document of the
  right form or by any document (the theorem is about all ten), an advisory check next
  to a disabled gate, and a file that does not parse; one task with an agreed date that
  has passed and one with an unreadable date. Two commands are enough for a stale copy, a stale page, and a command
  after one that died; completions may be backdated, so that a task can be
  overdue, or lie a day ahead (`MaxAhead`).
- `DashboardInit`: a Go module at the root, a Node and a Ruby project below it and
  one under `vendor` (the theorem is about every language); two hand-written checks,
  one document; two changes by people, three commands, one death. Three commands are an `init`, one that is disturbed or
  dies, and the `init` or `--check` after it.

Symmetry is used in `ClientRegistry` (ids, operators, requests) and `Dashboard`
(processes), which no definition tells apart; these runs check no liveness.
`RetryClient`, `LogQuery`, `Dashboard` and `DashboardInit` may stop (a call has
returned, the log is full, no commands are left), so they do not check deadlock; all others do.

### Fairness

- `FileStore`: weak fairness of each goroutine (the Go scheduler), strong
  fairness of `Lock` (a `sync.Mutex` enters starvation mode and hands itself to
  a goroutine that was passed over).
- `PostgresStore`: weak fairness of each session, the database's cleaning up of
  broken sessions included, strong fairness of the advisory lock (Postgres
  queues waiters).
- `RetryClient`: weak fairness of the client. Its HTTP timeout makes `DoFails`
  possible whenever it waits, so no fairness of server or network is needed.
- `Forwarder`: weak fairness of the process, its restart included (the systemd
  unit restarts it), and of the rotation creating the file it renamed. The
  application and crashes have none.

## 4. Proofs

The theorems hold for every value of the constants: any number of goroutines,
sessions, operators, requests or processes, any records, lines, tasks and
configurations, and any bound on faults.

| Theorem | Says |
|---|---|
| `AuditChain_proofs!HeadPinsLog` | two logs that verify and have the same head hash are equal: the head commits to the whole log |
| `FileStore_proofs!TypeCorrect` | `Spec => []TypeOK` |
| `FileStore_proofs!AckedEntriesKept` | `Spec => []NoSilentLoss` |
| `FileStore_proofs!IndexesUnique` | `Spec => []NoFork` |
| `FileStore_proofs!DamageStays` | `Spec => DamageIsPermanent` |
| `FileStore_proofs!FileImplementsAuditLog` | `Spec => ImplementsAuditLog`: the refinement of `AuditLog` |
| `FileStore_proofs!WritesAreRead` | `Spec => []ReadYourWrites` |
| `PostgresStore_proofs!TypeCorrect` | `Spec => []TypeOK` |
| `PostgresStore_proofs!TableStaysChain` | `Spec => []TableIsChain` |
| `PostgresStore_proofs!AckedRowsKept` | `Spec => []AckedStored` |
| `PostgresStore_proofs!HeadNeverStale` | `Spec => []HeadStaysCurrent` |
| `PostgresStore_proofs!PostgresImplementsAuditLog` | `Spec => ImplementsAuditLog` |
| `PostgresStore_proofs!WritesAreRead` | `Spec => []ReadYourWrites` |
| `ClientRegistry_proofs!TypeCorrect` | `Spec => []TypeOK` |
| `ClientRegistry_proofs!TokensCutOver` | `Spec => []CutOver` |
| `ClientRegistry_proofs!OwnEntriesRead` | `Spec => []ReadsOwnEntries` |
| `ClientRegistry_proofs!ExitZeroHonest` | `Spec => []ExitZeroTookEffect` |
| `ClientRegistry_proofs!RevocationFinal` | `Spec => RevokedForGood` |
| `RetryClient_proofs!TypeCorrect` | `Spec => []TypeOK` |
| `RetryClient_proofs!DuplicatesExplained` | `Spec => []DuplicatesOnlyWhenUnsure` |
| `RetryClient_proofs!RefusalReturned` | `Spec => []RefusalIsFinal` |
| `RetryClient_proofs!DelaysInRange` | `Spec => []DelaysBounded` |
| `RetryClient_proofs!DeadlineKept` | `Spec => []DeadlineHolds` |
| `RetryClient_proofs!SameDelays` | `Spec => []LibrariesAgree` |
| `RetryClient_proofs!ForwarderConfigsFit` | every config file the forwarder accepts makes a client configuration, in milliseconds, as `RetryClient` assumes it, with a deadline |
| `Forwarder_proofs!TypeCorrect` | `Spec => []TypeOK` |
| `Forwarder_proofs!OffsetsAlwaysAgree` | `Spec => []OffsetsAgree` |
| `Forwarder_proofs!WholeLinesOnly` | `Spec => []OnlyWholeLines` |
| `Forwarder_proofs!CheckpointBehindWork` | `Spec => []CheckpointNotAhead` |
| `Forwarder_proofs!FewAreResent` | `Spec => []FewResent` |
| `Dashboard_proofs!TypeCorrect` | `Spec => []TypeOK` |
| `Dashboard_proofs!GateSound` | `Spec => []GateHolds` |
| `Dashboard_proofs!PageTrue` | `Spec => []PageMatchesDisk` |
| `Dashboard_proofs!CompletionsStand` | `Spec => []CompletionsKept` |
| `Dashboard_proofs!DoneIsShown` | `Spec => []DoneShowsDone` |
| `Dashboard_proofs!VerdictHonest` | `Spec => []SummaryHonest` |
| `DashboardInit_proofs!TypeCorrect` | `Spec => []TypeOK` |
| `DashboardInit_proofs!EditsAreKept` | `Spec => []EditsKept` |
| `DashboardInit_proofs!InitComesToRest` | `Spec => []InitSettles` |
| `DashboardInit_proofs!CheckVouches` | `Spec => []CheckSeesHoles` |

What they assume of the constants is in the `ASSUME`s of the modules, and TLC
evaluates them on every run. Most of it says that the special values (`Garbage`, `Torn`,
`None`, "nobody") are none of the ordinary ones and that bounds are natural
numbers. One assumption says more. `RetryClient!ConfigsAssumption` says that a
call with a deadline is a Go call whose HTTP timeout is at most that deadline and
whose maximal backoff is not below the initial one; `ForwarderConfigsFit` proves
it of every file that `Validate` accepts, and only the forwarder sets a deadline.
No theorem about a specification has a hypothesis of its own: what `GateHolds`, `LibrariesAgree` and
`CheckSeesHoles` do not promise is in the properties themselves.

Each proof finds an inductive invariant (`IInv`, where one serves all theorems of a
module), which TLC checked on the bounds of the run before it was proved.

*File backend.* `NoSilentLoss` is not inductive: a later append might reuse an
index whose line is on disk. `IInv` adds that the mutex has one holder
(`MutexInv`), that on a file that verifies the head in memory is its end, or one
behind while an entry is written and not yet returned (`ServesKnownFile`,
`WrittenInv`), that an unterminated last line was never acknowledged (`OpenInv`),
and that no acknowledged index is above the head (`AckedInv`). The lemma that
carries the proof is `WriteEffect`: if the file verifies *after* a write, whole
or partial, it verified before, the last line was terminated, and the write
appended the entry. So whatever a failed write does, either the file is damaged
from then on or it is an ordinary extension. For the refinement, the log that
`AuditLog` sees is the prefix that verifies. A step of the walk depends on the
lines before it only (`SameVerifiedPrefix`, `DamagedPrefixKept`), so a write behind
the damage is a stutter; that damage takes a storage failure needs `OpenIsFault`
and `DamageShows`, because a line can be damaged by the *next* write, which is
glued to it. `ReadYourWrites` relates a read to the acknowledgements before its
call (`SeenInv`).

*Postgres backend.* `IInv` says that the session inside its transaction holds
the lock (`LockInv`), that its head is the table's (`HeadStaysCurrent`), that an
uncommitted row, also an orphan's, is the sealed successor of the committed table
and a committed one is in it (`RowInv`), and that the table is a chained sequence.
Since at most one session holds the lock, a commit leaves no other transaction
with a stale head. A commit is the `Store` step of `AuditLog`, whoever is told
about it, and every other step but the answer a stutter.

*Client registry.* The argument is that a dead token stays dead. `Evolves` says
what any step may do to the registry: rows stay, secrets only grow, revocation is
for good. Every step is one, `RevokedForGood` follows at once, and the other parts
of `IInv` are stable under it: a request that came with a dead token never
authenticates (`ReqInv`), a 401 stays justified (`ReplyInv`), and a token that was
printed has a secret that the row has reached (`CommandInv`). `MintInv` bounds the
commands that will still generate a secret.

*Client libraries.* `SentInv` says that an earlier attempt which is still on the
network, or was stored, is one whose outcome the client could not know; `ResultInv`
relates the result of the call to the last attempt. `PauseInv` keeps the backoff
between its first and its maximal value through the doubling. `TimeInv` says that the
time used never exceeds the deadline, and that a request which used all of it has no
successor. That Go and Node agree is a lemma about the two operators
(`DelaysAgree`): they nest the same minima differently, and read every jitter but a
negative one alike.

*Forwarder.* `FileShape` describes what may be in a file: halves that alternate,
with an open half only where the application is writing. With it, `PendingInv` (what
is pending is what the file has between the two offsets, and the committed one is the
end of a line) gives `OnlyWholeLines`, and `CurInv` places the line in the callback.
`DoneInv` says that every line below the committed offset is done, or all but the one
in the callback; the checkpoint takes that over (`CheckpointInv`), and so does
`durable`, one step behind. These parts hold until a truncation, after which
offsets say nothing about lines any more; `OffsetsAgree` survives it.

*Lines sent again.* `FewResent` counts lines, and must hold through truncations too,
so its invariant, `FewInv`, is about lines and not offsets. `Open` is every line that
may still be handed over: by this process, from the file, from `pending` or in the
callback, or by one that resumes at the checkpoint or at `durable`. `Left` is the same
once the line at hand is checkpointed for good. `Sent(handled, Open)` is the set of
lines sent again so far, or that would be if everything open were sent. `DebtInv` bounds
its size by the number of crashes, plus one from the moment the callback returns until
the directory is synced; without the line at hand (`Left`) the bound has no plus one.
Every step but a delivery leaves `Open` the same or makes it smaller, and new lines are
not handled yet; a delivery adds one line, the sync takes it out, and a crash in between
pays for it. That the line at hand is not in `Left` needs `Distinct`: a completed line
is in one place of one file, and where it is also pending or in the callback that place
is below the offset read up to. `Placed` says that the path is only ever given to a new
inode, which no checkpoint names before the follower opened it, so that switching
files opens nothing that a restart would not.

*Dashboard.* `AloneInv` says that nobody else is active while a command runs alone, so
what it read stays what is on disk (`OwnRun`, `OwnTask`, `OwnPage`): its run is the
newest because ids are seconds and never ahead of the clock. `JobInv` is about commands
that overlap: the copy of tasks.json that a process holds is what was recorded plus its
own completion, unless somebody wrote the file since, which is what `raced` means.
`GateInv` follows one check from the configuration into the exit code; that the five
strict parsers never pass a tool that failed is a lemma about `parseResult` (`FailureSeen`).

*Dashboard init.* A proposal is `Sound`: the check it adds covers it; this is a case per
row of the table. `KeptInv` follows the
edits: what is in the file holds what people are owed, what a running command read holds
what was owed then (`job.known`), what it is about to write holds all that is still owed
(`MergeKeeps`), and a file that is torn owes nothing unless somebody is writing it. That
a check which people turned off is not added again rests on `covered` not looking at
`disabled`: two checks that differ in nothing else do the same jobs (`SameJob`). `RestInv`
says that what an undisturbed command is about to write is at rest (`MergeRests`): what was
missing is covered by what is added, and merging once more changes nothing. `Vouched`
takes every required row of the table from the file that makes it required to the check
that `covered` found for it: a check with the words in its command, or one that declares
or runs the tool. `init` believes what a check declares, and so does the property.

Only model-checked:

- Liveness (`CallsReturn`, `CallReturns`, `EveryLineHandled`): it rests on fairness,
  which is out of the prover's reach.
- Queries (`PagesComplete`, `PageRespectsQuery`, `BackendsAgree`): both backends filter
  and scan the whole log for a page, and what a filter or a scan returns for every log is
  an induction over the log, which is out of the prover's reach as well.

`TypeOK` of `LogQuery` is not part of a run; that of the other modules is proved.

## 5. Not modelled

- Byte-level encoding: JSON, base64 cursors, tokens, time formats. Line lengths,
  so also the scanner's 1 MiB limit (`main.go:265`, `342`) and the payload limit.
- Time, but for the deadline of a delivery and the clock of the dashboard:
  tickers and timeouts are nondeterministic choices.
- The level and text filters of queries (same shape as `app`; the two backends
  search different fields for text).
- The fields a line is parsed into, metrics and integrity verifier of the
  forwarder: they feed log lines and a metrics page only. The loss of the
  application's own file at a loss of power.
- Server bootstrap: the choice of the backend, the listener and its timeouts,
  method checks, the health endpoint. No state, one path each.
- Of the dashboard: `bundle` and `task list` (they only read), layout and grouping,
  the raw reports next to a manifest; of `init` the warnings, names and notes.
- Producers, the retry simulator, deployment scripts.

## 6. Plan

Every invariant and every action property that a run checks is proved, but for those of
`LogQuery`; the liveness properties are model-checked. What could follow:

- `LogQuery` with the page of a backend described by what it contains instead of how it
  is scanned, as an abstract specification that the scan is checked against by TLC; paging
  with that page could then be proved complete.
- A `COUNT(*)` and a page that are read from two snapshots (`main.go:598`).
- A truncated file that grows past the offset read before the next poll
  (`follower.go:173`), as a property of its own.
