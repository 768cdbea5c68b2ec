------------------------------- MODULE LogQuery -------------------------------
(***************************************************************************)
(* Reading the log: how a GET /v1/logs is parsed and bounded (query.go),   *)
(* which page each backend returns for it (the two QueryLogs), and the     *)
(* loop of docs/querying.md that reads everything page by page while       *)
(* others append.                                                          *)
(*                                                                         *)
(* An entry is its index, its client and its app; level and text are       *)
(* filters like app.  Clients are already scoped (see ClientRegistry).     *)
(***************************************************************************)
EXTENDS Integers, Sequences, SequencesExt

CONSTANTS Clients,       \* clients that write and read
          Apps,          \* app labels; "api" and "API" differ only in case
          Readers,       \* callers that read page by page
          None,          \* a parameter that is not given, a cursor that is null
          Bad,           \* a parameter that does not parse
          MaxEntries,    \* bound: entries in the log
          DefaultLimits, \* defaultQueryLimits(), scaled down: default, max, offset
          Environments,  \* what the environment may give for each of the three
          MaxInt64       \* math.MaxInt64, scaled down; uint64 goes to twice that

ASSUME LimitsAssumption ==
    /\ DefaultLimits \in [default : Nat \ {0}, max : Nat \ {0}, offset : Nat \ {0}]
    /\ \A e \in Environments : DOMAIN e = DOMAIN DefaultLimits
    /\ MaxEntries \in Nat /\ MaxInt64 \in Nat
    /\ {None, Bad} \cap (Int \cup Clients) = {}

EqualFold(a, b) == a = b \/ {a, b} = {"api", "API"}

Entries == [index : 1..MaxEntries, client : Clients, app : Apps]

VARIABLES log,     \* the entries, in order
          backend, \* "file" or "postgres"
          limits,  \* the QueryLimits in force
          reader   \* per reader, its loop: query, cursor, and what it got so far
vars == <<log, backend, limits, reader>>

-----------------------------------------------------------------------------
(* parseLogQuery.  A raw query gives each parameter as None, Bad or a value. *)

Error == [error |-> TRUE]

\* The bound of a Postgres BIGINT is not checked.
decodeCursorUnbounded(raw) ==
    IF raw = Bad \/ raw.version # "v1" THEN Error ELSE [index |-> raw.index]

\* A cursor is what encodeCursor made of an index; anything else, another
\* version, and an index no BIGINT can hold, is an error.
decodeCursor(raw) ==
    IF raw = Bad \/ raw.version # "v1" \/ raw.index > MaxInt64 THEN Error
    ELSE [index |-> raw.index]

encodeCursor(index) == [version |-> "v1", index |-> index]

Number(raw) == IF raw = None THEN 0 ELSE raw

\* A limit that is not set, does not parse or is not positive is the default.
envInt(raw, fallback) == IF raw \in {None, Bad} THEN fallback
                         ELSE IF raw <= 0 THEN fallback ELSE raw

loadConfig(env) == [n \in DOMAIN env |-> envInt(env[n], DefaultLimits[n])]

normalizeLimit(n) ==
    LET given == IF n <= 0 THEN limits.default ELSE n
    IN  IF given > limits.max THEN limits.max ELSE given

Invalid(raw) ==
    \/ raw.cursor # None /\ raw.offset # None
    \/ raw.cursor # None /\ decodeCursor(raw.cursor) = Error
    \/ Bad \in {raw.limit, raw.offset}
    \/ raw.offset # None /\ raw.offset > limits.offset

parseLogQuery(raw) ==
    IF Invalid(raw) THEN Error
    ELSE [client     |-> raw.client,
          app        |-> raw.app,
          limit      |-> normalizeLimit(Number(raw.limit)),
          offset     |-> IF Number(raw.offset) < 0 THEN 0 ELSE Number(raw.offset),
          afterIndex |-> IF raw.cursor = None THEN 0 ELSE decodeCursor(raw.cursor).index,
          wantTotal  |-> raw.count]

-----------------------------------------------------------------------------
(* FileStore.QueryLogs: one pass over the lines.                             *)

matchesQuery(entry, query) ==
    /\ query.client # None => entry.client = query.client
    /\ query.app # None => EqualFold(entry.app, query.app)

\* The count starts after the cursor.
ScanLineLateTotal(query, s, entry) ==
    IF s.stop \/ ~matchesQuery(entry, query) \/ entry.index <= query.afterIndex THEN s
    ELSE LET c == [s EXCEPT !.total = @ + 1]
         IN  IF c.skipped < query.offset THEN [c EXCEPT !.skipped = @ + 1]
             ELSE IF Len(c.items) < query.limit THEN [c EXCEPT !.items = Append(@, entry)]
             ELSE [c EXCEPT !.hasMore = TRUE, !.stop = ~query.wantTotal]

\* One line of the scan; stop is the break out of the loop.
ScanLine(query, s, entry) ==
    IF s.stop \/ ~matchesQuery(entry, query) THEN s
    ELSE LET c == [s EXCEPT !.total = @ + 1]
         IN  IF entry.index <= query.afterIndex THEN c
             ELSE IF c.skipped < query.offset THEN [c EXCEPT !.skipped = @ + 1]
             ELSE IF Len(c.items) < query.limit THEN [c EXCEPT !.items = Append(@, entry)]
             ELSE [c EXCEPT !.hasMore = TRUE, !.stop = ~query.wantTotal]

Result(query, items, hasMore, total) ==
    [items      |-> items,
     limit      |-> query.limit,
     offset     |-> IF query.offset > 0 THEN query.offset ELSE None,
     nextCursor |-> IF hasMore /\ items # <<>> THEN encodeCursor(Last(items).index) ELSE None,
     total      |-> IF query.wantTotal THEN total ELSE None]

FileQueryLogs(query) ==
    LET start == [items |-> <<>>, total |-> 0, skipped |-> 0, hasMore |-> FALSE, stop |-> FALSE]
        scan[n \in 0..Len(log)] ==
            IF n = 0 THEN start ELSE ScanLine(query, scan[n - 1], log[n])
        end   == scan[Len(log)]
    IN  Result(query, end.items, end.hasMore, end.total)

-----------------------------------------------------------------------------
(* PostgresStore.QueryLogs: SQL with one row more than the limit.            *)

\* int64(query.AfterIndex) of a uint64
int64(n) == IF n <= MaxInt64 THEN n ELSE n - 2 * (MaxInt64 + 1)

Filter(query, entry) ==
    /\ query.client # None => entry.client = query.client
    /\ query.app # None => entry.app = query.app

\* OFFSET skip LIMIT n
Slice(rows, skip, n) ==
    SubSeq(rows, skip + 1, IF skip + n < Len(rows) THEN skip + n ELSE Len(rows))

\* The extra row is not asked for.
FetchNoExtra(query, rows) == Slice(rows, query.offset, query.limit)

\* One row more than the page.
Fetch(query, rows) == Slice(rows, query.offset, query.limit + 1)

PostgresQueryLogs(query) ==
    LET filtered == SelectSeq(log, LAMBDA e : Filter(query, e))
        after    == SelectSeq(filtered, LAMBDA e : query.afterIndex > 0
                                                     => e.index > int64(query.afterIndex))
        rows     == Fetch(query, after)
    IN  Result(query,
               Slice(rows, 0, query.limit),
               Len(rows) > query.limit,
               Len(filtered))

QueryLogs(query) == IF backend = "file" THEN FileQueryLogs(query) ELSE PostgresQueryLogs(query)

-----------------------------------------------------------------------------
(* The paging loop and the writers.                                          *)

NoReader == [pc |-> "idle", raw |-> None, got |-> <<>>, from |-> 0, emptyNext |-> FALSE]

Init == /\ log = <<>>
        /\ backend \in {"file", "postgres"}
        /\ limits \in {loadConfig(env) : env \in Environments}
        /\ reader = [r \in Readers |-> NoReader]

AppendEntry ==
    /\ Len(log) < MaxEntries
    /\ \E c \in Clients, a \in Apps :
         log' = Append(log, [index |-> Len(log) + 1, client |-> c, app |-> a])
    /\ UNCHANGED <<backend, limits, reader>>

RawQueries(sizes, offsets, cursors, counts) ==
    [client : Clients \cup {None}, app : Apps \cup {None},
     limit : sizes, offset : offsets, cursor : cursors, count : counts]

Start(r) ==
    /\ reader[r].pc = "idle"
    /\ \E raw \in RawQueries({None, 1}, {None}, {None}, {FALSE}) :
         reader' = [reader EXCEPT ![r] =
                      [NoReader EXCEPT !.pc = "reading", !.raw = raw, !.from = Len(log)]]
    /\ UNCHANGED <<log, backend, limits>>

\* One page: its items are kept, and its cursor leads to the next or ends the loop.
NextPage(r) ==
    /\ reader[r].pc = "reading"
    /\ LET raw  == reader[r].raw
           page == QueryLogs(parseLogQuery(raw))
       IN  reader' = [reader EXCEPT ![r] =
             [@ EXCEPT !.got       = @ \o page.items,
                       !.raw       = [raw EXCEPT !.cursor = page.nextCursor],
                       !.pc        = IF page.nextCursor = None THEN "done" ELSE "reading",
                       !.emptyNext = @ \/ (raw.cursor # None /\ page.items = <<>>)]]
    /\ UNCHANGED <<log, backend, limits>>

Next == AppendEntry \/ \E r \in Readers : Start(r) \/ NextPage(r)

Spec == Init /\ [][Next]_vars

-----------------------------------------------------------------------------
(* Properties *)

TypeOK ==
    /\ log \in Seq(Entries) /\ limits \in [DOMAIN DefaultLimits -> Nat \ {0}]
    /\ \A r \in Readers : /\ reader[r].pc \in {"idle", "reading", "done"}
                           /\ reader[r].got \in Seq(Entries)
                           /\ reader[r].pc = "reading" =>
                                reader[r].raw.cursor \in
                                  [version : {"v1"}, index : 1..MaxEntries] \cup {None}

\* What a filter selects, in the backend that runs.
Matching(raw, upto) ==
    SelectSeq(SubSeq(log, 1, upto),
              LAMBDA e : IF backend = "file" THEN matchesQuery(e, raw) ELSE Filter(raw, e))

\* Reading page by page, while others append, returns each matching entry once
\* and in order, at the end every one that was there at the start, and no page
\* that a cursor led to is empty.
PagesComplete == \A r \in Readers : reader[r].pc # "idle" =>
    /\ ~reader[r].emptyNext
    /\ \E n \in 0..Len(log) : reader[r].got = Matching(reader[r].raw, n)
    /\ reader[r].pc = "done" =>
         Len(reader[r].got) >= Len(Matching(reader[r].raw, reader[r].from))

\* Every request the server accepts gets a page that is no longer than the limit
\* that was asked for and the one that is configured, and respects the cursor,
\* whatever cursor, limit and offset the caller sends and whatever the operator
\* configured, a default above the maximum included.
\* (Of every log, looked at once: before the readers start.)
AllRaw == RawQueries({None, -1, 1, limits.max + 1},
                     {None, -1, 1, limits.offset, limits.offset + 1},
                     {None, Bad} \cup [version : {"v0", "v1"}, index : 0..(2 * MaxInt64 + 1)],
                     BOOLEAN)
Unread == \A r \in Readers : reader[r].pc = "idle"
PageRespectsQuery == Unread =>
    \A raw \in {r \in AllRaw : ~Invalid(r)} :
      LET page == QueryLogs(parseLogQuery(raw))
      IN  /\ Len(page.items) <= limits.max
          /\ Number(raw.limit) > 0 => Len(page.items) <= raw.limit
          /\ raw.cursor # None =>
                \A i \in DOMAIN page.items : page.items[i].index > raw.cursor.index

\* The scan of the file and the SQL return the same response, items, cursor,
\* echoed offset and total, for every valid request for a page, of a client and an
\* app label (the level and text filters are left out), unless the log holds the
\* app label that is asked for in another case: the file backend matches it too,
\* the SQL does not.
OtherCase(app) == \E i \in DOMAIN log : log[i].app # app /\ EqualFold(log[i].app, app)
BackendsAgree == Unread =>
    \A raw \in {r \in AllRaw : ~Invalid(r) /\ (r.app # None => ~OtherCase(r.app))} :
      FileQueryLogs(parseLogQuery(raw)) = PostgresQueryLogs(parseLogQuery(raw))
=============================================================================
