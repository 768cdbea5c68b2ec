----------------------------- MODULE PostgresStore -----------------------------
(***************************************************************************)
(* The Postgres backend of cmd/server.  There is no head in memory: every  *)
(* Append is a READ COMMITTED transaction that takes a transaction-scoped  *)
(* advisory lock, reads the head of the table, inserts the next row and    *)
(* commits.  Verify and QueryLogs take no lock; each of their statements   *)
(* reads a snapshot of what is committed.                                  *)
(*                                                                         *)
(* A connection may break at any point.  The caller then gets its error at *)
(* once, while the backend session lives on, lock and uncommitted row      *)
(* included, until the database notices: a COMMIT that was already sent    *)
(* may still take effect.                                                  *)
(***************************************************************************)
EXTENDS AuditChain, FiniteSets, FiniteSetsExt

CONSTANTS Sessions,     \* database sessions, one per goroutine serving a call
          NoSession,    \* the advisory lock is free
          MaxRows,      \* bound: appends are begun below this many rows
          MaxFaults     \* bound: failed statements and broken connections

ASSUME PostgresAssumption == /\ NoSession \notin Sessions
                             /\ MaxRows \in Nat
                             /\ MaxFaults \in Nat

VARIABLES
    rows,       \* table audit_log_entries as committed: entry_index -> row
    lock,       \* holder of pg_advisory_xact_lock(987654321)
    pc,         \* per session: where its call is
    record,     \* per session: the record it appends
    head,       \* per session: last index and hash its transaction read
    row,        \* per session: the row its transaction inserted
    total,      \* per session: the COUNT(*) of its query
    reply,      \* per session: the last response to its caller
    acked,      \* history: entries answered with 201
    seen,       \* history: acked when the session's call arrived
    faults
vars == <<rows, lock, pc, record, head, row, total, reply, acked, seen, faults>>

NoReply == [status |-> 0]
NoHead  == [index |-> 0, hash |-> GENESIS]
NoRow   == Garbage

Init == /\ rows = <<>>
        /\ lock = NoSession
        /\ pc = [s \in Sessions |-> "idle"]
        /\ record = [s \in Sessions |-> NoRow]
        /\ head = [s \in Sessions |-> NoHead]
        /\ row = [s \in Sessions |-> NoRow]
        /\ total = [s \in Sessions |-> 0]
        /\ reply = [s \in Sessions |-> NoReply]
        /\ acked = {}
        /\ seen = [s \in Sessions |-> {}]
        /\ faults = 0

-----------------------------------------------------------------------------
(* SELECT ... FROM audit_log_entries *)

Indexes == DOMAIN rows
\* ORDER BY entry_index ASC: the i-th row is the one with i indexes up to its own.
RowsInOrder ==
    [i \in 1..Cardinality(Indexes) |->
       rows[CHOOSE k \in Indexes : Cardinality({j \in Indexes : j <= k}) = i]]

\* The hash taken from the oldest row instead of the newest.
HeadRowOldest ==
    IF Indexes = {} THEN NoHead
    ELSE [index |-> Max(Indexes), hash |-> rows[Min(Indexes)].entryHash]

\* MAX(entry_index) without COALESCE is NULL on an empty table.
HeadRowNull ==
    [index |-> IF Indexes = {} THEN Garbage ELSE Max(Indexes),
     hash  |-> IF Indexes = {} THEN GENESIS ELSE rows[Max(Indexes)].entryHash]

\* COALESCE(MAX(entry_index), 0) and the entry_hash of the newest row, in one
\* statement and so of one snapshot.
HeadRow ==
    IF Indexes = {} THEN NoHead
    ELSE [index |-> Max(Indexes), hash |-> rows[Max(Indexes)].entryHash]

-----------------------------------------------------------------------------
(* Calls *)

Fault == faults < MaxFaults /\ faults' = faults + 1

Arrive(s, next) ==
    /\ pc[s] = "idle"
    /\ pc' = [pc EXCEPT ![s] = next]
    /\ reply' = [reply EXCEPT ![s] = NoReply]
    /\ seen' = [seen EXCEPT ![s] = acked]

InFlight == {s \in Sessions : pc[s] \in {"begun", "locked", "read", "inserted", "orphan"}}

Begin(s) ==
    /\ Cardinality(Indexes) + Cardinality(InFlight) < MaxRows
    /\ Arrive(s, "begun")
    /\ \E r \in Records : record' = [record EXCEPT ![s] = r]
    /\ UNCHANGED <<rows, lock, head, row, total, acked, faults>>

\* A session-scoped lock, which the end of the transaction does not release.
EndTxKeepsLock(s) ==
    /\ UNCHANGED lock
    /\ pc' = [pc EXCEPT ![s] = "idle"]
    /\ head' = [head EXCEPT ![s] = NoHead]
    /\ row' = [row EXCEPT ![s] = NoRow]

\* The transaction ends: its row is gone unless it was committed, its lock
\* is released, and the session is back in the pool.
EndTx(s) ==
    /\ lock' = IF lock = s THEN NoSession ELSE lock
    /\ pc' = [pc EXCEPT ![s] = "idle"]
    /\ head' = [head EXCEPT ![s] = NoHead]
    /\ row' = [row EXCEPT ![s] = NoRow]

\* The advisory lock as a session that does not wait for it takes it.
AdvisoryLockUnguarded(s) ==
    /\ pc[s] = "begun"
    /\ lock' = s
    /\ pc' = [pc EXCEPT ![s] = "locked"]
    /\ UNCHANGED <<rows, record, head, row, total, reply, acked, seen, faults>>

AdvisoryLock(s) ==
    /\ pc[s] = "begun" /\ lock = NoSession
    /\ lock' = s
    /\ pc' = [pc EXCEPT ![s] = "locked"]
    /\ UNCHANGED <<rows, record, head, row, total, reply, acked, seen, faults>>

ReadHead(s) ==
    /\ pc[s] = "locked"
    /\ head' = [head EXCEPT ![s] = HeadRow]
    /\ pc' = [pc EXCEPT ![s] = "read"]
    /\ UNCHANGED <<rows, lock, record, row, total, reply, acked, seen, faults>>

NextIndex(s) == head[s].index + 1

\* An uncommitted row of another transaction with the same key: the primary
\* key makes the insert wait for that transaction to end.
KeyInFlight(s) ==
    \E t \in Sessions \ {s} : /\ pc[t] \in {"inserted", "orphan"}
                             /\ row[t] # NoRow
                             /\ row[t].index = NextIndex(s)

\* INSERT: a row with a key that is taken is rejected, the append fails and
\* rolls back.
Insert(s) ==
    /\ pc[s] = "read"
    /\ ~KeyInFlight(s)
    /\ IF NextIndex(s) \in Indexes
       THEN /\ EndTx(s)
            /\ reply' = [reply EXCEPT ![s] = [status |-> 500]]
       ELSE /\ \E ts \in Timestamps :
                 row' = [row EXCEPT ![s] = Seal(NextIndex(s), ts, record[s], head[s].hash)]
            /\ pc' = [pc EXCEPT ![s] = "inserted"]
            /\ UNCHANGED <<lock, head, reply>>
    /\ UNCHANGED <<rows, record, total, acked, seen, faults>>

StoreRow(s) ==
    rows' = [i \in Indexes \cup {row[s].index} |->
               IF i = row[s].index THEN row[s] ELSE rows[i]]

\* The row becomes visible and the lock is released in one step; the answer
\* is still on its way.
Commit(s) ==
    /\ pc[s] = "inserted"
    /\ StoreRow(s)
    /\ lock' = NoSession
    /\ pc' = [pc EXCEPT ![s] = "committed"]
    /\ UNCHANGED <<record, head, row, total, reply, acked, seen, faults>>

\* An answer given before the commit is known to have taken effect.
AnswerEarly(s) ==
    /\ pc[s] \in {"inserted", "committed"}
    /\ acked' = acked \cup {row[s]}
    /\ reply' = [reply EXCEPT ![s] = [status |-> 201, entry |-> row[s]]]
    /\ EndTx(s)
    /\ UNCHANGED <<rows, record, total, seen, faults>>

Answer(s) ==
    /\ pc[s] = "committed"
    /\ acked' = acked \cup {row[s]}
    /\ reply' = [reply EXCEPT ![s] = [status |-> 201, entry |-> row[s]]]
    /\ EndTx(s)
    /\ UNCHANGED <<rows, record, total, seen, faults>>

\* A statement of the transaction fails: the deferred Rollback undoes it.
StatementFails(s) ==
    /\ pc[s] \in {"begun", "locked", "read", "inserted"}
    /\ Fault
    /\ EndTx(s)
    /\ reply' = [reply EXCEPT ![s] = [status |-> 500]]
    /\ UNCHANGED <<rows, record, total, acked, seen>>

\* The caller is answered as soon as the connection breaks; a session with an
\* open transaction lives on in the database.
ConnectionLost(s) ==
    /\ pc[s] \in {"locked", "read", "inserted", "committed"}
    /\ Fault
    /\ reply' = [reply EXCEPT ![s] = [status |-> 500]]
    /\ IF pc[s] = "committed"
       THEN EndTx(s)
       ELSE pc' = [pc EXCEPT ![s] = "orphan"] /\ UNCHANGED <<lock, head, row>>
    /\ UNCHANGED <<rows, record, total, acked, seen>>

OrphanRollback(s) ==
    /\ pc[s] = "orphan"
    /\ EndTx(s)
    /\ UNCHANGED <<rows, record, total, reply, acked, seen, faults>>

\* The COMMIT had been sent before the connection broke.
OrphanCommit(s) ==
    /\ pc[s] = "orphan" /\ row[s] # NoRow
    /\ StoreRow(s)
    /\ EndTx(s)
    /\ UNCHANGED <<record, total, reply, acked, seen, faults>>

\* One SELECT, one snapshot, no transaction.
Verify(s) ==
    /\ pc[s] = "idle"
    /\ LET r == VerifyResult(RowsInOrder)
       IN  reply' = [reply EXCEPT ![s] =
                       [status |-> IF r.valid THEN 200 ELSE 409, result |-> r]]
    /\ seen' = [seen EXCEPT ![s] = acked]
    /\ UNCHANGED <<rows, lock, pc, record, head, row, total, acked, faults>>

\* QueryLogs with count=true and no filter: COUNT(*) and the list are two
\* statements outside any transaction, so two snapshots.
QueryCount(s) ==
    /\ Arrive(s, "counted")
    /\ total' = [total EXCEPT ![s] = Cardinality(Indexes)]
    /\ UNCHANGED <<rows, lock, record, head, row, acked, faults>>

QueryList(s) ==
    /\ pc[s] = "counted"
    /\ reply' = [reply EXCEPT ![s] =
                   [status |-> 200, items |-> RowsInOrder, total |-> total[s]]]
    /\ pc' = [pc EXCEPT ![s] = "idle"]
    /\ total' = [total EXCEPT ![s] = 0]
    /\ UNCHANGED <<rows, lock, record, head, row, acked, seen, faults>>

QueryFails(s) ==
    /\ pc[s] = "counted" /\ Fault
    /\ reply' = [reply EXCEPT ![s] = [status |-> 500]]
    /\ pc' = [pc EXCEPT ![s] = "idle"]
    /\ total' = [total EXCEPT ![s] = 0]
    /\ UNCHANGED <<rows, lock, record, head, row, acked, seen>>

-----------------------------------------------------------------------------
SessionStep(s) == AdvisoryLock(s) \/ ReadHead(s) \/ Insert(s) \/ Commit(s)
                    \/ Answer(s) \/ QueryList(s) \/ OrphanRollback(s) \/ OrphanCommit(s)

Next == \E s \in Sessions :
          \/ Begin(s) \/ Verify(s) \/ QueryCount(s)
          \/ SessionStep(s)
          \/ StatementFails(s) \/ ConnectionLost(s) \/ QueryFails(s)

Spec == Init /\ [][Next]_vars

\* A session that can proceed does, the database notices a broken session,
\* and Postgres grants its locks in the order they were asked for.
Fairness == \A s \in Sessions : WF_vars(SessionStep(s)) /\ SF_vars(AdvisoryLock(s))
FairSpec == Spec /\ Fairness

-----------------------------------------------------------------------------
(* Properties *)

TypeOK ==
    /\ Indexes \subseteq Nat /\ \A i \in Indexes : rows[i] \in Entry
    /\ lock \in Sessions \cup {NoSession}
    /\ pc \in [Sessions -> {"idle", "begun", "locked", "read", "inserted", "committed", "orphan",
                        "counted"}]
    /\ record \in [Sessions -> Records \cup {NoRow}]
    /\ head \in [Sessions -> [index : Nat, hash : Hash]]
    /\ row \in [Sessions -> Line]
    /\ total \in [Sessions -> Nat]
    /\ acked \subseteq Entry
    /\ faults \in 0..MaxFaults

\* The advisory lock serialises appends across goroutines and processes: the
\* head a transaction read is still the head of the table when it inserts and
\* commits, also while broken sessions linger, so the primary key never
\* rejects an append.
HeadStaysCurrent ==
    \A s \in Sessions : pc[s] \in {"read", "inserted"} => head[s] = HeadRow

\* Whatever fails, the committed table is one gap-free hash chain: /v1/verify
\* never answers 409 and a restarted server never refuses to start.
TableIsChain == Chained(RowsInOrder)

\* Every entry answered with 201 is the row its index names, and no other
\* commit ever replaces it.
AckedStored == \A e \in acked : e.index \in Indexes /\ rows[e.index] = e

\* The inductive invariant behind them: one session holds the lock from the
\* head it reads to the end of its transaction, an uncommitted row is the
\* sealed successor of the table, and a committed one is in it.
InTx(s) == pc[s] \in {"locked", "read", "inserted", "orphan"}
LockInv == \A s \in Sessions : InTx(s) => lock = s
RowInv == \A s \in Sessions :
    /\ pc[s] \in {"idle", "begun", "locked", "read", "counted"} => row[s] = NoRow
    /\ pc[s] \in {"inserted", "committed"} => row[s] # NoRow
    /\ (pc[s] \in {"inserted", "orphan"} /\ row[s] # NoRow) =>
         row[s].index = Len(rows) + 1 /\ Chained(Append(rows, row[s]))
    /\ pc[s] = "committed" => row[s].index \in Indexes /\ rows[row[s].index] = row[s]
RecordInv == \A s \in Sessions : pc[s] \in {"begun", "locked", "read"} => record[s] \in Records
IInv == /\ TypeOK
        /\ rows \in Seq(Entry) /\ Chained(rows)
        /\ LockInv /\ RowInv /\ RecordInv /\ HeadStaysCurrent /\ AckedStored

\* A caller that got its 201 before it asks sees the entry.
ReadYourWrites ==
    \A s \in Sessions :
      /\ (reply[s].status = 200 /\ "items" \in DOMAIN reply[s])
           => \A e \in seen[s] : \E i \in DOMAIN reply[s].items : reply[s].items[i] = e
      /\ (reply[s].status = 200 /\ "result" \in DOMAIN reply[s])
           => \A e \in seen[s] : e.index <= reply[s].result.totalEntries

\* Every append and query is answered and every broken session is cleared.
CallsReturn == \A s \in Sessions : pc[s] # "idle" ~> pc[s] = "idle"

Log == INSTANCE AuditLog WITH log     <- RowsInOrder,
                              damaged <- FALSE,
                              faulty  <- faults > 0
\* The Postgres backend keeps the promise of the abstract log and is never
\* damaged, whatever fails.
ImplementsAuditLog == Log!SpecSound
=============================================================================
