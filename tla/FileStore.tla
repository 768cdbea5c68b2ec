------------------------------- MODULE FileStore -------------------------------
(***************************************************************************)
(* The file backend of cmd/server: one append-only file of JSON lines, an  *)
(* in-memory head (lastIndex, lastHash) and one mutex, used concurrently   *)
(* by the goroutines of the HTTP server.                                   *)
(*                                                                         *)
(* Storage may fail.  Append hands one buffer, line plus newline, to       *)
(* write(2) and never repairs what a failed or interrupted write leaves    *)
(* behind: nothing, an initial part of the line, or the whole line without *)
(* its newline.  The process may crash at any point.  Nothing is fsynced,  *)
(* so a power loss may also take any number of trailing lines.             *)
(***************************************************************************)
EXTENDS AuditChain, FiniteSets

CONSTANTS Procs,          \* request goroutines
          NoProc,         \* no goroutine: the mutex is free
          MaxAppends,     \* bound: appends are called below this head index
          MaxFaults       \* bound: failed writes, crashes and power losses

ASSUME FileStoreAssumption == /\ NoProc \notin Procs
                              /\ MaxAppends \in Nat
                              /\ MaxFaults \in Nat

VARIABLES
    lines,      \* the lines a bufio.Scanner reads from the file
    open,       \* the last of them has no newline yet
    status,     \* the server process: "down", "up", or "refused" to start
    lastIndex, lastHash,    \* the head FileStore keeps in memory
    mu,         \* holder of FileStore.mu
    pc, arg,    \* per goroutine: where it is, and the call it is serving
    written,    \* per goroutine: the entry it wrote but did not yet return
    reply,      \* per goroutine: its last HTTP response
    acked,      \* history: entries answered with 201
    seen,       \* history: acked when the goroutine's call arrived
    faults      \* storage failures so far
vars == <<lines, open, status, lastIndex, lastHash, mu, pc, arg, written,
          reply, acked, seen, faults>>

disk   == <<lines, open>>
memory == <<lastIndex, lastHash>>

NoCall   == [op |-> "none"]
Calls    == {NoCall, [op |-> "verify"], [op |-> "query"]}
              \cup [op : {"append"}, record : Records]
NoReply  == [status |-> 0]

Init == /\ lines = <<>> /\ open = FALSE
        /\ status = "down"
        /\ lastIndex = 0 /\ lastHash = GENESIS
        /\ mu = NoProc
        /\ pc = [p \in Procs |-> "idle"]
        /\ arg = [p \in Procs |-> NoCall]
        /\ written = [p \in Procs |-> Garbage]
        /\ reply = [p \in Procs |-> NoReply]
        /\ acked = {}
        /\ seen = [p \in Procs |-> {}]
        /\ faults = 0

-----------------------------------------------------------------------------
(* The bytes.  A complete write to a file whose last line is unterminated    *)
(* glues the new line to it, and two JSON texts on one line are no entry.    *)

WriteLine(e) ==
    /\ lines' = IF open THEN [lines EXCEPT ![Len(lines)] = Garbage]
                        ELSE Append(lines, e)
    /\ open' = FALSE

\* A write cut short: part of the line, or all of it but the newline.
WritePart(e) ==
    /\ IF open THEN lines' = [lines EXCEPT ![Len(lines)] = Garbage]
       ELSE \E part \in {Garbage, e} : lines' = Append(lines, part)
    /\ open' = TRUE

WriteNothing == UNCHANGED disk

Fault == faults < MaxFaults /\ faults' = faults + 1

-----------------------------------------------------------------------------
(* Start: the whole file is verified and becomes the head, or the process    *)
(* exits without serving.                                                    *)

\* A start that repairs the file by cutting it after its last verified line.
NewFileStoreRepairs ==
    /\ status \in {"down", "refused"}
    /\ lines' = VerifiedPrefix(lines) /\ open' = FALSE
    /\ status' = "up"
    /\ lastIndex' = VerifyResult(lines).totalEntries
    /\ lastHash' = VerifyResult(lines).lastHash
    /\ UNCHANGED <<mu, pc, arg, written, reply, acked, seen, faults>>

\* A start that takes the position of the last line for its index.
NewFileStoreOffByOne ==
    /\ status \in {"down", "refused"}
    /\ status' = "up"
    /\ lastIndex' = VerifyResult(lines).totalEntries - 1
    /\ lastHash' = VerifyResult(lines).lastHash
    /\ UNCHANGED <<disk, mu, pc, arg, written, reply, acked, seen, faults>>

NewFileStore ==
    /\ status \in {"down", "refused"}
    /\ IF Chained(lines)
       THEN /\ status' = "up"
            /\ lastIndex' = VerifyResult(lines).totalEntries
            /\ lastHash' = VerifyResult(lines).lastHash
       ELSE /\ status' = "refused"
            /\ UNCHANGED memory
    /\ UNCHANGED <<disk, mu, pc, arg, written, reply, acked, seen, faults>>

-----------------------------------------------------------------------------
(* Calls.  Every operation runs under the mutex from its first statement to  *)
(* its return (defer s.mu.Unlock()).                                         *)

Appending == {p \in Procs : arg[p].op = "append"}

Call(p) ==
    /\ status = "up" /\ pc[p] = "idle"
    /\ \E c \in Calls \ {NoCall} :
         /\ c.op = "append" => lastIndex + Cardinality(Appending) < MaxAppends
         /\ arg' = [arg EXCEPT ![p] = c]
    /\ pc' = [pc EXCEPT ![p] = "lock"]
    /\ reply' = [reply EXCEPT ![p] = NoReply]
    /\ seen' = [seen EXCEPT ![p] = acked]
    /\ UNCHANGED <<disk, status, memory, mu, written, acked, faults>>

\* A read lock taken where the write lock is needed.
LockShared(p) ==
    /\ pc[p] = "lock"
    /\ mu' = p
    /\ pc' = [pc EXCEPT ![p] = "held"]
    /\ UNCHANGED <<disk, status, memory, arg, written, reply, acked, seen, faults>>

Lock(p) ==
    /\ pc[p] = "lock" /\ mu = NoProc
    /\ mu' = p
    /\ pc' = [pc EXCEPT ![p] = "held"]
    /\ UNCHANGED <<disk, status, memory, arg, written, reply, acked, seen, faults>>

\* Return r to the caller and release the mutex.
Return(p, r) ==
    /\ mu' = NoProc
    /\ pc' = [pc EXCEPT ![p] = "idle"]
    /\ arg' = [arg EXCEPT ![p] = NoCall]
    /\ written' = [written EXCEPT ![p] = Garbage]
    /\ reply' = [reply EXCEPT ![p] = r]

NextEntry(record, ts) == Seal(lastIndex + 1, ts, record, lastHash)

\* Every entry is sealed on the start of the chain instead of on its head.
AppendWriteUnlinked(p) ==
    /\ pc[p] = "held" /\ arg[p].op = "append"
    /\ \E ts \in Timestamps :
         LET e == Seal(lastIndex + 1, ts, arg[p].record, GENESIS)
         IN  WriteLine(e) /\ written' = [written EXCEPT ![p] = e]
    /\ pc' = [pc EXCEPT ![p] = "written"]
    /\ UNCHANGED <<status, memory, mu, arg, reply, acked, seen, faults>>

AppendWrite(p) ==
    /\ pc[p] = "held" /\ arg[p].op = "append"
    /\ \E ts \in Timestamps :
         LET e == NextEntry(arg[p].record, ts)
         IN  WriteLine(e) /\ written' = [written EXCEPT ![p] = e]
    /\ pc' = [pc EXCEPT ![p] = "written"]
    /\ UNCHANGED <<status, memory, mu, arg, reply, acked, seen, faults>>

\* The error return forgets the unlock.
AppendFailsLocked(p) ==
    /\ pc[p] = "held" /\ arg[p].op = "append"
    /\ Fault
    /\ WriteNothing
    /\ pc' = [pc EXCEPT ![p] = "idle"]
    /\ arg' = [arg EXCEPT ![p] = NoCall]
    /\ reply' = [reply EXCEPT ![p] = [status |-> 500]]
    /\ UNCHANGED <<status, memory, mu, written, acked, seen>>

\* Opening or writing the file fails: the head is left alone, and so is
\* whatever the write put in the file.
AppendFails(p) ==
    /\ pc[p] = "held" /\ arg[p].op = "append"
    /\ Fault
    /\ \/ WriteNothing
       \/ \E ts \in Timestamps : WritePart(NextEntry(arg[p].record, ts))
    /\ Return(p, [status |-> 500])
    /\ UNCHANGED <<status, memory, acked, seen>>

AppendReturn(p) ==
    /\ pc[p] = "written"
    /\ lastIndex' = written[p].index
    /\ lastHash' = written[p].entryHash
    /\ acked' = acked \cup {written[p]}
    /\ Return(p, [status |-> 201, entry |-> written[p]])
    /\ UNCHANGED <<disk, status, seen, faults>>

Verify(p) ==
    /\ pc[p] = "held" /\ arg[p].op = "verify"
    /\ LET r == VerifyResult(lines)
       IN  Return(p, [status |-> IF r.valid THEN 200 ELSE 409, result |-> r])
    /\ UNCHANGED <<disk, status, memory, acked, seen, faults>>

\* Lines that do not parse are skipped.
QueryLogsSkips(p) ==
    /\ pc[p] = "held" /\ arg[p].op = "query"
    /\ Return(p, [status |-> 200, items |-> VerifiedPrefix(lines)])
    /\ UNCHANGED <<disk, status, memory, acked, seen, faults>>

\* QueryLogs without a filter and with room for every line: it parses each
\* line and fails on the first that is not an entry, but verifies nothing.
QueryLogs(p) ==
    /\ pc[p] = "held" /\ arg[p].op = "query"
    /\ Return(p, IF \E i \in 1..Len(lines) : lines[i] = Garbage
                 THEN [status |-> 500]
                 ELSE [status |-> 200, items |-> lines])
    /\ UNCHANGED <<disk, status, memory, acked, seen, faults>>

-----------------------------------------------------------------------------
(* Failures of the process and of the machine.                               *)

Stop ==
    /\ status' = "down"
    /\ mu' = NoProc
    /\ pc' = [p \in Procs |-> "idle"]
    /\ arg' = [p \in Procs |-> NoCall]
    /\ written' = [p \in Procs |-> Garbage]
    /\ reply' = [p \in Procs |-> NoReply]
    /\ seen' = [p \in Procs |-> {}]
    /\ UNCHANGED <<memory, acked>>

Crash == status = "up" /\ Fault /\ WriteNothing /\ Stop

CrashInWrite(p) ==
    /\ pc[p] = "held" /\ arg[p].op = "append"
    /\ Fault
    /\ \E ts \in Timestamps : WritePart(NextEntry(arg[p].record, ts))
    /\ Stop

PowerLoss ==
    /\ status = "up" /\ Fault
    /\ \E n \in 0..Len(lines) :
         \/ /\ lines' = SubSeq(lines, 1, n)
            /\ open' = (open /\ n = Len(lines))
         \/ /\ n > 0
            /\ lines' = SubSeq(lines, 1, n)
            /\ open' = TRUE
         \/ /\ n < Len(lines)
            /\ lines' = Append(SubSeq(lines, 1, n), Garbage)
            /\ open' = TRUE
    /\ Stop

-----------------------------------------------------------------------------
ProcStep(p) == Lock(p) \/ AppendWrite(p) \/ AppendFails(p)
                 \/ AppendReturn(p) \/ Verify(p) \/ QueryLogs(p)

Next == \/ NewFileStore
        \/ \E p \in Procs : Call(p) \/ ProcStep(p) \/ CrashInWrite(p)
        \/ Crash

Spec == Init /\ [][Next]_vars

\* The same on a machine that may die, not only its server process.
SpecPowerLoss == Init /\ [][Next \/ PowerLoss]_vars

\* Goroutines run, and Go's mutex hands itself to a waiter that has been
\* passed over (starvation mode), so a waiting Lock is strongly fair.
Fairness == \A p \in Procs : WF_vars(ProcStep(p)) /\ SF_vars(Lock(p))
FairSpec == Spec /\ Fairness

-----------------------------------------------------------------------------
(* Properties *)

TypeOK ==
    /\ lines \in Seq(Line)
    /\ open \in BOOLEAN
    /\ status \in {"down", "up", "refused"}
    /\ lastIndex \in Nat /\ lastHash \in Hash
    /\ mu \in Procs \cup {NoProc}
    /\ pc \in [Procs -> {"idle", "lock", "held", "written"}]
    /\ arg \in [Procs -> Calls]
    /\ written \in [Procs -> Line]
    /\ acked \subseteq Entry
    /\ faults \in 0..MaxFaults

Stored(e) == e.index \in 1..Len(lines) /\ lines[e.index] = e

\* No failed write and no crash loses an acknowledged entry silently: as long
\* as the file verifies, every entry answered with 201 is the line its index
\* names.
NoSilentLoss == Chained(lines) => \A e \in acked : Stored(e)

\* Two acknowledged entries never share an index, whatever failed between
\* them: Append assigns each index to one 201 only.
NoFork == \A e, f \in acked : e.index = f.index => e = f

\* A client that got its 201 before it asks sees the entry: in the items of a
\* query that succeeds, and counted by a verification that succeeds.
ReadYourWrites ==
    \A p \in Procs :
      /\ (reply[p].status = 200 /\ "items" \in DOMAIN reply[p])
           => \A e \in seen[p] : \E i \in DOMAIN reply[p].items : reply[p].items[i] = e
      /\ (reply[p].status = 200 /\ "result" \in DOMAIN reply[p])
           => \A e \in seen[p] : e.index <= reply[p].result.totalEntries

\* The server never starts on a file that lost or mangled an entry: whenever
\* it serves, the file holds every line its head counts up to.
ServesKnownFile ==
    (status = "up" /\ Chained(lines) /\ ~open /\ \A p \in Procs : pc[p] # "written")
      => lastIndex = Len(lines) /\ lastHash = HashBefore(lines, Len(lines) + 1)

\* The inductive invariant behind NoSilentLoss and NoFork: the mutex has one
\* holder; on a file that verifies, the head in memory is the end of the file,
\* or one entry behind it while an entry is written and not yet returned; an
\* unterminated last line was never acknowledged; and no acknowledged index is
\* above the head.
Holding(p) == pc[p] \in {"held", "written"}
MutexInv == /\ \A p \in Procs : Holding(p) <=> mu = p
            /\ status # "up" => \A p \in Procs : pc[p] = "idle"
            /\ \A p \in Procs : pc[p] # "idle" => arg[p] # NoCall
WrittenInv ==
    \A p \in Procs : pc[p] = "written" =>
      /\ written[p] \in Entry
      /\ written[p].index = lastIndex + 1
      /\ Chained(lines) => ~open /\ Len(lines) = lastIndex + 1 /\ lines[Len(lines)] = written[p]
OpenInv == open => /\ Len(lines) > 0
                   /\ Chained(lines) => \A e \in acked : e.index < Len(lines)
AckedInv == status = "up" => \A e \in acked : e.index <= lastIndex
IInv == TypeOK /\ MutexInv /\ WrittenInv /\ OpenInv /\ AckedInv
          /\ ServesKnownFile /\ NoSilentLoss /\ NoFork

\* Damage is for ever: once the file fails to verify, nothing the server does
\* makes it verify again.
DamageIsPermanent == [][~Chained(lines) => ~Chained(lines')]_vars

\* Every call returns, unless the process dies first.
CallsReturn == \A p \in Procs : pc[p] # "idle" ~> pc[p] = "idle"

Log == INSTANCE AuditLog WITH log     <- VerifiedPrefix(lines),
                              damaged <- ~Chained(lines),
                              faulty  <- faults > 0
\* The file backend keeps the promise of the abstract log: without a storage
\* failure the file always verifies, and damage never reaches an entry that was
\* acknowledged before it.
ImplementsAuditLog == Log!Spec
=============================================================================
