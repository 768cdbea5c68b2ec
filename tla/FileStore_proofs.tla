--------------------------- MODULE FileStore_proofs ---------------------------
(***************************************************************************)
(* The file backend, for any number of goroutines, records and failures of *)
(* the process: IInv is inductive, so no acknowledged entry is lost        *)
(* silently and no index is acknowledged twice.                            *)
(***************************************************************************)
EXTENDS FileStore, AuditChain_proofs

LEMMA InitIInv == Init => IInv
<1> SUFFICES ASSUME Init PROVE IInv
  OBVIOUS
<1> USE DEF Init
<1>1. TypeOK
  <2>1. lines \in Seq(Line) /\ lastHash \in Hash
    BY DEF Hash, GENESIS
  <2>2. NoCall \in Calls /\ Garbage \in Line
    BY DEF Calls, Line
  <2>3. arg \in [Procs -> Calls] /\ written \in [Procs -> Line]
    BY <2>2
  <2>4. pc \in [Procs -> {"idle", "lock", "held", "written"}] /\ mu \in Procs \cup {NoProc}
    OBVIOUS
  <2>5. faults \in 0..MaxFaults
    BY FileStoreAssumption
  <2> QED BY <2>1, <2>3, <2>4, <2>5 DEF TypeOK
<1>2. MutexInv /\ WrittenInv /\ OpenInv /\ AckedInv
  BY FileStoreAssumption DEF MutexInv, WrittenInv, OpenInv, AckedInv, Holding
<1>3. ServesKnownFile /\ NoSilentLoss /\ NoFork
  BY DEF ServesKnownFile, NoSilentLoss, NoFork
<1> QED BY <1>1, <1>2, <1>3 DEF IInv

\* The entry an append seals from a well-typed head and call.
LEMMA NextEntryType ==
  ASSUME TypeOK, NEW p \in Procs, arg[p].op = "append", NEW ts \in Timestamps
  PROVE  /\ NextEntry(arg[p].record, ts) \in Entry
         /\ NextEntry(arg[p].record, ts).index = lastIndex + 1
<1>1. arg[p].record \in Records
  BY DEF TypeOK, Calls, NoCall
<1>2. lastIndex + 1 \in Nat /\ lastHash \in Hash
  BY DEF TypeOK
<1>3. NextEntry(arg[p].record, ts) \in Entry
  BY <1>1, <1>2, SealType DEF NextEntry
<1> QED BY <1>3 DEF NextEntry, Seal

\* Whatever part of a write reaches the file, the file stays a sequence of
\* lines; a line added to a chain only extends it, and a line glued to an
\* unterminated one breaks it.
LEMMA WriteEffect ==
  ASSUME TypeOK, OpenInv, NEW e \in Entry, WriteLine(e) \/ WritePart(e)
  PROVE  /\ lines' \in Seq(Line)
         /\ open' \in BOOLEAN
         /\ Len(lines') > 0
         /\ Chained(lines') => /\ ~open
                               /\ Chained(lines)
                               /\ lines' = Append(lines, e)
<1>0. lines \in Seq(Line) /\ e \in Line /\ Garbage \in Line
  BY DEF TypeOK, Line
<1>1. CASE open
  <2>1. lines' = [lines EXCEPT ![Len(lines)] = Garbage] /\ open' \in BOOLEAN
    BY <1>1 DEF WriteLine, WritePart
  <2>2. Len(lines) > 0
    BY <1>1 DEF OpenInv
  <2>3. ~Chained(lines')
    BY <1>0, <2>1, <2>2, GarbageBreaks
  <2>4. lines' \in Seq(Line) /\ Len(lines') = Len(lines)
    BY <1>0, <2>1, <2>2
  <2> QED BY <2>1, <2>2, <2>3, <2>4
<1>2. CASE ~open
  <2>1. PICK part \in {Garbage, e} : lines' = Append(lines, part) /\ open' \in BOOLEAN
    BY <1>2 DEF WriteLine, WritePart
  <2>2. lines' \in Seq(Line) /\ Len(lines') = Len(lines) + 1
        /\ lines'[Len(lines')] = part /\ part \in Line
    BY <1>0, <2>1
  <2>3. Chained(lines') => Chained(lines)
    BY <1>0, <2>1, <2>2, ChainedPrefix
  <2>4. Chained(lines') => part # Garbage
    BY <1>0, <2>2 DEF Chained, LineOk
  <2> QED BY <1>0, <1>2, <2>1, <2>2, <2>3, <2>4
<1> QED BY <1>1, <1>2

\* Entries that were stored stay stored when the file is extended.
LEMMA StoredExtends ==
  ASSUME TypeOK, NEW e \in Entry, lines' = Append(lines, e),
         \A a \in acked : Stored(a)
  PROVE  \A a \in acked : Stored(a)' /\ a.index < Len(lines')
BY DEF Stored, TypeOK, Line, Entry

\* A step that leaves the file, the head and the acknowledgements alone, and
\* moves no goroutine into or out of "written", keeps the facts about them.
LEMMA DiskFactsKept ==
  ASSUME IInv, UNCHANGED <<lines, open, lastIndex, lastHash, acked>>,
         status' = "up" => status = "up",
         \A p \in Procs : pc'[p] = "written" <=> pc[p] = "written",
         \A p \in Procs : pc[p] = "written" => written'[p] = written[p]
  PROVE  (WrittenInv /\ OpenInv /\ AckedInv /\ ServesKnownFile /\ NoSilentLoss /\ NoFork)'
<1> USE DEF IInv
<1>1. WrittenInv'
  BY DEF WrittenInv
<1>2. OpenInv' /\ AckedInv' /\ NoSilentLoss' /\ NoFork'
  BY DEF OpenInv, AckedInv, NoSilentLoss, NoFork, Stored
<1>3. ServesKnownFile'
  BY DEF ServesKnownFile
<1> QED BY <1>1, <1>2, <1>3

\* A failed or interrupted write: part of an entry in the file, nothing else.
LEMMA PartFactsKept ==
  ASSUME IInv, NEW e \in Entry, WritePart(e), UNCHANGED <<lastIndex, lastHash, acked>>,
         status' = "up" => status = "up",
         \A p \in Procs : pc'[p] # "written"
  PROVE  (WrittenInv /\ OpenInv /\ AckedInv /\ ServesKnownFile /\ NoSilentLoss /\ NoFork)'
<1>1. open' = TRUE
  BY DEF WritePart
<1>2. /\ Len(lines') > 0
      /\ Chained(lines') => ~open /\ Chained(lines) /\ lines' = Append(lines, e)
  BY WriteEffect DEF IInv
<1>3. Chained(lines') => \A a \in acked : Stored(a)' /\ a.index < Len(lines')
  BY <1>2, StoredExtends DEF IInv, NoSilentLoss
<1>4. OpenInv' /\ NoSilentLoss'
  BY <1>2, <1>3 DEF OpenInv, NoSilentLoss
<1>5. WrittenInv' /\ ServesKnownFile'
  BY <1>1 DEF WrittenInv, ServesKnownFile
<1>6. AckedInv' /\ NoFork'
  BY DEF IInv, AckedInv, NoFork
<1> QED BY <1>4, <1>5, <1>6

LEMMA NextIInv ==
  ASSUME IInv, [Next]_vars
  PROVE  IInv'
<1> USE DEF IInv
<1>0. NoCall \in Calls /\ Garbage \in Line
  BY DEF Calls, Line
<1>1. CASE NewFileStore
  <2>1. TypeOK'
    <3>1. CASE Chained(lines)
      <4>1. lastIndex' = Len(lines) /\ lastHash' = HashBefore(lines, Len(lines) + 1)
        BY <1>1, <3>1, VerifiedLenChained DEF NewFileStore, VerifyResult, TypeOK
      <4>2. lastIndex' \in Nat /\ lastHash' \in Hash
        BY <3>1, <4>1, HeadType DEF TypeOK
      <4> QED BY <1>1, <3>1, <4>2 DEF NewFileStore, TypeOK, disk
    <3>2. CASE ~Chained(lines)
      BY <1>1, <3>2 DEF NewFileStore, TypeOK, disk, memory
    <3> QED BY <3>1, <3>2
  <2>2. /\ UNCHANGED <<lines, open, mu, pc, arg, written, acked>>
        /\ status # "up"
        /\ \A p \in Procs : pc[p] = "idle"
    BY <1>1 DEF NewFileStore, MutexInv, disk
  <2>3. MutexInv' /\ WrittenInv' /\ OpenInv' /\ NoSilentLoss' /\ NoFork'
    <3>1. MutexInv'
      BY <2>2 DEF MutexInv, Holding
    <3>2. WrittenInv' /\ OpenInv'
      BY <2>2 DEF WrittenInv, OpenInv
    <3>3. NoSilentLoss' /\ NoFork'
      BY <2>2 DEF NoSilentLoss, NoFork, Stored
    <3> QED BY <3>1, <3>2, <3>3
  <2>4. AckedInv' /\ ServesKnownFile'
    <3>1. CASE Chained(lines)
      <4>1. lastIndex' = Len(lines) /\ lastHash' = HashBefore(lines, Len(lines) + 1)
        BY <1>1, <3>1, VerifiedLenChained DEF NewFileStore, VerifyResult, TypeOK
      <4>2. \A a \in acked : a.index <= Len(lines)
        BY <3>1 DEF NoSilentLoss, Stored, TypeOK
      <4> QED BY <2>2, <4>1, <4>2 DEF AckedInv, ServesKnownFile
    <3>2. CASE ~Chained(lines)
      BY <1>1, <2>2, <3>2 DEF NewFileStore, AckedInv, ServesKnownFile
    <3> QED BY <3>1, <3>2
  <2> QED BY <2>1, <2>3, <2>4
<1>2. ASSUME NEW p \in Procs, Call(p) PROVE IInv'
  <2>1. PICK c \in Calls \ {NoCall} : arg' = [arg EXCEPT ![p] = c]
    BY <1>2 DEF Call
  <2>2. /\ UNCHANGED <<lines, open, status, lastIndex, lastHash, mu, written, acked, faults>>
        /\ pc' = [pc EXCEPT ![p] = "lock"] /\ pc[p] = "idle" /\ status = "up"
    BY <1>2 DEF Call, disk, memory
  <2>3. TypeOK'
    BY <2>1, <2>2 DEF TypeOK
  <2>4. MutexInv'
    BY <2>1, <2>2 DEF MutexInv, Holding, TypeOK
  <2>5. \A q \in Procs : pc'[q] = "written" <=> pc[q] = "written"
    BY <2>2 DEF TypeOK
  <2> QED BY <2>2, <2>3, <2>4, <2>5, DiskFactsKept
<1>3. ASSUME NEW p \in Procs, Lock(p) PROVE IInv'
  <2>1. /\ UNCHANGED <<lines, open, status, lastIndex, lastHash, arg, written, acked, faults>>
        /\ pc' = [pc EXCEPT ![p] = "held"] /\ pc[p] = "lock" /\ mu = NoProc /\ mu' = p
    BY <1>3 DEF Lock, disk, memory
  <2>2. TypeOK'
    BY <2>1 DEF TypeOK
  <2>3. MutexInv'
    BY <2>1, FileStoreAssumption DEF MutexInv, Holding, TypeOK
  <2>4. \A q \in Procs : pc'[q] = "written" <=> pc[q] = "written"
    BY <2>1 DEF TypeOK
  <2> QED BY <2>1, <2>2, <2>3, <2>4, DiskFactsKept
<1>4. ASSUME NEW p \in Procs, AppendWrite(p) PROVE IInv'
  <2>1. PICK ts \in Timestamps :
          /\ WriteLine(NextEntry(arg[p].record, ts))
          /\ written' = [written EXCEPT ![p] = NextEntry(arg[p].record, ts)]
    BY <1>4 DEF AppendWrite
  <2>2. /\ pc[p] = "held" /\ arg[p].op = "append" /\ pc' = [pc EXCEPT ![p] = "written"]
        /\ UNCHANGED <<status, lastIndex, lastHash, mu, arg, acked, faults>>
    BY <1>4 DEF AppendWrite, memory
  <2> DEFINE e == NextEntry(arg[p].record, ts)
  <2>3. e \in Entry /\ e.index = lastIndex + 1
    BY <2>2, NextEntryType
  <2> HIDE DEF e
  <2>4. written' = [written EXCEPT ![p] = e] /\ WriteLine(e) /\ open' = FALSE
    BY <2>1 DEF e, WriteLine
  <2>5. /\ lines' \in Seq(Line)
        /\ Chained(lines') => ~open /\ Chained(lines) /\ lines' = Append(lines, e)
    BY <2>3, <2>4, WriteEffect
  <2>6. mu = p /\ status = "up" /\ \A q \in Procs : q # p => pc[q] \notin {"held", "written"}
    BY <2>2 DEF MutexInv, Holding, TypeOK
  <2>7. TypeOK'
    BY <2>2, <2>3, <2>4, <2>5 DEF TypeOK, Line
  <2>8. MutexInv'
    BY <2>2, <2>6 DEF MutexInv, Holding, TypeOK
  <2>9. Chained(lines') => Len(lines') = lastIndex + 1 /\ lines'[Len(lines')] = e
    <3>1. \A q \in Procs : pc[q] # "written"
      BY <2>2, <2>6
    <3>2. Chained(lines') => lastIndex = Len(lines)
      BY <2>5, <2>6, <3>1 DEF ServesKnownFile
    <3> QED BY <2>3, <2>5, <3>2 DEF TypeOK, Line
  <2>10. WrittenInv'
    <3> SUFFICES ASSUME NEW q \in Procs, pc'[q] = "written"
                 PROVE  q = p
      BY <2>2, <2>3, <2>4, <2>9 DEF WrittenInv, TypeOK
    <3> QED BY <2>2, <2>6 DEF TypeOK
  <2>11. OpenInv' /\ ServesKnownFile'
    BY <2>2, <2>4 DEF OpenInv, ServesKnownFile, TypeOK
  <2>12. NoSilentLoss'
    BY <2>2, <2>3, <2>5, StoredExtends DEF NoSilentLoss
  <2>13. AckedInv' /\ NoFork'
    BY <2>2 DEF AckedInv, NoFork
  <2> QED BY <2>7, <2>8, <2>10, <2>11, <2>12, <2>13
<1>5. ASSUME NEW p \in Procs, NEW r, Return(p, r), pc[p] \in {"held", "written"},
             UNCHANGED status
      PROVE  /\ MutexInv'
             /\ mu' \in Procs \cup {NoProc}
             /\ pc' \in [Procs -> {"idle", "lock", "held", "written"}]
             /\ arg' \in [Procs -> Calls]
             /\ written' \in [Procs -> Line]
             /\ \A q \in Procs : pc'[q] # "written"
  <2>1. mu = p /\ \A q \in Procs : q # p => pc[q] \notin {"held", "written"}
    BY <1>5 DEF MutexInv, Holding, TypeOK
  <2>2. MutexInv'
    BY <1>5, <2>1, FileStoreAssumption DEF Return, MutexInv, Holding, TypeOK
  <2> QED BY <1>0, <1>5, <2>1, <2>2 DEF Return, TypeOK
<1>6. ASSUME NEW p \in Procs, AppendFails(p) PROVE IInv'
  <2>1. /\ pc[p] = "held" /\ arg[p].op = "append" /\ Return(p, [status |-> 500])
        /\ UNCHANGED <<status, lastIndex, lastHash, acked>> /\ Fault
    BY <1>6 DEF AppendFails, memory
  <2>2. /\ MutexInv'
        /\ mu' \in Procs \cup {NoProc}
        /\ pc' \in [Procs -> {"idle", "lock", "held", "written"}]
        /\ arg' \in [Procs -> Calls]
        /\ written' \in [Procs -> Line]
        /\ \A q \in Procs : pc'[q] # "written"
    BY <1>5, <2>1
  <2>3. faults' \in 0..MaxFaults
    BY <2>1, FileStoreAssumption DEF Fault, TypeOK
  <2>4. \A q \in Procs : pc[q] # "written"
    BY <2>1 DEF MutexInv, Holding, TypeOK
  <2>5. CASE WriteNothing
    <3>1. UNCHANGED <<lines, open>>
      BY <2>5 DEF WriteNothing, disk
    <3>2. TypeOK'
      BY <2>1, <2>2, <2>3, <3>1 DEF TypeOK
    <3> QED BY <2>1, <2>2, <2>4, <3>1, <3>2, DiskFactsKept
  <2>6. CASE \E ts \in Timestamps : WritePart(NextEntry(arg[p].record, ts))
    <3>1. PICK ts \in Timestamps : WritePart(NextEntry(arg[p].record, ts))
      BY <2>6
    <3>2. NextEntry(arg[p].record, ts) \in Entry
      BY <2>1, NextEntryType
    <3>3. lines' \in Seq(Line) /\ open' \in BOOLEAN
      BY <3>1, <3>2, WriteEffect
    <3>4. TypeOK'
      BY <2>1, <2>2, <2>3, <3>3 DEF TypeOK
    <3>5. (WrittenInv /\ OpenInv /\ AckedInv /\ ServesKnownFile /\ NoSilentLoss /\ NoFork)'
      BY <2>1, <2>2, <3>1, <3>2, PartFactsKept
    <3> QED BY <2>2, <3>4, <3>5
  <2> QED BY <1>6, <2>5, <2>6 DEF AppendFails
<1>7. ASSUME NEW p \in Procs, AppendReturn(p) PROVE IInv'
  <2>1. /\ pc[p] = "written" /\ Return(p, [status |-> 201, entry |-> written[p]])
        /\ lastIndex' = written[p].index /\ lastHash' = written[p].entryHash
        /\ acked' = acked \cup {written[p]}
        /\ UNCHANGED <<lines, open, status, faults>>
    BY <1>7 DEF AppendReturn, disk
  <2>2. /\ MutexInv'
        /\ mu' \in Procs \cup {NoProc}
        /\ pc' \in [Procs -> {"idle", "lock", "held", "written"}]
        /\ arg' \in [Procs -> Calls]
        /\ written' \in [Procs -> Line]
        /\ \A q \in Procs : pc'[q] # "written"
    BY <1>5, <2>1
  <2>3. /\ written[p] \in Entry /\ written[p].index = lastIndex + 1
        /\ Chained(lines) => /\ ~open /\ Len(lines) = lastIndex + 1
                             /\ lines[Len(lines)] = written[p]
    BY <2>1 DEF WrittenInv
  <2>4. TypeOK'
    BY <2>1, <2>2, <2>3 DEF TypeOK, Entry
  <2>5. status = "up" /\ \A a \in acked : a \in Entry /\ a.index <= lastIndex
    BY <2>1 DEF MutexInv, AckedInv, TypeOK
  <2>6. lastIndex \in Nat /\ lines \in Seq(Line)
    BY DEF TypeOK
  <2>7. WrittenInv'
    BY <2>2 DEF WrittenInv
  <2>8. OpenInv'
    BY <2>1, <2>3 DEF OpenInv
  <2>9. AckedInv'
    BY <2>1, <2>3, <2>5, <2>6 DEF AckedInv, Entry
  <2>10. ServesKnownFile'
    BY <2>1, <2>3, <2>6 DEF ServesKnownFile, HashBefore
  <2>11. NoSilentLoss'
    BY <2>1, <2>3, <2>6 DEF NoSilentLoss, Stored
  <2>12. NoFork'
    BY <2>1, <2>3, <2>5, <2>6 DEF NoFork, Entry
  <2> QED BY <2>2, <2>4, <2>7, <2>8, <2>9, <2>10, <2>11, <2>12
<1>8. ASSUME NEW p \in Procs, Verify(p) \/ QueryLogs(p) PROVE IInv'
  <2>1. PICK r : Return(p, r)
    BY <1>8 DEF Verify, QueryLogs
  <2>2. pc[p] = "held" /\ UNCHANGED <<lines, open, status, lastIndex, lastHash, acked, faults>>
    BY <1>8 DEF Verify, QueryLogs, disk, memory
  <2>3. /\ MutexInv'
        /\ mu' \in Procs \cup {NoProc}
        /\ pc' \in [Procs -> {"idle", "lock", "held", "written"}]
        /\ arg' \in [Procs -> Calls]
        /\ written' \in [Procs -> Line]
        /\ \A q \in Procs : pc'[q] # "written"
    BY <1>5, <2>1, <2>2
  <2>4. \A q \in Procs : pc[q] # "written"
    BY <2>2 DEF MutexInv, Holding, TypeOK
  <2>5. TypeOK'
    BY <2>2, <2>3 DEF TypeOK
  <2> QED BY <2>2, <2>3, <2>4, <2>5, DiskFactsKept
<1>9. ASSUME Stop, Fault
      PROVE  /\ MutexInv' /\ faults' \in 0..MaxFaults
             /\ UNCHANGED <<lastIndex, lastHash, acked>>
             /\ status' = "down" /\ mu' = NoProc
             /\ pc' \in [Procs -> {"idle", "lock", "held", "written"}]
             /\ arg' \in [Procs -> Calls]
             /\ written' \in [Procs -> Line]
             /\ \A q \in Procs : pc'[q] = "idle"
  <2>1. faults' \in 0..MaxFaults
    BY <1>9, FileStoreAssumption DEF Fault, TypeOK
  <2>2. MutexInv'
    BY <1>9, FileStoreAssumption DEF Stop, MutexInv, Holding
  <2> QED BY <1>0, <1>9, <2>1, <2>2 DEF Stop, memory
<1>10. CASE Crash
  <2>1. Stop /\ Fault /\ UNCHANGED <<lines, open>>
    BY <1>10 DEF Crash, WriteNothing, disk
  <2>2. TypeOK'
    BY <1>9, <2>1 DEF TypeOK
  <2>3. WrittenInv' /\ ServesKnownFile' /\ AckedInv'
    BY <1>9, <2>1 DEF WrittenInv, ServesKnownFile, AckedInv
  <2>4. OpenInv' /\ NoSilentLoss' /\ NoFork'
    BY <1>9, <2>1 DEF OpenInv, NoSilentLoss, NoFork, Stored
  <2> QED BY <1>9, <2>1, <2>2, <2>3, <2>4
<1>11. ASSUME NEW p \in Procs, CrashInWrite(p) PROVE IInv'
  <2>1. PICK ts \in Timestamps : WritePart(NextEntry(arg[p].record, ts))
    BY <1>11 DEF CrashInWrite
  <2>2. Stop /\ Fault /\ arg[p].op = "append"
    BY <1>11 DEF CrashInWrite
  <2>3. NextEntry(arg[p].record, ts) \in Entry
    BY <2>2, NextEntryType
  <2>4. lines' \in Seq(Line) /\ open' \in BOOLEAN
    BY <2>1, <2>3, WriteEffect
  <2>5. TypeOK'
    BY <1>9, <2>2, <2>4 DEF TypeOK
  <2>6. \A q \in Procs : pc'[q] # "written"
    BY <1>9, <2>2
  <2>7. UNCHANGED <<lastIndex, lastHash, acked>> /\ (status' = "up" => status = "up")
    BY <1>9, <2>2
  <2>8. (WrittenInv /\ OpenInv /\ AckedInv /\ ServesKnownFile /\ NoSilentLoss /\ NoFork)'
    BY <2>1, <2>3, <2>6, <2>7, PartFactsKept
  <2>9. MutexInv'
    BY <1>9, <2>2
  <2> QED BY <2>5, <2>8, <2>9
<1>12. CASE UNCHANGED vars
  <2>1. TypeOK' /\ MutexInv'
    BY <1>12 DEF vars, TypeOK, MutexInv, Holding
  <2> QED BY <1>12, <2>1, DiskFactsKept DEF vars
<1> QED
  BY <1>1, <1>2, <1>3, <1>4, <1>6, <1>7, <1>8, <1>10, <1>11, <1>12
  DEF Next, ProcStep

\* IInv holds throughout.
LEMMA IInvHolds == Spec => []IInv
BY InitIInv, NextIInv, PTL DEF Spec

\* Every variable of the file backend keeps its type.
THEOREM TypeCorrect == Spec => []TypeOK
<1>1. IInv => TypeOK
  BY DEF IInv
<1> QED BY <1>1, IInvHolds, PTL

\* However many goroutines append and however often a write fails or the
\* process crashes: while the file verifies, it holds every entry that was
\* answered with 201, at the index the answer named.
THEOREM AckedEntriesKept == Spec => []NoSilentLoss
<1>1. IInv => NoSilentLoss
  BY DEF IInv
<1> QED BY <1>1, IInvHolds, PTL

\* No index is acknowledged for two different entries, also not across a
\* failed write or a restart.
THEOREM IndexesUnique == Spec => []NoFork
<1>1. IInv => NoFork
  BY DEF IInv
<1> QED BY <1>1, IInvHolds, PTL

\* No step of the server makes a file that fails to verify verify again.
THEOREM DamageStays == Spec => DamageIsPermanent
<1>1. ASSUME IInv, [Next]_vars PROVE [~Chained(lines) => ~Chained(lines')]_vars
  <2>1. CASE UNCHANGED lines
    BY <2>1
  <2>2. ASSUME NEW p \in Procs, NEW e \in Entry, WriteLine(e) \/ WritePart(e)
        PROVE  Chained(lines') => Chained(lines)
    BY <1>1, <2>2, WriteEffect DEF IInv
  <2>3. ASSUME NEW p \in Procs, AppendWrite(p) \/ AppendFails(p) \/ CrashInWrite(p)
        PROVE  \/ UNCHANGED lines
               \/ Chained(lines') => Chained(lines)
    <3>1. arg[p].op = "append"
      BY <2>3 DEF AppendWrite, AppendFails, CrashInWrite
    <3>2. \A ts \in Timestamps : NextEntry(arg[p].record, ts) \in Entry
      BY <1>1, <3>1, NextEntryType DEF IInv
    <3> QED BY <2>2, <2>3, <3>2 DEF AppendWrite, AppendFails, CrashInWrite, WriteNothing, disk
  <2> QED
    BY <1>1, <2>1, <2>3
    DEF Next, ProcStep, NewFileStore, Call, Lock, AppendReturn, Verify, QueryLogs,
        Crash, WriteNothing, disk, vars
<1> QED BY <1>1, IInvHolds, PTL DEF Spec, DamageIsPermanent

-----------------------------------------------------------------------------
(* The refinement of AuditLog *)

\* An unterminated line is the trace of a storage failure.
OpenIsFault == open => faults > 0

LEMMA OpenIsFaultHolds == Spec => []OpenIsFault
<1>1. Init => OpenIsFault
  BY DEF Init, OpenIsFault
<1>2. ASSUME IInv, OpenIsFault, [Next]_vars PROVE OpenIsFault'
  <2>1. faults \in Nat
    BY <1>2, FileStoreAssumption DEF IInv, TypeOK
  <2>2. CASE Fault
    BY <2>1, <2>2 DEF Fault, OpenIsFault
  <2>3. CASE UNCHANGED faults /\ (open' => open)
    BY <1>2, <2>3 DEF OpenIsFault
  <2>4. CASE NewFileStore \/ Crash \/ UNCHANGED vars
    BY <2>2, <2>3, <2>4 DEF NewFileStore, Crash, disk, vars
  <2>5. ASSUME NEW p \in Procs, Call(p) \/ ProcStep(p) \/ CrashInWrite(p) PROVE OpenIsFault'
    BY <2>2, <2>3, <2>5
    DEF ProcStep, Call, Lock, AppendWrite, WriteLine, AppendFails, AppendReturn,
        Verify, QueryLogs, CrashInWrite, disk
  <2> QED BY <1>2, <2>4, <2>5 DEF Next
<1> QED BY <1>1, <1>2, IInvHolds, PTL DEF Spec

\* Below, the goroutine p holds the mutex and is about to write: what it seals
\* is the successor of a file that verifies and is not cut off.
LEMMA SealsSuccessor ==
  ASSUME IInv, NEW p \in Procs, pc[p] = "held", arg[p].op = "append", NEW ts \in Timestamps,
         Chained(lines), ~open
  PROVE  /\ NextEntry(arg[p].record, ts)
              = Seal(Len(lines) + 1, ts, arg[p].record, HashBefore(lines, Len(lines) + 1))
         /\ arg[p].record \in Records
         /\ Chained(Append(lines, NextEntry(arg[p].record, ts)))
<1> USE DEF IInv
<1>1. status = "up" /\ \A q \in Procs : pc[q] # "written"
  BY DEF MutexInv, Holding, TypeOK
<1>2. lastIndex = Len(lines) /\ lastHash = HashBefore(lines, Len(lines) + 1)
  BY <1>1 DEF ServesKnownFile
<1>3. arg[p].record \in Records /\ lines \in Seq(Line)
  BY DEF TypeOK, Calls, NoCall
<1>4. HashBefore(lines, Len(lines) + 1) \in Hash
  BY <1>3, HeadType
<1> QED BY <1>2, <1>3, <1>4, SealExtends DEF NextEntry

\* What a write, whole or cut short, does to the log a reader can verify.
LEMMA WriteRefines ==
  ASSUME IInv, OpenIsFault, NEW p \in Procs, pc[p] = "held", arg[p].op = "append",
         NEW ts \in Timestamps,
         LET e == NextEntry(arg[p].record, ts)
         IN  \/ WriteLine(e) /\ UNCHANGED faults
             \/ WritePart(e) /\ Fault,
         UNCHANGED acked
  PROVE  [Log!Next]_(Log!vars)
<1> USE DEF IInv
<1> DEFINE e == NextEntry(arg[p].record, ts)
<1>1. e \in Entry /\ e \in Line /\ Garbage \in Line /\ lines \in Seq(Line)
  BY NextEntryType DEF Line, TypeOK
<1>2. faults \in Nat /\ (Fault => faults' = faults + 1)
  BY FileStoreAssumption DEF TypeOK, Fault
<1>3. WriteLine(e) \/ WritePart(e)
  OBVIOUS
<1>4. /\ faults > 0 => faults' > 0
      /\ open => faults' > 0
      /\ ~WriteLine(e) => faults' > 0
  <2>1. CASE UNCHANGED faults /\ WriteLine(e)
    BY <2>1 DEF OpenIsFault
  <2>2. CASE Fault
    BY <1>2, <2>2
  <2> QED BY <2>1, <2>2
<1> HIDE DEF e
<1>5. CASE ~Chained(lines)
  <2>1. \/ \E x \in Line : lines' = Append(lines, x)
        \/ Len(lines) > 0 /\ lines' = [lines EXCEPT ![Len(lines)] = Garbage]
    BY <1>1, <1>3 DEF WriteLine, WritePart, OpenInv
  <2>2. ~Chained(lines') /\ VerifiedPrefix(lines') = VerifiedPrefix(lines)
    BY <1>1, <1>5, <2>1, DamagedPrefixKept
  <2>3. CASE faults' > 0 <=> faults > 0
    BY <1>5, <2>2, <2>3 DEF Log!vars
  <2>4. CASE faults' > 0
    BY <1>5, <2>2, <2>4 DEF Log!Fail, Log!Next
  <2> QED BY <1>4, <2>3, <2>4
<1>6. CASE Chained(lines) /\ open
  <2>1. Len(lines) > 0 /\ lines' = [lines EXCEPT ![Len(lines)] = Garbage]
    BY <1>3, <1>6 DEF WriteLine, WritePart, OpenInv
  <2>2. VerifiedPrefix(lines) = lines /\ VerifiedPrefix(lines') = SubSeq(lines, 1, Len(lines) - 1)
    BY <1>1, <1>6, <2>1, VerifiedPrefixChained, GlueTakesLast
  <2>3. ~Chained(lines')
    BY <1>1, <2>1, GarbageBreaks
  <2>4. lines[Len(lines)] \notin acked
    <3>1. \A a \in acked : a.index < Len(lines)
      BY <1>6 DEF OpenInv
    <3>2. lines[Len(lines)].index = Len(lines)
      BY <1>1, <1>6, <2>1 DEF Chained, LineOk
    <3> QED BY <1>1, <3>1, <3>2
  <2>5. /\ Log!Last(lines) = lines[Len(lines)]
        /\ Log!Front(lines) = SubSeq(lines, 1, Len(lines) - 1)
        /\ lines # <<>>
    BY <2>1 DEF Log!Last, Log!Front
  <2>6. faults' > 0
    BY <1>4, <1>6
  <2>7. Log!Damage
    BY <1>6, <2>2, <2>3, <2>4, <2>5, <2>6 DEF Log!Damage
  <2> QED BY <2>7 DEF Log!Next
<1>7. CASE Chained(lines) /\ ~open
  <2>1. lines' \in {Append(lines, e), Append(lines, Garbage)}
    BY <1>3, <1>7 DEF WriteLine, WritePart
  <2>2. VerifiedPrefix(lines) = lines
    BY <1>1, <1>7, VerifiedPrefixChained
  <2>3. CASE lines' = Append(lines, e)
    <3>1. /\ e = Seal(Len(lines) + 1, ts, arg[p].record, HashBefore(lines, Len(lines) + 1))
          /\ arg[p].record \in Records /\ Chained(lines')
      BY <1>7, <2>3, SealsSuccessor DEF e
    <3>2. lines' \in Seq(Line)
      BY <1>1, <2>3
    <3>3. VerifiedPrefix(lines') = lines'
      BY <3>1, <3>2, VerifiedPrefixChained
    <3>4. Log!MayFail
      <4>1. (faults' > 0) = (faults > 0) \/ (faults' > 0) = TRUE
        BY <1>4
      <4> QED BY <4>1, Zenon DEF Log!MayFail
    <3>5. e = Log!Seal(Len(lines) + 1, ts, arg[p].record, Log!Head1(lines))
      BY <3>1 DEF Log!Head1, Log!Seal, Log!HashBefore, Log!EntryHash, Log!sha256Hex, Log!GENESIS,
                  Seal, HashBefore, EntryHash, sha256Hex, GENESIS
    <3>6. Log!Store
      BY <1>7, <2>2, <2>3, <3>1, <3>3, <3>4, <3>5 DEF Log!Store
    <3> QED BY <3>6 DEF Log!Next
  <2>4. CASE lines' = Append(lines, Garbage) /\ e # Garbage
    <3>1. ~Chained(lines') /\ VerifiedPrefix(lines') = lines
      BY <1>1, <1>7, <2>4, PartAfterChain
    <3>2. ~WriteLine(e)
      BY <1>1, <1>7, <2>4 DEF WriteLine
    <3>3. Log!Damage
      BY <1>3, <1>4, <1>7, <2>2, <3>1, <3>2 DEF Log!Damage
    <3> QED BY <3>3 DEF Log!Next
  <2>5. e # Garbage
    BY <1>1, GarbageAssumption
  <2> QED BY <2>1, <2>3, <2>4, <2>5
<1> QED BY <1>5, <1>6, <1>7

\* The file backend implements the abstract log: a reader of the file sees a log
\* that only grows, an entry that was acknowledged stays where it is, and damage
\* takes a storage failure and never reaches an acknowledged entry; for every
\* number of goroutines, records and failures.
THEOREM FileImplementsAuditLog == Spec => ImplementsAuditLog
<1>1. Init => Log!Init
  <2> SUFFICES ASSUME Init PROVE Log!Init
    OBVIOUS
  <2>1. lines = <<>> /\ lines \in Seq(Line) /\ faults = 0 /\ acked = {}
    BY DEF Init
  <2>2. Chained(lines)
    BY <2>1 DEF Chained
  <2>3. VerifiedPrefix(lines) = <<>>
    BY <2>1, <2>2, VerifiedPrefixChained
  <2> QED BY <2>1, <2>2, <2>3 DEF Log!Init
<1>2. ASSUME IInv, OpenIsFault, [Next]_vars PROVE [Log!Next]_(Log!vars)
  <2> USE <1>2 DEF IInv
  <2>1. faults \in Nat
    BY FileStoreAssumption DEF TypeOK
  <2>2. CASE UNCHANGED <<lines, acked, faults>>
    BY <2>2 DEF Log!vars
  <2>3. CASE Fault /\ UNCHANGED <<lines, acked>>
    <3>1. faults' > 0
      BY <2>1, <2>3 DEF Fault
    <3>2. Log!Fail
      BY <2>3, <3>1 DEF Log!Fail
    <3> QED BY <3>2 DEF Log!Next
  <2>4. CASE NewFileStore \/ Crash \/ UNCHANGED vars
    BY <2>2, <2>3, <2>4 DEF NewFileStore, Crash, Stop, WriteNothing, disk, vars
  <2>5. ASSUME NEW p \in Procs, Call(p) \/ Lock(p) \/ Verify(p) \/ QueryLogs(p)
        PROVE  [Log!Next]_(Log!vars)
    BY <2>2, <2>5 DEF Call, Lock, Verify, QueryLogs, disk
  <2>6. ASSUME NEW p \in Procs, AppendWrite(p) \/ AppendFails(p) \/ CrashInWrite(p)
        PROVE  [Log!Next]_(Log!vars)
    <3>1. pc[p] = "held" /\ arg[p].op = "append" /\ UNCHANGED acked
      BY <2>6 DEF AppendWrite, AppendFails, CrashInWrite, Stop
    <3>2. \/ Fault /\ UNCHANGED lines
          \/ \E ts \in Timestamps :
               LET e == NextEntry(arg[p].record, ts)
               IN  \/ WriteLine(e) /\ UNCHANGED faults
                   \/ WritePart(e) /\ Fault
      BY <2>6 DEF AppendWrite, AppendFails, CrashInWrite, WriteNothing, disk
    <3> QED BY <2>3, <3>1, <3>2, WriteRefines
  <2>7. ASSUME NEW p \in Procs, AppendReturn(p) PROVE [Log!Next]_(Log!vars)
    <3>1. /\ pc[p] = "written" /\ acked' = acked \cup {written[p]}
          /\ UNCHANGED <<lines, faults>>
      BY <2>7 DEF AppendReturn, disk
    <3>2. CASE Chained(lines)
      <4>1. Len(lines) \in 1..Len(lines) /\ lines[Len(lines)] = written[p]
        BY <3>1, <3>2 DEF WrittenInv, TypeOK
      <4>2. VerifiedPrefix(lines) = lines
        BY <3>2, VerifiedPrefixChained DEF TypeOK
      <4>3. Log!Acknowledge
        BY <3>1, <3>2, <4>1, <4>2 DEF Log!Acknowledge, TypeOK
      <4> QED BY <4>3 DEF Log!Next
    <3>3. CASE ~Chained(lines)
      BY <3>1, <3>3 DEF Log!AcknowledgeBlindly, Log!Next
    <3> QED BY <3>2, <3>3
  <2> QED BY <1>2, <2>4, <2>5, <2>6, <2>7 DEF Next, ProcStep
<1> QED
  BY <1>1, <1>2, IInvHolds, OpenIsFaultHolds, PTL DEF Spec, ImplementsAuditLog, Log!Spec

-----------------------------------------------------------------------------
(* Reads *)

\* What makes a query as good as a verification, though it only parses: a file
\* that fails to verify has a line that does not parse.
DamageShows == ~Chained(lines) => \E i \in 1..Len(lines) : lines[i] = Garbage

\* A caller was told of nothing that is not acknowledged.
SeenInv == /\ DOMAIN reply = Procs /\ DOMAIN seen = Procs
           /\ \A p \in Procs : seen[p] \subseteq acked

LEMMA DamageShowsHolds == Spec => []DamageShows
<1>1. Init => DamageShows
  BY DEF Init, DamageShows, Chained
<1>2. ASSUME IInv, DamageShows, [Next]_vars PROVE DamageShows'
  <2> USE <1>2 DEF IInv
  <2>1. CASE UNCHANGED lines
    BY <2>1 DEF DamageShows
  <2>2. ASSUME NEW p \in Procs, AppendWrite(p) \/ AppendFails(p) \/ CrashInWrite(p)
        PROVE  DamageShows'
    <3>1. pc[p] = "held" /\ arg[p].op = "append"
      BY <2>2 DEF AppendWrite, AppendFails, CrashInWrite
    <3>2. \/ UNCHANGED lines
          \/ \E ts \in Timestamps : \/ WriteLine(NextEntry(arg[p].record, ts))
                                    \/ WritePart(NextEntry(arg[p].record, ts))
      BY <2>2 DEF AppendWrite, AppendFails, CrashInWrite, WriteNothing, disk
    <3>3. ASSUME NEW ts \in Timestamps, WriteLine(NextEntry(arg[p].record, ts))
                                          \/ WritePart(NextEntry(arg[p].record, ts))
          PROVE  DamageShows'
      <4> DEFINE e == NextEntry(arg[p].record, ts)
      <4>1. e \in Line /\ lines \in Seq(Line) /\ Garbage \in Line
        BY <3>1, NextEntryType DEF Line, TypeOK
      <4>2. ~open /\ Chained(lines) => Chained(Append(lines, e))
        BY <3>1, SealsSuccessor
      <4> HIDE DEF e
      <4>3. CASE open
        <5>1. Len(lines) > 0 /\ lines' = [lines EXCEPT ![Len(lines)] = Garbage]
          BY <3>3, <4>3 DEF WriteLine, WritePart, OpenInv
        <5>2. Len(lines') = Len(lines) /\ lines'[Len(lines)] = Garbage
          BY <4>1, <5>1
        <5> QED BY <4>1, <5>1, <5>2 DEF DamageShows
      <4>4. CASE ~open
        <5>1. lines' \in {Append(lines, e), Append(lines, Garbage)}
          BY <3>3, <4>4 DEF WriteLine, WritePart, e
        <5>2. CASE lines' = Append(lines, Garbage)
          BY <4>1, <5>2 DEF DamageShows
        <5>3. CASE lines' = Append(lines, e) /\ Chained(lines)
          BY <4>2, <4>4, <5>3 DEF DamageShows
        <5>4. CASE lines' = Append(lines, e) /\ ~Chained(lines)
          <6>1. PICK i \in 1..Len(lines) : lines[i] = Garbage
            BY <5>4 DEF DamageShows
          <6>2. i \in 1..Len(lines') /\ lines'[i] = Garbage
            BY <4>1, <5>4, <6>1
          <6> QED BY <6>2 DEF DamageShows
        <5> QED BY <5>1, <5>2, <5>3, <5>4
      <4> QED BY <4>3, <4>4
    <3> QED BY <2>1, <3>2, <3>3
  <2> QED
    BY <1>2, <2>1, <2>2
    DEF Next, ProcStep, NewFileStore, Call, Lock, AppendReturn, Verify, QueryLogs,
        Crash, WriteNothing, disk, vars
<1> QED BY <1>1, <1>2, IInvHolds, PTL DEF Spec

\* The answer of a verification or a query to a caller that knew S.
LEMMA AnswerCoversSeen ==
  ASSUME IInv, DamageShows, NEW p \in Procs, NEW S \in SUBSET acked,
         NEW r, \/ r = [status |-> IF VerifyResult(lines).valid THEN 200 ELSE 409,
                        result |-> VerifyResult(lines)]
                \/ r = IF \E i \in 1..Len(lines) : lines[i] = Garbage
                       THEN [status |-> 500] ELSE [status |-> 200, items |-> lines]
  PROVE  /\ (r.status = 200 /\ "items" \in DOMAIN r)
              => \A e \in S : \E i \in DOMAIN r.items : r.items[i] = e
         /\ (r.status = 200 /\ "result" \in DOMAIN r)
              => \A e \in S : e.index <= r.result.totalEntries
<1> USE DEF IInv
<1>1. lines \in Seq(Line)
  BY DEF TypeOK
<1>2. Chained(lines) => \A e \in S : e.index \in 1..Len(lines) /\ lines[e.index] = e
  BY DEF NoSilentLoss, Stored
<1>3. CASE r = [status |-> IF VerifyResult(lines).valid THEN 200 ELSE 409,
                result |-> VerifyResult(lines)]
  <2>1. r.status = 200 => Chained(lines)
    BY <1>3 DEF VerifyResult
  <2>2. Chained(lines) => r.result.totalEntries = Len(lines)
    BY <1>1, <1>3, VerifiedLenChained DEF VerifyResult
  <2>3. "items" \notin DOMAIN r
    BY <1>3
  <2>4. Chained(lines) => \A e \in S : e.index <= Len(lines)
    BY <1>1, <1>2
  <2> QED BY <2>1, <2>2, <2>3, <2>4
<1>4. CASE r = IF \E i \in 1..Len(lines) : lines[i] = Garbage
               THEN [status |-> 500] ELSE [status |-> 200, items |-> lines]
  <2>1. CASE \E i \in 1..Len(lines) : lines[i] = Garbage
    <3>1. r = [status |-> 500]
      BY <1>4, <2>1
    <3> QED BY <3>1
  <2>2. CASE ~\E i \in 1..Len(lines) : lines[i] = Garbage
    <3>1. r = [status |-> 200, items |-> lines]
      BY <1>4, <2>2
    <3>2. Chained(lines) /\ r.items = lines /\ DOMAIN lines = 1..Len(lines)
      BY <1>1, <2>2, <3>1 DEF DamageShows
    <3>3. "result" \notin DOMAIN r
      BY <3>1
    <3> QED BY <1>2, <3>2, <3>3
  <2> QED BY <2>1, <2>2
<1> QED BY <1>3, <1>4

\* A client that got its 201 before it asks sees the entry, in every query and
\* every verification that succeeds, however writes fail and whoever else runs.
THEOREM WritesAreRead == Spec => []ReadYourWrites
<1> DEFINE Covered(p) ==
      /\ (reply[p].status = 200 /\ "items" \in DOMAIN reply[p])
           => \A e \in seen[p] : \E i \in DOMAIN reply[p].items : reply[p].items[i] = e
      /\ (reply[p].status = 200 /\ "result" \in DOMAIN reply[p])
           => \A e \in seen[p] : e.index <= reply[p].result.totalEntries
<1>1. Init => SeenInv /\ ReadYourWrites
  BY DEF Init, SeenInv, ReadYourWrites, NoReply
<1>2. ASSUME IInv, DamageShows, SeenInv, ReadYourWrites, [Next]_vars
      PROVE  SeenInv' /\ ReadYourWrites'
  <2> USE <1>2
  <2>1. \A p \in Procs : Covered(p)
    BY DEF ReadYourWrites
  <2>2. ASSUME \A p \in Procs : (reply'[p] = reply[p] /\ seen'[p] = seen[p]) \/ Covered(p)'
        PROVE  ReadYourWrites'
    BY <2>1, <2>2 DEF ReadYourWrites
  <2>3. ASSUME NEW p \in Procs, NEW r, reply' = [reply EXCEPT ![p] = r],
               UNCHANGED seen, acked \subseteq acked',
               r.status = 200 => 
                 \/ /\ r = [status |-> IF VerifyResult(lines).valid THEN 200 ELSE 409,
                            result |-> VerifyResult(lines)]
                 \/ /\ r = IF \E i \in 1..Len(lines) : lines[i] = Garbage
                           THEN [status |-> 500] ELSE [status |-> 200, items |-> lines]
        PROVE  SeenInv' /\ ReadYourWrites'
    <3>1. SeenInv'
      BY <2>3 DEF SeenInv
    <3>2. reply'[p] = r /\ seen'[p] \in SUBSET acked
      BY <2>3 DEF SeenInv
    <3>3. Covered(p)'
      BY <2>3, <3>2, AnswerCoversSeen
    <3>4. \A q \in Procs : q # p => reply'[q] = reply[q] /\ seen'[q] = seen[q]
      BY <2>3 DEF SeenInv
    <3> QED BY <2>2, <3>1, <3>3, <3>4
  <2>4. CASE UNCHANGED <<reply, seen, acked>>
    BY <2>4 DEF SeenInv, ReadYourWrites
  <2>5. CASE NewFileStore \/ UNCHANGED vars
    BY <2>4, <2>5 DEF NewFileStore, vars
  <2>6. CASE Stop
    BY <2>6 DEF Stop, SeenInv, ReadYourWrites, NoReply
  <2>7. ASSUME NEW p \in Procs, Lock(p) \/ AppendWrite(p) PROVE SeenInv' /\ ReadYourWrites'
    BY <2>4, <2>7 DEF Lock, AppendWrite
  <2>8. ASSUME NEW p \in Procs, Call(p) PROVE SeenInv' /\ ReadYourWrites'
    <3>1. /\ reply' = [reply EXCEPT ![p] = NoReply] /\ seen' = [seen EXCEPT ![p] = acked]
          /\ UNCHANGED acked
      BY <2>8 DEF Call
    <3>2. SeenInv'
      BY <3>1 DEF SeenInv
    <3>3. reply'[p].status = 0
      BY <3>1 DEF SeenInv, NoReply
    <3>4. \A q \in Procs : q # p => reply'[q] = reply[q] /\ seen'[q] = seen[q]
      BY <3>1 DEF SeenInv
    <3> QED BY <2>2, <3>2, <3>3, <3>4
  <2>9. ASSUME NEW p \in Procs, Verify(p) \/ QueryLogs(p) PROVE SeenInv' /\ ReadYourWrites'
    <3> DEFINE v == [status |-> IF VerifyResult(lines).valid THEN 200 ELSE 409,
                     result |-> VerifyResult(lines)]
               q == IF \E i \in 1..Len(lines) : lines[i] = Garbage
                    THEN [status |-> 500] ELSE [status |-> 200, items |-> lines]
    <3>1. UNCHANGED <<seen, acked>>
      BY <2>9 DEF Verify, QueryLogs
    <3>2. PICK r \in {v, q} : Return(p, r)
      BY <2>9 DEF Verify, QueryLogs
    <3>3. reply' = [reply EXCEPT ![p] = r] /\ acked \subseteq acked'
      BY <3>1, <3>2 DEF Return
    <3> QED BY <2>3, <3>1, <3>2, <3>3
  <2>10. ASSUME NEW p \in Procs, AppendFails(p) \/ AppendReturn(p)
         PROVE  SeenInv' /\ ReadYourWrites'
    <3>1. PICK r \in {[status |-> 500], [status |-> 201, entry |-> written[p]]} : Return(p, r)
      BY <2>10 DEF AppendFails, AppendReturn
    <3>2. UNCHANGED seen /\ acked \subseteq acked'
      BY <2>10 DEF AppendFails, AppendReturn
    <3>3. reply' = [reply EXCEPT ![p] = r] /\ r.status # 200
      BY <3>1 DEF Return
    <3> QED BY <2>3, <3>2, <3>3
  <2> QED
    BY <2>5, <2>6, <2>7, <2>8, <2>9, <2>10 DEF Next, ProcStep, Crash, CrashInWrite
<1> QED BY <1>1, <1>2, IInvHolds, DamageShowsHolds, PTL DEF Spec
=============================================================================
