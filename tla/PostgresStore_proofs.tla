------------------------- MODULE PostgresStore_proofs -------------------------
(***************************************************************************)
(* The Postgres backend, for any number of sessions, records and failures: *)
(* the table is one gap-free hash chain that holds every acknowledged      *)
(* entry, and the head read under the advisory lock stays current.         *)
(***************************************************************************)
EXTENDS PostgresStore, AuditChain_proofs, FiniteSetTheorems

\* The head of a table whose keys are 1..n is its last row.
LEMMA HeadOfChain ==
  ASSUME rows \in Seq(Entry)
  PROVE  HeadRow = [index |-> Len(rows), hash |-> HashBefore(rows, Len(rows) + 1)]
<1>1. Indexes = 1..Len(rows) /\ Len(rows) \in Nat
  BY DEF Indexes
<1>2. CASE Len(rows) = 0
  BY <1>1, <1>2 DEF HeadRow, NoHead, HashBefore
<1>3. CASE Len(rows) > 0
  <2>1. Max(Indexes) = Len(rows)
    <3>1. Len(rows) \in Indexes /\ \A y \in Indexes : Len(rows) >= y
      BY <1>1, <1>3
    <3>2. \A x \in Indexes : (\A y \in Indexes : x >= y) => x = Len(rows)
      BY <1>1, <3>1
    <3> QED BY <3>1, <3>2 DEF Max
  <2> QED BY <1>1, <1>3, <2>1 DEF HeadRow, HashBefore
<1> QED BY <1>1, <1>2, <1>3

\* A table whose keys are 1..n is listed in key order by ORDER BY.
LEMMA OrderOfChain ==
  ASSUME rows \in Seq(Entry)
  PROVE  RowsInOrder = rows
<1>1. Indexes = 1..Len(rows) /\ Len(rows) \in Nat
  BY DEF Indexes
<1>2. Cardinality(Indexes) = Len(rows)
  BY <1>1, FS_Interval
<1>3. ASSUME NEW k \in Indexes PROVE Cardinality({j \in Indexes : j <= k}) = k
  <2>1. {j \in Indexes : j <= k} = 1..k
    BY <1>1
  <2>2. k \in Int /\ 1 \in Int /\ ~(1 > k) /\ k - 1 + 1 = k
    BY <1>1
  <2>3. Cardinality(1..k) = k
    BY <2>2, FS_Interval
  <2> QED BY <2>1, <2>3
<1> DEFINE Nth(i) == CHOOSE k \in Indexes : Cardinality({j \in Indexes : j <= k}) = i
<1>4. ASSUME NEW i \in Indexes PROVE Nth(i) = i
  <2> DEFINE Rank(k) == Cardinality({j \in Indexes : j <= k})
  <2>1. \A k \in Indexes : Rank(k) = k
    BY <1>3
  <2>2. Nth(i) = CHOOSE k \in Indexes : Rank(k) = i
    OBVIOUS
  <2> HIDE DEF Rank, Nth
  <2> QED BY <2>1, <2>2
<1>5. RowsInOrder = [i \in 1..Len(rows) |-> rows[Nth(i)]]
  BY <1>2 DEF RowsInOrder
<1>6. [i \in 1..Len(rows) |-> rows[Nth(i)]] = [i \in 1..Len(rows) |-> rows[i]]
  <2> HIDE DEF Nth
  <2> QED BY <1>1, <1>4
<1>7. rows = [i \in 1..Len(rows) |-> rows[i]]
  OBVIOUS
<1> HIDE DEF Nth
<1> QED BY <1>5, <1>6, <1>7

\* Adding the sealed successor of the table as a row appends it.
LEMMA StoreAppends ==
  ASSUME rows \in Seq(Entry), NEW s \in Sessions, row[s] \in Entry,
         row[s].index = Len(rows) + 1, StoreRow(s)
  PROVE  /\ rows' = Append(rows, row[s])
         /\ rows' \in Seq(Entry)
         /\ Indexes' = 1..(Len(rows) + 1)
         /\ \A i \in Indexes : i \in Indexes' /\ rows'[i] = rows[i]
         /\ rows'[row[s].index] = row[s]
<1> DEFINE n == Len(rows)
           e == row[s]
<1>1. Indexes = 1..n /\ n \in Nat
  BY DEF Indexes
<1>2. Indexes \cup {e.index} = 1..(n + 1)
  BY <1>1
<1>3. rows' = [i \in 1..(n + 1) |-> IF i = n + 1 THEN e ELSE rows[i]]
  BY <1>2 DEF StoreRow
<1>4. rows' = Append(rows, e)
  <2>0. e \in Entry
    OBVIOUS
  <2> HIDE DEF e
  <2>1. Append(rows, e) \in Seq(Entry) /\ DOMAIN Append(rows, e) = 1..(n + 1)
    BY <1>1, <2>0
  <2>2. \A i \in 1..(n + 1) : Append(rows, e)[i] = IF i = n + 1 THEN e ELSE rows[i]
    BY <1>1, <2>0
  <2>3. rows' \in Seq(Entry) /\ Len(rows') = n + 1
    BY <1>1, <1>3, <2>0
  <2>4. \A i \in 1..(n + 1) : rows'[i] = Append(rows, e)[i]
    BY <1>3, <2>2
  <2> DEFINE m == Append(rows, e)
  <2>5. m \in Seq(Entry) /\ Len(m) = n + 1 /\ \A i \in 1..(n + 1) : rows'[i] = m[i]
    BY <1>1, <2>0, <2>4
  <2>6. rows' = m
    <3> HIDE DEF m
    <3> QED BY <2>3, <2>5
  <2> QED BY <2>6
<1>5. Indexes' = 1..(n + 1)
  BY <1>3 DEF Indexes
<1> QED BY <1>1, <1>3, <1>4, <1>5

LEMMA InitIInv == Init => IInv
<1> SUFFICES ASSUME Init PROVE IInv
  OBVIOUS
<1> USE DEF Init
<1>1. rows \in Seq(Entry) /\ Chained(rows) /\ Indexes = {}
  BY DEF Chained, Indexes
<1>2. TypeOK
  <2>1. NoHead \in [index : Nat, hash : Hash]
    BY DEF NoHead, GENESIS, Hash
  <2>2. NoRow \in Line
    BY DEF NoRow, Line
  <2>3. faults \in 0..MaxFaults
    BY PostgresAssumption
  <2> QED BY <1>1, <2>1, <2>2, <2>3 DEF TypeOK
<1>3. LockInv /\ RowInv /\ RecordInv /\ HeadStaysCurrent /\ AckedStored
  BY DEF LockInv, InTx, RowInv, RecordInv, HeadStaysCurrent, AckedStored
<1> QED BY <1>1, <1>2, <1>3 DEF IInv

\* Steps that leave the committed rows alone and end the transaction of s.
LEMMA EndTxKeeps ==
  ASSUME IInv, NEW s \in Sessions, EndTx(s), UNCHANGED <<rows, record, total>>,
         acked' = acked \/ acked' = acked \cup {row[s]},
         acked' # acked => pc[s] = "committed",
         faults' \in 0..MaxFaults
  PROVE  IInv'
<1> USE DEF IInv
<1>1. /\ pc' = [pc EXCEPT ![s] = "idle"]
      /\ head' = [head EXCEPT ![s] = NoHead]
      /\ row' = [row EXCEPT ![s] = NoRow]
      /\ lock' = IF lock = s THEN NoSession ELSE lock
  BY DEF EndTx
<1>2. HeadRow' = HeadRow /\ Indexes' = Indexes
  BY DEF HeadRow, Indexes
<1>3. \A t \in Sessions : t # s => pc'[t] = pc[t] /\ head'[t] = head[t] /\ row'[t] = row[t]
  BY <1>1 DEF TypeOK
<1>4. pc'[s] = "idle" /\ row'[s] = NoRow
  BY <1>1 DEF TypeOK
<1>5. acked' \subseteq Entry /\ AckedStored'
  <2>1. CASE acked' = acked
    BY <1>2, <2>1 DEF TypeOK, AckedStored
  <2>2. CASE acked' # acked
    <3>1. pc[s] = "committed" /\ acked' = acked \cup {row[s]}
      BY <2>2
    <3>2. row[s] # NoRow /\ row[s].index \in Indexes /\ rows[row[s].index] = row[s]
      BY <3>1 DEF RowInv
    <3>3. row[s] \in Entry
      BY <3>2 DEF TypeOK, Line, NoRow
    <3> QED BY <1>2, <3>1, <3>2, <3>3 DEF TypeOK, AckedStored
  <2> QED BY <2>1, <2>2
<1>6. TypeOK'
  <2>1. NoHead \in [index : Nat, hash : Hash] /\ NoRow \in Line
    BY DEF NoHead, GENESIS, Hash, NoRow, Line
  <2>2. Indexes' \subseteq Nat /\ \A i \in Indexes' : rows'[i] \in Entry
    BY <1>2 DEF TypeOK
  <2> QED BY <1>1, <1>5, <2>1, <2>2 DEF TypeOK
<1>7. LockInv'
  BY <1>1, <1>3, <1>4 DEF LockInv, InTx
<1>8. RowInv'
  <2> SUFFICES ASSUME NEW t \in Sessions
               PROVE
        /\ pc'[t] \in {"idle", "begun", "locked", "read", "counted"} => row'[t] = NoRow
        /\ pc'[t] \in {"inserted", "committed"} => row'[t] # NoRow
        /\ (pc'[t] \in {"inserted", "orphan"} /\ row'[t] # NoRow) =>
             row'[t].index = Len(rows') + 1 /\ Chained(Append(rows', row'[t]))
        /\ pc'[t] = "committed" =>
             row'[t].index \in Indexes' /\ rows'[row'[t].index] = row'[t]
    BY DEF RowInv, NoRow
  <2>1. CASE t = s
    BY <1>4, <2>1
  <2>2. CASE t # s
    BY <1>2, <1>3, <2>2 DEF RowInv
  <2> QED BY <2>1, <2>2
<1>9. RecordInv' /\ HeadStaysCurrent'
  BY <1>2, <1>3, <1>4 DEF RecordInv, HeadStaysCurrent
<1> QED BY <1>5, <1>6, <1>7, <1>8, <1>9

\* A step that moves s without touching rows, head, row or acked.
LEMMA MoveKeeps ==
  ASSUME IInv, NEW s \in Sessions, UNCHANGED <<rows, head, row, acked>>,
         NEW v, pc' = [pc EXCEPT ![s] = v],
         v \in {"idle", "begun", "locked", "orphan", "counted"},
         v \in {"locked", "orphan"} => lock' = s,
         lock' = lock \/ (lock = NoSession /\ lock' = s),
         (v = "orphan" => InTx(s)),
         (v # "orphan" => row[s] = NoRow),
         record' \in [Sessions -> Records \cup {NoRow}],
         v \in {"begun", "locked"} => record'[s] \in Records,
         \A t \in Sessions \ {s} : record'[t] = record[t],
         total' \in [Sessions -> Nat],
         faults' \in 0..MaxFaults
  PROVE  IInv'
<1> USE DEF IInv
<1>1. HeadRow' = HeadRow /\ Indexes' = Indexes
  BY DEF HeadRow, Indexes
<1>2. pc'[s] = v /\ \A t \in Sessions : t # s => pc'[t] = pc[t]
  BY DEF TypeOK
<1>3. TypeOK'
  <2>1. lock' \in Sessions \cup {NoSession}
    BY DEF TypeOK
  <2>2. Indexes' \subseteq Nat /\ \A i \in Indexes' : rows'[i] \in Entry
    BY <1>1 DEF TypeOK
  <2> QED BY <2>1, <2>2 DEF TypeOK
<1>4. LockInv'
  BY <1>2, PostgresAssumption DEF LockInv, InTx
<1>5. RowInv'
  <2> SUFFICES ASSUME NEW t \in Sessions
               PROVE
        /\ pc'[t] \in {"idle", "begun", "locked", "read", "counted"} => row[t] = NoRow
        /\ pc'[t] \in {"inserted", "committed"} => row[t] # NoRow
        /\ (pc'[t] \in {"inserted", "orphan"} /\ row[t] # NoRow) =>
             row[t].index = Len(rows) + 1 /\ Chained(Append(rows, row[t]))
        /\ pc'[t] = "committed" => row[t].index \in Indexes /\ rows[row[t].index] = row[t]
    BY <1>1 DEF RowInv, NoRow
  <2>1. CASE t = s
    BY <1>2, <2>1 DEF RowInv, InTx
  <2>2. CASE t # s
    BY <1>2, <2>2 DEF RowInv
  <2> QED BY <2>1, <2>2
<1>6. RecordInv' /\ HeadStaysCurrent' /\ AckedStored'
  BY <1>1, <1>2 DEF RecordInv, HeadStaysCurrent, AckedStored
<1> QED BY <1>3, <1>4, <1>5, <1>6

\* A committed row: only the lock holder had one, and it was the successor.
LEMMA StoreKeeps ==
  ASSUME IInv, NEW s \in Sessions, pc[s] \in {"inserted", "orphan"}, row[s] # NoRow,
         StoreRow(s), lock' = NoSession,
         NEW v \in {"idle", "committed"}, pc' = [pc EXCEPT ![s] = v],
         v = "committed" => row' = row /\ head' = head,
         v = "idle" => /\ row' = [row EXCEPT ![s] = NoRow]
                       /\ head' = [head EXCEPT ![s] = NoHead],
         UNCHANGED <<record, total, acked, faults>>
  PROVE  IInv'
<1> USE DEF IInv
<1>1. row[s] \in Entry /\ row[s].index = Len(rows) + 1 /\ Chained(Append(rows, row[s]))
  BY DEF RowInv, TypeOK, Line, NoRow
<1>2. /\ rows' = Append(rows, row[s])
      /\ rows' \in Seq(Entry)
      /\ Indexes' = 1..(Len(rows) + 1)
      /\ \A i \in Indexes : i \in Indexes' /\ rows'[i] = rows[i]
      /\ rows'[row[s].index] = row[s]
  BY <1>1, StoreAppends
<1>3. \A t \in Sessions : t # s => /\ pc'[t] = pc[t] /\ row'[t] = row[t]
                                   /\ pc[t] \notin {"locked", "read", "inserted", "orphan"}
  BY DEF LockInv, InTx, TypeOK
<1>4. pc'[s] = v
  BY DEF TypeOK
<1>5. Chained(rows')
  BY <1>1, <1>2
<1>6. TypeOK'
  <2>1. Indexes' \subseteq Nat /\ \A i \in Indexes' : rows'[i] \in Entry
    BY <1>2 DEF Indexes
  <2>2. NoHead \in [index : Nat, hash : Hash] /\ NoRow \in Line
    BY DEF NoHead, GENESIS, Hash, NoRow, Line
  <2>3. head' \in [Sessions -> [index : Nat, hash : Hash]] /\ row' \in [Sessions -> Line]
    <3>1. head \in [Sessions -> [index : Nat, hash : Hash]] /\ row \in [Sessions -> Line]
      BY DEF TypeOK
    <3>2. /\ head' = head \/ head' = [head EXCEPT ![s] = NoHead]
          /\ row' = row \/ row' = [row EXCEPT ![s] = NoRow]
      OBVIOUS
    <3> HIDE DEF IInv
    <3> QED BY <2>2, <3>1, <3>2
  <2> DEFINE Labels == {"idle", "begun", "locked", "read", "inserted", "committed", "orphan", "counted"}
  <2>4. pc' \in [Sessions -> Labels]
    <3>1. pc \in [Sessions -> Labels] /\ v \in Labels
      BY DEF TypeOK
    <3> HIDE DEF Labels
    <3> QED BY <3>1
  <2> QED BY <2>1, <2>3, <2>4 DEF TypeOK
<1>7. LockInv' /\ RecordInv' /\ HeadStaysCurrent'
  BY <1>3, <1>4 DEF LockInv, InTx, RecordInv, HeadStaysCurrent
<1>8. AckedStored'
  BY <1>2 DEF AckedStored
<1>9. RowInv'
  <2> SUFFICES ASSUME NEW t \in Sessions
               PROVE
        /\ pc'[t] \in {"idle", "begun", "locked", "read", "counted"} => row'[t] = NoRow
        /\ pc'[t] \in {"inserted", "committed"} => row'[t] # NoRow
        /\ (pc'[t] \in {"inserted", "orphan"} /\ row'[t] # NoRow) =>
             row'[t].index = Len(rows') + 1 /\ Chained(Append(rows', row'[t]))
        /\ pc'[t] = "committed" =>
             row'[t].index \in Indexes' /\ rows'[row'[t].index] = row'[t]
    BY DEF RowInv, NoRow
  <2>1. CASE t = s /\ v = "committed"
    <3>1. row'[t] = row[s] /\ row[s].index \in Indexes'
      BY <1>1, <1>2, <2>1 DEF TypeOK
    <3> QED BY <1>2, <1>4, <2>1, <3>1
  <2>2. CASE t = s /\ v = "idle"
    <3>1. row'[t] = NoRow
      BY <2>2 DEF TypeOK
    <3> QED BY <1>4, <2>2, <3>1
  <2>3. CASE t # s
    BY <1>2, <1>3, <2>3 DEF RowInv
  <2> QED BY <2>1, <2>2, <2>3
<1> QED BY <1>2, <1>5, <1>6, <1>7, <1>8, <1>9

LEMMA NextIInv == ASSUME IInv, [Next]_vars PROVE IInv'
<1> USE DEF IInv
<1>0. faults \in 0..MaxFaults /\ (Fault => faults' \in 0..MaxFaults)
  BY PostgresAssumption DEF TypeOK, Fault
<1>1. ASSUME NEW s \in Sessions, Begin(s) PROVE IInv'
  <2>1. PICK r \in Records : record' = [record EXCEPT ![s] = r]
    BY <1>1 DEF Begin
  <2>2. /\ pc[s] = "idle" /\ pc' = [pc EXCEPT ![s] = "begun"]
        /\ UNCHANGED <<rows, lock, head, row, total, acked, faults>>
    BY <1>1 DEF Begin, Arrive
  <2>3. record' \in [Sessions -> Records \cup {NoRow}] /\ record'[s] \in Records
        /\ \A t \in Sessions \ {s} : record'[t] = record[t]
    BY <2>1 DEF TypeOK
  <2>4. row[s] = NoRow /\ total' \in [Sessions -> Nat] /\ faults' \in 0..MaxFaults
    BY <1>0, <2>2 DEF RowInv, TypeOK
  <2> QED BY <2>2, <2>3, <2>4, MoveKeeps
<1>2. ASSUME NEW s \in Sessions, AdvisoryLock(s) PROVE IInv'
  <2>1. /\ pc[s] = "begun" /\ pc' = [pc EXCEPT ![s] = "locked"]
        /\ lock = NoSession /\ lock' = s
        /\ UNCHANGED <<rows, record, head, row, total, acked, faults>>
    BY <1>2 DEF AdvisoryLock
  <2>2. /\ record' \in [Sessions -> Records \cup {NoRow}] /\ record'[s] \in Records
        /\ row[s] = NoRow /\ total' \in [Sessions -> Nat] /\ faults' \in 0..MaxFaults
    BY <1>0, <2>1 DEF RowInv, RecordInv, TypeOK
  <2> QED BY <2>1, <2>2, MoveKeeps
<1>3. ASSUME NEW s \in Sessions, ReadHead(s) PROVE IInv'
  <2>1. /\ pc[s] = "locked" /\ pc' = [pc EXCEPT ![s] = "read"]
        /\ head' = [head EXCEPT ![s] = HeadRow]
        /\ UNCHANGED <<rows, lock, record, row, total, acked, faults>>
    BY <1>3 DEF ReadHead
  <2>2. HeadRow' = HeadRow /\ Indexes' = Indexes
    BY <2>1 DEF HeadRow, Indexes
  <2>3. HeadRow \in [index : Nat, hash : Hash]
    <3>1. rows \in Seq(Line)
      BY DEF Line
    <3>2. HashBefore(rows, Len(rows) + 1) \in Hash
      BY <3>1, HeadType
    <3> QED BY <3>2, HeadOfChain
  <2>4. /\ pc'[s] = "read" /\ head'[s] = HeadRow
        /\ \A t \in Sessions : t # s => pc'[t] = pc[t] /\ head'[t] = head[t]
    BY <2>1 DEF TypeOK
  <2>5. TypeOK'
    <3>1. Indexes' \subseteq Nat /\ \A i \in Indexes' : rows'[i] \in Entry
      BY <2>1, <2>2 DEF TypeOK
    <3> QED BY <2>1, <2>3, <3>1 DEF TypeOK
  <2>6. LockInv' /\ RecordInv'
    BY <2>1, <2>4 DEF LockInv, InTx, RecordInv
  <2>7. HeadStaysCurrent' /\ AckedStored'
    BY <2>1, <2>2, <2>4 DEF HeadStaysCurrent, AckedStored
  <2>8. RowInv'
    <3> SUFFICES ASSUME NEW t \in Sessions
                 PROVE
        /\ pc'[t] \in {"idle", "begun", "locked", "read", "counted"} => row[t] = NoRow
        /\ pc'[t] \in {"inserted", "committed"} => row[t] # NoRow
        /\ (pc'[t] \in {"inserted", "orphan"} /\ row[t] # NoRow) =>
             row[t].index = Len(rows) + 1 /\ Chained(Append(rows, row[t]))
        /\ pc'[t] = "committed" => row[t].index \in Indexes /\ rows[row[t].index] = row[t]
      BY <2>1, <2>2 DEF RowInv, NoRow
    <3>1. CASE t = s
      BY <2>1, <2>4, <3>1 DEF RowInv
    <3>2. CASE t # s
      BY <2>4, <3>2 DEF RowInv
    <3> QED BY <3>1, <3>2
  <2> QED BY <2>1, <2>5, <2>6, <2>7, <2>8
<1>4. ASSUME NEW s \in Sessions, Insert(s) PROVE IInv'
  <2>1. pc[s] = "read" /\ UNCHANGED <<rows, record, total, acked, faults>>
    BY <1>4 DEF Insert
  <2>2. head[s] = [index |-> Len(rows), hash |-> HashBefore(rows, Len(rows) + 1)]
    BY <2>1, HeadOfChain DEF HeadStaysCurrent
  <2>3. NextIndex(s) = Len(rows) + 1 /\ NextIndex(s) \notin Indexes
    BY <2>2 DEF NextIndex, Indexes
  <2>4. PICK ts \in Timestamps :
          row' = [row EXCEPT ![s] = Seal(NextIndex(s), ts, record[s], head[s].hash)]
    BY <1>4, <2>3 DEF Insert
  <2>5. pc' = [pc EXCEPT ![s] = "inserted"] /\ UNCHANGED <<lock, head>>
    BY <1>4, <2>3 DEF Insert
  <2> DEFINE e == Seal(Len(rows) + 1, ts, record[s], HashBefore(rows, Len(rows) + 1))
  <2>6. row' = [row EXCEPT ![s] = e]
    BY <2>2, <2>3, <2>4
  <2>7. rows \in Seq(Line) /\ record[s] \in Records
    BY <2>1 DEF Line, RecordInv
  <2>8. HashBefore(rows, Len(rows) + 1) \in Hash
    BY <2>7, HeadType
  <2>9. e \in Entry /\ e.index = Len(rows) + 1
    <3>1. Len(rows) + 1 \in Nat
      OBVIOUS
    <3>2. e \in Entry
      BY <2>7, <2>8, <3>1, SealType
    <3> QED BY <3>2 DEF Seal
  <2>10. Chained(Append(rows, e))
    BY <2>7, <2>8, SealExtends
  <2> HIDE DEF e
  <2>11. HeadRow' = HeadRow /\ Indexes' = Indexes
    BY <2>1 DEF HeadRow, Indexes
  <2>12. /\ pc'[s] = "inserted" /\ row'[s] = e
         /\ \A t \in Sessions : t # s => pc'[t] = pc[t] /\ row'[t] = row[t]
    BY <2>5, <2>6 DEF TypeOK
  <2>13. TypeOK'
    <3>1. Indexes' \subseteq Nat /\ \A i \in Indexes' : rows'[i] \in Entry
      BY <2>1, <2>11 DEF TypeOK
    <3> QED BY <2>1, <2>5, <2>6, <2>9, <3>1 DEF TypeOK, Line
  <2>14. LockInv' /\ RecordInv'
    BY <2>1, <2>5, <2>12 DEF LockInv, InTx, RecordInv
  <2>15. HeadStaysCurrent' /\ AckedStored'
    BY <2>1, <2>5, <2>11, <2>12 DEF HeadStaysCurrent, AckedStored
  <2>16. RowInv'
    <3> SUFFICES ASSUME NEW t \in Sessions
                 PROVE
        /\ pc'[t] \in {"idle", "begun", "locked", "read", "counted"} => row'[t] = NoRow
        /\ pc'[t] \in {"inserted", "committed"} => row'[t] # NoRow
        /\ (pc'[t] \in {"inserted", "orphan"} /\ row'[t] # NoRow) =>
             row'[t].index = Len(rows) + 1 /\ Chained(Append(rows, row'[t]))
        /\ pc'[t] = "committed" => row'[t].index \in Indexes /\ rows[row'[t].index] = row'[t]
      BY <2>1, <2>11 DEF RowInv, NoRow
    <3>1. CASE t = s
      <4>1. e # NoRow
        BY <2>9, GarbageAssumption DEF NoRow
      <4> QED BY <2>9, <2>10, <2>12, <3>1, <4>1
    <3>2. CASE t # s
      BY <2>12, <3>2 DEF RowInv
    <3> QED BY <3>1, <3>2
  <2> QED BY <2>1, <2>13, <2>14, <2>15, <2>16
<1>5. ASSUME NEW s \in Sessions, Commit(s) PROVE IInv'
  <2>1. /\ pc[s] = "inserted" /\ StoreRow(s) /\ lock' = NoSession
        /\ pc' = [pc EXCEPT ![s] = "committed"]
        /\ UNCHANGED <<record, head, row, total, acked, faults>>
    BY <1>5 DEF Commit
  <2>2. row[s] # NoRow
    BY <2>1 DEF RowInv
  <2> QED BY <2>1, <2>2, StoreKeeps
<1>6. ASSUME NEW s \in Sessions, OrphanCommit(s) PROVE IInv'
  <2>1. /\ pc[s] = "orphan" /\ row[s] # NoRow /\ StoreRow(s) /\ EndTx(s)
        /\ UNCHANGED <<record, total, acked, faults>>
    BY <1>6 DEF OrphanCommit
  <2>2. lock' = NoSession
    BY <2>1 DEF EndTx, LockInv, InTx
  <2>3. /\ pc' = [pc EXCEPT ![s] = "idle"] /\ row' = [row EXCEPT ![s] = NoRow]
        /\ head' = [head EXCEPT ![s] = NoHead]
    BY <2>1 DEF EndTx
  <2> QED BY <2>1, <2>2, <2>3, StoreKeeps
<1>7. ASSUME NEW s \in Sessions, Answer(s) PROVE IInv'
  BY <1>0, <1>7, EndTxKeeps DEF Answer
<1>8. ASSUME NEW s \in Sessions, OrphanRollback(s) PROVE IInv'
  BY <1>0, <1>8, EndTxKeeps DEF OrphanRollback
<1>9. ASSUME NEW s \in Sessions, StatementFails(s) PROVE IInv'
  BY <1>0, <1>9, EndTxKeeps DEF StatementFails
<1>10. ASSUME NEW s \in Sessions, ConnectionLost(s) PROVE IInv'
  <2>1. CASE pc[s] = "committed"
    BY <1>0, <1>10, <2>1, EndTxKeeps DEF ConnectionLost
  <2>2. CASE pc[s] # "committed"
    <3>1. /\ InTx(s) /\ pc' = [pc EXCEPT ![s] = "orphan"]
          /\ UNCHANGED <<rows, lock, record, head, row, total, acked>>
          /\ faults' \in 0..MaxFaults
      BY <1>0, <1>10, <2>2 DEF ConnectionLost, InTx
    <3>2. lock = s /\ record' \in [Sessions -> Records \cup {NoRow}]
          /\ total' \in [Sessions -> Nat]
      BY <3>1 DEF LockInv, TypeOK
    <3> QED BY <3>1, <3>2, MoveKeeps
  <2> QED BY <2>1, <2>2
<1>11. ASSUME NEW s \in Sessions, QueryCount(s) \/ QueryList(s) \/ QueryFails(s)
       PROVE  IInv'
  <2>1. /\ pc[s] \in {"idle", "counted"}
        /\ UNCHANGED <<rows, lock, record, head, row, acked>>
        /\ faults' \in 0..MaxFaults
    BY <1>0, <1>11 DEF QueryCount, QueryList, QueryFails, Arrive
  <2>2. PICK v \in {"idle", "counted"} : pc' = [pc EXCEPT ![s] = v]
    BY <1>11 DEF QueryCount, QueryList, QueryFails, Arrive
  <2>3. total' \in [Sessions -> Nat]
    <3>1. Indexes = 1..Len(rows)
      BY DEF Indexes
    <3>2. Cardinality(Indexes) \in Nat
      BY <3>1, FS_Interval, FS_CardinalityType
    <3>3. PICK x \in {0, Cardinality(Indexes)} : total' = [total EXCEPT ![s] = x]
      BY <1>11 DEF QueryCount, QueryList, QueryFails
    <3>4. x \in Nat
      BY <3>2
    <3> QED BY <3>3, <3>4 DEF TypeOK
  <2>4. row[s] = NoRow /\ record' \in [Sessions -> Records \cup {NoRow}]
    BY <2>1 DEF RowInv, TypeOK
  <2> QED BY <2>1, <2>2, <2>3, <2>4, MoveKeeps
<1>12. CASE UNCHANGED <<rows, lock, pc, record, head, row, total, acked, faults>>
  <2>1. HeadRow' = HeadRow /\ Indexes' = Indexes
    BY <1>12 DEF HeadRow, Indexes
  <2>2. TypeOK' /\ LockInv' /\ RecordInv' /\ HeadStaysCurrent' /\ AckedStored'
    BY <1>12, <2>1 DEF TypeOK, LockInv, InTx, RecordInv, HeadStaysCurrent, AckedStored
  <2>3. RowInv'
    BY <1>12, <2>1 DEF RowInv, NoRow
  <2> QED BY <1>12, <2>2, <2>3
<1>13. ASSUME NEW s \in Sessions, Verify(s) PROVE IInv'
  BY <1>12, <1>13 DEF Verify
<1> QED
  BY <1>1, <1>2, <1>3, <1>4, <1>5, <1>6, <1>7, <1>8, <1>9, <1>10, <1>11, <1>12, <1>13
  DEF Next, SessionStep, vars

LEMMA IInvHolds == Spec => []IInv
BY InitIInv, NextIInv, PTL DEF Spec

\* Every variable of the Postgres backend keeps its type.
THEOREM TypeCorrect == Spec => []TypeOK
<1>1. IInv => TypeOK
  BY DEF IInv
<1> QED BY <1>1, IInvHolds, PTL

\* The committed table, read in key order, is one hash chain without a gap,
\* for any interleaving of sessions, lost connections and late commits.
THEOREM TableStaysChain == Spec => []TableIsChain
<1>1. IInv => TableIsChain
  BY OrderOfChain DEF IInv, TableIsChain
<1> QED BY <1>1, IInvHolds, PTL

\* Every entry answered with 201 is in the table for good.
THEOREM AckedRowsKept == Spec => []AckedStored
<1>1. IInv => AckedStored
  BY DEF IInv
<1> QED BY <1>1, IInvHolds, PTL

\* The head a transaction read under the advisory lock is never stale.
THEOREM HeadNeverStale == Spec => []HeadStaysCurrent
<1>1. IInv => HeadStaysCurrent
  BY DEF IInv
<1> QED BY <1>1, IInvHolds, PTL

-----------------------------------------------------------------------------
(* The refinement of AuditLog *)

\* A row that continues the table is what the abstract log would seal next.
LEMMA RowIsSealed ==
  ASSUME rows \in Seq(Entry), NEW e \in Entry, e.index = Len(rows) + 1, Chained(Append(rows, e))
  PROVE  e = Log!Seal(Len(rows) + 1, e.ts, e.record, Log!Head1(rows))
<1> DEFINE m == Append(rows, e)
           n == Len(rows) + 1
<1>1. Len(m) = n /\ m[n] = e /\ n \in 1..n /\ (n > 1 => m[n - 1] = rows[n - 1])
  OBVIOUS
<1>2. LineOk(m, n)
  BY <1>1 DEF Chained
<1>3. HashBefore(m, n) = HashBefore(rows, n)
  BY <1>1 DEF HashBefore
<1> HIDE DEF m
<1>4. /\ e.prevHash = HashBefore(rows, n) /\ e.payloadHash = sha256Hex(e.record)
      /\ e.entryHash = EntryHash(n, e.ts, sha256Hex(e.record), HashBefore(rows, n))
  BY <1>1, <1>2, <1>3 DEF LineOk
<1>5. e = Seal(n, e.ts, e.record, HashBefore(rows, n))
  BY <1>4 DEF Entry, Seal
<1> QED
  BY <1>5 DEF Log!Head1, Log!Seal, Log!HashBefore, Log!EntryHash, Log!sha256Hex, Log!GENESIS,
              Seal, HashBefore, EntryHash, sha256Hex, GENESIS

\* What readers list is the table, before and after a step.
LEMMA OrderNow == IInv => RowsInOrder = rows
BY OrderOfChain DEF IInv

LEMMA OrderNext == IInv' => (RowsInOrder = rows)'
BY OrderNow, PTL

\* A commit, prompt or late, is one Store of the abstract log.
LEMMA CommitStores ==
  ASSUME IInv, IInv', NEW s \in Sessions, pc[s] \in {"inserted", "orphan"}, row[s] # NoRow,
         StoreRow(s), UNCHANGED <<acked, faults>>
  PROVE  Log!Store
<1> USE DEF IInv
<1>1. row[s] \in Entry /\ row[s].index = Len(rows) + 1 /\ Chained(Append(rows, row[s]))
  BY DEF RowInv, TypeOK, Line, NoRow
<1>2. rows' = Append(rows, row[s])
  BY <1>1, StoreAppends
<1>3. RowsInOrder = rows /\ RowsInOrder' = rows'
  BY OrderNow, OrderNext
<1>4. row[s] = Log!Seal(Len(rows) + 1, row[s].ts, row[s].record, Log!Head1(rows))
  BY <1>1, RowIsSealed
<1>5. row[s].ts \in Timestamps /\ row[s].record \in Records
  BY <1>1 DEF Entry
<1> QED BY <1>2, <1>3, <1>4, <1>5 DEF Log!Store, Log!MayFail

\* The Postgres backend implements the abstract log and is never damaged: what a
\* reader lists only grows by sealed entries, and an acknowledged entry is in it
\* for good, for any number of sessions, lost connections and late commits.
THEOREM PostgresImplementsAuditLog == Spec => ImplementsAuditLog
<1>1. Init => Log!Init
  <2> SUFFICES ASSUME Init PROVE Log!Init
    OBVIOUS
  <2>1. rows = <<>> /\ faults = 0 /\ acked = {}
    BY DEF Init
  <2>2. RowsInOrder = <<>>
    BY <2>1, InitIInv, OrderNow
  <2> QED BY <2>1, <2>2 DEF Log!Init
<1>2. ASSUME IInv, IInv', [Next]_vars PROVE [Log!NextSound]_(Log!vars)
  <2> USE <1>2 DEF IInv
  <2>1. faults \in Nat
    BY PostgresAssumption DEF TypeOK
  <2>2. CASE UNCHANGED <<rows, acked, faults>>
    <3>1. RowsInOrder' = RowsInOrder
      BY <2>2, OrderNow, OrderNext
    <3> QED BY <2>2, <3>1 DEF Log!vars
  <2>3. CASE Fault /\ UNCHANGED <<rows, acked>>
    <3>1. faults' > 0
      BY <2>1, <2>3 DEF Fault
    <3>2. RowsInOrder' = RowsInOrder
      BY <2>3, OrderNow, OrderNext
    <3>3. Log!Fail
      BY <2>3, <3>1, <3>2 DEF Log!Fail
    <3> QED BY <3>3 DEF Log!NextSound
  <2>4. ASSUME NEW s \in Sessions, Commit(s) \/ OrphanCommit(s) PROVE Log!Store
    <3>1. /\ pc[s] \in {"inserted", "orphan"} /\ row[s] # NoRow
          /\ StoreRow(s) /\ UNCHANGED <<acked, faults>>
      BY <2>4 DEF Commit, OrphanCommit, RowInv
    <3> QED BY <3>1, CommitStores
  <2>5. ASSUME NEW s \in Sessions, Answer(s) PROVE Log!Acknowledge
    <3>1. row[s].index \in DOMAIN rows /\ rows[row[s].index] = row[s]
      BY <2>5 DEF Answer, RowInv, Indexes
    <3>2. acked' = acked \cup {row[s]} /\ UNCHANGED <<rows, faults>>
      BY <2>5 DEF Answer
    <3>3. RowsInOrder = rows /\ RowsInOrder' = rows
      BY <3>2, OrderNow, OrderNext
    <3> QED BY <3>1, <3>2, <3>3 DEF Log!Acknowledge
  <2>6. ASSUME NEW s \in Sessions,
               \/ Begin(s) \/ Verify(s) \/ QueryCount(s) \/ AdvisoryLock(s) \/ ReadHead(s)
               \/ Insert(s) \/ QueryList(s) \/ OrphanRollback(s)
        PROVE  UNCHANGED <<rows, acked, faults>>
    BY <2>6 DEF Begin, Verify, QueryCount, AdvisoryLock, ReadHead, Insert, QueryList,
                OrphanRollback
  <2>7. ASSUME NEW s \in Sessions, StatementFails(s) \/ ConnectionLost(s) \/ QueryFails(s)
        PROVE  Fault /\ UNCHANGED <<rows, acked>>
    BY <2>7 DEF StatementFails, ConnectionLost, QueryFails
  <2> QED
    BY <1>2, <2>2, <2>3, <2>4, <2>5, <2>6, <2>7 DEF Next, SessionStep, vars, Log!NextSound
<1> QED
  BY <1>1, <1>2, IInvHolds, PTL DEF Spec, ImplementsAuditLog, Log!SpecSound

-----------------------------------------------------------------------------
(* Reads *)

\* A caller was told of nothing that is not acknowledged.
SeenInv == /\ DOMAIN reply = Sessions /\ DOMAIN seen = Sessions
           /\ \A s \in Sessions : seen[s] \subseteq acked

\* A verification or a query lists every entry that is acknowledged.
LEMMA AnswerCoversAcked ==
  ASSUME IInv, NEW e \in acked
  PROVE  /\ \E i \in DOMAIN RowsInOrder : RowsInOrder[i] = e
         /\ e.index <= VerifyResult(RowsInOrder).totalEntries
<1> USE DEF IInv
<1>1. RowsInOrder = rows /\ rows \in Seq(Line) /\ Chained(rows)
  BY OrderNow DEF Line
<1>2. e.index \in 1..Len(rows) /\ rows[e.index] = e
  BY DEF AckedStored, Indexes
<1>3. VerifyResult(rows).totalEntries = Len(rows)
  BY <1>1, VerifiedLenChained DEF VerifyResult
<1> QED BY <1>1, <1>2, <1>3

\* A caller that got its 201 before it asks sees the entry, in every query and
\* every verification that succeeds.
THEOREM WritesAreRead == Spec => []ReadYourWrites
<1> DEFINE Covered(s) ==
      /\ (reply[s].status = 200 /\ "items" \in DOMAIN reply[s])
           => \A e \in seen[s] : \E i \in DOMAIN reply[s].items : reply[s].items[i] = e
      /\ (reply[s].status = 200 /\ "result" \in DOMAIN reply[s])
           => \A e \in seen[s] : e.index <= reply[s].result.totalEntries
<1>1. Init => SeenInv /\ ReadYourWrites
  BY DEF Init, SeenInv, ReadYourWrites, NoReply
<1>2. ASSUME IInv, SeenInv, ReadYourWrites, [Next]_vars
      PROVE  SeenInv' /\ ReadYourWrites'
  <2> USE <1>2
  <2>1. \A s \in Sessions : Covered(s)
    BY DEF ReadYourWrites
  <2>2. ASSUME NEW s \in Sessions,
               \A t \in Sessions : t # s => reply'[t] = reply[t] /\ seen'[t] = seen[t],
               Covered(s)'
        PROVE  ReadYourWrites'
    BY <2>1, <2>2 DEF ReadYourWrites
  <2>3. ASSUME NEW s \in Sessions, NEW r, reply' = [reply EXCEPT ![s] = r], r.status # 200,
               seen' = seen \/ seen' = [seen EXCEPT ![s] = acked], acked \subseteq acked'
        PROVE  SeenInv' /\ ReadYourWrites'
    <3>1. SeenInv'
      BY <2>3 DEF SeenInv
    <3>2. reply'[s].status # 200 /\ \A t \in Sessions : t # s => reply'[t] = reply[t] /\ seen'[t] = seen[t]
      BY <2>3 DEF SeenInv
    <3> QED BY <2>2, <3>1, <3>2
  <2>4. CASE UNCHANGED <<reply, seen, acked>>
    BY <2>4 DEF SeenInv, ReadYourWrites
  <2>5. ASSUME NEW s \in Sessions, Begin(s) \/ QueryCount(s) PROVE SeenInv' /\ ReadYourWrites'
    <3>1. /\ reply' = [reply EXCEPT ![s] = NoReply] /\ NoReply.status # 200
          /\ seen' = [seen EXCEPT ![s] = acked] /\ acked' = acked
      BY <2>5 DEF Begin, QueryCount, Arrive, NoReply
    <3> QED BY <2>3, <3>1
  <2>6. ASSUME NEW s \in Sessions, Verify(s) PROVE SeenInv' /\ ReadYourWrites'
    <3> DEFINE v == VerifyResult(RowsInOrder)
               r == [status |-> IF v.valid THEN 200 ELSE 409, result |-> v]
    <3>1. /\ reply' = [reply EXCEPT ![s] = r] /\ seen' = [seen EXCEPT ![s] = acked]
          /\ acked' = acked
      BY <2>6 DEF Verify
    <3>2. SeenInv' /\ \A t \in Sessions : t # s => reply'[t] = reply[t] /\ seen'[t] = seen[t]
      BY <3>1 DEF SeenInv
    <3>3. reply'[s] = r /\ seen'[s] = acked
      BY <3>1 DEF SeenInv
    <3>4. "items" \notin DOMAIN r /\ r.result = v
      OBVIOUS
    <3>5. \A e \in acked : e.index <= v.totalEntries
      BY AnswerCoversAcked
    <3> HIDE DEF r, v
    <3> QED BY <2>2, <3>2, <3>3, <3>4, <3>5
  <2>7. ASSUME NEW s \in Sessions, QueryList(s) PROVE SeenInv' /\ ReadYourWrites'
    <3> DEFINE r == [status |-> 200, items |-> RowsInOrder, total |-> total[s]]
    <3>1. reply' = [reply EXCEPT ![s] = r] /\ seen' = seen /\ acked' = acked
      BY <2>7 DEF QueryList
    <3>2. SeenInv' /\ \A t \in Sessions : t # s => reply'[t] = reply[t] /\ seen'[t] = seen[t]
      BY <3>1 DEF SeenInv
    <3>3. reply'[s] = r /\ seen'[s] \subseteq acked
      BY <3>1 DEF SeenInv
    <3>4. "result" \notin DOMAIN r /\ r.items = RowsInOrder
      OBVIOUS
    <3>5. \A e \in acked : \E i \in DOMAIN RowsInOrder : RowsInOrder[i] = e
      BY AnswerCoversAcked
    <3> HIDE DEF r
    <3> QED BY <2>2, <3>2, <3>3, <3>4, <3>5
  <2>8. ASSUME NEW s \in Sessions,
               Answer(s) \/ StatementFails(s) \/ ConnectionLost(s) \/ QueryFails(s) \/ Insert(s)
        PROVE  SeenInv' /\ ReadYourWrites'
    <3>1. CASE UNCHANGED <<reply, seen, acked>>
      BY <2>4, <3>1
    <3>2. ~UNCHANGED <<reply, seen, acked>> =>
            \E r \in {[status |-> 500], [status |-> 201, entry |-> row[s]]} :
               reply' = [reply EXCEPT ![s] = r]
      BY <2>8 DEF Answer, StatementFails, ConnectionLost, QueryFails, Insert
    <3>3. seen' = seen /\ acked \subseteq acked'
      BY <2>8 DEF Answer, StatementFails, ConnectionLost, QueryFails, Insert
    <3>4. CASE ~UNCHANGED <<reply, seen, acked>>
      <4>1. PICK r \in {[status |-> 500], [status |-> 201, entry |-> row[s]]} :
                reply' = [reply EXCEPT ![s] = r]
        BY <3>2, <3>4
      <4>2. r.status # 200
        OBVIOUS
      <4> QED BY <2>3, <3>3, <4>1, <4>2
    <3> QED BY <3>1, <3>4
  <2>9. ASSUME NEW s \in Sessions,
               AdvisoryLock(s) \/ ReadHead(s) \/ Commit(s) \/ OrphanRollback(s) \/ OrphanCommit(s)
        PROVE  SeenInv' /\ ReadYourWrites'
    BY <2>4, <2>9 DEF AdvisoryLock, ReadHead, Commit, OrphanRollback, OrphanCommit
  <2> QED
    BY <2>4, <2>5, <2>6, <2>7, <2>8, <2>9 DEF Next, SessionStep, vars
<1> QED BY <1>1, <1>2, IInvHolds, PTL DEF Spec
=============================================================================
