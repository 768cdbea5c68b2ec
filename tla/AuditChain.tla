------------------------------ MODULE AuditChain ------------------------------
(***************************************************************************)
(* The hash chain both storage backends of cmd/server keep: what an entry  *)
(* is, how Append seals one, and what Verify computes over the stored      *)
(* lines or rows.  No state: FileStore and PostgresStore build on it.      *)
(*                                                                         *)
(* SHA-256 is symbolic and collision free.  The hash of a payload is that  *)
(* payload wrapped; the hash of an entry is the sequence of everything it  *)
(* commits to: the commitment of its predecessor followed by its own       *)
(* index, timestamp and payload hash.  The string "GENESIS" is then the    *)
(* empty commitment.                                                       *)
(***************************************************************************)
EXTENDS Naturals, Sequences

CONSTANTS Records,      \* log records, clientId and metadata included
          Timestamps,   \* what time.Now().UTC() may return
          Garbage       \* a stored line that is not the JSON of one entry

sha256Hex(r) == [sha256 |-> r]
PayloadHash  == {sha256Hex(r) : r \in Records}
Commitment   == [index : Nat, ts : Timestamps, payload : PayloadHash]
Hash         == Seq(Commitment)

GENESIS == <<>>
EntryHash(index, ts, payload, prev) ==
    Append(prev, [index |-> index, ts |-> ts, payload |-> payload])

Entry == [index : Nat, ts : Timestamps, prevHash : Hash,
          payloadHash : PayloadHash, entryHash : Hash, record : Records]
Line  == Entry \cup {Garbage}

ASSUME GarbageAssumption == Garbage \notin Entry

\* The entry Append builds for a record after the head (index - 1, prev).
Seal(index, ts, record, prev) ==
    [index       |-> index,
     ts          |-> ts,
     prevHash    |-> prev,
     payloadHash |-> sha256Hex(record),
     entryHash   |-> EntryHash(index, ts, sha256Hex(record), prev),
     record      |-> record]

-----------------------------------------------------------------------------
(* Verification: the chain is walked from GENESIS and the walk stops at the  *)
(* first line that is not the sealed successor of the line before it.        *)

HashBefore(log, i) == IF i = 1 THEN GENESIS ELSE log[i - 1].entryHash

LineOk(log, i) ==
    /\ log[i] # Garbage
    /\ log[i].index = i
    /\ log[i].prevHash = HashBefore(log, i)
    /\ log[i].payloadHash = sha256Hex(log[i].record)
    /\ log[i].entryHash =
         EntryHash(log[i].index, log[i].ts, sha256Hex(log[i].record), log[i].prevHash)

Chained(log) == \A i \in 1..Len(log) : LineOk(log, i)

\* How many leading lines verify: TotalEntries of the VerifyResult.
VerifiedLen(log) ==
    IF Chained(log) THEN Len(log)
    ELSE CHOOSE n \in 0..(Len(log) - 1) :
           ~LineOk(log, n + 1) /\ \A i \in 1..n : LineOk(log, i)

VerifyResult(log) ==
    LET total == VerifiedLen(log)
    IN  [valid        |-> Chained(log),
         totalEntries |-> total,
         lastHash     |-> HashBefore(log, total + 1),
         invalidAt    |-> IF Chained(log) THEN 0 ELSE total + 1]

VerifiedPrefix(log) == SubSeq(log, 1, VerifiedLen(log))
=============================================================================
