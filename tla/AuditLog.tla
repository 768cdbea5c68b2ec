------------------------------- MODULE AuditLog -------------------------------
(***************************************************************************)
(* What the audit server promises its callers, whatever the backend: a     *)
(* hash-chained log that only grows, in which every acknowledged entry     *)
(* stays where it was acknowledged.  A backend may be damaged, but only    *)
(* after a storage failure; damage is permanent and reported, and it never *)
(* reaches an entry that was acknowledged before it.                       *)
(***************************************************************************)
EXTENDS AuditChain, SequencesExt

VARIABLES log,      \* the entries a reader can verify, in order
          acked,    \* every entry some caller was told (201) is stored
          damaged,  \* verification reports an invalid chain
          faulty    \* storage has failed at least once
vars == <<log, acked, damaged, faulty>>

Init == /\ log = <<>>
        /\ acked = {}
        /\ damaged = FALSE
        /\ faulty = FALSE

\* Storage may fail during any step, or on its own.
MayFail == faulty' \in {faulty, TRUE}

Fail == faulty' = TRUE /\ UNCHANGED <<log, acked, damaged>>

Head1(l) == HashBefore(l, Len(l) + 1)

Store == /\ ~damaged
         /\ \E r \in Records, ts \in Timestamps :
              log' = Append(log, Seal(Len(log) + 1, ts, r, Head1(log)))
         /\ MayFail /\ UNCHANGED <<acked, damaged>>

\* A caller is told about an entry that is in the log ...
Acknowledge == /\ ~damaged
               /\ \E i \in DOMAIN log : acked' = acked \cup {log[i]}
               /\ UNCHANGED <<log, damaged, faulty>>

\* ... or, on a damaged log, about one that may not be.
AcknowledgeBlindly == /\ damaged
                      /\ acked \subseteq acked'
                      /\ UNCHANGED <<log, damaged, faulty>>

\* Damage takes a storage failure, now or before.  It may take the last entry,
\* never an acknowledged one.
Damage == /\ ~damaged
          /\ damaged' = TRUE /\ faulty' = TRUE
          /\ \/ log' = log
             \/ /\ log # <<>>
                /\ Last(log) \notin acked
                /\ log' = Front(log)
          /\ UNCHANGED acked

Next == Store \/ Acknowledge \/ AcknowledgeBlindly \/ Damage \/ Fail

Spec == Init /\ [][Next]_vars

\* A backend with transactional storage is never damaged.
NextSound == Store \/ Acknowledge \/ Fail
SpecSound == Init /\ [][NextSound]_vars
=============================================================================
