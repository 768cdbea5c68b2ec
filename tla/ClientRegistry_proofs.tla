-------------------------- MODULE ClientRegistry_proofs --------------------------
(***************************************************************************)
(* Proofs about ClientRegistry: tokens, revocation and the entries a       *)
(* client reads, for any number of operators, requests, ids, secrets and   *)
(* outages.                                                                *)
(***************************************************************************)
EXTENDS ClientRegistry, FiniteSetTheorems, TLAPS

-----------------------------------------------------------------------------
(* The inductive invariant *)

\* No row has a secret that was not generated yet.
SecretInv == \A c \in Registered : clients[c].secret <= minted

\* Commands under way leave room for the secrets they will generate.
MintInv == minted + Cardinality(Minting) <= MaxSecrets

\* A token that was issued belongs to a client, whose secret only gets newer.
Issued(t) == t # None => t.id \in Registered /\ t.secret \in 1..clients[t.id].secret
Revoked(c) == c \in Registered /\ clients[c].revoked

\* What a command did holds from its statement on, also before it says so.
CommandInv(o) ==
    /\ (cpc[o] = "executed" /\ cmd[o].name = "revoke") => Revoked(cmd[o].id)
    /\ Issued(printed[o]) /\ Issued(exit[o].token)
    /\ exit[o].revoked # None => Revoked(exit[o].revoked)

CliInv == DOMAIN exit = Operators /\ \A o \in Operators : CommandInv(o)

\* A token a request may carry: one that was generated.
Known(t) == t # None => t.id \in Ids /\ t.secret \in Nat /\ t.secret <= minted

\* A request under way: one that came with a dead token never passes requireAuth,
\* and the principal of one that passed is the client of its token.
ReqInv ==
    /\ DOMAIN req = Requests
    /\ \A r \in Requests :
         /\ rpc[r] # "idle" => Known(req[r].token) /\ (req[r].stale => ~Works(req[r].token))
         /\ rpc[r] = "handle" => /\ ~req[r].stale /\ req[r].token # None
                                 /\ principal[r] \in [id : Ids, role : Roles]
                                 /\ principal[r].id = req[r].token.id

\* A response: what it was refused for stays true, and what it listed stays the
\* reader's own entries.
ReplyInv ==
    /\ DOMAIN reply = Requests
    /\ \A r \in Requests :
         /\ reply[r].status \in {200, 201} => ~reply[r].stale
         /\ reply[r].status = 401 => Known(reply[r].token) /\ ~Works(reply[r].token)
         /\ reply[r].status = 200 => reply[r].upto \in 0..Len(log)

\* An entry carries the client whose token it was sent with.
LogInv == \A i \in DOMAIN log : log[i].client = log[i].by

IInv == /\ TypeOK /\ SecretInv /\ MintInv /\ CliInv
        /\ ReqInv /\ ReplyInv /\ ReadsOwnEntries /\ LogInv

LEMMA InitIInv == Init => IInv
<1> SUFFICES ASSUME Init PROVE IInv
  OBVIOUS
<1> USE RegistryAssumption
<1>1. Registered = {} /\ clients = <<>>
  BY DEF Init, Registered
<1>2. Legacy \in [client : Ids \cup {None}, by : Ids \cup {None}] /\ Legacy.client = Legacy.by
  BY DEF Legacy
<1>3. log = <<Legacy>>
  BY DEF Init
<1>4. log \in Seq([client : Ids \cup {None}, by : Ids \cup {None}]) /\ LogInv
  <2> HIDE DEF Legacy
  <2> QED BY <1>2, <1>3 DEF LogInv
<1>5. TypeOK
  BY <1>1, <1>4 DEF Init, TypeOK
<1>6. Minting = {}
  BY DEF Init, Minting
<1>7. MintInv
  BY <1>6, FS_EmptySet DEF Init, MintInv
<1>8. SecretInv /\ CliInv
  BY <1>1 DEF Init, SecretInv, CliInv, CommandInv, Issued, NoExit
<1>9. ReqInv /\ ReplyInv /\ ReadsOwnEntries
  BY DEF Init, ReqInv, ReplyInv, ReadsOwnEntries, NoReply
<1> QED BY <1>4, <1>5, <1>7, <1>8, <1>9 DEF IInv

-----------------------------------------------------------------------------
(* What any step does to the registry *)

\* Secrets get newer, a revoked row stays as it is, and no row disappears.
Evolves ==
    /\ minted' \in minted..MaxSecrets
    /\ Registered' \subseteq Ids
    /\ \A c \in Registered' : clients'[c] \in Row /\ clients'[c].secret <= minted'
    /\ \A c \in Registered' : c \notin Registered => clients'[c].secret > minted
    /\ \A c \in Registered :
         /\ c \in Registered'
         /\ clients[c].revoked => clients'[c] = clients[c]
         /\ clients'[c].secret = clients[c].secret \/ clients'[c].secret > minted

LEMMA EvolvesUnchanged ==
  ASSUME IInv, UNCHANGED registry
  PROVE  Evolves
BY RegistryAssumption DEF IInv, TypeOK, SecretInv, Evolves, Registered, registry

\* A command that generates a secret was admitted with room for it.
LEMMA MintRoom ==
  ASSUME IInv, NEW o \in Operators, cpc[o] = "connected", cmd[o].name \in {"register", "rotate"}
  PROVE  /\ minted < MaxSecrets /\ o \in Minting
         /\ minted \in Nat /\ MaxSecrets \in Nat /\ minted + 1 \in 1..MaxSecrets
<1>1. o \in Minting /\ Minting \subseteq Operators
  BY DEF Minting
<1>2. IsFiniteSet(Minting)
  BY <1>1, FS_Subset, RegistryAssumption
<1>3. Cardinality(Minting) \in Nat /\ Cardinality(Minting) # 0
  BY <1>1, <1>2, FS_CardinalityType, FS_EmptySet
<1>4. minted \in Nat /\ MaxSecrets \in Nat
  BY RegistryAssumption DEF IInv, TypeOK
<1> QED BY <1>1, <1>3, <1>4 DEF IInv, MintInv

LEMMA RegisterEvolves ==
  ASSUME IInv, NEW o \in Operators, Register(o)
  PROVE  Evolves
<1>1. CASE CommandFails(o)
  BY <1>1, EvolvesUnchanged DEF CommandFails
<1>2. ASSUME NEW c \in Ids, c \notin Registered, cmd[o].role \in Roles, InsertClient(o, c)
      PROVE  Evolves
  <2> DEFINE new == [secret |-> minted', role |-> cmd[o].role, revoked |-> FALSE]
  <2>1. minted \in Nat /\ minted' = minted + 1 /\ minted' \in 1..MaxSecrets /\ MaxSecrets \in Nat
    BY <1>2, MintRoom DEF Register, Runs, InsertClient
  <2>2. new \in Row /\ new.secret = minted'
    BY <1>2, <2>1 DEF Row
  <2>3. clients' = [i \in Registered \cup {c} |-> IF i = c THEN new ELSE clients[i]]
    BY <1>2 DEF InsertClient
  <2> HIDE DEF new
  <2>4. /\ Registered' = Registered \cup {c} /\ clients'[c] = new
        /\ \A i \in Registered : clients'[i] = clients[i]
    BY <1>2, <2>3 DEF Registered
  <2>5. \A i \in Registered : /\ i \in Ids /\ clients[i] \in Row /\ clients[i].secret <= minted
                              /\ clients[i].secret \in Nat
    BY DEF IInv, TypeOK, SecretInv, Row
  <2> QED BY <1>2, <2>1, <2>2, <2>4, <2>5 DEF Evolves
<1> QED BY <1>1, <1>2 DEF Register

LEMMA RotateEvolves ==
  ASSUME IInv, NEW o \in Operators, Rotate(o)
  PROVE  Evolves
<1>1. CASE CommandFails(o)
  BY <1>1, EvolvesUnchanged DEF CommandFails
<1>2. CASE ~CommandFails(o)
  <2> DEFINE c == cmd[o].id
             new == [clients[c] EXCEPT !.secret = minted']
  <2>1. Active(c) /\ minted' = minted + 1 /\ clients' = [clients EXCEPT ![c].secret = minted']
    BY <1>2 DEF Rotate
  <2>2. minted \in Nat /\ minted' \in 1..MaxSecrets /\ MaxSecrets \in Nat
    BY <2>1, MintRoom DEF Rotate, Runs
  <2>3. c \in Registered /\ ~clients[c].revoked /\ clients[c] \in Row
    BY <2>1 DEF Active, IInv, TypeOK
  <2>4. new \in Row /\ new.secret = minted'
    BY <2>2, <2>3 DEF Row
  <2>5. clients' = [clients EXCEPT ![c] = new]
    BY <2>1
  <2> HIDE DEF new, c
  <2>6. /\ Registered' = Registered /\ clients'[c] = new
        /\ \A i \in Registered : i # c => clients'[i] = clients[i]
    BY <2>3, <2>5 DEF Registered
  <2>7. \A i \in Registered : /\ i \in Ids /\ clients[i] \in Row /\ clients[i].secret <= minted
                              /\ clients[i].secret \in Nat
    BY DEF IInv, TypeOK, SecretInv, Row
  <2> QED BY <2>1, <2>2, <2>3, <2>4, <2>6, <2>7 DEF Evolves
<1> QED BY <1>1, <1>2

LEMMA RevokeEvolves ==
  ASSUME IInv, NEW o \in Operators, Revoke(o)
  PROVE  /\ Evolves
         /\ cpc'[o] = "executed" => \E c : c = cmd[o].id /\ Revoked(c)'
<1> DEFINE c == cmd[o].id
           new == [clients[c] EXCEPT !.revoked = TRUE]
<1>1. CASE CommandFails(o)
  <2>1. cpc'[o] = "idle"
    BY <1>1 DEF CommandFails, Exit, IInv, TypeOK
  <2> QED BY <1>1, <2>1, EvolvesUnchanged DEF CommandFails
<1>2. CASE ~CommandFails(o)
  <2>1. Active(c) /\ minted' = minted /\ clients' = [clients EXCEPT ![c].revoked = TRUE]
    BY <1>2 DEF Revoke
  <2>2. minted \in 0..MaxSecrets /\ minted' \in minted..MaxSecrets
    BY <2>1, RegistryAssumption DEF IInv, TypeOK
  <2>3. c \in Registered /\ ~clients[c].revoked /\ clients[c] \in Row
    BY <2>1 DEF Active, IInv, TypeOK
  <2>4. new \in Row /\ new.secret = clients[c].secret /\ new.revoked
    BY <2>3 DEF Row
  <2>5. clients' = [clients EXCEPT ![c] = new]
    BY <2>1
  <2> HIDE DEF new, c
  <2>6. /\ Registered' = Registered /\ clients'[c] = new
        /\ \A i \in Registered : i # c => clients'[i] = clients[i]
    BY <2>3, <2>5 DEF Registered
  <2>7. \A i \in Registered : /\ i \in Ids /\ clients[i] \in Row /\ clients[i].secret <= minted
                              /\ clients[i].secret \in Nat
    BY DEF IInv, TypeOK, SecretInv, Row
  <2>8. Evolves
    BY <2>1, <2>2, <2>3, <2>4, <2>6, <2>7 DEF Evolves
  <2> QED BY <2>3, <2>4, <2>6, <2>8 DEF c, Revoked
<1> QED BY <1>1, <1>2

LEMMA StepEvolves ==
  ASSUME IInv, [Next]_vars
  PROVE  Evolves
<1>1. CASE UNCHANGED registry
  BY <1>1, EvolvesUnchanged
<1>2. CASE Outage \/ Recover \/ UNCHANGED vars
  BY <1>1, <1>2 DEF Outage, Recover, vars, registry
<1>3. ASSUME NEW r \in Requests, RequestStep(r) PROVE Evolves
  BY <1>1, <1>3 DEF RequestStep, Arrive, requireAuth, handleWriteLog, handleReadLogs, HandlerFails
<1>4. ASSUME NEW o \in Operators, OperatorStep(o) PROVE Evolves
  <2>1. CASE Register(o) \/ Rotate(o) \/ Revoke(o)
    BY <2>1, RegisterEvolves, RotateEvolves, RevokeEvolves
  <2>2. CASE \/ \E c \in Commands : runClientsCommand(o, c)
             \/ MissingFlag(o) \/ List(o) \/ StatementFails(o) \/ ResultLost(o) \/ PrintResult(o)
    BY <1>1, <2>2 DEF runClientsCommand, MissingFlag, List, StatementFails, ResultLost,
                      PrintResult, CommandFails
  <2> QED BY <1>4, <2>1, <2>2 DEF OperatorStep
<1> QED BY <1>2, <1>3, <1>4 DEF Next

\* A token that was generated and does not work never works again.
LEMMA DeadStaysDead ==
  ASSUME IInv, Evolves
  PROVE  \A t : Known(t) /\ ~Works(t) => Known(t)' /\ ~Works(t)'
<1> SUFFICES ASSUME NEW t, Known(t), ~Works(t) PROVE Known(t)' /\ ~Works(t)'
  OBVIOUS
<1>1. minted \in Nat /\ minted' \in Nat /\ minted <= minted' /\ MaxSecrets \in Nat
  BY RegistryAssumption DEF IInv, TypeOK, Evolves
<1>2. Known(t)'
  BY <1>1 DEF Known
<1>3. ASSUME Works(t)' PROVE FALSE
  <2>1. /\ t # None /\ t.id \in Registered' /\ ~clients'[t.id].revoked
        /\ clients'[t.id].secret = t.secret
    BY <1>3 DEF Works, Active
  <2>2. t.secret \in Nat /\ t.secret <= minted
    BY <2>1 DEF Known
  <2>3. t.id \in Registered
    BY <1>1, <2>1, <2>2 DEF Evolves
  <2>4. clients[t.id].secret = t.secret /\ ~clients[t.id].revoked
    BY <1>1, <2>1, <2>2, <2>3 DEF Evolves
  <2> QED BY <2>1, <2>3, <2>4 DEF Works, Active
<1> QED BY <1>2, <1>3

\* A token that was issued and a client that was revoked stay so.
LEMMA IssuedStays ==
  ASSUME IInv, Evolves
  PROVE  (\A t : Issued(t) => Issued(t)') /\ (\A c : Revoked(c) => Revoked(c)')
<1>1. \A c \in Registered : clients[c].secret \in Nat /\ clients[c].secret <= minted
  BY DEF IInv, TypeOK, SecretInv, Row
<1>2. \A c \in Registered' : clients'[c].secret \in Nat
  BY DEF Evolves, Row
<1>3. minted \in Nat
  BY DEF IInv, TypeOK
<1> QED BY <1>1, <1>2, <1>3 DEF Evolves, Issued, Revoked

-----------------------------------------------------------------------------
(* Each part of the invariant is preserved *)

\* Requests and responses do not feel a step of an operator or the database.
LEMMA HttpKept ==
  ASSUME IInv, Evolves, UNCHANGED http
  PROVE  ReqInv' /\ ReplyInv' /\ ReadsOwnEntries' /\ LogInv'
<1> USE DEF IInv, http
<1>1. \A t : Known(t) => Known(t)'
  <2>1. minted \in Nat /\ minted' \in Nat /\ minted <= minted'
    BY RegistryAssumption DEF TypeOK, Evolves
  <2> QED BY <2>1 DEF Known
<1>2. ReqInv'
  BY <1>1, DeadStaysDead DEF ReqInv
<1>3. ReplyInv'
  BY <1>1, DeadStaysDead DEF ReplyInv
<1> QED BY <1>2, <1>3 DEF ReadsOwnEntries, LogInv

LEMMA CliKept ==
  ASSUME IInv, Evolves, UNCHANGED cli
  PROVE  CliInv'
BY IssuedStays DEF IInv, CliInv, CommandInv, cli

\* A step of one operator leaves the others as they are.
LEMMA CliChanged ==
  ASSUME IInv, Evolves, NEW o \in Operators, DOMAIN exit' = Operators, CommandInv(o)',
         \A p \in Operators : p # o => /\ cpc'[p] = cpc[p] /\ cmd'[p] = cmd[p]
                                       /\ printed'[p] = printed[p] /\ exit'[p] = exit[p]
  PROVE  CliInv'
BY IssuedStays DEF IInv, CliInv, CommandInv

CliTypeOK ==
    /\ cpc \in [Operators -> {"idle", "connected", "executed"}]
    /\ cmd \in [Operators -> Commands \cup {NoCmd}]
    /\ printed \in [Operators -> Tokens \cup {None}]

LEMMA ExitEffect ==
  ASSUME IInv, Evolves, NEW o \in Operators, NEW c, NEW code, NEW token,
         Exit(o, c, code, token), Issued(token)',
         code = 0 /\ c.name = "revoke" => \E i : i = c.id /\ Revoked(i)'
  PROVE  CliInv' /\ CliTypeOK' /\ Minting' \subseteq Minting \ {o}
<1> DEFINE e == [code    |-> code,
                 revoked |-> IF code = 0 /\ c.name = "revoke" THEN c.id ELSE None,
                 token   |-> token]
<1>1. /\ exit' = [exit EXCEPT ![o] = e] /\ cpc' = [cpc EXCEPT ![o] = "idle"]
      /\ cmd' = [cmd EXCEPT ![o] = NoCmd] /\ printed' = [printed EXCEPT ![o] = None]
  BY DEF Exit
<1>2. e.token = token /\ (e.revoked # None => code = 0 /\ c.name = "revoke" /\ e.revoked = c.id)
  OBVIOUS
<1> HIDE DEF e
<1>3. /\ DOMAIN exit = Operators /\ DOMAIN cpc = Operators /\ DOMAIN cmd = Operators
      /\ DOMAIN printed = Operators
  BY DEF IInv, CliInv, TypeOK
<1>4. CliTypeOK'
  BY <1>1 DEF IInv, TypeOK, CliTypeOK
<1>5. /\ cpc'[o] = "idle" /\ printed'[o] = None /\ exit'[o] = e /\ DOMAIN exit' = Operators
      /\ \A p \in Operators : p # o => /\ cpc'[p] = cpc[p] /\ cmd'[p] = cmd[p]
                                       /\ printed'[p] = printed[p] /\ exit'[p] = exit[p]
  BY <1>1, <1>3
<1>6. CommandInv(o)'
  BY <1>2, <1>5 DEF CommandInv, Issued
<1>7. CliInv'
  BY <1>5, <1>6, CliChanged
<1> QED BY <1>4, <1>5, <1>7 DEF Minting

LEMMA ExecutedEffect ==
  ASSUME IInv, Evolves, NEW o \in Operators, NEW token \in Tokens \cup {None},
         Executed(o, token), Issued(token)',
         cmd[o].name = "revoke" => \E i : i = cmd[o].id /\ Revoked(i)'
  PROVE  CliInv' /\ CliTypeOK' /\ Minting' \subseteq Minting \ {o}
<1>1. /\ cpc' = [cpc EXCEPT ![o] = "executed"] /\ printed' = [printed EXCEPT ![o] = token]
      /\ UNCHANGED <<cmd, exit>>
  BY DEF Executed
<1>2. /\ DOMAIN exit = Operators /\ DOMAIN cpc = Operators /\ DOMAIN cmd = Operators
      /\ DOMAIN printed = Operators
  BY DEF IInv, CliInv, TypeOK
<1>3. CliTypeOK'
  BY <1>1 DEF IInv, TypeOK, CliTypeOK
<1>4. /\ cpc'[o] = "executed" /\ printed'[o] = token /\ DOMAIN exit' = Operators
      /\ \A p \in Operators : p # o => /\ cpc'[p] = cpc[p] /\ cmd'[p] = cmd[p]
                                       /\ printed'[p] = printed[p] /\ exit'[p] = exit[p]
  BY <1>1, <1>2
<1>5. CommandInv(o)'
  BY <1>1, <1>4, IssuedStays DEF IInv, CliInv, CommandInv
<1>6. CliInv'
  BY <1>4, <1>5, CliChanged
<1> QED BY <1>3, <1>4, <1>6 DEF Minting

\* The room for secrets, as commands begin, generate theirs and end.
LEMMA MintKept ==
  ASSUME IInv, NEW o \in Operators,
         \/ minted' = minted /\ Minting' \subseteq Minting
         \/ minted' = minted + 1 /\ o \in Minting /\ Minting' \subseteq Minting \ {o}
         \/ minted' = minted /\ Minting' \subseteq Minting \cup {o}
              /\ minted + Cardinality(Minting) < MaxSecrets
  PROVE  MintInv'
<1>1. IsFiniteSet(Minting) /\ Cardinality(Minting) \in Nat /\ minted \in Nat /\ MaxSecrets \in Nat
  BY FS_Subset, FS_CardinalityType, RegistryAssumption DEF Minting, IInv, TypeOK
<1>2. \A S \in SUBSET Minting : IsFiniteSet(S) /\ Cardinality(S) \in Nat
                                /\ Cardinality(S) <= Cardinality(Minting)
  BY <1>1, FS_Subset, FS_CardinalityType
<1>3. CASE minted' = minted /\ Minting' \subseteq Minting
  BY <1>1, <1>2, <1>3 DEF IInv, MintInv
<1>4. CASE minted' = minted + 1 /\ o \in Minting /\ Minting' \subseteq Minting \ {o}
  <2>1. /\ IsFiniteSet(Minting \ {o}) /\ Cardinality(Minting \ {o}) = Cardinality(Minting) - 1
        /\ Cardinality(Minting \ {o}) \in Nat
    BY <1>1, <1>4, FS_RemoveElement, FS_CardinalityType
  <2>2. Cardinality(Minting') \in Nat /\ Cardinality(Minting') <= Cardinality(Minting \ {o})
    BY <1>4, <2>1, FS_Subset, FS_CardinalityType
  <2> QED BY <1>1, <1>4, <2>1, <2>2 DEF IInv, MintInv
<1>5. CASE minted' = minted /\ Minting' \subseteq Minting \cup {o}
              /\ minted + Cardinality(Minting) < MaxSecrets
  <2>1. /\ IsFiniteSet(Minting \cup {o}) /\ Cardinality(Minting \cup {o}) \in Nat
        /\ Cardinality(Minting \cup {o}) <= Cardinality(Minting) + 1
    <3>1. CASE o \in Minting
      <4>1. Minting \cup {o} = Minting
        BY <3>1
      <4> QED BY <1>1, <4>1
    <3>2. CASE o \notin Minting
      <4>1. /\ IsFiniteSet(Minting \cup {o})
            /\ Cardinality(Minting \cup {o}) = Cardinality(Minting) + 1
        BY <1>1, <3>2, FS_AddElement
      <4> QED BY <1>1, <4>1
    <3> QED BY <3>1, <3>2
  <2>2. Cardinality(Minting') \in Nat /\ Cardinality(Minting') <= Cardinality(Minting \cup {o})
    BY <1>5, <2>1, FS_Subset, FS_CardinalityType
  <2> QED BY <1>1, <1>5, <2>1, <2>2 DEF IInv, MintInv
<1> QED BY <1>3, <1>4, <1>5

-----------------------------------------------------------------------------
(* One step per operation *)

LEMMA OperatorKeeps ==
  ASSUME IInv, Evolves, NEW o \in Operators, OperatorStep(o)
  PROVE  CliInv' /\ CliTypeOK' /\ MintInv'
<1>1. (\A t : Issued(t) => Issued(t)') /\ (\A c : Revoked(c) => Revoked(c)') /\ Issued(None)'
  BY IssuedStays DEF Issued
<1>2. CommandInv(o) /\ cmd[o] \in Commands \cup {NoCmd}
  BY DEF IInv, CliInv, TypeOK
<1>3. ASSUME CommandFails(o) PROVE CliInv' /\ CliTypeOK' /\ MintInv'
  <2>1. Exit(o, cmd[o], 1, None) /\ minted' = minted
    BY <1>3 DEF CommandFails, registry
  <2>2. CliInv' /\ CliTypeOK' /\ Minting' \subseteq Minting \ {o}
    BY <1>1, <2>1, ExitEffect
  <2> QED BY <2>1, <2>2, MintKept
<1>4. ASSUME NEW c \in Commands, runClientsCommand(o, c) PROVE CliInv' /\ CliTypeOK' /\ MintInv'
  <2>1. minted' = minted
    BY <1>4 DEF runClientsCommand, registry
  <2>2. CASE Exit(o, c, 2, None) \/ Exit(o, c, 1, None)
    <3>1. CliInv' /\ CliTypeOK' /\ Minting' \subseteq Minting \ {o}
      BY <1>1, <2>2, ExitEffect
    <3> QED BY <2>1, <3>1, MintKept
  <2>3. CASE /\ MayMint(c) /\ cpc' = [cpc EXCEPT ![o] = "connected"]
             /\ cmd' = [cmd EXCEPT ![o] = c] /\ exit' = [exit EXCEPT ![o] = NoExit]
             /\ UNCHANGED printed
    <3>1. CliTypeOK'
      BY <2>3 DEF IInv, TypeOK, CliTypeOK
    <3>2. /\ cpc'[o] = "connected" /\ cmd'[o] = c /\ exit'[o] = NoExit /\ DOMAIN exit' = Operators
          /\ \A p \in Operators : p # o => /\ cpc'[p] = cpc[p] /\ cmd'[p] = cmd[p]
                                           /\ printed'[p] = printed[p] /\ exit'[p] = exit[p]
      BY <2>3 DEF IInv, CliInv, TypeOK
    <3>3. NoExit.token = None /\ NoExit.revoked = None
      BY DEF NoExit
    <3>4. CommandInv(o)'
      BY <1>1, <1>2, <2>3, <3>2, <3>3 DEF CommandInv
    <3>5. CliInv'
      BY <3>2, <3>4, CliChanged
    <3>6. Minting' \subseteq IF c.name \in {"register", "rotate"} THEN Minting \cup {o} ELSE Minting
      BY <3>2 DEF Minting
    <3>7. MintInv'
      BY <2>1, <2>3, <3>6, MintKept DEF MayMint
    <3> QED BY <3>1, <3>5, <3>7
  <2> QED BY <1>4, <2>2, <2>3 DEF runClientsCommand
<1>5. CASE MissingFlag(o)
  <2>1. Exit(o, cmd[o], 2, None) /\ minted' = minted
    BY <1>5 DEF MissingFlag, registry
  <2>2. CliInv' /\ CliTypeOK' /\ Minting' \subseteq Minting \ {o}
    BY <1>1, <2>1, ExitEffect
  <2> QED BY <2>1, <2>2, MintKept
<1>6. CASE Register(o)
  <2>1. ASSUME NEW c \in Ids, c \notin Registered, InsertClient(o, c)
        PROVE  CliInv' /\ CliTypeOK' /\ MintInv'
    <3>1. cpc[o] = "connected" /\ cmd[o].name = "register"
      BY <1>6 DEF Register, Runs
    <3>2. minted' = minted + 1 /\ minted' \in 1..MaxSecrets /\ o \in Minting /\ minted \in Nat
      BY <2>1, <3>1, MintRoom DEF InsertClient
    <3>3. [id |-> c, secret |-> minted'] \in Tokens /\ Executed(o, [id |-> c, secret |-> minted'])
      BY <2>1, <3>2 DEF Tokens, InsertClient
    <3>4. PICK t \in Tokens : t.id = c /\ t.secret = minted' /\ Executed(o, t)
      BY <3>3
    <3>5. c \in Registered' /\ clients'[c].secret = minted'
      BY <2>1 DEF InsertClient, Registered
    <3>6. Issued(t)'
      BY <3>2, <3>4, <3>5 DEF Issued
    <3>7. CliInv' /\ CliTypeOK' /\ Minting' \subseteq Minting \ {o}
      BY <3>1, <3>4, <3>6, ExecutedEffect
    <3> QED BY <3>2, <3>7, MintKept
  <2> QED BY <1>3, <1>6, <2>1 DEF Register
<1>7. CASE Rotate(o) /\ ~CommandFails(o)
  <2> DEFINE c == cmd[o].id
  <2>1. cpc[o] = "connected" /\ cmd[o].name = "rotate"
    BY <1>7 DEF Rotate, Runs
  <2>2. /\ Active(c) /\ minted' = minted + 1 /\ Executed(o, [id |-> c, secret |-> minted'])
        /\ clients' = [clients EXCEPT ![c].secret = minted']
    BY <1>7 DEF Rotate
  <2>3. minted' \in 1..MaxSecrets /\ o \in Minting /\ minted \in Nat
    BY <2>1, <2>2, MintRoom
  <2>4. c \in Registered /\ c \in Ids /\ clients[c] \in Row
    BY <2>2 DEF Active, IInv, TypeOK
  <2>5. PICK t \in Tokens : t.id = c /\ t.secret = minted' /\ Executed(o, t)
    <3>1. [id |-> c, secret |-> minted'] \in Tokens
      BY <2>3, <2>4 DEF Tokens
    <3> QED BY <2>2, <3>1
  <2>6. c \in Registered' /\ clients'[c].secret = minted'
    BY <2>2, <2>4 DEF Registered, Row
  <2> HIDE DEF c
  <2>7. Issued(t)'
    BY <2>3, <2>5, <2>6 DEF Issued
  <2>8. CliInv' /\ CliTypeOK' /\ Minting' \subseteq Minting \ {o}
    BY <2>1, <2>2, <2>5, <2>7, ExecutedEffect
  <2> QED BY <2>2, <2>3, <2>8, MintKept
<1>8. CASE Revoke(o) /\ ~CommandFails(o)
  <2>1. Executed(o, None) /\ minted' = minted
    BY <1>8 DEF Revoke
  <2>2. cpc'[o] = "executed"
    BY <2>1 DEF Executed, IInv, TypeOK
  <2>3. \E i : i = cmd[o].id /\ Revoked(i)'
    BY <1>8, <2>2, RevokeEvolves
  <2>4. CliInv' /\ CliTypeOK' /\ Minting' \subseteq Minting \ {o}
    BY <1>1, <2>1, <2>3, ExecutedEffect
  <2> QED BY <2>1, <2>4, MintKept
<1>9. CASE List(o)
  <2>1. Executed(o, None) /\ minted' = minted /\ cmd[o].name = "list"
    BY <1>9 DEF List, Runs, registry
  <2>2. CliInv' /\ CliTypeOK' /\ Minting' \subseteq Minting \ {o}
    BY <1>1, <2>1, ExecutedEffect
  <2> QED BY <2>1, <2>2, MintKept
<1>10. CASE PrintResult(o)
  <2>1. Exit(o, cmd[o], 0, printed[o]) /\ minted' = minted /\ cpc[o] = "executed"
    BY <1>10 DEF PrintResult, registry
  <2>2. Issued(printed[o])
    BY <1>2 DEF CommandInv
  <2>3. \E t : t = printed[o] /\ Issued(t)' /\ Exit(o, cmd[o], 0, t)
    BY <1>1, <2>1, <2>2
  <2>4. cmd[o].name = "revoke" => \E i : i = cmd[o].id /\ Revoked(i)'
    BY <1>1, <1>2, <2>1 DEF CommandInv
  <2>5. CliInv' /\ CliTypeOK' /\ Minting' \subseteq Minting \ {o}
    <3>1. PICK t : Issued(t)' /\ Exit(o, cmd[o], 0, t)
      BY <2>3
    <3> QED BY <2>4, <3>1, ExitEffect
  <2> QED BY <2>1, <2>5, MintKept
<1>11. CASE StatementFails(o) \/ ResultLost(o)
  BY <1>3, <1>11 DEF StatementFails, ResultLost
<1> QED
  BY <1>3, <1>4, <1>5, <1>6, <1>7, <1>8, <1>9, <1>10, <1>11 DEF OperatorStep

\* A step of one request leaves the others as they are.
LEMMA RequestChanged ==
  ASSUME IInv, UNCHANGED registry, NEW r \in Requests, LogInv',
         Len(log) \in Nat, Len(log') \in Nat, Len(log) <= Len(log'),
         \A i \in 1..Len(log) : log'[i] = log[i],
         DOMAIN req' = Requests, DOMAIN reply' = Requests,
         \A q \in Requests : q # r => /\ rpc'[q] = rpc[q] /\ req'[q] = req[q]
                                      /\ principal'[q] = principal[q] /\ reply'[q] = reply[q],
         rpc'[r] # "idle" => /\ Known(req'[r].token)
                             /\ req'[r].stale => ~Works(req'[r].token),
         rpc'[r] = "handle" => /\ ~req'[r].stale /\ req'[r].token # None
                               /\ principal'[r] \in [id : Ids, role : Roles]
                               /\ principal'[r].id = req'[r].token.id,
         reply'[r].status \in {200, 201} => ~reply'[r].stale,
         reply'[r].status = 401 => Known(reply'[r].token) /\ ~Works(reply'[r].token),
         reply'[r].status = 200 => reply'[r].upto \in 0..Len(log'),
         (reply'[r].status = 200 /\ reply'[r].reader.role = "client") =>
            \A i \in 1..reply'[r].upto : i \in reply'[r].items <=> log'[i].by = reply'[r].reader.id
  PROVE  ReqInv' /\ ReplyInv' /\ ReadsOwnEntries'
<1>1. \A t : (Known(t)' <=> Known(t)) /\ (Works(t)' <=> Works(t))
  BY DEF Known, Works, Active, Registered, registry
<1>2. ReqInv'
  BY <1>1 DEF IInv, ReqInv
<1>3. ReplyInv'
  BY <1>1 DEF IInv, ReplyInv
<1>4. ReadsOwnEntries'
  <2> SUFFICES ASSUME NEW q \in Requests,
                      reply'[q].status = 200 /\ reply'[q].reader.role = "client",
                      NEW i \in 1..reply'[q].upto
               PROVE  i \in reply'[q].items <=> log'[i].by = reply'[q].reader.id
    BY DEF ReadsOwnEntries
  <2>1. CASE q # r
    <3>1. reply'[q] = reply[q] /\ reply[q].upto \in 0..Len(log)
      BY <2>1 DEF IInv, ReplyInv
    <3>2. log'[i] = log[i]
      BY <3>1
    <3> QED BY <3>1, <3>2 DEF IInv, ReadsOwnEntries
  <2> QED BY <2>1
<1> QED BY <1>2, <1>3, <1>4

HttpTypeOK ==
    /\ rpc \in [Requests -> {"idle", "auth", "handle"}]
    /\ principal \in [Requests -> [id : Ids, role : Roles] \cup {None}]
    /\ log \in Seq([client : Ids \cup {None}, by : Ids \cup {None}])

LEMMA RequestKeeps ==
  ASSUME IInv, NEW r \in Requests, RequestStep(r)
  PROVE  HttpTypeOK' /\ ReqInv' /\ ReplyInv' /\ ReadsOwnEntries' /\ LogInv'
<1> USE DEF IInv
<1>1. /\ HttpTypeOK /\ UNCHANGED registry /\ Len(log) \in Nat
      /\ DOMAIN req = Requests /\ DOMAIN reply = Requests /\ DOMAIN rpc = Requests
      /\ DOMAIN principal = Requests
  BY DEF RequestStep, Arrive, requireAuth, handleWriteLog, handleReadLogs, HandlerFails, HttpTypeOK, TypeOK,
         ReqInv, ReplyInv
<1>2. ASSUME NEW a, Answer(r, a)
      PROVE  /\ reply'[r] = a /\ rpc'[r] = "idle"
             /\ DOMAIN req' = Requests /\ DOMAIN reply' = Requests
             /\ \A q \in Requests : q # r => /\ rpc'[q] = rpc[q] /\ req'[q] = req[q]
                                             /\ principal'[q] = principal[q] /\ reply'[q] = reply[q]
             /\ rpc' \in [Requests -> {"idle", "auth", "handle"}]
             /\ principal' \in [Requests -> [id : Ids, role : Roles] \cup {None}]
  BY <1>1, <1>2 DEF Answer, HttpTypeOK
<1>3. CASE Arrive(r)
  <2>1. PICK t \in {t \in Tokens : t.secret <= minted} \cup {None},
             op \in {"write", "read"}, param \in Ids \cup {None} :
          req' = [req EXCEPT ![r] = [op |-> op, token |-> t, param |-> param, stale |-> ~Works(t)]]
    BY <1>3 DEF Arrive
  <2>2. req'[r].token = t /\ (req'[r].stale <=> ~Works(t)) /\ DOMAIN req' = Requests
        /\ \A q \in Requests : q # r => req'[q] = req[q]
    BY <1>1, <2>1
  <2>3. Known(t)
    BY DEF Known, Tokens
  <2>4. /\ rpc' = [rpc EXCEPT ![r] = "auth"] /\ reply' = [reply EXCEPT ![r] = NoReply]
        /\ UNCHANGED <<principal, log>>
    BY <1>3 DEF Arrive
  <2>5. NoReply.status \notin {200, 201, 401}
    BY DEF NoReply
  <2>6. HttpTypeOK' /\ LogInv'
    BY <1>1, <2>4 DEF HttpTypeOK, LogInv
  <2>7. /\ rpc'[r] = "auth" /\ reply'[r] = NoReply /\ DOMAIN reply' = Requests
        /\ \A q \in Requests : q # r => /\ rpc'[q] = rpc[q] /\ req'[q] = req[q]
                                        /\ principal'[q] = principal[q] /\ reply'[q] = reply[q]
    BY <1>1, <2>2, <2>4
  <2> QED BY <1>1, <2>2, <2>3, <2>4, <2>5, <2>6, <2>7, RequestChanged
<1>4. CASE requireAuth(r)
  <2> DEFINE t == req[r].token
  <2>1. rpc[r] = "auth" /\ log' = log /\ Known(t) /\ (req[r].stale => ~Works(t)) /\ LogInv'
    BY <1>4 DEF requireAuth, ReqInv, LogInv
  <2>2. ASSUME NEW code \in {401, 503}, code = 401 => ~Works(t), Answer(r, Status(r, code))
        PROVE  HttpTypeOK' /\ ReqInv' /\ ReplyInv' /\ ReadsOwnEntries' /\ LogInv'
    <3>1. Status(r, code).status = code /\ Status(r, code).token = t
      BY DEF Status
    <3>2. /\ reply'[r] = Status(r, code) /\ rpc'[r] = "idle"
          /\ DOMAIN req' = Requests /\ DOMAIN reply' = Requests
          /\ \A q \in Requests : q # r => /\ rpc'[q] = rpc[q] /\ req'[q] = req[q]
                                          /\ principal'[q] = principal[q] /\ reply'[q] = reply[q]
          /\ rpc' \in [Requests -> {"idle", "auth", "handle"}]
          /\ principal' \in [Requests -> [id : Ids, role : Roles] \cup {None}]
      BY <1>2, <2>2
    <3>3. HttpTypeOK'
      BY <1>1, <2>1, <3>2 DEF HttpTypeOK
    <3>4. ReqInv' /\ ReplyInv' /\ ReadsOwnEntries'
      BY <1>1, <2>1, <2>2, <3>1, <3>2, RequestChanged
    <3> QED BY <2>1, <3>3, <3>4
  <2>3. ASSUME Works(t), rpc' = [rpc EXCEPT ![r] = "handle"], UNCHANGED <<req, reply>>,
               principal' = [principal EXCEPT ![r] = [id |-> t.id, role |-> clients[t.id].role]]
        PROVE  HttpTypeOK' /\ ReqInv' /\ ReplyInv' /\ ReadsOwnEntries' /\ LogInv'
    <3> DEFINE me == [id |-> t.id, role |-> clients[t.id].role]
    <3>1. t # None /\ t.id \in Registered
      BY <2>3 DEF Works, Active
    <3>2. me \in [id : Ids, role : Roles] /\ me.id = t.id
      BY <3>1 DEF TypeOK, Row
    <3> HIDE DEF me
    <3>3. principal' = [principal EXCEPT ![r] = me]
      BY <2>3 DEF me
    <3>4. HttpTypeOK'
      BY <1>1, <2>1, <2>3, <3>2, <3>3 DEF HttpTypeOK
    <3>5. /\ rpc'[r] = "handle" /\ principal'[r] = me
          /\ \A q \in Requests : q # r => rpc'[q] = rpc[q] /\ principal'[q] = principal[q]
      BY <1>1, <2>3, <3>3
    <3>6. ReqInv'
      <4>1. \A k : (Known(k)' <=> Known(k)) /\ (Works(k)' <=> Works(k))
        BY <1>1 DEF Known, Works, Active, Registered, registry
      <4> QED BY <2>1, <2>3, <3>1, <3>2, <3>5, <4>1 DEF ReqInv
    <3>7. ReplyInv' /\ ReadsOwnEntries'
      <4>1. \A k : (Known(k)' <=> Known(k)) /\ (Works(k)' <=> Works(k))
        BY <1>1 DEF Known, Works, Active, Registered, registry
      <4> QED BY <2>1, <2>3, <4>1 DEF ReplyInv, ReadsOwnEntries
    <3> QED BY <2>1, <3>4, <3>6, <3>7
  <2> QED BY <1>4, <2>2, <2>3 DEF requireAuth
<1>5. CASE handleWriteLog(r)
  <2> DEFINE e == [client |-> Stamp(r), by |-> req[r].token.id]
  <2>0. PICK code \in {201, 500} : Answer(r, Status(r, code))
    BY <1>5 DEF handleWriteLog
  <2>1. /\ rpc[r] = "handle" /\ ~req[r].stale /\ log' = Append(log, e) /\ Answer(r, Status(r, code))
        /\ principal[r] \in [id : Ids, role : Roles] /\ principal[r].id = req[r].token.id
    BY <1>5, <2>0 DEF handleWriteLog, ReqInv
  <2>2. e \in [client : Ids \cup {None}, by : Ids \cup {None}] /\ e.client = e.by
    BY <2>1 DEF Stamp
  <2>3. Status(r, code).status = code /\ Status(r, code).stale = req[r].stale
    BY DEF Status
  <2> HIDE DEF e
  <2>4. /\ log' \in Seq([client : Ids \cup {None}, by : Ids \cup {None}])
        /\ Len(log') = Len(log) + 1 /\ log'[Len(log) + 1] = e
        /\ \A i \in 1..Len(log) : log'[i] = log[i]
    BY <1>1, <2>1, <2>2 DEF HttpTypeOK
  <2>5. LogInv'
    <3>1. DOMAIN log' = 1..(Len(log) + 1) /\ DOMAIN log = 1..Len(log)
      BY <1>1, <2>4 DEF HttpTypeOK
    <3> QED BY <1>1, <2>2, <2>4, <3>1 DEF LogInv
  <2>6. /\ reply'[r] = Status(r, code) /\ rpc'[r] = "idle"
        /\ DOMAIN req' = Requests /\ DOMAIN reply' = Requests
        /\ \A q \in Requests : q # r => /\ rpc'[q] = rpc[q] /\ req'[q] = req[q]
                                        /\ principal'[q] = principal[q] /\ reply'[q] = reply[q]
        /\ rpc' \in [Requests -> {"idle", "auth", "handle"}]
        /\ principal' \in [Requests -> [id : Ids, role : Roles] \cup {None}]
    BY <1>2, <2>1
  <2>7. HttpTypeOK'
    BY <2>4, <2>6 DEF HttpTypeOK
  <2>8. ReqInv' /\ ReplyInv' /\ ReadsOwnEntries'
    BY <1>1, <2>0, <2>1, <2>3, <2>4, <2>5, <2>6, RequestChanged
  <2> QED BY <2>5, <2>7, <2>8
<1>6. CASE handleReadLogs(r)
  <2> DEFINE scope == scopeQuery(r)
             items == {i \in 1..Len(log) : scope # None => log[i].client = scope}
             a == [status |-> 200, stale |-> req[r].stale, reader |-> principal[r],
                   upto |-> Len(log), items |-> items]
  <2>1. /\ rpc[r] = "handle" /\ ~req[r].stale /\ log' = log /\ Answer(r, a) /\ LogInv'
        /\ principal[r] \in [id : Ids, role : Roles]
    BY <1>6 DEF handleReadLogs, ReqInv, LogInv
  <2>2. /\ a.status = 200 /\ a.stale = req[r].stale /\ a.reader = principal[r] /\ a.upto = Len(log)
        /\ a.items = items
    OBVIOUS
  <2>3. principal[r].role = "client" =>
           \A i \in 1..Len(log) : i \in items <=> log[i].by = principal[r].id
    <3>1. principal[r].role = "client" => scope = principal[r].id /\ scope # None
      BY <2>1, RegistryAssumption DEF scopeQuery
    <3>2. \A i \in 1..Len(log) : log[i].client = log[i].by
      BY <1>1 DEF LogInv, HttpTypeOK
    <3> QED BY <3>1, <3>2
  <2> HIDE DEF a, items
  <2>4. /\ reply'[r] = a /\ rpc'[r] = "idle"
        /\ DOMAIN req' = Requests /\ DOMAIN reply' = Requests
        /\ \A q \in Requests : q # r => /\ rpc'[q] = rpc[q] /\ req'[q] = req[q]
                                        /\ principal'[q] = principal[q] /\ reply'[q] = reply[q]
        /\ rpc' \in [Requests -> {"idle", "auth", "handle"}]
        /\ principal' \in [Requests -> [id : Ids, role : Roles] \cup {None}]
    BY <1>2, <2>1
  <2>5. HttpTypeOK'
    BY <1>1, <2>1, <2>4 DEF HttpTypeOK
  <2>6. ReqInv' /\ ReplyInv' /\ ReadsOwnEntries'
    BY <1>1, <2>1, <2>2, <2>3, <2>4, RequestChanged
  <2> QED BY <2>1, <2>5, <2>6
<1>7. CASE HandlerFails(r)
  <2>1. PICK code \in {400, 500} : Answer(r, Status(r, code))
    BY <1>7 DEF HandlerFails
  <2>2. rpc[r] = "handle" /\ log' = log /\ LogInv' /\ Status(r, code).status = code
    BY <1>7 DEF HandlerFails, LogInv, Status
  <2>3. /\ reply'[r] = Status(r, code) /\ rpc'[r] = "idle"
        /\ DOMAIN req' = Requests /\ DOMAIN reply' = Requests
        /\ \A q \in Requests : q # r => /\ rpc'[q] = rpc[q] /\ req'[q] = req[q]
                                        /\ principal'[q] = principal[q] /\ reply'[q] = reply[q]
        /\ rpc' \in [Requests -> {"idle", "auth", "handle"}]
        /\ principal' \in [Requests -> [id : Ids, role : Roles] \cup {None}]
    BY <1>2, <2>1
  <2>4. HttpTypeOK'
    BY <1>1, <2>2, <2>3 DEF HttpTypeOK
  <2>5. reply'[r].status \notin {200, 201, 401}
    BY <2>1, <2>2, <2>3
  <2>6. ReqInv' /\ ReplyInv' /\ ReadsOwnEntries'
    BY <1>1, <2>2, <2>3, <2>5, RequestChanged
  <2> QED BY <2>2, <2>4, <2>6
<1> QED BY <1>3, <1>4, <1>5, <1>6, <1>7 DEF RequestStep

LEMMA NextIInv == IInv /\ [Next]_vars => IInv'
<1> SUFFICES ASSUME IInv, [Next]_vars PROVE IInv'
  OBVIOUS
<1>1. Evolves
  BY StepEvolves
<1>2. SecretInv'
  BY <1>1 DEF Evolves, SecretInv
<1>3. ASSUME CliTypeOK', HttpTypeOK', outages' \in 0..MaxOutages, dbUp' \in BOOLEAN
      PROVE  TypeOK'
  <2>1. minted' \in 0..MaxSecrets
    BY <1>1, RegistryAssumption DEF IInv, TypeOK, Evolves
  <2> QED BY <1>1, <1>3, <2>1 DEF TypeOK, CliTypeOK, HttpTypeOK, Evolves
<1>4. ASSUME UNCHANGED http PROVE HttpTypeOK' /\ ReqInv' /\ ReplyInv' /\ ReadsOwnEntries' /\ LogInv'
  <2>1. HttpTypeOK'
    BY <1>4 DEF IInv, TypeOK, HttpTypeOK, http
  <2> QED BY <1>1, <1>4, <2>1, HttpKept
<1>5. ASSUME UNCHANGED <<cli, registry>> PROVE CliTypeOK' /\ CliInv' /\ MintInv'
  <2>1. CliTypeOK' /\ MintInv'
    BY <1>5 DEF IInv, TypeOK, CliTypeOK, MintInv, Minting, cli, registry
  <2> QED BY <1>1, <1>5, <2>1, CliKept
<1>6. CASE Outage \/ Recover \/ UNCHANGED vars
  <2>1. UNCHANGED <<cli, registry>> /\ UNCHANGED http
    BY <1>6 DEF Outage, Recover, vars, cli, registry, http
  <2>2. outages' \in 0..MaxOutages
    BY <1>6, RegistryAssumption DEF IInv, TypeOK, Outage, Recover, Fault, vars
  <2>3. dbUp' \in BOOLEAN
    BY <1>6, Zenon DEF IInv, TypeOK, Outage, Recover, vars
  <2> QED BY <1>2, <1>3, <1>4, <1>5, <2>1, <2>2, <2>3 DEF IInv
<1>7. ASSUME NEW o \in Operators, OperatorStep(o) PROVE IInv'
  <2>1. UNCHANGED http
    BY <1>7 DEF OperatorStep, runClientsCommand, MissingFlag, Register, Rotate, Revoke, List,
                StatementFails, ResultLost, PrintResult
  <2>2. dbUp' = dbUp /\ (outages' = outages \/ Fault)
    BY <1>7 DEF OperatorStep, runClientsCommand, MissingFlag, Register, Rotate, Revoke, List,
                StatementFails, ResultLost, PrintResult, database
  <2>3. outages' \in 0..MaxOutages /\ dbUp' \in BOOLEAN
    BY <2>2, RegistryAssumption DEF IInv, TypeOK, Fault
  <2> QED BY <1>1, <1>2, <1>3, <1>4, <1>7, <2>1, <2>3, OperatorKeeps DEF IInv
<1>8. ASSUME NEW r \in Requests, RequestStep(r) PROVE IInv'
  <2>1. UNCHANGED <<cli, registry>> /\ UNCHANGED database
    BY <1>8 DEF RequestStep, Arrive, requireAuth, handleWriteLog, handleReadLogs, HandlerFails
  <2>2. outages' \in 0..MaxOutages /\ dbUp' \in BOOLEAN
    BY <2>1 DEF IInv, TypeOK, database
  <2> QED BY <1>2, <1>3, <1>5, <1>8, <2>1, <2>2, RequestKeeps DEF IInv
<1> QED BY <1>6, <1>7, <1>8 DEF Next

LEMMA IInvHolds == Spec => []IInv
BY InitIInv, NextIInv, PTL DEF Spec

-----------------------------------------------------------------------------
(* What follows from it *)

\* Every variable stays in its type, and never more secrets are generated than
\* the bound allows.
THEOREM TypeCorrect == Spec => []TypeOK
<1>1. IInv => TypeOK
  BY DEF IInv
<1> QED BY <1>1, IInvHolds, PTL

\* A request that came with a token rotated away or revoked before is refused,
\* and 401 answers only a token that does not work, whatever runs meanwhile.
THEOREM TokensCutOver == Spec => []CutOver
<1>1. IInv => CutOver
  BY DEF IInv, ReplyInv, CutOver
<1> QED BY <1>1, IInvHolds, PTL

\* A client reads exactly the entries sent with a token of its own.
THEOREM OwnEntriesRead == Spec => []ReadsOwnEntries
<1>1. IInv => ReadsOwnEntries
  BY DEF IInv
<1> QED BY <1>1, IInvHolds, PTL

\* A command that exited 0 did what it printed, and only later commands undo it.
THEOREM ExitZeroHonest == Spec => []ExitZeroTookEffect
<1>1. IInv => ExitZeroTookEffect
  <2> SUFFICES ASSUME IInv, NEW o \in Operators PROVE
        /\ exit[o].revoked # None => exit[o].revoked \in Registered /\ ~Active(exit[o].revoked)
        /\ exit[o].token # None => /\ exit[o].token.id \in Registered
                                   /\ clients[exit[o].token.id].secret >= exit[o].token.secret
    BY DEF ExitZeroTookEffect
  <2>1. CommandInv(o)
    BY DEF IInv, CliInv
  <2>2. \A c \in Registered : clients[c].secret \in Nat
    BY DEF IInv, TypeOK, Row
  <2> QED BY <2>1, <2>2 DEF CommandInv, Issued, Revoked, Active
<1> QED BY <1>1, IInvHolds, PTL

\* No step of anyone brings a revoked client back, rekeys it, or drops a row.
THEOREM RevocationFinal == Spec => RevokedForGood
<1>1. IInv /\ [Next]_vars =>
        [\A c \in Registered : /\ c \in Registered'
                               /\ clients[c].revoked => clients'[c] = clients[c]]_vars
  BY StepEvolves DEF Evolves
<1> QED BY <1>1, IInvHolds, PTL DEF Spec, RevokedForGood
=============================================================================
