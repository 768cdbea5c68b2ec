----------------------------- MODULE ClientRegistry -----------------------------
(***************************************************************************)
(* Who may write and read: the table audit_clients, the operator's `audit  *)
(* clients` commands that change it, and the HTTP requests of the server   *)
(* that authenticate against it and then use the log.                      *)
(*                                                                         *)
(* Operators and requests run concurrently.  A request reads its client's  *)
(* row once and acts on that principal later.  A command is one statement  *)
(* on the table, whose result may be lost with the connection.             *)
(*                                                                         *)
(* The log is the one AuditLog promises: an append is atomic here.         *)
(***************************************************************************)
EXTENDS Naturals, Sequences, FiniteSets

CONSTANTS Ids,           \* client ids newClientID may return
          Operators,     \* processes running `audit clients ...`
          Requests,      \* request goroutines
          None,          \* no id, no token
          MaxSecrets,    \* bound: secrets ever generated
          MaxEntries,    \* bound: entries in the log
          MaxOutages     \* bound: database outages and lost results

Roles  == {"client", "admin"}
Tokens == [id : Ids, secret : 1..MaxSecrets]

ASSUME RegistryAssumption ==
    /\ None \notin Ids
    /\ IsFiniteSet(Operators)
    /\ {MaxSecrets, MaxEntries, MaxOutages} \subseteq Nat

VARIABLES
    clients,    \* audit_clients: client_id -> row
    minted,     \* secrets generated so far; the next one is minted + 1
    dbUp, outages,
    cpc, cmd,   \* per operator: where it is, and the command it runs
    printed,    \* per operator: the token its statement issued
    exit,       \* per operator: how its last command ended
    rpc, req,   \* per request: where it is, and what it sent
    principal,  \* per request: the client its token was resolved to
    reply,      \* per request: its last response
    log         \* the audit log: the client of each entry, and who sent it
vars == <<clients, minted, dbUp, outages, cpc, cmd, printed, exit,
          rpc, req, principal, reply, log>>

registry == <<clients, minted>>
database == <<dbUp, outages>>
cli      == <<cpc, cmd, printed, exit>>
http     == <<rpc, req, principal, reply, log>>

NoCmd   == [name |-> "none"]
NoReq   == [op |-> "none"]
NoExit  == [code |-> 0, revoked |-> None, token |-> None]
NoReply == [status |-> 0]

\* Entries written before authorization existed carry no client id.
Legacy == [client |-> None, by |-> None]

Init == /\ clients = <<>> /\ minted = 0
        /\ dbUp = TRUE /\ outages = 0
        /\ cpc = [o \in Operators |-> "idle"] /\ cmd = [o \in Operators |-> NoCmd]
        /\ printed = [o \in Operators |-> None] /\ exit = [o \in Operators |-> NoExit]
        /\ rpc = [r \in Requests |-> "idle"] /\ req = [r \in Requests |-> NoReq]
        /\ principal = [r \in Requests |-> None] /\ reply = [r \in Requests |-> NoReply]
        /\ log = <<Legacy>>

-----------------------------------------------------------------------------
(* The database *)

Registered == DOMAIN clients
Active(c)  == c \in Registered /\ ~clients[c].revoked
Works(t)   == t # None /\ Active(t.id) /\ clients[t.id].secret = t.secret

Fault == outages < MaxOutages /\ outages' = outages + 1

Outage  == /\ dbUp /\ Fault /\ dbUp' = FALSE
           /\ UNCHANGED <<registry, cli, http>>
Recover == /\ ~dbUp /\ dbUp' = TRUE
           /\ UNCHANGED <<registry, outages, cli, http>>

-----------------------------------------------------------------------------
(* audit clients *)

Commands ==
    [name : {"mistyped", "list"}, flags : {TRUE}]
      \cup [name : {"register", "rotate", "revoke"}, flags : {FALSE}]
      \cup [name : {"register"}, flags : {TRUE}, role : Roles \cup {"invalid"}]
      \cup [name : {"rotate", "revoke"}, flags : {TRUE}, id : Ids]

\* Commands that will generate a secret, kept below the bound.
Minting == {o \in Operators : cpc[o] = "connected" /\ cmd[o].name \in {"register", "rotate"}}
MayMint(c) == c.name \in {"register", "rotate"} => minted + Cardinality(Minting) < MaxSecrets

\* The command c of operator o ends: its exit code, and what it told the
\* operator it did.
Exit(o, c, code, token) ==
    /\ exit' = [exit EXCEPT ![o] =
         [code    |-> code,
          revoked |-> IF code = 0 /\ c.name = "revoke" THEN c.id ELSE None,
          token   |-> token]]
    /\ cpc' = [cpc EXCEPT ![o] = "idle"]
    /\ cmd' = [cmd EXCEPT ![o] = NoCmd]
    /\ printed' = [printed EXCEPT ![o] = None]

\* An unknown command is a usage error; for any other the database is opened
\* first, whatever its flags.
runClientsCommand(o, c) ==
    /\ cpc[o] = "idle"
    /\ \/ c.name = "mistyped" /\ Exit(o, c, 2, None)
       \/ c.name # "mistyped" /\ ~dbUp /\ Exit(o, c, 1, None)
       \/ /\ c.name # "mistyped" /\ dbUp /\ MayMint(c)
          /\ cpc' = [cpc EXCEPT ![o] = "connected"]
          /\ cmd' = [cmd EXCEPT ![o] = c]
          /\ exit' = [exit EXCEPT ![o] = NoExit]
          /\ UNCHANGED printed
    /\ UNCHANGED <<registry, database, http>>

Runs(o, name) == cpc[o] = "connected" /\ cmd[o].name = name /\ cmd[o].flags

\* The handler of the command parses its flags.
MissingFlag(o) ==
    /\ cpc[o] = "connected" /\ ~cmd[o].flags
    /\ Exit(o, cmd[o], 2, None)
    /\ UNCHANGED <<registry, database, http>>

CommandFails(o) == Exit(o, cmd[o], 1, None) /\ UNCHANGED registry

\* The statement took effect; its result is on its way back.
Executed(o, token) ==
    /\ cpc' = [cpc EXCEPT ![o] = "executed"]
    /\ printed' = [printed EXCEPT ![o] = token]
    /\ UNCHANGED <<cmd, exit>>

\* The row of a new client, and the statement that stores it.
InsertClient(o, c) ==
    /\ minted' = minted + 1
    /\ clients' = [i \in Registered \cup {c} |->
         IF i = c THEN [secret |-> minted', role |-> cmd[o].role, revoked |-> FALSE]
                  ELSE clients[i]]
    /\ Executed(o, [id |-> c, secret |-> minted'])

\* INSERT: the primary key rejects an id that is taken.
Register(o) ==
    /\ Runs(o, "register") /\ dbUp
    /\ IF cmd[o].role \notin Roles
       THEN CommandFails(o)
       ELSE \E c \in Ids :
              IF c \in Registered THEN CommandFails(o) ELSE InsertClient(o, c)
    /\ UNCHANGED <<database, http>>

\* The UPDATE without its "revoked_at IS NULL".
RotateAnyRow(o) ==
    /\ Runs(o, "rotate") /\ dbUp
    /\ IF cmd[o].id \notin Registered
       THEN CommandFails(o)
       ELSE /\ minted' = minted + 1
            /\ clients' = [clients EXCEPT ![cmd[o].id].secret = minted']
            /\ Executed(o, [id |-> cmd[o].id, secret |-> minted'])
    /\ UNCHANGED <<database, http>>

Rotate(o) ==
    /\ Runs(o, "rotate") /\ dbUp
    /\ IF ~Active(cmd[o].id)
       THEN CommandFails(o)
       ELSE /\ minted' = minted + 1
            /\ clients' = [clients EXCEPT ![cmd[o].id].secret = minted']
            /\ Executed(o, [id |-> cmd[o].id, secret |-> minted'])
    /\ UNCHANGED <<database, http>>

\* The row is deleted instead of marked.
RevokeDeletes(o) ==
    /\ Runs(o, "revoke") /\ dbUp
    /\ IF ~Active(cmd[o].id)
       THEN CommandFails(o)
       ELSE /\ clients' = [i \in Registered \ {cmd[o].id} |-> clients[i]]
            /\ Executed(o, None)
            /\ UNCHANGED minted
    /\ UNCHANGED <<database, http>>

Revoke(o) ==
    /\ Runs(o, "revoke") /\ dbUp
    /\ IF ~Active(cmd[o].id)
       THEN CommandFails(o)
       ELSE /\ clients' = [clients EXCEPT ![cmd[o].id].revoked = TRUE]
            /\ Executed(o, None)
            /\ UNCHANGED minted
    /\ UNCHANGED <<database, http>>

List(o) ==
    /\ Runs(o, "list") /\ dbUp
    /\ Executed(o, None)
    /\ UNCHANGED <<registry, database, http>>

\* The database is gone before the statement, or its result is lost after.
StatementFails(o) ==
    /\ cpc[o] = "connected" /\ cmd[o].flags /\ ~dbUp
    /\ CommandFails(o)
    /\ UNCHANGED <<database, http>>

ResultLost(o) ==
    /\ cpc[o] = "executed" /\ Fault
    /\ CommandFails(o)
    /\ UNCHANGED <<dbUp, http>>

PrintResult(o) ==
    /\ cpc[o] = "executed"
    /\ Exit(o, cmd[o], 0, printed[o])
    /\ UNCHANGED <<registry, database, http>>

-----------------------------------------------------------------------------
(* Requests.  param is the clientId of the body or of the query string.      *)

Answer(r, a) ==
    /\ reply' = [reply EXCEPT ![r] = a]
    /\ rpc' = [rpc EXCEPT ![r] = "idle"]
    /\ req' = [req EXCEPT ![r] = NoReq]
    /\ principal' = [principal EXCEPT ![r] = None]

Status(r, code) == [status |-> code, token |-> req[r].token, stale |-> req[r].stale]

Writing == {r \in Requests : rpc[r] # "idle" /\ req[r].op = "write"}

Arrive(r) ==
    /\ rpc[r] = "idle"
    /\ \E t \in {t \in Tokens : t.secret <= minted} \cup {None},
          op \in {"write", "read"}, param \in Ids \cup {None} :
         /\ op = "write" => Len(log) + Cardinality(Writing) < MaxEntries
         /\ req' = [req EXCEPT ![r] = [op |-> op, token |-> t, param |-> param, stale |-> ~Works(t)]]
    /\ rpc' = [rpc EXCEPT ![r] = "auth"]
    /\ reply' = [reply EXCEPT ![r] = NoReply]
    /\ UNCHANGED <<registry, database, cli, principal, log>>

Unavailable(t) == t # None /\ ~dbUp

\* A revoked client is looked up like any other.
requireAuthRevoked(r) ==
    /\ rpc[r] = "auth"
    /\ LET t == req[r].token
       IN  IF t # None /\ t.id \in Registered /\ clients[t.id].secret = t.secret
           THEN /\ principal' = [principal EXCEPT ![r] = [id |-> t.id, role |-> clients[t.id].role]]
                /\ rpc' = [rpc EXCEPT ![r] = "handle"]
                /\ UNCHANGED <<req, reply>>
           ELSE Answer(r, Status(r, 401))
    /\ UNCHANGED <<registry, database, cli, log>>

requireAuth(r) ==
    /\ rpc[r] = "auth"
    /\ LET t == req[r].token
       IN  \/ Unavailable(t) /\ Answer(r, Status(r, 503))
           \/ ~Unavailable(t) /\ ~Works(t) /\ Answer(r, Status(r, 401))
           \/ /\ ~Unavailable(t) /\ Works(t)
              /\ principal' = [principal EXCEPT ![r] = [id |-> t.id, role |-> clients[t.id].role]]
              /\ rpc' = [rpc EXCEPT ![r] = "handle"]
              /\ UNCHANGED <<req, reply>>
    /\ UNCHANGED <<registry, database, cli, log>>

\* The clientId the caller sent is stored.
StampSent(r) == IF req[r].param # None THEN req[r].param ELSE principal[r].id

Stamp(r) == principal[r].id

\* The body or the query is refused (400; a body too large is answered 413), or the
\* store fails (500), and nothing is stored.
HandlerFails(r) ==
    /\ rpc[r] = "handle"
    /\ \E code \in {400, 500} : Answer(r, Status(r, code))
    /\ UNCHANGED <<registry, database, cli, log>>

\* The entry is stored; the store may still report a failure (a COMMIT whose answer
\* is lost).
handleWriteLog(r) ==
    /\ rpc[r] = "handle" /\ req[r].op = "write"
    /\ log' = Append(log, [client |-> Stamp(r), by |-> req[r].token.id])
    /\ \E code \in {201, 500} : Answer(r, Status(r, code))
    /\ UNCHANGED <<registry, database, cli>>

scopeQuery(r) == IF principal[r].role = "admin" THEN req[r].param ELSE principal[r].id

handleReadLogs(r) ==
    /\ rpc[r] = "handle" /\ req[r].op = "read"
    /\ LET scope == scopeQuery(r)
       IN  Answer(r, [status |-> 200, stale |-> req[r].stale,
                      reader |-> principal[r], upto |-> Len(log),
                      items |-> {i \in 1..Len(log) : scope # None => log[i].client = scope}])
    /\ UNCHANGED <<registry, database, cli, log>>

-----------------------------------------------------------------------------
OperatorStep(o) ==
    \/ \E c \in Commands : runClientsCommand(o, c)
    \/ MissingFlag(o) \/ Register(o) \/ Rotate(o) \/ Revoke(o) \/ List(o)
    \/ StatementFails(o) \/ ResultLost(o) \/ PrintResult(o)

RequestStep(r) ==
    Arrive(r) \/ requireAuth(r) \/ handleWriteLog(r) \/ handleReadLogs(r) \/ HandlerFails(r)

Next == \/ Outage \/ Recover
        \/ \E o \in Operators : OperatorStep(o)
        \/ \E r \in Requests : RequestStep(r)

Spec == Init /\ [][Next]_vars

-----------------------------------------------------------------------------
(* Properties *)

Row == [secret : 1..MaxSecrets, role : Roles, revoked : BOOLEAN]

TypeOK ==
    /\ Registered \subseteq Ids /\ \A c \in Registered : clients[c] \in Row
    /\ minted \in 0..MaxSecrets /\ outages \in 0..MaxOutages /\ dbUp \in BOOLEAN
    /\ cpc \in [Operators -> {"idle", "connected", "executed"}]
    /\ cmd \in [Operators -> Commands \cup {NoCmd}]
    /\ printed \in [Operators -> Tokens \cup {None}]
    /\ rpc \in [Requests -> {"idle", "auth", "handle"}]
    /\ principal \in [Requests -> [id : Ids, role : Roles] \cup {None}]
    /\ log \in Seq([client : Ids \cup {None}, by : Ids \cup {None}])

\* Rotation and revocation are a hard cutover: a request that arrives with a
\* token that was rotated away or revoked before is answered 401 (or 503),
\* whatever commands and outages run meanwhile; and 401 is only ever the
\* answer to a token that does not work (any more).
CutOver == \A r \in Requests :
    /\ reply[r].status \in {200, 201} => ~reply[r].stale
    /\ reply[r].status = 401 => ~Works(reply[r].token)

\* A client reads exactly the entries that were sent with a token of its own,
\* also entries it wrote under an earlier token; the legacy entries never.
ReadsOwnEntries == \A r \in Requests :
    (reply[r].status = 200 /\ reply[r].reader.role = "client") =>
      \A i \in 1..reply[r].upto : i \in reply[r].items <=> log[i].by = reply[r].reader.id

\* A command that exited 0 did what it says: a revoked client stays revoked,
\* and a printed token was the client's, displaced only by a later rotation.
ExitZeroTookEffect == \A o \in Operators : exit[o].code = 0 =>
    /\ exit[o].revoked # None => exit[o].revoked \in Registered /\ ~Active(exit[o].revoked)
    /\ exit[o].token # None => /\ exit[o].token.id \in Registered
                               /\ clients[exit[o].token.id].secret >= exit[o].token.secret

\* A revoked client is never brought back or rekeyed, and no row disappears.
RevokedForGood ==
    [][\A c \in Registered : /\ c \in Registered'
                             /\ clients[c].revoked => clients'[c] = clients[c]]_vars
=============================================================================
