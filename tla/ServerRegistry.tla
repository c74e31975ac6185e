---------------------------- MODULE ServerRegistry ----------------------------
(***************************************************************************)
(* The registry of monitored servers: the `servers` table and its copy in  *)
(* the DashMap AppState.servers.  Every handler touches the two in         *)
(* separate steps with an .await between them, so the handlers of several  *)
(* requests, a failing statement, a client that goes away and a restart    *)
(* interleave between them.                                                *)
(*                                                                         *)
(*   agents     check_auth / auto_register_server (nezha-rpc/src/auth.rs)  *)
(*   admins     create, update, batch_delete (handlers/server.rs)          *)
(*   start-up   load_servers (nezha-service/src/state.rs)                  *)
(*                                                                         *)
(* A row carries the agent's uuid, a name (standing for every field that   *)
(* `create` writes to both copies) and a hidden flag (standing for         *)
(* hide_for_guest, note, display_index and enable_ddns, which `create`     *)
(* writes to the table only).                                              *)
(***************************************************************************)
EXTENDS Integers, FiniteSets

CONSTANTS
  Uuids,        \* every uuid an agent can present
  AgentUuids,   \* those that agents generated themselves
  Names,        \* values of the editable fields
  AgentName,    \* the name auto-registration gives ("Agent-xxxxxxxx")
  Forms,        \* bound: the update forms admins submit
  Workers,      \* bound: requests handled at the same time
  MaxId,        \* bound: rows ever inserted
  MaxDeletes,   \* bound: ids submitted for deletion
  MaxFaults,    \* bound: mishaps, a failed statement or a dropped handler
  Mishaps,      \* which of them happen: "insert", "update", "delete", "drop"
  MaxCrashes,   \* bound: restarts of the dashboard
  NoRow,        \* no row / no memory entry
  Keep          \* Option::None in an update form

Ids  == 1..MaxId
Row  == [uuid : Uuids, name : Names, hidden : BOOLEAN]
Form == [name : Names \cup {Keep}, hidden : BOOLEAN \cup {Keep}]

ASSUME RegistryAssumption ==
  /\ MaxId \in Nat /\ MaxDeletes \in Nat /\ MaxFaults \in Nat /\ MaxCrashes \in Nat
  /\ AgentUuids \subseteq Uuids
  /\ AgentName \in Names
  /\ Forms \subseteq Form
  /\ NoRow \notin Row \cup Uuids
  /\ Keep \notin Names \cup BOOLEAN

VARIABLES
  db,        \* the servers table: Ids -> Row, or NoRow
  nextId,    \* the AUTOINCREMENT counter of the table
  servers,   \* AppState.servers: Ids -> Row, or NoRow
  minted,    \* uuids some agent holds
  req,       \* the request each worker is in the middle of
  sessions,  \* for each uuid, the ids its open gRPC streams were given
  up,        \* the process is running
  deletes, faults, crashes,   \* how much of each bound is used
  split,     \* history: ids whose two copies were written differently
  stranded   \* history: ids whose row was left without an entry in memory:
             \* its DELETE failed, or its handler was dropped half way

vars == <<db, nextId, servers, minted, req, sessions, up,
          deletes, faults, crashes, split, stranded>>

Idle == [op |-> "idle"]
Request ==
  {Idle}
    \cup [op : {"insertRow"}, row : Row, agent : BOOLEAN]
    \cup [op : {"insertMem"}, row : Row, agent : BOOLEAN, id : Ids]
    \cup [op : {"updateRow", "updateMem"}, id : Ids, form : Forms]
    \cup [op : {"delete"}, ids : SUBSET Ids, left : SUBSET Ids]

TypeOK ==
  /\ db \in [Ids -> Row \cup {NoRow}]
  /\ nextId \in 1..(MaxId + 1)
  /\ servers \in [Ids -> Row \cup {NoRow}]
  /\ minted \in SUBSET Uuids
  /\ req \in [Workers -> Request]
  /\ sessions \in [Uuids -> SUBSET Ids]
  /\ up \in BOOLEAN
  /\ deletes \in Nat /\ faults \in Nat /\ crashes \in Nat
  /\ split \in SUBSET Ids /\ stranded \in SUBSET Ids

Init ==
  /\ db = [i \in Ids |-> NoRow]
  /\ nextId = 1
  /\ servers = [i \in Ids |-> NoRow]
  /\ minted = AgentUuids
  /\ req = [w \in Workers |-> Idle]
  /\ sessions = [u \in Uuids |-> {}]
  /\ up = TRUE
  /\ deletes = 0 /\ faults = 0 /\ crashes = 0
  /\ split = {} /\ stranded = {}

-----------------------------------------------------------------------------
Holds(table, i, u)   == table[i] # NoRow /\ table[i].uuid = u
Registered(u)        == \E i \in Ids : Holds(servers, i, u)
UuidTaken(u)         == \E i \in Ids : Holds(db, i, u)

\* The ids a client can name: every allocated id but the one whose handler is
\* between its two inserts.
Shown == {i \in 1..(nextId - 1) :
            \A w \in Workers : req[w].op = "insertMem" => req[w].id # i}

\* Deviation: a field the form leaves out is written all the same.
ApplyEveryField(row, f) == [row EXCEPT !.name = f.name, !.hidden = f.hidden]

\* What the SET clause and the memory update do with a form.
Apply(row, f) ==
  [row EXCEPT !.name   = IF f.name = Keep THEN @ ELSE f.name,
              !.hidden = IF f.hidden = Keep THEN @ ELSE f.hidden]

\* The entry put in memory next to a new row: Server::default() with the id,
\* the name and the uuid.
FreshEntry(row) == [row EXCEPT !.hidden = FALSE]

\* One more of the bounded mishaps: a statement fails (busy, locked, I/O) or
\* the client of a request is gone.
Mishap(op) ==
  /\ op \in Mishaps
  /\ faults < MaxFaults
  /\ faults' = faults + 1

Finish(w) == req' = [req EXCEPT ![w] = Idle]

-----------------------------------------------------------------------------
(* check_auth with a client_uuid.  A legacy agent sends the number of its  *)
(* server instead (client_id) and is given that id if the server is there: *)
(* it is the agent of that server's uuid, in the first of these actions.   *)

AuthKnown(w, u) ==
  /\ up /\ req[w] = Idle /\ u \in minted
  /\ \E i \in Ids :
       /\ Holds(servers, i, u)
       /\ sessions' = [sessions EXCEPT ![u] = @ \cup {i}]
  /\ UNCHANGED <<db, nextId, servers, minted, req, up, deletes, faults,
                 crashes, split, stranded>>

AuthUnknown(w, u) ==
  /\ up /\ req[w] = Idle /\ u \in minted
  /\ ~Registered(u)
  /\ req' = [req EXCEPT ![w] =
               [op |-> "insertRow", agent |-> TRUE,
                row |-> [uuid |-> u, name |-> AgentName, hidden |-> FALSE]]]
  /\ UNCHANGED <<db, nextId, servers, minted, sessions, up, deletes, faults,
                 crashes, split, stranded>>

\* The stream that carried an id ends.
Disconnect(u) ==
  /\ \E i \in sessions[u] : sessions' = [sessions EXCEPT ![u] = @ \ {i}]
  /\ UNCHANGED <<db, nextId, servers, minted, req, up, deletes, faults,
                 crashes, split, stranded>>

(* create: a fresh v4 uuid, then the same two inserts.                     *)
Create(w, u, name, hidden) ==
  /\ up /\ req[w] = Idle
  /\ u \notin minted
  /\ minted' = minted \cup {u}
  /\ req' = [req EXCEPT ![w] =
               [op |-> "insertRow", agent |-> FALSE,
                row |-> [uuid |-> u, name |-> name, hidden |-> hidden]]]
  /\ UNCHANGED <<db, nextId, servers, sessions, up, deletes, faults,
                 crashes, split, stranded>>

\* Deviation: no UNIQUE constraint on uuid.
InsertRowUnchecked(w) ==
  /\ req[w].op = "insertRow"
  /\ nextId <= MaxId
  /\ db' = [db EXCEPT ![nextId] = req[w].row]
  /\ nextId' = nextId + 1
  /\ req' = [req EXCEPT ![w] =
               [op |-> "insertMem", agent |-> req[w].agent,
                row |-> req[w].row, id |-> nextId]]
  /\ UNCHANGED <<servers, minted, sessions, up, deletes, faults, crashes,
                 split, stranded>>

\* INSERT INTO servers: uuid is UNIQUE and id AUTOINCREMENT.
InsertRow(w) ==
  /\ req[w].op = "insertRow"
  /\ ~UuidTaken(req[w].row.uuid)
  /\ nextId <= MaxId
  /\ db' = [db EXCEPT ![nextId] = req[w].row]
  /\ nextId' = nextId + 1
  /\ req' = [req EXCEPT ![w] =
               [op |-> "insertMem", agent |-> req[w].agent,
                row |-> req[w].row, id |-> nextId]]
  /\ UNCHANGED <<servers, minted, sessions, up, deletes, faults, crashes,
                 split, stranded>>

\* The INSERT is refused by the UNIQUE constraint or fails: the handler
\* returns an error and touches nothing.
InsertRefused(w) ==
  /\ req[w].op = "insertRow"
  /\ \/ UuidTaken(req[w].row.uuid) /\ UNCHANGED faults
     \/ Mishap("insert")
  /\ Finish(w)
  /\ UNCHANGED <<db, nextId, servers, minted, sessions, up, deletes, crashes,
                 split, stranded>>

\* Deviation: the handler returns the id and leaves memory to the next restart.
InsertMemSkipped(w) ==
  /\ req[w].op = "insertMem"
  /\ Finish(w)
  /\ UNCHANGED <<db, nextId, servers, minted, sessions, up, deletes, faults,
                 crashes, split, stranded>>

\* servers.insert(id, server); an agent's handler then uses the id.
InsertMem(w) ==
  /\ req[w].op = "insertMem"
  /\ LET r == req[w] IN
       /\ servers' = [servers EXCEPT ![r.id] = FreshEntry(r.row)]
       /\ sessions' = IF r.agent
                        THEN [sessions EXCEPT ![r.row.uuid] = @ \cup {r.id}]
                        ELSE sessions
       /\ split' = IF r.row.hidden THEN split \cup {r.id} ELSE split
  /\ Finish(w)
  /\ UNCHANGED <<db, nextId, minted, up, deletes, faults, crashes, stranded>>

-----------------------------------------------------------------------------
(* update: contains_key, UPDATE whose error is dropped, get_mut.           *)

UpdateCheck(w, i, f) ==
  /\ up /\ req[w] = Idle
  /\ servers[i] # NoRow
  /\ req' = [req EXCEPT ![w] = [op |-> "updateRow", id |-> i, form |-> f]]
  /\ UNCHANGED <<db, nextId, servers, minted, sessions, up, deletes, faults,
                 crashes, split, stranded>>

\* Another update of the row has written the table and not yet the memory.
Overtakes(w) ==
  \E v \in Workers \ {w} : req[v].op = "updateMem" /\ req[v].id = req[w].id

UpdateRow(w) ==
  /\ req[w].op = "updateRow"
  /\ LET r == req[w] IN
       \/ /\ db' = [db EXCEPT ![r.id] = IF @ = NoRow THEN NoRow
                                                     ELSE Apply(@, r.form)]
          /\ split' = IF Overtakes(w) THEN split \cup {r.id} ELSE split
          /\ UNCHANGED faults
       \/ /\ Mishap("update")
          /\ split' = split \cup {r.id}
          /\ UNCHANGED db
  /\ req' = [req EXCEPT ![w].op = "updateMem"]
  /\ UNCHANGED <<nextId, servers, minted, sessions, up, deletes, crashes, stranded>>

\* Deviation: the memory update forgets one field of the form.
UpdateMemNameOnly(w) ==
  /\ req[w].op = "updateMem"
  /\ LET r == req[w] IN
       servers' = [servers EXCEPT ![r.id] =
                     IF @ = NoRow THEN NoRow
                                  ELSE Apply(@, [r.form EXCEPT !.hidden = Keep])]
  /\ Finish(w)
  /\ UNCHANGED <<db, nextId, minted, sessions, up, deletes, faults, crashes,
                 split, stranded>>

UpdateMem(w) ==
  /\ req[w].op = "updateMem"
  /\ LET r == req[w] IN
       servers' = [servers EXCEPT ![r.id] = IF @ = NoRow THEN NoRow
                                                         ELSE Apply(@, r.form)]
  /\ Finish(w)
  /\ UNCHANGED <<db, nextId, minted, sessions, up, deletes, faults, crashes,
                 split, stranded>>

-----------------------------------------------------------------------------
(* batch_delete: remove each id from memory, then one DELETE whose error   *)
(* is dropped.                                                             *)

DeleteStart(w, ids) ==
  /\ up /\ req[w] = Idle
  /\ ids # {}
  /\ deletes + Cardinality(ids) <= MaxDeletes
  /\ deletes' = deletes + Cardinality(ids)
  /\ req' = [req EXCEPT ![w] = [op |-> "delete", ids |-> ids, left |-> ids]]
  /\ UNCHANGED <<db, nextId, servers, minted, sessions, up, faults, crashes,
                 split, stranded>>

DeleteMem(w, i) ==
  /\ req[w].op = "delete"
  /\ i \in req[w].left
  /\ servers' = [servers EXCEPT ![i] = NoRow]
  /\ req' = [req EXCEPT ![w].left = @ \ {i}]
  /\ UNCHANGED <<db, nextId, minted, sessions, up, deletes, faults, crashes,
                 split, stranded>>

\* Deviation: the DELETE runs before the entries are removed from memory.
DeleteRowsFirst(w) ==
  /\ req[w].op = "delete"
  /\ db' = [i \in Ids |-> IF i \in req[w].ids THEN NoRow ELSE db[i]]
  /\ Finish(w)
  /\ UNCHANGED <<nextId, servers, minted, sessions, up, deletes, faults, crashes,
                 split, stranded>>

DeleteRows(w) ==
  /\ req[w].op = "delete"
  /\ req[w].left = {}
  /\ \/ /\ db' = [i \in Ids |-> IF i \in req[w].ids THEN NoRow ELSE db[i]]
        /\ UNCHANGED <<faults, stranded>>
     \/ /\ Mishap("delete")
        /\ stranded' = stranded \cup {i \in req[w].ids : db[i] # NoRow}
        /\ UNCHANGED db
  /\ Finish(w)
  /\ UNCHANGED <<nextId, servers, minted, sessions, up, deletes, crashes, split>>

-----------------------------------------------------------------------------
(* The client goes away, by closing its connection or resetting its        *)
(* stream, and hyper or tonic drops the handler's future at its .await.    *)
(* The connection's worker runs a statement it has been handed all the     *)
(* same: that is the statement's own step, taken before this one.          *)

Drop(w) ==
  /\ req[w].op # "idle"
  /\ req[w].op = "delete" => req[w].left = {}    \* no .await between two ids
  /\ Mishap("drop")
  /\ LET r == req[w] IN
       /\ stranded' = CASE r.op = "insertMem" -> stranded \cup {r.id}
                        [] r.op = "delete" ->
                             stranded \cup {i \in r.ids : db[i] # NoRow}
                        [] OTHER -> stranded
       /\ split' = IF r.op = "updateMem" THEN split \cup {r.id} ELSE split
  /\ Finish(w)
  /\ UNCHANGED <<db, nextId, servers, minted, sessions, up, deletes, crashes>>

-----------------------------------------------------------------------------
(* The process dies, taking memory, handlers and streams with it;          *)
(* load_servers copies every row before the first request is accepted.     *)

Crash ==
  /\ up
  /\ crashes < MaxCrashes
  /\ crashes' = crashes + 1
  /\ up' = FALSE
  /\ servers' = [i \in Ids |-> NoRow]
  /\ req' = [w \in Workers |-> Idle]
  /\ sessions' = [u \in Uuids |-> {}]
  /\ split' = {} /\ stranded' = {}
  /\ UNCHANGED <<db, nextId, minted, deletes, faults>>

LoadServers ==
  /\ ~up
  /\ up' = TRUE
  /\ servers' = db
  /\ UNCHANGED <<db, nextId, minted, req, sessions, deletes, faults, crashes,
                 split, stranded>>

-----------------------------------------------------------------------------
HandlerStep(w) ==
  \/ InsertRow(w) \/ InsertRefused(w) \/ InsertMem(w)
  \/ UpdateRow(w) \/ UpdateMem(w)
  \/ (\E i \in Ids : DeleteMem(w, i)) \/ DeleteRows(w)

AgentRequest(w) == \E u \in Uuids : AuthKnown(w, u) \/ AuthUnknown(w, u)

AdminRequest(w) ==
  \/ \E u \in Uuids, n \in Names, h \in BOOLEAN : Create(w, u, n, h)
  \/ \E i \in Ids, f \in Forms : UpdateCheck(w, i, f)
  \/ \E ids \in SUBSET Shown : DeleteStart(w, ids)

Next ==
  \/ \E w \in Workers : HandlerStep(w) \/ Drop(w) \/ AgentRequest(w) \/ AdminRequest(w)
  \/ \E u \in Uuids : Disconnect(u)
  \/ Crash \/ LoadServers

Spec == Init /\ [][Next]_vars

\* A handler is polled until it returns or is dropped, a supervisor restarts the
\* process, and an agent that has no id keeps trying (strongly fair: Workers
\* only bounds how many requests run at once, it does not queue them).
Fairness ==
  /\ \A w \in Workers : WF_vars(HandlerStep(w))
  /\ \A u \in AgentUuids : SF_vars(\E w \in Workers : AuthUnknown(w, u))
  /\ WF_vars(LoadServers)

FairSpec == Spec /\ Fairness

-----------------------------------------------------------------------------
(* Every server in memory has a row with the same uuid: what an admin or   *)
(* an agent was shown does not vanish at the next restart.  The two-step   *)
(* order (row first on insert, memory first on delete) is what keeps it.   *)
BackedByRow ==
  \A i \in Ids : servers[i] # NoRow =>
    db[i] # NoRow /\ db[i].uuid = servers[i].uuid

(* The id a stream was given at check_auth is used for its whole life,     *)
(* across deletions and new registrations: it never comes to denote the    *)
(* server of another agent.                                                *)
StreamKeepsIdentity ==
  \A u \in Uuids : \A i \in sessions[u] :
    /\ i < nextId
    /\ servers[i] # NoRow => servers[i].uuid = u
    /\ db[i] # NoRow => db[i].uuid = u

(* A row that is not in memory belongs to a handler between its two steps, *)
(* to one that was dropped there, or to a batch_delete whose DELETE failed *)
(* or never ran; nothing else loses a server.                              *)
NoLostRow ==
  \A i \in Ids : up /\ db[i] # NoRow /\ servers[i] = NoRow =>
    \/ i \in stranded
    \/ \E w \in Workers : req[w].op = "insertMem" /\ req[w].id = i
    \/ \E w \in Workers : req[w].op = "delete" /\ i \in req[w].ids

(* The dashboard shows what the table stores, except in the window of an   *)
(* update and for the four ways the code lets the copies part: an UPDATE   *)
(* that failed, two updates that overtook each other, an update dropped    *)
(* between the two copies, a create with fields it does not put in memory. *)
CopiesAgree ==
  \A i \in Ids :
    \/ servers[i] = NoRow
    \/ i \in split
    \/ \E w \in Workers : req[w].op = "updateMem" /\ req[w].id = i
    \/ servers[i] = db[i]

\* Whose row it is.
Owner == [i \in Ids |-> IF db[i] = NoRow THEN NoRow ELSE db[i].uuid]

(* Seen from the table alone, with its handlers, failed statements and     *)
(* restarts, the registry is a directory that assigns, tells and retires   *)
(* ids at once: although check_auth answers from memory, what it tells an  *)
(* agent is what the table says at that moment.                            *)
Table == INSTANCE Directory WITH
  Nobody <- NoRow,
  owner  <- Owner,
  given  <- 1..(nextId - 1),
  told   <- sessions

IsDirectory == Table!Spec

\* A failed DELETE, or a handler dropped between table and memory, has left the
\* uuid in a row that memory does not have.  Until the next restart the UNIQUE
\* constraint refuses the agent's registration.
Blocked(u) == \E i \in stranded : Holds(db, i, u)

(* An agent whose uuid is not in memory is auto-registered (auth.rs:7 and  *)
(* auth.rs:26): once deletions, mishaps and restarts are over, it has an   *)
(* id, or a row left behind keeps it out until the next restart.           *)
AgentsGetRegistered ==
  \A u \in AgentUuids : <>[](Registered(u) \/ Blocked(u))
=============================================================================
