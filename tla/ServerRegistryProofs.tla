-------------------------- MODULE ServerRegistryProofs --------------------------
(***************************************************************************)
(* The registry keeps memory backed by the table for any number of agents, *)
(* admins, faults and restarts.  TypeCorrect comes first, then the         *)
(* inductive invariant, then what it implies.                              *)
(***************************************************************************)
EXTENDS ServerRegistry, FiniteSetTheorems, TLAPS

(* Rows appear at nextId only, and a uuid is in at most one row.           *)
FreshIds == \A i \in Ids : i >= nextId => db[i] = NoRow

UniqueRows ==
  \A i, j \in Ids :
    db[i] # NoRow /\ db[j] # NoRow /\ db[i].uuid = db[j].uuid => i = j

(* A handler between its two inserts owns a row nobody else can name.      *)
InsertersOwnTheirRow ==
  \A w \in Workers : req[w].op = "insertMem" =>
    /\ req[w].id < nextId
    /\ db[req[w].id] # NoRow
    /\ db[req[w].id].uuid = req[w].row.uuid
    /\ \A v \in Workers : req[v].op = "delete" => req[w].id \notin req[v].ids

(* A deletion has already removed from memory what it no longer lists.     *)
DeletersClearMemory ==
  \A w \in Workers : req[w].op = "delete" =>
    /\ \A i \in req[w].ids : i < nextId
    /\ \A i \in req[w].ids \ req[w].left : servers[i] = NoRow

(* Nothing of a dead process is left.                                      *)
DownMeansEmpty ==
  ~up => /\ \A w \in Workers : req[w] = Idle
         /\ \A i \in Ids : servers[i] = NoRow

IInv ==
  /\ TypeOK
  /\ FreshIds
  /\ UniqueRows
  /\ BackedByRow
  /\ InsertersOwnTheirRow
  /\ DeletersClearMemory
  /\ DownMeansEmpty

-----------------------------------------------------------------------------
(* A form changes what a row says, never whose row it is.                  *)
LEMMA ApplyKeepsUuid ==
  ASSUME NEW row \in Row, NEW f \in Form
  PROVE  Apply(row, f) \in Row /\ Apply(row, f).uuid = row.uuid
  BY RegistryAssumption DEF Apply, Row, Form

(* The entry put in memory for a row has its uuid.                         *)
LEMMA FreshEntryKeepsUuid ==
  ASSUME NEW row \in Row
  PROVE  FreshEntry(row) \in Row /\ FreshEntry(row).uuid = row.uuid
  BY DEF FreshEntry, Row

(* What each stage of a handler carries.                                   *)
LEMMA RequestShape ==
  ASSUME TypeOK, NEW w \in Workers
  PROVE  /\ req[w].op = "insertRow" => req[w].row \in Row /\ req[w].agent \in BOOLEAN
         /\ req[w].op = "insertMem" =>
              req[w].row \in Row /\ req[w].agent \in BOOLEAN /\ req[w].id \in Ids
         /\ req[w].op \in {"updateRow", "updateMem"} =>
              req[w].id \in Ids /\ req[w].form \in Forms
         /\ req[w].op = "delete" =>
              req[w].ids \in SUBSET Ids /\ req[w].left \in SUBSET Ids
  BY DEF TypeOK, Request, Idle

-----------------------------------------------------------------------------
(* Every variable keeps its type: in particular nextId stays within the    *)
(* ids of the bound and every request in flight carries what its next step *)
(* reads.                                                                  *)
THEOREM TypeCorrect == Spec => []TypeOK
<1>1. Init => TypeOK
  BY RegistryAssumption DEF Init, TypeOK, Ids, Request, Idle
<1>2. TypeOK /\ [Next]_vars => TypeOK'
  <2> SUFFICES ASSUME TypeOK, [Next]_vars
               PROVE  TypeOK'
    OBVIOUS
  <2> USE RegistryAssumption
  <2>1. ASSUME NEW w \in Workers, InsertRow(w)
        PROVE  TypeOK'
    <3>1. req[w].row \in Row /\ req[w].agent \in BOOLEAN /\ nextId \in Ids
      BY <2>1, RequestShape DEF InsertRow, TypeOK, Ids
    <3>2. [op |-> "insertMem", agent |-> req[w].agent, row |-> req[w].row,
           id |-> nextId] \in Request
      BY <3>1 DEF Request
    <3>3. QED
      BY <2>1, <3>1, <3>2 DEF InsertRow, TypeOK, Ids
  <2>2. ASSUME NEW w \in Workers, InsertRefused(w)
        PROVE  TypeOK'
    BY <2>2 DEF InsertRefused, Mishap, Finish, TypeOK, Request, Idle
  <2>3. ASSUME NEW w \in Workers, InsertMem(w)
        PROVE  TypeOK'
    <3>1. req[w].row \in Row /\ req[w].id \in Ids
      BY <2>3, RequestShape DEF InsertMem
    <3>2. FreshEntry(req[w].row) \in Row /\ req[w].row.uuid \in Uuids
      BY <3>1, FreshEntryKeepsUuid DEF Row
    <3>3. servers' \in [Ids -> Row \cup {NoRow}]
      BY <2>3, <3>2 DEF InsertMem, TypeOK
    <3>4. sessions' \in [Uuids -> SUBSET Ids] /\ split' \in SUBSET Ids
      BY <2>3, <3>1 DEF InsertMem, TypeOK
    <3>5. QED
      BY <2>3, <3>3, <3>4 DEF InsertMem, Finish, TypeOK, Request, Idle
  <2>4. ASSUME NEW w \in Workers, UpdateRow(w)
        PROVE  TypeOK'
    <3>1. req[w].id \in Ids /\ req[w].form \in Forms
      BY <2>4, RequestShape DEF UpdateRow
    <3>2. \A row \in Row : Apply(row, req[w].form) \in Row
      BY <3>1, ApplyKeepsUuid
    <3>3. db' \in [Ids -> Row \cup {NoRow}]
      BY <2>4, <3>1, <3>2 DEF UpdateRow, TypeOK
    <3>4. req' \in [Workers -> Request]
      <4>1. req[w] \in [op : {"updateRow", "updateMem"}, id : Ids, form : Forms]
        BY <2>4 DEF UpdateRow, TypeOK, Request, Idle
      <4>2. [req[w] EXCEPT !.op = "updateMem"] \in Request
        BY <4>1 DEF Request
      <4>3. QED
        BY <2>4, <4>2 DEF UpdateRow, TypeOK
    <3>5. split' \in SUBSET Ids /\ faults' \in Nat
      BY <2>4, <3>1 DEF UpdateRow, Mishap, TypeOK
    <3>6. QED
      BY <2>4, <3>3, <3>4, <3>5 DEF UpdateRow, TypeOK
  <2>5. ASSUME NEW w \in Workers, UpdateMem(w)
        PROVE  TypeOK'
    <3>1. req[w].id \in Ids /\ req[w].form \in Forms
      BY <2>5, RequestShape DEF UpdateMem
    <3>2. \A row \in Row : Apply(row, req[w].form) \in Row
      BY <3>1, ApplyKeepsUuid
    <3>3. servers' \in [Ids -> Row \cup {NoRow}]
      BY <2>5, <3>1, <3>2 DEF UpdateMem, TypeOK
    <3>4. QED
      BY <2>5, <3>3 DEF UpdateMem, Finish, TypeOK, Request, Idle
  <2>6. ASSUME NEW w \in Workers, NEW i \in Ids, DeleteMem(w, i)
        PROVE  TypeOK'
    <3>1. req[w] \in [op : {"delete"}, ids : SUBSET Ids, left : SUBSET Ids]
      BY <2>6 DEF DeleteMem, TypeOK, Request, Idle
    <3>2. [req[w] EXCEPT !.left = @ \ {i}] \in Request
      BY <3>1 DEF Request
    <3>3. QED
      BY <2>6, <3>2 DEF DeleteMem, TypeOK
  <2>7. ASSUME NEW w \in Workers, DeleteRows(w)
        PROVE  TypeOK'
    <3>1. req[w].ids \in SUBSET Ids
      BY <2>7, RequestShape DEF DeleteRows
    <3>2. QED
      BY <2>7, <3>1 DEF DeleteRows, Mishap, Finish, TypeOK, Request, Idle
  <2>8. ASSUME NEW w \in Workers, NEW u \in Uuids, AuthKnown(w, u)
        PROVE  TypeOK'
    BY <2>8 DEF AuthKnown, TypeOK
  <2>9. ASSUME NEW w \in Workers, NEW u \in Uuids, AuthUnknown(w, u)
        PROVE  TypeOK'
    BY <2>9 DEF AuthUnknown, TypeOK, Request, Row
  <2>10. ASSUME NEW w \in Workers, NEW u \in Uuids, NEW n \in Names,
                NEW h \in BOOLEAN, Create(w, u, n, h)
         PROVE  TypeOK'
    BY <2>10 DEF Create, TypeOK, Request, Row
  <2>11. ASSUME NEW w \in Workers, NEW i \in Ids, NEW f \in Forms,
                UpdateCheck(w, i, f)
         PROVE  TypeOK'
    BY <2>11 DEF UpdateCheck, TypeOK, Request
  <2>12. ASSUME NEW w \in Workers, NEW ids \in SUBSET Shown, DeleteStart(w, ids)
         PROVE  TypeOK'
    <3>1. ids \in SUBSET Ids
      BY DEF Shown, Ids, TypeOK
    <3>2. IsFiniteSet(ids) /\ Cardinality(ids) \in Nat
      <4>1. IsFiniteSet(Ids)
        BY FS_Interval DEF Ids
      <4>2. IsFiniteSet(ids)
        BY <3>1, <4>1, FS_Subset, Zenon
      <4>3. QED
        BY <4>2, FS_CardinalityType, Zenon
    <3>3. QED
      BY <2>12, <3>1, <3>2 DEF DeleteStart, TypeOK, Request
  <2>13. ASSUME NEW u \in Uuids, Disconnect(u)
         PROVE  TypeOK'
    BY <2>13 DEF Disconnect, TypeOK
  <2>14. CASE Crash
    <3>1. req' \in [Workers -> Request]
      BY <2>14 DEF Crash, Request
    <3>2. /\ servers' \in [Ids -> Row \cup {NoRow}]
          /\ sessions' \in [Uuids -> SUBSET Ids]
          /\ split' \in SUBSET Ids /\ stranded' \in SUBSET Ids
      BY <2>14 DEF Crash
    <3>3. /\ db' \in [Ids -> Row \cup {NoRow}]
          /\ nextId' \in 1..(MaxId + 1)
          /\ minted' \in SUBSET Uuids
          /\ deletes' \in Nat /\ faults' \in Nat
      BY <2>14, Zenon DEF Crash, TypeOK
    <3>4. crashes' \in Nat
      <4>1. crashes' = crashes + 1
        BY <2>14, Zenon DEF Crash
      <4>2. QED
        BY <4>1 DEF TypeOK
    <3>5. up' \in BOOLEAN
      BY <2>14, Zenon DEF Crash
    <3>6. QED
      BY <3>1, <3>2, <3>3, <3>4, <3>5, Zenon DEF TypeOK
  <2>15. CASE LoadServers
    BY <2>15 DEF LoadServers, TypeOK
  <2>16. CASE UNCHANGED vars
    BY <2>16 DEF vars, TypeOK
  <2>17. ASSUME NEW w \in Workers, Drop(w)
         PROVE  TypeOK'
    <3>1. /\ req[w].op = "insertMem" => req[w].id \in Ids
          /\ req[w].op = "updateMem" => req[w].id \in Ids
          /\ req[w].op = "delete" => req[w].ids \in SUBSET Ids
      BY RequestShape
    <3>2. stranded' \in SUBSET Ids /\ split' \in SUBSET Ids
      BY <2>17, <3>1 DEF Drop, TypeOK
    <3>3. req' \in [Workers -> Request] /\ faults' \in Nat
      BY <2>17 DEF Drop, Mishap, Finish, TypeOK, Request, Idle
    <3>4. UNCHANGED <<db, nextId, servers, minted, sessions, up, deletes, crashes>>
      BY <2>17, Zenon DEF Drop
    <3>5. QED
      BY <3>2, <3>3, <3>4 DEF TypeOK
  <2>18. QED
    BY <2>1, <2>2, <2>3, <2>4, <2>5, <2>6, <2>7, <2>8, <2>9, <2>10, <2>11,
       <2>12, <2>13, <2>14, <2>15, <2>16, <2>17
       DEF Next, HandlerStep, AgentRequest, AdminRequest
<1>3. QED
  BY <1>1, <1>2, PTL DEF Spec

-----------------------------------------------------------------------------
(* The parts of IInv that relate memory, rows and handlers.                *)
Core ==
  /\ FreshIds /\ UniqueRows /\ BackedByRow
  /\ InsertersOwnTheirRow /\ DeletersClearMemory /\ DownMeansEmpty

(* A step that leaves table and memory alone, and puts no handler into an  *)
(* insert or a deletion, disturbs none of them.                            *)
LEMMA QuietStep ==
  ASSUME IInv, up,
         UNCHANGED <<db, servers, nextId, up>>,
         \A v \in Workers : \/ req'[v] = req[v]
                            \/ req'[v].op \notin {"insertMem", "delete"}
  PROVE  Core'
<1>1. FreshIds' /\ UniqueRows' /\ BackedByRow' /\ DownMeansEmpty'
  BY DEF IInv, FreshIds, UniqueRows, BackedByRow, DownMeansEmpty
<1>2. InsertersOwnTheirRow'
  BY DEF IInv, InsertersOwnTheirRow
<1>3. DeletersClearMemory'
  BY DEF IInv, DeletersClearMemory
<1>4. QED
  BY <1>1, <1>2, <1>3 DEF Core

(* The step of the induction for the parts of IInv that speak of memory,   *)
(* rows and handlers; one step per action.                                 *)
LEMMA RegistryStep ==
  ASSUME IInv, TypeOK', [Next]_vars
  PROVE  IInv'
<1> USE RegistryAssumption DEF Holds
<1> SUFFICES Core'
  BY DEF IInv, Core
<1> USE DEF IInv
<1>0. nextId \in Int /\ nextId >= 1 /\ \A i \in Ids : i \in Int
  BY DEF TypeOK, Ids
<1>1. ASSUME NEW w \in Workers, InsertRow(w)
      PROVE  Core'
  <2>1. /\ nextId \in Ids
        /\ req[w].row \in Row
        /\ \A i \in Ids : ~Holds(db, i, req[w].row.uuid)
        /\ db' = [db EXCEPT ![nextId] = req[w].row]
        /\ nextId' = nextId + 1
        /\ UNCHANGED <<servers, up>>
    BY <1>1, <1>0, RequestShape DEF InsertRow, UuidTaken, Ids
  <2>2. /\ req'[w].op = "insertMem"
        /\ req'[w].row = req[w].row
        /\ req'[w].id = nextId
        /\ \A v \in Workers \ {w} : req'[v] = req[v]
    BY <1>1 DEF InsertRow, TypeOK
  <2>3. db[nextId] = NoRow /\ servers[nextId] = NoRow
    <3>1. db[nextId] = NoRow
      BY <2>1, <1>0 DEF FreshIds, Ids
    <3>2. servers[nextId] # NoRow => db[nextId] # NoRow
      BY <2>1 DEF BackedByRow
    <3>3. QED
      BY <3>1, <3>2, Zenon
  <2>4. /\ db'[nextId] = req[w].row
        /\ \A i \in Ids \ {nextId} : db'[i] = db[i]
        /\ req[w].row # NoRow
    BY <2>1 DEF TypeOK
  <2>5. FreshIds'
    BY <2>1, <2>4, <1>0 DEF FreshIds
  <2>6. UniqueRows'
    BY <2>1, <2>4 DEF UniqueRows
  <2>7. BackedByRow'
    BY <2>1, <2>3, <2>4 DEF BackedByRow
  <2>8. InsertersOwnTheirRow'
    <3> SUFFICES ASSUME NEW v \in Workers, req'[v].op = "insertMem"
                 PROVE  /\ req'[v].id < nextId'
                        /\ db'[req'[v].id] # NoRow
                        /\ db'[req'[v].id].uuid = req'[v].row.uuid
                        /\ \A x \in Workers : req'[x].op = "delete"
                                                => req'[v].id \notin req'[x].ids
      BY DEF InsertersOwnTheirRow
    <3>1. \A x \in Workers : req[x].op = "delete" => nextId \notin req[x].ids
      BY <1>0 DEF DeletersClearMemory
    <3>2. CASE v = w
      BY <3>2, <3>1, <2>1, <2>2, <2>4, <1>0
    <3>3. CASE v # w
      <4>1. req[v].op = "insertMem" /\ req[v].id \in Ids /\ req[v].id < nextId
        BY <3>3, <2>2, RequestShape DEF InsertersOwnTheirRow
      <4>2. /\ req'[v] = req[v]
            /\ db'[req[v].id] = db[req[v].id]
            /\ req[v].id < nextId'
        <5>1. req[v].id < nextId + 1 /\ req[v].id # nextId
          BY <4>1, <1>0 DEF Ids
        <5>2. QED
          BY <5>1, <4>1, <3>3, <2>1, <2>2, <2>4
      <4>3. \A x \in Workers : req'[x].op = "delete"
                              => req[x].op = "delete" /\ req'[x].ids = req[x].ids
        BY <2>2
      <4>4. QED
        BY <4>1, <4>2, <4>3 DEF InsertersOwnTheirRow
    <3>4. QED
      BY <3>2, <3>3
  <2>9. DeletersClearMemory'
    <3> SUFFICES ASSUME NEW v \in Workers, req'[v].op = "delete"
                 PROVE  /\ \A i \in req'[v].ids : i < nextId'
                        /\ \A i \in req'[v].ids \ req'[v].left : servers'[i] = NoRow
      BY DEF DeletersClearMemory
    <3>1. v # w /\ req[v].op = "delete" /\ req'[v] = req[v]
      BY <2>2
    <3>2. req[v].ids \subseteq Ids
      BY <3>1, RequestShape
    <3>3. /\ \A i \in req[v].ids : i < nextId
          /\ \A i \in req[v].ids \ req[v].left : servers[i] = NoRow
      BY <3>1 DEF DeletersClearMemory
    <3>4. \A i \in req[v].ids : i < nextId'
      <4>1. \A i \in Ids : i < nextId => i < nextId + 1
        BY <1>0 DEF Ids
      <4>2. QED
        BY <4>1, <3>2, <3>3, <2>1
    <3>5. QED
      BY <3>1, <3>3, <3>4, <2>1
  <2>10. DownMeansEmpty'
    BY <1>1, <2>1 DEF DownMeansEmpty, InsertRow, Idle
  <2>11. QED
    BY <2>5, <2>6, <2>7, <2>8, <2>9, <2>10 DEF Core
<1>2. ASSUME NEW w \in Workers, InsertRefused(w)
      PROVE  Core'
  <2>1. up
    BY <1>2 DEF InsertRefused, DownMeansEmpty, Idle
  <2>2. QED
    BY <1>2, <2>1, QuietStep DEF InsertRefused, Finish, Idle, TypeOK
<1>3. ASSUME NEW w \in Workers, InsertMem(w)
      PROVE  Core'
  <2> DEFINE id == req[w].id
  <2>1. /\ id \in Ids
        /\ req[w].op = "insertMem"
        /\ req[w].row \in Row
        /\ servers' = [servers EXCEPT ![id] = FreshEntry(req[w].row)]
        /\ \A v \in Workers : \/ req'[v] = req[v]
                               \/ req'[v].op \notin {"insertMem", "delete"}
        /\ UNCHANGED <<db, nextId, up>>
    BY <1>3, RequestShape DEF InsertMem, Finish, Idle, TypeOK
  <2>2. servers'[id].uuid = req[w].row.uuid /\ \A i \in Ids \ {id} : servers'[i] = servers[i]
    BY <2>1, FreshEntryKeepsUuid DEF TypeOK
  <2>3. FreshIds' /\ UniqueRows' /\ DownMeansEmpty'
    BY <1>3, <2>1 DEF FreshIds, UniqueRows, DownMeansEmpty, InsertMem, Idle
  <2>4. BackedByRow'
    BY <2>1, <2>2 DEF BackedByRow, InsertersOwnTheirRow
  <2>5. InsertersOwnTheirRow'
    BY <2>1 DEF InsertersOwnTheirRow
  <2>6. DeletersClearMemory'
    <3>1. \A v \in Workers : req[v].op = "delete" => id \notin req[v].ids
      BY <2>1 DEF InsertersOwnTheirRow
    <3>2. \A v \in Workers : req[v].op = "delete" => req[v].ids \subseteq Ids
      BY RequestShape
    <3>3. QED
      BY <2>1, <2>2, <3>1, <3>2 DEF DeletersClearMemory
  <2>7. QED
    BY <2>3, <2>4, <2>5, <2>6 DEF Core
<1>4. ASSUME NEW w \in Workers, UpdateRow(w)
      PROVE  Core'
  <2>1. /\ req[w].id \in Ids
        /\ req[w].form \in Form
        /\ req[w].op = "updateRow"
    BY <1>4, RequestShape DEF UpdateRow
  <2>2. /\ UNCHANGED <<servers, nextId, up>>
        /\ \A v \in Workers : \/ req'[v] = req[v]
                               \/ req'[v].op \notin {"insertMem", "delete"}
    <3>1. req[w] \in [op : {"updateRow", "updateMem"}, id : Ids, form : Forms]
      BY <1>4 DEF UpdateRow, TypeOK, Request, Idle
    <3>2. QED
      BY <1>4, <3>1 DEF UpdateRow, TypeOK
  <2>3. \A i \in Ids : /\ db'[i] = NoRow <=> db[i] = NoRow
                       /\ db[i] # NoRow => db'[i].uuid = db[i].uuid
    <3>1. \A row \in Row : Apply(row, req[w].form) \in Row
                           /\ Apply(row, req[w].form).uuid = row.uuid
      BY <2>1, ApplyKeepsUuid
    <3>2. CASE UNCHANGED db
      BY <3>2
    <3>3. CASE db' = [db EXCEPT ![req[w].id] =
                        IF @ = NoRow THEN NoRow ELSE Apply(@, req[w].form)]
      BY <3>3, <3>1, <2>1 DEF TypeOK
    <3>4. QED
      BY <1>4, <3>2, <3>3 DEF UpdateRow
  <2>4. FreshIds' /\ UniqueRows' /\ BackedByRow'
    BY <2>2, <2>3 DEF FreshIds, UniqueRows, BackedByRow
  <2>5. InsertersOwnTheirRow'
    BY <2>2, <2>3, RequestShape DEF InsertersOwnTheirRow
  <2>6. DeletersClearMemory'
    BY <2>2 DEF DeletersClearMemory
  <2>7. DownMeansEmpty'
    BY <2>1, <2>2 DEF DownMeansEmpty, Idle
  <2>8. QED
    BY <2>4, <2>5, <2>6, <2>7 DEF Core
<1>5. ASSUME NEW w \in Workers, UpdateMem(w)
      PROVE  Core'
  <2>1. /\ req[w].id \in Ids
        /\ req[w].form \in Form
        /\ req[w].op = "updateMem"
        /\ UNCHANGED <<db, nextId, up>>
        /\ \A v \in Workers : \/ req'[v] = req[v]
                               \/ req'[v].op \notin {"insertMem", "delete"}
    BY <1>5, RequestShape DEF UpdateMem, Finish, Idle, TypeOK
  <2>2. \A i \in Ids : /\ servers'[i] = NoRow <=> servers[i] = NoRow
                       /\ servers[i] # NoRow => servers'[i].uuid = servers[i].uuid
    <3>1. \A row \in Row : Apply(row, req[w].form) \in Row
                           /\ Apply(row, req[w].form).uuid = row.uuid
      BY <2>1, ApplyKeepsUuid
    <3>2. QED
      BY <1>5, <3>1, <2>1 DEF UpdateMem, TypeOK
  <2>3. FreshIds' /\ UniqueRows' /\ BackedByRow'
    BY <2>1, <2>2 DEF FreshIds, UniqueRows, BackedByRow
  <2>4. InsertersOwnTheirRow'
    BY <2>1 DEF InsertersOwnTheirRow
  <2>5. DeletersClearMemory'
    BY <2>1, <2>2, RequestShape DEF DeletersClearMemory
  <2>6. DownMeansEmpty'
    BY <2>1 DEF DownMeansEmpty, Idle
  <2>7. QED
    BY <2>3, <2>4, <2>5, <2>6 DEF Core
<1>6. ASSUME NEW w \in Workers, NEW j \in Ids, DeleteMem(w, j)
      PROVE  Core'
  <2>1. /\ req[w].op = "delete"
        /\ req'[w].op = "delete"
        /\ req'[w].ids = req[w].ids
        /\ req'[w].left = req[w].left \ {j}
        /\ \A v \in Workers \ {w} : req'[v] = req[v]
        /\ UNCHANGED <<db, nextId, up>>
    <3>1. req[w] \in [op : {"delete"}, ids : SUBSET Ids, left : SUBSET Ids]
      BY <1>6 DEF DeleteMem, TypeOK, Request, Idle
    <3>2. QED
      BY <1>6, <3>1 DEF DeleteMem, TypeOK
  <2>2. servers'[j] = NoRow /\ \A i \in Ids \ {j} : servers'[i] = servers[i]
    BY <1>6 DEF DeleteMem, TypeOK
  <2>3. FreshIds' /\ UniqueRows' /\ BackedByRow'
    BY <2>1, <2>2 DEF FreshIds, UniqueRows, BackedByRow
  <2>4. InsertersOwnTheirRow'
    BY <2>1 DEF InsertersOwnTheirRow
  <2>5. DeletersClearMemory'
    BY <2>1, <2>2, RequestShape DEF DeletersClearMemory
  <2>6. DownMeansEmpty'
    BY <2>1 DEF DownMeansEmpty, Idle
  <2>7. QED
    BY <2>3, <2>4, <2>5, <2>6 DEF Core
<1>7. ASSUME NEW w \in Workers, DeleteRows(w)
      PROVE  Core'
  <2>1. /\ req[w].op = "delete"
        /\ req[w].left = {}
        /\ req[w].ids \subseteq Ids
        /\ UNCHANGED <<servers, nextId, up>>
        /\ \A v \in Workers : \/ req'[v] = req[v]
                               \/ req'[v].op \notin {"insertMem", "delete"}
    BY <1>7, RequestShape DEF DeleteRows, Finish, Idle, TypeOK
  <2>2. up
    BY <2>1 DEF DownMeansEmpty, Idle
  <2>3. CASE UNCHANGED db
    BY <2>1, <2>2, <2>3, QuietStep
  <2>4. CASE db' = [i \in Ids |-> IF i \in req[w].ids THEN NoRow ELSE db[i]]
    <3>1. FreshIds' /\ UniqueRows'
      BY <2>1, <2>4 DEF FreshIds, UniqueRows
    <3>2. \A i \in req[w].ids : servers[i] = NoRow
      BY <2>1 DEF DeletersClearMemory
    <3>3. BackedByRow'
      BY <2>1, <2>4, <3>2 DEF BackedByRow
    <3>4. InsertersOwnTheirRow'
      <4>1. \A v \in Workers : req[v].op = "insertMem"
                                => req[v].id \in Ids /\ req[v].id \notin req[w].ids
        BY <2>1, RequestShape DEF InsertersOwnTheirRow
      <4>2. QED
        BY <2>1, <2>4, <4>1 DEF InsertersOwnTheirRow
    <3>5. DeletersClearMemory'
      BY <2>1 DEF DeletersClearMemory
    <3>6. DownMeansEmpty'
      BY <2>1, <2>2 DEF DownMeansEmpty
    <3>7. QED
      BY <3>1, <3>3, <3>4, <3>5, <3>6 DEF Core
  <2>5. QED
    BY <1>7, <2>3, <2>4 DEF DeleteRows
<1>8. ASSUME NEW w \in Workers, NEW u \in Uuids, AuthKnown(w, u)
      PROVE  Core'
  BY <1>8, QuietStep DEF AuthKnown
<1>9. ASSUME NEW w \in Workers, NEW u \in Uuids, AuthUnknown(w, u)
      PROVE  Core'
  BY <1>9, QuietStep DEF AuthUnknown, TypeOK
<1>10. ASSUME NEW w \in Workers, NEW u \in Uuids, NEW n \in Names,
              NEW h \in BOOLEAN, Create(w, u, n, h)
       PROVE  Core'
  BY <1>10, QuietStep DEF Create, TypeOK
<1>11. ASSUME NEW w \in Workers, NEW i \in Ids, NEW f \in Forms, UpdateCheck(w, i, f)
       PROVE  Core'
  BY <1>11, QuietStep DEF UpdateCheck, TypeOK
<1>12. ASSUME NEW w \in Workers, NEW ids \in SUBSET Shown, DeleteStart(w, ids)
       PROVE  Core'
  <2>1. /\ req'[w].op = "delete" /\ req'[w].ids = ids /\ req'[w].left = ids
        /\ \A v \in Workers \ {w} : req'[v] = req[v]
        /\ UNCHANGED <<db, servers, nextId, up>>
        /\ up
    BY <1>12 DEF DeleteStart, TypeOK
  <2>2. /\ \A i \in ids : i < nextId
        /\ \A v \in Workers : req[v].op = "insertMem" => req[v].id \notin ids
    <3>1. \A i \in Shown : /\ i < nextId
                          /\ \A v \in Workers : req[v].op = "insertMem" => req[v].id # i
      BY <1>0 DEF Shown
    <3>2. QED
      BY <3>1
  <2>3. FreshIds' /\ UniqueRows' /\ BackedByRow' /\ DownMeansEmpty'
    BY <2>1 DEF FreshIds, UniqueRows, BackedByRow, DownMeansEmpty
  <2>4. InsertersOwnTheirRow'
    BY <2>1, <2>2 DEF InsertersOwnTheirRow
  <2>5. DeletersClearMemory'
    BY <2>1, <2>2 DEF DeletersClearMemory
  <2>6. QED
    BY <2>3, <2>4, <2>5 DEF Core
<1>13. ASSUME NEW u \in Uuids, Disconnect(u)
       PROVE  Core'
  BY <1>13 DEF Disconnect, Core, FreshIds, UniqueRows, BackedByRow,
               InsertersOwnTheirRow, DeletersClearMemory, DownMeansEmpty
<1>14. CASE Crash
  <2>1. /\ \A v \in Workers : req'[v].op = "idle" /\ req'[v] = Idle
        /\ \A i \in Ids : servers'[i] = NoRow
        /\ UNCHANGED <<db, nextId>>
    BY <1>14 DEF Crash, Idle
  <2>2. QED
    BY <2>1 DEF Core, FreshIds, UniqueRows, BackedByRow,
                InsertersOwnTheirRow, DeletersClearMemory, DownMeansEmpty
<1>15. CASE LoadServers
  <2>1. /\ \A v \in Workers : req'[v].op = "idle"
        /\ servers' = db /\ up'
        /\ UNCHANGED <<db, nextId>>
    BY <1>15 DEF LoadServers, DownMeansEmpty, Idle
  <2>2. QED
    BY <2>1 DEF Core, FreshIds, UniqueRows, BackedByRow,
                InsertersOwnTheirRow, DeletersClearMemory, DownMeansEmpty
<1>16. CASE UNCHANGED vars
  BY <1>16 DEF vars, Core, FreshIds, UniqueRows, BackedByRow,
               InsertersOwnTheirRow, DeletersClearMemory, DownMeansEmpty
<1>17. ASSUME NEW w \in Workers, Drop(w)
       PROVE  Core'
  <2>1. up
    BY <1>17 DEF Drop, DownMeansEmpty, Idle
  <2>2. QED
    BY <1>17, <2>1, QuietStep DEF Drop, Finish, Idle, TypeOK
<1>18. QED
  BY <1>1, <1>2, <1>3, <1>4, <1>5, <1>6, <1>7, <1>8, <1>9, <1>10, <1>11,
     <1>12, <1>13, <1>14, <1>15, <1>16, <1>17
     DEF Next, HandlerStep, AgentRequest, AdminRequest

(* IInv is an invariant of the registry.                                   *)
LEMMA Inductive == Spec => []IInv
<1>1. Init => IInv
  <2> SUFFICES ASSUME Init PROVE IInv
    OBVIOUS
  <2>1. TypeOK
    BY RegistryAssumption DEF Init, TypeOK, Ids, Request, Idle
  <2>2. QED
    BY <2>1 DEF Init, IInv, Idle, FreshIds, UniqueRows, BackedByRow,
                InsertersOwnTheirRow, DeletersClearMemory, DownMeansEmpty
<1>2. IInv /\ TypeOK' /\ [Next]_vars => IInv'
  BY RegistryStep
<1>3. QED
  BY <1>1, <1>2, TypeCorrect, PTL DEF Spec

-----------------------------------------------------------------------------
(* Every server memory shows has a row with its uuid, whatever statements  *)
(* fail and wherever the process dies.                                     *)
THEOREM MemoryBackedByTable == Spec => []BackedByRow
<1>1. IInv => BackedByRow
  BY DEF IInv
<1>2. QED
  BY <1>1, Inductive, PTL

(* However many streams of one agent authenticate at once, memory never    *)
(* holds two servers with its uuid, so check_auth's find has one answer.   *)
OneServerPerUuid ==
  \A i, j \in Ids :
    servers[i] # NoRow /\ servers[j] # NoRow /\ servers[i].uuid = servers[j].uuid
      => i = j

(* However many streams register the same agent at once, memory holds at   *)
(* most one server with its uuid.                                          *)
THEOREM NoDuplicateServer == Spec => []OneServerPerUuid
<1>1. IInv => OneServerPerUuid
  BY DEF IInv, OneServerPerUuid, BackedByRow, UniqueRows
<1>2. QED
  BY <1>1, Inductive, PTL

(* A deleted id is never given out again nor brought back by a late        *)
(* handler: time series and streams keyed by it stay with one server.      *)
DeletedForGood ==
  [][\A i \in Ids : i < nextId /\ db[i] = NoRow
       => db'[i] = NoRow /\ servers'[i] = NoRow]_vars

(* An id whose row is gone is never used again, neither by the table nor   *)
(* by a handler that was under way.                                        *)
THEOREM IdsAreNotReused == Spec => DeletedForGood
<1>1. IInv /\ [Next]_vars => [\A i \in Ids : i < nextId /\ db[i] = NoRow
                                => db'[i] = NoRow /\ servers'[i] = NoRow]_vars
  <2> SUFFICES ASSUME IInv, [Next]_vars, NEW i \in Ids, i < nextId, db[i] = NoRow
               PROVE  (db'[i] = NoRow /\ servers'[i] = NoRow) \/ UNCHANGED vars
    OBVIOUS
  <2>1. servers[i] = NoRow
    BY DEF IInv, BackedByRow
  <2>2. ASSUME NEW w \in Workers, HandlerStep(w)
        PROVE  db'[i] = NoRow /\ servers'[i] = NoRow
    <3>1. CASE InsertRow(w)
      BY <3>1, <2>1 DEF InsertRow, IInv, TypeOK
    <3>2. CASE InsertRefused(w)
      BY <3>2, <2>1 DEF InsertRefused
    <3>3. CASE InsertMem(w)
      BY <3>3, <2>1, RequestShape DEF InsertMem, IInv, TypeOK, InsertersOwnTheirRow
    <3>4. CASE UpdateRow(w)
      BY <3>4, <2>1 DEF UpdateRow, IInv, TypeOK
    <3>5. CASE UpdateMem(w)
      BY <3>5, <2>1 DEF UpdateMem, IInv, TypeOK
    <3>6. CASE \E j \in Ids : DeleteMem(w, j)
      BY <3>6, <2>1 DEF DeleteMem, IInv, TypeOK
    <3>7. CASE DeleteRows(w)
      BY <3>7, <2>1 DEF DeleteRows
    <3>8. QED
      BY <2>2, <3>1, <3>2, <3>3, <3>4, <3>5, <3>6, <3>7 DEF HandlerStep
  <2>3. ASSUME NEW w \in Workers, AgentRequest(w) \/ AdminRequest(w)
        PROVE  db'[i] = NoRow /\ servers'[i] = NoRow
    BY <2>3, <2>1 DEF AgentRequest, AdminRequest, AuthKnown, AuthUnknown, Create,
                      UpdateCheck, DeleteStart
  <2>4. ASSUME \/ \E w \in Workers : Drop(w)
               \/ \E u \in Uuids : Disconnect(u)
               \/ Crash \/ LoadServers
        PROVE  db'[i] = NoRow /\ servers'[i] = NoRow
    BY <2>4, <2>1 DEF Drop, Disconnect, Crash, LoadServers
  <2>5. QED
    BY <2>2, <2>3, <2>4 DEF Next
<1>2. QED
  BY <1>1, Inductive, PTL DEF Spec, DeletedForGood

(* An id held by a stream goes on denoting that agent's server, or none,   *)
(* whatever is deleted and registered meanwhile.                           *)
THEOREM StreamIdentity == Spec => []StreamKeepsIdentity
<1>1. Init => StreamKeepsIdentity
  BY DEF Init, StreamKeepsIdentity
<1>2. IInv /\ StreamKeepsIdentity /\ [Next]_vars => StreamKeepsIdentity'
  <2> SUFFICES ASSUME IInv, StreamKeepsIdentity, [Next]_vars,
                      NEW u \in Uuids, NEW i \in sessions'[u]
               PROVE  /\ i < nextId'
                      /\ servers'[i] # NoRow => servers'[i].uuid = u
                      /\ db'[i] # NoRow => db'[i].uuid = u
    BY DEF StreamKeepsIdentity
  <2> DEFINE Told == /\ i \in sessions[u]
                     /\ i < nextId
                     /\ servers[i] # NoRow => servers[i].uuid = u
                     /\ db[i] # NoRow => db[i].uuid = u
  <2>0. /\ TypeOK
        /\ nextId \in Int /\ \A j \in Ids : j \in Int
        /\ \A j \in sessions[u] : j \in Ids
        /\ i \in sessions[u] => Told
    BY DEF IInv, TypeOK, Ids, StreamKeepsIdentity
  <2>1. ASSUME NEW w \in Workers, InsertRow(w)
        PROVE  /\ i < nextId'
               /\ servers'[i] # NoRow => servers'[i].uuid = u
               /\ db'[i] # NoRow => db'[i].uuid = u
    <3>1. Told /\ i \in Ids
      BY <2>1, <2>0 DEF InsertRow
    <3>2. i # nextId /\ i < nextId + 1
      BY <3>1, <2>0 DEF Ids
    <3>3. db'[i] = db[i]
      BY <2>1, <2>0, <3>1, <3>2 DEF InsertRow, TypeOK
    <3>4. QED
      BY <2>1, <3>1, <3>2, <3>3 DEF InsertRow
  <2>2. ASSUME NEW w \in Workers, InsertMem(w)
        PROVE  /\ i < nextId'
               /\ servers'[i] # NoRow => servers'[i].uuid = u
               /\ db'[i] # NoRow => db'[i].uuid = u
    <3> DEFINE id == req[w].id
    <3>1. /\ id \in Ids /\ req[w].row \in Row
          /\ id < nextId /\ db[id] # NoRow /\ db[id].uuid = req[w].row.uuid
      BY <2>2, <2>0, RequestShape DEF InsertMem, IInv, InsertersOwnTheirRow
    <3>2. /\ servers'[id].uuid = req[w].row.uuid
          /\ \A j \in Ids \ {id} : servers'[j] = servers[j]
      BY <2>2, <2>0, <3>1, FreshEntryKeepsUuid DEF InsertMem, TypeOK
    <3>3. i \in sessions[u] \/ (i = id /\ u = req[w].row.uuid)
      BY <2>2, <2>0 DEF InsertMem, TypeOK
    <3>4. UNCHANGED <<db, nextId>>
      BY <2>2 DEF InsertMem
    <3>5. CASE i \in sessions[u]
      BY <3>5, <3>1, <3>2, <3>4, <2>0
    <3>6. CASE i = id /\ u = req[w].row.uuid
      BY <3>6, <3>1, <3>2, <3>4
    <3>7. QED
      BY <3>3, <3>5, <3>6
  <2>3. ASSUME NEW w \in Workers, UpdateRow(w)
        PROVE  /\ i < nextId'
               /\ servers'[i] # NoRow => servers'[i].uuid = u
               /\ db'[i] # NoRow => db'[i].uuid = u
    <3>1. Told /\ i \in Ids /\ UNCHANGED <<servers, nextId>>
      BY <2>3, <2>0 DEF UpdateRow
    <3>2. db'[i] # NoRow => db[i] # NoRow /\ db'[i].uuid = db[i].uuid
      <4>1. req[w].id \in Ids /\ req[w].form \in Form
        BY <2>3, <2>0, RequestShape, RegistryAssumption DEF UpdateRow
      <4>2. \A row \in Row : Apply(row, req[w].form).uuid = row.uuid
        BY <4>1, ApplyKeepsUuid
      <4>3. QED
        BY <2>3, <2>0, <3>1, <4>1, <4>2 DEF UpdateRow, TypeOK
    <3>3. QED
      BY <3>1, <3>2
  <2>4. ASSUME NEW w \in Workers, UpdateMem(w)
        PROVE  /\ i < nextId'
               /\ servers'[i] # NoRow => servers'[i].uuid = u
               /\ db'[i] # NoRow => db'[i].uuid = u
    <3>1. Told /\ i \in Ids /\ UNCHANGED <<db, nextId>>
      BY <2>4, <2>0 DEF UpdateMem
    <3>2. servers'[i] # NoRow => servers[i] # NoRow /\ servers'[i].uuid = servers[i].uuid
      <4>1. req[w].id \in Ids /\ req[w].form \in Form
        BY <2>4, <2>0, RequestShape, RegistryAssumption DEF UpdateMem
      <4>2. \A row \in Row : Apply(row, req[w].form).uuid = row.uuid
        BY <4>1, ApplyKeepsUuid
      <4>3. QED
        BY <2>4, <2>0, <3>1, <4>1, <4>2 DEF UpdateMem, TypeOK
    <3>3. QED
      BY <3>1, <3>2
  <2>5. ASSUME NEW w \in Workers, \/ InsertRefused(w) \/ Drop(w)
                                  \/ \E j \in Ids : DeleteMem(w, j)
                                  \/ DeleteRows(w)
                                  \/ AdminRequest(w)
                                  \/ \E v \in Uuids : AuthUnknown(w, v)
        PROVE  /\ i < nextId'
               /\ servers'[i] # NoRow => servers'[i].uuid = u
               /\ db'[i] # NoRow => db'[i].uuid = u
    <3>1. Told /\ i \in Ids /\ UNCHANGED nextId
      BY <2>5, <2>0 DEF InsertRefused, Drop, DeleteMem, DeleteRows, AdminRequest, Create,
                        UpdateCheck, DeleteStart, AuthUnknown
    <3>2. servers'[i] \in {servers[i], NoRow} /\ db'[i] \in {db[i], NoRow}
      BY <2>5, <2>0, <3>1 DEF InsertRefused, Drop, DeleteMem, DeleteRows, AdminRequest, Create,
                              UpdateCheck, DeleteStart, AuthUnknown, TypeOK
    <3>3. QED
      BY <3>1, <3>2
  <2>6. ASSUME NEW w \in Workers, NEW v \in Uuids, AuthKnown(w, v)
        PROVE  /\ i < nextId'
               /\ servers'[i] # NoRow => servers'[i].uuid = u
               /\ db'[i] # NoRow => db'[i].uuid = u
    <3>1. PICK j \in Ids : /\ servers[j] # NoRow /\ servers[j].uuid = v
                           /\ sessions' = [sessions EXCEPT ![v] = @ \cup {j}]
      BY <2>6 DEF AuthKnown, Holds
    <3>2. UNCHANGED <<db, servers, nextId>>
      BY <2>6 DEF AuthKnown
    <3>3. db[j] # NoRow /\ db[j].uuid = v
      BY <3>1 DEF IInv, BackedByRow
    <3>4. j < nextId
      <4>1. ~(j >= nextId)
        BY <3>3 DEF IInv, FreshIds
      <4>2. QED
        BY <4>1, <2>0 DEF Ids
    <3>5. i \in sessions[u] \/ (i = j /\ u = v)
      BY <3>1, <2>0 DEF TypeOK
    <3>6. QED
      BY <3>1, <3>2, <3>3, <3>4, <3>5, <2>0
  <2>7. CASE \E v \in Uuids : Disconnect(v)
    BY <2>7, <2>0 DEF Disconnect, TypeOK
  <2>8. CASE Crash
    BY <2>8 DEF Crash
  <2>9. CASE LoadServers
    BY <2>9, <2>0 DEF LoadServers
  <2>10. CASE UNCHANGED vars
    BY <2>10, <2>0 DEF vars
  <2>11. QED
    BY <2>1, <2>2, <2>3, <2>4, <2>5, <2>6, <2>7, <2>8, <2>9, <2>10
       DEF Next, HandlerStep, AgentRequest
<1>3. QED
  BY <1>1, <1>2, Inductive, PTL DEF Spec

-----------------------------------------------------------------------------
(* A statement on the table that leaves whose row is whose.                *)
LEMMA SameOwner ==
  ASSUME \A i \in Ids : /\ db'[i] = NoRow <=> db[i] = NoRow
                        /\ db[i] # NoRow => db'[i].uuid = db[i].uuid
  PROVE  Owner' = Owner
  BY DEF Owner

(* Each step of the registry is one step of the directory, or none.        *)
LEMMA DirectoryStep ==
  ASSUME IInv, TypeOK', [Next]_vars
  PROVE  [Table!Next]_Table!vars
<1> USE DEF Table!vars
<1>0. /\ TypeOK /\ nextId \in Int /\ nextId >= 1
      /\ \A i \in Ids : i \in Int /\ i >= 1
      /\ NoRow \notin Row \cup Uuids
  BY RegistryAssumption DEF IInv, TypeOK, Ids
<1>1. ASSUME NEW w \in Workers, InsertRow(w)
      PROVE  Table!Next
  <2> DEFINE u == req[w].row.uuid
  <2>1. /\ nextId \in Ids /\ req[w].row \in Row /\ u \in Uuids
        /\ \A i \in Ids : ~Holds(db, i, u)
        /\ db' = [db EXCEPT ![nextId] = req[w].row]
        /\ nextId' = nextId + 1
        /\ UNCHANGED sessions
    BY <1>0, <1>1, RequestShape DEF InsertRow, UuidTaken, Ids, Row
  <2>2. /\ db'[nextId] = req[w].row /\ req[w].row # NoRow
        /\ \A i \in Ids \ {nextId} : db'[i] = db[i]
    BY <1>0, <2>1 DEF TypeOK
  <2>3. \A i \in Ids : Owner[i] # u
    BY <1>0, <2>1 DEF Owner, Holds
  <2>4. Owner' = [Owner EXCEPT ![nextId] = u]
    <3>1. Owner'[nextId] = u /\ \A i \in Ids \ {nextId} : Owner'[i] = Owner[i]
      BY <2>1, <2>2 DEF Owner
    <3>2. /\ Owner = [i \in Ids |-> Owner[i]] /\ Owner' = [i \in Ids |-> Owner'[i]]
      BY DEF Owner
    <3> HIDE DEF u
    <3> QED
      BY <3>1, <3>2
  <2>5. /\ nextId \notin 1..(nextId - 1)
        /\ 1..(nextId' - 1) = (1..(nextId - 1)) \cup {nextId}
    BY <1>0, <2>1
  <2>6. Table!Assign(nextId, u)
    BY <2>1, <2>3, <2>4, <2>5 DEF Table!Assign
  <2> QED
    BY <2>1, <2>6 DEF Table!Next
<1>2. ASSUME NEW w \in Workers, InsertMem(w)
      PROVE  [Table!Next]_Table!vars
  <2> DEFINE i == req[w].id
             u == req[w].row.uuid
  <2>1. /\ i \in Ids /\ u \in Uuids
        /\ db[i] # NoRow /\ db[i].uuid = u
        /\ UNCHANGED <<db, nextId>>
    BY <1>0, <1>2, RequestShape DEF InsertMem, IInv, InsertersOwnTheirRow, Row
  <2>2. Owner' = Owner /\ Owner[i] = u
    BY <2>1 DEF Owner
  <2>3. \/ sessions' = [sessions EXCEPT ![u] = @ \cup {i}]
        \/ UNCHANGED sessions
    BY <1>2 DEF InsertMem
  <2>4. CASE sessions' = [sessions EXCEPT ![u] = @ \cup {i}]
    <3>1. Table!Tell(i, u)
      BY <2>1, <2>2, <2>4 DEF Table!Tell
    <3> QED
      BY <2>1, <3>1 DEF Table!Next
  <2> QED
    BY <2>1, <2>2, <2>3, <2>4
<1>3. ASSUME NEW w \in Workers, UpdateRow(w)
      PROVE  UNCHANGED Table!vars
  <2>1. UNCHANGED <<nextId, sessions>> /\ req[w].id \in Ids /\ req[w].form \in Form
    BY <1>0, <1>3, RequestShape, RegistryAssumption DEF UpdateRow
  <2>2. \A row \in Row : Apply(row, req[w].form) \in Row /\ Apply(row, req[w].form).uuid = row.uuid
    BY <2>1, ApplyKeepsUuid
  <2>3. \/ db' = [db EXCEPT ![req[w].id] = IF @ = NoRow THEN NoRow ELSE Apply(@, req[w].form)]
        \/ UNCHANGED db
    BY <1>3 DEF UpdateRow
  <2>4. \A i \in Ids : /\ db'[i] = NoRow <=> db[i] = NoRow
                       /\ db[i] # NoRow => db'[i].uuid = db[i].uuid
    BY <1>0, <2>1, <2>2, <2>3 DEF TypeOK
  <2> QED
    BY <2>1, <2>4, SameOwner
<1>4. ASSUME NEW w \in Workers, DeleteRows(w)
      PROVE  [Table!Next]_Table!vars
  <2>1. req[w].ids \in SUBSET Ids /\ UNCHANGED <<nextId, sessions>>
    BY <1>0, <1>4, RequestShape DEF DeleteRows
  <2>2. CASE UNCHANGED db
    BY <2>1, <2>2 DEF Owner
  <2>3. CASE db' = [i \in Ids |-> IF i \in req[w].ids THEN NoRow ELSE db[i]]
    <3>1. Owner' = [i \in Ids |-> IF i \in req[w].ids THEN NoRow ELSE Owner[i]]
      BY <2>3 DEF Owner
    <3>2. Table!Retire(req[w].ids)
      BY <2>1, <3>1 DEF Table!Retire
    <3> QED
      BY <2>1, <3>2 DEF Table!Next
  <2> QED
    BY <1>4, <2>2, <2>3 DEF DeleteRows
<1>5. ASSUME NEW w \in Workers, NEW u \in Uuids, AuthKnown(w, u)
      PROVE  Table!Next
  <2>1. PICK i \in Ids : /\ servers[i] # NoRow /\ servers[i].uuid = u
                         /\ sessions' = [sessions EXCEPT ![u] = @ \cup {i}]
    BY <1>5 DEF AuthKnown, Holds
  <2>2. UNCHANGED <<db, nextId>>
    BY <1>5 DEF AuthKnown
  <2>3. db[i] # NoRow /\ db[i].uuid = u
    BY <2>1 DEF IInv, BackedByRow
  <2>4. Owner' = Owner /\ Owner[i] = u
    BY <2>2, <2>3 DEF Owner
  <2>5. Table!Tell(i, u)
    BY <2>1, <2>2, <2>4 DEF Table!Tell
  <2> QED
    BY <2>5 DEF Table!Next
<1>6. ASSUME NEW w \in Workers,
             \/ InsertRefused(w) \/ UpdateMem(w) \/ Drop(w)
             \/ \E i \in Ids : DeleteMem(w, i)
             \/ AdminRequest(w)
             \/ \E u \in Uuids : AuthUnknown(w, u)
      PROVE  UNCHANGED Table!vars
  <2>1. UNCHANGED <<db, nextId, sessions>>
    BY <1>6 DEF InsertRefused, UpdateMem, Drop, DeleteMem, AdminRequest, Create,
                UpdateCheck, DeleteStart, AuthUnknown
  <2> QED
    BY <2>1 DEF Owner
<1>7. ASSUME NEW u \in Uuids, Disconnect(u)
      PROVE  Table!Next
  <2>1. /\ UNCHANGED <<db, nextId>>
        /\ \E i \in sessions[u] : sessions' = [sessions EXCEPT ![u] = @ \ {i}]
    BY <1>7 DEF Disconnect
  <2>2. \A v \in Uuids : sessions'[v] \subseteq sessions[v]
    BY <1>0, <2>1 DEF TypeOK
  <2>3. sessions' \in [Uuids -> SUBSET Ids] /\ Owner' = Owner
    BY <2>1 DEF TypeOK, Owner
  <2> QED
    BY <2>1, <2>2, <2>3 DEF Table!Next, Table!Hangup
<1>8. CASE Crash
  <2>1. UNCHANGED <<db, nextId>> /\ sessions' = [u \in Uuids |-> {}]
    BY <1>8 DEF Crash
  <2>2. sessions' \in [Uuids -> SUBSET Ids] /\ Owner' = Owner
    BY <2>1 DEF TypeOK, Owner
  <2> QED
    BY <2>1, <2>2 DEF Table!Next, Table!Hangup
<1>9. CASE LoadServers \/ UNCHANGED vars
  <2>1. UNCHANGED <<db, nextId, sessions>>
    BY <1>9 DEF LoadServers, vars
  <2> QED
    BY <2>1 DEF Owner
<1> QED
  BY <1>1, <1>2, <1>3, <1>4, <1>5, <1>6, <1>7, <1>8, <1>9
     DEF Next, HandlerStep, AgentRequest

(* The table, its copy, the handlers between them, failed statements and   *)
(* restarts together do no more than a directory whose changes happen at   *)
(* once.                                                                   *)
THEOREM RegistryIsDirectory == Spec => IsDirectory
<1>1. Init => Table!Init
  <2> SUFFICES ASSUME Init PROVE Table!Init
    OBVIOUS
  <2>1. Owner = [i \in Ids |-> NoRow] /\ 1..(nextId - 1) = {}
    BY DEF Init, Owner
  <2> QED
    BY <2>1 DEF Init, Table!Init
<1>2. IInv /\ TypeOK' /\ [Next]_vars => [Table!Next]_Table!vars
  BY DirectoryStep
<1> QED
  BY <1>1, <1>2, Inductive, TypeCorrect, PTL DEF Spec, IsDirectory, Table!Spec

-----------------------------------------------------------------------------
(* What the two copies say, and why they differ when they do.              *)

DeletersKeepList ==
  \A w \in Workers : req[w].op = "delete" => req[w].left \subseteq req[w].ids

\* Nobody but its handler knows the row between the two inserts.
InsertersAlone ==
  \A w \in Workers : req[w].op = "insertMem" =>
    /\ servers[req[w].id] = NoRow
    /\ db[req[w].id] = req[w].row
    /\ \A v \in Workers : v # w /\ req[v].op \in {"insertMem", "updateRow", "updateMem"}
         => req[v].id # req[w].id

UpdatesNamed ==
  \A w \in Workers : req[w].op \in {"updateRow", "updateMem"} => req[w].id < nextId

\* An update that has written the row is what memory lacks, unless two of them
\* have met or a statement has failed.
UpdatesApply ==
  \A w \in Workers : req[w].op = "updateMem" /\ req[w].id \notin split =>
    /\ servers[req[w].id] # NoRow =>
         db[req[w].id] = Apply(servers[req[w].id], req[w].form)
    /\ \A v \in Workers : v # w /\ req[v].op = "updateMem" => req[v].id # req[w].id

Copies ==
  /\ DeletersKeepList /\ InsertersAlone /\ UpdatesNamed /\ UpdatesApply
  /\ NoLostRow /\ CopiesAgree

LEMMA CopiesQuiet ==
  ASSUME Copies,
         UNCHANGED <<db, servers, nextId, split, stranded, up>>,
         \A v \in Workers : \/ req'[v] = req[v]
                            \/ /\ req[v].op \in {"idle", "insertRow"}
                               /\ req'[v].op \in {"idle", "insertRow"}
  PROVE  Copies'
<1> USE DEF Copies
<1>1. DeletersKeepList'
  BY DEF DeletersKeepList
<1>2. InsertersAlone'
  BY DEF InsertersAlone
<1>3. UpdatesNamed'
  BY DEF UpdatesNamed
<1>4. UpdatesApply'
  BY DEF UpdatesApply
<1>5. NoLostRow'
  BY DEF NoLostRow
<1>6. CopiesAgree'
  BY DEF CopiesAgree
<1> QED
  BY <1>1, <1>2, <1>3, <1>4, <1>5, <1>6

LEMMA CopiesInsertRow ==
  ASSUME IInv, Copies, NEW w \in Workers, InsertRow(w)
  PROVE  Copies'
<1> USE DEF Copies
<1>0. TypeOK /\ nextId \in Int /\ \A i \in Ids : i \in Int
  BY DEF IInv, TypeOK, Ids
<1>1. /\ nextId \in Ids /\ req[w].row \in Row /\ req[w].op = "insertRow"
      /\ nextId' = nextId + 1
      /\ UNCHANGED <<servers, split, stranded, up>>
      /\ req'[w].op = "insertMem" /\ req'[w].row = req[w].row /\ req'[w].id = nextId
      /\ \A v \in Workers : v # w => req'[v] = req[v]
  BY <1>0, RequestShape DEF InsertRow, Ids, TypeOK
<1>2. db'[nextId] = req[w].row /\ \A i \in Ids : i # nextId => db'[i] = db[i]
  BY <1>0, <1>1 DEF InsertRow, TypeOK
<1>3. servers[nextId] = NoRow
  <2>1. db[nextId] = NoRow
    BY <1>0, <1>1 DEF IInv, FreshIds
  <2> QED
    BY <1>1, <2>1 DEF IInv, BackedByRow
<1>4. \A v \in Workers :
        /\ req[v].op \in {"insertMem", "updateRow", "updateMem"} =>
             req[v].id \in Ids /\ req[v].id < nextId
        /\ req[v].op \in {"insertMem", "updateRow", "updateMem"} =>
             req[v].id # nextId /\ req[v].id < nextId + 1
  <2>1. \A v \in Workers : req[v].op \in {"insertMem", "updateRow", "updateMem"} =>
             req[v].id \in Ids /\ req[v].id < nextId
    BY <1>0, RequestShape DEF IInv, InsertersOwnTheirRow, UpdatesNamed
  <2> QED
    BY <1>0, <2>1
<1>5. DeletersKeepList'
  BY <1>1 DEF DeletersKeepList
<1>6. InsertersAlone'
  BY <1>1, <1>2, <1>3, <1>4 DEF InsertersAlone
<1>7. UpdatesNamed'
  BY <1>1, <1>4 DEF UpdatesNamed
<1>8. UpdatesApply'
  BY <1>1, <1>2, <1>4 DEF UpdatesApply
<1>9. NoLostRow'
  <2>1. ASSUME NEW i \in Ids, i # nextId, up, db[i] # NoRow, servers[i] = NoRow
        PROVE  \/ i \in stranded
               \/ \E v \in Workers : req'[v].op = "insertMem" /\ req'[v].id = i
               \/ \E v \in Workers : req'[v].op = "delete" /\ i \in req'[v].ids
    <3>1. \/ i \in stranded
          \/ \E v \in Workers : req[v].op = "insertMem" /\ req[v].id = i
          \/ \E v \in Workers : req[v].op = "delete" /\ i \in req[v].ids
      BY <2>1 DEF NoLostRow
    <3>2. \A v \in Workers : req[v].op \in {"insertMem", "delete"} => req'[v] = req[v]
      BY <1>1
    <3> QED
      BY <3>1, <3>2
  <2> QED
    BY <1>1, <1>2, <2>1 DEF NoLostRow
<1>10. CopiesAgree'
  <2>1. \A v \in Workers : req[v].op = "updateMem" => req'[v] = req[v]
    BY <1>1
  <2> QED
    BY <1>1, <1>2, <1>3, <2>1 DEF CopiesAgree
<1> QED
  BY <1>5, <1>6, <1>7, <1>8, <1>9, <1>10

LEMMA CopiesInsertMem ==
  ASSUME IInv, Copies, NEW w \in Workers, InsertMem(w)
  PROVE  Copies'
<1> USE DEF Copies
<1> DEFINE id == req[w].id
           row == req[w].row
<1>0. TypeOK
  BY DEF IInv
<1>1. /\ id \in Ids /\ row \in Row /\ req[w].op = "insertMem"
      /\ UNCHANGED <<db, nextId, stranded, up>>
      /\ req'[w].op = "idle"
      /\ \A v \in Workers : v # w => req'[v] = req[v]
  BY <1>0, RequestShape DEF InsertMem, Finish, Idle, TypeOK
<1>2. /\ servers'[id] = FreshEntry(row)
      /\ \A i \in Ids : i # id => servers'[i] = servers[i]
      /\ split' = IF row.hidden THEN split \cup {id} ELSE split
  BY <1>0, <1>1 DEF InsertMem, TypeOK
<1>3. db[id] = row /\ row # NoRow
  BY <1>0, <1>1, RegistryAssumption DEF InsertersAlone
<1>4. servers'[id] # NoRow
  BY <1>1, <1>2, FreshEntryKeepsUuid, RegistryAssumption
<1>5. \A v \in Workers : v # w /\ req[v].op \in {"insertMem", "updateRow", "updateMem"}
        => req[v].id # id /\ req[v].id \in Ids
  BY <1>0, <1>1, RequestShape DEF InsertersAlone
<1>6. row.hidden = FALSE => FreshEntry(row) = row
  BY <1>1 DEF FreshEntry, Row
<1> HIDE DEF id, row
<1>7. DeletersKeepList'
  BY <1>1 DEF DeletersKeepList
<1>8. InsertersAlone'
  BY <1>1, <1>2, <1>5 DEF InsertersAlone
<1>9. UpdatesNamed'
  BY <1>1 DEF UpdatesNamed
<1>10. UpdatesApply'
  BY <1>1, <1>2, <1>5 DEF UpdatesApply
<1>11. NoLostRow'
  <2>1. ASSUME NEW i \in Ids, i # id, up, db[i] # NoRow, servers[i] = NoRow
        PROVE  \/ i \in stranded
               \/ \E v \in Workers : req'[v].op = "insertMem" /\ req'[v].id = i
               \/ \E v \in Workers : req'[v].op = "delete" /\ i \in req'[v].ids
    <3>1. \/ i \in stranded
          \/ \E v \in Workers : req[v].op = "insertMem" /\ req[v].id = i
          \/ \E v \in Workers : req[v].op = "delete" /\ i \in req[v].ids
      BY <2>1 DEF NoLostRow
    <3>2. \A v \in Workers : /\ req[v].op = "delete" => req'[v] = req[v]
                             /\ req[v].op = "insertMem" /\ req[v].id = i => req'[v] = req[v]
      BY <1>1, <2>1 DEF id
    <3> QED
      BY <3>1, <3>2
  <2> QED
    BY <1>1, <1>2, <1>4, <2>1 DEF NoLostRow
<1>12. CopiesAgree'
  <2>1. \A v \in Workers : req[v].op = "updateMem" => req'[v] = req[v]
    BY <1>1
  <2>2. ASSUME NEW i \in Ids, i # id
        PROVE  \/ servers'[i] = NoRow
               \/ i \in split'
               \/ \E v \in Workers : req'[v].op = "updateMem" /\ req'[v].id = i
               \/ servers'[i] = db'[i]
    <3>1. \/ servers[i] = NoRow
          \/ i \in split
          \/ \E v \in Workers : req[v].op = "updateMem" /\ req[v].id = i
          \/ servers[i] = db[i]
      BY <2>2 DEF CopiesAgree
    <3> QED
      BY <1>1, <1>2, <2>1, <2>2, <3>1
  <2>3. id \in split' \/ servers'[id] = db'[id]
    BY <1>1, <1>2, <1>3, <1>6 DEF Row
  <2> QED
    BY <2>2, <2>3 DEF CopiesAgree
<1> QED
  BY <1>7, <1>8, <1>9, <1>10, <1>11, <1>12

LEMMA CopiesUpdateRow ==
  ASSUME IInv, Copies, NEW w \in Workers, UpdateRow(w)
  PROVE  Copies'
<1> USE DEF Copies
<1> DEFINE id == req[w].id
           form == req[w].form
<1>0. TypeOK
  BY DEF IInv
<1>1. /\ id \in Ids /\ form \in Form /\ req[w].op = "updateRow"
      /\ UNCHANGED <<servers, nextId, stranded, up>>
  BY <1>0, RequestShape, RegistryAssumption DEF UpdateRow
<1>2. /\ req'[w].op = "updateMem" /\ req'[w].id = id /\ req'[w].form = form
      /\ \A v \in Workers : v # w => req'[v] = req[v]
  <2>1. req[w] \in [op : {"updateRow", "updateMem"}, id : Ids, form : Forms]
    BY <1>0, <1>1 DEF TypeOK, Request, Idle
  <2> QED
    BY <1>0, <2>1 DEF UpdateRow, TypeOK
<1>3. \/ /\ db'[id] = IF db[id] = NoRow THEN NoRow ELSE Apply(db[id], form)
         /\ split' = IF Overtakes(w) THEN split \cup {id} ELSE split
      \/ db'[id] = db[id] /\ split' = split \cup {id}
  BY <1>0, <1>1 DEF UpdateRow, TypeOK
<1>4. \A i \in Ids : i # id => db'[i] = db[i]
  BY <1>0, <1>1 DEF UpdateRow, TypeOK
<1>5. \A v \in Workers : req[v].op = "insertMem" => req[v].id # id /\ req[v].id \in Ids
  BY <1>0, <1>1, RequestShape DEF InsertersAlone
<1>6. db'[id] = NoRow <=> db[id] = NoRow
  <2>1. db[id] # NoRow => Apply(db[id], form) # NoRow
    BY <1>0, <1>1, ApplyKeepsUuid, RegistryAssumption DEF TypeOK
  <2> QED
    BY <1>3, <2>1
<1>7. \A v \in Workers : req[v].op \in {"insertMem", "delete", "updateMem"} => req'[v] = req[v]
  BY <1>1, <1>2
<1>8. id \in split' \/ (/\ id \notin split /\ split' = split /\ ~Overtakes(w)
                        /\ db'[id] = IF db[id] = NoRow THEN NoRow ELSE Apply(db[id], form))
  BY <1>3
<1>9. \A i \in Ids : i \in split => i \in split'
  BY <1>3
<1>10. ~Overtakes(w) => \A v \in Workers : v # w /\ req[v].op = "updateMem" => req[v].id # id
  BY DEF Overtakes
<1>11. \A v \in Workers : req[v].op = "updateMem" => req[v].id \in Ids
  BY <1>0, RequestShape
<1> HIDE DEF id, form
<1>12. DeletersKeepList'
  BY <1>2 DEF DeletersKeepList
<1>13. InsertersAlone'
  <2> SUFFICES ASSUME NEW v \in Workers, req'[v].op = "insertMem"
               PROVE  /\ servers'[req'[v].id] = NoRow
                      /\ db'[req'[v].id] = req'[v].row
                      /\ \A x \in Workers :
                           x # v /\ req'[x].op \in {"insertMem", "updateRow", "updateMem"}
                             => req'[x].id # req'[v].id
    BY DEF InsertersAlone
  <2>1. v # w /\ req'[v] = req[v] /\ req[v].op = "insertMem"
    BY <1>2
  <2>2. \A x \in Workers : x # v /\ req[x].op \in {"insertMem", "updateRow", "updateMem"}
                             => req[x].id # req[v].id
    BY <2>1 DEF InsertersAlone
  <2>3. \A x \in Workers : x # v /\ req'[x].op \in {"insertMem", "updateRow", "updateMem"}
                             => req'[x].id # req[v].id
    BY <1>2, <1>5, <2>1, <2>2
  <2> QED
    BY <1>1, <1>4, <1>5, <2>1, <2>3 DEF InsertersAlone
<1>14. UpdatesNamed'
  BY <1>1, <1>2 DEF UpdatesNamed, id
<1>15. UpdatesApply'
  <2> SUFFICES ASSUME NEW v \in Workers, req'[v].op = "updateMem", req'[v].id \notin split'
               PROVE  /\ servers'[req'[v].id] # NoRow =>
                           db'[req'[v].id] = Apply(servers'[req'[v].id], req'[v].form)
                      /\ \A x \in Workers : x # v /\ req'[x].op = "updateMem"
                           => req'[x].id # req'[v].id
    BY DEF UpdatesApply
  <2>1. CASE v = w
    <3>1. id \notin split /\ ~Overtakes(w) /\ split' = split
      BY <1>2, <1>8, <2>1
    <3>2. \A x \in Workers : x # w /\ req'[x].op = "updateMem" => req'[x].id # id
      BY <1>2, <1>10, <3>1
    <3>3. servers[id] # NoRow => servers[id] = db[id]
      <4>1. ~\E x \in Workers : req[x].op = "updateMem" /\ req[x].id = id
        BY <1>1, <1>10, <3>1
      <4> QED
        BY <1>1, <3>1, <4>1 DEF CopiesAgree
    <3> QED
      BY <1>1, <1>2, <1>8, <2>1, <3>1, <3>2, <3>3
  <2>2. CASE v # w
    <3>1. req'[v] = req[v] /\ req[v].op = "updateMem" /\ req[v].id \in Ids
      BY <1>2, <1>11, <2>2
    <3>2. req[v].id \notin split
      BY <1>9, <3>1
    <3>3. req[v].id # id
      BY <1>2, <1>8, <1>10, <2>2, <3>1
    <3>4. /\ servers[req[v].id] # NoRow => db[req[v].id] = Apply(servers[req[v].id], req[v].form)
          /\ \A x \in Workers : x # v /\ req[x].op = "updateMem" => req[x].id # req[v].id
      BY <3>1, <3>2 DEF UpdatesApply
    <3> QED
      BY <1>1, <1>2, <1>4, <3>1, <3>3, <3>4
  <2> QED
    BY <2>1, <2>2
<1>16. NoLostRow'
  <2>1. ASSUME NEW i \in Ids, up, db[i] # NoRow, servers[i] = NoRow
        PROVE  \/ i \in stranded
               \/ \E v \in Workers : req'[v].op = "insertMem" /\ req'[v].id = i
               \/ \E v \in Workers : req'[v].op = "delete" /\ i \in req'[v].ids
    <3>1. \/ i \in stranded
          \/ \E v \in Workers : req[v].op = "insertMem" /\ req[v].id = i
          \/ \E v \in Workers : req[v].op = "delete" /\ i \in req[v].ids
      BY <2>1 DEF NoLostRow
    <3> QED
      BY <1>7, <3>1
  <2> QED
    BY <1>1, <1>4, <1>6, <2>1 DEF NoLostRow
<1>17. CopiesAgree'
  <2>1. \E v \in Workers : req'[v].op = "updateMem" /\ req'[v].id = id
    BY <1>2
  <2>2. ASSUME NEW i \in Ids, i # id
        PROVE  \/ servers'[i] = NoRow
               \/ i \in split'
               \/ \E v \in Workers : req'[v].op = "updateMem" /\ req'[v].id = i
               \/ servers'[i] = db'[i]
    <3>1. \/ servers[i] = NoRow
          \/ i \in split
          \/ \E v \in Workers : req[v].op = "updateMem" /\ req[v].id = i
          \/ servers[i] = db[i]
      BY <2>2 DEF CopiesAgree
    <3> QED
      BY <1>1, <1>4, <1>7, <1>9, <2>2, <3>1
  <2> QED
    BY <2>1, <2>2 DEF CopiesAgree
<1> QED
  BY <1>12, <1>13, <1>14, <1>15, <1>16, <1>17

LEMMA CopiesUpdateMem ==
  ASSUME IInv, Copies, NEW w \in Workers, UpdateMem(w)
  PROVE  Copies'
<1> USE DEF Copies
<1> DEFINE id == req[w].id
           form == req[w].form
<1>0. TypeOK
  BY DEF IInv
<1>1. /\ id \in Ids /\ form \in Form /\ req[w].op = "updateMem"
      /\ UNCHANGED <<db, nextId, split, stranded, up>>
      /\ req'[w].op = "idle"
      /\ \A v \in Workers : v # w => req'[v] = req[v]
  BY <1>0, RequestShape, RegistryAssumption DEF UpdateMem, Finish, Idle, TypeOK
<1>2. /\ servers'[id] = IF servers[id] = NoRow THEN NoRow ELSE Apply(servers[id], form)
      /\ \A i \in Ids : i # id => servers'[i] = servers[i]
  BY <1>0, <1>1 DEF UpdateMem, TypeOK
<1>3. \A i \in Ids : servers'[i] = NoRow <=> servers[i] = NoRow
  <2>1. servers[id] # NoRow => Apply(servers[id], form) # NoRow
    BY <1>0, <1>1, ApplyKeepsUuid, RegistryAssumption DEF TypeOK
  <2> QED
    BY <1>2, <2>1
<1>4. id \notin split =>
        /\ servers[id] # NoRow => db[id] = Apply(servers[id], form)
        /\ \A v \in Workers : v # w /\ req[v].op = "updateMem" => req[v].id # id
  BY <1>1 DEF UpdatesApply
<1>5. \A v \in Workers : req[v].op \in {"insertMem", "updateMem"} => req[v].id \in Ids
  BY <1>0, RequestShape
<1> HIDE DEF id, form
<1>6. DeletersKeepList'
  BY <1>1 DEF DeletersKeepList
<1>7. InsertersAlone'
  <2>1. \A v \in Workers : req'[v].op = "insertMem" => req'[v] = req[v]
    BY <1>1
  <2> QED
    BY <1>1, <1>3, <1>5, <2>1 DEF InsertersAlone
<1>8. UpdatesNamed'
  BY <1>1 DEF UpdatesNamed
<1>9. UpdatesApply'
  <2> SUFFICES ASSUME NEW v \in Workers, req'[v].op = "updateMem", req'[v].id \notin split
               PROVE  /\ servers'[req'[v].id] # NoRow =>
                           db[req'[v].id] = Apply(servers'[req'[v].id], req'[v].form)
                      /\ \A x \in Workers : x # v /\ req'[x].op = "updateMem"
                           => req'[x].id # req'[v].id
    BY <1>1 DEF UpdatesApply
  <2>1. v # w /\ req'[v] = req[v] /\ req[v].op = "updateMem" /\ req[v].id \in Ids
    BY <1>1, <1>5
  <2>2. req[v].id # id
    BY <1>4, <2>1
  <2>3. /\ servers[req[v].id] # NoRow => db[req[v].id] = Apply(servers[req[v].id], req[v].form)
        /\ \A x \in Workers : x # v /\ req[x].op = "updateMem" => req[x].id # req[v].id
    BY <2>1 DEF UpdatesApply
  <2> QED
    BY <1>1, <1>2, <2>1, <2>2, <2>3
<1>10. NoLostRow'
  <2>1. \A v \in Workers : req[v].op \in {"insertMem", "delete"} => req'[v] = req[v]
    BY <1>1
  <2>2. ASSUME NEW i \in Ids, up, db[i] # NoRow, servers[i] = NoRow
        PROVE  \/ i \in stranded
               \/ \E v \in Workers : req'[v].op = "insertMem" /\ req'[v].id = i
               \/ \E v \in Workers : req'[v].op = "delete" /\ i \in req'[v].ids
    <3>1. \/ i \in stranded
          \/ \E v \in Workers : req[v].op = "insertMem" /\ req[v].id = i
          \/ \E v \in Workers : req[v].op = "delete" /\ i \in req[v].ids
      BY <2>2 DEF NoLostRow
    <3> QED
      BY <2>1, <3>1
  <2> QED
    BY <1>1, <1>3, <2>2 DEF NoLostRow
<1>11. CopiesAgree'
  <2>1. \/ servers'[id] = NoRow \/ id \in split' \/ servers'[id] = db'[id]
    BY <1>1, <1>2, <1>4
  <2>2. ASSUME NEW i \in Ids, i # id
        PROVE  \/ servers'[i] = NoRow
               \/ i \in split'
               \/ \E v \in Workers : req'[v].op = "updateMem" /\ req'[v].id = i
               \/ servers'[i] = db'[i]
    <3>1. \/ servers[i] = NoRow
          \/ i \in split
          \/ \E v \in Workers : req[v].op = "updateMem" /\ req[v].id = i
          \/ servers[i] = db[i]
      BY <2>2 DEF CopiesAgree
    <3>2. \A v \in Workers : req[v].id = i => req'[v] = req[v]
      BY <1>1, <2>2 DEF id
    <3> QED
      BY <1>1, <1>2, <2>2, <3>1, <3>2
  <2> QED
    BY <2>1, <2>2 DEF CopiesAgree
<1> QED
  BY <1>6, <1>7, <1>8, <1>9, <1>10, <1>11

LEMMA CopiesDelete ==
  ASSUME IInv, Copies, NEW w \in Workers,
         DeleteRows(w) \/ \E i \in Ids : DeleteMem(w, i)
  PROVE  Copies'
<1> USE DEF Copies
<1>0. TypeOK
  BY DEF IInv
<1>1. /\ req[w].op = "delete" /\ req[w].ids \in SUBSET Ids /\ req[w].left \subseteq req[w].ids
      /\ UNCHANGED <<nextId, split, up>>
  BY <1>0, RequestShape DEF DeleteRows, DeleteMem, DeletersKeepList
<1>2. \A v \in Workers : /\ req[v].op = "insertMem" => req[v].id \in Ids /\ req[v].id \notin req[w].ids
                         /\ req[v].op = "updateMem" => req[v].id \in Ids
  BY <1>0, <1>1, RequestShape DEF IInv, InsertersOwnTheirRow
<1>3. ASSUME NEW i \in Ids, DeleteMem(w, i)
      PROVE  Copies'
  <2>1. /\ i \in req[w].left /\ UNCHANGED <<db, stranded>>
        /\ servers'[i] = NoRow /\ \A j \in Ids : j # i => servers'[j] = servers[j]
    BY <1>0, <1>3 DEF DeleteMem, TypeOK
  <2>2. /\ req'[w].op = "delete" /\ req'[w].ids = req[w].ids
        /\ req'[w].left = req[w].left \ {i}
        /\ \A v \in Workers : v # w => req'[v] = req[v]
    <3>1. req[w] \in [op : {"delete"}, ids : SUBSET Ids, left : SUBSET Ids]
      BY <1>0, <1>1 DEF TypeOK, Request, Idle
    <3> QED
      BY <1>0, <1>3, <3>1 DEF DeleteMem, TypeOK
  <2>3. \A v \in Workers : req'[v].op # "delete" => req'[v] = req[v]
    BY <2>2
  <2>4. \A v \in Workers : req[v].op # "delete" => req'[v] = req[v]
    BY <1>1, <2>2
  <2>5. DeletersKeepList'
    BY <1>1, <2>2 DEF DeletersKeepList
  <2>6. InsertersAlone'
    BY <1>1, <1>2, <2>1, <2>3 DEF InsertersAlone
  <2>7. UpdatesNamed'
    BY <1>1, <2>3 DEF UpdatesNamed
  <2>8. UpdatesApply'
    BY <1>1, <1>2, <2>1, <2>3 DEF UpdatesApply
  <2>9. NoLostRow'
    <3>1. ASSUME NEW j \in Ids, j # i, up, db[j] # NoRow, servers[j] = NoRow
          PROVE  \/ j \in stranded
                 \/ \E v \in Workers : req'[v].op = "insertMem" /\ req'[v].id = j
                 \/ \E v \in Workers : req'[v].op = "delete" /\ j \in req'[v].ids
      <4>1. \/ j \in stranded
            \/ \E v \in Workers : req[v].op = "insertMem" /\ req[v].id = j
            \/ \E v \in Workers : req[v].op = "delete" /\ j \in req[v].ids
        BY <3>1 DEF NoLostRow
      <4> QED
        BY <2>2, <2>4, <4>1
    <3>2. i \in req'[w].ids
      BY <1>1, <2>1, <2>2
    <3> QED
      BY <1>1, <2>1, <2>2, <3>1, <3>2 DEF NoLostRow
  <2>10. CopiesAgree'
    <3>1. ASSUME NEW j \in Ids, j # i
          PROVE  \/ servers'[j] = NoRow
                 \/ j \in split'
                 \/ \E v \in Workers : req'[v].op = "updateMem" /\ req'[v].id = j
                 \/ servers'[j] = db'[j]
      <4>1. \/ servers[j] = NoRow
            \/ j \in split
            \/ \E v \in Workers : req[v].op = "updateMem" /\ req[v].id = j
            \/ servers[j] = db[j]
        BY <3>1 DEF CopiesAgree
      <4> QED
        BY <1>1, <2>1, <2>4, <3>1, <4>1
    <3> QED
      BY <2>1, <3>1 DEF CopiesAgree
  <2> QED
    BY <2>5, <2>6, <2>7, <2>8, <2>9, <2>10
<1>4. CASE DeleteRows(w)
  <2>1. /\ req[w].left = {} /\ servers' = servers
        /\ req'[w].op = "idle" /\ \A v \in Workers : v # w => req'[v] = req[v]
    BY <1>0, <1>4 DEF DeleteRows, Finish, Idle, TypeOK
  <2>2. \A i \in req[w].ids : servers[i] = NoRow
    BY <1>1, <2>1 DEF IInv, DeletersClearMemory
  <2>3. /\ \A i \in Ids : i \notin req[w].ids => db'[i] = db[i]
        /\ \A i \in req[w].ids : db'[i] = NoRow \/ db'[i] = db[i]
        /\ \A i \in Ids : i \in stranded => i \in stranded'
        /\ \A i \in req[w].ids : db'[i] # NoRow => i \in stranded'
    BY <1>1, <1>4 DEF DeleteRows
  <2>4. \A v \in Workers : /\ req'[v].op # "idle" => req'[v] = req[v]
                           /\ req[v].op # "delete" => req'[v] = req[v]
    BY <1>1, <2>1
  <2>5. DeletersKeepList'
    BY <2>4 DEF DeletersKeepList
  <2>6. InsertersAlone'
    BY <1>1, <1>2, <2>1, <2>3, <2>4 DEF InsertersAlone
  <2>7. UpdatesNamed'
    BY <1>1, <2>4 DEF UpdatesNamed
  <2>8. UpdatesApply'
    BY <1>1, <1>2, <2>1, <2>2, <2>3, <2>4 DEF UpdatesApply
  <2>9. NoLostRow'
    <3> SUFFICES ASSUME NEW j \in Ids, up, db'[j] # NoRow, servers[j] = NoRow, j \notin stranded'
                 PROVE  \/ \E v \in Workers : req'[v].op = "insertMem" /\ req'[v].id = j
                        \/ \E v \in Workers : req'[v].op = "delete" /\ j \in req'[v].ids
      BY <1>1, <2>1 DEF NoLostRow
    <3>1. j \notin req[w].ids /\ j \notin stranded /\ db[j] # NoRow
      BY <2>3
    <3>2. \/ \E v \in Workers : req[v].op = "insertMem" /\ req[v].id = j
          \/ \E v \in Workers : req[v].op = "delete" /\ j \in req[v].ids
      BY <3>1 DEF NoLostRow
    <3>3. \A v \in Workers : req[v].op = "delete" /\ j \in req[v].ids => req'[v] = req[v]
      BY <2>1, <3>1
    <3> QED
      BY <2>4, <3>2, <3>3
  <2>10. CopiesAgree'
    <3> SUFFICES ASSUME NEW j \in Ids, servers[j] # NoRow
                 PROVE  \/ j \in split
                        \/ \E v \in Workers : req'[v].op = "updateMem" /\ req'[v].id = j
                        \/ servers[j] = db'[j]
      BY <1>1, <2>1 DEF CopiesAgree
    <3>1. \/ j \in split
          \/ \E v \in Workers : req[v].op = "updateMem" /\ req[v].id = j
          \/ servers[j] = db[j]
      BY DEF CopiesAgree
    <3>2. db'[j] = db[j]
      BY <2>2, <2>3
    <3> QED
      BY <2>4, <3>1, <3>2
  <2> QED
    BY <2>5, <2>6, <2>7, <2>8, <2>9, <2>10
<1> QED
  BY <1>3, <1>4

(* A request that has only been looked at.                                 *)
LEMMA CopiesStart ==
  ASSUME IInv, Copies, NEW w \in Workers, AdminRequest(w)
  PROVE  Copies'
<1> USE DEF Copies
<1>0. TypeOK /\ nextId \in Int /\ \A i \in Ids : i \in Int
  BY DEF IInv, TypeOK, Ids
<1>1. /\ req[w] = Idle /\ req[w].op = "idle"
      /\ UNCHANGED <<db, servers, nextId, split, stranded, up>>
  BY DEF AdminRequest, Create, UpdateCheck, DeleteStart, Idle
<1>2. ASSUME NEW u \in Uuids, NEW n \in Names, NEW h \in BOOLEAN, Create(w, u, n, h)
      PROVE  Copies'
  <2>1. /\ req'[w].op = "insertRow" /\ \A v \in Workers : v # w => req'[v] = req[v]
    BY <1>0, <1>2 DEF Create, TypeOK
  <2> QED
    BY <1>1, <2>1, CopiesQuiet
<1>3. \A i \in Ids : \A v \in Workers :
        req[v].op = "insertMem" /\ servers[i] # NoRow => req[v].id # i
  BY DEF InsertersAlone
<1>4. ASSUME NEW i \in Ids, NEW f \in Forms, UpdateCheck(w, i, f)
      PROVE  Copies'
  <2>1. /\ req'[w].op = "updateRow" /\ req'[w].id = i
        /\ \A v \in Workers : v # w => req'[v] = req[v]
        /\ servers[i] # NoRow
    BY <1>0, <1>4 DEF UpdateCheck, TypeOK
  <2>2. i < nextId
    <3>1. db[i] # NoRow
      BY <2>1 DEF IInv, BackedByRow
    <3>2. ~(i >= nextId)
      BY <3>1 DEF IInv, FreshIds
    <3> QED
      BY <1>0, <3>2
  <2>3. \A v \in Workers : /\ req[v].op # "idle" => req'[v] = req[v]
                           /\ req'[v].op # "updateRow" => req'[v] = req[v]
    BY <1>1, <2>1
  <2>4. DeletersKeepList'
    BY <2>3 DEF DeletersKeepList
  <2>5. InsertersAlone'
    BY <1>1, <1>3, <2>1 DEF InsertersAlone
  <2>6. UpdatesNamed'
    BY <1>1, <2>1, <2>2 DEF UpdatesNamed
  <2>7. UpdatesApply'
    BY <1>1, <2>3 DEF UpdatesApply
  <2>8. NoLostRow'
    BY <1>1, <2>3 DEF NoLostRow
  <2>9. CopiesAgree'
    BY <1>1, <2>3 DEF CopiesAgree
  <2> QED
    BY <2>4, <2>5, <2>6, <2>7, <2>8, <2>9
<1>5. ASSUME NEW ids \in SUBSET Shown, DeleteStart(w, ids)
      PROVE  Copies'
  <2>1. /\ req'[w].op = "delete" /\ req'[w].ids = ids /\ req'[w].left = ids
        /\ \A v \in Workers : v # w => req'[v] = req[v]
    BY <1>0, <1>5 DEF DeleteStart, TypeOK
  <2>2. \A v \in Workers : /\ req[v].op # "idle" => req'[v] = req[v]
                           /\ req'[v].op # "delete" => req'[v] = req[v]
    BY <1>1, <2>1
  <2>3. DeletersKeepList'
    BY <2>1 DEF DeletersKeepList
  <2>4. InsertersAlone'
    BY <1>1, <2>2 DEF InsertersAlone
  <2>5. UpdatesNamed'
    BY <1>1, <2>2 DEF UpdatesNamed
  <2>6. UpdatesApply'
    BY <1>1, <2>2 DEF UpdatesApply
  <2>7. NoLostRow'
    BY <1>1, <2>2 DEF NoLostRow
  <2>8. CopiesAgree'
    BY <1>1, <2>2 DEF CopiesAgree
  <2> QED
    BY <2>3, <2>4, <2>5, <2>6, <2>7, <2>8
<1> QED
  BY <1>2, <1>4, <1>5 DEF AdminRequest

(* A handler whose client is gone: the history says what it left behind.   *)
LEMMA CopiesDrop ==
  ASSUME IInv, Copies, NEW w \in Workers, Drop(w)
  PROVE  Copies'
<1> USE DEF Copies
<1>0. TypeOK
  BY DEF IInv
<1>1. /\ req'[w].op = "idle" /\ \A v \in Workers : v # w => req'[v] = req[v]
      /\ UNCHANGED <<db, servers, nextId, up>>
  BY <1>0 DEF Drop, Finish, Idle, TypeOK
<1>2. \A v \in Workers : req'[v].op # "idle" => req'[v] = req[v]
  BY <1>1
<1>3. /\ \A i \in Ids : i \in stranded => i \in stranded'
      /\ \A i \in Ids : i \in split => i \in split'
      /\ req[w].op = "insertMem" => req[w].id \in stranded'
      /\ req[w].op = "delete" =>
           \A i \in Ids : i \in req[w].ids /\ db[i] # NoRow => i \in stranded'
      /\ req[w].op = "updateMem" => req[w].id \in split'
  BY DEF Drop
<1>4. DeletersKeepList'
  BY <1>2 DEF DeletersKeepList
<1>5. InsertersAlone'
  BY <1>1, <1>2 DEF InsertersAlone
<1>6. UpdatesNamed'
  BY <1>1, <1>2 DEF UpdatesNamed
<1>7. UpdatesApply'
  <2>1. \A v \in Workers : req[v].op = "updateMem" => req[v].id \in Ids
    BY <1>0, RequestShape
  <2> QED
    BY <1>1, <1>2, <1>3, <2>1 DEF UpdatesApply
<1>8. NoLostRow'
  <2> SUFFICES ASSUME NEW j \in Ids, up, db[j] # NoRow, servers[j] = NoRow, j \notin stranded'
               PROVE  \/ \E v \in Workers : req'[v].op = "insertMem" /\ req'[v].id = j
                      \/ \E v \in Workers : req'[v].op = "delete" /\ j \in req'[v].ids
    BY <1>1 DEF NoLostRow
  <2>1. \/ \E v \in Workers : req[v].op = "insertMem" /\ req[v].id = j
        \/ \E v \in Workers : req[v].op = "delete" /\ j \in req[v].ids
    BY <1>3 DEF NoLostRow
  <2>2. /\ \A v \in Workers : req[v].op = "insertMem" /\ req[v].id = j => req'[v] = req[v]
        /\ \A v \in Workers : req[v].op = "delete" /\ j \in req[v].ids => req'[v] = req[v]
    BY <1>1, <1>3
  <2> QED
    BY <2>1, <2>2
<1>9. CopiesAgree'
  <2> SUFFICES ASSUME NEW j \in Ids, servers[j] # NoRow, j \notin split', servers[j] # db[j]
               PROVE  \E v \in Workers : req'[v].op = "updateMem" /\ req'[v].id = j
    BY <1>1 DEF CopiesAgree
  <2>1. PICK v \in Workers : req[v].op = "updateMem" /\ req[v].id = j
    BY <1>3 DEF CopiesAgree
  <2>2. v # w
    BY <1>3, <2>1
  <2> QED
    BY <1>1, <2>1, <2>2
<1> QED
  BY <1>4, <1>5, <1>6, <1>7, <1>8, <1>9

LEMMA CopiesStep ==
  ASSUME IInv, Copies, [Next]_vars
  PROVE  Copies'
<1>0. TypeOK
  BY DEF IInv
<1>1. ASSUME NEW w \in Workers, InsertRefused(w) \/ AgentRequest(w)
      PROVE  Copies'
  <2>1. /\ UNCHANGED <<db, servers, nextId, split, stranded, up>>
        /\ \/ UNCHANGED req
           \/ /\ req[w].op \in {"idle", "insertRow"} /\ req'[w].op \in {"idle", "insertRow"}
              /\ \A v \in Workers : v # w => req'[v] = req[v]
    BY <1>0, <1>1 DEF InsertRefused, AgentRequest, AuthKnown, AuthUnknown, Finish, Idle, TypeOK
  <2>2. \A v \in Workers : \/ req'[v] = req[v]
                           \/ /\ req[v].op \in {"idle", "insertRow"}
                              /\ req'[v].op \in {"idle", "insertRow"}
    BY <2>1
  <2> QED
    BY <2>1, <2>2, CopiesQuiet
<1>2. CASE Crash
  <2>1. /\ \A v \in Workers : req'[v].op = "idle"
        /\ \A i \in Ids : servers'[i] = NoRow
        /\ up' = FALSE
    BY <1>2 DEF Crash, Idle
  <2> QED
    BY <2>1 DEF Copies, DeletersKeepList, InsertersAlone, UpdatesNamed, UpdatesApply,
                NoLostRow, CopiesAgree
<1>3. CASE LoadServers
  <2>1. /\ \A v \in Workers : req'[v].op = "idle"
        /\ servers' = db /\ db' = db
    BY <1>3 DEF LoadServers, IInv, DownMeansEmpty, Idle
  <2> QED
    BY <2>1 DEF Copies, DeletersKeepList, InsertersAlone, UpdatesNamed, UpdatesApply,
                NoLostRow, CopiesAgree
<1>4. CASE (\E u \in Uuids : Disconnect(u)) \/ UNCHANGED vars
  <2>1. UNCHANGED <<db, servers, nextId, split, stranded, up, req>>
    BY <1>4 DEF Disconnect, vars
  <2> QED
    BY <2>1, CopiesQuiet
<1> QED
  BY <1>1, <1>2, <1>3, <1>4, CopiesInsertRow, CopiesInsertMem, CopiesUpdateRow,
     CopiesUpdateMem, CopiesDelete, CopiesDrop, CopiesStart
     DEF Next, HandlerStep

LEMMA CopiesInvariant == Spec => []Copies
<1>1. Init => Copies
  BY DEF Init, Idle, Copies, DeletersKeepList, InsertersAlone, UpdatesNamed, UpdatesApply,
         NoLostRow, CopiesAgree
<1>2. IInv /\ Copies /\ [Next]_vars => Copies'
  BY CopiesStep
<1> QED
  BY <1>1, <1>2, Inductive, PTL DEF Spec

(* A row that memory lacks belongs to a handler between its two steps, to  *)
(* one dropped there, or to a deletion whose statement failed.             *)
THEOREM RowsAreInMemory == Spec => []NoLostRow
<1>1. Copies => NoLostRow
  BY DEF Copies
<1> QED
  BY <1>1, CopiesInvariant, PTL

(* Whatever updates, failed statements, lost clients and restarts          *)
(* interleave, the two copies of a server differ only during an update, or *)
(* for one of the four reasons CopiesAgree names.                          *)
THEOREM MemoryShowsTable == Spec => []CopiesAgree
<1>1. Copies => CopiesAgree
  BY DEF Copies
<1> QED
  BY <1>1, CopiesInvariant, PTL
=============================================================================
