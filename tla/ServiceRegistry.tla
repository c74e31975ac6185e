---------------------------- MODULE ServiceRegistry ----------------------------
(***************************************************************************)
(* The registry of monitored services: the `services` table and its copy   *)
(* in the DashMap AppState.services.                                       *)
(*                                                                         *)
(*   admins    create, update, batch_delete (handlers/service.rs)          *)
(*   start-up  load_services (nezha-service/src/sentinel.rs), in a task of *)
(*             its own: requests are answered while it runs                *)
(*                                                                         *)
(* Of the 18 columns four are kept, one of each kind that is treated in    *)
(* its own way: target (a string), duration (a number), trigger (a number  *)
(* the load does not read), skip (a list, stored as JSON).  What checks do *)
(* to an entry is in ServiceSentinel.                                      *)
(***************************************************************************)
EXTENDS Integers, FiniteSets

CONSTANTS
  Targets, Durations, Lists, \* values of three of the columns
  EmptyList,   \* the list read from a text that is not one
  Entries,     \* bound: the services admins create
  Forms,       \* bound: the update forms admins submit
  Workers,     \* bound: requests handled at the same time
  MaxId,       \* bound: rows ever inserted
  MaxUpdates,  \* bound: updates accepted
  MaxDeletes,  \* bound: ids submitted for deletion
  MaxFaults,   \* bound: mishaps, a failed statement or a dropped handler
  MaxCrashes   \* bound: restarts of the dashboard

Ids     == 1..MaxId
Numbers == Durations \cup {0, 1, 30}
Columns == {"target", "duration", "trigger", "skip"}
Values  == Targets \cup Numbers \cup Lists

\* An entry in memory, and a form: values of the right types for some of the
\* columns.
Entry == [target : Targets, duration : Numbers, trigger : {0, 1}, skip : Lists]
Form  == UNION {[S -> Values] : S \in SUBSET Columns}
Typed == [target |-> Targets, duration |-> Numbers, trigger |-> {0, 1}, skip |-> Lists]

ASSUME ServiceAssumption ==
  /\ Durations \subseteq Int
  /\ IsFiniteSet(Workers)
  /\ EmptyList \in Lists
  /\ Entries \subseteq Entry /\ Forms \subseteq Form
  /\ \A f \in Forms : \A c \in DOMAIN f : f[c] \in Typed[c]
  /\ {MaxId, MaxUpdates, MaxDeletes, MaxFaults, MaxCrashes} \subseteq Nat

VARIABLES
  table,     \* the services table: a function on the ids of its rows
  nextId,    \* the AUTOINCREMENT counter of the table
  services,  \* AppState.services: a function on the ids in memory
  req,       \* the request each worker is in the middle of
  load,      \* load_services: before its SELECT, inserting rows, done
  up,        \* the process is running
  updates, deletes, faults, crashes,
  split,     \* history: ids whose copies were written differently
  crossed,   \* history: ids whose row an UPDATE has mixed up
  unread,    \* history: ids of the rows that load_services did not get, for a
             \* fault, for its bool columns or for rows an UPDATE has mixed up
  ghosts,    \* history: ids put in memory after their deletion
  stranded   \* history: ids whose row was left without an entry in memory:
             \* its DELETE failed, or its handler was dropped half way

vars == <<table, nextId, services, req, load, up, updates, deletes, faults, crashes,
          split, crossed, unread, ghosts, stranded>>

-----------------------------------------------------------------------------
(* What an UPDATE writes.  The SET clause names the columns of the form in *)
(* one order, the values are bound in another: first every string, then    *)
(* every number.                                                           *)

\* Deviation: the values are bound in the order they were read in.
BindOrderReversed == [trigger |-> 1, duration |-> 2, skip |-> 3, target |-> 4]

SetOrder  == [target |-> 1, duration |-> 2, trigger |-> 3, skip |-> 4]
BindOrder == [target |-> 1, skip |-> 2, duration |-> 3, trigger |-> 4]

\* How many columns of the form come before c.
Rank(order, form, c) == Cardinality({d \in DOMAIN form : order[d] < order[c]})

\* The n-th placeholder gets the n-th value.
Bound(form) ==
  [c \in DOMAIN form |->
     form[CHOOSE d \in DOMAIN form : Rank(BindOrder, form, d) = Rank(SetOrder, form, c)]]

\* A list and a number: the two orders differ.
Mixes(form) == "skip" \in DOMAIN form /\ DOMAIN form \cap {"duration", "trigger"} # {}

Overlay(entry, form) ==
  [c \in Columns |-> IF c \in DOMAIN form THEN form[c] ELSE entry[c]]

-----------------------------------------------------------------------------
(* What load_services makes of a row.                                      *)

\* A number column that holds a text fails the SELECT as a whole.
Readable(row) == row["duration"] \in Numbers

Clamp(d) == IF d < 5 THEN 30 ELSE d

\* enable_trigger_task is the seventeenth column, and is not read.
Loaded(row) ==
  [target |-> row["target"], duration |-> Clamp(row["duration"]), trigger |-> 0,
   skip |-> IF row["skip"] \in Lists THEN row["skip"] ELSE EmptyList]

\* f with f[i] = v.
Put(f, i, v) == [j \in DOMAIN f \cup {i} |-> IF j = i THEN v ELSE f[j]]
Without(f, S) == [j \in DOMAIN f \ S |-> f[j]]

Idle == [op |-> "idle"]
Finish(w) == req' = [req EXCEPT ![w] = Idle]

\* One more of the bounded mishaps: a statement fails, or a client is gone.
Mishap ==
  /\ faults < MaxFaults
  /\ faults' = faults + 1

-----------------------------------------------------------------------------
Init ==
  /\ table = [i \in {} |-> EmptyList]
  /\ nextId = 1
  /\ services = [i \in {} |-> EmptyList]
  /\ req = [w \in Workers |-> Idle]
  /\ load = [stage |-> "select"]
  /\ up = TRUE
  /\ updates = 0 /\ deletes = 0 /\ faults = 0 /\ crashes = 0
  /\ split = {} /\ crossed = {} /\ unread = {} /\ ghosts = {} /\ stranded = {}

\* The deletion of i has removed it from memory already.
BeingDeleted(i) ==
  \E w \in Workers : req[w].op = "delete" /\ i \in req[w].ids \ req[w].left

\* An entry that is put in memory although its row is gone, or going.
Ghost(i) == IF i \notin DOMAIN table \/ BeingDeleted(i) THEN ghosts \cup {i} ELSE ghosts

\* The ids a client can name: every allocated id but one whose handler is
\* between its two inserts, unless load_services has put it in memory.
Shown == {i \in 1..(nextId - 1) :
            \/ i \in DOMAIN services
            \/ \A w \in Workers : req[w].op = "insertMem" => req[w].id # i}

-----------------------------------------------------------------------------
(* create.                                                                 *)

\* MaxId leaves room for the INSERTs under way.
Create(w, e) ==
  /\ up /\ req[w] = Idle
  /\ nextId + Cardinality({v \in Workers : req[v].op = "insertRow"}) <= MaxId
  /\ req' = [req EXCEPT ![w] = [op |-> "insertRow", entry |-> e]]
  /\ UNCHANGED <<table, nextId, services, load, up, updates, deletes, faults, crashes,
                 split, crossed, unread, ghosts, stranded>>

InsertRow(w) ==
  /\ req[w].op = "insertRow"
  /\ table' = Put(table, nextId, req[w].entry)
  /\ nextId' = nextId + 1
  /\ req' = [req EXCEPT ![w] = [op |-> "insertMem", entry |-> @.entry, id |-> nextId]]
  /\ UNCHANGED <<services, load, up, updates, deletes, faults, crashes,
                 split, crossed, unread, ghosts, stranded>>

InsertFails(w) ==
  /\ req[w].op = "insertRow"
  /\ Mishap
  /\ Finish(w)
  /\ UNCHANGED <<table, nextId, services, load, up, updates, deletes, crashes,
                 split, crossed, unread, ghosts, stranded>>

InsertMem(w) ==
  /\ req[w].op = "insertMem"
  /\ LET i == req[w].id IN
       /\ services' = Put(services, i, req[w].entry)
       /\ ghosts' = Ghost(i)
  /\ Finish(w)
  /\ UNCHANGED <<table, nextId, load, up, updates, deletes, faults, crashes,
                 split, crossed, unread, stranded>>

-----------------------------------------------------------------------------
(* update: contains_key, UPDATE whose error is dropped, get_mut.           *)

UpdateCheck(w, i, f) ==
  /\ up /\ req[w] = Idle
  /\ i \in DOMAIN services
  /\ updates < MaxUpdates
  /\ updates' = updates + 1
  /\ req' = [req EXCEPT ![w] = [op |-> "updateRow", id |-> i, form |-> f]]
  /\ UNCHANGED <<table, nextId, services, load, up, deletes, faults, crashes,
                 split, crossed, unread, ghosts, stranded>>

\* An id that is not in memory, as any above MaxId: an error, even if the row
\* is there and load_services has not come to it.
UpdateRefused(w) ==
  /\ up /\ req[w] = Idle
  /\ UNCHANGED vars

\* Another update of the row has written the table and not yet the memory.
Overtakes(w) ==
  \E v \in Workers \ {w} : req[v].op = "updateMem" /\ req[v].id = req[w].id

\* load_services has read the row and not yet put it in memory.
StillToLoad(i) == load.stage = "insert" /\ i \in DOMAIN load.rows

\* create has written the row and not yet put it in memory.
StillToInsert(i) == \E w \in Workers : req[w].op = "insertMem" /\ req[w].id = i

UpdateRow(w) ==
  /\ req[w].op = "updateRow"
  /\ LET i == req[w].id
         f == req[w].form
     IN  \/ /\ table' = IF i \in DOMAIN table
                          THEN [table EXCEPT ![i] = Overlay(@, Bound(f))] ELSE table
            /\ crossed' = IF i \in DOMAIN table /\ Mixes(f) THEN crossed \cup {i}
                                                              ELSE crossed
            /\ split' = IF Overtakes(w) \/ StillToLoad(i) \/ StillToInsert(i)
                          THEN split \cup {i} ELSE split
            /\ UNCHANGED faults
         \/ /\ Mishap
            /\ split' = split \cup {i}
            /\ UNCHANGED <<table, crossed>>
  /\ req' = [req EXCEPT ![w].op = "updateMem"]
  /\ UNCHANGED <<nextId, services, load, up, updates, deletes, crashes, unread, ghosts, stranded>>

\* Deviation: the entry gets the values the row got.
UpdateMemAsStored(w) ==
  /\ req[w].op = "updateMem"
  /\ LET i == req[w].id IN
       services' = IF i \in DOMAIN services
                     THEN [services EXCEPT ![i] = Overlay(@, Bound(req[w].form))]
                     ELSE services
  /\ Finish(w)
  /\ UNCHANGED <<table, nextId, load, up, updates, deletes, faults, crashes,
                 split, crossed, unread, ghosts, stranded>>

\* Deviation: the numbers of the form are not copied to the entry.
UpdateMemTextOnly(w) ==
  /\ req[w].op = "updateMem"
  /\ LET i == req[w].id
         f == Without(req[w].form, {"duration", "trigger"})
     IN  services' = IF i \in DOMAIN services
                       THEN [services EXCEPT ![i] = Overlay(@, f)] ELSE services
  /\ Finish(w)
  /\ UNCHANGED <<table, nextId, load, up, updates, deletes, faults, crashes,
                 split, crossed, unread, ghosts, stranded>>

UpdateMem(w) ==
  /\ req[w].op = "updateMem"
  /\ LET i == req[w].id IN
       services' = IF i \in DOMAIN services
                     THEN [services EXCEPT ![i] = Overlay(@, req[w].form)] ELSE services
  /\ Finish(w)
  /\ UNCHANGED <<table, nextId, load, up, updates, deletes, faults, crashes,
                 split, crossed, unread, ghosts, stranded>>

-----------------------------------------------------------------------------
(* batch_delete: remove each id from memory, then one DELETE whose error   *)
(* is dropped.                                                             *)

DeleteStart(w, ids) ==
  /\ up /\ req[w] = Idle
  /\ ids # {}
  /\ deletes + Cardinality(ids) <= MaxDeletes
  /\ deletes' = deletes + Cardinality(ids)
  /\ req' = [req EXCEPT ![w] = [op |-> "delete", ids |-> ids, left |-> ids]]
  /\ UNCHANGED <<table, nextId, services, load, up, updates, faults, crashes,
                 split, crossed, unread, ghosts, stranded>>

DeleteMem(w, i) ==
  /\ req[w].op = "delete"
  /\ i \in req[w].left
  /\ services' = Without(services, {i})
  /\ req' = [req EXCEPT ![w].left = @ \ {i}]
  /\ UNCHANGED <<table, nextId, load, up, updates, deletes, faults, crashes,
                 split, crossed, unread, ghosts, stranded>>

DeleteRows(w) ==
  /\ req[w].op = "delete"
  /\ req[w].left = {}
  /\ \/ /\ table' = Without(table, req[w].ids)
        /\ UNCHANGED <<faults, stranded>>
     \/ /\ Mishap
        /\ stranded' = stranded \cup req[w].ids
        /\ UNCHANGED table
  /\ Finish(w)
  /\ UNCHANGED <<nextId, services, load, up, updates, deletes, crashes,
                 split, crossed, unread, ghosts>>

-----------------------------------------------------------------------------
(* The client goes away and hyper drops the handler's future at its .await.*)
(* The connection's worker runs a statement it has been handed all the     *)
(* same: that is the statement's own step, taken before this one.          *)

Drop(w) ==
  /\ req[w].op # "idle"
  /\ req[w].op = "delete" => req[w].left = {}    \* no .await between two ids
  /\ Mishap
  /\ LET r == req[w] IN
       /\ stranded' = CASE r.op = "insertMem" -> stranded \cup {r.id}
                        [] r.op = "delete" -> stranded \cup r.ids
                        [] OTHER -> stranded
       /\ split' = IF r.op = "updateMem" THEN split \cup {r.id} ELSE split
  /\ Finish(w)
  /\ UNCHANGED <<table, nextId, services, load, up, updates, deletes, crashes,
                 crossed, unread, ghosts>>

-----------------------------------------------------------------------------
(* load_services.                                                          *)

\* The SELECT asks sqlx for four columns as bools, and migrations declare them
\* INTEGER, which the Any driver does not give as one: with SQLite any row is an
\* error.  Columns that are given as bools, or cast, are read.
Undecoded == DOMAIN table # {}

\* One SELECT.  If it fails, or one row cannot be read, there are no rows.
LoadSelect ==
  /\ up /\ load.stage = "select"
  /\ \/ /\ \A i \in DOMAIN table : Readable(table[i])
        /\ load' = [stage |-> "insert", rows |-> table]
        /\ UNCHANGED <<unread, faults>>
     \/ /\ \E i \in DOMAIN table : ~Readable(table[i])
        /\ load' = [stage |-> "done"]
        /\ unread' = IF \A i \in DOMAIN table : ~Readable(table[i]) => i \in crossed
                       THEN DOMAIN table ELSE {}
        /\ UNCHANGED faults
     \/ /\ Undecoded
        /\ load' = [stage |-> "done"] /\ unread' = DOMAIN table
        /\ UNCHANGED faults
     \/ /\ Mishap
        /\ load' = [stage |-> "done"] /\ unread' = DOMAIN table
  /\ UNCHANGED <<table, nextId, services, req, up, updates, deletes, crashes,
                 split, crossed, ghosts, stranded>>

\* services.insert for each row, in the order of the ids.
LoadRow(i) ==
  /\ load.stage = "insert" /\ i \in DOMAIN load.rows
  /\ \A j \in DOMAIN load.rows : i <= j
  /\ services' = Put(services, i, Loaded(load.rows[i]))
  /\ ghosts' = Ghost(i)
  /\ load' = [load EXCEPT !.rows = Without(@, {i})]
  /\ UNCHANGED <<table, nextId, req, up, updates, deletes, faults, crashes,
                 split, crossed, unread, stranded>>

LoadEnds ==
  /\ load.stage = "insert" /\ DOMAIN load.rows = {}
  /\ load' = [stage |-> "done"]
  /\ UNCHANGED <<table, nextId, services, req, up, updates, deletes, faults, crashes,
                 split, crossed, unread, ghosts, stranded>>

-----------------------------------------------------------------------------
Crash ==
  /\ up
  /\ crashes < MaxCrashes
  /\ crashes' = crashes + 1
  /\ up' = FALSE
  /\ services' = Without(services, DOMAIN services)
  /\ req' = [w \in Workers |-> Idle]
  /\ load' = [stage |-> "select"]
  /\ split' = {} /\ unread' = {} /\ ghosts' = {} /\ stranded' = {}
  /\ UNCHANGED <<table, nextId, updates, deletes, faults, crossed>>

Restart ==
  /\ ~up
  /\ up' = TRUE
  /\ UNCHANGED <<table, nextId, services, req, load, updates, deletes, faults, crashes,
                 split, crossed, unread, ghosts, stranded>>

HandlerStep(w) ==
  \/ InsertRow(w) \/ InsertFails(w) \/ InsertMem(w)
  \/ UpdateRow(w) \/ UpdateMem(w)
  \/ (\E i \in Ids : DeleteMem(w, i)) \/ DeleteRows(w)

AdminRequest(w) ==
  \/ \E e \in Entries : Create(w, e)
  \/ \E i \in Ids, f \in Forms : UpdateCheck(w, i, f)
  \/ UpdateRefused(w)
  \/ \E ids \in SUBSET Shown : DeleteStart(w, ids)

Next ==
  \/ \E w \in Workers : HandlerStep(w) \/ Drop(w) \/ AdminRequest(w)
  \/ LoadSelect \/ (\E i \in Ids : LoadRow(i)) \/ LoadEnds
  \/ Crash \/ Restart

Spec == Init /\ [][Next]_vars

-----------------------------------------------------------------------------
Row     == [Columns -> Values]
Some(S) == UNION {[J -> S] : J \in SUBSET Ids}

Request ==
  {Idle}
    \cup [op : {"insertRow"}, entry : Entries]
    \cup [op : {"insertMem"}, entry : Entries, id : Ids]
    \cup [op : {"updateRow", "updateMem"}, id : Ids, form : Forms]
    \cup [op : {"delete"}, ids : SUBSET Ids, left : SUBSET Ids]

\* In memory every field has a value of its type, whatever the table holds.
TypeOK ==
  /\ DOMAIN table \subseteq Ids
  /\ \A i \in DOMAIN table : table[i] \in Row
  /\ nextId \in 1..(MaxId + 1)
  /\ DOMAIN services \subseteq Ids
  /\ \A i \in DOMAIN services : services[i] \in Entry
  /\ req \in [Workers -> Request]
  /\ load.stage \in {"select", "insert", "done"}
  /\ load.stage = "insert" => /\ DOMAIN load.rows \subseteq Ids
                              /\ \A i \in DOMAIN load.rows : load.rows[i] \in Row
  /\ up \in BOOLEAN
  /\ updates \in Nat /\ deletes \in Nat /\ faults \in Nat /\ crashes \in Nat
  /\ split \cup crossed \cup unread \cup ghosts \cup stranded \subseteq Ids

\* The load did not get the row, has it still to put in memory, or a create, a
\* deletion, a DELETE that failed or a handler dropped half way accounts for it.
Accounted(i) ==
  \/ i \in unread
  \/ StillToLoad(i)
  \/ StillToInsert(i)
  \/ i \in stranded
  \/ \E w \in Workers : req[w].op = "delete" /\ i \in req[w].ids

(* Memory and table have the same services.  A row without an entry, once  *)
(* the load has read the table, is of a handler between its two steps or   *)
(* dropped there, of a DELETE that failed, or fell to a SELECT that gave   *)
(* nothing: for a fault, for its bool columns, or for a row that an update *)
(* with a list and a number mixed up, and nothing else makes the services  *)
(* vanish at the next start.  An entry without a row was put there by the  *)
(* load, or by a create the load overtook, after its deletion had begun.   *)
SameServices ==
  /\ up /\ load.stage # "select" => \A i \in DOMAIN table \ DOMAIN services : Accounted(i)
  /\ DOMAIN services \ DOMAIN table \subseteq ghosts

\* A row as it was written, or as the load reads it.
Shows(entry, row) ==
  /\ entry.target = row["target"] /\ entry.skip = row["skip"]
  /\ entry.duration \in {row["duration"], Clamp(row["duration"])}
  /\ entry.trigger \in {row["trigger"], 0}

(* The dashboard shows what the table stores, in the window of an update   *)
(* excepted, but for an UPDATE that was mixed up, failed, met another one, *)
(* was dropped before it wrote memory, or came before the load or create   *)
(* put the row in memory; a duration below 5 may be shown as 30.           *)
CopiesAgree ==
  \A i \in DOMAIN services \cap DOMAIN table :
    \/ i \in split \cup crossed
    \/ \E w \in Workers : req[w].op = "updateMem" /\ req[w].id = i
    \/ Shows(services[i], table[i])
=============================================================================
