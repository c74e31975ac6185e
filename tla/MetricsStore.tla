----------------------------- MODULE MetricsStore -----------------------------
(***************************************************************************)
(* The time-series database (nezha-tsdb/src/sqlite.rs), those who write to *)
(* it and the statistics read from it.                                     *)
(*                                                                         *)
(*   checks:  try_send -> channel -> batch -> one INSERT per result        *)
(*   reports: one INSERT, made by the stream of the agent                  *)
(*   hourly:  maintenance deletes old rows, table after table, in batches  *)
(*   close:   the pool refuses every statement; then the process ends      *)
(*                                                                         *)
(* A row has an age in steps of the clock; Day steps are a calendar day,   *)
(* and phase is the step of the day it is now.  The rows belong to one     *)
(* service and one server.                                                 *)
(***************************************************************************)
EXTENDS Integers, Sequences, FiniteSets, Functions

CONSTANTS
  Slots,       \* bound: rows under way, stored, or deleted not long ago
  Day,         \* clock steps of a day
  Retention,   \* tsdb.retention_days
  Days,        \* days get_history asks for (30)
  Limit,       \* rows of one DELETE (10000)
  ChannelCap,  \* of the channel to the writer (2048)
  BatchMax,    \* a full batch (128)
  MaxAge,      \* bound: the age at which rows stop ageing
  MaxRestarts  \* bound: ends of the process

ASSUME StoreAssumption ==
  /\ Day \in Nat \ {0} /\ Retention \in Nat \ {0} /\ Days \in Nat \ {0}
  /\ Limit \in Nat \ {0} /\ ChannelCap \in Nat \ {0} /\ BatchMax \in Nat \ {0}
  /\ MaxAge \in Nat /\ MaxRestarts \in Nat

ASSUME AgesAreEnough == MaxAge > Retention * Day + 1 /\ MaxAge > (Days - 1) * Day

VARIABLES
  phase,    \* the step of the day
  row,      \* the row in each slot
  channel,  \* results try_send put there
  batch,    \* of the writer
  writer,   \* what the writer is doing
  store,    \* rows in the database
  purged,   \* history: rows maintenance deleted
  maint,    \* the table maintenance is at, and its cutoff as an age
  pool,     \* the database's connections; "down": no process
  restarts

queueVars == <<channel, batch, writer>>
vars == <<phase, row, queueVars, store, purged, maint, pool, restarts>>

Tables == {"server", "service"}
Row    == [table : Tables, age : 0..MaxAge, ok : BOOLEAN]
Blank  == [table |-> "none"]

TypeOK ==
  /\ phase \in 0..(Day - 1)
  /\ row \in [Slots -> Row \cup {Blank}]
  /\ channel \in Seq(Slots) /\ Len(channel) <= ChannelCap
  /\ batch \in Seq(Slots) /\ Len(batch) <= BatchMax
  /\ writer \in {"select", "flushing"}
  /\ store \subseteq Slots /\ purged \subseteq Slots
  /\ maint \in [at : Tables \cup {"idle"}, cutoff : 0..MaxAge]
  /\ pool \in {"open", "closed", "down"}
  /\ restarts \in 0..MaxRestarts

Idle == [at |-> "idle", cutoff |-> 0]

Init ==
  /\ phase \in 0..(Day - 1)
  /\ row = [s \in Slots |-> Blank]
  /\ channel = <<>> /\ batch = <<>> /\ writer = "select"
  /\ store = {} /\ purged = {}
  /\ maint = Idle
  /\ pool = "open" /\ restarts = 0

Room == \E s \in Slots : row[s] = Blank
Fresh == CHOOSE s \in Slots : row[s] = Blank
Forget(S) == row' = [s \in Slots |-> IF s \in S THEN Blank ELSE row[s]]
Queued == Range(channel) \cup Range(batch)

-----------------------------------------------------------------------------
(* Time.  Here a run of maintenance sees the clock step a bounded number   *)
(* of times.                                                               *)

Older(r) ==
  IF r = Blank \/ r.age = MaxAge THEN r ELSE [r EXCEPT !.age = @ + 1]

Tick ==
  /\ maint.at # "idle" => maint.cutoff < MaxAge - 1
  /\ phase' = (phase + 1) % Day
  /\ purged' = {s \in purged : row[s].age + 1 < MaxAge}
  /\ row' = [s \in Slots |-> IF s \in purged \ purged' THEN Blank ELSE Older(row[s])]
  /\ maint' = IF maint.at = "idle" THEN maint ELSE [maint EXCEPT !.cutoff = @ + 1]
  /\ UNCHANGED <<queueVars, store, pool, restarts>>

-----------------------------------------------------------------------------
(* The writers.                                                            *)

\* Deviation: an unbounded channel.
AcceptUnbounded ==
  /\ pool # "down" /\ Room
  /\ \E ok \in BOOLEAN :
       row' = [row EXCEPT ![Fresh] = [table |-> "service", age |-> 0, ok |-> ok]]
  /\ channel' = Append(channel, Fresh)
  /\ UNCHANGED <<phase, batch, writer, store, purged, maint, pool, restarts>>

\* A check ends: its result has its time now and enters the channel.  With a
\* full channel try_send drops it.
Accept ==
  /\ pool # "down" /\ Room /\ Len(channel) < ChannelCap
  /\ \E ok \in BOOLEAN :
       row' = [row EXCEPT ![Fresh] = [table |-> "service", age |-> 0, ok |-> ok]]
  /\ channel' = Append(channel, Fresh)
  /\ UNCHANGED <<phase, batch, writer, store, purged, maint, pool, restarts>>

\* The writer selects between the channel ...
Receive ==
  /\ pool # "down" /\ writer = "select" /\ channel # <<>>
  /\ batch' = Append(batch, Head(channel))
  /\ channel' = Tail(channel)
  /\ writer' = IF Len(batch') >= BatchMax THEN "flushing" ELSE "select"
  /\ UNCHANGED <<phase, row, store, purged, maint, pool, restarts>>

\* Deviation: the interval flushes only a full batch.
FlushTickFullOnly ==
  /\ pool # "down" /\ writer = "select" /\ Len(batch) >= BatchMax
  /\ writer' = "flushing"
  /\ UNCHANGED <<phase, row, channel, batch, store, purged, maint, pool, restarts>>

\* ... and the flush interval.
FlushTick ==
  /\ pool # "down" /\ writer = "select" /\ batch # <<>>
  /\ writer' = "flushing"
  /\ UNCHANGED <<phase, row, channel, batch, store, purged, maint, pool, restarts>>

\* One INSERT of flush_batch.  An error loses the row and not the rest.
WriteOne ==
  /\ pool # "down" /\ writer = "flushing"
  /\ batch' = Tail(batch)
  /\ writer' = IF batch' = <<>> THEN "select" ELSE "flushing"
  /\ \/ pool = "open" /\ store' = store \cup {Head(batch)} /\ UNCHANGED row
     \/ Forget({Head(batch)}) /\ UNCHANGED store
  /\ UNCHANGED <<phase, channel, purged, maint, pool, restarts>>

\* report_system_state writes a row itself, at most one a minute, which is
\* shorter than any step of the clock.
Report ==
  /\ pool = "open" /\ Room
  /\ row' = [row EXCEPT ![Fresh] = [table |-> "server", age |-> 0, ok |-> TRUE]]
  /\ store' = store \cup {Fresh}
  /\ UNCHANGED <<phase, queueVars, purged, maint, pool, restarts>>

-----------------------------------------------------------------------------
(* Maintenance.                                                            *)

\* Deviation: the cutoff is a day short.
MaintStartEarly ==
  /\ pool # "down" /\ maint.at = "idle"
  /\ maint' = [at |-> "server", cutoff |-> (Retention - 1) * Day]
  /\ UNCHANGED <<phase, row, queueVars, store, purged, pool, restarts>>

\* The hourly interval fires; the cutoff is fixed for the whole run.
MaintStart ==
  /\ pool # "down" /\ maint.at = "idle"
  /\ maint' = [at |-> "server", cutoff |-> Retention * Day]
  /\ UNCHANGED <<phase, row, queueVars, store, purged, pool, restarts>>

\* Deviation: the break leaves the loop over the tables too.
NextTableNone == maint' = Idle

\* The loop over the tables.
NextTable ==
  maint' = IF maint.at = "server" THEN [maint EXCEPT !.at = "service"] ELSE Idle

Old == {s \in store : row[s].table = maint.at /\ row[s].age > maint.cutoff}

\* Those a DELETE with its LIMIT removes.
Batches == {S \in SUBSET Old : Cardinality(S) = Limit \/ (S = Old /\ Cardinality(S) < Limit)}

\* One DELETE; the loop goes on while it removes rows.
Purge ==
  /\ pool = "open" /\ maint.at # "idle"
  /\ \E gone \in Batches :
       /\ store' = store \ gone /\ purged' = purged \cup gone
       /\ IF gone = {} THEN NextTable ELSE UNCHANGED maint
  /\ UNCHANGED <<phase, row, queueVars, pool, restarts>>

\* A DELETE that fails ends the loop for its table.
PurgeFails ==
  /\ pool # "down" /\ maint.at # "idle"
  /\ NextTable
  /\ UNCHANGED <<phase, row, queueVars, store, purged, pool, restarts>>

-----------------------------------------------------------------------------
(* The process.                                                            *)

\* Shutdown closes the pool, without a word to the writer.
Close ==
  /\ pool = "open" /\ restarts < MaxRestarts
  /\ pool' = "closed"
  /\ UNCHANGED <<phase, row, queueVars, store, purged, maint, restarts>>

\* The process ends, after Close or by a kill, and its queues with it.
Exit ==
  /\ pool # "down" /\ restarts < MaxRestarts
  /\ pool' = "down" /\ restarts' = restarts + 1
  /\ Forget(Queued)
  /\ channel' = <<>> /\ batch' = <<>> /\ writer' = "select"
  /\ maint' = Idle
  /\ UNCHANGED <<phase, store, purged>>

Boot ==
  /\ pool = "down"
  /\ pool' = "open"
  /\ UNCHANGED <<phase, row, queueVars, store, purged, maint, restarts>>

-----------------------------------------------------------------------------
(* What the handlers read.                                                 *)

\* Midnights since a row of this age was made.
DaysAgo(age) == (age + Day - 1 - phase) \div Day

\* start = today - (Days - 1), at the time of day it is now.
StartAge == (Days - 1) * Day

\* Deviation: whole days since start, where start has a time of day.
IndexByDuration(s) == (StartAge - row[s].age) \div Day

\* (date - start.date()).num_days()
Index(s) == DaysAgo(StartAge) - DaysAgo(row[s].age)

Selected == {s \in store : row[s].table = "service" /\ row[s].age <= StartAge}

Count(S) ==
  [up   |-> Cardinality({s \in S : row[s].ok}),
   down |-> Cardinality({s \in S : ~row[s].ok})]

\* query_service_daily_stats
DailyStats ==
  [n \in 0..(Days - 1) |-> Count({s \in Selected : Index(s) = n})]

-----------------------------------------------------------------------------
WriterStep == Receive \/ FlushTick \/ WriteOne

Next ==
  \/ Tick \/ Accept \/ WriterStep \/ Report
  \/ MaintStart \/ Purge \/ PurgeFails
  \/ Close \/ Exit \/ Boot

Spec == Init /\ [][Next]_vars

\* The select polls its branches in random order; main returns once the pool
\* is closed, and a supervisor starts the process again; the interval keeps
\* firing.  DELETEs may fail, not all of them, and the index gives the rows of
\* a service or a server oldest first, so none is passed over for ever.
FairSpec ==
  /\ Spec
  /\ WF_vars(WriteOne) /\ SF_vars(Receive) /\ SF_vars(FlushTick)
  /\ WF_vars(pool # "open" /\ (Exit \/ Boot))
  /\ WF_vars(MaintStart \/ Purge \/ PurgeFails)
  /\ \A s \in Slots : SF_vars(Purge /\ s \in store /\ s \notin store')

-----------------------------------------------------------------------------
(* Properties.                                                             *)

(* A row that was stored is there until it is older than the retention,    *)
(* whatever maintenance, failing statements, shutdowns and restarts do     *)
(* meanwhile (sqlite.rs maintenance).                                      *)
RetentionKept ==
  [][\A s \in store : s \notin store' => row[s].age > Retention * Day]_vars

(* The statistics of a calendar day count every check stored with a time   *)
(* of that day, whenever it was stored and at whatever time of day they    *)
(* are asked for: all days but the oldest, which starts at that time of    *)
(* day, as far as the retention reaches (sqlite.rs                         *)
(* query_service_daily_stats).                                             *)
DailyStatsComplete ==
  \A d \in 0..(Days - 2) :
    d < Retention =>
      DailyStats[Days - 1 - d] =
        Count({s \in store \cup purged :
                 row[s].table = "service" /\ DaysAgo(row[s].age) = d})

(* A row older than the retention is deleted in the end, from either       *)
(* table, however small the batches and although single DELETEs fail.      *)
OldRowsGo ==
  \A s \in Slots :
    s \in store /\ row[s].age > Retention * Day ~> s \notin store

(* A result the channel accepted is handed to the database: none stays in  *)
(* a batch that never fills or behind a flush that never ends.             *)
AcceptedIsWritten == \A s \in Slots : s \in Queued ~> s \notin Queued

=============================================================================
