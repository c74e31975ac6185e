---------------------------------- MODULE Cron ----------------------------------
(***************************************************************************)
(* Scheduled tasks: the loop of CronManager (nezha-service/src/cron.rs),   *)
(* which reads the table `crons` every minute, and the handlers that write *)
(* it (handlers/cron.rs).                                                  *)
(*                                                                         *)
(* The SELECT of the loop names a column `servers`; the table has          *)
(* `servers_raw` (nezha-core/src/db.rs).  The columns of the table are a   *)
(* constant: the rest of the loop is here as the code has it, although     *)
(* with the table of db.rs it is never reached.                            *)
(***************************************************************************)
EXTENDS Integers, FiniteSets

CONSTANTS
  Columns,    \* the columns of the table crons
  Servers,    \* ids of servers
  Forms,      \* bound: what admins create, and put in an update: a scheduler
              \* of the kinds below, and servers that are in Servers
  Modulus,    \* 2^32: the factors of "@every" are multiplied as u32
  Horizon,    \* bound: the minutes the clock counts before it starts again
  MaxRows,    \* bound: crons ever created
  MaxEdits    \* bound: updates and deletions

Ids == 1..MaxRows

\* "@every nm" and "@every nh"; a cron expression, of which the minute and
\* the hour are read, -1 for "*".  Any other text never runs (false).
Every      == [every : Nat, unit : {60, 3600}]
Expression == [minute : -1..59, hour : -1..23]

Command == 0  \* task_type
Http    == 1

VARIABLES
  crons,    \* the table: forms by id
  nextId,   \* its AUTOINCREMENT counter
  update,   \* the update handler that is between two of its statements
  edits,
  minute,   \* the clock
  ticks,    \* ticks of the interval that are due
  loop,     \* where the loop is
  senders,  \* task_senders: an open channel, a closed one, or none
  ran       \* history: the crons the loop has executed

vars == <<crons, nextId, update, edits, minute, ticks, loop, senders, ran>>

NoUpdate == [step |-> "none"]
Waiting  == [at |-> "interval"]

Init ==
  /\ crons = [i \in {} |-> NoUpdate]
  /\ nextId = 1
  /\ update = NoUpdate
  /\ edits = 0
  /\ minute = 0 /\ ticks = 1
  /\ loop = Waiting
  /\ senders = [s \in Servers |-> "none"]
  /\ ran = {}

-----------------------------------------------------------------------------
(* The handlers: create; update, one statement for each field; batch       *)
(* deletion, one statement for each id.  manual_trigger does nothing.      *)

Create(f) ==
  /\ nextId <= MaxRows
  /\ crons' = [i \in DOMAIN crons \cup {nextId} |-> IF i = nextId THEN f ELSE crons[i]]
  /\ nextId' = nextId + 1
  /\ UNCHANGED <<update, edits, minute, ticks, loop, senders, ran>>

Edited == edits < MaxEdits /\ edits' = edits + 1

UpdateStart(i, f) ==
  /\ Edited
  /\ update = NoUpdate
  /\ update' = [step |-> "scheduler", id |-> i, form |-> f]
  /\ UNCHANGED <<crons, nextId, minute, ticks, loop, senders, ran>>

\* The error of a statement is dropped, and the next one runs.
UpdateField(field, next) ==
  /\ update.step = field
  /\ \/ /\ update.id \in DOMAIN crons
        /\ crons' = [crons EXCEPT ![update.id][field] = update.form[field]]
     \/ UNCHANGED crons
  /\ update' = next
  /\ UNCHANGED <<nextId, edits, minute, ticks, loop, senders, ran>>

Update ==
  \/ UpdateField("scheduler", [update EXCEPT !.step = "command"])
  \/ UpdateField("command", NoUpdate)

Delete(i) ==
  /\ Edited
  /\ crons' = [j \in DOMAIN crons \ {i} |-> crons[j]]
  /\ UNCHANGED <<nextId, update, minute, ticks, loop, senders, ran>>

-----------------------------------------------------------------------------
(* should_run.                                                             *)

\* The divisor of "@every": the loop panics if it is 0.
Period(s) == (s.every * s.unit) % Modulus

Panics(s) == s \in Every /\ Period(s) = 0

ShouldRun(s, now) ==
  \/ s \in Every /\ Period(s) # 0 /\ (now * 60) % Period(s) < 60
  \/ s \in Expression /\ s.minute \in {-1, now % 60}
                      /\ s.hour \in {-1, (now \div 60) % 24}

-----------------------------------------------------------------------------
(* The loop.                                                               *)

Minute ==
  /\ minute' = (minute + 1) % Horizon
  /\ ticks' = IF ticks < 2 THEN ticks + 1 ELSE ticks
  /\ UNCHANGED <<crons, nextId, update, edits, loop, senders, ran>>

Read == {"id", "name", "task_type", "scheduler", "command", "servers", "cover",
         "notification_group_id", "push_successful"}

\* The SELECT: a column that is not there is an error, and an error no rows.
Select ==
  /\ loop = Waiting /\ ticks > 0
  /\ ticks' = ticks - 1
  /\ loop' = IF Read \subseteq Columns
               THEN [at |-> "rows", rows |-> crons, now |-> minute] ELSE loop
  /\ UNCHANGED <<crons, nextId, update, edits, minute, senders, ran>>

\* The rows of this tick, the one at hand, and what is left of its servers.
Targets(f) == IF f.cover = 1 THEN f.servers ELSE Servers \ f.servers

Row == CHOOSE i \in DOMAIN loop.rows : \A j \in DOMAIN loop.rows : i <= j
Rest == [loop EXCEPT !.at = "rows", !.rows = [i \in DOMAIN loop.rows \ {Row} |-> loop.rows[i]]]

NextRow ==
  /\ loop.at = "rows"
  /\ IF DOMAIN loop.rows = {} THEN loop' = Waiting
     ELSE LET f == loop.rows[Row] IN
       loop' = CASE Panics(f.scheduler) -> [at |-> "dead"]
                 [] ~ShouldRun(f.scheduler, loop.now) -> Rest
                 [] f.task_type = Command ->
                      [at |-> "dispatch", rows |-> loop.rows, now |-> loop.now,
                       left |-> Targets(f)]
                 [] f.task_type = Http -> [loop EXCEPT !.at = "callback"]
                 [] OTHER -> [loop EXCEPT !.at = "record"]
  /\ UNCHANGED <<crons, nextId, update, edits, minute, ticks, senders, ran>>

\* dispatch_command: one server.  On a closed channel, remove waits for the
\* reference that get returned, which the loop itself holds.
Dispatch(s) ==
  /\ loop.at = "dispatch" /\ s \in loop.left
  /\ loop' = IF senders[s] = "closed" THEN [at |-> "stuck"]
                                      ELSE [loop EXCEPT !.left = @ \ {s}]
  /\ UNCHANGED <<crons, nextId, update, edits, minute, ticks, senders, ran>>

\* The last server, or http_callback: an answer, an error or the timeout.
Executed ==
  /\ \/ loop.at = "dispatch" /\ loop.left = {}
     \/ loop.at = "callback"
  /\ loop' = [at |-> "record", rows |-> loop.rows, now |-> loop.now]
  /\ UNCHANGED <<crons, nextId, update, edits, minute, ticks, senders, ran>>

\* UPDATE of last_executed_at.
Record ==
  /\ loop.at = "record"
  /\ ran' = ran \cup {Row}
  /\ loop' = Rest
  /\ UNCHANGED <<crons, nextId, update, edits, minute, ticks, senders>>

Agent(s, sender) ==
  /\ loop.at # "stuck"
  /\ senders' = [senders EXCEPT ![s] = sender]
  /\ UNCHANGED <<crons, nextId, update, edits, minute, ticks, loop, ran>>

-----------------------------------------------------------------------------
LoopStep == Select \/ NextRow \/ (\E s \in Servers : Dispatch(s)) \/ Executed \/ Record

Next ==
  \/ \E f \in Forms : Create(f) \/ \E i \in Ids : UpdateStart(i, f)
  \/ Update
  \/ \E i \in Ids : Delete(i)
  \/ Minute \/ LoopStep
  \/ \E s \in Servers, sender \in {"open", "closed", "none"} : Agent(s, sender)

\* Time passes, statements return without a fault of the database, calls end.
Spec == Init /\ [][Next]_vars /\ WF_vars(Minute) /\ WF_vars(LoopStep)

-----------------------------------------------------------------------------
(* "Each minute a tick checks the tasks that have to be executed"          *)
(* (cron.rs:30): a cron that is always due and stays in the table runs.    *)
AlwaysDue(f) == \A now \in 0..(Horizon - 1) : ShouldRun(f.scheduler, now)

AlwaysDueRuns ==
  \A i \in Ids : <>[](i \in DOMAIN crons /\ AlwaysDue(crons[i])) => <>(i \in ran)
=============================================================================
