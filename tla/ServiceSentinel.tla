--------------------------- MODULE ServiceSentinel ---------------------------
(***************************************************************************)
(* The service monitor (nezha-service/src/sentinel.rs): a scheduler that   *)
(* every 5 s spawns a check task for each service that is due, check tasks *)
(* that wait for one of the semaphore's permits, update the service in     *)
(* memory and hand the result to a bounded channel.  Administrators        *)
(* create, edit and delete services meanwhile (handlers/service.rs).  The  *)
(* writer at the other end of the channel is in MetricsStore; here it      *)
(* takes results when it likes, if ever.                                   *)
(*                                                                         *)
(* Time is counted in scheduler ticks.  A service is due when `Interval`   *)
(* ticks have passed since its last_check, which a check sets when it ENDS.*)
(***************************************************************************)
EXTENDS Integers, Sequences, FiniteSets

CONSTANTS
  Services,    \* ids of services; an id is used once
  Initial,     \* those load_services finds in the table
  Targets,     \* what a service can point at
  Interval,    \* ticks of 5 s in a service's duration, rounded up
  Permits,     \* the semaphore (64 in the code)
  ChannelCap,  \* of the channel to the writer (2048)
  MaxWaiting   \* bound: tasks spawned and without a permit

ASSUME SentinelAssumption ==
  /\ IsFiniteSet(Services) /\ Initial \subseteq Services
  /\ Interval \in Nat \ {0}
  /\ ChannelCap \in Nat \ {0} /\ MaxWaiting \in Nat

VARIABLES
  svc,      \* AppState.services: state, target, age of last_check, status
  healthy,  \* whether a target answers
  waiting,  \* the semaphore's FIFO of spawned tasks
  running,  \* the task that holds each permit
  backlog   \* results in the channel to the writer

vars == <<svc, healthy, waiting, running, backlog>>

Ages   == 0..Interval     \* Interval: due; also a service never checked
Status == {"unknown", "up", "down"}
Free   == [stage |-> "free"]
Task   == [svc : Services, target : Targets]

TypeOK ==
  /\ svc \in [Services -> [state : {"new", "on", "deleted"}, target : Targets,
                           age : Ages, status : Status]]
  /\ healthy \in [Targets -> BOOLEAN]
  /\ waiting \in Seq(Task) /\ Len(waiting) <= MaxWaiting
  /\ running \in [Permits -> {Free}
       \cup [stage : {"checking"}, svc : Services, target : Targets]
       \cup [stage : {"record", "send"}, svc : Services, ok : BOOLEAN]]
  /\ backlog \in 0..ChannelCap

Init ==
  /\ \E t \in Targets :
       svc = [s \in Services |->
                [state |-> IF s \in Initial THEN "on" ELSE "new",
                 target |-> t, age |-> Interval, status |-> "unknown"]]
  /\ healthy \in [Targets -> BOOLEAN]
  /\ waiting = <<>>
  /\ running = [p \in Permits |-> Free]
  /\ backlog = 0

-----------------------------------------------------------------------------
(* The scheduler: one tick of the 5 s interval.                            *)

Older(n) == IF n < Interval THEN n + 1 ELSE n
Due == {s \in Services : svc[s].state = "on" /\ Older(svc[s].age) = Interval}

\* Every way to put the tasks of one tick in the semaphore's queue.
Orders(S) == {q \in [1..Cardinality(S) -> S] : \A s \in S : \E n \in DOMAIN q : q[n] = s}

\* Each due service is cloned into a task of its own, whether or not an
\* earlier task for it has ended.
Tick ==
  /\ svc' = [s \in Services |-> [svc[s] EXCEPT !.age = Older(@)]]
  /\ \E q \in Orders(Due) :
       waiting' = waiting \o [n \in DOMAIN q |-> [svc |-> q[n], target |-> svc[q[n]].target]]
  /\ Len(waiting') <= MaxWaiting
  /\ UNCHANGED <<healthy, running, backlog>>

-----------------------------------------------------------------------------
(* A check task.                                                           *)

Acquire(p) ==
  /\ running[p] = Free
  /\ waiting # <<>>
  /\ running' = [running EXCEPT ![p] =
       [stage |-> "checking", svc |-> Head(waiting).svc, target |-> Head(waiting).target]]
  /\ waiting' = Tail(waiting)
  /\ UNCHANGED <<svc, healthy, backlog>>

\* check_http / check_tcp / check_icmp: an answer, an error, or the timeout.
Check(p) ==
  /\ running[p].stage = "checking"
  /\ running' = [running EXCEPT ![p] =
       [stage |-> "record", svc |-> @.svc, ok |-> healthy[@.target]]]
  /\ UNCHANGED <<svc, healthy, waiting, backlog>>

\* Deviation: services.insert, which brings a deleted service back.
RecordByInsert(p) ==
  /\ running[p].stage = "record"
  /\ LET r == running[p] IN
       svc' = [svc EXCEPT ![r.svc].state = "on", ![r.svc].age = 0,
                          ![r.svc].status = IF r.ok THEN "up" ELSE "down"]
  /\ running' = [running EXCEPT ![p].stage = "send"]
  /\ UNCHANGED <<healthy, waiting, backlog>>

\* Deviation: a failed check leaves the memory as it was.
RecordSuccessOnly(p) ==
  /\ running[p].stage = "record"
  /\ LET r == running[p] IN
       svc' = IF svc[r.svc].state = "on"
                THEN [svc EXCEPT ![r.svc].age = 0,
                                 ![r.svc].status = IF r.ok THEN "up" ELSE @]
                ELSE svc
  /\ running' = [running EXCEPT ![p].stage = "send"]
  /\ UNCHANGED <<healthy, waiting, backlog>>

\* services.get_mut: last_check, current_up/current_down and delay together,
\* if the service is still there.
Record(p) ==
  /\ running[p].stage = "record"
  /\ LET r == running[p] IN
       svc' = IF svc[r.svc].state = "on"
                THEN [svc EXCEPT ![r.svc].age = 0,
                                 ![r.svc].status = IF r.ok THEN "up" ELSE "down"]
                ELSE svc
  /\ running' = [running EXCEPT ![p].stage = "send"]
  /\ UNCHANGED <<healthy, waiting, backlog>>

\* Deviation: send().await holds the permit until there is room.
SendBlocking(p) ==
  /\ running[p].stage = "send"
  /\ backlog < ChannelCap
  /\ backlog' = backlog + 1
  /\ running' = [running EXCEPT ![p] = Free]
  /\ UNCHANGED <<svc, healthy, waiting>>

\* Deviation: an unbounded channel.
SendUnbounded(p) ==
  /\ running[p].stage = "send"
  /\ backlog' = backlog + 1
  /\ running' = [running EXCEPT ![p] = Free]
  /\ UNCHANGED <<svc, healthy, waiting>>

\* try_send: a full channel drops the result.  The task ends and its permit
\* goes back.
TrySend(p) ==
  /\ running[p].stage = "send"
  /\ backlog' = IF backlog < ChannelCap THEN backlog + 1 ELSE backlog
  /\ running' = [running EXCEPT ![p] = Free]
  /\ UNCHANGED <<svc, healthy, waiting>>

\* The batch writer takes a result.
Receive ==
  /\ backlog > 0
  /\ backlog' = backlog - 1
  /\ UNCHANGED <<svc, healthy, waiting, running>>

-----------------------------------------------------------------------------
(* Administrators and the world.                                           *)

\* create: after its INSERT, services.insert of a service never checked.
Create(s, t) ==
  /\ svc[s].state = "new"
  /\ svc' = [svc EXCEPT ![s] = [state |-> "on", target |-> t,
                                age |-> Interval, status |-> "unknown"]]
  /\ UNCHANGED <<healthy, waiting, running, backlog>>

\* update: after its UPDATE, get_mut; last_check and status stay.
Retarget(s, t) ==
  /\ svc[s].state = "on"
  /\ svc' = [svc EXCEPT ![s].target = t]
  /\ UNCHANGED <<healthy, waiting, running, backlog>>

\* batch_delete: services.remove, then its DELETE.
Delete(s) ==
  /\ svc[s].state = "on"
  /\ svc' = [svc EXCEPT ![s].state = "deleted"]
  /\ UNCHANGED <<healthy, waiting, running, backlog>>

TargetFlips(t) ==
  /\ healthy' = [healthy EXCEPT ![t] = ~@]
  /\ UNCHANGED <<svc, waiting, running, backlog>>

-----------------------------------------------------------------------------
TaskStep(p) == Acquire(p) \/ Check(p) \/ Record(p) \/ TrySend(p)

AdminStep ==
  \E s \in Services : Delete(s) \/ \E t \in Targets : Create(s, t) \/ Retarget(s, t)

Next ==
  \/ Tick
  \/ \E p \in Permits : TaskStep(p)
  \/ Receive
  \/ AdminStep
  \/ \E t \in Targets : TargetFlips(t)

Spec == Init /\ [][Next]_vars

\* The interval fires for ever (strongly fair: MaxWaiting may hold a tick
\* back until a task ends) and every check ends within its timeout.  Nothing
\* obliges the writer, which may hang on the database.
FairSpec == Spec /\ SF_vars(Tick) /\ \A p \in Permits : WF_vars(TaskStep(p))

-----------------------------------------------------------------------------
(* A check that ends after its service was deleted does not bring the      *)
(* service back.                                                           *)
DeletedStaysDeleted ==
  [][\A s \in Services : svc[s].state = "deleted" => svc'[s].state = "deleted"]_vars

(* A service that is due is checked, however many checks are under way and *)
(* even if the time-series database never takes a result: nothing the      *)
(* writer does holds a permit.                                             *)
DueIsChecked ==
  \A s \in Services :
    svc[s].state = "on" /\ svc[s].age = Interval
      ~> svc[s].state = "deleted" \/ svc[s].age < Interval

(* Once a service keeps its target and the target its health, the status   *)
(* shown is the right one for ever: a late result of an earlier check or   *)
(* of an earlier target does not stick.                                    *)
StatusConverges ==
  \A s \in Services, t \in Targets, h \in BOOLEAN :
    <>[](svc[s].state = "on" /\ svc[s].target = t /\ healthy[t] = h)
      => <>[](svc[s].status = IF h THEN "up" ELSE "down")

=============================================================================
