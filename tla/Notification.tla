------------------------------ MODULE Notification ------------------------------
(***************************************************************************)
(* The sending of alerts to webhooks (nezha-service/src/notification.rs)   *)
(* and the two tables that say where they go.                              *)
(*                                                                         *)
(*   alert task  one per round of checks that found alerts (alert.rs 208): *)
(*               calls send_notification for one alert after the other     *)
(*   notice      one per alert and webhook, a task that takes one of the   *)
(*               permits and keeps it through all its calls and delays     *)
(*   admins      the handlers of notifications and notification groups     *)
(*                                                                         *)
(* Nothing is stored about an alert: a restart forgets all of them, and    *)
(* the model is of one life of the process.  The delays of the retries (1  *)
(* and 3 s) and the timeout of a call (30 s) are not counted; that they    *)
(* pass is the fairness of the notices.                                    *)
(***************************************************************************)
EXTENDS Integers, SequencesExt

CONSTANTS
  Urls,          \* where webhooks are
  DeadUrls,      \* those where no call succeeds
  Lists,         \* the members a group can have: sequences of ids
  Junk,          \* members that are not a list of ids
  Permits,       \* NOTIFY_SEMAPHORE, 16 in the code
  InitialHooks,  \* the table `notifications`: urls in the order of their ids
  InitialGroups, \* the table `notification_groups`: members, in that order
  AlertLists,    \* bound: the groups of the alerts of one round
  MaxAlerts,     \* bound: alerts of one round
  MaxTasks,      \* bound: rounds with alerts
  MaxRows,       \* bound: ids of webhooks, and of groups
  MaxEdits,      \* bound: changes of the two tables
  MaxFaults,     \* bound: statements the database fails
  MaxGlitches    \* bound: failing calls of live webhooks

Ids        == 1..MaxRows
Positions  == 1..MaxAlerts
MaxNotices == MaxTasks * MaxAlerts * MaxRows

\* "At most 3 times", says send_webhook_with_retry of its calls.
Tries == 3

\* Functions from some of the ids to S.
Table(S) == UNION {[J -> S] : J \in SUBSET Ids}
Members  == Lists \cup {Junk}

ASSUME NotificationAssumption ==
  /\ DeadUrls \subseteq Urls
  /\ Lists \subseteq Seq(Ids) /\ <<>> \in Lists /\ Junk \notin Lists
  /\ Permits \in Nat \ {0}
  /\ InitialHooks \in Seq(Urls) /\ Len(InitialHooks) <= MaxRows
  /\ InitialGroups \in Seq(Members) /\ Len(InitialGroups) <= MaxRows
  /\ AlertLists \subseteq Seq(Ids)
  /\ \A alerts \in AlertLists : Len(alerts) \in Positions
  /\ {MaxTasks, MaxAlerts, MaxRows, MaxEdits, MaxFaults, MaxGlitches} \subseteq Nat

VARIABLES
  hooks,     \* the table notifications
  groups,    \* the table notification_groups
  lastHook, lastGroup,  \* their AUTOINCREMENT counters
  tasks,     \* the alert tasks, in the order they were spawned
  notices,   \* the notices, in the order they were spawned
  queue,     \* notices that wait for a permit: a fair semaphore
  permits,   \* free permits
  edits, faults, glitches,
  owed       \* history: a webhook is owed an alert, <<task, position, hook>>

tables == <<hooks, groups, lastHook, lastGroup>>
vars   == <<tables, tasks, notices, queue, permits, edits, faults, glitches, owed>>

\* The members of group g: none without a row, or if they cannot be parsed.
MemberList(g) ==
  IF g \in DOMAIN groups /\ groups[g] # Junk THEN groups[g] ELSE <<>>

StatementFails ==
  /\ faults < MaxFaults
  /\ faults' = faults + 1

Spawned(o) ==
  \E n \in DOMAIN notices : notices[n].alert = <<o[1], o[2]>> /\ notices[n].hook = o[3]

\* What is in S and was not sent yet is owed no longer.
Excuse(S) == owed' = {o \in owed : o \notin S \/ Spawned(o)}

Init ==
  /\ hooks = InitialHooks
  /\ groups = InitialGroups
  /\ lastHook = Len(InitialHooks)
  /\ lastGroup = Len(InitialGroups)
  /\ tasks = <<>>
  /\ notices = <<>>
  /\ queue = <<>>
  /\ permits = Permits
  /\ edits = 0 /\ faults = 0 /\ glitches = 0
  /\ owed = {}

-----------------------------------------------------------------------------
(* The alert tasks.                                                        *)

\* check_all has alerts, and spawns a task that sends them.
Raise(alerts) ==
  /\ Len(tasks) < MaxTasks
  /\ tasks' = Append(tasks, [alerts |-> alerts, next |-> 1, ids |-> <<>>])
  /\ owed' = owed \cup
       {o \in {Len(tasks) + 1} \X (DOMAIN alerts) \X (DOMAIN hooks) :
          o[3] \in ToSet(MemberList(alerts[o[2]])) /\ hooks[o[3]] \notin DeadUrls}
  /\ UNCHANGED <<tables, notices, queue, permits, edits, faults, glitches>>

\* The alert that t sends is done with.
NextAlert(t) == tasks' = [tasks EXCEPT ![t].next = @ + 1, ![t].ids = <<>>]

\* What is owed of the alert that t is sending.
Current(t) == {o \in owed : o[1] = t /\ o[2] = tasks[t].next}

\* The SELECT of the group: without a row or without members, nothing is sent.
SelectGroup(t) ==
  /\ tasks[t].next \in DOMAIN tasks[t].alerts
  /\ tasks[t].ids = <<>>
  /\ \/ LET ids == MemberList(tasks[t].alerts[tasks[t].next]) IN
          /\ IF ids = <<>> THEN NextAlert(t) ELSE tasks' = [tasks EXCEPT ![t].ids = ids]
          /\ UNCHANGED <<faults, owed>>
     \/ /\ StatementFails
        /\ NextAlert(t)
        /\ Excuse(Current(t))
  /\ UNCHANGED <<tables, notices, queue, permits, edits, glitches>>

Notice(t, h) ==
  [alert |-> <<t, tasks[t].next>>, hook |-> h, url |-> hooks[h],
   step |-> "spawned", failed |-> 0, heard |-> 0]

\* Deviation: a notice for each member that has a row, listed twice or not.
SelectedOneByOne(ids) == SelectSeq(ids, LAMBDA h : h \in DOMAIN hooks)

\* The rows of `id IN (ids)`.
Selected(ids) == SetToSeq(ToSet(ids) \cap DOMAIN hooks)

\* The SELECT of the webhooks, which spawns a notice for each row.
SelectHooks(t) ==
  /\ tasks[t].ids # <<>>
  /\ NextAlert(t)
  /\ \/ /\ LET rows == Selected(tasks[t].ids) IN
             notices' = notices \o [n \in DOMAIN rows |-> Notice(t, rows[n])]
        /\ UNCHANGED <<faults, owed>>
     \/ /\ StatementFails
        /\ Excuse(Current(t))
        /\ UNCHANGED notices
  /\ UNCHANGED <<tables, queue, permits, edits, glitches>>

-----------------------------------------------------------------------------
(* The notices.                                                            *)

\* acquire: a free permit, or a place in the queue.
Acquire(n) ==
  /\ notices[n].step = "spawned"
  /\ IF permits > 0
       THEN /\ permits' = permits - 1
            /\ notices' = [notices EXCEPT ![n].step = "sending"]
            /\ UNCHANGED queue
       ELSE /\ queue' = Append(queue, n)
            /\ notices' = [notices EXCEPT ![n].step = "waiting"]
            /\ UNCHANGED permits
  /\ UNCHANGED <<tables, tasks, edits, faults, glitches, owed>>

\* Deviation: the first attempt is not counted.
AttemptsAfterFirst == 4

\* The length of `delays`.
Attempts == 3

\* n ends as `last`; its permit goes to the first that waits.
End(n, last) ==
  IF queue = <<>>
    THEN /\ notices' = [notices EXCEPT ![n] = last]
         /\ permits' = permits + 1
         /\ UNCHANGED queue
    ELSE /\ notices' = [notices EXCEPT ![n] = last, ![Head(queue)].step = "sending"]
         /\ queue' = Tail(queue)
         /\ UNCHANGED permits

\* Deviation: a call that was answered well does not end the attempts.
CallSucceedsAndGoesOn(n) ==
  /\ notices[n].step = "sending"
  /\ notices[n].url \notin DeadUrls
  /\ notices[n].heard < Tries
  /\ notices' = [notices EXCEPT ![n].heard = @ + 1]
  /\ UNCHANGED <<tables, tasks, queue, permits, edits, faults, glitches, owed>>

\* A 2xx or 3xx answer.
CallSucceeds(n) ==
  /\ notices[n].step = "sending"
  /\ notices[n].url \notin DeadUrls
  /\ End(n, [notices[n] EXCEPT !.step = "sent", !.heard = @ + 1])
  /\ UNCHANGED <<tables, tasks, edits, faults, glitches, owed>>

\* Deviation: the permit of a notice that is given up stays taken.
CallFailsKeepingPermit(n) ==
  /\ notices[n].step = "sending"
  /\ notices[n].url \in DeadUrls
  /\ LET failed == notices[n].failed + 1 IN
       notices' = [notices EXCEPT ![n].failed = failed,
                                  ![n].step = IF failed = Attempts THEN "lost" ELSE @]
  /\ UNCHANGED <<tables, tasks, queue, permits, edits, faults, glitches, owed>>

\* Any other answer, none in time, or no connection.  The webhook has heard
\* of the alert or not, and is called again unless that was the last time.
CallFails(n) ==
  /\ notices[n].step = "sending"
  /\ IF notices[n].url \in DeadUrls
       THEN UNCHANGED glitches
       ELSE glitches < MaxGlitches /\ glitches' = glitches + 1
  /\ \E heard \in {0, 1} :
       LET after == [notices[n] EXCEPT !.failed = @ + 1, !.heard = @ + heard]
       IN  IF after.failed = Attempts
             THEN End(n, [after EXCEPT !.step = "lost"])
             ELSE /\ notices' = [notices EXCEPT ![n] = after]
                  /\ UNCHANGED <<queue, permits>>
  /\ UNCHANGED <<tables, tasks, edits, faults, owed>>

-----------------------------------------------------------------------------
(* The handlers.  Each is one statement for each row it names; one that    *)
(* fails changes nothing, and of an UPDATE or a DELETE nobody is told.     *)

Edit ==
  /\ edits < MaxEdits
  /\ edits' = edits + 1
  /\ UNCHANGED <<tasks, notices, queue, permits, faults, glitches>>

\* create.
CreateHook(u) ==
  /\ Edit
  /\ lastHook < MaxRows
  /\ lastHook' = lastHook + 1
  /\ hooks' = [h \in DOMAIN hooks \cup {lastHook'} |-> IF h = lastHook' THEN u ELSE hooks[h]]
  /\ UNCHANGED <<groups, lastGroup, owed>>

\* update, with a url in the body.
UpdateHook(h, u) ==
  /\ Edit
  /\ h \in DOMAIN hooks
  /\ hooks' = [hooks EXCEPT ![h] = u]
  /\ Excuse({o \in owed : o[3] = h})
  /\ UNCHANGED <<groups, lastHook, lastGroup>>

\* One id of batch_delete.  The groups keep the id as a member.
DeleteHook(h) ==
  /\ Edit
  /\ hooks' = [i \in DOMAIN hooks \ {h} |-> hooks[i]]
  /\ Excuse({o \in owed : o[3] = h})
  /\ UNCHANGED <<groups, lastHook, lastGroup>>

\* What the body of a request has under "notifications": an absent key is an
\* empty list, and anything else is stored as it is.
Stored(body) == IF "notifications" \in DOMAIN body THEN body.notifications ELSE <<>>

\* create_notification_group.
CreateGroup(body) ==
  /\ Edit
  /\ lastGroup < MaxRows
  /\ lastGroup' = lastGroup + 1
  /\ groups' = [g \in DOMAIN groups \cup {lastGroup'} |->
                  IF g = lastGroup' THEN Stored(body) ELSE groups[g]]
  /\ UNCHANGED <<hooks, lastHook, owed>>

\* The alerts that are owed to members of group g.
OwedBy(g) == {o \in owed : tasks[o[1]].alerts[o[2]] = g}

\* update_notification_group: a body without the list empties the group.
UpdateGroup(g, body) ==
  /\ Edit
  /\ g \in DOMAIN groups
  /\ groups' = [groups EXCEPT ![g] = Stored(body)]
  /\ Excuse(OwedBy(g))
  /\ UNCHANGED <<hooks, lastHook, lastGroup>>

\* One id of batch_delete_notification_group.
DeleteGroup(g) ==
  /\ Edit
  /\ groups' = [i \in DOMAIN groups \ {g} |-> groups[i]]
  /\ Excuse(OwedBy(g))
  /\ UNCHANGED <<hooks, lastHook, lastGroup>>

-----------------------------------------------------------------------------
AlertTask(t) == SelectGroup(t) \/ SelectHooks(t)
NoticeTask(n) == Acquire(n) \/ CallSucceeds(n) \/ CallFails(n)

Bodies == {[name |-> "n"]} \cup [notifications : Members]

Admin ==
  \/ \E u \in Urls : CreateHook(u) \/ \E h \in DOMAIN hooks : UpdateHook(h, u)
  \/ \E h \in DOMAIN hooks : DeleteHook(h)
  \/ \E body \in Bodies : CreateGroup(body) \/ \E g \in DOMAIN groups : UpdateGroup(g, body)
  \/ \E g \in DOMAIN groups : DeleteGroup(g)

Next ==
  \/ \E alerts \in AlertLists : Raise(alerts)
  \/ \E t \in DOMAIN tasks : AlertTask(t)
  \/ \E n \in DOMAIN notices : NoticeTask(n)
  \/ Admin

\* Tasks are polled, statements return, and a call ends in its 30 seconds.
Fairness ==
  /\ \A t \in 1..MaxTasks : WF_vars(t \in DOMAIN tasks /\ AlertTask(t))
  /\ \A n \in 1..MaxNotices : WF_vars(n \in DOMAIN notices /\ NoticeTask(n))

Spec     == Init /\ [][Next]_vars
FairSpec == Spec /\ Fairness

-----------------------------------------------------------------------------
NoticeSet ==
  [alert : (1..MaxTasks) \X Nat, hook : Ids, url : Urls,
   step : {"spawned", "waiting", "sending", "sent", "lost"},
   failed : 0..Tries, heard : 0..Tries]

\* No permit is lost or made up: each is free or with one notice that is
\* calling, none is free while a notice waits, and those that wait are in the
\* queue, once.
PermitsAccounted ==
  /\ permits + Cardinality({n \in DOMAIN notices : notices[n].step = "sending"}) = Permits
  /\ queue # <<>> => permits = 0
  /\ ToSet(queue) = {n \in DOMAIN notices : notices[n].step = "waiting"}
  /\ IsInjective(queue)

TypeOK ==
  /\ hooks \in Table(Urls) /\ DOMAIN hooks \subseteq 1..lastHook
  /\ groups \in Table(Members) /\ DOMAIN groups \subseteq 1..lastGroup
  /\ lastHook \in 0..MaxRows /\ lastGroup \in 0..MaxRows
  /\ tasks \in Seq([alerts : AlertLists, next : Nat, ids : Lists])
  /\ notices \in Seq(NoticeSet)
  /\ queue \in Seq(DOMAIN notices)
  /\ permits \in 0..Permits
  /\ {edits, faults, glitches} \subseteq Nat
  /\ owed \subseteq (1..MaxTasks) \X Nat \X Ids
  /\ PermitsAccounted

(* A webhook hears of an alert once, and once more for each call that      *)
(* failed, be it a member of the group twice.                              *)
HeardOnce ==
  /\ \A m, n \in DOMAIN notices :
       notices[m].alert = notices[n].alert /\ notices[m].hook = notices[n].hook => m = n
  /\ \A n \in DOMAIN notices :
       notices[n].heard <= notices[n].failed + (IF notices[n].step = "sent" THEN 1 ELSE 0)

(* An alert reaches every working webhook of its group, although others    *)
(* are dead and hold permits through their retries, although the webhook   *)
(* itself fails twice, and whatever happens to the tables after it was     *)
(* read.                                                                   *)
Reached(o) ==
  \E n \in DOMAIN notices :
    /\ notices[n].alert = <<o[1], o[2]>> /\ notices[n].hook = o[3]
    /\ notices[n].step = "sent"

AlertsReachLiveHooks ==
  \A o \in (1..MaxTasks) \X Positions \X Ids :
    o \in owed ~> Reached(o) \/ o \notin owed
=============================================================================
