--------------------------- MODULE NotificationProofs ---------------------------
(***************************************************************************)
(* The sending of alerts for any number of alerts, webhooks and permits.   *)
(* An alert task sends the alert that is next and never comes back to one, *)
(* and a SELECT gives each row once: so no webhook has two notices of one  *)
(* alert.  A notice that is calling holds a permit, and passes it on when  *)
(* it ends to the notice that has waited longest.  An alert a webhook has  *)
(* to hear of is with the task or with a notice, and is not dropped.       *)
(*                                                                         *)
(* The last part is about the alert loop that raises the alerts: its table *)
(* of last firings knows how long each rule has been quiet for a server,   *)
(* and cleaning drops only what no comparison needs.                       *)
(***************************************************************************)
EXTENDS Notification, FiniteSetTheorems, TLAPS

Sending == {n \in DOMAIN notices : notices[n].step = "sending"}
Waiting == {n \in DOMAIN notices : notices[n].step = "waiting"}

(* The parts of TypeOK.                                                    *)
TablesTyped ==
  /\ hooks \in Table(Urls) /\ DOMAIN hooks \subseteq 1..lastHook
  /\ groups \in Table(Members) /\ DOMAIN groups \subseteq 1..lastGroup
  /\ lastHook \in 0..MaxRows /\ lastGroup \in 0..MaxRows

TaskSet    == [alerts : AlertLists, next : Nat, ids : Lists]
TasksTyped == tasks \in Seq(TaskSet)

NoticesTyped == notices \in Seq(NoticeSet)

QueueTyped == queue \in Seq(DOMAIN notices) /\ permits \in 0..Permits

CountersTyped == {edits, faults, glitches} \subseteq Nat

OwedTyped == owed \subseteq (1..MaxTasks) \X Nat \X Ids

(* The alert of a notice is one its task is done with.                     *)
Behind ==
  \A n \in DOMAIN notices :
    /\ notices[n].alert[1] \in DOMAIN tasks
    /\ notices[n].alert[2] < tasks[notices[n].alert[1]].next

(* A notice that goes on has an attempt left, and its webhook heard of the *)
(* alert in calls that failed.                                             *)
AttemptLeft ==
  \A n \in DOMAIN notices : notices[n].step \in {"spawned", "waiting", "sending"} =>
    notices[n].failed < Attempts /\ notices[n].heard <= notices[n].failed

TasksBounded == Len(tasks) <= MaxTasks

IInv == TypeOK /\ Behind /\ AttemptLeft /\ TasksBounded /\ HeardOnce

-----------------------------------------------------------------------------
(* Sequences and tables.                                                   *)

(* The rows of a SELECT: each element of the set, once.                    *)
LEMMA RowsOnce ==
  ASSUME NEW S, IsFiniteSet(S)
  PROVE  /\ SetToSeq(S) \in [1..Cardinality(S) -> S] /\ Cardinality(S) \in Nat
         /\ IsInjective(SetToSeq(S))
<1>1. Cardinality(S) \in Nat /\ \E f \in [1..Cardinality(S) -> S] : IsInjective(f)
  BY FS_CardinalityType DEF ExistsBijection, Bijection, Injection, IsInjective
<1>. QED  BY <1>1 DEF SetToSeq

(* One element of a sequence, read or changed.                             *)
LEMMA ElementOf ==
  ASSUME NEW S, NEW s \in Seq(S), NEW n \in DOMAIN s
  PROVE  s[n] \in S
  OBVIOUS

LEMMA ElementSet ==
  ASSUME NEW S, NEW s \in Seq(S), NEW n \in DOMAIN s, NEW v \in S
  PROVE  /\ [s EXCEPT ![n] = v] \in Seq(S)
         /\ DOMAIN [s EXCEPT ![n] = v] = DOMAIN s /\ Len([s EXCEPT ![n] = v]) = Len(s)
         /\ [s EXCEPT ![n] = v][n] = v
         /\ \A i \in DOMAIN s : i # n => [s EXCEPT ![n] = v][i] = s[i]
  OBVIOUS

LEMMA FunctionIsSeq ==
  ASSUME NEW T, NEW k \in Nat, NEW f \in [1..k -> T]
  PROVE  f \in Seq(T)
  OBVIOUS

LEMMA ElementAdded ==
  ASSUME NEW S, NEW s \in Seq(S), NEW v \in S
  PROVE  /\ Append(s, v) \in Seq(S) /\ Len(Append(s, v)) = Len(s) + 1
         /\ DOMAIN s \subseteq DOMAIN Append(s, v)
         /\ \A i \in DOMAIN s : Append(s, v)[i] = s[i]
  OBVIOUS

(* What joins the queue last.                                              *)
LEMMA JoinQueue ==
  ASSUME NEW S, NEW q \in Seq(S), NEW n \in S, n \notin ToSet(q), IsInjective(q)
  PROVE  /\ Append(q, n) \in Seq(S) /\ IsInjective(Append(q, n))
         /\ ToSet(Append(q, n)) = ToSet(q) \cup {n}
<1>. DEFINE r == Append(q, n)
<1>1. /\ r \in Seq(S) /\ Len(r) = Len(q) + 1 /\ Len(q) \in Nat
      /\ DOMAIN q = 1..Len(q) /\ DOMAIN r = 1..(Len(q) + 1)
      /\ \A i \in 1..Len(q) : r[i] = q[i]
      /\ r[Len(q) + 1] = n
  OBVIOUS
<1>. HIDE DEF r
<1>2. \A i \in DOMAIN r : i \in DOMAIN q \/ i = Len(q) + 1
  BY <1>1
<1>3. \A i \in DOMAIN q : i \in DOMAIN r /\ q[i] # n
  BY <1>1 DEF ToSet
<1>4. IsInjective(r)
  BY <1>1, <1>2, <1>3 DEF IsInjective
<1>5. ToSet(r) = ToSet(q) \cup {n}
  BY <1>1, <1>2, <1>3 DEF ToSet
<1>. QED  BY <1>1, <1>4, <1>5 DEF r

(* What leaves the queue first.                                            *)
LEMMA LeaveQueue ==
  ASSUME NEW S, NEW q \in Seq(S), q # <<>>, IsInjective(q)
  PROVE  /\ Tail(q) \in Seq(S) /\ IsInjective(Tail(q))
         /\ Head(q) \in ToSet(q) /\ ToSet(Tail(q)) = ToSet(q) \ {Head(q)}
<1>. DEFINE r == Tail(q)
<1>1. /\ r \in Seq(S) /\ Len(q) \in Nat /\ Len(q) # 0
      /\ DOMAIN q = 1..Len(q) /\ DOMAIN r = 1..(Len(q) - 1)
      /\ \A i \in 1..(Len(q) - 1) : r[i] = q[i + 1]
      /\ Head(q) = q[1]
  OBVIOUS
<1>. HIDE DEF r
<1>2. \A i \in DOMAIN r : i + 1 \in DOMAIN q /\ i + 1 # 1 /\ r[i] = q[i + 1]
  BY <1>1
<1>3. \A i \in DOMAIN q : i = 1 \/ (i - 1 \in DOMAIN r /\ r[i - 1] = q[i])
  BY <1>1
<1>4. 1 \in DOMAIN q
  BY <1>1
<1>5. IsInjective(r)
  <2>. SUFFICES ASSUME NEW i \in DOMAIN r, NEW j \in DOMAIN r, r[i] = r[j]
                PROVE  i = j
    BY DEF IsInjective
  <2>1. i + 1 = j + 1
    BY <1>2 DEF IsInjective
  <2>. QED  BY <1>1, <2>1
<1>6. ToSet(r) \subseteq ToSet(q) \ {Head(q)}
  BY <1>1, <1>2, <1>4 DEF ToSet, IsInjective
<1>7. ToSet(q) \ {Head(q)} \subseteq ToSet(r)
  BY <1>1, <1>3 DEF ToSet
<1>. QED  BY <1>1, <1>4, <1>5, <1>6, <1>7 DEF r, ToSet

(* Two parts in a row.                                                     *)
LEMMA Joined ==
  ASSUME NEW S, NEW s \in Seq(S), NEW r \in Seq(S)
  PROVE  /\ s \o r \in Seq(S)
         /\ DOMAIN s \subseteq DOMAIN (s \o r)
         /\ \A i \in DOMAIN s : (s \o r)[i] = s[i]
         /\ \A i \in DOMAIN (s \o r) \ DOMAIN s :
              i - Len(s) \in DOMAIN r /\ (s \o r)[i] = r[i - Len(s)]
  OBVIOUS

(* What a table holds.                                                     *)
LEMMA TableOf ==
  ASSUME NEW S, NEW f
  PROVE  f \in Table(S) <=> /\ DOMAIN f \subseteq Ids /\ f = [i \in DOMAIN f |-> f[i]]
                            /\ \A i \in DOMAIN f : f[i] \in S
<1>1. ASSUME f \in Table(S)
      PROVE  DOMAIN f \subseteq Ids /\ f = [i \in DOMAIN f |-> f[i]] /\ \A i \in DOMAIN f : f[i] \in S
  <2>1. PICK J \in SUBSET Ids : f \in [J -> S]
    BY <1>1 DEF Table
  <2>. QED  BY <2>1
<1>2. ASSUME DOMAIN f \subseteq Ids, f = [i \in DOMAIN f |-> f[i]], \A i \in DOMAIN f : f[i] \in S
      PROVE  f \in Table(S)
  <2>1. f \in [DOMAIN f -> S]
    BY <1>2
  <2>. QED  BY <1>2, <2>1 DEF Table
<1>. QED  BY <1>1, <1>2

-----------------------------------------------------------------------------
(* The tables.                                                             *)
LEMMA MembersAreIds ==
  ASSUME TablesTyped, NEW g
  PROVE  MemberList(g) \in Lists /\ MemberList(g) \in Seq(Ids)
<1>1. \A i \in DOMAIN groups : groups[i] \in Members
  BY TableOf DEF TablesTyped
<1>2. MemberList(g) \in Lists
  BY <1>1, NotificationAssumption DEF MemberList, Members
<1>. QED  BY <1>2, NotificationAssumption

(* A row put in a table, under a new id or an old one.                     *)
RowPut(f, i, v) == [j \in DOMAIN f \cup {i} |-> IF j = i THEN v ELSE f[j]]

LEMMA TablePut ==
  ASSUME NEW S, NEW f \in Table(S), NEW i \in Ids, NEW v \in S
  PROVE  RowPut(f, i, v) \in Table(S) /\ DOMAIN RowPut(f, i, v) = DOMAIN f \cup {i}
<1>. DEFINE g == RowPut(f, i, v)
<1>1. DOMAIN f \subseteq Ids /\ \A j \in DOMAIN f : f[j] \in S
  BY TableOf
<1>2. /\ DOMAIN g = DOMAIN f \cup {i} /\ g = [j \in DOMAIN g |-> g[j]]
      /\ \A j \in DOMAIN g : g[j] \in S
  BY <1>1 DEF RowPut
<1>. HIDE DEF g
<1>3. g \in Table(S)
  BY <1>1, <1>2, TableOf
<1>. QED  BY <1>2, <1>3 DEF g

(* A row changed, or dropped.                                              *)
LEMMA TableSet ==
  ASSUME NEW S, NEW f \in Table(S), NEW i, NEW v \in S
  PROVE  /\ [f EXCEPT ![i] = v] \in Table(S)
         /\ DOMAIN [f EXCEPT ![i] = v] = DOMAIN f
<1>1. DOMAIN f \subseteq Ids /\ f = [j \in DOMAIN f |-> f[j]] /\ \A j \in DOMAIN f : f[j] \in S
  BY TableOf
<1>. DEFINE g == [f EXCEPT ![i] = v]
<1>2. g = [j \in DOMAIN g |-> g[j]] /\ DOMAIN g = DOMAIN f
  BY <1>1
<1>3. \A j \in DOMAIN g : g[j] \in S
  BY <1>1
<1>. HIDE DEF g
<1>4. g \in Table(S) /\ DOMAIN g = DOMAIN f
  BY <1>1, <1>2, <1>3, TableOf
<1>. QED  BY <1>4 DEF g

LEMMA TableDrop ==
  ASSUME NEW S, NEW f \in Table(S), NEW i
  PROVE  [j \in DOMAIN f \ {i} |-> f[j]] \in Table(S)
<1>1. DOMAIN f \subseteq Ids /\ \A j \in DOMAIN f : f[j] \in S
  BY TableOf
<1>. DEFINE g == [j \in DOMAIN f \ {i} |-> f[j]]
<1>2. /\ DOMAIN g \subseteq Ids /\ g = [j \in DOMAIN g |-> g[j]]
      /\ \A j \in DOMAIN g : g[j] \in S
  BY <1>1
<1>. HIDE DEF g
<1>3. g \in Table(S)
  BY <1>2, TableOf
<1>. QED  BY <1>3 DEF g

LEMMA StoredIsMember ==
  ASSUME NEW body \in Bodies
  PROVE  Stored(body) \in Members
<1>1. CASE body = [name |-> "n"]
  <2>1. "notifications" \notin DOMAIN body
    BY <1>1
  <2>. QED  BY <2>1, NotificationAssumption DEF Stored, Members
<1>2. CASE body \in [notifications : Members]
  BY <1>2 DEF Stored
<1>. QED  BY <1>1, <1>2 DEF Bodies

LEMMA Excused ==
  ASSUME OwedTyped, NEW S, Excuse(S)
  PROVE  OwedTyped'
  BY DEF OwedTyped, Excuse

(* Steps of the tables keep their types.                                   *)
LEMMA AdminTyped ==
  ASSUME TablesTyped, CountersTyped, OwedTyped, Admin
  PROVE  /\ TablesTyped' /\ CountersTyped' /\ OwedTyped'
         /\ UNCHANGED <<tasks, notices, queue, permits>>
<1>. USE NotificationAssumption DEF Edit
<1>0. Edit
  BY DEF Admin, CreateHook, UpdateHook, DeleteHook, CreateGroup, UpdateGroup, DeleteGroup
<1>1. CountersTyped' /\ UNCHANGED <<tasks, notices, queue, permits>>
  BY <1>0 DEF CountersTyped
<1>2. ASSUME NEW u \in Urls, CreateHook(u)
      PROVE  TablesTyped' /\ OwedTyped'
  <2>1. lastHook' = lastHook + 1 /\ lastHook' \in 1..MaxRows
    BY <1>2 DEF CreateHook, TablesTyped
  <2>2. hooks' \in Table(Urls) /\ DOMAIN hooks' = DOMAIN hooks \cup {lastHook'}
    <3>1. /\ hooks \in Table(Urls) /\ lastHook' \in Ids /\ u \in Urls
          /\ hooks' = RowPut(hooks, lastHook', u)
      BY <1>2, <2>1, Zenon DEF CreateHook, TablesTyped, Ids, RowPut
    <3>2. RowPut(hooks, lastHook', u) \in Table(Urls)
      BY <3>1, TablePut
    <3>3. DOMAIN RowPut(hooks, lastHook', u) = DOMAIN hooks \cup {lastHook'}
      BY DEF RowPut
    <3>. QED  BY <3>1, <3>2, <3>3
  <2>3. DOMAIN hooks' \subseteq 1..lastHook'
    BY <2>1, <2>2 DEF TablesTyped
  <2>. QED  BY <1>2, <2>1, <2>2, <2>3 DEF CreateHook, TablesTyped, OwedTyped
<1>3. ASSUME NEW h \in DOMAIN hooks, NEW u \in Urls, UpdateHook(h, u)
      PROVE  TablesTyped' /\ OwedTyped'
  BY <1>3, TableSet, Excused DEF UpdateHook, TablesTyped
<1>4. ASSUME NEW h \in DOMAIN hooks, DeleteHook(h)
      PROVE  TablesTyped' /\ OwedTyped'
  BY <1>4, TableDrop, Excused DEF DeleteHook, TablesTyped
<1>5. ASSUME NEW body \in Bodies, CreateGroup(body)
      PROVE  TablesTyped' /\ OwedTyped'
  <2>1. lastGroup' = lastGroup + 1 /\ lastGroup' \in 1..MaxRows
    BY <1>5 DEF CreateGroup, TablesTyped
  <2>2. groups' \in Table(Members) /\ DOMAIN groups' = DOMAIN groups \cup {lastGroup'}
    <3>1. /\ groups \in Table(Members) /\ lastGroup' \in Ids /\ Stored(body) \in Members
          /\ groups' = RowPut(groups, lastGroup', Stored(body))
      BY <1>5, <2>1, StoredIsMember, Zenon DEF CreateGroup, TablesTyped, Ids, RowPut
    <3>2. RowPut(groups, lastGroup', Stored(body)) \in Table(Members)
      BY <3>1, TablePut
    <3>3. DOMAIN RowPut(groups, lastGroup', Stored(body)) = DOMAIN groups \cup {lastGroup'}
      BY DEF RowPut
    <3>. QED  BY <3>1, <3>2, <3>3
  <2>3. DOMAIN groups' \subseteq 1..lastGroup'
    BY <2>1, <2>2 DEF TablesTyped
  <2>. QED  BY <1>5, <2>1, <2>2, <2>3 DEF CreateGroup, TablesTyped, OwedTyped
<1>6. ASSUME NEW g \in DOMAIN groups, NEW body \in Bodies, UpdateGroup(g, body)
      PROVE  TablesTyped' /\ OwedTyped'
  BY <1>6, StoredIsMember, TableSet, Excused DEF UpdateGroup, TablesTyped
<1>7. ASSUME NEW g \in DOMAIN groups, DeleteGroup(g)
      PROVE  TablesTyped' /\ OwedTyped'
  BY <1>7, TableDrop, Excused DEF DeleteGroup, TablesTyped
<1>. QED  BY <1>1, <1>2, <1>3, <1>4, <1>5, <1>6, <1>7 DEF Admin

-----------------------------------------------------------------------------
(* The alert tasks.                                                        *)

NotesInv ==
  /\ NoticesTyped /\ QueueTyped /\ PermitsAccounted
  /\ Behind /\ AttemptLeft /\ HeardOnce

(* Tasks only go forward, and none is forgotten.                           *)
Forward ==
  /\ DOMAIN tasks \subseteq DOMAIN tasks'
  /\ \A t \in DOMAIN tasks : tasks[t].next \in Nat /\ tasks'[t].next \in Nat
                             /\ tasks[t].next <= tasks'[t].next

LEMMA Parts ==
  IInv <=> /\ TablesTyped /\ TasksTyped /\ CountersTyped /\ OwedTyped
           /\ TasksBounded /\ NotesInv
  BY DEF IInv, TypeOK, TablesTyped, TasksTyped, CountersTyped, OwedTyped, NotesInv, QueueTyped, NoticesTyped, TaskSet

(* What a task does leaves the notices as they are, or adds some.          *)
LEMMA NoticesKept ==
  ASSUME NotesInv, Forward, UNCHANGED <<notices, queue, permits>>
  PROVE  NotesInv'
<1>1. Behind'
  <2>. SUFFICES ASSUME NEW n \in DOMAIN notices
                PROVE  /\ notices[n].alert[1] \in DOMAIN tasks'
                       /\ notices[n].alert[2] < tasks'[notices[n].alert[1]].next
    BY DEF Behind
  <2>. DEFINE t == notices[n].alert[1]  p == notices[n].alert[2]
  <2>1. t \in DOMAIN tasks /\ p < tasks[t].next
    BY DEF NotesInv, Behind
  <2>2. p \in Nat
    <3>1. notices[n] \in NoticeSet
      BY ElementOf DEF NotesInv, NoticesTyped
    <3>. QED  BY <3>1 DEF NoticeSet
  <2>. HIDE DEF t, p
  <2>3. t \in DOMAIN tasks' /\ p < tasks'[t].next
    BY <2>1, <2>2 DEF Forward
  <2>. QED  BY <2>3 DEF t, p
<1>. QED
  BY <1>1 DEF NotesInv, NoticesTyped, QueueTyped, PermitsAccounted, AttemptLeft, HeardOnce

LEMMA TaskNext ==
  ASSUME TasksTyped
  PROVE  \A t \in DOMAIN tasks : tasks[t].next \in Nat
<1>1. \A t \in DOMAIN tasks : tasks[t] \in TaskSet
  BY ElementOf DEF TasksTyped
<1>. QED  BY <1>1 DEF TaskSet

LEMMA NextTask ==
  ASSUME TasksTyped, TasksBounded, NEW t \in DOMAIN tasks, NextAlert(t)
  PROVE  /\ TasksTyped' /\ TasksBounded' /\ Forward
         /\ tasks'[t].next = tasks[t].next + 1
<1>. DEFINE new == [tasks[t] EXCEPT !.next = @ + 1, !.ids = <<>>]
<1>1. \A i \in DOMAIN tasks : tasks[i].next \in Nat
  BY TaskNext
<1>2. new \in TaskSet /\ new.next = tasks[t].next + 1
  <2>1. tasks[t] \in TaskSet
    BY ElementOf DEF TasksTyped
  <2>2. <<>> \in Lists /\ tasks[t].next + 1 \in Nat
    BY <1>1, NotificationAssumption
  <2>. QED  BY <2>1, <2>2 DEF TaskSet
<1>3. tasks' = [tasks EXCEPT ![t] = new]
  BY DEF NextAlert, TasksTyped
<1>. HIDE DEF new
<1>4. /\ TasksTyped' /\ Len(tasks') = Len(tasks) /\ DOMAIN tasks' = DOMAIN tasks
      /\ tasks'[t] = new
      /\ \A i \in DOMAIN tasks : i # t => tasks'[i] = tasks[i]
  BY <1>2, <1>3, ElementSet DEF TasksTyped
<1>5. tasks'[t].next = tasks[t].next + 1
  BY <1>2, <1>4
<1>6. Forward
  <2>. SUFFICES ASSUME NEW i \in DOMAIN tasks
                PROVE  /\ tasks[i].next \in Nat /\ tasks'[i].next \in Nat
                       /\ tasks[i].next <= tasks'[i].next
    BY <1>4 DEF Forward
  <2>1. CASE i = t
    BY <2>1, <1>1, <1>5
  <2>2. CASE i # t
    BY <2>2, <1>1, <1>4
  <2>. QED  BY <2>1, <2>2
<1>. QED  BY <1>4, <1>5, <1>6 DEF TasksBounded

LEMMA RaiseStep ==
  ASSUME IInv, NEW alerts \in AlertLists, Raise(alerts)
  PROVE  IInv'
<1>. USE NotificationAssumption
<1>. DEFINE new == [alerts |-> alerts, next |-> 1, ids |-> <<>>]
<1>1. new \in TaskSet
  BY DEF TaskSet
<1>2. /\ tasks' = Append(tasks, new) /\ Len(tasks) < MaxTasks
      /\ UNCHANGED <<tables, notices, queue, permits, edits, faults, glitches>>
  BY DEF Raise
<1>. HIDE DEF new
<1>3. /\ TasksTyped' /\ Len(tasks') = Len(tasks) + 1 /\ Len(tasks) \in Nat
      /\ DOMAIN tasks \subseteq DOMAIN tasks'
      /\ \A t \in DOMAIN tasks : tasks'[t] = tasks[t]
  BY <1>1, <1>2, ElementAdded, Parts DEF TasksTyped
<1>4. TasksBounded'
  BY <1>2, <1>3 DEF TasksBounded
<1>5. Forward
  BY <1>3, TaskNext, Parts DEF Forward
<1>6. NotesInv'
  BY <1>2, <1>5, NoticesKept, Parts
<1>7. OwedTyped'
  <2>1. DOMAIN hooks \subseteq Ids /\ DOMAIN alerts \subseteq Nat
    BY TableOf, Parts DEF TablesTyped
  <2>2. Len(tasks) + 1 \in 1..MaxTasks
    BY <1>2, <1>3
  <2>3. {Len(tasks) + 1} \X (DOMAIN alerts) \X (DOMAIN hooks) \subseteq (1..MaxTasks) \X Nat \X Ids
    BY <2>1, <2>2
  <2>. QED  BY <2>3, Parts DEF Raise, OwedTyped
<1>8. TablesTyped' /\ CountersTyped'
  BY <1>2, Parts DEF TablesTyped, CountersTyped, tables
<1>. QED  BY <1>3, <1>4, <1>6, <1>7, <1>8, Parts, PTL

LEMMA SelectGroupStep ==
  ASSUME IInv, NEW t \in DOMAIN tasks, SelectGroup(t)
  PROVE  IInv'
<1>. USE NotificationAssumption
<1>1. UNCHANGED <<tables, notices, queue, permits, edits, glitches>>
  BY DEF SelectGroup
<1>2. TasksTyped' /\ TasksBounded' /\ Forward
  <2>1. CASE NextAlert(t)
    BY <2>1, NextTask, Parts
  <2>2. ASSUME NEW ids \in Lists, tasks' = [tasks EXCEPT ![t].ids = ids]
        PROVE  TasksTyped' /\ TasksBounded' /\ Forward
    <3>. DEFINE new == [tasks[t] EXCEPT !.ids = ids]
    <3>1. new \in TaskSet /\ new.next = tasks[t].next
      <4>1. tasks[t] \in TaskSet
        BY ElementOf, Parts DEF TasksTyped
      <4>. QED  BY <4>1 DEF TaskSet
    <3>2. tasks' = [tasks EXCEPT ![t] = new]
      BY <2>2, Parts DEF TasksTyped
    <3>. HIDE DEF new
    <3>3. /\ TasksTyped' /\ Len(tasks') = Len(tasks) /\ DOMAIN tasks' = DOMAIN tasks
          /\ tasks'[t] = new
          /\ \A i \in DOMAIN tasks : i # t => tasks'[i] = tasks[i]
      BY <3>1, <3>2, ElementSet, Parts DEF TasksTyped
    <3>4. \A i \in DOMAIN tasks : tasks'[i].next = tasks[i].next
      BY <3>1, <3>3
    <3>5. Forward
      BY <3>3, <3>4, TaskNext, Parts DEF Forward
    <3>. QED  BY <3>3, <3>5, Parts DEF TasksBounded
  <2>3. MemberList(tasks[t].alerts[tasks[t].next]) \in Lists
    BY MembersAreIds, Parts
  <2>. QED  BY <2>1, <2>2, <2>3 DEF SelectGroup
<1>3. NotesInv'
  BY <1>1, <1>2, NoticesKept, Parts
<1>4. CountersTyped' /\ OwedTyped'
  BY Excused, Parts DEF SelectGroup, StatementFails, CountersTyped, OwedTyped
<1>5. TablesTyped'
  BY <1>1, Parts DEF TablesTyped, tables
<1>. QED  BY <1>2, <1>3, <1>4, <1>5, Parts, PTL

(* A notice for each row, when the SELECT succeeds.                        *)
LEMMA NoticesAdded ==
  ASSUME IInv, NEW t \in DOMAIN tasks, NextAlert(t), UNCHANGED <<hooks, queue, permits>>,
         notices' = notices \o [n \in DOMAIN Selected(tasks[t].ids) |->
                                  Notice(t, Selected(tasks[t].ids)[n])]
  PROVE  NotesInv'
<1>. DEFINE S     == ToSet(tasks[t].ids) \cap DOMAIN hooks
            rows  == Selected(tasks[t].ids)
            added == [n \in DOMAIN rows |-> Notice(t, rows[n])]
<1>1. /\ rows \in [1..Cardinality(S) -> S] /\ Cardinality(S) \in Nat
      /\ IsInjective(rows) /\ S \subseteq Ids
      /\ \A h \in S : hooks[h] \in Urls
  <2>1. DOMAIN hooks \subseteq Ids /\ \A h \in DOMAIN hooks : hooks[h] \in Urls
    BY TableOf, Parts DEF TablesTyped
  <2>2. IsFiniteSet(Ids)
    BY NotificationAssumption, FS_Interval DEF Ids
  <2>3. IsFiniteSet(S)
    BY <2>1, <2>2, FS_Subset
  <2>4. rows = SetToSeq(S)
    BY DEF Selected
  <2>. HIDE DEF S, rows
  <2>5. /\ SetToSeq(S) \in [1..Cardinality(S) -> S] /\ Cardinality(S) \in Nat
        /\ IsInjective(SetToSeq(S))
    BY <2>3, RowsOnce
  <2>6. S \subseteq DOMAIN hooks
    BY DEF S
  <2>. QED  BY <2>1, <2>4, <2>5, <2>6
<1>. HIDE DEF S, rows
<1>2. t \in 1..MaxTasks /\ tasks[t].next \in Nat
  <2>1. t \in 1..Len(tasks) /\ Len(tasks) \in Nat /\ Len(tasks) <= MaxTasks /\ MaxTasks \in Nat
    BY Parts, NotificationAssumption DEF TasksTyped, TasksBounded
  <2>. QED  BY <2>1, TaskNext, Parts
<1>3. \A h \in S : /\ Notice(t, h) \in NoticeSet
                   /\ Notice(t, h).alert = <<t, tasks[t].next>> /\ Notice(t, h).hook = h
                   /\ Notice(t, h).step = "spawned"
                   /\ Notice(t, h).failed = 0 /\ Notice(t, h).heard = 0
  BY <1>1, <1>2 DEF Notice, NoticeSet, Tries
<1>4. /\ added \in Seq(NoticeSet) /\ DOMAIN added = DOMAIN rows
      /\ \A k \in DOMAIN rows : added[k] = Notice(t, rows[k]) /\ rows[k] \in S
  <2>1. /\ DOMAIN rows = 1..Cardinality(S) /\ DOMAIN added = DOMAIN rows
        /\ \A k \in DOMAIN rows : rows[k] \in S /\ added[k] = Notice(t, rows[k])
    BY <1>1
  <2>2. \A k \in DOMAIN rows : added[k] \in NoticeSet
    BY <2>1, <1>3
  <2>. HIDE DEF added
  <2>3. added = [k \in 1..Cardinality(S) |-> added[k]]
    BY <2>1 DEF added
  <2>4. added \in [1..Cardinality(S) -> NoticeSet]
    BY <2>1, <2>2, <2>3
  <2>5. added \in Seq(NoticeSet)
    BY <2>4, <1>1, FunctionIsSeq
  <2>. QED  BY <2>1, <2>5
<1>5. notices \in Seq(NoticeSet) /\ notices' = notices \o added
  BY Parts DEF NotesInv, NoticesTyped, rows
<1>. HIDE DEF added
<1>6. /\ NoticesTyped' /\ DOMAIN notices \subseteq DOMAIN notices'
      /\ \A n \in DOMAIN notices : notices'[n] = notices[n]
      /\ \A n \in DOMAIN notices' \ DOMAIN notices :
           n - Len(notices) \in DOMAIN rows
           /\ notices'[n] = Notice(t, rows[n - Len(notices)])
  <2>1. /\ notices \o added \in Seq(NoticeSet)
        /\ DOMAIN notices \subseteq DOMAIN (notices \o added)
        /\ \A i \in DOMAIN notices : (notices \o added)[i] = notices[i]
        /\ \A i \in DOMAIN (notices \o added) \ DOMAIN notices :
             /\ i - Len(notices) \in DOMAIN added
             /\ (notices \o added)[i] = added[i - Len(notices)]
    BY <1>4, <1>5, Joined
  <2>. QED  BY <1>4, <1>5, <2>1 DEF NoticesTyped
<1>7. /\ DOMAIN notices \subseteq Nat /\ DOMAIN notices' \subseteq Nat /\ Len(notices) \in Nat
  BY <1>5, <1>6 DEF NoticesTyped
<1>8. \A n \in DOMAIN notices' \ DOMAIN notices :
        /\ notices'[n].alert = <<t, tasks[t].next>> /\ notices'[n].step = "spawned"
        /\ notices'[n].hook = rows[n - Len(notices)]
        /\ notices'[n].failed = 0 /\ notices'[n].heard = 0
  <2>. SUFFICES ASSUME NEW n \in DOMAIN notices' \ DOMAIN notices
                PROVE  /\ notices'[n].alert = <<t, tasks[t].next>> /\ notices'[n].step = "spawned"
                       /\ notices'[n].hook = rows[n - Len(notices)]
                       /\ notices'[n].failed = 0 /\ notices'[n].heard = 0
    OBVIOUS
  <2>1. /\ rows[n - Len(notices)] \in S
        /\ notices'[n] = Notice(t, rows[n - Len(notices)])
    BY <1>4, <1>6
  <2>. QED  BY <1>3, <2>1
<1>9. Forward /\ tasks'[t].next = tasks[t].next + 1
  BY NextTask, Parts
<1>10. /\ {n \in DOMAIN notices' : notices'[n].step = "sending"} = Sending
       /\ {n \in DOMAIN notices' : notices'[n].step = "waiting"} = Waiting
  BY <1>6, <1>8 DEF Sending, Waiting
<1>11. QueueTyped' /\ PermitsAccounted'
  <2>1. queue \in Seq(DOMAIN notices')
    BY <1>6, Parts DEF NotesInv, QueueTyped
  <2>. QED  BY <1>10, <2>1, Parts DEF NotesInv, QueueTyped, PermitsAccounted, Sending, Waiting
<1>12. \A n \in DOMAIN notices :
         /\ notices[n].alert[1] \in DOMAIN tasks /\ notices[n].alert[2] \in Nat
         /\ notices[n].alert[2] < tasks[notices[n].alert[1]].next
  <2>1. \A n \in DOMAIN notices : notices[n] \in NoticeSet
    BY <1>5, ElementOf
  <2>. QED  BY <2>1, Parts DEF NotesInv, Behind, NoticeSet
<1>13. Behind'
  <2>. SUFFICES ASSUME NEW n \in DOMAIN notices'
                PROVE  /\ notices'[n].alert[1] \in DOMAIN tasks'
                       /\ notices'[n].alert[2] < tasks'[notices'[n].alert[1]].next
    BY DEF Behind
  <2>1. CASE n \in DOMAIN notices
    <3>. DEFINE a == notices[n].alert
    <3>1. /\ notices'[n].alert = a /\ a[1] \in DOMAIN tasks /\ a[2] \in Nat
          /\ a[2] < tasks[a[1]].next
      BY <2>1, <1>6, <1>12
    <3>. DEFINE i == a[1]  q == a[2]
    <3>2. i \in DOMAIN tasks /\ q \in Nat /\ q < tasks[i].next
      BY <3>1
    <3>3. notices'[n].alert[1] = i /\ notices'[n].alert[2] = q
      BY <3>1
    <3>. HIDE DEF a, i, q
    <3>4. i \in DOMAIN tasks' /\ q < tasks'[i].next
      BY <3>2, <1>9 DEF Forward
    <3>. QED  BY <3>3, <3>4
  <2>2. CASE n \notin DOMAIN notices
    <3>1. notices'[n].alert[1] = t /\ notices'[n].alert[2] = tasks[t].next
      <4>1. notices'[n].alert = <<t, tasks[t].next>>
        BY <2>2, <1>8
      <4>2. <<t, tasks[t].next>>[1] = t /\ <<t, tasks[t].next>>[2] = tasks[t].next
        OBVIOUS
      <4>. QED  BY <4>1, <4>2, Zenon
    <3>2. t \in DOMAIN tasks' /\ tasks[t].next < tasks'[t].next
      BY <1>2, <1>9 DEF Forward
    <3>. QED  BY <3>1, <3>2
  <2>. QED  BY <2>1, <2>2
<1>14. AttemptLeft'
  <2>1. \A n \in DOMAIN notices' \ DOMAIN notices :
          notices'[n].failed < Attempts /\ notices'[n].heard <= notices'[n].failed
    <3>. SUFFICES ASSUME NEW n \in DOMAIN notices' \ DOMAIN notices
                  PROVE  notices'[n].failed < Attempts /\ notices'[n].heard <= notices'[n].failed
      OBVIOUS
    <3>1. notices'[n].failed = 0 /\ notices'[n].heard = 0
      BY <1>8
    <3>. QED  BY <3>1 DEF Attempts
  <2>2. \A n \in DOMAIN notices : notices'[n].step \in {"spawned", "waiting", "sending"} =>
          notices'[n].failed < Attempts /\ notices'[n].heard <= notices'[n].failed
    BY <1>6, Parts DEF NotesInv, AttemptLeft
  <2>. QED  BY <2>1, <2>2 DEF AttemptLeft
<1>15. ASSUME NEW m \in DOMAIN notices', NEW n \in DOMAIN notices',
              notices'[m].alert = notices'[n].alert, notices'[m].hook = notices'[n].hook
       PROVE  m = n
  <2>1. CASE m \in DOMAIN notices /\ n \in DOMAIN notices
    BY <2>1, <1>6, <1>15, Parts DEF NotesInv, HeardOnce
  <2>2. CASE m \notin DOMAIN notices /\ n \notin DOMAIN notices
    <3>1. /\ m - Len(notices) \in DOMAIN rows /\ n - Len(notices) \in DOMAIN rows
          /\ rows[m - Len(notices)] = rows[n - Len(notices)]
      BY <2>2, <1>6, <1>8, <1>15
    <3>2. m - Len(notices) = n - Len(notices)
      BY <3>1, <1>1 DEF IsInjective
    <3>. QED  BY <3>2, <1>7
  <2>3. ASSUME NEW i \in DOMAIN notices, NEW j \in DOMAIN notices' \ DOMAIN notices,
               notices'[i].alert = notices'[j].alert
        PROVE  FALSE
    <3>1. notices[i].alert = <<t, tasks[t].next>>
      BY <2>3, <1>6, <1>8
    <3>2. notices[i].alert[1] = t /\ notices[i].alert[2] = tasks[t].next
      BY <3>1
    <3>. QED  BY <3>2, <1>2, <1>12
  <2>. QED  BY <2>1, <2>2, <2>3, <1>15
<1>16. HeardOnce'
  <2>1. \A n \in DOMAIN notices' :
          notices'[n].heard <= notices'[n].failed + (IF notices'[n].step = "sent" THEN 1 ELSE 0)
    <3>1. \A n \in DOMAIN notices' \ DOMAIN notices :
            notices'[n].heard <= notices'[n].failed + (IF notices'[n].step = "sent" THEN 1 ELSE 0)
      <4>. SUFFICES ASSUME NEW n \in DOMAIN notices' \ DOMAIN notices
                    PROVE  notices'[n].heard <= notices'[n].failed
                                                + (IF notices'[n].step = "sent" THEN 1 ELSE 0)
        OBVIOUS
      <4>1. notices'[n].failed = 0 /\ notices'[n].heard = 0
        BY <1>8
      <4>. QED  BY <4>1
    <3>2. \A n \in DOMAIN notices :
            notices'[n].heard <= notices'[n].failed + (IF notices'[n].step = "sent" THEN 1 ELSE 0)
      BY <1>6, Parts DEF NotesInv, HeardOnce
    <3>. QED  BY <3>1, <3>2
  <2>. QED  BY <2>1, <1>15 DEF HeardOnce
<1>. QED  BY <1>6, <1>11, <1>13, <1>14, <1>16 DEF NotesInv

LEMMA SelectHooksStep ==
  ASSUME IInv, NEW t \in DOMAIN tasks, SelectHooks(t)
  PROVE  IInv'
<1>1. NextAlert(t) /\ UNCHANGED <<tables, queue, permits, edits, glitches>>
  BY DEF SelectHooks
<1>2. TasksTyped' /\ TasksBounded' /\ Forward
  BY <1>1, NextTask, Parts
<1>3. NotesInv'
  <2>1. CASE UNCHANGED notices
    BY <2>1, <1>1, <1>2, NoticesKept, Parts
  <2>2. CASE notices' = notices \o [n \in DOMAIN Selected(tasks[t].ids) |->
                                      Notice(t, Selected(tasks[t].ids)[n])]
    BY <2>2, <1>1, NoticesAdded DEF tables
  <2>. QED  BY <2>1, <2>2 DEF SelectHooks
<1>4. CountersTyped' /\ OwedTyped'
  BY Excused, Parts DEF SelectHooks, StatementFails, CountersTyped, OwedTyped
<1>5. TablesTyped'
  BY <1>1, Parts DEF TablesTyped, tables
<1>. QED  BY <1>2, <1>3, <1>4, <1>5, Parts, PTL

-----------------------------------------------------------------------------
(* The notices.                                                            *)

(* What NotesInv asks of each notice alone.                                *)
GoodNotice(x) ==
  /\ x \in NoticeSet
  /\ x.step \in {"spawned", "waiting", "sending"} => x.failed < Attempts /\ x.heard <= x.failed
  /\ x.heard <= x.failed + (IF x.step = "sent" THEN 1 ELSE 0)

LEMMA AllGood ==
  ASSUME NotesInv
  PROVE  \A n \in DOMAIN notices : GoodNotice(notices[n])
<1>1. \A n \in DOMAIN notices : notices[n] \in NoticeSet
  BY ElementOf DEF NotesInv, NoticesTyped
<1>. QED  BY <1>1 DEF NotesInv, AttemptLeft, HeardOnce, GoodNotice

(* Notices that stay good and keep their alert and webhook.                *)
LEMMA Renewed ==
  ASSUME IInv, UNCHANGED tasks,
         notices' = [m \in DOMAIN notices |-> notices'[m]],
         \A m \in DOMAIN notices :
           /\ GoodNotice(notices'[m])
           /\ notices'[m].alert = notices[m].alert /\ notices'[m].hook = notices[m].hook
  PROVE  NoticesTyped' /\ Behind' /\ AttemptLeft' /\ HeardOnce' /\ DOMAIN notices' = DOMAIN notices
<1>1. notices \in Seq(NoticeSet)
  BY Parts DEF NotesInv, NoticesTyped
<1>2. DOMAIN notices' = DOMAIN notices
  OBVIOUS
<1>3. NoticesTyped'
  <2>1. Len(notices) \in Nat /\ DOMAIN notices = 1..Len(notices)
    BY <1>1
  <2>2. \A m \in 1..Len(notices) : notices'[m] \in NoticeSet
    BY <2>1 DEF GoodNotice
  <2>3. notices' \in [1..Len(notices) -> NoticeSet]
    BY <2>1, <2>2
  <2>. QED  BY <2>1, <2>3, FunctionIsSeq DEF NoticesTyped
<1>4. Behind'
  BY <1>2, Parts DEF NotesInv, Behind
<1>5. AttemptLeft'
  BY <1>2 DEF GoodNotice, AttemptLeft
<1>6. HeardOnce'
  <2>1. \A m \in DOMAIN notices' :
          notices'[m].heard <= notices'[m].failed + (IF notices'[m].step = "sent" THEN 1 ELSE 0)
    BY <1>2 DEF GoodNotice
  <2>2. \A m, n \in DOMAIN notices' :
          notices'[m].alert = notices'[n].alert /\ notices'[m].hook = notices'[n].hook => m = n
    BY <1>2, Parts DEF NotesInv, HeardOnce
  <2>. QED  BY <2>1, <2>2 DEF HeardOnce
<1>. QED  BY <1>2, <1>3, <1>4, <1>5, <1>6

(* One notice changes.                                                     *)
LEMMA OneRenewed ==
  ASSUME IInv, UNCHANGED tasks, NEW n \in DOMAIN notices, NEW x, GoodNotice(x),
         x.alert = notices[n].alert, x.hook = notices[n].hook,
         notices' = [notices EXCEPT ![n] = x]
  PROVE  /\ NoticesTyped' /\ Behind' /\ AttemptLeft' /\ HeardOnce'
         /\ DOMAIN notices' = DOMAIN notices
         /\ notices'[n] = x /\ \A m \in DOMAIN notices : m # n => notices'[m] = notices[m]
<1>1. notices \in Seq(NoticeSet) /\ x \in NoticeSet
  BY Parts DEF NotesInv, NoticesTyped, GoodNotice
<1>2. /\ DOMAIN notices' = DOMAIN notices /\ notices'[n] = x
      /\ \A m \in DOMAIN notices : m # n => notices'[m] = notices[m]
  BY <1>1, ElementSet
<1>3. notices' = [m \in DOMAIN notices |-> notices'[m]]
  BY <1>1
<1>4. \A m \in DOMAIN notices :
        /\ GoodNotice(notices'[m])
        /\ notices'[m].alert = notices[m].alert /\ notices'[m].hook = notices[m].hook
  BY <1>2, AllGood, Parts
<1>. QED  BY <1>2, <1>3, <1>4, Renewed

LEMMA SendingFinite ==
  ASSUME NotesInv
  PROVE  IsFiniteSet(Sending) /\ Cardinality(Sending) \in Nat
<1>1. Len(notices) \in Nat /\ DOMAIN notices = 1..Len(notices)
  BY DEF NotesInv, NoticesTyped
<1>2. IsFiniteSet(1..Len(notices))
  BY <1>1, FS_Interval
<1>3. IsFiniteSet(Sending)
  BY <1>1, <1>2, FS_Subset DEF Sending
<1>. QED  BY <1>3, FS_CardinalityType

(* A notice with step `step` in place of its own, and nothing else new.    *)
LEMMA StepSet ==
  ASSUME NotesInv, NEW n \in DOMAIN notices,
         notices[n].step \in {"spawned", "waiting", "sending"},
         NEW step \in {"waiting", "sending"}
  PROVE  LET x == [notices[n] EXCEPT !.step = step]
         IN  /\ GoodNotice(x) /\ x.step = step
             /\ x.alert = notices[n].alert /\ x.hook = notices[n].hook
<1>1. GoodNotice(notices[n])
  BY AllGood
<1>. QED  BY <1>1 DEF GoodNotice, NoticeSet

LEMMA StepExcept ==
  ASSUME NotesInv, NEW n \in DOMAIN notices, NEW step
  PROVE  [notices EXCEPT ![n].step = step] = [notices EXCEPT ![n] = [notices[n] EXCEPT !.step = step]]
  BY DEF NotesInv, NoticesTyped

(* A notice that takes a free permit, or joins the queue.                  *)
LEMMA AcquireNotes ==
  ASSUME IInv, NEW n \in DOMAIN notices, Acquire(n)
  PROVE  NotesInv'
<1>1. NotesInv /\ UNCHANGED tasks /\ notices[n].step = "spawned"
  BY Parts DEF Acquire
<1>2. ASSUME NEW step \in {"waiting", "sending"}, notices' = [notices EXCEPT ![n].step = step]
      PROVE  /\ NoticesTyped' /\ Behind' /\ AttemptLeft' /\ HeardOnce'
             /\ DOMAIN notices' = DOMAIN notices /\ notices'[n].step = step
             /\ \A m \in DOMAIN notices : m # n => notices'[m] = notices[m]
  <2>. DEFINE x == [notices[n] EXCEPT !.step = step]
  <2>1. /\ GoodNotice(x) /\ x.step = step
        /\ x.alert = notices[n].alert /\ x.hook = notices[n].hook
    BY <1>1, StepSet
  <2>2. notices' = [notices EXCEPT ![n] = x]
    BY <1>1, <1>2, StepExcept
  <2>. HIDE DEF x
  <2>. QED  BY <1>1, <2>1, <2>2, OneRenewed
<1>3. CASE permits > 0
  <2>1. /\ permits' = permits - 1 /\ UNCHANGED queue
        /\ notices' = [notices EXCEPT ![n].step = "sending"]
    BY <1>3 DEF Acquire
  <2>2. /\ NoticesTyped' /\ Behind' /\ AttemptLeft' /\ HeardOnce'
        /\ DOMAIN notices' = DOMAIN notices /\ notices'[n].step = "sending"
        /\ \A m \in DOMAIN notices : m # n => notices'[m] = notices[m]
    BY <1>2, <2>1
  <2>3. /\ {m \in DOMAIN notices' : notices'[m].step = "sending"} = Sending \cup {n}
        /\ {m \in DOMAIN notices' : notices'[m].step = "waiting"} = Waiting
        /\ n \notin Sending
    BY <1>1, <2>2 DEF Sending, Waiting
  <2>4. Cardinality(Sending \cup {n}) = Cardinality(Sending) + 1 /\ Cardinality(Sending) \in Nat
    BY <1>1, <2>3, SendingFinite, FS_AddElement
  <2>5. permits \in Nat /\ permits <= Permits /\ permits + Cardinality(Sending) = Permits
        /\ Permits \in Nat
    BY <1>1, NotificationAssumption DEF NotesInv, QueueTyped, PermitsAccounted, Sending
  <2>6. permits' \in 0..Permits /\ permits' + Cardinality(Sending \cup {n}) = Permits
    BY <1>3, <2>1, <2>4, <2>5
  <2>7. queue' = <<>>
    BY <1>1, <1>3, <2>1, <2>5 DEF NotesInv, PermitsAccounted
  <2>8. QueueTyped' /\ PermitsAccounted'
    BY <1>1, <2>1, <2>2, <2>3, <2>6, <2>7 DEF NotesInv, QueueTyped, PermitsAccounted, Waiting
  <2>. QED  BY <2>2, <2>8 DEF NotesInv
<1>4. CASE ~(permits > 0)
  <2>1. /\ queue' = Append(queue, n) /\ UNCHANGED permits
        /\ notices' = [notices EXCEPT ![n].step = "waiting"]
    BY <1>4 DEF Acquire
  <2>2. /\ NoticesTyped' /\ Behind' /\ AttemptLeft' /\ HeardOnce'
        /\ DOMAIN notices' = DOMAIN notices /\ notices'[n].step = "waiting"
        /\ \A m \in DOMAIN notices : m # n => notices'[m] = notices[m]
    BY <1>2, <2>1
  <2>3. /\ {m \in DOMAIN notices' : notices'[m].step = "sending"} = Sending
        /\ {m \in DOMAIN notices' : notices'[m].step = "waiting"} = Waiting \cup {n}
        /\ n \notin Waiting
    BY <1>1, <2>2 DEF Sending, Waiting
  <2>4. queue \in Seq(DOMAIN notices) /\ ToSet(queue) = Waiting /\ IsInjective(queue)
    BY <1>1 DEF NotesInv, QueueTyped, PermitsAccounted, Waiting
  <2>5. /\ queue' \in Seq(DOMAIN notices) /\ IsInjective(queue')
        /\ ToSet(queue') = Waiting \cup {n}
    BY <2>1, <2>3, <2>4, JoinQueue
  <2>6. permits = 0
    BY <1>1, <1>4, NotificationAssumption DEF NotesInv, QueueTyped
  <2>7. QueueTyped' /\ PermitsAccounted'
    BY <1>1, <2>1, <2>2, <2>3, <2>5, <2>6 DEF NotesInv, QueueTyped, PermitsAccounted, Sending
  <2>. QED  BY <2>2, <2>7 DEF NotesInv
<1>. QED  BY <1>3, <1>4

(* A notice that ends gives its permit back, or to the first that waits.   *)
LEMMA EndNotes ==
  ASSUME IInv, UNCHANGED tasks, NEW n \in DOMAIN notices, notices[n].step = "sending",
         NEW last, GoodNotice(last), last.step \in {"sent", "lost"},
         last.alert = notices[n].alert, last.hook = notices[n].hook,
         End(n, last)
  PROVE  NotesInv'
<1>1. NotesInv
  BY Parts
<1>2. /\ queue \in Seq(DOMAIN notices) /\ ToSet(queue) = Waiting /\ IsInjective(queue)
      /\ permits \in 0..Permits /\ permits + Cardinality(Sending) = Permits
      /\ queue # <<>> => permits = 0
  BY <1>1 DEF NotesInv, QueueTyped, PermitsAccounted, Sending, Waiting
<1>3. /\ n \in Sending /\ IsFiniteSet(Sending) /\ Cardinality(Sending) \in Nat
      /\ Permits \in Nat
  BY <1>1, SendingFinite, NotificationAssumption DEF Sending
<1>4. IsFiniteSet(Sending \ {n}) /\ Cardinality(Sending \ {n}) = Cardinality(Sending) - 1
  BY <1>3, FS_RemoveElement
<1>5. Cardinality(Sending \ {n}) \in Nat
  BY <1>4, FS_CardinalityType
<1>6. CASE queue = <<>>
  <2>1. /\ notices' = [notices EXCEPT ![n] = last] /\ permits' = permits + 1
        /\ UNCHANGED queue
    BY <1>6 DEF End
  <2>2. /\ NoticesTyped' /\ Behind' /\ AttemptLeft' /\ HeardOnce'
        /\ DOMAIN notices' = DOMAIN notices
        /\ notices'[n] = last /\ \A m \in DOMAIN notices : m # n => notices'[m] = notices[m]
    BY <2>1, OneRenewed
  <2>3. /\ {m \in DOMAIN notices' : notices'[m].step = "sending"} = Sending \ {n}
        /\ {m \in DOMAIN notices' : notices'[m].step = "waiting"} = Waiting
    BY <2>2 DEF Sending, Waiting
  <2>4. permits' \in 0..Permits /\ permits' + Cardinality(Sending \ {n}) = Permits
    BY <1>2, <1>3, <1>4, <1>5, <2>1
  <2>5. QueueTyped' /\ PermitsAccounted'
    BY <1>2, <1>6, <2>1, <2>2, <2>3, <2>4 DEF QueueTyped, PermitsAccounted
  <2>. QED  BY <2>2, <2>5 DEF NotesInv
<1>7. CASE queue # <<>>
  <2>. DEFINE h == Head(queue)
              x == [notices[h] EXCEPT !.step = "sending"]
  <2>1. /\ notices' = [notices EXCEPT ![n] = last, ![h].step = "sending"]
        /\ queue' = Tail(queue) /\ UNCHANGED permits
    BY <1>7 DEF End
  <2>2. /\ Tail(queue) \in Seq(DOMAIN notices) /\ IsInjective(Tail(queue))
        /\ h \in Waiting /\ ToSet(Tail(queue)) = Waiting \ {h}
    BY <1>2, <1>7, LeaveQueue
  <2>3. h \in DOMAIN notices /\ notices[h].step = "waiting" /\ h # n
    BY <2>2 DEF Waiting
  <2>4. /\ GoodNotice(x) /\ x.step = "sending"
        /\ x.alert = notices[h].alert /\ x.hook = notices[h].hook
    BY <1>1, <2>3, StepSet
  <2>5. /\ notices' = [m \in DOMAIN notices |-> notices'[m]]
        /\ DOMAIN notices' = DOMAIN notices
        /\ notices'[n] = last /\ notices'[h] = x
        /\ \A m \in DOMAIN notices : m # n /\ m # h => notices'[m] = notices[m]
    <3>1. notices = [m \in DOMAIN notices |-> notices[m]]
      BY <1>1 DEF NotesInv, NoticesTyped
    <3>. QED  BY <2>1, <2>3, <3>1
  <2>. HIDE DEF h, x
  <2>6. \A m \in DOMAIN notices :
          /\ GoodNotice(notices'[m])
          /\ notices'[m].alert = notices[m].alert /\ notices'[m].hook = notices[m].hook
    BY <1>1, <2>4, <2>5, AllGood
  <2>7. NoticesTyped' /\ Behind' /\ AttemptLeft' /\ HeardOnce'
    BY <2>5, <2>6, Renewed
  <2>8. /\ {m \in DOMAIN notices' : notices'[m].step = "sending"} = (Sending \ {n}) \cup {h}
        /\ {m \in DOMAIN notices' : notices'[m].step = "waiting"} = Waiting \ {h}
        /\ h \notin Sending \ {n}
    BY <2>3, <2>4, <2>5 DEF Sending, Waiting
  <2>9. Cardinality((Sending \ {n}) \cup {h}) = Cardinality(Sending)
    <3>. DEFINE R == Sending \ {n}
    <3>1. IsFiniteSet(R) /\ h \notin R
      BY <1>4, <2>8
    <3>. HIDE DEF R
    <3>2. Cardinality(R \cup {h}) = Cardinality(R) + 1
      BY <3>1, FS_AddElement
    <3>. QED  BY <1>3, <1>4, <3>2 DEF R
  <2>10. QueueTyped' /\ PermitsAccounted'
    BY <1>2, <1>7, <2>1, <2>2, <2>5, <2>8, <2>9 DEF QueueTyped, PermitsAccounted
  <2>. QED  BY <2>7, <2>10 DEF NotesInv
<1>. QED  BY <1>6, <1>7

(* The steps of a notice change the notices, the queue and the permits.    *)
LEMMA NoticeTaskStep ==
  ASSUME IInv, NEW n \in DOMAIN notices, NoticeTask(n)
  PROVE  IInv'
<1>1. NotesInv
  BY Parts
<1>2. GoodNotice(notices[n])
  BY <1>1, AllGood
<1>3. UNCHANGED <<tables, tasks, edits, faults, owed>>
  BY DEF NoticeTask, Acquire, CallSucceeds, CallFails
<1>4. CountersTyped'
  BY <1>3, Parts DEF NoticeTask, Acquire, CallSucceeds, CallFails, CountersTyped
<1>5. ASSUME Acquire(n) PROVE NotesInv'
  BY <1>5, AcquireNotes
<1>6. ASSUME CallSucceeds(n) PROVE NotesInv'
  <2>. DEFINE last == [notices[n] EXCEPT !.step = "sent", !.heard = @ + 1]
  <2>1. /\ GoodNotice(last) /\ last.step = "sent"
        /\ last.alert = notices[n].alert /\ last.hook = notices[n].hook
    <3>1. /\ notices[n].step = "sending" /\ notices[n].failed \in 0..2
          /\ notices[n].heard \in 0..2 /\ notices[n].heard <= notices[n].failed
      BY <1>2, <1>6 DEF CallSucceeds, GoodNotice, NoticeSet, Attempts, Tries
    <3>2. notices[n] \in NoticeSet /\ notices[n].heard + 1 \in 0..Tries
      BY <1>2, <3>1 DEF GoodNotice, Tries
    <3>3. /\ last \in NoticeSet /\ last.step = "sent"
          /\ last.alert = notices[n].alert /\ last.hook = notices[n].hook
          /\ last.failed = notices[n].failed /\ last.heard = notices[n].heard + 1
      BY <3>2 DEF NoticeSet
    <3>. HIDE DEF last
    <3>4. last.heard <= last.failed + 1
      BY <3>1, <3>3
    <3>. QED  BY <3>3, <3>4 DEF GoodNotice
  <2>2. End(n, last) /\ notices[n].step = "sending"
    BY <1>6 DEF CallSucceeds
  <2>. HIDE DEF last
  <2>. QED  BY <1>3, <2>1, <2>2, EndNotes
<1>7. ASSUME CallFails(n) PROVE NotesInv'
  <2>1. PICK heard \in {0, 1} :
          LET after == [notices[n] EXCEPT !.failed = @ + 1, !.heard = @ + heard]
          IN  IF after.failed = Attempts
                THEN End(n, [after EXCEPT !.step = "lost"])
                ELSE /\ notices' = [notices EXCEPT ![n] = after]
                     /\ UNCHANGED <<queue, permits>>
    BY <1>7 DEF CallFails
  <2>. DEFINE after == [notices[n] EXCEPT !.failed = @ + 1, !.heard = @ + heard]
              last  == [after EXCEPT !.step = "lost"]
  <2>2. /\ notices[n].step = "sending" /\ notices[n].failed \in 0..2
        /\ notices[n].heard \in 0..2 /\ notices[n].heard <= notices[n].failed
    BY <1>2, <1>7 DEF CallFails, GoodNotice, NoticeSet, Attempts, Tries
  <2>3. /\ after \in NoticeSet /\ after.step = "sending" /\ after.failed = notices[n].failed + 1
        /\ after.heard = notices[n].heard + heard
        /\ after.alert = notices[n].alert /\ after.hook = notices[n].hook
    <3>1. /\ notices[n] \in NoticeSet
          /\ notices[n].failed + 1 \in 0..Tries /\ notices[n].heard + heard \in 0..Tries
      BY <1>2, <2>2 DEF GoodNotice, Tries
    <3>. QED  BY <2>2, <3>1 DEF NoticeSet
  <2>4. after.failed \in 1..3 /\ after.heard <= after.failed
    BY <2>2, <2>3
  <2>5. CASE after.failed = Attempts
    <3>1. GoodNotice(last) /\ last.step = "lost"
          /\ last.alert = notices[n].alert /\ last.hook = notices[n].hook
      <4>1. /\ last \in NoticeSet /\ last.step = "lost"
            /\ last.alert = after.alert /\ last.hook = after.hook
            /\ last.failed = after.failed /\ last.heard = after.heard
        BY <2>3 DEF NoticeSet
      <4>. HIDE DEF after, last
      <4>2. last.heard <= last.failed + 0
        BY <2>4, <4>1
      <4>. QED  BY <2>3, <4>1, <4>2 DEF GoodNotice
    <3>2. End(n, last)
      BY <2>1, <2>5
    <3>. HIDE DEF last
    <3>. QED  BY <1>3, <2>2, <3>1, <3>2, EndNotes
  <2>6. CASE after.failed # Attempts
    <3>1. notices' = [notices EXCEPT ![n] = after] /\ UNCHANGED <<queue, permits>>
      BY <2>1, <2>6
    <3>. HIDE DEF after
    <3>2. GoodNotice(after)
      BY <2>3, <2>4, <2>6 DEF GoodNotice, Attempts
    <3>3. /\ NoticesTyped' /\ Behind' /\ AttemptLeft' /\ HeardOnce'
          /\ DOMAIN notices' = DOMAIN notices
          /\ notices'[n] = after /\ \A m \in DOMAIN notices : m # n => notices'[m] = notices[m]
      BY <1>3, <2>3, <3>1, <3>2, OneRenewed
    <3>4. /\ {m \in DOMAIN notices' : notices'[m].step = "sending"} = Sending
          /\ {m \in DOMAIN notices' : notices'[m].step = "waiting"} = Waiting
      BY <2>2, <2>3, <3>3 DEF Sending, Waiting
    <3>5. QueueTyped' /\ PermitsAccounted'
      BY <1>1, <3>1, <3>3, <3>4
         DEF NotesInv, QueueTyped, PermitsAccounted, Sending, Waiting
    <3>. QED  BY <3>3, <3>5 DEF NotesInv
  <2>. QED  BY <2>5, <2>6
<1>8. NotesInv'
  BY <1>5, <1>6, <1>7 DEF NoticeTask
<1>9. TablesTyped' /\ TasksTyped' /\ OwedTyped' /\ TasksBounded'
  BY <1>3, Parts DEF TablesTyped, TasksTyped, OwedTyped, TasksBounded, tables
<1>. QED  BY <1>4, <1>8, <1>9, Parts, PTL

-----------------------------------------------------------------------------
LEMMA InitInvariant == Init => IInv
<1>. SUFFICES ASSUME Init PROVE IInv
  OBVIOUS
<1>. USE NotificationAssumption
<1>1. TablesTyped
  <2>1. /\ hooks \in Seq(Urls) /\ lastHook = Len(hooks) /\ Len(hooks) \in Nat
        /\ Len(hooks) <= MaxRows
        /\ groups \in Seq(Members) /\ lastGroup = Len(groups) /\ Len(groups) \in Nat
        /\ Len(groups) <= MaxRows
    BY DEF Init
  <2>2. DOMAIN hooks = 1..lastHook /\ DOMAIN groups = 1..lastGroup
    BY <2>1
  <2>3. lastHook \in 0..MaxRows /\ lastGroup \in 0..MaxRows /\ MaxRows \in Nat
    BY <2>1
  <2>4. DOMAIN hooks \subseteq Ids /\ DOMAIN groups \subseteq Ids
    BY <2>2, <2>3 DEF Ids
  <2>5. /\ hooks = [i \in DOMAIN hooks |-> hooks[i]] /\ \A i \in DOMAIN hooks : hooks[i] \in Urls
        /\ groups = [i \in DOMAIN groups |-> groups[i]]
        /\ \A i \in DOMAIN groups : groups[i] \in Members
    BY <2>1
  <2>. QED  BY <2>2, <2>3, <2>4, <2>5, TableOf DEF TablesTyped
<1>2. TasksTyped /\ TasksBounded /\ CountersTyped /\ OwedTyped
  BY DEF Init, TasksTyped, TasksBounded, CountersTyped, OwedTyped
<1>3. NotesInv
  <2>1. notices = <<>> /\ queue = <<>> /\ permits = Permits
    BY DEF Init
  <2>2. {n \in DOMAIN notices : notices[n].step = "sending"} = {}
        /\ {n \in DOMAIN notices : notices[n].step = "waiting"} = {}
        /\ ToSet(queue) = {}
    BY <2>1 DEF ToSet
  <2>3. QueueTyped /\ PermitsAccounted
    BY <2>1, <2>2, FS_EmptySet DEF QueueTyped, PermitsAccounted, IsInjective
  <2>. QED
    BY <2>1, <2>3 DEF NotesInv, NoticesTyped, Behind, AttemptLeft, HeardOnce
<1>. QED  BY <1>1, <1>2, <1>3, Parts

LEMMA StepInvariant == IInv /\ [Next]_vars => IInv'
<1>. SUFFICES ASSUME IInv, [Next]_vars PROVE IInv'
  OBVIOUS
<1>1. ASSUME NEW alerts \in AlertLists, Raise(alerts)
      PROVE  IInv'
  BY <1>1, RaiseStep
<1>2. ASSUME NEW t \in DOMAIN tasks, AlertTask(t)
      PROVE  IInv'
  BY <1>2, SelectGroupStep, SelectHooksStep DEF AlertTask
<1>3. ASSUME NEW n \in DOMAIN notices, NoticeTask(n)
      PROVE  IInv'
  BY <1>3, NoticeTaskStep
<1>4. CASE Admin
  <2>1. /\ TablesTyped' /\ CountersTyped' /\ OwedTyped'
        /\ UNCHANGED <<tasks, notices, queue, permits>>
    BY <1>4, AdminTyped, Parts
  <2>2. Forward
    BY <2>1, TaskNext, Parts DEF Forward
  <2>3. NotesInv'
    BY <2>1, <2>2, NoticesKept, Parts
  <2>4. TasksTyped' /\ TasksBounded'
    BY <2>1, Parts DEF TasksTyped, TasksBounded
  <2>. QED  BY <2>1, <2>3, <2>4, Parts, PTL
<1>5. CASE UNCHANGED vars
  BY <1>5 DEF vars, tables, IInv, TypeOK, PermitsAccounted, Behind, AttemptLeft,
              TasksBounded, HeardOnce
<1>. QED  BY <1>1, <1>2, <1>3, <1>4, <1>5 DEF Next

LEMMA Invariant == Spec => []IInv
  BY InitInvariant, StepInvariant, PTL DEF Spec

(* Every variable has its type, and no permit of the semaphore is lost or  *)
(* made up: it is free or with one notice that is calling, none is free    *)
(* while a notice waits, and those that wait are in the queue, once.       *)
THEOREM TypeCorrect == Spec => []TypeOK
<1>1. IInv => TypeOK
  BY DEF IInv
<1>. QED  BY <1>1, Invariant, PTL

(* A webhook has one notice of an alert, although its group may list it    *)
(* twice, and hears of the alert once, and once more for each call that    *)
(* failed.                                                                 *)
THEOREM AlertHeardOnce == Spec => []HeardOnce
<1>1. IInv => HeardOnce
  BY DEF IInv
<1>. QED  BY <1>1, Invariant, PTL

-----------------------------------------------------------------------------
(* Safety beneath AlertsReachLiveHooks: an alert that is owed to a webhook *)
(* is on its way there.                                                    *)

\* The members that t goes through for its alert p.
MembersFor(t, p) ==
  IF tasks[t].next = p /\ tasks[t].ids # <<>> THEN tasks[t].ids
                                              ELSE MemberList(tasks[t].alerts[p])

\* The task has not come past the alert, and finds the webhook when it does.
StillToSend(o) ==
  /\ o[1] \in DOMAIN tasks
  /\ tasks[o[1]].next <= o[2]
  /\ o[3] \in ToSet(MembersFor(o[1], o[2]))
  /\ o[3] \in DOMAIN hooks /\ hooks[o[3]] \notin DeadUrls

\* A notice n carries the alert to the working webhook it was raised for.
Carries(n, o) ==
  /\ notices[n].alert = <<o[1], o[2]>> /\ notices[n].hook = o[3]
  /\ notices[n].url \notin DeadUrls

OwedIsCarried == \A o \in owed : StillToSend(o) \/ \E n \in DOMAIN notices : Carries(n, o)

\* A working webhook fails only by a glitch, and a notice is lost only after
\* all its attempts.
LostAfterAttempts ==
  \A n \in DOMAIN notices :
    /\ notices[n].step = "lost" => notices[n].failed = Attempts
    /\ notices[n].url \notin DeadUrls => notices[n].failed <= glitches

(* What is owed is still to be sent, or has a notice, and that notice is   *)
(* not lost unless live webhooks failed as often as it has attempts.       *)
OwedIsUnderway ==
  \A o \in owed :
    \/ StillToSend(o)
    \/ \E n \in DOMAIN notices :
         Carries(n, o) /\ (notices[n].step = "lost" => glitches >= Attempts)

UnderwayInv == IInv /\ OwedIsCarried /\ LostAfterAttempts

(* SetToSeq leaves no element out.                                         *)
LEMMA RowsAll ==
  ASSUME NEW S, IsFiniteSet(S), NEW h \in S
  PROVE  \E k \in DOMAIN SetToSeq(S) : SetToSeq(S)[k] = h
<1>. DEFINE c == Cardinality(S)  f == SetToSeq(S)
<1>1. f \in [1..c -> S] /\ c \in Nat /\ IsInjective(f)
  BY RowsOnce
<1>2. IsFiniteSet(1..c) /\ Cardinality(1..c) = c
  BY <1>1, FS_Interval
<1>. HIDE DEF f
<1>3. f \in Injection(1..c, S)
  BY <1>1 DEF Injection, IsInjective
<1>4. f \in Surjection(1..c, S)
  BY <1>2, <1>3, FS_Injection
<1>5. \E k \in DOMAIN f : f[k] = h
  BY <1>1, <1>4 DEF Surjection
<1>. QED  BY <1>5 DEF f

(* An alert its task has not come to has no notice, so a task that fails   *)
(* or an edit excuses it; what is still owed has its notice.               *)
LEMMA NotSpawnedYet ==
  ASSUME IInv, NEW o \in owed, StillToSend(o)
  PROVE  ~Spawned(o)
<1>. SUFFICES ASSUME NEW n \in DOMAIN notices,
                     notices[n].alert = <<o[1], o[2]>>
              PROVE  FALSE
  BY DEF Spawned
<1>1. o[2] \in Nat
  BY Parts DEF OwedTyped
<1>2. o[2] < tasks[o[1]].next
  BY Parts DEF NotesInv, Behind
<1>3. tasks[o[1]].next \in Nat /\ tasks[o[1]].next <= o[2]
  BY TaskNext, Parts DEF StillToSend
<1>. QED  BY <1>1, <1>2, <1>3

LEMMA ExcuseKeeps ==
  ASSUME IInv, OwedIsCarried, NEW S, Excuse(S), NEW o \in owed'
  PROVE  /\ o \in owed
         /\ o \in S => \E n \in DOMAIN notices : Carries(n, o)
<1>1. o \in owed /\ (o \in S => Spawned(o))
  BY DEF Excuse
<1>. QED  BY <1>1, NotSpawnedYet DEF OwedIsCarried

(* An alert is still to be sent if neither its task nor its webhook        *)
(* changes and the group keeps its members.                                *)
LEMMA StillKept ==
  ASSUME NEW o, StillToSend(o),
         o[1] \in DOMAIN tasks', tasks'[o[1]] = tasks[o[1]],
         NEW g, g = tasks[o[1]].alerts[o[2]],
         ToSet(MemberList(g)) \subseteq ToSet(MemberList(g)'),
         o[3] \in DOMAIN hooks', hooks'[o[3]] = hooks[o[3]]
  PROVE  StillToSend(o)'
<1>1. /\ MembersFor(o[1], o[2]) = IF tasks[o[1]].next = o[2] /\ tasks[o[1]].ids # <<>>
                                    THEN tasks[o[1]].ids ELSE MemberList(g)
      /\ MembersFor(o[1], o[2])' = IF tasks[o[1]].next = o[2] /\ tasks[o[1]].ids # <<>>
                                     THEN tasks[o[1]].ids ELSE MemberList(g)'
  BY DEF MembersFor
<1>2. o[3] \in ToSet(MembersFor(o[1], o[2])')
  BY <1>1 DEF StillToSend
<1>. QED  BY <1>2 DEF StillToSend

(* Steps that leave the notices alone.                                     *)
LEMMA CarriedKept ==
  ASSUME NEW o, UNCHANGED notices
  PROVE  (\E n \in DOMAIN notices : Carries(n, o)) => (\E n \in DOMAIN notices : Carries(n, o))'
  BY DEF Carries

LEMMA AttemptsKept ==
  ASSUME LostAfterAttempts, UNCHANGED <<notices, glitches>>
  PROVE  LostAfterAttempts'
  BY DEF LostAfterAttempts

LEMMA RaiseUnderway ==
  ASSUME IInv, OwedIsCarried, NEW alerts \in AlertLists, Raise(alerts)
  PROVE  OwedIsCarried'
<1>. DEFINE new == [alerts |-> alerts, next |-> 1, ids |-> <<>>]
<1>1. /\ tasks' = Append(tasks, new) /\ UNCHANGED <<hooks, groups, notices>>
  BY DEF Raise, tables
<1>2. tasks \in Seq(TaskSet) /\ new \in TaskSet
  BY NotificationAssumption, Parts DEF TasksTyped, TaskSet
<1>3. /\ DOMAIN tasks \subseteq DOMAIN tasks' /\ \A t \in DOMAIN tasks : tasks'[t] = tasks[t]
      /\ Len(tasks) + 1 \in DOMAIN tasks' /\ tasks'[Len(tasks) + 1] = new
  BY <1>1, <1>2
<1>. SUFFICES ASSUME NEW o \in owed'
              PROVE  StillToSend(o)' \/ (\E n \in DOMAIN notices : Carries(n, o))'
  BY DEF OwedIsCarried
<1>4. CASE o \in owed
  <2>1. CASE StillToSend(o)
    <3>1. o[1] \in DOMAIN tasks /\ o[3] \in DOMAIN hooks
      BY <2>1 DEF StillToSend
    <3>2. \A g : MemberList(g)' = MemberList(g)
      BY <1>1 DEF MemberList
    <3>. QED  BY <1>1, <1>3, <2>1, <3>1, <3>2, StillKept
  <2>2. CASE \E n \in DOMAIN notices : Carries(n, o)
    BY <1>1, <2>2, CarriedKept
  <2>. QED  BY <1>4, <2>1, <2>2 DEF OwedIsCarried
<1>5. CASE o \notin owed
  <2>1. /\ o \in {Len(tasks) + 1} \X (DOMAIN alerts) \X (DOMAIN hooks)
        /\ o[3] \in ToSet(MemberList(alerts[o[2]])) /\ hooks[o[3]] \notin DeadUrls
    BY <1>5 DEF Raise
  <2>2. o[1] = Len(tasks) + 1 /\ o[2] \in DOMAIN alerts /\ o[3] \in DOMAIN hooks
    BY <2>1
  <2>3. o[2] \in Nat /\ 1 <= o[2]
    <3>1. alerts \in Seq(Ids)
      BY NotificationAssumption
    <3>. QED  BY <2>2, <3>1
  <2>4. MembersFor(o[1], o[2])' = MemberList(alerts[o[2]])
    BY <1>1, <1>3, <2>2 DEF MembersFor, MemberList
  <2>. QED  BY <1>1, <1>3, <2>1, <2>2, <2>3, <2>4 DEF StillToSend
<1>. QED  BY <1>4, <1>5

(* The task is done with an alert: the next ones are sent as before.       *)
LEMMA NextStill ==
  ASSUME IInv, NEW t \in DOMAIN tasks, NextAlert(t), UNCHANGED <<hooks, groups>>,
         NEW o \in owed, StillToSend(o), o \notin Current(t)
  PROVE  StillToSend(o)'
<1>1. \A g : MemberList(g)' = MemberList(g)
  BY DEF MemberList
<1>2. /\ DOMAIN tasks' = DOMAIN tasks /\ \A i \in DOMAIN tasks : i # t => tasks'[i] = tasks[i]
      /\ tasks'[t] = [tasks[t] EXCEPT !.next = @ + 1, !.ids = <<>>]
      /\ tasks[t] \in TaskSet
  <2>1. tasks \in Seq(TaskSet)
    BY Parts DEF TasksTyped
  <2>. QED  BY <2>1, ElementOf DEF NextAlert
<1>3. CASE o[1] # t
  <2>1. o[1] \in DOMAIN tasks /\ o[3] \in DOMAIN hooks
    BY DEF StillToSend
  <2>. QED  BY <1>1, <1>2, <1>3, <2>1, StillKept
<1>4. CASE o[1] = t
  <2>1. /\ tasks'[t].next = tasks[t].next + 1 /\ tasks'[t].ids = <<>>
        /\ tasks'[t].alerts = tasks[t].alerts /\ tasks[t].next \in Nat
    BY <1>2 DEF TaskSet
  <2>2. o[2] \in Nat /\ tasks[t].next <= o[2] /\ tasks[t].next # o[2]
    BY <1>4, Parts DEF OwedTyped, StillToSend, Current
  <2>3. tasks'[t].next <= o[2]
    BY <2>1, <2>2
  <2>4. /\ MembersFor(t, o[2])' = MemberList(tasks[t].alerts[o[2]])
        /\ MembersFor(t, o[2]) = MemberList(tasks[t].alerts[o[2]])
    BY <1>1, <2>1, <2>2 DEF MembersFor
  <2>. QED  BY <1>2, <1>4, <2>3, <2>4 DEF StillToSend
<1>. QED  BY <1>3, <1>4

LEMMA SelectGroupUnderway ==
  ASSUME IInv, OwedIsCarried, NEW t \in DOMAIN tasks, SelectGroup(t)
  PROVE  OwedIsCarried'
<1>1. UNCHANGED <<hooks, groups, notices>>
  BY DEF SelectGroup, tables
<1>2. \A g : MemberList(g)' = MemberList(g)
  BY <1>1 DEF MemberList
<1>. SUFFICES ASSUME NEW o \in owed'
              PROVE  StillToSend(o)' \/ (\E n \in DOMAIN notices : Carries(n, o))'
  BY DEF OwedIsCarried
<1>3. CASE NextAlert(t) /\ Excuse(Current(t))
  <2>1. o \in owed /\ (o \in Current(t) => \E n \in DOMAIN notices : Carries(n, o))
    BY <1>3, ExcuseKeeps
  <2>. QED  BY <1>1, <1>3, <2>1, NextStill, CarriedKept DEF OwedIsCarried
<1>. DEFINE p == tasks[t].next  ids == MemberList(tasks[t].alerts[p])
<1>4. CASE tasks[t].ids = <<>> /\ ids = <<>> /\ NextAlert(t) /\ UNCHANGED owed
  <2>1. CASE StillToSend(o) /\ o \in Current(t)
    <3>1. MembersFor(t, p) = <<>>
      BY <1>4 DEF MembersFor
    <3>2. o[3] \in ToSet(<<>>)
      BY <2>1, <3>1 DEF StillToSend, Current
    <3>. QED  BY <3>2 DEF ToSet
  <2>2. CASE StillToSend(o) /\ o \notin Current(t)
    BY <1>1, <1>4, <2>2, NextStill
  <2>. QED  BY <1>1, <1>4, <2>1, <2>2, CarriedKept DEF OwedIsCarried
<1>5. CASE /\ tasks[t].ids = <<>> /\ ids # <<>> /\ UNCHANGED owed
           /\ tasks' = [tasks EXCEPT ![t].ids = ids]
  <2>1. /\ DOMAIN tasks' = DOMAIN tasks /\ \A i \in DOMAIN tasks : i # t => tasks'[i] = tasks[i]
        /\ tasks'[t] = [tasks[t] EXCEPT !.ids = ids]
        /\ tasks[t] \in TaskSet
    <3>1. tasks \in Seq(TaskSet)
      BY Parts DEF TasksTyped
    <3>. QED  BY <1>5, <3>1, ElementOf
  <2>2. /\ tasks'[t].next = p /\ tasks'[t].ids = ids /\ tasks'[t].alerts = tasks[t].alerts
    BY <2>1 DEF TaskSet
  <2>3. CASE StillToSend(o) /\ o[1] # t
    <3>1. o[1] \in DOMAIN tasks /\ o[3] \in DOMAIN hooks
      BY <2>3 DEF StillToSend
    <3>. QED  BY <1>1, <1>2, <2>1, <2>3, <3>1, StillKept
  <2>4. CASE StillToSend(o) /\ o[1] = t
    <3>1. MembersFor(t, o[2])' = MembersFor(t, o[2])
      BY <1>2, <1>5, <2>2 DEF MembersFor
    <3>. QED  BY <1>1, <2>1, <2>2, <2>4, <3>1 DEF StillToSend
  <2>. QED  BY <1>1, <1>5, <2>3, <2>4, CarriedKept DEF OwedIsCarried
<1>. QED  BY <1>3, <1>4, <1>5 DEF SelectGroup

(* Each owed webhook of the group has a row, and gets a notice.            *)
LEMMA SelectHooksUnderway ==
  ASSUME IInv, OwedIsCarried, NEW t \in DOMAIN tasks, SelectHooks(t)
  PROVE  OwedIsCarried'
<1>1. NextAlert(t) /\ UNCHANGED <<hooks, groups>> /\ tasks[t].ids # <<>>
  BY DEF SelectHooks, tables
<1>. SUFFICES ASSUME NEW o \in owed'
              PROVE  StillToSend(o)' \/ (\E n \in DOMAIN notices : Carries(n, o))'
  BY DEF OwedIsCarried
<1>2. CASE Excuse(Current(t)) /\ UNCHANGED notices
  <2>1. o \in owed /\ (o \in Current(t) => \E n \in DOMAIN notices : Carries(n, o))
    BY <1>2, ExcuseKeeps
  <2>. QED  BY <1>1, <1>2, <2>1, NextStill, CarriedKept DEF OwedIsCarried
<1>. DEFINE rows  == Selected(tasks[t].ids)
            added == [n \in DOMAIN rows |-> Notice(t, rows[n])]
            S     == ToSet(tasks[t].ids) \cap DOMAIN hooks
<1>3. CASE notices' = notices \o added /\ UNCHANGED owed
  <2>1. IsFiniteSet(S) /\ S \subseteq DOMAIN hooks /\ rows = SetToSeq(S)
    <3>1. DOMAIN hooks \subseteq Ids
      BY TableOf, Parts DEF TablesTyped
    <3>2. IsFiniteSet(Ids)
      BY NotificationAssumption, FS_Interval DEF Ids
    <3>3. IsFiniteSet(S)
      BY <3>1, <3>2, FS_Subset
    <3>. QED  BY <3>3 DEF Selected
  <2>2. /\ rows \in [1..Cardinality(S) -> S] /\ Cardinality(S) \in Nat
    BY <2>1, RowsOnce
  <2>3. /\ Len(notices) \in Nat /\ DOMAIN notices = 1..Len(notices)
        /\ DOMAIN notices' = 1..(Len(notices) + Cardinality(S))
        /\ \A n \in DOMAIN notices : notices'[n] = notices[n]
        /\ \A k \in 1..Cardinality(S) : notices'[Len(notices) + k] = Notice(t, rows[k])
    <3>. HIDE DEF S, rows
    <3>1. notices \in Seq(NoticeSet)
      BY Parts DEF NotesInv, NoticesTyped
    <3>2. added = [n \in 1..Cardinality(S) |-> Notice(t, rows[n])]
      BY <2>2
    <3>. HIDE DEF added
    <3>. QED  BY <1>3, <2>2, <3>1, <3>2
  <2>4. CASE \E n \in DOMAIN notices : Carries(n, o)
    <3>1. DOMAIN notices \subseteq DOMAIN notices'
      <4>. HIDE DEF S
      <4>. QED  BY <2>2, <2>3
    <3>. QED  BY <2>3, <2>4, <3>1 DEF Carries
  <2>5. CASE StillToSend(o) /\ o \notin Current(t)
    BY <1>1, <1>3, <2>5, NextStill
  <2>6. CASE StillToSend(o) /\ o \in Current(t)
    <3>1. /\ o[1] = t /\ o[2] = tasks[t].next /\ o[3] \in S
          /\ hooks[o[3]] \notin DeadUrls
      BY <1>1, <2>6 DEF StillToSend, Current, MembersFor
    <3>2. PICK k \in DOMAIN rows : rows[k] = o[3]
      BY <2>1, <3>1, RowsAll
    <3>3. k \in 1..Cardinality(S) /\ Len(notices) + k \in DOMAIN notices'
      BY <2>2, <2>3, <3>2
    <3>4. notices'[Len(notices) + k] = Notice(t, o[3])
      BY <2>3, <3>2, <3>3
    <3>5. /\ Notice(t, o[3]).alert = <<o[1], o[2]>> /\ Notice(t, o[3]).hook = o[3]
          /\ Notice(t, o[3]).url \notin DeadUrls
      BY <3>1 DEF Notice
    <3>. QED  BY <3>3, <3>4, <3>5 DEF Carries
  <2>. QED  BY <1>3, <2>4, <2>5, <2>6 DEF OwedIsCarried
<1>. QED  BY <1>2, <1>3 DEF SelectHooks

(* What a step of a notice does to any of them.                            *)
GoesOn(m) ==
  /\ notices'[m].alert = notices[m].alert /\ notices'[m].hook = notices[m].hook
  /\ notices'[m].url = notices[m].url
  /\ \/ /\ notices'[m].failed = notices[m].failed
        /\ notices'[m].step = "lost" => notices[m].step = "lost"
     \/ /\ notices'[m].failed = notices[m].failed + 1
        /\ notices'[m].step = "lost" => notices'[m].failed = Attempts
        /\ notices[m].url \notin DeadUrls => glitches' = glitches + 1

LEMMA EndGoesOn ==
  ASSUME NotesInv, NEW n \in DOMAIN notices, notices[n].step = "sending", NEW last, End(n, last)
  PROVE  /\ DOMAIN notices' = DOMAIN notices /\ notices'[n] = last
         /\ \A m \in DOMAIN notices : m # n => GoesOn(m)
<1>1. notices \in Seq(NoticeSet) /\ \A m \in DOMAIN notices : notices[m] \in NoticeSet
  BY ElementOf DEF NotesInv, NoticesTyped
<1>2. CASE queue = <<>>
  BY <1>1, <1>2 DEF End, GoesOn
<1>3. CASE queue # <<>>
  <2>. DEFINE h == Head(queue)
  <2>1. h \in ToSet(queue)
    BY <1>3, LeaveQueue DEF NotesInv, QueueTyped, PermitsAccounted
  <2>2. h \in DOMAIN notices /\ notices[h].step = "waiting"
    BY <2>1 DEF NotesInv, PermitsAccounted
  <2>3. notices' = [notices EXCEPT ![n] = last, ![h].step = "sending"]
    BY <1>3 DEF End
  <2>. HIDE DEF h
  <2>4. /\ DOMAIN notices' = DOMAIN notices /\ notices'[n] = last
        /\ notices'[h] = [notices[h] EXCEPT !.step = "sending"]
        /\ \A m \in DOMAIN notices : m # n /\ m # h => notices'[m] = notices[m]
    BY <1>1, <2>2, <2>3
  <2>5. GoesOn(h)
    <3>1. notices[h] \in NoticeSet
      BY <1>1, <2>2
    <3>. QED  BY <2>4, <3>1 DEF GoesOn, NoticeSet
  <2>6. \A m \in DOMAIN notices : m # n /\ m # h => GoesOn(m)
    BY <2>4 DEF GoesOn
  <2>. QED  BY <2>4, <2>5, <2>6
<1>. QED  BY <1>2, <1>3

LEMMA AllGoOn ==
  ASSUME IInv, NEW n \in DOMAIN notices, NoticeTask(n)
  PROVE  /\ DOMAIN notices' = DOMAIN notices /\ \A m \in DOMAIN notices : GoesOn(m)
         /\ glitches \in Nat /\ glitches' \in Nat /\ glitches <= glitches'
<1>1. NotesInv /\ notices \in Seq(NoticeSet) /\ notices[n] \in NoticeSet
  BY ElementOf, Parts DEF NotesInv, NoticesTyped
<1>2. glitches \in Nat /\ (UNCHANGED glitches \/ glitches' = glitches + 1)
  BY Parts DEF CountersTyped, NoticeTask, Acquire, CallSucceeds, CallFails
<1>3. CASE Acquire(n)
  <2>1. PICK step \in {"waiting", "sending"} : notices' = [notices EXCEPT ![n].step = step]
    BY <1>3 DEF Acquire
  <2>2. /\ DOMAIN notices' = DOMAIN notices
        /\ notices'[n] = [notices[n] EXCEPT !.step = step]
        /\ \A m \in DOMAIN notices : m # n => notices'[m] = notices[m]
    BY <1>1, <2>1
  <2>3. GoesOn(n)
    BY <1>1, <2>1, <2>2 DEF GoesOn, NoticeSet
  <2>4. \A m \in DOMAIN notices : m # n => GoesOn(m)
    BY <2>2 DEF GoesOn
  <2>. QED  BY <1>2, <2>2, <2>3, <2>4
<1>4. CASE CallSucceeds(n)
  <2>. DEFINE last == [notices[n] EXCEPT !.step = "sent", !.heard = @ + 1]
  <2>1. notices[n].step = "sending" /\ End(n, last)
    BY <1>4 DEF CallSucceeds
  <2>2. /\ last.alert = notices[n].alert /\ last.hook = notices[n].hook
        /\ last.url = notices[n].url /\ last.failed = notices[n].failed /\ last.step = "sent"
    BY <1>1 DEF NoticeSet
  <2>. HIDE DEF last
  <2>3. /\ DOMAIN notices' = DOMAIN notices /\ notices'[n] = last
        /\ \A m \in DOMAIN notices : m # n => GoesOn(m)
    BY <1>1, <2>1, EndGoesOn
  <2>4. GoesOn(n)
    BY <2>2, <2>3 DEF GoesOn
  <2>. QED  BY <1>2, <2>3, <2>4
<1>5. CASE CallFails(n)
  <2>1. PICK heard \in {0, 1} :
          LET after == [notices[n] EXCEPT !.failed = @ + 1, !.heard = @ + heard]
          IN  IF after.failed = Attempts
                THEN End(n, [after EXCEPT !.step = "lost"])
                ELSE /\ notices' = [notices EXCEPT ![n] = after]
                     /\ UNCHANGED <<queue, permits>>
    BY <1>5 DEF CallFails
  <2>. DEFINE after == [notices[n] EXCEPT !.failed = @ + 1, !.heard = @ + heard]
              last  == [after EXCEPT !.step = "lost"]
  <2>2. /\ notices[n].step = "sending"
        /\ notices[n].url \notin DeadUrls => glitches' = glitches + 1
    BY <1>5 DEF CallFails
  <2>3. /\ after.alert = notices[n].alert /\ after.hook = notices[n].hook
        /\ after.url = notices[n].url /\ after.failed = notices[n].failed + 1
        /\ after.step = "sending"
    BY <1>1, <2>2 DEF NoticeSet
  <2>4. /\ last.alert = after.alert /\ last.hook = after.hook /\ last.url = after.url
        /\ last.failed = after.failed /\ last.step = "lost"
    BY <1>1 DEF NoticeSet
  <2>5. CASE after.failed = Attempts
    <3>1. End(n, last)
      BY <2>1, <2>5
    <3>. HIDE DEF after, last
    <3>2. /\ DOMAIN notices' = DOMAIN notices /\ notices'[n] = last
          /\ \A m \in DOMAIN notices : m # n => GoesOn(m)
      BY <1>1, <2>2, <3>1, EndGoesOn
    <3>3. GoesOn(n)
      BY <2>2, <2>3, <2>4, <2>5, <3>2 DEF GoesOn
    <3>. QED  BY <1>2, <3>2, <3>3
  <2>6. CASE after.failed # Attempts
    <3>1. notices' = [notices EXCEPT ![n] = after]
      BY <2>1, <2>6
    <3>. HIDE DEF after, last
    <3>2. /\ DOMAIN notices' = DOMAIN notices /\ notices'[n] = after
          /\ \A m \in DOMAIN notices : m # n => notices'[m] = notices[m]
      BY <1>1, <3>1
    <3>3. GoesOn(n)
      BY <2>2, <2>3, <3>2 DEF GoesOn
    <3>. QED  BY <1>2, <3>2, <3>3 DEF GoesOn
  <2>. QED  BY <2>5, <2>6
<1>. QED  BY <1>3, <1>4, <1>5 DEF NoticeTask

LEMMA NoticeTaskUnderway ==
  ASSUME IInv, OwedIsCarried, LostAfterAttempts, NEW n \in DOMAIN notices, NoticeTask(n)
  PROVE  OwedIsCarried' /\ LostAfterAttempts'
<1>1. /\ DOMAIN notices' = DOMAIN notices /\ \A m \in DOMAIN notices : GoesOn(m)
      /\ glitches \in Nat /\ glitches' \in Nat /\ glitches <= glitches'
  BY AllGoOn
<1>2. UNCHANGED <<hooks, groups, tasks, owed>>
  BY DEF NoticeTask, Acquire, CallSucceeds, CallFails, tables
<1>3. OwedIsCarried'
  <2>. SUFFICES ASSUME NEW o \in owed
                PROVE  StillToSend(o)' \/ (\E m \in DOMAIN notices : Carries(m, o))'
    BY <1>2 DEF OwedIsCarried
  <2>1. CASE StillToSend(o)
    BY <1>2, <2>1 DEF StillToSend, MembersFor, MemberList
  <2>2. CASE \E m \in DOMAIN notices : Carries(m, o)
    BY <1>1, <2>2 DEF Carries, GoesOn
  <2>. QED  BY <2>1, <2>2 DEF OwedIsCarried
<1>4. LostAfterAttempts'
  <2>. SUFFICES ASSUME NEW m \in DOMAIN notices
                PROVE  /\ notices'[m].step = "lost" => notices'[m].failed = Attempts
                       /\ notices'[m].url \notin DeadUrls => notices'[m].failed <= glitches'
    BY <1>1 DEF LostAfterAttempts
  <2>1. notices[m].failed \in Nat
    <3>1. notices[m] \in NoticeSet
      BY ElementOf, Parts DEF NotesInv, NoticesTyped
    <3>. QED  BY <3>1 DEF NoticeSet, Tries
  <2>2. GoesOn(m)
    BY <1>1
  <2>. DEFINE f == notices[m].failed  g == notices'[m].failed
  <2>3. f \in Nat /\ (notices[m].url \notin DeadUrls => f <= glitches)
    BY <2>1 DEF LostAfterAttempts
  <2>4. CASE g = f /\ (notices'[m].step = "lost" => notices[m].step = "lost")
    <3>1. notices'[m].step = "lost" => g = Attempts
      BY <2>4 DEF LostAfterAttempts
    <3>2. notices'[m].url = notices[m].url
      BY <2>2 DEF GoesOn
    <3>. HIDE DEF f, g
    <3>3. notices'[m].url \notin DeadUrls => g <= glitches'
      BY <1>1, <2>3, <2>4, <3>2
    <3>. QED  BY <3>1, <3>3 DEF g
  <2>5. CASE /\ g = f + 1 /\ (notices'[m].step = "lost" => g = Attempts)
             /\ notices[m].url \notin DeadUrls => glitches' = glitches + 1
    <3>2. notices'[m].url = notices[m].url
      BY <2>2 DEF GoesOn
    <3>. HIDE DEF f, g
    <3>3. notices'[m].url \notin DeadUrls => g <= glitches'
      BY <1>1, <2>3, <2>5, <3>2
    <3>. QED  BY <2>5, <3>3 DEF g
  <2>. QED  BY <2>2, <2>4, <2>5 DEF GoesOn
<1>. QED  BY <1>3, <1>4

(* An edit takes no member from a group and no webhook from the table that *)
(* something is owed to without excusing it.                               *)
LEMMA AdminUnderway ==
  ASSUME IInv, OwedIsCarried, Admin
  PROVE  OwedIsCarried'
<1>1. UNCHANGED <<tasks, notices>>
  BY DEF Admin, CreateHook, UpdateHook, DeleteHook, CreateGroup, UpdateGroup, DeleteGroup, Edit
<1>2. TablesTyped
  BY Parts
<1>. SUFFICES ASSUME NEW o \in owed'
              PROVE  StillToSend(o)' \/ (\E n \in DOMAIN notices : Carries(n, o))'
  BY DEF OwedIsCarried
<1>. DEFINE g0 == tasks[o[1]].alerts[o[2]]
            Carried == \E n \in DOMAIN notices : Carries(n, o)
\* It is enough that either the notice is there or the rows stay.
<1>3. ASSUME o \in owed,
             \/ Carried
             \/ /\ ToSet(MemberList(g0)) \subseteq ToSet(MemberList(g0)')
                /\ o[3] \in DOMAIN hooks => o[3] \in DOMAIN hooks' /\ hooks'[o[3]] = hooks[o[3]]
      PROVE  StillToSend(o)' \/ Carried'
  <2>1. CASE Carried
    BY <1>1, <2>1, CarriedKept
  <2>2. CASE ~Carried
    <3>1. /\ StillToSend(o) /\ o[1] \in DOMAIN tasks /\ o[3] \in DOMAIN hooks
      BY <1>3, <2>2 DEF OwedIsCarried, StillToSend
    <3>. QED  BY <1>1, <1>3, <2>2, <3>1, StillKept
  <2>. QED  BY <2>1, <2>2
<1>4. ASSUME NEW u \in Urls, CreateHook(u)
      PROVE  StillToSend(o)' \/ Carried'
  <2>1. /\ o \in owed /\ UNCHANGED groups /\ lastHook' \notin DOMAIN hooks
        /\ hooks' = [h \in DOMAIN hooks \cup {lastHook'} |-> IF h = lastHook' THEN u ELSE hooks[h]]
    BY <1>2, <1>4 DEF CreateHook, TablesTyped
  <2>2. MemberList(g0)' = MemberList(g0)
    BY <1>1, <2>1 DEF MemberList
  <2>. QED  BY <1>3, <2>1, <2>2
<1>5. ASSUME NEW h \in DOMAIN hooks, NEW u \in Urls, UpdateHook(h, u) \/ DeleteHook(h)
      PROVE  StillToSend(o)' \/ Carried'
  <2>1. /\ UNCHANGED groups /\ Excuse({q \in owed : q[3] = h})
        /\ \A i \in DOMAIN hooks : i # h => i \in DOMAIN hooks' /\ hooks'[i] = hooks[i]
    BY <1>5 DEF UpdateHook, DeleteHook
  <2>2. o \in owed /\ (o[3] = h => Carried)
    BY <2>1, ExcuseKeeps
  <2>3. MemberList(g0)' = MemberList(g0)
    BY <1>1, <2>1 DEF MemberList
  <2>. QED  BY <1>3, <2>1, <2>2, <2>3
<1>6. ASSUME NEW body \in Bodies, CreateGroup(body)
      PROVE  StillToSend(o)' \/ Carried'
  <2>1. /\ o \in owed /\ UNCHANGED hooks /\ lastGroup' \notin DOMAIN groups
        /\ groups' = [g \in DOMAIN groups \cup {lastGroup'} |->
                        IF g = lastGroup' THEN Stored(body) ELSE groups[g]]
    BY <1>2, <1>6 DEF CreateGroup, TablesTyped
  <2>2. CASE g0 \in DOMAIN groups
    <3>1. MemberList(g0)' = MemberList(g0)
      BY <1>1, <2>1, <2>2 DEF MemberList
    <3>. QED  BY <1>3, <2>1, <3>1
  <2>3. CASE g0 \notin DOMAIN groups
    <3>1. ToSet(MemberList(g0)) = {}
      BY <2>3 DEF MemberList, ToSet
    <3>. QED  BY <1>3, <2>1, <3>1
  <2>. QED  BY <2>2, <2>3
<1>7. ASSUME NEW g \in DOMAIN groups,
             DeleteGroup(g) \/ \E body \in Bodies : UpdateGroup(g, body)
      PROVE  StillToSend(o)' \/ Carried'
  <2>1. /\ UNCHANGED hooks /\ Excuse(OwedBy(g))
        /\ \A i : i # g => /\ i \in DOMAIN groups' <=> i \in DOMAIN groups
                           /\ i \in DOMAIN groups => groups'[i] = groups[i]
    BY <1>7 DEF UpdateGroup, DeleteGroup
  <2>2. o \in owed /\ (g0 = g => Carried)
    BY <2>1, ExcuseKeeps DEF OwedBy
  <2>3. g0 # g => MemberList(g0)' = MemberList(g0)
    BY <1>1, <2>1 DEF MemberList
  <2>. QED  BY <1>3, <2>1, <2>2, <2>3
<1>. HIDE DEF Carried
<1>8. (\/ \E u \in Urls : CreateHook(u) \/ \E h \in DOMAIN hooks : UpdateHook(h, u)
       \/ \E h \in DOMAIN hooks : DeleteHook(h))
        => StillToSend(o)' \/ Carried'
  <2>1. ASSUME NEW h \in DOMAIN hooks, DeleteHook(h)
        PROVE  StillToSend(o)' \/ Carried'
    <3>1. hooks[h] \in Urls
      BY <1>2, TableOf DEF TablesTyped
    <3>. QED  BY <1>5, <2>1, <3>1
  <2>. QED  BY <1>4, <1>5, <2>1
<1>9. (\/ \E body \in Bodies : CreateGroup(body) \/ \E g \in DOMAIN groups : UpdateGroup(g, body)
       \/ \E g \in DOMAIN groups : DeleteGroup(g))
        => StillToSend(o)' \/ Carried'
  BY <1>6, <1>7
<1>. QED  BY <1>8, <1>9 DEF Admin, Carried

LEMMA UnderwayStep == UnderwayInv /\ [Next]_vars => OwedIsCarried' /\ LostAfterAttempts'
<1>. SUFFICES ASSUME IInv, OwedIsCarried, LostAfterAttempts, [Next]_vars
              PROVE  OwedIsCarried' /\ LostAfterAttempts'
  BY DEF UnderwayInv
<1>1. ASSUME NEW alerts \in AlertLists, Raise(alerts)
      PROVE  OwedIsCarried' /\ LostAfterAttempts'
  BY <1>1, RaiseUnderway, AttemptsKept DEF Raise
<1>2. ASSUME NEW t \in DOMAIN tasks, SelectGroup(t)
      PROVE  OwedIsCarried' /\ LostAfterAttempts'
  BY <1>2, SelectGroupUnderway, AttemptsKept DEF SelectGroup
<1>3. ASSUME NEW t \in DOMAIN tasks, SelectHooks(t)
      PROVE  OwedIsCarried' /\ LostAfterAttempts'
  <2>1. UNCHANGED glitches
    BY <1>3 DEF SelectHooks
  <2>2. \A n \in DOMAIN notices' :
          (n \in DOMAIN notices /\ notices'[n] = notices[n])
            \/ (notices'[n].step = "spawned" /\ notices'[n].failed = 0)
    <3>1. CASE UNCHANGED notices
      BY <3>1
    <3>. DEFINE rows  == Selected(tasks[t].ids)
                added == [n \in DOMAIN rows |-> Notice(t, rows[n])]
    <3>2. CASE notices' = notices \o added
      <4>1. notices \in Seq(NoticeSet) /\ added \in Seq({Notice(t, h) : h \in DOMAIN hooks})
        <5>. DEFINE S == ToSet(tasks[t].ids) \cap DOMAIN hooks
        <5>1. DOMAIN hooks \subseteq Ids
          BY TableOf, Parts DEF TablesTyped
        <5>2. IsFiniteSet(Ids)
          BY NotificationAssumption, FS_Interval DEF Ids
        <5>3. IsFiniteSet(S)
          BY <5>1, <5>2, FS_Subset
        <5>4. rows \in [1..Cardinality(S) -> S] /\ Cardinality(S) \in Nat
          BY <5>3, RowsOnce DEF Selected
        <5>5. \A h \in S : Notice(t, h) \in {Notice(t, i) : i \in DOMAIN hooks}
          OBVIOUS
        <5>. HIDE DEF rows, S
        <5>6. added \in [1..Cardinality(S) -> {Notice(t, h) : h \in DOMAIN hooks}]
          BY <5>4, <5>5
        <5>. HIDE DEF added
        <5>7. added \in Seq({Notice(t, h) : h \in DOMAIN hooks})
          BY <5>4, <5>6, FunctionIsSeq
        <5>. QED  BY <5>7, Parts DEF NotesInv, NoticesTyped
      <4>. HIDE DEF added
      <4>2. \A n \in DOMAIN notices' :
              (n \in DOMAIN notices /\ notices'[n] = notices[n])
                \/ (\E k \in DOMAIN added : notices'[n] = added[k])
        BY <3>2, <4>1
      <4>3. \A k \in DOMAIN added : \E h : added[k] = Notice(t, h)
        BY <4>1
      <4>4. \A h : Notice(t, h).step = "spawned" /\ Notice(t, h).failed = 0
        BY DEF Notice
      <4>. QED  BY <4>2, <4>3, <4>4
    <3>. QED  BY <1>3, <3>1, <3>2 DEF SelectHooks
  <2>3. glitches \in Nat
    BY Parts DEF CountersTyped
  <2>4. LostAfterAttempts'
    BY <2>1, <2>2, <2>3 DEF LostAfterAttempts
  <2>. QED  BY <1>3, <2>4, SelectHooksUnderway
<1>4. ASSUME NEW n \in DOMAIN notices, NoticeTask(n)
      PROVE  OwedIsCarried' /\ LostAfterAttempts'
  BY <1>4, NoticeTaskUnderway
<1>5. CASE Admin
  <2>1. UNCHANGED <<notices, glitches>>
    BY <1>5 DEF Admin, CreateHook, UpdateHook, DeleteHook, CreateGroup, UpdateGroup,
                DeleteGroup, Edit
  <2>. QED  BY <1>5, <2>1, AdminUnderway, AttemptsKept
<1>6. CASE UNCHANGED vars
  BY <1>6 DEF vars, tables, OwedIsCarried, LostAfterAttempts, StillToSend, MembersFor,
              MemberList, Carries
<1>. QED  BY <1>1, <1>2, <1>3, <1>4, <1>5, <1>6 DEF Next, AlertTask

(* Between the rule that fires and the call of the webhook no alert is     *)
(* dropped: what is owed is still before its task, with the webhook among  *)
(* the members the task will go through, or has a notice, which is lost    *)
(* only if its three attempts failed at a webhook that works.              *)
THEOREM NoAlertDropped == Spec => []OwedIsUnderway
<1>1. Init => OwedIsCarried /\ LostAfterAttempts
  BY DEF Init, OwedIsCarried, LostAfterAttempts
<1>2. UnderwayInv => OwedIsUnderway
  BY DEF UnderwayInv, OwedIsCarried, LostAfterAttempts, OwedIsUnderway, Carries
<1>3. Spec => [](OwedIsCarried /\ LostAfterAttempts)
  BY <1>1, UnderwayStep, Invariant, PTL DEF UnderwayInv, Spec
<1>. QED  BY <1>2, <1>3, Invariant, PTL DEF UnderwayInv

-----------------------------------------------------------------------------
(* The alert loop, whose `fired' is what Raise takes up: AlertSentinel     *)
(* under the name Alert, with its own constants and variables.             *)

CONSTANTS
  Rules, Servers, Defs, ReloadEvery, MinInterval, OfflineAfter, DedupMax, MaxLag,
  NoRule, Deleted, Never

VARIABLES
  table, cache, hot, silence, phase, checks, reloads, dedup, fired, quiet

Alert == INSTANCE AlertSentinel

(* The table of last firings says how long ago the last alert was, as far  *)
(* as min_interval tells.                                                  *)
QuietIsDedup ==
  \A p \in Alert!Pairs :
    quiet[p] = IF dedup[p] = Never \/ dedup[p] >= MinInterval THEN MinInterval ELSE dedup[p]

AlertInv == Alert!TypeOK /\ QuietIsDedup

(* An age that grows.                                                      *)
LEMMA OlderAge ==
  ASSUME NEW limit \in Nat, Never \notin Nat, NEW n \in 0..limit \cup {Never}
  PROVE  /\ Alert!Older(n, limit) \in 0..limit \cup {Never}
         /\ n = Never => Alert!Older(n, limit) = Never
         /\ n # Never => /\ Alert!Older(n, limit) \in 0..limit
                         /\ Alert!Older(n, limit) = IF n = limit THEN n ELSE n + 1
  BY DEF Alert!Older

(* What the constants are.                                                 *)
LEMMA AlertNat ==
  ASSUME Alert!AlertAssumption
  PROVE  /\ MinInterval \in Nat \ {0} /\ Alert!PurgeAge = 3 * MinInterval
         /\ Alert!PurgeAge \in Nat /\ Alert!PurgeAge > MinInterval
         /\ OfflineAfter \in Nat /\ ReloadEvery \in Nat \ {0}
         /\ MaxLag \in Nat \ {0} /\ Never \notin Nat
         /\ Defs \subseteq Alert!RuleDef
  BY DEF Alert!AlertAssumption, Alert!PurgeAge

(* What reload_rules puts in the cache.                                    *)
LEMMA CompiledTyped ==
  ASSUME NEW t
  PROVE  Alert!Compiled(t) \in Alert!RuleDef \cup {NoRule}
  BY DEF Alert!Compiled

LEMMA FetchedTyped ==
  ASSUME NEW rules \in Alert!Fetched
  PROVE  rules \in [Rules -> Alert!RuleDef \cup {NoRule}]
  BY CompiledTyped DEF Alert!Fetched, Alert!CompiledTable, Alert!NoRules

LEMMA AlertInit == Alert!AlertAssumption /\ Alert!Init => AlertInv
<1> SUFFICES ASSUME Alert!AlertAssumption, Alert!Init PROVE AlertInv
  OBVIOUS
<1>1. Alert!TypeOK
  BY AlertNat, FetchedTyped DEF Alert!Init, Alert!TypeOK
<1>2. QuietIsDedup
  BY DEF Alert!Init, QuietIsDedup
<1> QED
  BY <1>1, <1>2 DEF AlertInv

(* 15 s pass: both ages grow, up to their limits.                          *)
LEMMA AdvanceStep ==
  ASSUME Alert!AlertAssumption, AlertInv, Alert!Advance PROVE AlertInv'
<1>1. phase' \in 0..(ReloadEvery - 1)
  BY AlertNat DEF AlertInv, Alert!TypeOK, Alert!Advance
<1>2. /\ checks' \in 0..MaxLag /\ reloads' \in 0..MaxLag
      /\ fired' \in SUBSET Alert!Pairs
      /\ table' = table /\ cache' = cache /\ hot' = hot
  BY AlertNat DEF AlertInv, Alert!TypeOK, Alert!Advance
<1>3. silence' \in [Servers -> 0..OfflineAfter \cup {Never}]
  BY AlertNat, OlderAge DEF AlertInv, Alert!TypeOK, Alert!Advance
<1>4. ASSUME NEW p \in Alert!Pairs
      PROVE  /\ dedup'[p] \in 0..Alert!PurgeAge \cup {Never}
             /\ quiet'[p] \in 0..MinInterval
             /\ quiet'[p] = IF dedup'[p] = Never \/ dedup'[p] >= MinInterval
                            THEN MinInterval ELSE dedup'[p]
  <2>1. dedup'[p] = Alert!Older(dedup[p], Alert!PurgeAge)
        /\ quiet'[p] = Alert!Older(quiet[p], MinInterval)
    BY DEF Alert!Advance
  <2>2. dedup[p] \in 0..Alert!PurgeAge \cup {Never} /\ quiet[p] \in 0..MinInterval
    BY DEF AlertInv, Alert!TypeOK
  <2>3. quiet[p] # Never
    BY <2>2, AlertNat
  <2>4. quiet'[p] = IF quiet[p] = MinInterval THEN quiet[p] ELSE quiet[p] + 1
    BY <2>1, <2>2, <2>3, AlertNat, OlderAge
  <2>5. quiet[p] = IF dedup[p] = Never \/ dedup[p] >= MinInterval THEN MinInterval ELSE dedup[p]
    BY DEF AlertInv, QuietIsDedup
  <2>6. CASE dedup[p] = Never
    <3>1. dedup'[p] = Never
      BY <2>1, <2>6, AlertNat, OlderAge
    <3> QED
      BY <2>4, <2>5, <2>6, <3>1, AlertNat
  <2>7. CASE dedup[p] # Never
    <3>1. dedup'[p] = IF dedup[p] = Alert!PurgeAge THEN dedup[p] ELSE dedup[p] + 1
      BY <2>1, <2>2, <2>7, AlertNat, OlderAge
    <3>2. dedup[p] \in 0..Alert!PurgeAge
      BY <2>2, <2>7
    <3>3. dedup'[p] \in 0..Alert!PurgeAge /\ dedup'[p] # Never
      BY <3>1, <3>2, AlertNat
    <3> QED
      BY <2>2, <2>4, <2>5, <2>7, <3>1, <3>2, <3>3, AlertNat
  <2> QED
    BY <2>6, <2>7
<1>5. /\ dedup' \in [Alert!Pairs -> 0..Alert!PurgeAge \cup {Never}]
      /\ quiet' \in [Alert!Pairs -> 0..MinInterval]
  BY <1>4 DEF Alert!Advance
<1> QED
  BY <1>1, <1>2, <1>3, <1>4, <1>5 DEF AlertInv, Alert!TypeOK, QuietIsDedup

(* Purging drops only firings older than three intervals.                  *)
LEMMA PurgedKeeps ==
  ASSUME NEW d \in [Alert!Pairs -> 0..Alert!PurgeAge \cup {Never}], NEW p \in Alert!Pairs
  PROVE  /\ Alert!Purged(d) \in [Alert!Pairs -> 0..Alert!PurgeAge \cup {Never}]
         /\ Alert!Purged(d)[p] \in {d[p], Never}
         /\ Alert!Purged(d)[p] # d[p] => d[p] = Alert!PurgeAge
  BY DEF Alert!Purged

(* An alert is new in both tables, and only pairs that were quiet alert.   *)
LEMMA CheckStep ==
  ASSUME Alert!AlertAssumption, AlertInv, Alert!Check
  PROVE  AlertInv' /\ \A p \in fired' : quiet[p] = MinInterval
<1>1. /\ checks' \in 0..MaxLag /\ fired' \in SUBSET Alert!Pairs
      /\ UNCHANGED <<table, cache, hot, silence, phase, reloads>>
  BY AlertNat DEF AlertInv, Alert!TypeOK, Alert!Check
<1>2. CASE fired' = {} /\ UNCHANGED <<dedup, quiet>>
  BY <1>1, <1>2 DEF AlertInv, Alert!TypeOK, QuietIsDedup
<1>3. CASE /\ fired' = {p \in Alert!Pairs : Alert!ShouldFire(p)}
           /\ dedup' = Alert!Purged([p \in Alert!Pairs |-> IF p \in fired' THEN 0 ELSE dedup[p]])
           /\ quiet' = [p \in Alert!Pairs |-> IF p \in fired' THEN 0 ELSE quiet[p]]
  <2>1. PICK d : d = [p \in Alert!Pairs |-> IF p \in fired' THEN 0 ELSE dedup[p]]
    OBVIOUS
  <2>2. d \in [Alert!Pairs -> 0..Alert!PurgeAge \cup {Never}]
    BY <2>1, AlertNat DEF AlertInv, Alert!TypeOK
  <2>3. dedup' = Alert!Purged(d)
    BY <1>3, <2>1
  <2>4. /\ dedup' \in [Alert!Pairs -> 0..Alert!PurgeAge \cup {Never}]
        /\ \A p \in Alert!Pairs : /\ dedup'[p] \in {d[p], Never}
                                  /\ dedup'[p] # d[p] => d[p] = Alert!PurgeAge
    <3>1. CASE Alert!Pairs = {}
      BY <2>2, <2>3, <3>1 DEF Alert!Purged
    <3>2. CASE Alert!Pairs # {}
      BY <2>2, <2>3, <3>2, PurgedKeeps
    <3> QED
      BY <3>1, <3>2
  <2>5. quiet' \in [Alert!Pairs -> 0..MinInterval]
    BY <1>3, AlertNat DEF AlertInv, Alert!TypeOK
  <2>6. ASSUME NEW p \in Alert!Pairs
        PROVE  quiet'[p] = IF dedup'[p] = Never \/ dedup'[p] >= MinInterval
                           THEN MinInterval ELSE dedup'[p]
    <3>1. quiet[p] = IF dedup[p] = Never \/ dedup[p] >= MinInterval THEN MinInterval ELSE dedup[p]
      BY DEF AlertInv, QuietIsDedup
    <3>2. CASE p \in fired'
      <4>1. d[p] = 0 /\ quiet'[p] = 0
        BY <1>3, <2>1, <3>2
      <4>2. dedup'[p] = 0
        BY <2>4, <4>1, AlertNat
      <4> QED
        BY <4>1, <4>2, AlertNat
    <3>3. CASE p \notin fired'
      <4>1. d[p] = dedup[p] /\ quiet'[p] = quiet[p]
        BY <1>3, <2>1, <3>3
      <4>2. CASE dedup'[p] = d[p]
        BY <3>1, <4>1, <4>2
      <4>3. CASE dedup'[p] # d[p]
        <5>1. dedup'[p] = Never /\ d[p] = Alert!PurgeAge
          BY <2>4, <4>3
        <5>2. d[p] >= MinInterval
          BY <5>1, AlertNat
        <5> QED
          BY <3>1, <4>1, <5>1, <5>2
      <4> QED
        BY <4>2, <4>3
    <3> QED
      BY <3>2, <3>3
  <2>7. \A p \in fired' : quiet[p] = MinInterval
    BY <1>3 DEF Alert!ShouldFire, AlertInv, QuietIsDedup
  <2> QED
    BY <1>1, <2>4, <2>5, <2>6, <2>7 DEF AlertInv, Alert!TypeOK, QuietIsDedup
<1> QED
  BY <1>2, <1>3 DEF Alert!Check

LEMMA EditRulesTyped ==
  ASSUME Alert!AlertAssumption, AlertInv, Alert!EditRules
  PROVE  table' \in [Rules -> Alert!RuleDef \cup {NoRule, Deleted}]
<1>1. PICK r \in Rules :
        \/ \E d \in Defs : table' = [table EXCEPT ![r] = d]
        \/ /\ table[r] \in Alert!RuleDef
           /\ \/ \E b \in BOOLEAN : table' = [table EXCEPT ![r].enabled = b]
              \/ \E d \in Defs : table' = [table EXCEPT ![r].checks = d.checks]
              \/ table' = [table EXCEPT ![r] = Deleted]
  BY DEF Alert!EditRules
<1>2. table \in [Rules -> Alert!RuleDef \cup {NoRule, Deleted}] /\ Defs \subseteq Alert!RuleDef
  BY AlertNat DEF AlertInv, Alert!TypeOK
<1>3. CASE \E d \in Defs : table' = [table EXCEPT ![r] = d]
  BY <1>2, <1>3
<1>4. ASSUME table[r] \in Alert!RuleDef, NEW b \in BOOLEAN,
             table' = [table EXCEPT ![r].enabled = b]
      PROVE  table' \in [Rules -> Alert!RuleDef \cup {NoRule, Deleted}]
  <2>1. [table[r] EXCEPT !.enabled = b] \in Alert!RuleDef
    BY <1>4 DEF Alert!RuleDef
  <2> QED
    BY <1>2, <1>4, <2>1
<1>5. ASSUME table[r] \in Alert!RuleDef, NEW d \in Defs,
             table' = [table EXCEPT ![r].checks = d.checks]
      PROVE  table' \in [Rules -> Alert!RuleDef \cup {NoRule, Deleted}]
  <2>1. [table[r] EXCEPT !.checks = d.checks] \in Alert!RuleDef
    BY <1>2, <1>5 DEF Alert!RuleDef
  <2> QED
    BY <1>2, <1>5, <2>1
<1>6. CASE table' = [table EXCEPT ![r] = Deleted]
  BY <1>2, <1>6
<1> QED
  BY <1>1, <1>3, <1>4, <1>5, <1>6

LEMMA AlertStep ==
  ASSUME Alert!AlertAssumption, AlertInv, [Alert!Next]_Alert!vars
  PROVE  AlertInv' /\ [\A p \in fired' : quiet[p] = MinInterval]_Alert!vars
<1>1. CASE Alert!Advance
  BY <1>1, AdvanceStep DEF Alert!Advance
<1>2. CASE Alert!Check
  BY <1>2, CheckStep
<1>3. CASE Alert!Reload
  <2>1. cache' \in [Rules -> Alert!RuleDef \cup {NoRule}]
    BY <1>3, FetchedTyped DEF Alert!Reload
  <2>2. reloads' \in 0..MaxLag
    BY <1>3, AlertNat DEF AlertInv, Alert!TypeOK, Alert!Reload
  <2> QED
    BY <1>3, <2>1, <2>2 DEF AlertInv, Alert!TypeOK, QuietIsDedup, Alert!Reload
<1>4. CASE Alert!EditRules
  BY <1>4, EditRulesTyped DEF AlertInv, Alert!TypeOK, QuietIsDedup, Alert!EditRules
<1>5. CASE Alert!Report
  <2>1. PICK s \in Servers : /\ silence' = [silence EXCEPT ![s] = 0]
                             /\ hot' \in {hot \cup {s}, hot \ {s}}
    BY <1>5 DEF Alert!Report
  <2>2. silence' \in [Servers -> 0..OfflineAfter \cup {Never}] /\ hot' \in SUBSET Servers
    BY <2>1, AlertNat DEF AlertInv, Alert!TypeOK
  <2> QED
    BY <1>5, <2>2 DEF AlertInv, Alert!TypeOK, QuietIsDedup, Alert!Report
<1>6. CASE UNCHANGED Alert!vars
  BY <1>6 DEF AlertInv, Alert!TypeOK, QuietIsDedup, Alert!vars
<1> QED
  BY <1>1, <1>2, <1>3, <1>4, <1>5, <1>6 DEF Alert!Next

LEMMA AlertInvariant ==
  ASSUME Alert!AlertAssumption PROVE Alert!Spec => []AlertInv
<1>1. Alert!Init => AlertInv
  BY AlertInit
<1>2. AlertInv /\ [Alert!Next]_Alert!vars => AlertInv'
  BY AlertStep
<1> QED
  BY <1>1, <1>2, PTL DEF Alert!Spec

(* The alert loop's variables keep their types: no age, no number of late  *)
(* ticks and no table of rules leaves its range.                           *)
THEOREM AlertTypeCorrect ==
  ASSUME Alert!AlertAssumption PROVE Alert!Spec => []Alert!TypeOK
<1>1. AlertInv => Alert!TypeOK
  BY DEF AlertInv
<1> QED
  BY <1>1, AlertInvariant, PTL

(* alert.rs:71: two alerts of a rule for a server are at least min_interval *)
(* apart, for any rules, servers and intervals, however late the loop is,  *)
(* whatever is reloaded meanwhile, and when check_all cleans its table.    *)
THEOREM AlertsAreSpaced ==
  ASSUME Alert!AlertAssumption PROVE Alert!Spec => Alert!MinIntervalKept
<1>1. AlertInv /\ [Alert!Next]_Alert!vars => [\A p \in fired' : quiet[p] = MinInterval]_Alert!vars
  BY AlertStep
<1> QED
  BY <1>1, AlertInvariant, PTL DEF Alert!Spec, Alert!MinIntervalKept

(* The other half of AlertsAreSpaced: a check alerts for every pair that   *)
(* matches and has been quiet for min_interval.  The table of last firings *)
(* suppresses no alert longer than that, not even an alert of a rule that  *)
(* left the cache and came back.                                           *)
THEOREM NothingIsSuppressed ==
  ASSUME Alert!AlertAssumption PROVE Alert!Spec => Alert!NothingSuppressed
<1>1. ASSUME AlertInv, Alert!Check
      PROVE  fired' = {p \in Alert!Pairs :
                         Alert!Matched(cache[p[1]], p[2]) /\ quiet[p] = MinInterval}
  <2>1. ASSUME NEW p \in Alert!Pairs
        PROVE  (dedup[p] = Never \/ dedup[p] >= MinInterval) <=> quiet[p] = MinInterval
    <3>1. dedup[p] \in 0..Alert!PurgeAge \cup {Never}
      BY <1>1 DEF AlertInv, Alert!TypeOK
    <3>2. quiet[p] = IF dedup[p] = Never \/ dedup[p] >= MinInterval THEN MinInterval ELSE dedup[p]
      BY <1>1 DEF AlertInv, QuietIsDedup
    <3> QED
      BY <3>1, <3>2, AlertNat
  <2>2. CASE \A r \in Rules : cache[r] = NoRule
    <3>1. \A p \in Alert!Pairs : ~Alert!Matched(cache[p[1]], p[2])
      BY <2>2 DEF Alert!Matched, Alert!Pairs
    <3>2. fired' = {}
      BY <1>1, <2>2 DEF Alert!Check
    <3> QED
      BY <3>1, <3>2
  <2>3. CASE ~\A r \in Rules : cache[r] = NoRule
    <3>1. fired' = {p \in Alert!Pairs : Alert!ShouldFire(p)}
      BY <1>1, <2>3 DEF Alert!Check
    <3> QED
      BY <2>1, <3>1 DEF Alert!ShouldFire
  <2> QED
    BY <2>2, <2>3
<1>2. AlertInv /\ [Alert!Next]_Alert!vars =>
        [Alert!Check => \A p \in Alert!Pairs :
           Alert!Matched(cache[p[1]], p[2]) /\ quiet[p] = MinInterval => p \in fired']_Alert!vars
  BY <1>1
<1> QED
  BY <1>2, AlertInvariant, PTL DEF Alert!Spec, Alert!NothingSuppressed
=============================================================================
