------------------------------ MODULE ShardGuard ------------------------------
(***************************************************************************)
(* The worker threads of the tokio runtime and the shard locks of the      *)
(* DashMaps AppState.servers and AppState.services.                        *)
(*                                                                         *)
(* A shard lock blocks the THREAD that wants it, and a guard that is alive *)
(* across an .await stays locked while its task is on no thread at all.    *)
(* So a handler is, here, the sequence of what it does to the locks: take  *)
(* one for reading or writing, drop it, await something outside (a         *)
(* database).  Which locks a task holds follows from where it is in its    *)
(* sequence.                                                               *)
(***************************************************************************)
EXTENDS Integers, Sequences, FiniteSets

CONSTANTS
  Requests,    \* bound: requests and stream messages, one task each
  Threads,     \* number of worker threads
  Last,        \* number of shards of `servers`
  FreshShards, \* the shards that ids of new servers hash to
  Handlers     \* bound: the handlers that are called

Shards   == 1..Last
Services == 0            \* the shard of `services`
Locks    == {Services} \cup Shards

Kinds == {"reportState", "setEntry", "register", "checkAuth", "contains",
          "list", "push", "listServices", "history", "monitorHistory",
          "withServices", "update", "delete", "create", "serviceUpdate",
          "serviceCheck"}

ASSUME GuardAssumption ==
  /\ IsFiniteSet(Requests)
  /\ Threads \in Nat \ {0} /\ Last \in Nat \ {0}
  /\ FreshShards \subseteq Shards
  /\ Handlers \subseteq Kinds

VARIABLES
  code,  \* the lock sequence of each request; <<>> before it arrives
  pc,    \* the position in it
  at     \* where the task is: "new", "queued", "running", "io", "done"

vars == <<code, pc, at>>

-----------------------------------------------------------------------------
(* What the handlers do to the locks.                                      *)

Read(s)  == [op |-> "read", lock |-> s]
Write(s) == [op |-> "write", lock |-> s]
Drop(s)  == [op |-> "drop", lock |-> s]
Await    == [op |-> "await", lock |-> Services]

Instruction == [op : {"read", "write", "drop", "await"}, lock : Locks]

\* The first n steps of an iteration over the shards: DashMap's Iter takes the
\* next shard before it drops the one it has.
Scan(n) ==
  [i \in 1..n |-> IF i = 1 THEN Read(1)
                  ELSE IF i % 2 = 0 THEN Read((i \div 2) + 1) ELSE Drop(i \div 2)]

\* An iteration that ends, or is left, in shard s; the guard of s is the last
\* one dropped.
ScanTo(s) == Append(Scan((2 * s) - 1), Drop(s))

\* report_system_state: get_mut, and the entry is kept while the row of the
\* state is written; at most once a minute, else there is no row.
ReportState(s) == {<<Write(s), Await, Drop(s)>>, <<Write(s), Drop(s)>>}

\* report_system_info, report_system_info2, report_geo_ip (whose update of the
\* DNS awaits nothing: it spawns).
SetEntry(s) == {<<Write(s), Drop(s)>>}

\* check_auth with an unknown uuid: the Iter in the scrutinee of the match has
\* come to its end and lives until the match ends, with the guard of the last
\* shard; the INSERT may fail.
Register(s) ==
  {Scan((2 * Last) - 1) \o <<Await, Write(s), Drop(s), Drop(Last)>>,
   Scan((2 * Last) - 1) \o <<Await, Drop(Last)>>}

\* check_auth with a known uuid: find stops in the shard of its entry.
CheckAuth(s) == {ScanTo(s)}

\* contains_key and get: check_auth with a client_id, get_config, the terminal
\* handlers.
Contains(s) == {<<Read(s), Drop(s)>>}

\* list, check_all.
List == {ScanTo(Last)}

\* One round of handle_ws: build_stream_data, then the socket is awaited.
Push == {ScanTo(Last) \o <<Await>>}

\* list_server_services: get, then an iteration over `services`, then the
\* queries.
ListServices(s) == {<<Read(s), Drop(s), Read(Services), Drop(Services), Await>>}

\* history: the service's name, the query, then get for every server of it.
History(s) == {<<Read(Services), Drop(Services), Await, Read(s), Drop(s)>>}

\* monitor_history: the service is cloned, the servers are collected, and the
\* queries come after that.
MonitorHistory == {<<Read(Services), Drop(Services)>> \o ScanTo(Last) \o <<Await>>}

\* list_server_with_services: an iteration within an iteration.
WithServices == {<<Read(Services)>> \o ScanTo(Last) \o <<Drop(Services)>>}

\* Deviation: the Ref of the existence check is kept until the handler returns.
UpdateKeepingRef(s) == {<<Read(s), Await, Write(s), Drop(s)>>}

\* update: contains_key, UPDATE, get_mut.
Update(s) == {<<Read(s), Drop(s), Await, Write(s), Drop(s)>>}

\* batch_delete: remove, DELETE.
Delete(s) == {<<Write(s), Drop(s), Await>>}

\* create: INSERT, insert.
Create(s) == {<<Await, Write(s), Drop(s)>>}

\* The task of a check: the check, then get_mut.
ServiceCheck == {<<Await, Write(Services), Drop(Services)>>}

Programs(h) ==
  CASE h = "reportState"    -> UNION {ReportState(s) : s \in Shards}
    [] h = "setEntry"       -> UNION {SetEntry(s) : s \in Shards}
    [] h = "register"       -> UNION {Register(s) : s \in FreshShards}
    [] h = "checkAuth"      -> UNION {CheckAuth(s) : s \in Shards}
    [] h = "contains"       -> UNION {Contains(s) : s \in Shards}
    [] h = "list"           -> List
    [] h = "push"           -> Push
    [] h = "listServices"   -> UNION {ListServices(s) : s \in Shards}
    [] h = "history"        -> UNION {History(s) : s \in Shards}
    [] h = "monitorHistory" -> MonitorHistory
    [] h = "withServices"   -> WithServices
    [] h = "update"         -> UNION {Update(s) : s \in Shards}
    [] h = "delete"         -> UNION {Delete(s) : s \in Shards}
    [] h = "create"         -> UNION {Create(s) : s \in FreshShards}
    [] h = "serviceUpdate"  -> Update(Services)
    [] h = "serviceCheck"   -> ServiceCheck

AllPrograms == UNION {Programs(h) : h \in Handlers}

-----------------------------------------------------------------------------
(* Who holds what.                                                         *)

\* In program c, the lock of step i is dropped before step k.
Dropped(c, i, k) ==
  \E j \in (i + 1)..(k - 1) : c[j].op = "drop" /\ c[j].lock = c[i].lock

\* The steps of c whose locks are held when it is at step k.
Held(c, k) ==
  {i \in 1..(k - 1) : c[i].op \in {"read", "write"} /\ ~Dropped(c, i, k)}

Holds(r, op, s) ==
  \E i \in Held(code[r], pc[r]) : code[r][i].op = op /\ code[r][i].lock = s

ReadLocked(s)  == \E r \in Requests : Holds(r, "read", s)
WriteLocked(s) == \E r \in Requests : Holds(r, "write", s)

Next1(r) == code[r][pc[r]]

\* The lock step at hand can be taken now: a reader waits for the writer, a
\* writer for everyone, itself included.
Available(i) ==
  \/ i.op = "drop"
  \/ i.op = "read" /\ ~WriteLocked(i.lock)
  \/ i.op = "write" /\ ~WriteLocked(i.lock) /\ ~ReadLocked(i.lock)

Running == {r \in Requests : at[r] = "running"}

-----------------------------------------------------------------------------
Init ==
  /\ code = [r \in Requests |-> <<>>]
  /\ pc = [r \in Requests |-> 1]
  /\ at = [r \in Requests |-> "new"]

\* A request, or a message of a stream, comes in.
Arrive(r) ==
  /\ at[r] = "new"
  /\ \E c \in AllPrograms : code' = [code EXCEPT ![r] = c]
  /\ at' = [at EXCEPT ![r] = "queued"]
  /\ UNCHANGED pc

\* A thread that is free takes a task that is ready.
Poll(r) ==
  /\ at[r] = "queued"
  /\ Cardinality(Running) < Threads
  /\ at' = [at EXCEPT ![r] = "running"]
  /\ UNCHANGED <<code, pc>>

\* The next lock is taken or dropped.  While it cannot be taken the thread
\* waits, and polls no other task.
LockStep(r) ==
  /\ at[r] = "running" /\ pc[r] <= Len(code[r])
  /\ Available(Next1(r))
  /\ pc' = [pc EXCEPT ![r] = @ + 1]
  /\ UNCHANGED <<code, at>>

\* An .await that is not ready gives the thread back.
Suspend(r) ==
  /\ at[r] = "running" /\ pc[r] <= Len(code[r])
  /\ Next1(r).op = "await"
  /\ at' = [at EXCEPT ![r] = "io"]
  /\ pc' = [pc EXCEPT ![r] = @ + 1]
  /\ UNCHANGED code

\* Deviation: a task that wakes goes on behind the step after its await.
WakeAhead(r) ==
  /\ at[r] = "io"
  /\ at' = [at EXCEPT ![r] = "queued"]
  /\ pc' = [pc EXCEPT ![r] = @ + 1]
  /\ UNCHANGED code

\* The database answers, or the client is gone.
Wake(r) ==
  /\ at[r] = "io"
  /\ at' = [at EXCEPT ![r] = "queued"]
  /\ UNCHANGED <<code, pc>>

\* The tasks that go on when the client is gone: they are spawned.
Spawned == Push \cup ServiceCheck \cup UNION {ReportState(s) : s \in Shards}

\* A handler that is polled when its client is gone, and its database still has
\* no answer, is dropped at the .await, and its guards with it.
Abandon(r) ==
  /\ at[r] = "running" /\ pc[r] > 1
  /\ code[r][pc[r] - 1].op = "await" /\ code[r] \notin Spawned
  /\ at' = [at EXCEPT ![r] = "done"]
  /\ pc' = [pc EXCEPT ![r] = Len(code[r]) + 1]
  /\ UNCHANGED code

Return(r) ==
  /\ at[r] = "running" /\ pc[r] > Len(code[r])
  /\ at' = [at EXCEPT ![r] = "done"]
  /\ UNCHANGED <<code, pc>>

TaskStep(r) == Poll(r) \/ LockStep(r) \/ Suspend(r) \/ Wake(r)
               \/ Abandon(r) \/ Return(r)

Next == \E r \in Requests : Arrive(r) \/ TaskStep(r)

Spec == Init /\ [][Next]_vars

-----------------------------------------------------------------------------
TypeOK ==
  /\ code \in [Requests -> AllPrograms \cup {<<>>}]
  /\ pc \in [Requests -> Nat \ {0}]
  /\ at \in [Requests -> {"new", "queued", "running", "io", "done"}]
  /\ \A r \in Requests :
       /\ at[r] # "new" => code[r] \in AllPrograms
       /\ at[r] \in {"new", "queued", "running", "io"} => pc[r] <= Len(code[r]) + 1

(* What a shard lock is for: an entry that some task may be changing, on a *)
(* thread or asleep in an .await, is held by no other task.                *)
Exclusive ==
  \A r, q \in Requests, s \in Locks :
    Holds(r, "write", s) /\ (Holds(q, "read", s) \/ Holds(q, "write", s)) => r = q

\* Some task can go on: one that waits for the database, one that is ready and
\* a thread for it, or one on a thread whose lock is free.
SomeoneMoves ==
  \E q \in Requests :
    \/ at[q] = "io"
    \/ at[q] = "queued" /\ Cardinality(Running) < Threads
    \/ at[q] = "running" /\ (\/ pc[q] > Len(code[q])
                             \/ Next1(q).op = "await"
                             \/ Available(Next1(q)))

\* The handlers that keep a guard across an .await.
Registrations == UNION {Register(s) : s \in FreshShards}
Keepers       == Registrations \cup UNION {ReportState(s) : s \in Shards}

\* The lock that p wants next is one that q has.
InTheWay(p, q) ==
  /\ pc[p] <= Len(code[p])
  /\ \/ Next1(p).op \in {"read", "write"} /\ Holds(q, "write", Next1(p).lock)
     \/ Next1(p).op = "write" /\ Holds(q, "read", Next1(p).lock)

\* Every thread is taken, one of them by a task that waits for a report of the
\* state or a registration that is ready, and keeps its guard.
WaitsForThread ==
  /\ Cardinality(Running) >= Threads
  /\ \E p, q \in Requests :
       /\ at[p] = "running" /\ at[q] = "queued"
       /\ code[q] \in Keepers
       /\ InTheWay(p, q)

\* A registration whose id hashes to the last shard waits for the guard that it
\* keeps itself.
WaitsForItself ==
  \E p \in Requests :
    /\ at[p] = "running"
    /\ code[p] \in Registrations
    /\ Next1(p) = Write(Last) /\ Holds(p, "read", Last)

(* While a request is not answered some task can go on, but for the two    *)
(* deadlocks the code has: on the threads, when the guard of a task that   *)
(* has slept is what they wait for, and of a registration with itself.  No *)
(* other guard, and no iteration within an iteration, locks anybody out.   *)
NoOtherDeadlock ==
  (\E r \in Requests : at[r] \in {"queued", "running", "io"})
    => SomeoneMoves \/ WaitsForThread \/ WaitsForItself

(* service.rs:266, "此时再遍历 servers，不会死锁": to iterate over servers now *)
(* will not deadlock.                                                      *)
HistoryNoDeadlock ==
  (\E r \in Requests : at[r] = "running" /\ code[r] \in MonitorHistory)
    => SomeoneMoves

=============================================================================
