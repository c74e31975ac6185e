------------------------------ MODULE AgentTasks ------------------------------
(***************************************************************************)
(* Task channels to the agents: AppState.task_senders, one mpsc sender per *)
(* server, filled and emptied by request_task (nezha-rpc/src/handler.rs)   *)
(* and used by the terminal handler (nezha-api/src/ws.rs).                 *)
(*                                                                         *)
(* A stream is one call of request_task.  Its agent can be gone long       *)
(* before the server notices (a half-open connection ends by HTTP/2        *)
(* keep-alive), and meanwhile the agent has already called again.          *)
(*                                                                         *)
(* The DashMap is a set of shards, each a blocking reader-writer lock: the *)
(* terminal handler keeps a read guard while it awaits room in the         *)
(* channel, so insert and remove on that shard wait.  Here a blocked       *)
(* operation blocks its own task only: threads are not modelled.           *)
(***************************************************************************)
EXTENDS Integers, Sequences, FiniteSets

CONSTANTS
  Servers,      \* ids the agents authenticate as
  Streams,      \* bound: calls of request_task under way at the same time
  Handlers,     \* bound: terminal handlers; each sends one task, named by it
  Capacity,     \* of the mpsc channel (128 in the code)
  Shards,
  ShardOf,      \* the shard of task_senders a server's entry is in
  None

ASSUME TasksAssumption ==
  /\ Capacity \in Nat \ {0}
  /\ ShardOf \in [Servers -> Shards]
  /\ None \notin Streams /\ None \notin Servers

VARIABLES
  senders,  \* task_senders: Servers -> Streams, or None
  owner,    \* the server a stream authenticated as, None if never used
  conn,     \* "up", "lost" (the agent is gone, unnoticed), "closed"
  reader,   \* the spawned reader: "none", "reading", "done"
  queue,    \* the tasks in a stream's channel
  handler,  \* the state of each terminal handler
  got       \* history: the tasks each server's agent has received

vars == <<senders, owner, conn, reader, queue, handler, got>>

Waiting == [stage |-> "idle"]
HandlerState ==
  [stage : {"idle", "refused", "failed"}]
    \cup [stage : {"sending", "sent"}, server : Servers, stream : Streams]

TypeOK ==
  /\ senders \in [Servers -> Streams \cup {None}]
  /\ owner \in [Streams -> Servers \cup {None}]
  /\ conn \in [Streams -> {"up", "lost", "closed"}]
  /\ reader \in [Streams -> {"none", "reading", "done"}]
  /\ queue \in [Streams -> Seq(Handlers)]
  /\ \A c \in Streams : Len(queue[c]) <= Capacity
  /\ handler \in [Handlers -> HandlerState]
  /\ got \in [Servers -> SUBSET Handlers]

Init ==
  /\ senders = [s \in Servers |-> None]
  /\ owner = [c \in Streams |-> None]
  /\ conn = [c \in Streams |-> "closed"]
  /\ reader = [c \in Streams |-> "none"]
  /\ queue = [c \in Streams |-> <<>>]
  /\ handler = [h \in Handlers |-> Waiting]
  /\ got = [s \in Servers |-> {}]

-----------------------------------------------------------------------------
\* A handler suspended in send() holds a read guard on its server's shard.
Guarded(s) ==
  \E h \in Handlers : /\ handler[h].stage = "sending"
                      /\ ShardOf[handler[h].server] = ShardOf[s]

-----------------------------------------------------------------------------
(* The agents.                                                             *)

\* An agent without a live stream calls request_task; check_auth gives the
\* call its server id.  A stream both of whose sides are over is used again.
Call(s, c) ==
  /\ conn[c] = "closed" /\ reader[c] # "reading"
  /\ \A d \in Streams : owner[d] = s => conn[d] # "up"
  /\ owner' = [owner EXCEPT ![c] = s]
  /\ conn' = [conn EXCEPT ![c] = "up"]
  /\ reader' = [reader EXCEPT ![c] = "none"]
  /\ UNCHANGED <<senders, queue, handler, got>>

\* The agent restarts, closes the stream, or its network fails.
Leave(c) ==
  /\ conn[c] = "up"
  /\ conn' = [conn EXCEPT ![c] = "lost"]
  /\ UNCHANGED <<senders, owner, reader, queue, handler, got>>

\* The server side gives the connection up: hyper drops the response stream
\* and with it the receiver; a handler still in check_auth is cancelled.
Close(c) ==
  /\ conn[c] = "lost"
  /\ conn' = [conn EXCEPT ![c] = "closed"]
  /\ queue' = [queue EXCEPT ![c] = <<>>]
  /\ UNCHANGED <<senders, owner, reader, handler, got>>

-----------------------------------------------------------------------------
(* request_task.                                                           *)

\* task_senders.insert(client_id, tx) drops the sender it displaces; then the
\* reader is spawned, with no await in between.
Register(c) ==
  /\ owner[c] # None /\ conn[c] # "closed" /\ reader[c] = "none"
  /\ ~Guarded(owner[c])
  /\ senders' = [senders EXCEPT ![owner[c]] = c]
  /\ reader' = [reader EXCEPT ![c] = "reading"]
  /\ UNCHANGED <<owner, conn, queue, handler, got>>

\* Deviation: the reader returns on an error and leaves the entry.
CleanupForgotten(c) ==
  /\ reader[c] = "reading" /\ conn[c] # "up"
  /\ reader' = [reader EXCEPT ![c] = "done"]
  /\ UNCHANGED <<senders, owner, conn, queue, handler, got>>

\* The inbound stream ends: the reader removes the entry of its client_id,
\* whichever stream it belongs to by now.
Cleanup(c) ==
  /\ reader[c] = "reading" /\ conn[c] # "up"
  /\ ~Guarded(owner[c])
  /\ senders' = [senders EXCEPT ![owner[c]] = None]
  /\ reader' = [reader EXCEPT ![c] = "done"]
  /\ UNCHANGED <<owner, conn, queue, handler, got>>

\* Deviation: the response ends as soon as the sender is dropped.
FinishUndrained(c) ==
  /\ conn[c] = "up" /\ reader[c] = "reading"
  /\ senders[owner[c]] # c
  /\ conn' = [conn EXCEPT ![c] = "closed"]
  /\ queue' = [queue EXCEPT ![c] = <<>>]
  /\ UNCHANGED <<senders, owner, reader, handler, got>>

\* The channel has no sender left and is drained: ReceiverStream ends, the
\* response completes with the receiver, and the agent ends its side.
Finish(c) ==
  /\ conn[c] = "up" /\ reader[c] = "reading"
  /\ senders[owner[c]] # c
  /\ queue[c] = <<>>
  /\ conn' = [conn EXCEPT ![c] = "closed"]
  /\ UNCHANGED <<senders, owner, reader, queue, handler, got>>

\* hyper polls the response stream and writes a task to the connection; the
\* agent receives it if it is still there.
Transmit(c) ==
  /\ queue[c] # <<>>
  /\ queue' = [queue EXCEPT ![c] = Tail(@)]
  /\ got' = IF conn[c] = "up"
              THEN [got EXCEPT ![owner[c]] = @ \cup {Head(queue[c])}]
              ELSE got
  /\ UNCHANGED <<senders, owner, conn, reader, handler>>

-----------------------------------------------------------------------------
(* handle_terminal_ws, from task_senders.get to the end of send().await.   *)

\* Some(sender): the handler holds the guard and the sender behind it.
Lookup(h, s) ==
  /\ handler[h] = Waiting
  /\ senders[s] # None
  /\ handler' = [handler EXCEPT ![h] =
                   [stage |-> "sending", server |-> s, stream |-> senders[s]]]
  /\ UNCHANGED <<senders, owner, conn, reader, queue, got>>

\* None: the handler returns.
Refuse(h, s) ==
  /\ handler[h] = Waiting
  /\ senders[s] = None
  /\ handler' = [handler EXCEPT ![h] = [stage |-> "refused"]]
  /\ UNCHANGED <<senders, owner, conn, reader, queue, got>>

\* Deviation: an unbounded channel.
SendUnbounded(h) ==
  /\ handler[h].stage = "sending"
  /\ LET c == handler[h].stream IN
       /\ conn[c] # "closed"
       /\ queue' = [queue EXCEPT ![c] = Append(@, h)]
  /\ handler' = [handler EXCEPT ![h].stage = "sent"]
  /\ UNCHANGED <<senders, owner, conn, reader, got>>

\* There is room: the task is in the channel and the guard is released.
Send(h) ==
  /\ handler[h].stage = "sending"
  /\ LET c == handler[h].stream IN
       /\ conn[c] # "closed"
       /\ Len(queue[c]) < Capacity
       /\ queue' = [queue EXCEPT ![c] = Append(@, h)]
  /\ handler' = [handler EXCEPT ![h].stage = "sent"]
  /\ UNCHANGED <<senders, owner, conn, reader, got>>

\* The receiver is gone: send() fails and the handler returns.
SendFails(h) ==
  /\ handler[h].stage = "sending"
  /\ conn[handler[h].stream] = "closed"
  /\ handler' = [handler EXCEPT ![h] = [stage |-> "failed"]]
  /\ UNCHANGED <<senders, owner, conn, reader, queue, got>>

-----------------------------------------------------------------------------
StreamStep(c) ==
  Register(c) \/ Cleanup(c) \/ Finish(c) \/ Transmit(c) \/ Close(c)

\* Deviation: the sender keeps waiting on a channel without a receiver.
HandlerStepDeaf(h) == Send(h)

HandlerStep(h) == Send(h) \/ SendFails(h)

Next ==
  \/ \E s \in Servers, c \in Streams : Call(s, c)
  \/ \E c \in Streams : StreamStep(c) \/ Leave(c)
  \/ \E h \in Handlers : HandlerStep(h) \/ \E s \in Servers : Lookup(h, s) \/ Refuse(h, s)

Spec == Init /\ [][Next]_vars

\* tokio polls what is ready; hyper writes what the agent can take and ends a
\* dead connection by its keep-alive (main.rs: 30 s interval, 15 s timeout).
\* Nothing is assumed of the agents: they may leave, stay, or never call.
Fairness ==
  /\ \A c \in Streams : /\ WF_vars(Register(c)) /\ WF_vars(Cleanup(c))
                        /\ WF_vars(Finish(c)) /\ WF_vars(Transmit(c))
                        /\ WF_vars(Close(c))
  /\ \A h \in Handlers : WF_vars(HandlerStep(h))

FairSpec == Spec /\ Fairness

-----------------------------------------------------------------------------
(* An entry of task_senders belongs to a stream of that server whose       *)
(* reader is still running, so somebody is left to remove it: reconnects   *)
(* and late cleanups never leave an entry nobody owns.                     *)
EntryHasReader ==
  \A s \in Servers : senders[s] # None =>
    /\ owner[senders[s]] = s
    /\ reader[senders[s]] = "reading"

(* While a handler waits for room in a channel, that channel stays the     *)
(* registered one: a task is never accepted by a stream the agent's newer  *)
(* stream has displaced.                                                   *)
SendGoesToRegistered ==
  \A h \in Handlers : handler[h].stage = "sending" =>
    senders[handler[h].server] = handler[h].stream

(* A terminal handler always comes out of send().await: the agent drains   *)
(* its channel or its connection is closed under it.                       *)
SendReturns ==
  \A h \in Handlers : handler[h].stage = "sending" ~> handler[h].stage # "sending"

Queued(h, c) == \E n \in 1..Len(queue[c]) : queue[c][n] = h

(* A task accepted by a channel reaches the agent of the server it was     *)
(* meant for unless the agent leaves: a sender that is displaced or        *)
(* removed before the channel is drained does not lose it.                 *)
AcceptedIsDelivered ==
  \A h \in Handlers, c \in Streams :
    Queued(h, c) ~> \/ conn[c] = "lost"
                    \/ \E s \in Servers : h \in got[s] /\ handler[h].server = s

(* An entry does not outlive its agent: once the registered stream is lost *)
(* the entry goes away.                                                    *)
DeadEntryRemoved ==
  \A s \in Servers, c \in Streams :
    senders[s] = c /\ conn[c] # "up" ~> senders[s] # c

=============================================================================
