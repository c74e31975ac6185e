--------------------------- MODULE AgentTasksProofs ---------------------------
(***************************************************************************)
(* The task channels for any number of servers, streams, handlers and      *)
(* shards: an entry always has a reader that will remove it, and a handler *)
(* that waits for room waits on the registered channel.  With the types    *)
(* these two are inductive, and on them rests the account of the tasks:    *)
(* where an accepted one is, and how it leaves its channel; and that of    *)
(* the entry of an agent that has left.                                    *)
(***************************************************************************)
EXTENDS AgentTasks, TLAPS

IInv == TypeOK /\ EntryHasReader /\ SendGoesToRegistered

-----------------------------------------------------------------------------
(* A handler in send() knows its server and its channel.                   *)
LEMMA SenderShape ==
  ASSUME TypeOK, NEW h \in Handlers, handler[h].stage = "sending"
  PROVE  handler[h].server \in Servers /\ handler[h].stream \in Streams
  BY DEF TypeOK, HandlerState

(* What a handler can become.                                              *)
LEMMA HandlerStates ==
  /\ \A s \in Servers, c \in Streams :
       [stage |-> "sending", server |-> s, stream |-> c] \in HandlerState
  /\ [stage |-> "refused"] \in HandlerState
  /\ [stage |-> "failed"] \in HandlerState
  /\ Waiting \in HandlerState
  BY DEF HandlerState, Waiting

(* Sending turns into sent and keeps the server and the channel.           *)
LEMMA SentShape ==
  ASSUME TypeOK, NEW h \in Handlers, handler[h].stage = "sending"
  PROVE  [handler[h] EXCEPT !.stage = "sent"] \in HandlerState
  BY DEF TypeOK, HandlerState

LEMMA SentStage ==
  ASSUME TypeOK, NEW h \in Handlers, handler[h].stage = "sending"
  PROVE  [handler[h] EXCEPT !.stage = "sent"].stage = "sent"
  BY DEF TypeOK, HandlerState

-----------------------------------------------------------------------------
(* Every variable keeps its type; in particular no channel ever holds more *)
(* tasks than its capacity.                                                *)
THEOREM TypeCorrect == Spec => []TypeOK
<1>1. Init => TypeOK
  BY TasksAssumption, HandlerStates DEF Init, TypeOK
<1>2. TypeOK /\ [Next]_vars => TypeOK'
  <2> SUFFICES ASSUME TypeOK, [Next]_vars
               PROVE  TypeOK'
    OBVIOUS
  <2> USE TasksAssumption
  <2>1. ASSUME NEW s \in Servers, NEW c \in Streams, Call(s, c)
        PROVE  TypeOK'
    BY <2>1 DEF Call, TypeOK
  <2>2. ASSUME NEW c \in Streams, Leave(c)
        PROVE  TypeOK'
    BY <2>2 DEF Leave, TypeOK
  <2>3. ASSUME NEW c \in Streams, Close(c)
        PROVE  TypeOK'
    BY <2>3 DEF Close, TypeOK
  <2>4. ASSUME NEW c \in Streams, Register(c)
        PROVE  TypeOK'
    BY <2>4 DEF Register, TypeOK
  <2>5. ASSUME NEW c \in Streams, Cleanup(c)
        PROVE  TypeOK'
    BY <2>5 DEF Cleanup, TypeOK
  <2>6. ASSUME NEW c \in Streams, Finish(c)
        PROVE  TypeOK'
    BY <2>6 DEF Finish, TypeOK
  <2>7. ASSUME NEW c \in Streams, Transmit(c)
        PROVE  TypeOK'
    <3>1. /\ queue[c] \in Seq(Handlers) /\ queue[c] # <<>>
          /\ Len(queue[c]) <= Capacity
      BY <2>7 DEF Transmit, TypeOK
    <3>2. /\ Head(queue[c]) \in Handlers
          /\ Tail(queue[c]) \in Seq(Handlers)
          /\ Len(Tail(queue[c])) <= Capacity
      BY <3>1
    <3>3. got' \in [Servers -> SUBSET Handlers]
      BY <2>7, <3>2 DEF Transmit, TypeOK
    <3>4. QED
      BY <2>7, <3>2, <3>3 DEF Transmit, TypeOK
  <2>8. ASSUME NEW h \in Handlers, NEW s \in Servers, Lookup(h, s)
        PROVE  TypeOK'
    BY <2>8, HandlerStates DEF Lookup, TypeOK
  <2>9. ASSUME NEW h \in Handlers, NEW s \in Servers, Refuse(h, s)
        PROVE  TypeOK'
    BY <2>9, HandlerStates DEF Refuse, TypeOK
  <2>10. ASSUME NEW h \in Handlers, Send(h)
         PROVE  TypeOK'
    <3> DEFINE c == handler[h].stream
    <3>1. c \in Streams /\ [handler[h] EXCEPT !.stage = "sent"] \in HandlerState
      BY <2>10, SenderShape, SentShape DEF Send
    <3>2. /\ queue[c] \in Seq(Handlers)
          /\ Len(queue[c]) < Capacity
      BY <2>10, <3>1 DEF Send, TypeOK
    <3>3. Append(queue[c], h) \in Seq(Handlers) /\ Len(Append(queue[c], h)) <= Capacity
      BY <3>2
    <3>4. /\ queue' \in [Streams -> Seq(Handlers)]
          /\ \A d \in Streams : Len(queue'[d]) <= Capacity
      BY <2>10, <3>1, <3>3 DEF Send, TypeOK
    <3>5. handler' \in [Handlers -> HandlerState]
      BY <2>10, <3>1 DEF Send, TypeOK
    <3>6. QED
      BY <2>10, <3>4, <3>5 DEF Send, TypeOK
  <2>11. ASSUME NEW h \in Handlers, SendFails(h)
         PROVE  TypeOK'
    BY <2>11, HandlerStates DEF SendFails, TypeOK
  <2>12. ASSUME UNCHANGED vars
         PROVE  TypeOK'
    BY <2>12 DEF vars, TypeOK
  <2>13. QED
    BY <2>1, <2>2, <2>3, <2>4, <2>5, <2>6, <2>7, <2>8, <2>9, <2>10, <2>11,
       <2>12 DEF Next, StreamStep, HandlerStep
<1>3. QED
  BY <1>1, <1>2, PTL DEF Spec

-----------------------------------------------------------------------------
(* A step that leaves the map, the owners and the handlers alone, and at   *)
(* most starts a connection or closes one, keeps both facts.               *)
LEMMA QuietStep ==
  ASSUME EntryHasReader, SendGoesToRegistered,
         UNCHANGED <<senders, owner, reader, handler>>
  PROVE  EntryHasReader' /\ SendGoesToRegistered'
  BY DEF EntryHasReader, SendGoesToRegistered

LEMMA Inductive == IInv /\ [Next]_vars => EntryHasReader' /\ SendGoesToRegistered'
<1> SUFFICES ASSUME IInv, [Next]_vars
             PROVE  EntryHasReader' /\ SendGoesToRegistered'
  OBVIOUS
<1> USE TasksAssumption DEF IInv
<1>1. ASSUME NEW s \in Servers, NEW c \in Streams, Call(s, c)
      PROVE  EntryHasReader' /\ SendGoesToRegistered'
  \* No entry points at the stream: its reader would be running.
  <2>1. \A t \in Servers : senders[t] # None => senders[t] # c
    BY <1>1 DEF Call, EntryHasReader
  <2>2. EntryHasReader'
    BY <1>1, <2>1 DEF Call, EntryHasReader, TypeOK
  <2>3. SendGoesToRegistered'
    BY <1>1 DEF Call, SendGoesToRegistered
  <2>4. QED
    BY <2>2, <2>3
<1>2. ASSUME NEW c \in Streams, Register(c)
      PROVE  EntryHasReader' /\ SendGoesToRegistered'
  <2>1. owner[c] \in Servers /\ c # None
    BY <1>2 DEF Register, TypeOK
  <2>2. /\ senders'[owner[c]] = c
        /\ \A t \in Servers \ {owner[c]} : senders'[t] = senders[t]
        /\ reader'[c] = "reading"
        /\ \A d \in Streams \ {c} : reader'[d] = reader[d]
    BY <1>2, <2>1 DEF Register, TypeOK
  <2>3. EntryHasReader'
    BY <1>2, <2>1, <2>2 DEF Register, EntryHasReader, TypeOK
  \* Nobody sends to this server: its shard would be guarded.
  <2>4. \A h \in Handlers : handler[h].stage = "sending" => handler[h].server # owner[c]
    BY <1>2 DEF Register, Guarded
  <2>5. SendGoesToRegistered'
    BY <1>2, <2>2, <2>4, SenderShape DEF Register, SendGoesToRegistered
  <2>6. QED
    BY <2>3, <2>5
<1>3. ASSUME NEW c \in Streams, Cleanup(c)
      PROVE  EntryHasReader' /\ SendGoesToRegistered'
  \* The only entry that can point at the stream is the one removed.
  <2>1. \A t \in Servers : senders[t] # None /\ senders[t] = c => t = owner[c]
    BY DEF EntryHasReader
  <2>2. /\ \A t \in Servers : senders'[t] = IF t = owner[c] THEN None ELSE senders[t]
        /\ \A d \in Streams \ {c} : reader'[d] = reader[d]
    BY <1>3 DEF Cleanup, TypeOK
  <2>3. EntryHasReader'
    BY <1>3, <2>1, <2>2 DEF Cleanup, EntryHasReader, TypeOK
  <2>4. \A h \in Handlers : handler[h].stage = "sending" => handler[h].server # owner[c]
    BY <1>3 DEF Cleanup, Guarded
  <2>5. SendGoesToRegistered'
    BY <1>3, <2>2, <2>4, SenderShape DEF Cleanup, SendGoesToRegistered
  <2>6. QED
    BY <2>3, <2>5
<1>4. ASSUME NEW c \in Streams, Leave(c) \/ Close(c) \/ Finish(c) \/ Transmit(c)
      PROVE  EntryHasReader' /\ SendGoesToRegistered'
  BY <1>4, QuietStep DEF Leave, Close, Finish, Transmit
<1>5. ASSUME NEW h \in Handlers, NEW s \in Servers, Lookup(h, s)
      PROVE  EntryHasReader' /\ SendGoesToRegistered'
  BY <1>5 DEF Lookup, EntryHasReader, SendGoesToRegistered, TypeOK
<1>6. ASSUME NEW h \in Handlers, NEW s \in Servers, Refuse(h, s)
      PROVE  EntryHasReader' /\ SendGoesToRegistered'
  BY <1>6 DEF Refuse, EntryHasReader, SendGoesToRegistered, TypeOK
<1>7. ASSUME NEW h \in Handlers, Send(h)
      PROVE  EntryHasReader' /\ SendGoesToRegistered'
  <2>1. handler'[h].stage = "sent"
    BY <1>7, SentStage DEF Send, TypeOK
  <2>2. \A g \in Handlers \ {h} : handler'[g] = handler[g]
    BY <1>7 DEF Send, TypeOK
  <2>3. QED
    BY <1>7, <2>1, <2>2 DEF Send, EntryHasReader, SendGoesToRegistered
<1>8. ASSUME NEW h \in Handlers, SendFails(h)
      PROVE  EntryHasReader' /\ SendGoesToRegistered'
  BY <1>8 DEF SendFails, EntryHasReader, SendGoesToRegistered, TypeOK
<1>9. ASSUME UNCHANGED vars
      PROVE  EntryHasReader' /\ SendGoesToRegistered'
  BY <1>9, QuietStep DEF vars
<1>10. QED
  BY <1>1, <1>2, <1>3, <1>4, <1>5, <1>6, <1>7, <1>8, <1>9
     DEF Next, StreamStep, HandlerStep

LEMMA Invariant == Spec => []IInv
<1>1. Init => EntryHasReader /\ SendGoesToRegistered
  BY DEF Init, EntryHasReader, SendGoesToRegistered, Waiting
<1>2. QED
  BY <1>1, Inductive, TypeCorrect, PTL DEF IInv, Spec

(* However reconnects and late cleanups interleave, an entry of            *)
(* task_senders belongs to a stream of that server whose reader is still   *)
(* there to remove it.                                                     *)
THEOREM EntriesAreOwned == Spec => []EntryHasReader
  BY Invariant, PTL DEF IInv

(* The guard a terminal handler holds across send().await pins the entry:  *)
(* the channel it waits on is still the registered one.                    *)
THEOREM SendsToRegistered == Spec => []SendGoesToRegistered
  BY Invariant, PTL DEF IInv

-----------------------------------------------------------------------------
(* Safety beneath AcceptedIsDelivered: where an accepted task can be, and  *)
(* how it leaves.                                                          *)

\* A stream that is over has nothing queued, so the agent that uses it next
\* starts with an empty channel.
ClosedIsEmpty == \A c \in Streams : conn[c] = "closed" => queue[c] = <<>>

\* What is queued was accepted by this stream, for this stream's server.
QueuedIsSent ==
  \A c \in Streams : \A n \in 1..Len(queue[c]) :
    /\ handler[queue[c][n]].stage = "sent"
    /\ handler[queue[c][n]].stream = c
    /\ handler[queue[c][n]].server = owner[c]

QueuedOnce ==
  \A c \in Streams : \A n, m \in 1..Len(queue[c]) : queue[c][n] = queue[c][m] => n = m

\* What an agent has received was meant for its server, and is queued no more.
GotIsOwn ==
  \A s \in Servers : \A h \in got[s] :
    /\ handler[h].stage = "sent" /\ handler[h].server = s
    /\ \A c \in Streams : ~Queued(h, c)

TasksAccounted == ClosedIsEmpty /\ QueuedIsSent /\ QueuedOnce /\ GotIsOwn

(* A task leaves its channel as the first, and to the agent of its server  *)
(* if that is there, or with everything else once the agent has left. No   *)
(* reconnect, late cleanup or displaced sender takes one out, or lets one  *)
(* overtake another.                                                       *)
LeavesInOrder ==
  \A c \in Streams : \A n \in 1..Len(queue[c]) :
    \/ /\ ~Transmit(c)
       /\ n \in 1..Len(queue'[c]) /\ queue'[c][n] = queue[c][n]
    \/ n > 1 /\ n - 1 \in 1..Len(queue'[c]) /\ queue'[c][n - 1] = queue[c][n]
    \/ n = 1 /\ (conn[c] = "up" => queue[c][1] \in got'[handler[queue[c][1]].server])
    \/ conn[c] = "lost" /\ queue'[c] = <<>>

(* Shapes: who a task is, once queued or sent.                             *)
LEMMA QueuedTask ==
  ASSUME TypeOK, NEW c \in Streams
  PROVE  /\ queue[c] \in Seq(Handlers) /\ Len(queue[c]) \in Nat
         /\ \A n \in 1..Len(queue[c]) : queue[c][n] \in Handlers
  BY DEF TypeOK

LEMMA SentTask ==
  ASSUME TypeOK, NEW h \in Handlers, handler[h].stage = "sent"
  PROVE  handler[h].server \in Servers /\ handler[h].stream \in Streams
  BY DEF TypeOK, HandlerState

LEMMA SentKeeps ==
  ASSUME TypeOK, NEW h \in Handlers, handler[h].stage = "sending"
  PROVE  /\ [handler[h] EXCEPT !.stage = "sent"].stage = "sent"
         /\ [handler[h] EXCEPT !.stage = "sent"].server = handler[h].server
         /\ [handler[h] EXCEPT !.stage = "sent"].stream = handler[h].stream
  BY DEF TypeOK, HandlerState

LEMMA TailShape ==
  ASSUME NEW q \in Seq(Handlers), q # <<>>
  PROVE  /\ Head(q) = q[1] /\ 1 \in 1..Len(q) /\ Len(q) \in Nat
         /\ Len(Tail(q)) = Len(q) - 1
         /\ \A i \in 1..Len(Tail(q)) : i + 1 \in 1..Len(q) /\ Tail(q)[i] = q[i + 1]
  OBVIOUS

LEMMA AppendShape ==
  ASSUME NEW q \in Seq(Handlers), NEW h \in Handlers
  PROVE  /\ Len(q) \in Nat /\ Len(Append(q, h)) = Len(q) + 1
         /\ \A i \in 1..Len(q) : Append(q, h)[i] = q[i]
         /\ Append(q, h)[Len(q) + 1] = h
  OBVIOUS

(* Steps that move no task.                                                *)
LEMMA NoTaskMoves ==
  ASSUME TasksAccounted, UNCHANGED <<queue, handler, got>>,
         \A c \in Streams : owner'[c] = owner[c] \/ queue[c] = <<>>,
         \A c \in Streams : conn'[c] = "closed" => conn[c] = "closed" \/ queue[c] = <<>>
  PROVE  TasksAccounted'
<1>1. ClosedIsEmpty'
  BY DEF TasksAccounted, ClosedIsEmpty
<1>2. QueuedIsSent'
  <2> SUFFICES ASSUME NEW c \in Streams, NEW n \in 1..Len(queue[c])
               PROVE  /\ handler[queue[c][n]].stage = "sent"
                      /\ handler[queue[c][n]].stream = c
                      /\ handler[queue[c][n]].server = owner'[c]
    BY DEF QueuedIsSent
  <2>1. queue[c] # <<>>
    OBVIOUS
  <2> QED
    BY <2>1 DEF TasksAccounted, QueuedIsSent
<1>3. QueuedOnce' /\ GotIsOwn'
  BY DEF TasksAccounted, QueuedOnce, GotIsOwn, Queued
<1> QED
  BY <1>1, <1>2, <1>3 DEF TasksAccounted

(* A handler that has not sent its task can change freely: the task is     *)
(* nowhere yet.                                                            *)
LEMMA UnsentIsNowhere ==
  ASSUME TypeOK, TasksAccounted, NEW h \in Handlers, handler[h].stage # "sent"
  PROVE  /\ \A c \in Streams : ~Queued(h, c)
         /\ \A s \in Servers : h \notin got[s]
  BY DEF TasksAccounted, QueuedIsSent, GotIsOwn, Queued

LEMMA HandlerMoves ==
  ASSUME TypeOK, TasksAccounted, NEW h \in Handlers, handler[h].stage # "sent",
         \A g \in Handlers \ {h} : handler'[g] = handler[g],
         UNCHANGED <<owner, conn, queue, got>>
  PROVE  TasksAccounted'
<1>1. \A c \in Streams : \A n \in 1..Len(queue[c]) :
        queue[c][n] \in Handlers /\ handler'[queue[c][n]] = handler[queue[c][n]]
  BY QueuedTask, UnsentIsNowhere DEF Queued
<1>2. \A s \in Servers : \A g \in got[s] : handler'[g] = handler[g]
  BY UnsentIsNowhere DEF TypeOK
<1>3. ClosedIsEmpty' /\ QueuedOnce'
  BY DEF TasksAccounted, ClosedIsEmpty, QueuedOnce
<1>4. QueuedIsSent'
  BY <1>1 DEF TasksAccounted, QueuedIsSent
<1>5. GotIsOwn'
  BY <1>2 DEF TasksAccounted, GotIsOwn, Queued
<1> QED
  BY <1>3, <1>4, <1>5 DEF TasksAccounted

LEMMA TransmitAccounted ==
  ASSUME TypeOK, TasksAccounted, NEW c \in Streams, Transmit(c)
  PROVE  TasksAccounted'
<1> DEFINE h == Head(queue[c])
<1>0. /\ queue[c] \in Seq(Handlers) /\ queue[c] # <<>>
      /\ queue'[c] = Tail(queue[c]) /\ \A d \in Streams \ {c} : queue'[d] = queue[d]
      /\ UNCHANGED <<owner, conn, handler>>
  BY DEF Transmit, TypeOK
<1>1. /\ h = queue[c][1] /\ 1 \in 1..Len(queue[c]) /\ h \in Handlers
      /\ \A i \in 1..Len(queue'[c]) : i + 1 \in 1..Len(queue[c]) /\ queue'[c][i] = queue[c][i + 1]
  BY <1>0, TailShape
<1>2. /\ handler[h].stage = "sent" /\ handler[h].stream = c /\ handler[h].server = owner[c]
      /\ owner[c] \in Servers
  BY <1>1, SentTask DEF TasksAccounted, QueuedIsSent
<1> HIDE DEF h
\* What is queued now was queued before, possibly one place further back.
<1>3. ASSUME NEW d \in Streams, NEW n \in 1..Len(queue'[d])
      PROVE  \E k \in 1..Len(queue[d]) : queue'[d][n] = queue[d][k]
  <2>1. CASE d = c
    BY <1>1, <2>1
  <2>2. CASE d # c
    BY <1>0, <2>2
  <2> QED
    BY <2>1, <2>2
<1>4. ClosedIsEmpty'
  BY <1>0 DEF TasksAccounted, ClosedIsEmpty
<1>5. QueuedIsSent'
  <2> SUFFICES ASSUME NEW d \in Streams, NEW n \in 1..Len(queue'[d])
               PROVE  /\ handler[queue'[d][n]].stage = "sent"
                      /\ handler[queue'[d][n]].stream = d
                      /\ handler[queue'[d][n]].server = owner[d]
    BY <1>0 DEF QueuedIsSent
  <2>1. PICK k \in 1..Len(queue[d]) : queue'[d][n] = queue[d][k]
    BY <1>3
  <2> QED
    BY <2>1 DEF TasksAccounted, QueuedIsSent
<1>6. QueuedOnce'
  <2> SUFFICES ASSUME NEW d \in Streams, NEW n \in 1..Len(queue'[d]), NEW m \in 1..Len(queue'[d]),
                      queue'[d][n] = queue'[d][m]
               PROVE  n = m
    BY DEF QueuedOnce
  <2>1. CASE d = c
    <3>1. n + 1 = m + 1
      BY <1>1, <2>1 DEF TasksAccounted, QueuedOnce
    <3>2. n \in Int /\ m \in Int
      BY <1>0
    <3> QED
      BY <3>1, <3>2
  <2>2. CASE d # c
    BY <1>0, <2>2 DEF TasksAccounted, QueuedOnce
  <2> QED
    BY <2>1, <2>2
\* The head was queued here once and nowhere else.
<1>7. \A d \in Streams : \A n \in 1..Len(queue'[d]) : queue'[d][n] # h
  <2>1. ASSUME NEW d \in Streams, NEW n \in 1..Len(queue'[d]), queue'[d][n] = h
        PROVE  FALSE
    <3>1. CASE d = c
      <4>1. n + 1 = 1
        BY <1>1, <2>1, <3>1 DEF TasksAccounted, QueuedOnce
      <4>2. n \in Nat \ {0}
        BY <1>0, <3>1
      <4> QED
        BY <4>1, <4>2
    <3>2. CASE d # c
      BY <1>0, <1>2, <2>1, <3>2 DEF TasksAccounted, QueuedIsSent
    <3> QED
      BY <3>1, <3>2
  <2> QED
    BY <2>1
<1>8. GotIsOwn'
  <2> SUFFICES ASSUME NEW s \in Servers, NEW g \in got'[s]
               PROVE  /\ handler[g].stage = "sent" /\ handler[g].server = s
                      /\ \A d \in Streams : \A n \in 1..Len(queue'[d]) : queue'[d][n] # g
    BY <1>0 DEF GotIsOwn, Queued
  <2>1. g \in got[s] \/ (g = h /\ s = owner[c])
    BY <1>2 DEF Transmit, TypeOK, h
  <2>2. CASE g \in got[s]
    <3>1. /\ handler[g].stage = "sent" /\ handler[g].server = s
          /\ \A d \in Streams : \A k \in 1..Len(queue[d]) : queue[d][k] # g
      BY <2>2 DEF TasksAccounted, GotIsOwn, Queued
    <3> QED
      BY <1>3, <3>1
  <2>3. CASE g = h /\ s = owner[c]
    BY <1>2, <1>7, <2>3
  <2> QED
    BY <2>1, <2>2, <2>3
<1> QED
  BY <1>4, <1>5, <1>6, <1>8 DEF TasksAccounted

LEMMA SendAccounted ==
  ASSUME IInv, TasksAccounted, NEW h \in Handlers, Send(h)
  PROVE  TasksAccounted'
<1> DEFINE c == handler[h].stream
<1>0. TypeOK /\ handler[h].stage = "sending" /\ c \in Streams /\ handler[h].server \in Servers
  BY SenderShape DEF IInv, Send
<1>1. /\ conn[c] # "closed" /\ queue[c] \in Seq(Handlers)
      /\ queue'[c] = Append(queue[c], h) /\ \A d \in Streams \ {c} : queue'[d] = queue[d]
      /\ handler'[h].stage = "sent" /\ handler'[h].server = handler[h].server
      /\ handler'[h].stream = c
      /\ \A g \in Handlers \ {h} : handler'[g] = handler[g]
      /\ UNCHANGED <<owner, conn, got>>
  BY <1>0, SentKeeps DEF Send, TypeOK
<1>2. /\ Len(queue[c]) \in Nat /\ Len(queue'[c]) = Len(queue[c]) + 1
      /\ \A i \in 1..Len(queue[c]) : queue'[c][i] = queue[c][i]
      /\ queue'[c][Len(queue[c]) + 1] = h
  BY <1>1, AppendShape
\* The channel is the registered one, so it is one of this server.
<1>3. owner[c] = handler[h].server
  BY <1>0, TasksAssumption DEF IInv, SendGoesToRegistered, EntryHasReader
<1>4. /\ \A d \in Streams : ~Queued(h, d)
      /\ \A s \in Servers : h \notin got[s]
  BY <1>0, UnsentIsNowhere
<1> HIDE DEF c
<1>5. \A n \in 1..Len(queue'[c]) : n \in 1..Len(queue[c]) \/ n = Len(queue[c]) + 1
  BY <1>2
<1>6. ClosedIsEmpty'
  BY <1>1 DEF TasksAccounted, ClosedIsEmpty
<1>7. QueuedIsSent'
  <2> SUFFICES ASSUME NEW d \in Streams, NEW n \in 1..Len(queue'[d])
               PROVE  /\ handler'[queue'[d][n]].stage = "sent"
                      /\ handler'[queue'[d][n]].stream = d
                      /\ handler'[queue'[d][n]].server = owner'[d]
    BY DEF QueuedIsSent
  <2>1. CASE d = c /\ n = Len(queue[c]) + 1
    BY <1>1, <1>2, <1>3, <2>1
  <2>2. CASE n \in 1..Len(queue[d]) /\ queue'[d][n] = queue[d][n]
    <3>1. queue[d][n] \in Handlers \ {h}
      BY <1>0, <1>4, <2>2, QueuedTask DEF Queued
    <3> QED
      BY <1>1, <2>2, <3>1 DEF TasksAccounted, QueuedIsSent
  <2> QED
    BY <1>0, <1>1, <1>2, <1>5, <2>1, <2>2
<1>8. QueuedOnce'
  <2> SUFFICES ASSUME NEW d \in Streams, NEW n \in 1..Len(queue'[d]), NEW m \in 1..Len(queue'[d]),
                      queue'[d][n] = queue'[d][m]
               PROVE  n = m
    BY DEF QueuedOnce
  <2>1. CASE d = c
    <3>1. \A k \in 1..Len(queue[c]) : queue[c][k] # h
      BY <1>0, <1>4 DEF Queued
    <3> QED
      BY <1>2, <1>5, <2>1, <3>1, <1>0 DEF TasksAccounted, QueuedOnce
  <2>2. CASE d # c
    BY <1>1, <2>2 DEF TasksAccounted, QueuedOnce
  <2> QED
    BY <2>1, <2>2
<1>9. GotIsOwn'
  <2> SUFFICES ASSUME NEW s \in Servers, NEW g \in got[s]
               PROVE  /\ handler'[g].stage = "sent" /\ handler'[g].server = s
                      /\ \A d \in Streams : ~Queued(g, d)'
    BY <1>1 DEF GotIsOwn
  <2>1. /\ g # h /\ g \in Handlers /\ handler[g].stage = "sent" /\ handler[g].server = s
        /\ \A d \in Streams : ~Queued(g, d)
    BY <1>0, <1>4 DEF TasksAccounted, GotIsOwn, TypeOK
  <2>2. ASSUME NEW d \in Streams, NEW n \in 1..Len(queue'[d]), queue'[d][n] = g
        PROVE  FALSE
    <3>1. CASE d = c
      BY <1>0, <1>2, <1>5, <2>1, <2>2, <3>1 DEF Queued
    <3>2. CASE d # c
      BY <1>1, <2>1, <2>2, <3>2 DEF Queued
    <3> QED
      BY <3>1, <3>2
  <2> QED
    BY <1>1, <2>1, <2>2 DEF Queued
<1> QED
  BY <1>6, <1>7, <1>8, <1>9 DEF TasksAccounted

LEMMA CloseAccounted ==
  ASSUME TypeOK, TasksAccounted, NEW c \in Streams, Close(c)
  PROVE  TasksAccounted'
<1>1. /\ queue'[c] = <<>> /\ \A d \in Streams \ {c} : queue'[d] = queue[d] /\ conn'[d] = conn[d]
      /\ UNCHANGED <<owner, handler, got>>
  BY DEF Close, TypeOK
<1>2. ASSUME NEW d \in Streams, NEW n \in 1..Len(queue'[d])
      PROVE  queue'[d] = queue[d]
  BY <1>1, <1>2
<1>3. ClosedIsEmpty'
  BY <1>1 DEF TasksAccounted, ClosedIsEmpty
<1>4. QueuedIsSent' /\ QueuedOnce'
  BY <1>1, <1>2 DEF TasksAccounted, QueuedIsSent, QueuedOnce
<1>5. GotIsOwn'
  BY <1>1, <1>2 DEF TasksAccounted, GotIsOwn, Queued
<1> QED
  BY <1>3, <1>4, <1>5 DEF TasksAccounted

LEMMA AccountedStep == IInv /\ TasksAccounted /\ [Next]_vars => TasksAccounted'
<1> SUFFICES ASSUME IInv, TasksAccounted, [Next]_vars
             PROVE  TasksAccounted'
  OBVIOUS
<1>0. TypeOK
  BY DEF IInv
<1>1. ASSUME NEW s \in Servers, NEW c \in Streams, Call(s, c)
      PROVE  TasksAccounted'
  <2>1. queue[c] = <<>>
    BY <1>1 DEF Call, TasksAccounted, ClosedIsEmpty
  <2>2. /\ UNCHANGED <<queue, handler, got>>
        /\ \A d \in Streams \ {c} : owner'[d] = owner[d] /\ conn'[d] = conn[d]
    BY <1>0, <1>1 DEF Call, TypeOK
  <2> QED
    BY <2>1, <2>2, NoTaskMoves
<1>2. ASSUME NEW c \in Streams, Register(c) \/ Cleanup(c) \/ Leave(c) \/ Finish(c)
      PROVE  TasksAccounted'
  <2>1. /\ UNCHANGED <<queue, handler, got, owner>>
        /\ \A d \in Streams : conn'[d] = "closed" => conn[d] = "closed" \/ queue[d] = <<>>
    BY <1>0, <1>2 DEF Register, Cleanup, Leave, Finish, TypeOK
  <2> QED
    BY <2>1, NoTaskMoves
<1>3. ASSUME NEW c \in Streams, Close(c)
      PROVE  TasksAccounted'
  BY <1>0, <1>3, CloseAccounted
<1>4. ASSUME NEW c \in Streams, Transmit(c)
      PROVE  TasksAccounted'
  BY <1>0, <1>4, TransmitAccounted
<1>5. ASSUME NEW h \in Handlers, Send(h)
      PROVE  TasksAccounted'
  BY <1>5, SendAccounted
<1>6. ASSUME NEW h \in Handlers,
             SendFails(h) \/ \E s \in Servers : Lookup(h, s) \/ Refuse(h, s)
      PROVE  TasksAccounted'
  <2>1. /\ handler[h].stage # "sent" /\ UNCHANGED <<owner, conn, queue, got>>
        /\ \A g \in Handlers \ {h} : handler'[g] = handler[g]
    BY <1>0, <1>6 DEF SendFails, Lookup, Refuse, Waiting, TypeOK
  <2> QED
    BY <1>0, <2>1, HandlerMoves
<1>7. ASSUME UNCHANGED vars
      PROVE  TasksAccounted'
  BY <1>7, NoTaskMoves DEF vars
<1> QED
  BY <1>1, <1>2, <1>3, <1>4, <1>5, <1>6, <1>7 DEF Next, StreamStep, HandlerStep

LEMMA Accounted == Spec => [](IInv /\ TasksAccounted)
<1>1. Init => TasksAccounted
  BY DEF Init, TasksAccounted, ClosedIsEmpty, QueuedIsSent, QueuedOnce, GotIsOwn
<1> QED
  BY <1>1, AccountedStep, Invariant, PTL DEF Spec

(* A task that was accepted is in one place of one channel, that of its    *)
(* own server's stream, or with the agent it was meant for, or gone with a *)
(* connection: never in a channel twice, never at another agent, and never *)
(* left behind in a stream that is used again.                             *)
THEOREM TasksAreAccountedFor == Spec => []TasksAccounted
  BY Accounted, PTL

LEMMA OrderStep == IInv /\ TasksAccounted /\ [Next]_vars => LeavesInOrder
<1> SUFFICES ASSUME IInv, TasksAccounted, [Next]_vars,
                    NEW c \in Streams, NEW n \in 1..Len(queue[c])
             PROVE  \/ /\ ~Transmit(c)
                       /\ n \in 1..Len(queue'[c]) /\ queue'[c][n] = queue[c][n]
                    \/ n > 1 /\ n - 1 \in 1..Len(queue'[c]) /\ queue'[c][n - 1] = queue[c][n]
                    \/ n = 1 /\ (conn[c] = "up" => queue[c][1] \in got'[handler[queue[c][1]].server])
                    \/ conn[c] = "lost" /\ queue'[c] = <<>>
  BY DEF LeavesInOrder
<1>0. TypeOK
  BY DEF IInv
<1>1. /\ queue[c] \in Seq(Handlers) /\ queue[c] # <<>> /\ Len(queue[c]) \in Nat
      /\ n \in Nat
  BY <1>0 DEF TypeOK
<1>2. CASE Transmit(c)
  <2>1. /\ Len(queue'[c]) = Len(queue[c]) - 1
        /\ \A i \in 1..Len(queue'[c]) : queue'[c][i] = queue[c][i + 1]
        /\ Head(queue[c]) = queue[c][1] /\ 1 \in 1..Len(queue[c])
    BY <1>0, <1>1, <1>2, TailShape DEF Transmit, TypeOK
  <2>2. handler[queue[c][1]].server = owner[c] /\ owner[c] \in Servers
    BY <1>0, <2>1, SentTask, QueuedTask DEF TasksAccounted, QueuedIsSent
  <2>3. CASE n = 1
    BY <1>0, <1>2, <2>1, <2>2, <2>3 DEF Transmit, TypeOK
  <2>4. CASE n # 1
    <3>1. n > 1 /\ n - 1 \in 1..(Len(queue[c]) - 1) /\ (n - 1) + 1 = n
      BY <1>1, <2>4
    <3> QED
      BY <2>1, <3>1
  <2> QED
    BY <2>3, <2>4
<1>3. CASE ~Transmit(c)
  <2>1. ASSUME queue'[c] = queue[c]
        PROVE  n \in 1..Len(queue'[c]) /\ queue'[c][n] = queue[c][n]
    BY <2>1
  <2>2. ASSUME UNCHANGED queue
        PROVE  n \in 1..Len(queue'[c]) /\ queue'[c][n] = queue[c][n]
    BY <2>2
  <2>3. ASSUME NEW h \in Handlers, Send(h)
        PROVE  n \in 1..Len(queue'[c]) /\ queue'[c][n] = queue[c][n]
    <3>1. queue'[c] = queue[c] \/ queue'[c] = Append(queue[c], h)
      BY <1>0, <2>3, SenderShape DEF Send, TypeOK
    <3>2. CASE queue'[c] = Append(queue[c], h)
      BY <1>1, <3>2, AppendShape
    <3> QED
      BY <2>1, <3>1, <3>2
  <2>4. ASSUME NEW d \in Streams, Close(d)
        PROVE  queue'[c] = queue[c] \/ (conn[c] = "lost" /\ queue'[c] = <<>>)
    BY <1>0, <2>4 DEF Close, TypeOK
  <2>5. ASSUME NEW d \in Streams, Transmit(d)
        PROVE  queue'[c] = queue[c]
    BY <1>0, <1>3, <2>5 DEF Transmit, TypeOK
  <2>6. \/ UNCHANGED queue
        \/ \E h \in Handlers : Send(h)
        \/ \E d \in Streams : Close(d) \/ Transmit(d)
    BY DEF Next, StreamStep, HandlerStep, Call, Leave, Register, Cleanup, Finish,
           Lookup, Refuse, SendFails, vars
  <2> QED
    BY <1>3, <2>1, <2>2, <2>3, <2>4, <2>5, <2>6
<1> QED
  BY <1>2, <1>3

(* Nothing but the agent's own connection takes a task out of a channel,   *)
(* first in first out, and the agent that takes it is the right one.       *)
THEOREM TasksLeaveInOrder == Spec => [][LeavesInOrder]_vars
  BY Accounted, OrderStep, PTL DEF Spec

-----------------------------------------------------------------------------
(* The entry of an agent that has left stays one of a dead stream, whose   *)
(* reader has its cleanup still ahead, until it goes; and it goes while no *)
(* handler holds its shard, to nobody or to a newer stream of the agent    *)
(* with a reader of its own.                                               *)
DeadEntryGoes ==
  \A s \in Servers, c \in Streams : senders[s] = c /\ conn[c] # "up" =>
    \/ /\ senders'[s] = c /\ conn'[c] # "up"
       /\ owner'[c] = s /\ reader'[c] = "reading"
    \/ /\ senders'[s] = None \/ (senders'[s] \in Streams \ {c} /\ conn'[senders'[s]] # "closed")
       /\ ~Guarded(s)
       /\ \A h \in Handlers : handler'[h].stage = "sending" => handler'[h].server # s

LEMMA DeadEntryStep == IInv /\ IInv' /\ [Next]_vars => DeadEntryGoes
<1> SUFFICES ASSUME IInv, IInv', [Next]_vars,
                    NEW s \in Servers, NEW c \in Streams, senders[s] = c, conn[c] # "up"
             PROVE  \/ /\ senders'[s] = c /\ conn'[c] # "up"
                       /\ owner'[c] = s /\ reader'[c] = "reading"
                    \/ /\ \/ senders'[s] = None
                          \/ senders'[s] \in Streams \ {c} /\ conn'[senders'[s]] # "closed"
                       /\ ~Guarded(s)
                       /\ \A h \in Handlers :
                            handler'[h].stage = "sending" => handler'[h].server # s
  BY DEF DeadEntryGoes
<1> USE TasksAssumption
<1>1. /\ TypeOK /\ owner[c] = s /\ reader[c] = "reading" /\ c # None
  BY DEF IInv, EntryHasReader
\* An entry that stays has its owner and its reader by the invariant.
<1>2. ASSUME senders'[s] = c
      PROVE  owner'[c] = s /\ reader'[c] = "reading"
  BY <1>1, <1>2 DEF IInv, EntryHasReader
\* A call takes a stream whose reader is over: the dead one is not revived.
<1>3. conn'[c] # "up"
  <2>1. ASSUME NEW t \in Servers, NEW d \in Streams, Call(t, d)
        PROVE  conn'[c] # "up"
    BY <1>1, <2>1 DEF Call, TypeOK
  <2>2. ASSUME NEW d \in Streams, Leave(d) \/ Close(d) \/ Finish(d)
        PROVE  conn'[c] # "up"
    BY <1>1, <2>2 DEF Leave, Close, Finish, TypeOK
  <2> QED
    BY <2>1, <2>2
       DEF Next, StreamStep, HandlerStep, Register, Cleanup, Transmit, Lookup, Refuse,
           Send, SendFails, vars
<1>4. ASSUME senders'[s] # c
      PROVE  \/ senders'[s] = None
             \/ senders'[s] \in Streams \ {c} /\ conn'[senders'[s]] # "closed"
  <2>1. ASSUME NEW d \in Streams, Register(d)
        PROVE  senders'[s] \in Streams \ {c} /\ conn'[senders'[s]] # "closed"
    BY <1>1, <1>4, <2>1 DEF Register, TypeOK
  <2>2. ASSUME NEW d \in Streams, Cleanup(d)
        PROVE  senders'[s] = None
    BY <1>1, <1>4, <2>2 DEF Cleanup, TypeOK
  <2> QED
    BY <1>4, <2>1, <2>2
       DEF Next, StreamStep, HandlerStep, Call, Leave, Close, Finish, Transmit, Lookup,
           Refuse, Send, SendFails, vars
<1>5. ASSUME senders'[s] # c
      PROVE  ~Guarded(s) /\ UNCHANGED handler
  <2>1. ASSUME NEW d \in Streams, Register(d) \/ Cleanup(d)
        PROVE  ~Guarded(s) /\ UNCHANGED handler
    <3>1. owner[d] = s
      BY <1>1, <1>5, <2>1 DEF Register, Cleanup, TypeOK
    <3> QED
      BY <2>1, <3>1 DEF Register, Cleanup
  <2> QED
    BY <1>5, <2>1
       DEF Next, StreamStep, HandlerStep, Call, Leave, Close, Finish, Transmit, Lookup,
           Refuse, Send, SendFails, vars
<1>6. ASSUME senders'[s] # c
      PROVE  \A h \in Handlers : handler'[h].stage = "sending" => handler'[h].server # s
  BY <1>5, <1>6 DEF Guarded
<1> QED
  BY <1>2, <1>3, <1>4, <1>5, <1>6

(* The safety beneath DeadEntryRemoved: no reconnect revives the entry of  *)
(* an agent that has left, none loses the reader that will remove it, and  *)
(* the entry is not taken away under a handler that waits in send().       *)
THEOREM DeadEntriesGo == Spec => [][DeadEntryGoes]_vars
<1>1. IInv /\ IInv' /\ [Next]_vars => [DeadEntryGoes]_vars
  BY DeadEntryStep
<1> QED
  BY <1>1, Invariant, PTL DEF Spec
=============================================================================
