--------------------------- MODULE TerminalSession ---------------------------
(***************************************************************************)
(* Web terminals and file managers.  An administrator creates a session    *)
(* (handlers/terminal.rs), the browser opens a WebSocket for it (ws.rs),   *)
(* the handler publishes a stream in AppState.active_streams and asks the  *)
(* agent for it, and the agent answers with a call of io_stream            *)
(* (nezha-rpc/src/handler.rs) that takes the stream out of the map.  Four  *)
(* pumps then carry bytes through three bounded channels until either side *)
(* leaves.                                                                 *)
(*                                                                         *)
(*   browser -> recv -> fromWs -> up   -> response -> agent                *)
(*   browser <- send <- toWs   <- down <-             agent                *)
(*                                                                         *)
(* A tab is one run of handle_terminal_ws and names its stream, whose uuid *)
(* is fresh; a call is one run of io_stream.  Messages are numbered.  The  *)
(* task channel to the agent is AgentTasks; here it works or it does not.  *)
(***************************************************************************)
EXTENDS Integers, Sequences

CONSTANTS
  Sessions,  \* bound: sessions ever created
  Tabs,      \* bound: WebSockets ever opened
  Calls,     \* bound: calls of io_stream
  Capacity,  \* of each channel (128)
  MaxUp,     \* bound: messages a browser sends
  MaxDown,   \* bound: messages an agent sends in a call
  None,
  Refused,   \* a call whose stream was not in the map
  Ended      \* a pump that is over or never was

ASSUME TerminalAssumption ==
  /\ Capacity \in Nat \ {0} /\ MaxUp \in Nat /\ MaxDown \in Nat
  /\ None \notin Sessions /\ None \notin Tabs /\ Refused \notin Tabs /\ None # Refused
  /\ Ended \notin Nat

VARIABLES
  created,  \* sessions that were handed out
  pending,  \* AppState.pending_terminals
  active,   \* AppState.active_streams
  tab,      \* [stage, session] of each WebSocket's handler
  open,     \* tabs whose browser is there
  typed, taken, \* messages the browser sent, and recv read
  recv, send,   \* the tasks of a tab; recv: 0 or the message it wants to push
  fromWs, toWs, \* the channels of a stream
  shown,    \* history: what a browser received
  call,     \* the stream a call was bound to
  agent,    \* calls whose agent is there
  said, heard,  \* messages the agent sent, and down read
  up, down, \* the tasks of a call; down: 0 or the message it wants to push
  got,      \* history: what up took for the agent, in a call
  reached   \* how much of it the agent received

mapVars  == <<created, pending, active>>
tabVars  == <<tab, open, typed, taken, recv, send, shown>>
callVars == <<call, agent, said, heard, up, down, got, reached>>
vars     == <<mapVars, tabVars, callVars, fromWs, toWs>>

Channel(max) == UNION {[1..n -> 1..max] : n \in 0..Capacity}

TypeOK ==
  /\ created \subseteq Sessions /\ pending \subseteq created /\ active \subseteq Tabs
  /\ tab \in [Tabs -> [stage : {"idle", "asking", "failed", "proxy", "returned"},
                       session : Sessions \cup {None}]]
  /\ open \subseteq Tabs /\ agent \subseteq Calls
  /\ typed \in [Tabs -> 0..MaxUp] /\ taken \in [Tabs -> 0..MaxUp]
  /\ recv \in [Tabs -> 0..MaxUp \cup {Ended}]
  /\ send \in [Tabs -> {0, Ended}]
  /\ fromWs \in [Tabs -> Channel(MaxUp)] /\ toWs \in [Tabs -> Channel(MaxDown)]
  /\ call \in [Calls -> Tabs \cup {None, Refused}]
  /\ said \in [Calls -> 0..MaxDown] /\ heard \in [Calls -> 0..MaxDown]
  /\ up \in [Calls -> {0, Ended}]
  /\ down \in [Calls -> 0..MaxDown \cup {Ended}]
  /\ shown \in [Tabs -> Seq(1..MaxDown)] /\ got \in [Calls -> Seq(1..MaxUp)]
  /\ reached \in [Calls -> Nat]

Init ==
  /\ created = {} /\ pending = {} /\ active = {}
  /\ tab = [b \in Tabs |-> [stage |-> "idle", session |-> None]]
  /\ open = {} /\ agent = {}
  /\ typed = [b \in Tabs |-> 0] /\ taken = [b \in Tabs |-> 0]
  /\ recv = [b \in Tabs |-> Ended] /\ send = [b \in Tabs |-> Ended]
  /\ fromWs = [b \in Tabs |-> <<>>] /\ toWs = [b \in Tabs |-> <<>>]
  /\ shown = [b \in Tabs |-> <<>>]
  /\ call = [c \in Calls |-> None]
  /\ said = [c \in Calls |-> 0] /\ heard = [c \in Calls |-> 0]
  /\ up = [c \in Calls |-> Ended] /\ down = [c \in Calls |-> Ended]
  /\ got = [c \in Calls |-> <<>>] /\ reached = [c \in Calls |-> 0]

-----------------------------------------------------------------------------
\* The receiver of fromWs and the sender of toWs are in the map, then with
\* the pumps of the call that took them.
Received(b) == b \in active \/ \E c \in Calls : call[c] = b /\ up[c] # Ended
Fed(b)      == b \in active \/ \E c \in Calls : call[c] = b /\ down[c] # Ended
Bound(b)    == \E c \in Calls : call[c] = b

-----------------------------------------------------------------------------
(* create and create_fm, for a server whose agent is connected.            *)
Create(s) ==
  /\ s \notin created
  /\ created' = created \cup {s}
  /\ pending' = pending \cup {s}
  /\ UNCHANGED <<active, tabVars, callVars, fromWs, toWs>>

-----------------------------------------------------------------------------
(* handle_terminal_ws, up to the two pumps.                                *)

\* The session is unknown or was used: the socket is dropped.
Reject(b, s) ==
  /\ tab[b].stage = "idle"
  /\ s \notin pending
  /\ tab' = [tab EXCEPT ![b] = [stage |-> "failed", session |-> None]]
  /\ UNCHANGED <<mapVars, open, typed, taken, recv, send, shown, callVars, fromWs, toWs>>

\* pending_terminals.remove, active_streams.insert, task_senders.get: with a
\* sender the handler awaits send(), without one it returns.
Open(b, s) ==
  /\ tab[b].stage = "idle"
  /\ s \in pending
  /\ pending' = pending \ {s}
  /\ active' = active \cup {b}
  /\ \/ tab' = [tab EXCEPT ![b] = [stage |-> "asking", session |-> s]] /\ open' = open \cup {b}
     \/ tab' = [tab EXCEPT ![b] = [stage |-> "failed", session |-> s]] /\ UNCHANGED open
  /\ UNCHANGED <<created, typed, taken, recv, send, shown, callVars, fromWs, toWs>>

\* The task is in the agent's channel and the pumps are spawned.  An agent
\* that answers in between finds the same channels, which buffer.
Asked(b) ==
  /\ tab[b].stage = "asking"
  /\ tab' = [tab EXCEPT ![b].stage = "proxy"]
  /\ recv' = [recv EXCEPT ![b] = 0]
  /\ send' = [send EXCEPT ![b] = 0]
  /\ UNCHANGED <<mapVars, open, typed, taken, shown, callVars, fromWs, toWs>>

\* send() fails: the handler returns and the socket is dropped.
AskFails(b) ==
  /\ tab[b].stage = "asking"
  /\ tab' = [tab EXCEPT ![b].stage = "failed"]
  /\ open' = open \ {b}
  /\ UNCHANGED <<mapVars, typed, taken, recv, send, shown, callVars, fromWs, toWs>>

-----------------------------------------------------------------------------
(* The browser.                                                            *)

Type(b) ==
  /\ b \in open /\ typed[b] < MaxUp
  /\ typed' = [typed EXCEPT ![b] = @ + 1]
  /\ UNCHANGED <<mapVars, tab, open, taken, recv, send, shown, callVars, fromWs, toWs>>

Leave(b) ==
  /\ b \in open
  /\ open' = open \ {b}
  /\ UNCHANGED <<mapVars, tab, typed, taken, recv, send, shown, callVars, fromWs, toWs>>

-----------------------------------------------------------------------------
(* ws_recv_task.                                                           *)

\* A message, or the end of a socket, which can come before the last messages.
Read(b) ==
  /\ recv[b] = 0
  /\ \/ /\ taken[b] < typed[b]
        /\ recv' = [recv EXCEPT ![b] = taken[b] + 1]
        /\ taken' = [taken EXCEPT ![b] = @ + 1]
     \/ /\ b \notin open
        /\ recv' = [recv EXCEPT ![b] = Ended]
        /\ UNCHANGED taken
  /\ UNCHANGED <<mapVars, tab, open, typed, send, shown, callVars, fromWs, toWs>>

\* Deviation: an unbounded channel.
PushUnbounded(b) ==
  /\ recv[b] \in 1..MaxUp
  /\ fromWs' = [fromWs EXCEPT ![b] = Append(@, recv[b])]
  /\ recv' = [recv EXCEPT ![b] = 0]
  /\ UNCHANGED <<mapVars, tab, open, typed, taken, send, shown, callVars, toWs>>

\* Deviation: try_send, which drops what does not fit.
PushLossy(b) ==
  /\ recv[b] \in 1..MaxUp
  /\ fromWs' = [fromWs EXCEPT ![b] = IF Len(@) < Capacity THEN Append(@, recv[b]) ELSE @]
  /\ recv' = [recv EXCEPT ![b] = 0]
  /\ UNCHANGED <<mapVars, tab, open, typed, taken, send, shown, callVars, toWs>>

\* tx_from_ws.send: waits for room, fails when the receiver is gone.
Push(b) ==
  /\ recv[b] \in 1..MaxUp
  /\ \/ /\ Received(b) /\ Len(fromWs[b]) < Capacity
        /\ fromWs' = [fromWs EXCEPT ![b] = Append(@, recv[b])]
        /\ recv' = [recv EXCEPT ![b] = 0]
     \/ /\ ~Received(b)
        /\ recv' = [recv EXCEPT ![b] = Ended]
        /\ UNCHANGED fromWs
  /\ UNCHANGED <<mapVars, tab, open, typed, taken, send, shown, callVars, toWs>>

-----------------------------------------------------------------------------
(* ws_send_task.                                                           *)
Show(b) ==
  /\ send[b] = 0
  /\ \/ /\ toWs[b] # <<>> /\ b \in open
        /\ shown' = [shown EXCEPT ![b] = Append(@, Head(toWs[b]))]
        /\ toWs' = [toWs EXCEPT ![b] = Tail(@)]
        /\ UNCHANGED send
     \/ /\ \/ toWs[b] # <<>> /\ b \notin open
           \/ toWs[b] = <<>> /\ ~Fed(b)
        /\ send' = [send EXCEPT ![b] = Ended]
        /\ UNCHANGED <<shown, toWs>>
  /\ UNCHANGED <<mapVars, tab, open, typed, taken, recv, callVars, fromWs>>

\* Deviation: join! instead of select!.
ReturnWhenBoth(b) ==
  /\ tab[b].stage = "proxy"
  /\ recv[b] = Ended /\ send[b] = Ended
  /\ tab' = [tab EXCEPT ![b].stage = "returned"]
  /\ open' = open \ {b}
  /\ active' = active \ {b}
  /\ toWs' = [toWs EXCEPT ![b] = <<>>]
  /\ UNCHANGED <<created, pending, typed, taken, recv, send, shown, callVars, fromWs>>

\* select!: the first task to end takes the other with it, the entry goes if
\* no call took it, and the socket is dropped.
Return(b) ==
  /\ tab[b].stage = "proxy"
  /\ recv[b] = Ended \/ send[b] = Ended
  /\ tab' = [tab EXCEPT ![b].stage = "returned"]
  /\ recv' = [recv EXCEPT ![b] = Ended]
  /\ send' = [send EXCEPT ![b] = Ended]
  /\ open' = open \ {b}
  /\ active' = active \ {b}
  /\ toWs' = [toWs EXCEPT ![b] = <<>>]
  /\ UNCHANGED <<created, pending, typed, taken, shown, callVars, fromWs>>

-----------------------------------------------------------------------------
(* io_stream.                                                              *)

\* active_streams.remove: the call takes both ends and starts its pumps.
Bind(c, b) ==
  /\ call[c] = None
  /\ b \in active
  /\ call' = [call EXCEPT ![c] = b]
  /\ active' = active \ {b}
  /\ agent' = agent \cup {c}
  /\ up' = [up EXCEPT ![c] = 0]
  /\ down' = [down EXCEPT ![c] = 0]
  /\ UNCHANGED <<created, pending, tabVars, said, heard, got, reached, fromWs, toWs>>

Refuse(c, b) ==
  /\ call[c] = None
  /\ b \notin active
  /\ call' = [call EXCEPT ![c] = Refused]
  /\ UNCHANGED <<mapVars, tabVars, agent, said, heard, up, down, got, reached, fromWs, toWs>>

\* An agent calls for a stream it was asked for, once or again.
IoStream(c, b) ==
  /\ tab[b].stage \in {"proxy", "returned"}
  /\ Bind(c, b) \/ Refuse(c, b)

Say(c) ==
  /\ c \in agent /\ said[c] < MaxDown
  /\ said' = [said EXCEPT ![c] = @ + 1]
  /\ UNCHANGED <<mapVars, tabVars, call, agent, heard, up, down, got, reached, fromWs, toWs>>

HangUp(c) ==
  /\ c \in agent
  /\ agent' = agent \ {c}
  /\ UNCHANGED <<mapVars, tabVars, call, said, heard, up, down, got, reached, fromWs, toWs>>

\* What up took and the agent has not received is in the channel of the response
\* and, when that is full, one message in up's hand.
Waiting(c) == Len(got[c]) - reached[c]
InHand(c)  == Waiting(c) > Capacity

\* rx_from_ws to the response: ends when the channel is closed and drained, and,
\* for an agent that left, with the message at hand or the next one.
PumpUp(c) ==
  /\ up[c] = 0
  /\ LET b == call[c] IN
       \/ /\ fromWs[b] # <<>> /\ c \in agent /\ ~InHand(c)
          /\ got' = [got EXCEPT ![c] = Append(@, Head(fromWs[b]))]
          /\ fromWs' = [fromWs EXCEPT ![b] = Tail(@)]
          /\ UNCHANGED up
       \/ /\ \/ c \notin agent /\ (fromWs[b] # <<>> \/ InHand(c))
             \/ fromWs[b] = <<>> /\ recv[b] = Ended /\ ~InHand(c)
          /\ up' = [up EXCEPT ![c] = Ended]
          /\ fromWs' = [fromWs EXCEPT ![b] = <<>>]
          /\ UNCHANGED got
  /\ UNCHANGED <<mapVars, tabVars, call, agent, said, heard, down, reached, toWs>>

\* ReceiverStream: the agent is given the next message of the response.
Respond(c) ==
  /\ c \in agent /\ reached[c] < Len(got[c])
  /\ reached' = [reached EXCEPT ![c] = @ + 1]
  /\ UNCHANGED <<mapVars, tabVars, call, agent, said, heard, up, down, got, fromWs, toWs>>

\* The agent to tx_to_ws.
PumpDown(c) ==
  /\ LET b == call[c] IN
       \/ /\ down[c] = 0 /\ heard[c] < said[c]
          /\ down' = [down EXCEPT ![c] = heard[c] + 1]
          /\ heard' = [heard EXCEPT ![c] = @ + 1]
          /\ UNCHANGED toWs
       \/ /\ down[c] = 0 /\ c \notin agent
          /\ down' = [down EXCEPT ![c] = Ended]
          /\ UNCHANGED <<heard, toWs>>
       \/ /\ down[c] \in 1..MaxDown /\ send[b] = 0 /\ Len(toWs[b]) < Capacity
          /\ toWs' = [toWs EXCEPT ![b] = Append(@, down[c])]
          /\ down' = [down EXCEPT ![c] = 0]
          /\ UNCHANGED heard
       \/ /\ down[c] \in 1..MaxDown /\ send[b] = Ended
          /\ down' = [down EXCEPT ![c] = Ended]
          /\ UNCHANGED <<heard, toWs>>
  /\ UNCHANGED <<mapVars, tabVars, call, agent, said, up, got, reached, fromWs>>

-----------------------------------------------------------------------------
Next ==
  \/ \E s \in Sessions : Create(s)
  \/ \E b \in Tabs, s \in Sessions : Reject(b, s) \/ Open(b, s)
  \/ \E b \in Tabs :
       \/ Asked(b) \/ AskFails(b) \/ Type(b) \/ Leave(b)
       \/ Read(b) \/ Push(b) \/ Show(b) \/ Return(b)
  \/ \E c \in Calls, b \in Tabs : IoStream(c, b)
  \/ \E c \in Calls : Say(c) \/ HangUp(c) \/ PumpUp(c) \/ Respond(c) \/ PumpDown(c)

Spec == Init /\ [][Next]_vars

\* tokio polls every task that is ready; a browser and an agent that are there
\* take what is written to them.  Nobody has to leave, type or call.
Fairness ==
  /\ \A b \in Tabs : /\ WF_vars(Asked(b) \/ AskFails(b))
                     /\ WF_vars(Read(b) \/ Push(b))
                     /\ WF_vars(Show(b)) /\ WF_vars(Return(b))
  /\ \A c \in Calls : WF_vars(PumpUp(c)) /\ WF_vars(Respond(c)) /\ WF_vars(PumpDown(c))

FairSpec == Spec /\ Fairness

-----------------------------------------------------------------------------
(* A session is good for one WebSocket: two tabs that open the same        *)
(* address do not both get a terminal.                                     *)
SessionUsedOnce ==
  \A b, d \in Tabs : tab[b].session # None /\ tab[b].session = tab[d].session => b = d

(* handler.rs:202, "not found or already bound": a stream is bound to one  *)
(* call even if the agent answers a task twice.                            *)
StreamBoundOnce ==
  \A c, d \in Calls : call[c] \in Tabs /\ call[c] = call[d] => c = d

(* Both ways, what arrives is what was sent, in order and without a gap,   *)
(* whatever fills up and whoever leaves.                                   *)
BytesInOrder ==
  /\ \A c \in Calls : \A n \in 1..Len(got[c]) : got[c][n] = n
  /\ \A b \in Tabs : \A n \in 1..Len(shown[b]) : shown[b][n] = n

(* What the browser of a bound stream sends reaches the agent unless one   *)
(* of the two leaves.                                                      *)
TypedIsDelivered ==
  \A b \in Tabs, c \in Calls : \A n \in 1..MaxUp :
    call[c] = b /\ typed[b] >= n ~> reached[c] >= n \/ c \notin agent \/ b \notin open

(* An agent that leaves ends the terminal: the handler returns and the     *)
(* browser is disconnected.                                                *)
AgentLossEndsTab ==
  \A b \in Tabs, c \in Calls :
    call[c] = b /\ c \notin agent ~> tab[b].stage = "returned"

(* A browser that leaves a bound stream ends both pumps to the agent's     *)
(* side: the handler returns, and the response of io_stream ends when the  *)
(* agent has what was in it.                                               *)
LeavingEndsCall ==
  \A b \in Tabs, c \in Calls :
    call[c] = b /\ b \notin open ~>
      /\ tab[b].stage = "returned" /\ up[c] = Ended
      /\ c \in agent => reached[c] = Len(got[c])

(* Maps, channels, pumps and the two handlers together are a relay between *)
(* one browser and one agent (Relay): each receives exactly the next       *)
(* message the other has sent, and nothing after it left.                  *)
Pipes == INSTANCE Relay WITH
  Nobody  <- None,
  session <- [b \in Tabs |-> tab[b].session],
  peer    <- [c \in Calls |-> IF call[c] \in Tabs THEN call[c] ELSE None],
  got     <- [c \in Calls |-> SubSeq(got[c], 1, reached[c])]

IsRelay == Pipes!Spec
=============================================================================
