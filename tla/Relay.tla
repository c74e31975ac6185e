-------------------------------- MODULE Relay --------------------------------
(***************************************************************************)
(* What a web terminal promises, without maps, channels, pumps or          *)
(* handlers.  A session is given to one tab and a tab is paired with one   *)
(* call of the agent, for good.  From then on either end receives the next *)
(* message the other has sent, or leaves and receives nothing more.        *)
(***************************************************************************)
EXTENDS Naturals, Sequences

CONSTANTS Sessions, Tabs, Calls, Nobody

VARIABLES
  session,      \* the session a tab was given
  peer,         \* the tab a call is paired with
  open, agent,  \* the tabs and the calls whose other side is there
  typed, said,  \* how many messages a tab, and a call, have been sent into
  shown, got    \* what came out at a tab, and at a call

vars == <<session, peer, open, agent, typed, said, shown, got>>

Init ==
  /\ session = [b \in Tabs |-> Nobody]
  /\ peer = [c \in Calls |-> Nobody]
  /\ open = {} /\ agent = {}
  /\ typed = [b \in Tabs |-> 0] /\ said = [c \in Calls |-> 0]
  /\ shown = [b \in Tabs |-> <<>>] /\ got = [c \in Calls |-> <<>>]

\* The session is used up even if the tab gets no terminal.
Start(b, s) ==
  /\ session[b] = Nobody
  /\ \A d \in Tabs : session[d] # s
  /\ session' = [session EXCEPT ![b] = s]
  /\ open' \in {open, open \cup {b}}
  /\ UNCHANGED <<peer, agent, typed, said, shown, got>>

Pair(c, b) ==
  /\ session[b] # Nobody
  /\ peer[c] = Nobody
  /\ \A d \in Calls : peer[d] # b
  /\ peer' = [peer EXCEPT ![c] = b]
  /\ agent' = agent \cup {c}
  /\ UNCHANGED <<session, open, typed, said, shown, got>>

Type(b) ==
  /\ b \in open
  /\ typed' = [typed EXCEPT ![b] = @ + 1]
  /\ UNCHANGED <<session, peer, open, agent, said, shown, got>>

Say(c) ==
  /\ c \in agent
  /\ said' = [said EXCEPT ![c] = @ + 1]
  /\ UNCHANGED <<session, peer, open, agent, typed, shown, got>>

ToAgent(c, b) ==
  /\ peer[c] = b /\ c \in agent
  /\ Len(got[c]) < typed[b]
  /\ got' = [got EXCEPT ![c] = Append(@, Len(@) + 1)]
  /\ UNCHANGED <<session, peer, open, agent, typed, said, shown>>

ToBrowser(c, b) ==
  /\ peer[c] = b /\ b \in open
  /\ Len(shown[b]) < said[c]
  /\ shown' = [shown EXCEPT ![b] = Append(@, Len(@) + 1)]
  /\ UNCHANGED <<session, peer, open, agent, typed, said, got>>

BrowserGone(b) ==
  /\ open' = open \ {b}
  /\ UNCHANGED <<session, peer, agent, typed, said, shown, got>>

AgentGone(c) ==
  /\ agent' = agent \ {c}
  /\ UNCHANGED <<session, peer, open, typed, said, shown, got>>

Next ==
  \/ \E b \in Tabs, s \in Sessions : Start(b, s)
  \/ \E c \in Calls, b \in Tabs : Pair(c, b) \/ ToAgent(c, b) \/ ToBrowser(c, b)
  \/ \E b \in Tabs : Type(b) \/ BrowserGone(b)
  \/ \E c \in Calls : Say(c) \/ AgentGone(c)

Spec == Init /\ [][Next]_vars
=============================================================================
