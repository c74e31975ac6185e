------------------------ MODULE TerminalSessionProofs ------------------------
(***************************************************************************)
(* Terminal sessions for any number of sessions, tabs and calls and any    *)
(* capacity of the channels.  A session is used by one tab and a stream is *)
(* bound to one call, because what a remove took out of a map is never put *)
(* back.  So one pump reads a channel and one fills it, and what arrives   *)
(* is what was sent, in order: a terminal is a relay.                      *)
(*                                                                         *)
(* Then a terminal that one side has left: somebody can always move, and   *)
(* every move brings it nearer to its end.  And one that neither has left: *)
(* nothing tears it down, and what was sent can always go further.         *)
(***************************************************************************)
EXTENDS TerminalSession, SequenceTheorems, TLAPS

(* The part of the state the two maps are about.                           *)
Shape ==
  /\ pending \subseteq created
  /\ tab \in [Tabs -> [stage : {"idle", "asking", "failed", "proxy", "returned"},
                       session : Sessions \cup {None}]]
  /\ call \in [Calls -> Tabs \cup {None, Refused}]

(* A tab's session has left pending_terminals.                             *)
TakenSessions ==
  \A b \in Tabs : tab[b].session # None => tab[b].session \in created \ pending

(* A tab that has not started has neither a session nor a stream.          *)
IdleTabs ==
  \A b \in Tabs : tab[b].stage = "idle" =>
    tab[b].session = None /\ b \notin active /\ ~Bound(b)

(* A stream is in the map or bound, not both.                              *)
ActiveIsUnbound == \A b \in Tabs : b \in active => ~Bound(b)

IInv ==
  /\ Shape
  /\ TakenSessions
  /\ IdleTabs
  /\ ActiveIsUnbound
  /\ SessionUsedOnce
  /\ StreamBoundOnce

-----------------------------------------------------------------------------
(* Most steps move bytes and leave the two maps and their users alone.     *)
LEMMA QuietStep ==
  ASSUME IInv, UNCHANGED <<created, pending, active, tab, call>>
  PROVE  IInv'
  BY DEF IInv, Shape, TakenSessions, IdleTabs, ActiveIsUnbound, Bound,
         SessionUsedOnce, StreamBoundOnce

(* A tab that moves on keeps its session; entries can only leave the map.  *)
LEMMA StageStep ==
  ASSUME IInv, NEW b \in Tabs, tab[b].stage # "idle",
         NEW stage \in {"asking", "failed", "proxy", "returned"},
         tab' = [tab EXCEPT ![b].stage = stage],
         active' \subseteq active,
         UNCHANGED <<created, pending, call>>
  PROVE  IInv'
<1>1. /\ tab'[b].stage = stage /\ tab'[b].session = tab[b].session
      /\ \A d \in Tabs \ {b} : tab'[d] = tab[d]
  BY DEF IInv, Shape
<1>2. Shape'
  BY DEF IInv, Shape
<1>3. \A d \in Tabs : tab'[d].session = tab[d].session
  BY <1>1
<1>4. TakenSessions' /\ SessionUsedOnce'
  BY <1>3 DEF IInv, TakenSessions, SessionUsedOnce
<1>5. IdleTabs'
  BY <1>1 DEF IInv, IdleTabs, Bound
<1>6. ActiveIsUnbound' /\ StreamBoundOnce'
  BY DEF IInv, ActiveIsUnbound, StreamBoundOnce, Bound
<1>7. QED
  BY <1>2, <1>4, <1>5, <1>6 DEF IInv

LEMMA Inductive == IInv /\ [Next]_vars => IInv'
<1> SUFFICES ASSUME IInv, [Next]_vars
             PROVE  IInv'
  OBVIOUS
<1> USE TerminalAssumption
<1>1. ASSUME NEW s \in Sessions, Create(s)
      PROVE  IInv'
  <2>1. UNCHANGED <<active, tab, call>>
    BY <1>1 DEF Create, tabVars, callVars
  <2>2. Shape'
    BY <1>1, <2>1 DEF Create, IInv, Shape
  <2>3. TakenSessions'
    BY <1>1, <2>1 DEF Create, IInv, TakenSessions, Shape
  <2>4. IdleTabs' /\ ActiveIsUnbound' /\ SessionUsedOnce' /\ StreamBoundOnce'
    BY <2>1 DEF IInv, IdleTabs, ActiveIsUnbound, SessionUsedOnce, StreamBoundOnce, Bound
  <2>5. QED
    BY <2>2, <2>3, <2>4 DEF IInv
<1>2. ASSUME NEW b \in Tabs, NEW s \in Sessions, Reject(b, s)
      PROVE  IInv'
  <2>1. /\ tab'[b].stage = "failed" /\ tab'[b].session = None
        /\ \A d \in Tabs \ {b} : tab'[d] = tab[d]
    BY <1>2 DEF Reject, IInv, Shape
  <2>2. UNCHANGED <<created, pending, active, call>>
    BY <1>2 DEF Reject, mapVars, callVars
  <2>3. Shape'
    BY <1>2, <2>2 DEF Reject, IInv, Shape
  <2>4. TakenSessions' /\ SessionUsedOnce'
    BY <2>1, <2>2 DEF IInv, TakenSessions, SessionUsedOnce
  <2>5. IdleTabs' /\ ActiveIsUnbound' /\ StreamBoundOnce'
    BY <2>1, <2>2 DEF IInv, IdleTabs, ActiveIsUnbound, StreamBoundOnce, Bound
  <2>6. QED
    BY <2>3, <2>4, <2>5 DEF IInv
<1>3. ASSUME NEW b \in Tabs, NEW s \in Sessions, Open(b, s)
      PROVE  IInv'
  <2>1. /\ tab'[b].stage \in {"asking", "failed"} /\ tab'[b].session = s
        /\ \A d \in Tabs \ {b} : tab'[d] = tab[d]
    BY <1>3 DEF Open, IInv, Shape
  <2>2. /\ s \in pending /\ pending' = pending \ {s} /\ active' = active \cup {b}
        /\ tab[b].stage = "idle"
        /\ UNCHANGED <<created, call>>
    BY <1>3 DEF Open, callVars
  <2>3. Shape'
    BY <1>3, <2>2 DEF Open, IInv, Shape
  \* Nobody has the session yet: it was still pending.
  <2>4. \A d \in Tabs : tab[d].session # s
    BY <2>2 DEF IInv, TakenSessions
  <2>5. SessionUsedOnce'
    BY <2>1, <2>4 DEF IInv, SessionUsedOnce
  <2>6. TakenSessions'
    BY <2>1, <2>2 DEF IInv, TakenSessions, Shape
  <2>7. IdleTabs'
    BY <2>1, <2>2 DEF IInv, IdleTabs, Bound
  <2>8. ActiveIsUnbound' /\ StreamBoundOnce'
    BY <2>2 DEF IInv, IdleTabs, ActiveIsUnbound, StreamBoundOnce, Bound
  <2>9. QED
    BY <2>3, <2>5, <2>6, <2>7, <2>8 DEF IInv
<1>4. ASSUME NEW b \in Tabs, Asked(b)
      PROVE  IInv'
  BY <1>4, StageStep DEF Asked, mapVars, callVars
<1>5. ASSUME NEW b \in Tabs, AskFails(b)
      PROVE  IInv'
  BY <1>5, StageStep DEF AskFails, mapVars, callVars
<1>6. ASSUME NEW b \in Tabs, Return(b)
      PROVE  IInv'
  BY <1>6, StageStep DEF Return, callVars
<1>7. ASSUME NEW b \in Tabs, Type(b) \/ Leave(b) \/ Read(b) \/ Push(b) \/ Show(b)
      PROVE  IInv'
  BY <1>7, QuietStep DEF Type, Leave, Read, Push, Show, mapVars, callVars
<1>8. ASSUME NEW c \in Calls, NEW b \in Tabs, Bind(c, b), tab[b].stage # "idle"
      PROVE  IInv'
  <2>1. /\ call[c] = None /\ b \in active /\ active' = active \ {b}
        /\ UNCHANGED <<created, pending, tab>>
    BY <1>8 DEF Bind, tabVars
  <2>2. call'[c] = b /\ \A d \in Calls \ {c} : call'[d] = call[d]
    BY <1>8 DEF Bind, IInv, Shape
  <2>3. Shape'
    BY <1>8, <2>1 DEF Bind, IInv, Shape
  \* Nobody is bound to the stream yet: it was still in the map.
  <2>4. \A d \in Calls : call[d] # b
    BY <2>1 DEF IInv, ActiveIsUnbound, Bound
  <2>5. StreamBoundOnce'
    BY <2>2, <2>4 DEF IInv, StreamBoundOnce
  <2>6. \A d \in Tabs \ {b} : Bound(d)' => Bound(d)
    BY <2>2 DEF Bound
  <2>7. IdleTabs' /\ ActiveIsUnbound'
    BY <1>8, <2>1, <2>6 DEF IInv, IdleTabs, ActiveIsUnbound
  <2>8. TakenSessions' /\ SessionUsedOnce'
    BY <2>1 DEF IInv, TakenSessions, SessionUsedOnce
  <2>9. QED
    BY <2>3, <2>5, <2>7, <2>8 DEF IInv
<1>9. ASSUME NEW c \in Calls, NEW b \in Tabs, Refuse(c, b)
      PROVE  IInv'
  <2>1. UNCHANGED <<created, pending, active, tab>>
    BY <1>9 DEF Refuse, mapVars, tabVars
  <2>2. call'[c] = Refused /\ \A d \in Calls \ {c} : call'[d] = call[d]
    BY <1>9 DEF Refuse, IInv, Shape
  <2>3. Shape'
    BY <1>9, <2>1 DEF Refuse, IInv, Shape
  <2>4. \A d \in Tabs : Bound(d)' => Bound(d)
    BY <2>2 DEF Bound
  <2>5. IdleTabs' /\ ActiveIsUnbound' /\ TakenSessions' /\ SessionUsedOnce'
    BY <2>1, <2>4 DEF IInv, IdleTabs, ActiveIsUnbound, TakenSessions, SessionUsedOnce
  <2>6. StreamBoundOnce'
    BY <2>2 DEF IInv, StreamBoundOnce
  <2>7. QED
    BY <2>3, <2>5, <2>6 DEF IInv
<1>10. ASSUME NEW c \in Calls, Say(c) \/ HangUp(c) \/ PumpUp(c) \/ Respond(c) \/ PumpDown(c)
       PROVE  IInv'
  BY <1>10, QuietStep DEF Say, HangUp, PumpUp, Respond, PumpDown, mapVars, tabVars
<1>11. ASSUME UNCHANGED vars
       PROVE  IInv'
  BY <1>11, QuietStep DEF vars, mapVars, tabVars, callVars
<1>12. QED
  BY <1>1, <1>2, <1>3, <1>4, <1>5, <1>6, <1>7, <1>8, <1>9, <1>10, <1>11
     DEF Next, IoStream

LEMMA Invariant == Spec => []IInv
<1>1. Init => IInv
  BY TerminalAssumption
     DEF Init, IInv, Shape, TakenSessions, IdleTabs, ActiveIsUnbound, Bound,
         SessionUsedOnce, StreamBoundOnce
<1>2. QED
  BY <1>1, Inductive, PTL DEF Spec

(* Two tabs that open the same session do not both get a terminal.         *)
THEOREM OneTabPerSession == Spec => []SessionUsedOnce
  BY Invariant, PTL DEF IInv

(* Two calls of io_stream with the same stream id are not both bound.      *)
THEOREM OneCallPerStream == Spec => []StreamBoundOnce
  BY Invariant, PTL DEF IInv
-----------------------------------------------------------------------------
(* What the two directions of a stream carry.                              *)

(* A channel is a short sequence.                                          *)
LEMMA ChannelOf ==
  ASSUME NEW m \in Nat, NEW q
  PROVE  q \in Channel(m) <=> q \in Seq(1..m) /\ Len(q) <= Capacity
<1>1. Capacity \in Nat
  BY TerminalAssumption
<1>2. ASSUME NEW n \in 0..Capacity, q \in [1..n -> 1..m]
      PROVE  q \in Seq(1..m) /\ Len(q) <= Capacity
  <2>1. n \in Nat /\ DOMAIN q = 1..n
    BY <1>1, <1>2
  <2>2. q \in Seq(1..m) /\ Len(q) = n
    BY <1>2, <2>1
  <2> QED
    BY <1>1, <2>2
<1>3. ASSUME q \in Seq(1..m), Len(q) <= Capacity
      PROVE  q \in [1..Len(q) -> 1..m] /\ Len(q) \in 0..Capacity
  BY <1>1, <1>3
<1> QED
  BY <1>2, <1>3 DEF Channel

LEMMA Taking ==
  ASSUME NEW m \in Nat, NEW q \in Channel(m), q # <<>>
  PROVE  /\ Head(q) \in 1..m /\ Head(q) = q[1]
         /\ Tail(q) \in Channel(m) /\ Len(q) \in Nat \ {0}
         /\ Len(Tail(q)) = Len(q) - 1
         /\ \A i \in 1..Len(Tail(q)) : i + 1 \in 1..Len(q) /\ Tail(q)[i] = q[i + 1]
<1>1. q \in Seq(1..m) /\ Len(q) <= Capacity
  BY ChannelOf
<1>2. /\ Head(q) \in 1..m /\ Head(q) = q[1]
      /\ Tail(q) \in Seq(1..m) /\ Len(q) \in Nat \ {0}
      /\ Len(Tail(q)) = Len(q) - 1
      /\ \A i \in 1..Len(Tail(q)) : i + 1 \in 1..Len(q) /\ Tail(q)[i] = q[i + 1]
  BY <1>1
<1>3. Len(Tail(q)) <= Capacity
  BY <1>1, <1>2, TerminalAssumption
<1>4. Tail(q) \in Channel(m)
  BY <1>2, <1>3, ChannelOf
<1> QED
  BY <1>2, <1>4

LEMMA Putting ==
  ASSUME NEW m \in Nat, NEW q \in Seq(1..m), NEW x \in 1..m
  PROVE  /\ Append(q, x) \in Seq(1..m)
         /\ Len(q) \in Nat /\ Len(Append(q, x)) = Len(q) + 1
         /\ \A i \in 1..Len(q) : Append(q, x)[i] = q[i]
         /\ Append(q, x)[Len(q) + 1] = x
         /\ Len(q) < Capacity => Append(q, x) \in Channel(m)
<1>1. /\ Append(q, x) \in Seq(1..m)
      /\ Len(q) \in Nat /\ Len(Append(q, x)) = Len(q) + 1
      /\ \A i \in 1..Len(q) : Append(q, x)[i] = q[i]
      /\ Append(q, x)[Len(q) + 1] = x
  OBVIOUS
<1>2. ASSUME Len(q) < Capacity
      PROVE  Append(q, x) \in Channel(m)
  <2>1. Len(Append(q, x)) <= Capacity
    BY <1>1, <1>2, TerminalAssumption
  <2> QED
    BY <1>1, <2>1, ChannelOf
<1> QED
  BY <1>1, <1>2

(* A call that is bound to no stream has not moved anything.               *)
FreshCalls ==
  \A c \in Calls : call[c] \notin Tabs =>
    up[c] = Ended /\ down[c] = Ended /\ got[c] = <<>> /\ heard[c] = 0

(* TypeOK in three parts: who is there, what goes up, what goes down.      *)
TypeUsers ==
  /\ created \subseteq Sessions /\ pending \subseteq created /\ active \subseteq Tabs
  /\ tab \in [Tabs -> [stage : {"idle", "asking", "failed", "proxy", "returned"},
                       session : Sessions \cup {None}]]
  /\ open \subseteq Tabs /\ agent \subseteq Calls
  /\ call \in [Calls -> Tabs \cup {None, Refused}]

TypeUp ==
  /\ typed \in [Tabs -> 0..MaxUp] /\ taken \in [Tabs -> 0..MaxUp]
  /\ recv \in [Tabs -> 0..MaxUp \cup {Ended}]
  /\ fromWs \in [Tabs -> Channel(MaxUp)]
  /\ up \in [Calls -> {0, Ended}]
  /\ got \in [Calls -> Seq(1..MaxUp)]
  /\ reached \in [Calls -> Nat]

TypeDown ==
  /\ said \in [Calls -> 0..MaxDown] /\ heard \in [Calls -> 0..MaxDown]
  /\ down \in [Calls -> 0..MaxDown \cup {Ended}]
  /\ toWs \in [Tabs -> Channel(MaxDown)]
  /\ send \in [Tabs -> {0, Ended}]
  /\ shown \in [Tabs -> Seq(1..MaxDown)]

LEMMA TypeParts == TypeOK <=> TypeUsers /\ TypeUp /\ TypeDown
  BY DEF TypeOK, TypeUsers, TypeUp, TypeDown

Typed == TypeUsers /\ TypeUp /\ TypeDown /\ FreshCalls

LEMMA SameUsers ==
  ASSUME TypeUsers, UNCHANGED <<created, pending, active, tab, open, agent, call>>
  PROVE  TypeUsers'
  BY DEF TypeUsers

LEMMA SameUp ==
  ASSUME TypeUp, UNCHANGED <<typed, taken, recv, fromWs, up, got, reached>>
  PROVE  TypeUp'
  BY DEF TypeUp

LEMMA SameDown ==
  ASSUME TypeDown, UNCHANGED <<said, heard, down, toWs, send, shown>>
  PROVE  TypeDown'
  BY DEF TypeDown

LEMMA SameCalls ==
  ASSUME FreshCalls, UNCHANGED <<call, up, down, got, heard>>
  PROVE  FreshCalls'
  BY DEF FreshCalls

LEMMA EmptyChannel == \A m \in Nat : <<>> \in Channel(m) /\ <<>> \in Seq(1..m)
<1> SUFFICES ASSUME NEW m \in Nat
             PROVE  <<>> \in Channel(m) /\ <<>> \in Seq(1..m)
  OBVIOUS
<1>1. <<>> \in Seq(1..m)
  OBVIOUS
<1>2. Len(<<>>) <= Capacity
  BY TerminalAssumption
<1> QED
  BY <1>1, <1>2, ChannelOf

LEMMA TypedStep == Typed /\ [Next]_vars => Typed'
<1> SUFFICES ASSUME TypeUsers, TypeUp, TypeDown, FreshCalls, [Next]_vars
             PROVE  Typed'
  BY DEF Typed
<1> USE TerminalAssumption DEF Typed
<1>1. ASSUME NEW s \in Sessions, Create(s)
      PROVE  Typed'
  <2>10. TypeUsers'
    BY <1>1 DEF Create, TypeUsers, tabVars, callVars
  <2>11. TypeUp'
    BY <1>1, SameUp DEF Create, mapVars, tabVars, callVars
  <2>12. TypeDown'
    BY <1>1, SameDown DEF Create, mapVars, tabVars, callVars
  <2>13. FreshCalls'
    BY <1>1, SameCalls DEF Create, mapVars, tabVars, callVars
  <2> QED
    BY <2>10, <2>11, <2>12, <2>13
<1>2. ASSUME NEW b \in Tabs, NEW s \in Sessions, Reject(b, s)
      PROVE  Typed'
  <2>10. TypeUsers'
    BY <1>2 DEF Reject, TypeUsers, mapVars, callVars
  <2>11. TypeUp'
    BY <1>2, SameUp DEF Reject, mapVars, tabVars, callVars
  <2>12. TypeDown'
    BY <1>2, SameDown DEF Reject, mapVars, tabVars, callVars
  <2>13. FreshCalls'
    BY <1>2, SameCalls DEF Reject, mapVars, tabVars, callVars
  <2> QED
    BY <2>10, <2>11, <2>12, <2>13
<1>3. ASSUME NEW b \in Tabs, NEW s \in Sessions, Open(b, s)
      PROVE  Typed'
  <2>10. TypeUsers'
    BY <1>3 DEF Open, TypeUsers, callVars
  <2>11. TypeUp'
    BY <1>3, SameUp DEF Open, mapVars, tabVars, callVars
  <2>12. TypeDown'
    BY <1>3, SameDown DEF Open, mapVars, tabVars, callVars
  <2>13. FreshCalls'
    BY <1>3, SameCalls DEF Open, mapVars, tabVars, callVars
  <2> QED
    BY <2>10, <2>11, <2>12, <2>13
<1>4. ASSUME NEW b \in Tabs, Asked(b)
      PROVE  Typed'
  <2>10. TypeUsers'
    BY <1>4 DEF Asked, TypeUsers, mapVars, callVars
  <2>11. TypeUp'
    BY <1>4 DEF Asked, TypeUp, callVars
  <2>12. TypeDown'
    BY <1>4 DEF Asked, TypeDown, callVars
  <2>13. FreshCalls'
    BY <1>4, SameCalls DEF Asked, mapVars, tabVars, callVars
  <2> QED
    BY <2>10, <2>11, <2>12, <2>13
<1>5. ASSUME NEW b \in Tabs, AskFails(b)
      PROVE  Typed'
  <2>10. TypeUsers'
    BY <1>5 DEF AskFails, TypeUsers, mapVars, callVars
  <2>11. TypeUp'
    BY <1>5, SameUp DEF AskFails, mapVars, tabVars, callVars
  <2>12. TypeDown'
    BY <1>5, SameDown DEF AskFails, mapVars, tabVars, callVars
  <2>13. FreshCalls'
    BY <1>5, SameCalls DEF AskFails, mapVars, tabVars, callVars
  <2> QED
    BY <2>10, <2>11, <2>12, <2>13
<1>6. ASSUME NEW b \in Tabs, Type(b) \/ Leave(b)
      PROVE  Typed'
  <2>10. TypeUsers'
    BY <1>6 DEF Type, Leave, TypeUsers, mapVars, callVars
  <2>11. TypeUp'
    BY <1>6 DEF Type, Leave, TypeUp, callVars
  <2>12. TypeDown'
    BY <1>6, SameDown DEF Type, Leave, mapVars, tabVars, callVars
  <2>13. FreshCalls'
    BY <1>6, SameCalls DEF Type, Leave, mapVars, tabVars, callVars
  <2> QED
    BY <2>10, <2>11, <2>12, <2>13
<1>7. ASSUME NEW b \in Tabs, Read(b)
      PROVE  Typed'
  <2>10. TypeUsers'
    BY <1>7, SameUsers DEF Read, mapVars, tabVars, callVars
  <2>11. TypeUp'
    <3>1. taken[b] \in 0..MaxUp /\ typed[b] \in 0..MaxUp /\ taken[b] < typed[b] =>
            taken[b] + 1 \in 0..MaxUp
      OBVIOUS
    <3>2. taken' \in [Tabs -> 0..MaxUp]
      BY <1>7, <3>1 DEF Read, TypeUp
    <3>3. \/ \E v \in 0..MaxUp : recv' = [recv EXCEPT ![b] = v]
          \/ recv' = [recv EXCEPT ![b] = Ended]
      BY <1>7, <3>1 DEF Read, TypeUp
    <3>4. recv' \in [Tabs -> 0..MaxUp \cup {Ended}]
      BY <3>3 DEF TypeUp
    <3> QED
      BY <1>7, <3>2, <3>4 DEF Read, TypeUp, callVars
  <2>12. TypeDown'
    BY <1>7, SameDown DEF Read, mapVars, tabVars, callVars
  <2>13. FreshCalls'
    BY <1>7, SameCalls DEF Read, mapVars, tabVars, callVars
  <2> QED
    BY <2>10, <2>11, <2>12, <2>13
<1>8. ASSUME NEW b \in Tabs, Push(b)
      PROVE  Typed'
  <2>1. fromWs[b] \in Seq(1..MaxUp) /\ recv[b] \in 1..MaxUp
    BY <1>8, ChannelOf DEF Push, TypeUp
  <2>2. Len(fromWs[b]) < Capacity => Append(fromWs[b], recv[b]) \in Channel(MaxUp)
    BY <2>1, Putting
  <2>10. TypeUsers'
    BY <1>8, SameUsers DEF Push, mapVars, tabVars, callVars
  <2>11. TypeUp'
    <3>1. fromWs' \in [Tabs -> Channel(MaxUp)]
      BY <1>8, <2>2 DEF Push, TypeUp
    <3>2. recv' \in [Tabs -> 0..MaxUp \cup {Ended}]
      <4>1. recv' = [recv EXCEPT ![b] = 0] \/ recv' = [recv EXCEPT ![b] = Ended]
        BY <1>8 DEF Push
      <4>2. 0 \in 0..MaxUp
        OBVIOUS
      <4> QED
        BY <4>1, <4>2 DEF TypeUp
    <3> QED
      BY <1>8, <3>1, <3>2 DEF Push, TypeUp, callVars
  <2>12. TypeDown'
    BY <1>8, SameDown DEF Push, mapVars, tabVars, callVars
  <2>13. FreshCalls'
    BY <1>8, SameCalls DEF Push, mapVars, tabVars, callVars
  <2> QED
    BY <2>10, <2>11, <2>12, <2>13
<1>9. ASSUME NEW b \in Tabs, Show(b)
      PROVE  Typed'
  <2>1. toWs[b] # <<>> =>
          Tail(toWs[b]) \in Channel(MaxDown) /\ Append(shown[b], Head(toWs[b])) \in Seq(1..MaxDown)
    BY Taking, Putting DEF TypeDown
  <2>10. TypeUsers'
    BY <1>9, SameUsers DEF Show, mapVars, tabVars, callVars
  <2>11. TypeUp'
    BY <1>9, SameUp DEF Show, mapVars, tabVars, callVars
  <2>12. TypeDown'
    <3>1. toWs' \in [Tabs -> Channel(MaxDown)]
      BY <1>9, <2>1 DEF Show, TypeDown
    <3>2. shown' \in [Tabs -> Seq(1..MaxDown)]
      BY <1>9, <2>1 DEF Show, TypeDown
    <3>3. send' \in [Tabs -> {0, Ended}]
      BY <1>9 DEF Show, TypeDown
    <3> QED
      BY <1>9, <3>1, <3>2, <3>3 DEF Show, TypeDown, callVars
  <2>13. FreshCalls'
    BY <1>9, SameCalls DEF Show, mapVars, tabVars, callVars
  <2> QED
    BY <2>10, <2>11, <2>12, <2>13
<1>10. ASSUME NEW b \in Tabs, Return(b)
       PROVE  Typed'
  <2>10. TypeUsers'
    BY <1>10 DEF Return, TypeUsers, callVars
  <2>11. TypeUp'
    BY <1>10 DEF Return, TypeUp, callVars
  <2>12. TypeDown'
    BY <1>10, EmptyChannel DEF Return, TypeDown, callVars
  <2>13. FreshCalls'
    BY <1>10, SameCalls DEF Return, mapVars, tabVars, callVars
  <2> QED
    BY <2>10, <2>11, <2>12, <2>13
<1>11. ASSUME NEW c \in Calls, NEW b \in Tabs, Bind(c, b) \/ Refuse(c, b)
       PROVE  Typed'
  <2>10. TypeUsers'
    BY <1>11 DEF Bind, Refuse, TypeUsers, mapVars, tabVars
  <2>11. TypeUp'
    BY <1>11 DEF Bind, Refuse, TypeUp, tabVars
  <2>12. TypeDown'
    <3>1. 0 \in 0..MaxDown \cup {Ended}
      OBVIOUS
    <3>2. down' \in [Calls -> 0..MaxDown \cup {Ended}]
      BY <1>11, <3>1 DEF Bind, Refuse, TypeDown
    <3> QED
      BY <1>11, <3>2 DEF Bind, Refuse, TypeDown, tabVars
  <2>13. FreshCalls'
    BY <1>11 DEF Bind, Refuse, FreshCalls, TypeUsers, TypeUp, TypeDown
  <2> QED
    BY <2>10, <2>11, <2>12, <2>13
<1>12. ASSUME NEW c \in Calls, Say(c) \/ HangUp(c)
       PROVE  Typed'
  <2>10. TypeUsers'
    BY <1>12 DEF Say, HangUp, TypeUsers, mapVars, tabVars
  <2>11. TypeUp'
    BY <1>12, SameUp DEF Say, HangUp, mapVars, tabVars, callVars
  <2>12. TypeDown'
    <3>1. said[c] \in 0..MaxDown /\ said[c] < MaxDown => said[c] + 1 \in 0..MaxDown
      OBVIOUS
    <3>2. said' \in [Calls -> 0..MaxDown]
      BY <1>12, <3>1 DEF Say, HangUp, TypeDown
    <3> QED
      BY <1>12, <3>2 DEF Say, HangUp, TypeDown, tabVars
  <2>13. FreshCalls'
    BY <1>12, SameCalls DEF Say, HangUp, mapVars, tabVars, callVars
  <2> QED
    BY <2>10, <2>11, <2>12, <2>13
<1>13. ASSUME NEW c \in Calls, PumpUp(c)
       PROVE  Typed'
  <2>1. call[c] \in Tabs
    BY <1>13 DEF PumpUp, FreshCalls
  <2>2. fromWs[call[c]] # <<>> =>
          /\ Tail(fromWs[call[c]]) \in Channel(MaxUp)
          /\ Append(got[c], Head(fromWs[call[c]])) \in Seq(1..MaxUp)
    BY <2>1, Taking, Putting DEF TypeUp
  <2>10. TypeUsers'
    BY <1>13, SameUsers DEF PumpUp, mapVars, tabVars, callVars
  <2>11. TypeUp'
    <3>1. fromWs' \in [Tabs -> Channel(MaxUp)]
      <4>1. \E q \in Channel(MaxUp) : fromWs' = [fromWs EXCEPT ![call[c]] = q]
        BY <1>13, <2>1, <2>2, EmptyChannel DEF PumpUp, TypeUp
      <4> QED
        BY <4>1, <2>1 DEF TypeUp
    <3>2. got' \in [Calls -> Seq(1..MaxUp)]
      BY <1>13, <2>2 DEF PumpUp, TypeUp
    <3>3. up' \in [Calls -> {0, Ended}]
      BY <1>13 DEF PumpUp, TypeUp
    <3> QED
      BY <1>13, <3>1, <3>2, <3>3 DEF PumpUp, TypeUp, tabVars
  <2>12. TypeDown'
    BY <1>13, SameDown DEF PumpUp, mapVars, tabVars, callVars
  <2>13. FreshCalls'
    BY <1>13, <2>1 DEF PumpUp, FreshCalls, TypeUp
  <2> QED
    BY <2>10, <2>11, <2>12, <2>13
<1>14. ASSUME NEW c \in Calls, PumpDown(c)
       PROVE  Typed'
  <2>1. call[c] \in Tabs
    BY <1>14 DEF PumpDown, FreshCalls
  <2>2. toWs[call[c]] \in Seq(1..MaxDown)
    BY <2>1, ChannelOf DEF TypeDown
  <2>3. down[c] \in 1..MaxDown /\ Len(toWs[call[c]]) < Capacity =>
          Append(toWs[call[c]], down[c]) \in Channel(MaxDown)
    BY <2>2, Putting
  <2>10. TypeUsers'
    BY <1>14, SameUsers DEF PumpDown, mapVars, tabVars, callVars
  <2>11. TypeUp'
    BY <1>14, SameUp DEF PumpDown, mapVars, tabVars, callVars
  <2>12. TypeDown'
    <3>1. toWs' \in [Tabs -> Channel(MaxDown)]
      BY <1>14, <2>1, <2>3 DEF PumpDown, TypeDown
    <3>2. heard[c] \in 0..MaxDown /\ said[c] \in 0..MaxDown /\ heard[c] < said[c] =>
            heard[c] + 1 \in 0..MaxDown
      OBVIOUS
    <3>3. 0 \in 0..MaxDown
      OBVIOUS
    <3>4. down' \in [Calls -> 0..MaxDown \cup {Ended}]
      BY <1>14, <3>2, <3>3 DEF PumpDown, TypeDown
    <3>5. heard' \in [Calls -> 0..MaxDown]
      BY <1>14, <3>2 DEF PumpDown, TypeDown
    <3> QED
      BY <1>14, <3>1, <3>4, <3>5 DEF PumpDown, TypeDown, tabVars
  <2>13. FreshCalls'
    BY <1>14, <2>1 DEF PumpDown, FreshCalls, TypeDown
  <2> QED
    BY <2>10, <2>11, <2>12, <2>13
<1>15. ASSUME UNCHANGED vars
       PROVE  Typed'
  BY <1>15, SameUsers, SameUp, SameDown, SameCalls DEF vars, mapVars, tabVars, callVars
<1>16. ASSUME NEW c \in Calls, Respond(c)
       PROVE  Typed'
  <2>10. TypeUsers'
    BY <1>16, SameUsers DEF Respond, mapVars, tabVars, callVars
  <2>11. TypeUp'
    BY <1>16 DEF Respond, TypeUp, tabVars
  <2>12. TypeDown'
    BY <1>16, SameDown DEF Respond, mapVars, tabVars, callVars
  <2>13. FreshCalls'
    BY <1>16, SameCalls DEF Respond, mapVars, tabVars, callVars
  <2> QED
    BY <2>10, <2>11, <2>12, <2>13
<1> QED
  BY <1>1, <1>2, <1>3, <1>4, <1>5, <1>6, <1>7, <1>8, <1>9, <1>10, <1>11, <1>12,
     <1>13, <1>14, <1>15, <1>16 DEF Next, IoStream

LEMMA TypedInvariant == Spec => []Typed
<1>1. Init => Typed
  BY EmptyChannel, TerminalAssumption DEF Init, Typed, TypeUsers, TypeUp, TypeDown, FreshCalls
<1> QED
  BY <1>1, TypedStep, PTL DEF Spec

(* Every variable has its type, for any number of sessions and any channel *)
(* capacity; no channel ever holds more than Capacity messages.            *)
THEOREM TypeCorrect == Spec => []TypeOK
<1>1. Typed => TypeOK
  BY TypeParts DEF Typed
<1> QED
  BY <1>1, TypedInvariant, PTL

-----------------------------------------------------------------------------
(* Order.  What was read is what was delivered, then what is in the        *)
(* channel, then what the task holds that is waiting for room.             *)

\* n messages of the browser of b have reached the agent.
Upward(b, n) ==
  /\ \A i \in 1..Len(fromWs[b]) : fromWs[b][i] = n + i
  /\ recv[b] = 0 => taken[b] = n + Len(fromWs[b])
  /\ recv[b] \in 1..MaxUp => taken[b] = n + Len(fromWs[b]) + 1 /\ recv[b] = taken[b]

\* The same way back, as long as there is a task to show what arrives.
Downward(b, c) ==
  /\ \A i \in 1..Len(toWs[b]) : toWs[b][i] = Len(shown[b]) + i
  /\ send[b] = 0 /\ down[c] = 0 => heard[c] = Len(shown[b]) + Len(toWs[b])
  /\ send[b] = 0 /\ down[c] \in 1..MaxDown => heard[c] = Len(shown[b]) + Len(toWs[b]) + 1
  /\ down[c] \in 1..MaxDown => down[c] = heard[c]

(* The pumps of a tab start once, and with empty channels.                 *)
FreshTabs ==
  \A b \in Tabs : tab[b].stage \in {"idle", "asking"} =>
    recv[b] = Ended /\ taken[b] = 0 /\ fromWs[b] = <<>>

(* No agent is asked for the stream of a tab before its handler sent the   *)
(* task.                                                                   *)
BoundAfterTask ==
  \A b \in Tabs, c \in Calls : call[c] = b => tab[b].stage \in {"proxy", "returned"}

(* Nothing has been delivered of a stream that no call has taken.          *)
UnboundBuffers ==
  \A b \in Tabs : ~Bound(b) => Upward(b, 0) /\ shown[b] = <<>> /\ toWs[b] = <<>>

UpInOrder ==
  \A b \in Tabs, c \in Calls : call[c] = b /\ up[c] = 0 => Upward(b, Len(got[c]))

DownInOrder == \A b \in Tabs, c \in Calls : call[c] = b => Downward(b, c)

Order ==
  /\ FreshTabs
  /\ BoundAfterTask
  /\ UnboundBuffers
  /\ UpInOrder
  /\ DownInOrder
  /\ BytesInOrder

LEMMA SameOrder ==
  ASSUME Order,
         UNCHANGED <<taken, recv, fromWs, got, up, heard, down, toWs, send, shown, call>>,
         \A b \in Tabs : \/ tab'[b].stage = tab[b].stage
                         \/ tab[b].stage \in {"idle", "asking"}
  PROVE  Order'
<1>1. FreshTabs' /\ BoundAfterTask'
  BY DEF Order, FreshTabs, BoundAfterTask
<1>2. UnboundBuffers'
  BY DEF Order, UnboundBuffers, Bound, Upward
<1>3. UpInOrder'
  BY DEF Order, UpInOrder, Upward
<1>4. DownInOrder'
  BY DEF Order, DownInOrder, Downward
<1>5. BytesInOrder'
  BY DEF Order, BytesInOrder
<1> QED
  BY <1>1, <1>2, <1>3, <1>4, <1>5 DEF Order

(* The tasks of a tab on the way up: whatever they do, the messages of     *)
(* their stream stay in order.                                             *)
LEMMA TabUp ==
  ASSUME Order, NEW b \in Tabs,
         UNCHANGED <<tab, got, up, heard, down, toWs, send, shown, call>>,
         tab[b].stage \notin {"idle", "asking"},
         \A d \in Tabs \ {b} : /\ fromWs'[d] = fromWs[d] /\ taken'[d] = taken[d]
                               /\ recv'[d] = recv[d],
         \A n \in Nat : Upward(b, n) =>
           /\ \A i \in 1..Len(fromWs'[b]) : fromWs'[b][i] = n + i
           /\ recv'[b] = 0 => taken'[b] = n + Len(fromWs'[b])
           /\ recv'[b] \in 1..MaxUp =>
                taken'[b] = n + Len(fromWs'[b]) + 1 /\ recv'[b] = taken'[b],
         \A c \in Calls : Len(got[c]) \in Nat
  PROVE  Order'
<1>1. FreshTabs' /\ BoundAfterTask'
  BY DEF Order, FreshTabs, BoundAfterTask
<1>2. UnboundBuffers'
  <2> SUFFICES ASSUME NEW d \in Tabs, ~Bound(d)'
               PROVE  Upward(d, 0)' /\ shown'[d] = <<>> /\ toWs'[d] = <<>>
    BY DEF UnboundBuffers
  <2>1. Upward(d, 0) /\ shown[d] = <<>> /\ toWs[d] = <<>>
    BY DEF Bound, Order, UnboundBuffers
  <2>2. CASE d = b
    <3>1. /\ \A i \in 1..Len(fromWs'[b]) : fromWs'[b][i] = 0 + i
          /\ recv'[b] = 0 => taken'[b] = 0 + Len(fromWs'[b])
          /\ recv'[b] \in 1..MaxUp =>
               taken'[b] = 0 + Len(fromWs'[b]) + 1 /\ recv'[b] = taken'[b]
      BY <2>1, <2>2
    <3> QED
      BY <2>1, <2>2, <3>1 DEF Upward
  <2>3. CASE d # b
    BY <2>1, <2>3 DEF Upward
  <2> QED
    BY <2>2, <2>3
<1>3. UpInOrder'
  <2> SUFFICES ASSUME NEW d \in Tabs, NEW c \in Calls, call'[c] = d, up'[c] = 0
               PROVE  Upward(d, Len(got[c]))'
    BY DEF UpInOrder
  <2>1. Upward(d, Len(got[c])) /\ Len(got[c]) \in Nat
    BY DEF Order, UpInOrder
  <2>2. CASE d = b
    <3>1. /\ \A i \in 1..Len(fromWs'[b]) : fromWs'[b][i] = Len(got[c]) + i
          /\ recv'[b] = 0 => taken'[b] = Len(got[c]) + Len(fromWs'[b])
          /\ recv'[b] \in 1..MaxUp =>
               taken'[b] = Len(got[c]) + Len(fromWs'[b]) + 1 /\ recv'[b] = taken'[b]
      BY <2>1, <2>2
    <3> QED
      BY <2>1, <2>2, <3>1 DEF Upward
  <2>3. CASE d # b
    BY <2>1, <2>3 DEF Upward
  <2> QED
    BY <2>2, <2>3
<1>4. DownInOrder' /\ BytesInOrder'
  BY DEF Order, DownInOrder, Downward, BytesInOrder
<1> QED
  BY <1>1, <1>2, <1>3, <1>4 DEF Order

(* What one step leaves of a stream alone stays in order.                  *)
LEMMA KeepUp ==
  ASSUME NEW d \in Tabs, NEW c \in Calls, Upward(d, Len(got[c])), got'[c] = got[c],
         fromWs'[d] = fromWs[d], taken'[d] = taken[d],
         recv'[d] = recv[d] \/ recv'[d] = Ended
  PROVE  Upward(d, Len(got[c]))'
<1>1. Ended # 0 /\ Ended \notin 1..MaxUp
  BY TerminalAssumption
<1> QED
  BY <1>1 DEF Upward

LEMMA KeepUnbound ==
  ASSUME NEW d \in Tabs, Upward(d, 0),
         fromWs'[d] = fromWs[d], taken'[d] = taken[d],
         recv'[d] = recv[d] \/ recv'[d] = Ended
  PROVE  Upward(d, 0)'
<1>1. Ended # 0 /\ Ended \notin 1..MaxUp
  BY TerminalAssumption
<1> QED
  BY <1>1 DEF Upward

LEMMA KeepDown ==
  ASSUME NEW d \in Tabs, NEW c \in Calls, Downward(d, c),
         toWs'[d] = toWs[d], shown'[d] = shown[d], heard'[c] = heard[c],
         send'[d] = send[d] \/ send'[d] = Ended,
         down'[c] = down[c] \/ down'[c] = Ended
  PROVE  Downward(d, c)'
<1>1. Ended # 0 /\ Ended \notin 1..MaxDown
  BY TerminalAssumption
<1> QED
  BY <1>1 DEF Downward

LEMMA OrderStep == Typed /\ IInv /\ Order /\ [Next]_vars => Order'
<1> SUFFICES ASSUME Typed, IInv, Order, [Next]_vars
             PROVE  Order'
  OBVIOUS
<1> USE TerminalAssumption
<1>0. /\ TypeUsers /\ TypeUp /\ TypeDown /\ FreshCalls
      /\ FreshTabs /\ BoundAfterTask /\ UnboundBuffers /\ UpInOrder /\ DownInOrder /\ BytesInOrder
      /\ \A c \in Calls : Len(got[c]) \in Nat
      /\ \A b \in Tabs : Len(shown[b]) \in Nat
  BY DEF Typed, Order, TypeUp, TypeDown
<1>a. Ended # 0 /\ Ended \notin 1..MaxUp /\ Ended \notin 1..MaxDown
  OBVIOUS
<1>1. ASSUME NEW s \in Sessions, Create(s)
      PROVE  Order'
  BY <1>1, SameOrder DEF Create, tabVars, callVars
<1>2. ASSUME NEW b \in Tabs, NEW s \in Sessions, Reject(b, s) \/ Open(b, s)
      PROVE  Order'
  <2>1. \A d \in Tabs : d = b \/ tab'[d] = tab[d]
    BY <1>0, <1>2 DEF Reject, Open, TypeUsers
  <2> QED
    BY <1>2, <2>1, SameOrder DEF Reject, Open, callVars
<1>3. ASSUME NEW b \in Tabs, AskFails(b)
      PROVE  Order'
  <2>1. \A d \in Tabs : d = b \/ tab'[d] = tab[d]
    BY <1>0, <1>3 DEF AskFails, TypeUsers
  <2> QED
    BY <1>3, <2>1, SameOrder DEF AskFails, callVars
<1>4. ASSUME NEW b \in Tabs, Asked(b)
      PROVE  Order'
  <2>1. /\ UNCHANGED <<taken, fromWs, got, up, heard, down, toWs, shown, call>>
        /\ recv'[b] = 0 /\ tab'[b].stage = "proxy" /\ tab[b].stage = "asking"
        /\ \A d \in Tabs \ {b} : tab'[d] = tab[d] /\ recv'[d] = recv[d] /\ send'[d] = send[d]
    BY <1>0, <1>4 DEF Asked, TypeUsers, TypeUp, TypeDown, callVars
  <2>2. taken[b] = 0 /\ fromWs[b] = <<>> /\ \A c \in Calls : call[c] # b
    BY <1>0, <2>1 DEF FreshTabs, BoundAfterTask
  <2>3. FreshTabs' /\ BoundAfterTask'
    BY <1>0, <2>1 DEF FreshTabs, BoundAfterTask
  <2>4. UnboundBuffers'
    <3>1. Upward(b, 0)'
      BY <2>1, <2>2 DEF Upward
    <3>2. \A d \in Tabs \ {b} : Upward(d, 0) => Upward(d, 0)'
      BY <2>1 DEF Upward
    <3> QED
      BY <1>0, <2>1, <3>1, <3>2 DEF UnboundBuffers, Bound
  <2>5. UpInOrder'
    <3> SUFFICES ASSUME NEW d \in Tabs, NEW c \in Calls, call[c] = d, up[c] = 0
                 PROVE  Upward(d, Len(got[c]))'
      BY <2>1 DEF UpInOrder
    <3>1. Upward(d, Len(got[c])) /\ d # b
      BY <1>0, <2>2 DEF UpInOrder
    <3> QED
      BY <2>1, <3>1 DEF Upward
  <2>6. DownInOrder'
    <3> SUFFICES ASSUME NEW d \in Tabs, NEW c \in Calls, call[c] = d
                 PROVE  Downward(d, c)'
      BY <2>1 DEF DownInOrder
    <3>1. Downward(d, c) /\ d # b
      BY <1>0, <2>2 DEF DownInOrder
    <3> QED
      BY <2>1, <3>1 DEF Downward
  <2>7. BytesInOrder'
    BY <1>0, <2>1 DEF BytesInOrder
  <2> QED
    BY <2>3, <2>4, <2>5, <2>6, <2>7 DEF Order
<1>5. ASSUME NEW b \in Tabs, Type(b) \/ Leave(b)
      PROVE  Order'
  BY <1>5, SameOrder DEF Type, Leave, callVars
<1>6. ASSUME NEW b \in Tabs, Read(b)
      PROVE  Order'
  <2>1. /\ UNCHANGED <<tab, got, up, heard, down, toWs, send, shown, call, fromWs>>
        /\ recv[b] = 0 /\ taken[b] \in Nat
        /\ \/ recv'[b] = taken[b] + 1 /\ taken'[b] = taken[b] + 1
           \/ recv'[b] = Ended /\ taken'[b] = taken[b]
        /\ \A d \in Tabs \ {b} : taken'[d] = taken[d] /\ recv'[d] = recv[d]
    BY <1>0, <1>6 DEF Read, TypeUp, callVars
  <2>2. tab[b].stage \notin {"idle", "asking"}
    BY <1>0, <2>1 DEF FreshTabs
  <2>3. ASSUME NEW n \in Nat, Upward(b, n)
        PROVE  /\ \A i \in 1..Len(fromWs'[b]) : fromWs'[b][i] = n + i
               /\ recv'[b] = 0 => taken'[b] = n + Len(fromWs'[b])
               /\ recv'[b] \in 1..MaxUp =>
                    taken'[b] = n + Len(fromWs'[b]) + 1 /\ recv'[b] = taken'[b]
    BY <2>1, <2>3 DEF Upward
  <2> QED
    BY <1>0, <2>1, <2>2, <2>3, TabUp
<1>7. ASSUME NEW b \in Tabs, Push(b)
      PROVE  Order'
  <2>1. /\ UNCHANGED <<tab, got, up, heard, down, toWs, send, shown, call, taken>>
        /\ recv[b] \in 1..MaxUp /\ recv[b] # Ended
        /\ fromWs[b] \in Seq(1..MaxUp)
        /\ \/ recv'[b] = 0 /\ fromWs'[b] = Append(fromWs[b], recv[b])
           \/ recv'[b] = Ended /\ fromWs'[b] = fromWs[b]
        /\ \A d \in Tabs \ {b} : fromWs'[d] = fromWs[d] /\ recv'[d] = recv[d]
    BY <1>0, <1>7, ChannelOf DEF Push, TypeUp, callVars
  <2>2. tab[b].stage \notin {"idle", "asking"}
    BY <1>0, <2>1 DEF FreshTabs
  <2>3. ASSUME NEW n \in Nat, Upward(b, n)
        PROVE  /\ \A i \in 1..Len(fromWs'[b]) : fromWs'[b][i] = n + i
               /\ recv'[b] = 0 => taken'[b] = n + Len(fromWs'[b])
               /\ recv'[b] \in 1..MaxUp =>
                    taken'[b] = n + Len(fromWs'[b]) + 1 /\ recv'[b] = taken'[b]
    <3>1. /\ taken[b] = n + Len(fromWs[b]) + 1 /\ recv[b] = taken[b]
          /\ \A i \in 1..Len(fromWs[b]) : fromWs[b][i] = n + i
      BY <2>1, <2>3 DEF Upward
    <3>2. CASE recv'[b] = 0 /\ fromWs'[b] = Append(fromWs[b], recv[b])
      <4> DEFINE q == Append(fromWs[b], recv[b])
      <4>1. /\ Len(fromWs[b]) \in Nat /\ Len(q) = Len(fromWs[b]) + 1
            /\ \A i \in 1..Len(fromWs[b]) : q[i] = fromWs[b][i]
            /\ q[Len(fromWs[b]) + 1] = recv[b]
        BY <2>1, Putting
      <4> HIDE DEF q
      <4>2. \A i \in 1..Len(q) : q[i] = n + i
        <5> SUFFICES ASSUME NEW i \in 1..Len(q)
                     PROVE  q[i] = n + i
          OBVIOUS
        <5>1. CASE i \in 1..Len(fromWs[b])
          BY <3>1, <4>1, <5>1
        <5>2. CASE i = Len(fromWs[b]) + 1
          BY <3>1, <4>1, <5>2
        <5> QED
          BY <4>1, <5>1, <5>2
      <4> QED
        BY <2>1, <3>1, <3>2, <4>1, <4>2 DEF q
    <3>3. CASE recv'[b] = Ended /\ fromWs'[b] = fromWs[b]
      BY <3>1, <3>3
    <3> QED
      BY <2>1, <3>2, <3>3
  <2> QED
    BY <1>0, <2>1, <2>2, <2>3, TabUp
<1>8. ASSUME NEW b \in Tabs, Show(b)
      PROVE  Order'
  <2>1. /\ UNCHANGED <<tab, got, up, heard, down, call, taken, fromWs, recv>>
        /\ send[b] = 0
        /\ \A d \in Tabs \ {b} : /\ shown'[d] = shown[d] /\ toWs'[d] = toWs[d]
                                 /\ send'[d] = send[d]
    BY <1>0, <1>8 DEF Show, TypeDown, callVars
  <2>2. CASE send'[b] = Ended /\ UNCHANGED <<shown, toWs>>
    <3>1. FreshTabs' /\ BoundAfterTask' /\ UnboundBuffers' /\ UpInOrder' /\ BytesInOrder'
      <4>1. FreshTabs' /\ BoundAfterTask' /\ BytesInOrder'
        BY <1>0, <2>1, <2>2 DEF FreshTabs, BoundAfterTask, BytesInOrder
      <4>2. UnboundBuffers'
        BY <1>0, <2>1, <2>2, KeepUnbound DEF UnboundBuffers, Bound
      <4>3. UpInOrder'
        BY <1>0, <2>1, KeepUp DEF UpInOrder
      <4> QED
        BY <4>1, <4>2, <4>3
    <3>2. DownInOrder'
      <4> SUFFICES ASSUME NEW d \in Tabs, NEW c \in Calls, call[c] = d
                   PROVE  Downward(d, c)'
        BY <2>1 DEF DownInOrder
      <4>1. Downward(d, c)
        BY <1>0 DEF DownInOrder
      <4> QED
        BY <2>1, <2>2, <4>1, KeepDown
    <3> QED
      BY <3>1, <3>2 DEF Order
  <2>3. CASE /\ toWs[b] # <<>> /\ send' = send
             /\ shown'[b] = Append(shown[b], Head(toWs[b]))
             /\ toWs'[b] = Tail(toWs[b])
    <3> DEFINE h == Head(toWs[b])
    <3>1. /\ h \in 1..MaxDown /\ h = toWs[b][1] /\ Len(toWs[b]) \in Nat \ {0}
          /\ Len(Tail(toWs[b])) = Len(toWs[b]) - 1
          /\ \A i \in 1..Len(Tail(toWs[b])) :
               i + 1 \in 1..Len(toWs[b]) /\ Tail(toWs[b])[i] = toWs[b][i + 1]
      BY <1>0, <2>3, Taking DEF TypeDown
    <3>2. /\ Len(shown[b]) \in Nat /\ Len(shown'[b]) = Len(shown[b]) + 1
          /\ \A i \in 1..Len(shown[b]) : shown'[b][i] = shown[b][i]
          /\ shown'[b][Len(shown[b]) + 1] = h
      BY <1>0, <2>3, <3>1, Putting DEF TypeDown
    \* Something is in the channel, so a call has taken the stream.
    <3>3. PICK c \in Calls : call[c] = b
      BY <1>0, <2>3 DEF UnboundBuffers, Bound
    <3>4. h = Len(shown[b]) + 1
      <4>1. Downward(b, c) /\ 1 \in 1..Len(toWs[b])
        BY <1>0, <3>1, <3>3 DEF DownInOrder
      <4>2. toWs[b][1] = Len(shown[b]) + 1
        BY <4>1 DEF Downward
      <4> QED
        BY <3>1, <4>2
    <3> HIDE DEF h
    <3>5. \A n \in 1..Len(shown'[b]) : shown'[b][n] = n
      <4> SUFFICES ASSUME NEW n \in 1..Len(shown'[b])
                   PROVE  shown'[b][n] = n
        OBVIOUS
      <4>1. CASE n \in 1..Len(shown[b])
        BY <1>0, <3>2, <4>1 DEF BytesInOrder
      <4>2. CASE n = Len(shown[b]) + 1
        BY <3>2, <3>4, <4>2
      <4> QED
        BY <3>2, <4>1, <4>2
    <3>6. BytesInOrder'
      BY <1>0, <2>1, <3>5 DEF BytesInOrder
    <3>7. FreshTabs' /\ BoundAfterTask' /\ UpInOrder'
      BY <1>0, <2>1, KeepUp DEF FreshTabs, BoundAfterTask, UpInOrder
    <3>8. UnboundBuffers'
      <4> SUFFICES ASSUME NEW d \in Tabs, ~Bound(d)'
                   PROVE  Upward(d, 0)' /\ shown'[d] = <<>> /\ toWs'[d] = <<>>
        BY DEF UnboundBuffers
      <4>1. d # b /\ ~Bound(d)
        BY <2>1, <3>3 DEF Bound
      <4> QED
        BY <1>0, <2>1, <4>1, KeepUnbound DEF UnboundBuffers
    <3>9. DownInOrder'
      <4> SUFFICES ASSUME NEW d \in Tabs, NEW e \in Calls, call[e] = d
                   PROVE  Downward(d, e)'
        BY <2>1 DEF DownInOrder
      <4>1. Downward(d, e)
        BY <1>0 DEF DownInOrder
      <4>2. CASE d # b
        BY <2>1, <2>3, <4>1, <4>2, KeepDown
      <4>3. CASE d = b
        <5>0. Len(toWs[b]) \in Nat /\ Len(shown[b]) \in Nat
          BY <3>1, <3>2
        <5>1. Len(toWs'[b]) = Len(toWs[b]) - 1 /\ Len(shown'[b]) = Len(shown[b]) + 1
          BY <2>3, <3>1, <3>2
        <5> DEFINE t == Len(toWs[b])
                   n == Len(shown[b])
                   t1 == Len(toWs'[b])
                   n1 == Len(shown'[b])
        <5>a. t \in Nat /\ n \in Nat /\ t1 = t - 1 /\ n1 = n + 1
          BY <5>0, <5>1
        <5>2. ASSUME NEW i \in 1..Len(toWs'[b])
              PROVE  toWs'[b][i] = Len(shown'[b]) + i
          <6>1. toWs[b][i + 1] = Len(shown[b]) + (i + 1)
            BY <2>3, <3>1, <4>1, <4>3 DEF Downward
          <6>2. toWs'[b][i] = toWs[b][i + 1]
            BY <2>3, <3>1
          <6>3. i \in Int
            BY <5>0, <5>1
          <6>4. toWs'[b][i] = n + (i + 1)
            BY <6>1, <6>2
          <6> HIDE DEF t, n, t1, n1
          <6>5. n + (i + 1) = n1 + i
            BY <5>a, <6>3
          <6> QED
            BY <6>4, <6>5 DEF n1
        <5>3. /\ down[c] = 0 => heard[c] = Len(shown[b]) + Len(toWs[b])
              /\ down[c] \in 1..MaxDown => heard[c] = Len(shown[b]) + Len(toWs[b]) + 1
              /\ down[c] \in 1..MaxDown => down[c] = heard[c]
          BY <2>1, <3>3, <1>0 DEF Downward, DownInOrder
        <5>4. Len(shown'[b]) + Len(toWs'[b]) = Len(shown[b]) + Len(toWs[b])
          <6> HIDE DEF t, n, t1, n1
          <6>1. n1 + t1 = n + t
            BY <5>a
          <6> QED
            BY <6>1 DEF t, n, t1, n1
        <5>5. e = c
          BY <3>3, <4>3 DEF IInv, StreamBoundOnce
        <5> QED
          BY <2>1, <4>3, <5>2, <5>3, <5>4, <5>5 DEF Downward
      <4> QED
        BY <4>2, <4>3
    <3> QED
      BY <3>6, <3>7, <3>8, <3>9 DEF Order
  <2> QED
    BY <1>0, <1>8, <2>2, <2>3 DEF Show, TypeDown
<1>9. ASSUME NEW b \in Tabs, Return(b)
      PROVE  Order'
  <2>1. /\ UNCHANGED <<got, up, heard, down, call, taken, fromWs, shown>>
        /\ tab[b].stage = "proxy" /\ tab'[b].stage = "returned"
        /\ recv'[b] = Ended /\ send'[b] = Ended /\ toWs'[b] = <<>>
        /\ \A d \in Tabs \ {b} : /\ tab'[d] = tab[d] /\ recv'[d] = recv[d]
                                 /\ send'[d] = send[d] /\ toWs'[d] = toWs[d]
    BY <1>0, <1>9 DEF Return, TypeUsers, TypeUp, TypeDown, callVars
  <2>2. FreshTabs' /\ BoundAfterTask' /\ BytesInOrder'
    BY <1>0, <2>1 DEF FreshTabs, BoundAfterTask, BytesInOrder
  <2>3. \A d \in Tabs, n \in Nat : Upward(d, n) => Upward(d, n)'
    BY <2>1 DEF Upward
  <2>4. UnboundBuffers'
    BY <1>0, <2>1, <2>3 DEF UnboundBuffers, Bound
  <2>5. UpInOrder'
    <3> SUFFICES ASSUME NEW d \in Tabs, NEW c \in Calls, call[c] = d, up[c] = 0
                 PROVE  Upward(d, Len(got[c]))'
      BY <2>1 DEF UpInOrder
    <3>1. Upward(d, Len(got[c]))
      BY <1>0 DEF UpInOrder
    <3> QED
      BY <2>1, <3>1, KeepUp
  <2>6. DownInOrder'
    <3> SUFFICES ASSUME NEW d \in Tabs, NEW c \in Calls, call[c] = d
                 PROVE  Downward(d, c)'
      BY <2>1 DEF DownInOrder
    <3>1. Downward(d, c)
      BY <1>0 DEF DownInOrder
    <3>2. CASE d = b
      <4>1. toWs'[d] = <<>> /\ send'[d] = Ended /\ down'[c] = down[c] /\ heard'[c] = heard[c]
        BY <2>1, <3>2
      <4>2. \A i \in 1..Len(toWs'[d]) : toWs'[d][i] = Len(shown'[d]) + i
        BY <4>1
      <4> QED
        BY <1>a, <3>1, <4>1, <4>2 DEF Downward
    <3>3. CASE d # b
      BY <2>1, <3>1, <3>3, KeepDown
    <3> QED
      BY <3>2, <3>3
  <2> QED
    BY <2>2, <2>4, <2>5, <2>6 DEF Order
<1>10. ASSUME NEW c \in Calls, NEW b \in Tabs, Bind(c, b), tab[b].stage \in {"proxy", "returned"}
       PROVE  Order'
  <2>1. /\ UNCHANGED <<tab, taken, recv, send, shown, fromWs, toWs, got, heard>>
        /\ call[c] = None /\ call'[c] = b /\ up'[c] = 0 /\ down'[c] = 0 /\ b \in active
        /\ \A d \in Calls \ {c} : call'[d] = call[d] /\ up'[d] = up[d] /\ down'[d] = down[d]
    BY <1>0, <1>10 DEF Bind, TypeUsers, TypeUp, TypeDown, tabVars
  <2>2. got[c] = <<>> /\ heard[c] = 0
    BY <1>0, <2>1 DEF FreshCalls
  <2>3. Upward(b, 0) /\ shown[b] = <<>> /\ toWs[b] = <<>>
    BY <1>0, <2>1 DEF UnboundBuffers, IInv, ActiveIsUnbound
  <2>4. FreshTabs' /\ BoundAfterTask' /\ BytesInOrder'
    BY <1>0, <1>10, <2>1 DEF FreshTabs, BoundAfterTask, BytesInOrder
  <2>5. UnboundBuffers'
    <3>1. \A d \in Tabs : ~Bound(d)' => ~Bound(d)
      BY <2>1 DEF Bound
    <3> QED
      BY <1>0, <2>1, <3>1 DEF UnboundBuffers, Upward
  <2>6. UpInOrder'
    <3> SUFFICES ASSUME NEW d \in Tabs, NEW e \in Calls, call'[e] = d, up'[e] = 0
                 PROVE  Upward(d, Len(got[e]))'
      BY DEF UpInOrder
    <3>1. Upward(d, Len(got[e]))
      <4>1. CASE e = c
        BY <2>1, <2>2, <2>3, <4>1
      <4>2. CASE e # c
        BY <1>0, <2>1, <4>2 DEF UpInOrder
      <4> QED
        BY <4>1, <4>2
    <3> QED
      BY <2>1, <3>1, KeepUp
  <2>7. DownInOrder'
    <3> SUFFICES ASSUME NEW d \in Tabs, NEW e \in Calls, call'[e] = d
                 PROVE  Downward(d, e)'
      BY DEF DownInOrder
    <3>1. CASE e = c
      <4>1. /\ d = b /\ toWs'[d] = <<>> /\ shown'[d] = <<>>
            /\ heard'[e] = 0 /\ down'[e] = 0
        BY <2>1, <2>2, <2>3, <3>1
      <4>2. Len(toWs'[d]) = 0 /\ Len(shown'[d]) = 0
        BY <4>1
      <4> QED
        BY <4>1, <4>2 DEF Downward
    <3>2. CASE e # c
      <4>1. Downward(d, e)
        BY <1>0, <2>1, <3>2 DEF DownInOrder
      <4> QED
        BY <2>1, <3>2, <4>1, KeepDown
    <3> QED
      BY <3>1, <3>2
  <2> QED
    BY <2>4, <2>5, <2>6, <2>7 DEF Order
<1>11. ASSUME NEW c \in Calls, NEW b \in Tabs, Refuse(c, b)
       PROVE  Order'
  <2>1. /\ UNCHANGED <<tab, taken, recv, send, shown, fromWs, toWs, got, heard, up, down>>
        /\ \A d \in Calls, e \in Tabs : call'[d] = e <=> call[d] = e
    BY <1>0, <1>11 DEF Refuse, TypeUsers, tabVars
  <2>2. FreshTabs' /\ BoundAfterTask' /\ BytesInOrder'
    BY <1>0, <2>1 DEF FreshTabs, BoundAfterTask, BytesInOrder
  <2>3. UnboundBuffers'
    BY <1>0, <2>1, KeepUnbound DEF UnboundBuffers, Bound
  <2>4. UpInOrder'
    BY <1>0, <2>1, KeepUp DEF UpInOrder
  <2>5. DownInOrder'
    BY <1>0, <2>1, KeepDown DEF DownInOrder
  <2> QED
    BY <2>2, <2>3, <2>4, <2>5 DEF Order
<1>12. ASSUME NEW c \in Calls, Say(c) \/ HangUp(c) \/ Respond(c)
       PROVE  Order'
  BY <1>12, SameOrder DEF Say, HangUp, Respond, mapVars, tabVars
<1>13. ASSUME NEW c \in Calls, PumpUp(c)
       PROVE  Order'
  <2>0. PICK b \in Tabs : call[c] = b
    BY <1>0, <1>13 DEF PumpUp, FreshCalls
  <2>1. /\ UNCHANGED <<tab, taken, recv, send, shown, call, heard, down, toWs>>
        /\ up[c] = 0
        /\ \A d \in Tabs \ {b} : fromWs'[d] = fromWs[d]
        /\ \A d \in Calls \ {c} : got'[d] = got[d] /\ up'[d] = up[d]
    BY <1>0, <1>13, <2>0 DEF PumpUp, TypeUp, tabVars
  <2>2. \/ /\ fromWs[b] # <<>> /\ fromWs'[b] = Tail(fromWs[b])
           /\ got'[c] = Append(got[c], Head(fromWs[b])) /\ up'[c] = 0
        \/ up'[c] = Ended /\ got'[c] = got[c]
    BY <1>0, <1>13, <2>0 DEF PumpUp, TypeUp
  <2>3. \A d \in Calls \ {c} : call[d] # b
    BY <2>0, <2>1 DEF IInv, StreamBoundOnce
  <2>4. FreshTabs' /\ BoundAfterTask'
    BY <1>0, <2>0, <2>1 DEF FreshTabs, BoundAfterTask
  <2>5. UnboundBuffers'
    BY <1>0, <2>0, <2>1, KeepUnbound DEF UnboundBuffers, Bound
  <2>6. DownInOrder'
    BY <1>0, <2>1, KeepDown DEF DownInOrder
  <2>7. Upward(b, Len(got[c])) /\ Len(got[c]) \in Nat
    BY <1>0, <2>0, <2>1 DEF UpInOrder
  <2>8. /\ \A n \in 1..Len(got'[c]) : got'[c][n] = n
        /\ up'[c] = 0 => Upward(b, Len(got[c]))'
    <3>1. CASE up'[c] = Ended /\ got'[c] = got[c]
      BY <1>0, <3>1 DEF BytesInOrder
    <3>2. CASE /\ fromWs[b] # <<>> /\ fromWs'[b] = Tail(fromWs[b])
               /\ got'[c] = Append(got[c], Head(fromWs[b]))
      <4> DEFINE h == Head(fromWs[b])
      <4>1. /\ h \in 1..MaxUp /\ h = fromWs[b][1] /\ Len(fromWs[b]) \in Nat \ {0}
            /\ Len(Tail(fromWs[b])) = Len(fromWs[b]) - 1
            /\ \A i \in 1..Len(Tail(fromWs[b])) :
                 i + 1 \in 1..Len(fromWs[b]) /\ Tail(fromWs[b])[i] = fromWs[b][i + 1]
        BY <1>0, <2>0, <2>1, <3>2, Taking DEF TypeUp
      <4>2. /\ Len(got'[c]) = Len(got[c]) + 1
            /\ \A i \in 1..Len(got[c]) : got'[c][i] = got[c][i]
            /\ got'[c][Len(got[c]) + 1] = h
        BY <1>0, <3>2, <4>1, Putting DEF TypeUp
      <4>3. h = Len(got[c]) + 1
        BY <2>7, <4>1 DEF Upward
      <4> HIDE DEF h
      <4>4. ASSUME NEW n \in 1..Len(got'[c])
            PROVE  got'[c][n] = n
        <5>1. CASE n \in 1..Len(got[c])
          BY <1>0, <4>2, <5>1 DEF BytesInOrder
        <5>2. CASE n = Len(got[c]) + 1
          BY <4>2, <4>3, <5>2
        <5> QED
          BY <2>7, <4>2, <5>1, <5>2
      <4>a. Len(got[c]) \in Nat /\ Len(fromWs[b]) \in Nat
        BY <2>7, <4>1
      <4>b. Len(fromWs'[b]) = Len(fromWs[b]) - 1 /\ Len(got'[c]) = Len(got[c]) + 1
        BY <3>2, <4>1, <4>2
      <4> DEFINE t == Len(fromWs[b])
                 n == Len(got[c])
                 t1 == Len(fromWs'[b])
                 n1 == Len(got'[c])
      <4>c. t \in Nat /\ n \in Nat /\ t1 = t - 1 /\ n1 = n + 1
        BY <4>a, <4>b
      <4>5. ASSUME NEW i \in 1..Len(fromWs'[b])
            PROVE  fromWs'[b][i] = Len(got'[c]) + i
        <5>1. fromWs[b][i + 1] = Len(got[c]) + (i + 1)
          BY <2>7, <3>2, <4>1 DEF Upward
        <5>2. fromWs'[b][i] = fromWs[b][i + 1]
          BY <3>2, <4>1
        <5>3. i \in Int
          BY <4>a, <4>b
        <5>4. fromWs'[b][i] = n + (i + 1)
          BY <5>1, <5>2
        <5> HIDE DEF t, n, t1, n1
        <5>5. n + (i + 1) = n1 + i
          BY <4>c, <5>3
        <5> QED
          BY <5>4, <5>5 DEF n1
      <4>7. Len(got'[c]) + Len(fromWs'[b]) = Len(got[c]) + Len(fromWs[b])
        <5> HIDE DEF t, n, t1, n1
        <5>1. n1 + t1 = n + t
          BY <4>c
        <5> QED
          BY <5>1 DEF t, n, t1, n1
      <4>8. /\ recv[b] = 0 => taken[b] = Len(got[c]) + Len(fromWs[b])
            /\ recv[b] \in 1..MaxUp =>
                 taken[b] = Len(got[c]) + Len(fromWs[b]) + 1 /\ recv[b] = taken[b]
        BY <2>7 DEF Upward
      <4>9. Upward(b, Len(got[c]))'
        BY <2>1, <4>5, <4>7, <4>8 DEF Upward
      <4> QED
        BY <4>4, <4>9
    <3> QED
      BY <2>2, <3>1, <3>2
  <2>9. BytesInOrder'
    BY <1>0, <2>0, <2>1, <2>8 DEF BytesInOrder
  <2>10. UpInOrder'
    <3> SUFFICES ASSUME NEW d \in Tabs, NEW e \in Calls, call[e] = d, up'[e] = 0
                 PROVE  Upward(d, Len(got[e]))'
      BY <2>0, <2>1 DEF UpInOrder
    <3>1. CASE e = c
      BY <2>0, <2>8, <3>1
    <3>2. CASE e # c
      <4>1. d # b /\ Upward(d, Len(got[e]))
        BY <1>0, <2>0, <2>1, <2>3, <3>2 DEF UpInOrder
      <4> QED
        BY <2>0, <2>1, <3>2, <4>1, KeepUp
    <3> QED
      BY <3>1, <3>2
  <2> QED
    BY <2>4, <2>5, <2>6, <2>9, <2>10 DEF Order
<1>14. ASSUME NEW c \in Calls, PumpDown(c)
       PROVE  Order'
  <2>0. PICK b \in Tabs : call[c] = b
    BY <1>0, <1>14 DEF PumpDown, FreshCalls
  <2>1. /\ UNCHANGED <<tab, taken, recv, send, shown, call, fromWs, up, got>>
        /\ down[c] # Ended /\ heard[c] \in Nat
        /\ \A d \in Tabs \ {b} : toWs'[d] = toWs[d]
        /\ \A d \in Calls \ {c} : heard'[d] = heard[d] /\ down'[d] = down[d]
    BY <1>0, <1>14, <2>0 DEF PumpDown, TypeDown, tabVars
  <2>2. \/ /\ down[c] = 0 /\ down'[c] = heard[c] + 1 /\ heard'[c] = heard[c] + 1
           /\ toWs'[b] = toWs[b]
        \/ down'[c] = Ended /\ heard'[c] = heard[c] /\ toWs'[b] = toWs[b]
        \/ /\ down[c] \in 1..MaxDown /\ send[b] = 0 /\ heard'[c] = heard[c]
           /\ toWs'[b] = Append(toWs[b], down[c]) /\ down'[c] = 0
    BY <1>0, <1>14, <2>0 DEF PumpDown, TypeDown
  <2>3. toWs[b] \in Seq(1..MaxDown)
    BY <1>0, <2>0, <2>1, ChannelOf DEF TypeDown
  <2>4. \A d \in Calls \ {c} : call[d] # b
    BY <2>0, <2>1 DEF IInv, StreamBoundOnce
  <2>5. FreshTabs' /\ BoundAfterTask' /\ BytesInOrder'
    BY <1>0, <2>0, <2>1 DEF FreshTabs, BoundAfterTask, BytesInOrder
  <2>6. UnboundBuffers'
    BY <1>0, <2>0, <2>1, KeepUnbound DEF UnboundBuffers, Bound
  <2>7. UpInOrder'
    BY <1>0, <2>1, KeepUp DEF UpInOrder
  <2>8. Downward(b, c)
    BY <1>0, <2>0, <2>1 DEF DownInOrder
  <2>9. Downward(b, c)'
    <3>1. CASE /\ down[c] = 0 /\ down'[c] = heard[c] + 1 /\ heard'[c] = heard[c] + 1
               /\ toWs'[b] = toWs[b]
      <4>1. /\ send'[b] = send[b] /\ shown'[b] = shown[b] /\ down'[c] = heard'[c] /\ down'[c] # 0
        BY <2>1, <3>1
      <4>2. send[b] = 0 => heard'[c] = Len(shown[b]) + Len(toWs[b]) + 1
        BY <2>1, <2>8, <3>1 DEF Downward
      <4> QED
        BY <2>8, <3>1, <4>1, <4>2 DEF Downward
    <3>2. CASE down'[c] = Ended /\ heard'[c] = heard[c] /\ toWs'[b] = toWs[b]
      BY <2>0, <2>1, <2>8, <3>2, KeepDown
    <3>3. CASE /\ down[c] \in 1..MaxDown /\ send[b] = 0 /\ heard'[c] = heard[c]
               /\ toWs'[b] = Append(toWs[b], down[c]) /\ down'[c] = 0
      <4>1. /\ Len(toWs[b]) \in Nat /\ Len(toWs'[b]) = Len(toWs[b]) + 1
            /\ \A i \in 1..Len(toWs[b]) : toWs'[b][i] = toWs[b][i]
            /\ toWs'[b][Len(toWs[b]) + 1] = down[c]
        BY <2>3, <3>3, Putting
      <4>2. down[c] = heard[c] /\ heard[c] = Len(shown[b]) + Len(toWs[b]) + 1
        BY <2>8, <3>3 DEF Downward
      <4>a. Len(shown[b]) \in Nat /\ Len(toWs[b]) \in Nat
        BY <1>0, <4>1
      <4>b. toWs'[b][Len(toWs[b]) + 1] = down[c] /\ Len(toWs'[b]) = Len(toWs[b]) + 1
        BY <4>1
      <4> DEFINE t == Len(toWs[b])
                 n == Len(shown[b])
      <4>c. t \in Nat /\ n \in Nat /\ (n + t) + 1 = n + (t + 1)
        <5>1. t \in Nat /\ n \in Nat
          BY <4>a
        <5> HIDE DEF t, n
        <5> QED
          BY <5>1
      <4>3. ASSUME NEW i \in 1..Len(toWs'[b])
            PROVE  toWs'[b][i] = Len(shown[b]) + i
        <5>1. CASE i \in 1..Len(toWs[b])
          BY <2>8, <4>1, <5>1 DEF Downward
        <5>2. CASE i = Len(toWs[b]) + 1
          BY <4>2, <4>b, <4>c, <5>2
        <5> QED
          BY <4>1, <5>1, <5>2
      <4> QED
        <5>1. shown'[b] = shown[b] /\ down'[c] = 0 /\ heard'[c] = heard[c]
          BY <2>1, <3>3
        <5>2. heard[c] = Len(shown[b]) + Len(toWs'[b])
          BY <4>2, <4>b, <4>c
        <5> QED
          BY <4>3, <5>1, <5>2 DEF Downward
    <3> QED
      BY <2>2, <3>1, <3>2, <3>3
  <2>10. DownInOrder'
    <3> SUFFICES ASSUME NEW d \in Tabs, NEW e \in Calls, call[e] = d
                 PROVE  Downward(d, e)'
      BY <2>0, <2>1 DEF DownInOrder
    <3>1. CASE e = c
      BY <2>0, <2>9, <3>1
    <3>2. CASE e # c
      <4>1. d # b /\ Downward(d, e)
        BY <1>0, <2>4, <3>2 DEF DownInOrder
      <4> QED
        BY <2>1, <3>2, <4>1, KeepDown
    <3> QED
      BY <3>1, <3>2
  <2> QED
    BY <2>5, <2>6, <2>7, <2>10 DEF Order
<1>15. ASSUME UNCHANGED vars
       PROVE  Order'
  BY <1>15, SameOrder DEF vars, mapVars, tabVars, callVars
<1> QED
  BY <1>1, <1>2, <1>3, <1>4, <1>5, <1>6, <1>7, <1>8, <1>9, <1>10, <1>11, <1>12,
     <1>13, <1>14, <1>15 DEF Next, IoStream

LEMMA OrderInvariant == Spec => []Order
<1>1. Init => Order
  BY TerminalAssumption
     DEF Init, Order, FreshTabs, BoundAfterTask, UnboundBuffers, UpInOrder, DownInOrder,
         BytesInOrder, Upward, Downward, Bound
<1> QED
  BY <1>1, OrderStep, TypedInvariant, Invariant, PTL DEF Spec

(* Whatever fills up and whoever leaves, both sides of a terminal are      *)
(* passed a beginning of what the other sent, in order and without a gap.  *)
THEOREM BytesArriveInOrder == Spec => []BytesInOrder
  BY OrderInvariant, PTL DEF Order

-----------------------------------------------------------------------------
(* Nothing arrives that was not sent: whatever a task holds or a channel   *)
(* contains is a number its sender has reached.                            *)
CausalUp ==
  \A b \in Tabs :
    /\ taken[b] <= typed[b]
    /\ recv[b] \in 1..MaxUp => recv[b] <= typed[b]
    /\ \A i \in 1..Len(fromWs[b]) : fromWs[b][i] <= typed[b]

CausalDown ==
  \A c \in Calls :
    /\ heard[c] <= said[c]
    /\ down[c] \in 1..MaxDown => down[c] <= said[c]
    /\ \A b \in Tabs : call[c] = b => \A i \in 1..Len(toWs[b]) : toWs[b][i] <= said[c]

Causal == CausalUp /\ CausalDown

LEMMA CausalUpQuiet ==
  ASSUME CausalUp, TypeUp, UNCHANGED taken,
         \A b \in Tabs : /\ typed'[b] = typed[b] \/ typed'[b] = typed[b] + 1
                         /\ recv'[b] = recv[b] \/ recv'[b] \in {0, Ended}
                         /\ fromWs'[b] = fromWs[b] \/ fromWs'[b] = <<>>
  PROVE  CausalUp'
<1> SUFFICES ASSUME NEW b \in Tabs
             PROVE  /\ taken'[b] <= typed'[b]
                    /\ recv'[b] \in 1..MaxUp => recv'[b] <= typed'[b]
                    /\ \A i \in 1..Len(fromWs'[b]) : fromWs'[b][i] <= typed'[b]
  BY DEF CausalUp
<1>1. /\ typed[b] \in Nat /\ taken[b] \in Nat
      /\ \A i \in 1..Len(fromWs[b]) : fromWs[b][i] \in Nat
      /\ recv[b] \in 1..MaxUp => recv[b] \in Nat
  <2>1. fromWs[b] \in Seq(1..MaxUp)
    BY ChannelOf, TerminalAssumption DEF TypeUp
  <2> QED
    BY <2>1, TerminalAssumption DEF TypeUp
<1>2. /\ taken[b] <= typed[b]
      /\ recv[b] \in 1..MaxUp => recv[b] <= typed[b]
      /\ \A i \in 1..Len(fromWs[b]) : fromWs[b][i] <= typed[b]
  BY DEF CausalUp
<1>3. typed'[b] \in Nat /\ typed[b] <= typed'[b]
  BY <1>1
<1>4. taken'[b] <= typed'[b]
  BY <1>1, <1>2, <1>3
<1>5. recv'[b] \in 1..MaxUp => recv'[b] <= typed'[b]
  <2>1. recv'[b] \in 1..MaxUp => recv'[b] = recv[b]
    BY TerminalAssumption
  <2> QED
    BY <1>1, <1>2, <1>3, <2>1
<1>6. \A i \in 1..Len(fromWs'[b]) : fromWs'[b][i] <= typed'[b]
  <2>1. CASE fromWs'[b] = fromWs[b]
    BY <1>1, <1>2, <1>3, <2>1
  <2>2. CASE fromWs'[b] = <<>>
    BY <2>2
  <2> QED
    BY <2>1, <2>2
<1> QED
  BY <1>4, <1>5, <1>6

LEMMA CausalDownQuiet ==
  ASSUME CausalDown, TypeDown, UNCHANGED <<call, heard>>,
         \A c \in Calls : /\ said'[c] = said[c] \/ said'[c] = said[c] + 1
                          /\ down'[c] = down[c] \/ down'[c] \in {0, Ended},
         \A b \in Tabs : toWs'[b] = toWs[b] \/ toWs'[b] = <<>>
  PROVE  CausalDown'
<1> SUFFICES ASSUME NEW c \in Calls
             PROVE  /\ heard'[c] <= said'[c]
                    /\ down'[c] \in 1..MaxDown => down'[c] <= said'[c]
                    /\ \A b \in Tabs : call[c] = b =>
                         \A i \in 1..Len(toWs'[b]) : toWs'[b][i] <= said'[c]
  BY DEF CausalDown
<1>1. /\ said[c] \in Nat /\ heard[c] \in Nat
      /\ down[c] \in 1..MaxDown => down[c] \in Nat
      /\ \A b \in Tabs : \A i \in 1..Len(toWs[b]) : toWs[b][i] \in Nat
  <2>1. \A b \in Tabs : toWs[b] \in Seq(1..MaxDown)
    BY ChannelOf, TerminalAssumption DEF TypeDown
  <2> QED
    BY <2>1, TerminalAssumption DEF TypeDown
<1>2. /\ heard[c] <= said[c]
      /\ down[c] \in 1..MaxDown => down[c] <= said[c]
      /\ \A b \in Tabs : call[c] = b => \A i \in 1..Len(toWs[b]) : toWs[b][i] <= said[c]
  BY DEF CausalDown
<1>3. said'[c] \in Nat /\ said[c] <= said'[c]
  BY <1>1
<1>4. heard'[c] <= said'[c]
  BY <1>1, <1>2, <1>3
<1>5. down'[c] \in 1..MaxDown => down'[c] <= said'[c]
  <2>1. down'[c] \in 1..MaxDown => down'[c] = down[c]
    BY TerminalAssumption
  <2> QED
    BY <1>1, <1>2, <1>3, <2>1
<1>6. ASSUME NEW b \in Tabs, call[c] = b, NEW i \in 1..Len(toWs'[b])
      PROVE  toWs'[b][i] <= said'[c]
  <2>1. toWs'[b] = toWs[b]
    BY <1>6
  <2> QED
    BY <1>1, <1>2, <1>3, <1>6, <2>1
<1> QED
  BY <1>4, <1>5, <1>6

LEMMA CausalUpStep == Typed /\ CausalUp /\ [Next]_vars => CausalUp'
<1> SUFFICES ASSUME TypeUsers, TypeUp, CausalUp, [Next]_vars
             PROVE  CausalUp'
  BY DEF Typed
<1> USE TerminalAssumption
<1>1. ASSUME NEW b \in Tabs, Read(b)
      PROVE  CausalUp'
  <2>1. /\ UNCHANGED <<typed, fromWs>>
        /\ \A d \in Tabs \ {b} : taken'[d] = taken[d] /\ recv'[d] = recv[d]
        /\ \/ /\ taken[b] < typed[b] /\ taken'[b] = taken[b] + 1
              /\ recv'[b] = taken[b] + 1
           \/ taken'[b] = taken[b] /\ recv'[b] = Ended
    BY <1>1 DEF Read, TypeUp
  <2>2. taken[b] \in Nat /\ typed[b] \in Nat
    BY DEF TypeUp
  <2>3. /\ taken'[b] <= typed[b]
        /\ recv'[b] \in 1..MaxUp => recv'[b] <= typed[b]
    BY <2>1, <2>2 DEF CausalUp
  <2> QED
    BY <2>1, <2>3 DEF CausalUp
<1>2. ASSUME NEW b \in Tabs, Push(b)
      PROVE  CausalUp'
  <2>1. /\ UNCHANGED <<typed, taken>>
        /\ recv[b] \in 1..MaxUp /\ recv'[b] \in {0, Ended}
        /\ \A d \in Tabs \ {b} : fromWs'[d] = fromWs[d] /\ recv'[d] = recv[d]
        /\ fromWs'[b] = Append(fromWs[b], recv[b]) \/ fromWs'[b] = fromWs[b]
    BY <1>2 DEF Push, TypeUp
  <2>2. \A i \in 1..Len(fromWs'[b]) : fromWs'[b][i] <= typed[b]
    <3>1. fromWs[b] \in Seq(1..MaxUp)
      BY ChannelOf DEF TypeUp
    <3>2. CASE fromWs'[b] = Append(fromWs[b], recv[b])
      <4> SUFFICES ASSUME NEW i \in 1..Len(fromWs'[b])
                   PROVE  fromWs'[b][i] <= typed[b]
        OBVIOUS
      <4>1. /\ Len(fromWs[b]) \in Nat /\ Len(fromWs'[b]) = Len(fromWs[b]) + 1
            /\ \A k \in 1..Len(fromWs[b]) : fromWs'[b][k] = fromWs[b][k]
            /\ fromWs'[b][Len(fromWs[b]) + 1] = recv[b]
        BY <2>1, <3>1, <3>2, Putting
      <4>2. i \in 1..Len(fromWs[b]) \/ i = Len(fromWs[b]) + 1
        BY <4>1
      <4> QED
        BY <2>1, <4>1, <4>2 DEF CausalUp
    <3>3. CASE fromWs'[b] = fromWs[b]
      BY <3>3 DEF CausalUp
    <3> QED
      BY <2>1, <3>2, <3>3
  <2>3. recv'[b] \notin 1..MaxUp
    BY <2>1
  <2> QED
    BY <2>1, <2>2, <2>3 DEF CausalUp
<1>3. ASSUME NEW c \in Calls, PumpUp(c)
      PROVE  CausalUp'
  <2> DEFINE b == call[c]
  <2>1. /\ UNCHANGED <<typed, taken, recv>>
        /\ \/ fromWs[b] # <<>> /\ fromWs' = [fromWs EXCEPT ![b] = Tail(@)]
           \/ fromWs' = [fromWs EXCEPT ![b] = <<>>]
    BY <1>3 DEF PumpUp, tabVars
  <2>2. ASSUME NEW d \in Tabs
        PROVE  \A i \in 1..Len(fromWs'[d]) : fromWs'[d][i] <= typed[d]
    <3>1. \A i \in 1..Len(fromWs[d]) : fromWs[d][i] <= typed[d]
      BY DEF CausalUp
    <3>2. CASE fromWs'[d] = fromWs[d]
      BY <3>1, <3>2
    <3>3. CASE fromWs'[d] = <<>>
      BY <3>3
    <3>4. CASE fromWs[d] # <<>> /\ fromWs'[d] = Tail(fromWs[d])
      <4>1. \A i \in 1..Len(Tail(fromWs[d])) :
              i + 1 \in 1..Len(fromWs[d]) /\ Tail(fromWs[d])[i] = fromWs[d][i + 1]
        BY <3>4, Taking DEF TypeUp
      <4> QED
        BY <3>1, <3>4, <4>1
    <3>5. \/ fromWs'[d] = fromWs[d]
          \/ fromWs'[d] = <<>>
          \/ fromWs[d] # <<>> /\ fromWs'[d] = Tail(fromWs[d])
      <4>1. CASE d = b
        BY <2>1, <4>1 DEF TypeUp
      <4>2. CASE d # b
        BY <2>1, <4>2 DEF TypeUp
      <4> QED
        BY <4>1, <4>2
    <3> QED
      BY <3>2, <3>3, <3>4, <3>5
  <2> QED
    BY <2>1, <2>2 DEF CausalUp
<1>4. ASSUME \/ \E s \in Sessions : Create(s)
             \/ \E b \in Tabs, s \in Sessions : Reject(b, s) \/ Open(b, s)
             \/ \E b \in Tabs : AskFails(b) \/ Leave(b) \/ Show(b)
             \/ \E c \in Calls, b \in Tabs : IoStream(c, b)
             \/ \E c \in Calls : Say(c) \/ HangUp(c) \/ Respond(c) \/ PumpDown(c)
             \/ UNCHANGED vars
      PROVE  CausalUp'
  <2>1. UNCHANGED <<typed, taken, recv, fromWs>>
    BY <1>4 DEF Create, Reject, Open, AskFails, Leave, Show, IoStream, Bind, Refuse, Say,
                HangUp, Respond, PumpDown, vars, tabVars
  <2> QED
    BY <2>1 DEF CausalUp
<1>5. ASSUME NEW b \in Tabs, Type(b)
      PROVE  CausalUp'
  BY <1>5, CausalUpQuiet DEF Type, TypeUp
<1>6. ASSUME NEW b \in Tabs, Asked(b) \/ Return(b)
      PROVE  CausalUp'
  BY <1>6, CausalUpQuiet DEF Asked, Return, TypeUp
<1> QED
  BY <1>1, <1>2, <1>3, <1>4, <1>5, <1>6 DEF Next

LEMMA CausalDownStep == Typed /\ IInv /\ Order /\ CausalDown /\ [Next]_vars => CausalDown'
<1> SUFFICES ASSUME TypeUsers, TypeDown, FreshCalls, IInv, Order, CausalDown, [Next]_vars
             PROVE  CausalDown'
  BY DEF Typed
<1> USE TerminalAssumption
<1>1. ASSUME NEW b \in Tabs, Show(b)
      PROVE  CausalDown'
  <2>0. UNCHANGED <<said, heard, down, call>>
    BY <1>1 DEF Show, callVars
  <2>1. \/ toWs' = toWs
        \/ toWs[b] # <<>> /\ toWs' = [toWs EXCEPT ![b] = Tail(toWs[b])]
    BY <1>1 DEF Show
  <2>2. ASSUME NEW c \in Calls, NEW d \in Tabs, call[c] = d
        PROVE  \A i \in 1..Len(toWs'[d]) : toWs'[d][i] <= said[c]
    <3>1. \A i \in 1..Len(toWs[d]) : toWs[d][i] <= said[c]
      BY <2>2 DEF CausalDown
    <3>2. CASE toWs'[d] = toWs[d]
      BY <3>1, <3>2
    <3>3. CASE toWs[d] # <<>> /\ toWs'[d] = Tail(toWs[d])
      <4>1. \A i \in 1..Len(Tail(toWs[d])) :
              i + 1 \in 1..Len(toWs[d]) /\ Tail(toWs[d])[i] = toWs[d][i + 1]
        BY <3>3, Taking DEF TypeDown
      <4> QED
        BY <3>1, <3>3, <4>1
    <3>4. \/ toWs'[d] = toWs[d]
          \/ toWs[d] # <<>> /\ toWs'[d] = Tail(toWs[d])
      <4>1. CASE d = b
        BY <2>1, <4>1 DEF TypeDown
      <4>2. CASE d # b
        BY <2>1, <4>2 DEF TypeDown
      <4> QED
        BY <4>1, <4>2
    <3> QED
      BY <3>2, <3>3, <3>4
  <2> QED
    BY <2>0, <2>2 DEF CausalDown
<1>2. ASSUME NEW c \in Calls, NEW b \in Tabs, Bind(c, b)
      PROVE  CausalDown'
  <2>1. /\ UNCHANGED <<said, heard, toWs>>
        /\ down'[c] = 0 /\ call'[c] = b /\ b \in active
        /\ \A e \in Calls \ {c} : down'[e] = down[e] /\ call'[e] = call[e]
    BY <1>2 DEF Bind, TypeUsers, TypeDown, tabVars
  \* Nothing is in the channels of a stream nobody had taken.
  <2>2. toWs[b] = <<>> /\ toWs'[b] = <<>>
    BY <2>1 DEF Order, UnboundBuffers, IInv, ActiveIsUnbound
  <2>3. Len(toWs'[b]) = 0 /\ 0 \notin 1..MaxDown
    BY <2>2
  <2>4. /\ heard'[c] <= said'[c]
        /\ down'[c] \in 1..MaxDown => down'[c] <= said'[c]
        /\ \A d \in Tabs : call'[c] = d => \A i \in 1..Len(toWs'[d]) : toWs'[d][i] <= said'[c]
    BY <2>1, <2>3 DEF CausalDown
  <2>5. ASSUME NEW e \in Calls \ {c}
        PROVE  /\ heard'[e] <= said'[e]
               /\ down'[e] \in 1..MaxDown => down'[e] <= said'[e]
               /\ \A d \in Tabs : call'[e] = d => \A i \in 1..Len(toWs'[d]) : toWs'[d][i] <= said'[e]
    BY <2>1 DEF CausalDown
  <2> QED
    BY <2>4, <2>5 DEF CausalDown
<1>3. ASSUME NEW c \in Calls, NEW b \in Tabs, Refuse(c, b)
      PROVE  CausalDown'
  <2>1. /\ UNCHANGED <<said, heard, toWs, down>> /\ call'[c] = Refused
        /\ \A e \in Calls \ {c} : call'[e] = call[e]
    BY <1>3 DEF Refuse, TypeUsers
  <2> QED
    BY <2>1 DEF CausalDown
<1>4. ASSUME NEW c \in Calls, PumpDown(c)
      PROVE  CausalDown'
  <2> DEFINE b == call[c]
  <2>0. said[c] \in Nat /\ heard[c] \in Nat
    BY DEF TypeDown
  <2>1. UNCHANGED <<said, call>> /\ \A e \in Calls \ {c} : heard'[e] = heard[e] /\ down'[e] = down[e]
    BY <1>4 DEF PumpDown, TypeDown
  <2>2. CASE /\ heard[c] < said[c] /\ down'[c] = heard[c] + 1
             /\ heard'[c] = heard[c] + 1 /\ toWs' = toWs
    BY <2>0, <2>1, <2>2 DEF CausalDown
  <2>3. CASE down'[c] = Ended /\ heard' = heard /\ toWs' = toWs
    BY <2>1, <2>3 DEF CausalDown
  <2>4. CASE /\ down[c] \in 1..MaxDown /\ down'[c] = 0 /\ heard' = heard
             /\ toWs' = [toWs EXCEPT ![b] = Append(@, down[c])]
    <3>1. call[c] \in Tabs
      BY <2>4 DEF FreshCalls
    <3>2. toWs[b] \in Seq(1..MaxDown)
      BY <3>1, ChannelOf DEF TypeDown
    <3>3. /\ Len(toWs[b]) \in Nat /\ Len(toWs'[b]) = Len(toWs[b]) + 1
          /\ \A k \in 1..Len(toWs[b]) : toWs'[b][k] = toWs[b][k]
          /\ toWs'[b][Len(toWs[b]) + 1] = down[c]
          /\ \A d \in Tabs \ {b} : toWs'[d] = toWs[d]
      BY <2>4, <3>1, <3>2, Putting DEF TypeDown
    <3>4. ASSUME NEW i \in 1..Len(toWs'[b])
          PROVE  toWs'[b][i] <= said[c]
      <4>1. i \in 1..Len(toWs[b]) \/ i = Len(toWs[b]) + 1
        BY <3>3
      <4> QED
        BY <2>4, <3>1, <3>3, <4>1 DEF CausalDown
    \* No other call has the stream.
    <3>5. \A e \in Calls : call[e] = b => e = c
      BY <3>1 DEF IInv, StreamBoundOnce
    <3> QED
      BY <2>1, <2>4, <3>1, <3>3, <3>4, <3>5 DEF CausalDown
  <2> QED
    BY <1>4, <2>2, <2>3, <2>4 DEF PumpDown, TypeDown
<1>5. ASSUME \/ \E s \in Sessions : Create(s)
             \/ \E b \in Tabs, s \in Sessions : Reject(b, s) \/ Open(b, s)
             \/ \E b \in Tabs : Asked(b) \/ AskFails(b) \/ Type(b) \/ Leave(b) \/ Read(b) \/ Push(b)
             \/ \E c \in Calls : HangUp(c) \/ PumpUp(c) \/ Respond(c)
             \/ UNCHANGED vars
      PROVE  CausalDown'
  <2>1. UNCHANGED <<said, heard, down, toWs, call>>
    BY <1>5 DEF Create, Reject, Open, Asked, AskFails, Type, Leave, Read, Push,
                HangUp, PumpUp, Respond, vars, callVars
  <2> QED
    BY <2>1 DEF CausalDown
<1>6. ASSUME NEW c \in Calls, Say(c)
      PROVE  CausalDown'
  BY <1>6, CausalDownQuiet DEF Say, TypeDown
<1>7. ASSUME NEW b \in Tabs, Return(b)
      PROVE  CausalDown'
  BY <1>7, CausalDownQuiet DEF Return, TypeDown, callVars
<1> QED
  BY <1>1, <1>2, <1>3, <1>4, <1>5, <1>6, <1>7 DEF Next, IoStream

LEMMA CausalInvariant == Spec => []Causal
<1>1. Init => Causal
  BY TerminalAssumption DEF Init, Causal, CausalUp, CausalDown
<1> QED
  BY <1>1, CausalUpStep, CausalDownStep, TypedInvariant, Invariant, OrderInvariant, PTL
     DEF Spec, Causal

-----------------------------------------------------------------------------
(* The response of io_stream: what up took and the agent has not received  *)
(* is at most a full channel and one message, and was sent by the browser. *)
Response ==
  \A c \in Calls :
    /\ reached[c] <= Len(got[c]) /\ Len(got[c]) <= reached[c] + Capacity + 1
    /\ \A b \in Tabs : call[c] = b => Len(got[c]) <= typed[b]

LEMMA ResponseStep ==
  Typed /\ IInv /\ Order /\ Causal /\ Response /\ [Next]_vars => Response'
<1> SUFFICES ASSUME Typed, IInv, Order, Causal, Response, [Next]_vars
             PROVE  Response'
  OBVIOUS
<1> USE TerminalAssumption
<1>0. /\ TypeUsers /\ TypeUp /\ FreshCalls
      /\ \A c \in Calls : Len(got[c]) \in Nat /\ reached[c] \in Nat
      /\ \A b \in Tabs : typed[b] \in Nat
  BY DEF Typed, TypeUp
<1>1. ASSUME NEW c \in Calls, NEW b \in Tabs, IoStream(c, b)
      PROVE  Response'
  <2>1. /\ UNCHANGED <<typed, got, reached>> /\ call[c] = None
        /\ \A e \in Calls \ {c} : call'[e] = call[e]
    BY <1>0, <1>1 DEF IoStream, Bind, Refuse, TypeUsers, tabVars
  <2>2. Len(got[c]) = 0
    BY <1>0, <2>1 DEF FreshCalls
  <2> QED
    BY <1>0, <2>1, <2>2 DEF Response
<1>2. ASSUME NEW c \in Calls, PumpUp(c)
      PROVE  Response'
  <2>0. PICK b \in Tabs : call[c] = b
    BY <1>0, <1>2 DEF PumpUp, FreshCalls
  <2>1. /\ UNCHANGED <<typed, reached, call>> /\ up[c] = 0
        /\ \A e \in Calls \ {c} : got'[e] = got[e]
    BY <1>0, <1>2 DEF PumpUp, TypeUp, tabVars
  <2>2. CASE got' = got
    BY <2>1, <2>2 DEF Response
  <2>3. CASE /\ fromWs[b] # <<>> /\ ~InHand(c)
             /\ got'[c] = Append(got[c], Head(fromWs[b]))
    <3>1. Head(fromWs[b]) \in 1..MaxUp /\ Head(fromWs[b]) = fromWs[b][1] /\ 1 \in 1..Len(fromWs[b])
      BY <1>0, <2>0, <2>3, Taking DEF TypeUp
    <3>2. Len(got'[c]) = Len(got[c]) + 1
      BY <1>0, <2>3, <3>1, Putting DEF TypeUp
    <3>3. fromWs[b][1] = Len(got[c]) + 1
      BY <2>0, <2>1, <3>1 DEF Order, UpInOrder, Upward
    <3>4. fromWs[b][1] <= typed[b]
      BY <2>0, <3>1 DEF Causal, CausalUp
    <3> DEFINE n == Len(got[c])
    <3>5. n \in Nat /\ reached[c] \in Nat /\ reached[c] <= n /\ ~(n - reached[c] > Capacity)
      BY <1>0, <2>3 DEF Response, InHand, Waiting
    <3>6. Len(got'[c]) = n + 1 /\ n + 1 <= typed[b]
      BY <3>2, <3>3, <3>4
    <3> HIDE DEF n
    <3>7. reached[c] <= n + 1 /\ n + 1 <= reached[c] + Capacity + 1
      BY <3>5
    <3> QED
      BY <2>0, <2>1, <3>6, <3>7 DEF Response
  <2> QED
    BY <1>0, <1>2, <2>0, <2>2, <2>3 DEF PumpUp, TypeUp
<1>3. ASSUME NEW c \in Calls, Respond(c)
      PROVE  Response'
  <2>1. /\ UNCHANGED <<typed, got, call>>
        /\ reached[c] < Len(got[c]) /\ reached'[c] = reached[c] + 1
        /\ \A e \in Calls \ {c} : reached'[e] = reached[e]
    BY <1>0, <1>3 DEF Respond, TypeUp, tabVars
  <2> QED
    BY <1>0, <2>1 DEF Response
<1>4. ASSUME NEW b \in Tabs, Type(b)
      PROVE  Response'
  <2>1. /\ UNCHANGED <<got, reached, call>>
        /\ \A d \in Tabs : typed'[d] \in Nat /\ typed[d] <= typed'[d]
    BY <1>0, <1>4 DEF Type, TypeUp, callVars
  <2> QED
    BY <1>0, <2>1 DEF Response
<1>5. CASE UNCHANGED <<typed, got, reached, call>>
  BY <1>5 DEF Response
<1> QED
  BY <1>1, <1>2, <1>3, <1>4, <1>5
     DEF Next, Create, Reject, Open, Asked, AskFails, Leave, Read, Push, Show, Return,
         Say, HangUp, PumpDown, vars, tabVars, callVars

LEMMA ResponseInvariant == Spec => []Response
<1>1. Init => Response
  BY TerminalAssumption DEF Init, Response
<1> QED
  BY <1>1, ResponseStep, TypedInvariant, Invariant, OrderInvariant, CausalInvariant, PTL
     DEF Spec

-----------------------------------------------------------------------------
(* The refinement: the relay sees the sessions, who is bound to whom, who  *)
(* is there, and what was sent and received.                               *)
Session == [b \in Tabs |-> tab[b].session]
Peer    == [c \in Calls |-> IF call[c] \in Tabs THEN call[c] ELSE None]
Arrived == [c \in Calls |-> SubSeq(got[c], 1, reached[c])]

(* What the agent received is the numbers up to reached: up adds nothing   *)
(* to it, the response the next one.                                       *)
Counted ==
  \A c \in Calls : reached[c] \in Nat /\ Arrived[c] = [i \in 1..reached[c] |-> i]

LEMMA ArrivedIsCounted == Typed /\ Order /\ Response => Counted
<1> SUFFICES ASSUME Typed, Order, Response, NEW c \in Calls
             PROVE  reached[c] \in Nat /\ Arrived[c] = [i \in 1..reached[c] |-> i]
  BY DEF Counted
<1> DEFINE q == got[c]
           n == reached[c]
<1>1. q \in Seq(1..MaxUp) /\ n \in Nat /\ Len(q) \in Nat /\ n <= Len(q)
  BY TerminalAssumption DEF Typed, TypeUp, Response
<1>2. \A i \in 1..Len(q) : q[i] = i
  BY DEF Order, BytesInOrder
<1>3. Arrived[c] = SubSeq(q, 1, n)
  BY DEF Arrived
<1> HIDE DEF q, n
<1>4. \A i \in 1..n : q[i] \in Int
  BY <1>1, <1>2
<1>5. /\ SubSeq(q, 1, n) \in Seq(Int)
      /\ Len(SubSeq(q, 1, n)) = n
      /\ \A i \in 1..n : SubSeq(q, 1, n)[i] = i
  <2>1. /\ SubSeq(q, 1, n) \in Seq(Int)
        /\ Len(SubSeq(q, 1, n)) = IF 1 <= n THEN n - 1 + 1 ELSE 0
        /\ \A i \in 1..(n - 1 + 1) : SubSeq(q, 1, n)[i] = q[1 + i - 1]
    BY <1>1, <1>4, SubSeqProperties
  <2>2. \A i \in 1..n : 1 + i - 1 = i /\ q[i] = i
    BY <1>1, <1>2
  <2> QED
    BY <1>1, <2>1, <2>2
<1>6. SubSeq(q, 1, n) = [i \in 1..n |-> i]
  BY <1>1, <1>5
<1> QED
  BY <1>1, <1>3, <1>6 DEF n
LEMMA RelayQuiet ==
  ASSUME UNCHANGED <<open, agent, typed, said, shown, call>>, Arrived' = Arrived,
         \A b \in Tabs : tab'[b].session = tab[b].session
  PROVE  UNCHANGED Pipes!vars
<1>1. Session' = Session /\ Peer' = Peer
  BY DEF Session, Peer
<1> QED
  BY <1>1 DEF Pipes!vars, Session, Peer, Arrived

LEMMA RelayBrowserGone ==
  ASSUME NEW b \in Tabs, open' = open \ {b},
         UNCHANGED <<agent, typed, said, shown, got, reached, call>>,
         \A d \in Tabs : tab'[d].session = tab[d].session
  PROVE  Pipes!Next
<1>1. Session' = Session /\ Peer' = Peer /\ Arrived' = Arrived
  BY DEF Session, Peer, Arrived
<1>2. Pipes!BrowserGone(b)
  BY <1>1 DEF Pipes!BrowserGone, Session, Peer, Arrived
<1> QED
  BY <1>2 DEF Pipes!Next

LEMMA RelayStart ==
  ASSUME IInv, NEW b \in Tabs, NEW s \in Sessions, Open(b, s)
  PROVE  Pipes!Next
<1>1. /\ tab[b].session = None /\ tab'[b].session = s
      /\ \A d \in Tabs \ {b} : tab'[d] = tab[d]
      /\ open' \in {open, open \cup {b}}
      /\ UNCHANGED <<agent, typed, said, shown, call>> /\ Arrived' = Arrived
  BY DEF Open, IInv, Shape, IdleTabs, callVars, Arrived
\* The session is still pending, so no tab has it.
<1>2. \A d \in Tabs : tab[d].session # s
  BY TerminalAssumption DEF Open, IInv, TakenSessions
<1>3. /\ Session[b] = None /\ \A d \in Tabs : Session[d] # s
      /\ Session' = [Session EXCEPT ![b] = s] /\ Peer' = Peer
  <2>1. Session[b] = None /\ \A d \in Tabs : Session[d] # s
    BY <1>1, <1>2 DEF Session
  <2>2. \A d \in Tabs : tab'[d].session = IF d = b THEN s ELSE tab[d].session
    BY <1>1
  <2>3. Session' = [Session EXCEPT ![b] = s]
    BY <2>2 DEF Session
  <2> QED
    BY <1>1, <2>1, <2>3 DEF Peer
<1>4. Pipes!Start(b, s)
  BY <1>1, <1>3 DEF Pipes!Start, Session, Peer, Arrived
<1> QED
  BY <1>4 DEF Pipes!Next

LEMMA RelayPair ==
  ASSUME IInv, NEW c \in Calls, NEW b \in Tabs, Bind(c, b), tab[b].session # None
  PROVE  Pipes!Next
<1> USE TerminalAssumption
<1>1. /\ call[c] = None /\ call'[c] = b /\ agent' = agent \cup {c}
      /\ \A e \in Calls \ {c} : call'[e] = call[e]
      /\ UNCHANGED <<open, tab, typed, said, shown>> /\ Arrived' = Arrived
  BY DEF Bind, IInv, Shape, tabVars, Arrived
<1>2. \A e \in Calls : call[e] # b
  BY DEF Bind, IInv, ActiveIsUnbound, Bound
<1>3. /\ Session[b] # None /\ Session' = Session
      /\ Peer[c] = None /\ \A e \in Calls : Peer[e] # b
      /\ Peer' = [Peer EXCEPT ![c] = b]
  <2>1. Session[b] # None /\ Session' = Session
    BY <1>1 DEF Session
  <2>2. Peer[c] = None /\ \A e \in Calls : Peer[e] # b
    BY <1>1, <1>2 DEF Peer
  <2>3. \A e \in Calls : (IF call'[e] \in Tabs THEN call'[e] ELSE None)
                          = IF e = c THEN b ELSE Peer[e]
    BY <1>1 DEF Peer
  <2>4. Peer' = [Peer EXCEPT ![c] = b]
    BY <2>3 DEF Peer
  <2> QED
    BY <2>1, <2>2, <2>4
<1>4. Pipes!Pair(c, b)
  BY <1>1, <1>3 DEF Pipes!Pair, Session, Peer, Arrived
<1> QED
  BY <1>4 DEF Pipes!Next

LEMMA RelayShow ==
  ASSUME Typed, Order, Causal, NEW b \in Tabs, Show(b)
  PROVE  [Pipes!Next]_Pipes!vars
<1> USE TerminalAssumption
<1>0. UNCHANGED <<open, agent, typed, said, call, tab>> /\ Arrived' = Arrived
  BY DEF Show, callVars, Arrived
<1>1. CASE UNCHANGED shown
  BY <1>0, <1>1, RelayQuiet
<1>2. CASE toWs[b] # <<>> /\ b \in open /\ shown' = [shown EXCEPT ![b] = Append(@, Head(toWs[b]))]
  \* Something is in the channel, so a call has taken the stream.
  <2>1. PICK c \in Calls : call[c] = b
    BY <1>2 DEF Order, UnboundBuffers, Bound
  <2>2. Head(toWs[b]) = toWs[b][1] /\ 1 \in 1..Len(toWs[b])
    BY <1>2, Taking DEF Typed, TypeDown
  <2>3. toWs[b][1] = Len(shown[b]) + 1
    BY <2>1, <2>2 DEF Order, DownInOrder, Downward
  <2>4. toWs[b][1] <= said[c]
    BY <2>1, <2>2 DEF Causal, CausalDown
  <2>5. Len(shown[b]) \in Nat /\ said[c] \in Nat
    BY DEF Typed, TypeDown
  <2> DEFINE n == Len(shown[b])
  <2>6. n < said[c]
    <3>1. n + 1 <= said[c]
      BY <2>3, <2>4
    <3> HIDE DEF n
    <3> QED
      BY <2>5, <3>1 DEF n
  <2>7. shown' = [shown EXCEPT ![b] = Append(@, Len(@) + 1)]
    BY <1>2, <2>2, <2>3
  <2>8. Session' = Session /\ Peer' = Peer /\ Peer[c] = b
    BY <1>0, <2>1 DEF Session, Peer
  <2>9. Pipes!ToBrowser(c, b)
    BY <1>0, <1>2, <2>6, <2>7, <2>8 DEF Pipes!ToBrowser, Session, Peer, Arrived
  <2> QED
    BY <2>9 DEF Pipes!Next
<1> QED
  BY <1>1, <1>2 DEF Show

(* up puts into the channel of the response, which the relay does not see. *)
LEMMA RelayPumpUp ==
  ASSUME Counted, Counted', NEW c \in Calls, PumpUp(c)
  PROVE  UNCHANGED Pipes!vars
<1>1. UNCHANGED <<open, agent, typed, said, shown, call, tab, reached>>
  BY DEF PumpUp, tabVars
<1>2. \A e \in Calls : Arrived'[e] = Arrived[e]
  BY <1>1 DEF Counted
<1>3. Arrived' = Arrived
  BY <1>2 DEF Arrived
<1> QED
  BY <1>1, <1>3, RelayQuiet

LEMMA RelayRespond ==
  ASSUME Typed, Response, Counted, Counted', NEW c \in Calls, Respond(c)
  PROVE  Pipes!Next
<1> USE TerminalAssumption
<1>1. /\ UNCHANGED <<open, agent, typed, said, shown, call, tab, got>> /\ c \in agent
      /\ reached[c] < Len(got[c]) /\ reached'[c] = reached[c] + 1
      /\ \A e \in Calls \ {c} : reached'[e] = reached[e]
  BY DEF Respond, Typed, TypeUp, tabVars
\* Something was taken from a channel, so the call is bound.
<1>2. PICK b \in Tabs : call[c] = b
  <2>1. Len(got[c]) # 0
    BY <1>1 DEF Typed, TypeUp
  <2> QED
    BY <2>1 DEF Typed, FreshCalls
<1>3. Arrived[c] = [i \in 1..reached[c] |-> i] /\ reached[c] \in Nat
  BY DEF Counted
<1>4. Arrived'[c] = [i \in 1..(reached[c] + 1) |-> i]
  BY <1>1 DEF Counted
<1>5. Len(Arrived[c]) = reached[c] /\ Arrived'[c] = Append(Arrived[c], Len(Arrived[c]) + 1)
  <2> DEFINE q == Arrived[c]
             n == reached[c]
  <2>1. q = [i \in 1..n |-> i] /\ n \in Nat
    BY <1>3
  <2> HIDE DEF q, n
  <2>2. q \in Seq(Int) /\ Len(q) = n
    BY <2>1
  <2>3. /\ Append(q, n + 1) \in Seq(Int) /\ Len(Append(q, n + 1)) = n + 1
        /\ \A i \in 1..(n + 1) : Append(q, n + 1)[i] = i
    BY <2>1, <2>2
  <2>4. Append(q, n + 1) = [i \in 1..(n + 1) |-> i]
    BY <2>1, <2>3
  <2> QED
    BY <1>4, <2>2, <2>4 DEF q, n
<1>6. \A e \in Calls \ {c} : Arrived'[e] = Arrived[e]
  BY <1>1 DEF Arrived
<1>7. Arrived' = [Arrived EXCEPT ![c] = Append(@, Len(@) + 1)]
  BY <1>5, <1>6 DEF Arrived
<1>8. Len(Arrived[c]) < typed[b]
  <2>1. Len(got[c]) <= typed[b]
    BY <1>2 DEF Response
  <2>2. Len(got[c]) \in Nat /\ typed[b] \in Nat
    BY DEF Typed, TypeUp
  <2> QED
    BY <1>1, <1>3, <1>5, <2>1, <2>2
<1>9. Session' = Session /\ Peer' = Peer /\ Peer[c] = b
  BY <1>1, <1>2 DEF Session, Peer
<1>10. Pipes!ToAgent(c, b)
  BY <1>1, <1>7, <1>8, <1>9 DEF Pipes!ToAgent, Session, Peer, Arrived
<1> QED
  BY <1>10 DEF Pipes!Next

(* A stream that is bound has a session: its tab is past the first remove. *)
SessionOfTab ==
  \A b \in Tabs : tab[b].stage \in {"asking", "proxy", "returned"} => tab[b].session # None

LEMMA SessionOfTabStep == IInv /\ SessionOfTab /\ [Next]_vars => SessionOfTab'
<1> SUFFICES ASSUME IInv, SessionOfTab, [Next]_vars
             PROVE  SessionOfTab'
  OBVIOUS
<1> USE TerminalAssumption
<1>1. ASSUME NEW b \in Tabs, NEW s \in Sessions, Reject(b, s) \/ Open(b, s)
      PROVE  SessionOfTab'
  BY <1>1 DEF Reject, Open, SessionOfTab, IInv, Shape
<1>2. ASSUME NEW b \in Tabs, Asked(b) \/ AskFails(b) \/ Return(b)
      PROVE  SessionOfTab'
  BY <1>2 DEF Asked, AskFails, Return, SessionOfTab, IInv, Shape
<1>3. CASE UNCHANGED tab
  BY <1>3 DEF SessionOfTab
<1> QED
  BY <1>1, <1>2, <1>3
     DEF Next, Create, Type, Leave, Read, Push, Show, IoStream, Bind, Refuse, Say, HangUp,
         PumpUp, Respond, PumpDown, vars, tabVars

LEMMA RelayStep ==
  Typed /\ IInv /\ Order /\ Causal /\ Response /\ SessionOfTab /\ Counted /\ Counted'
      /\ [Next]_vars
    => [Pipes!Next]_Pipes!vars
<1> SUFFICES ASSUME Typed, IInv, Order, Causal, Response, SessionOfTab, Counted, Counted',
                    [Next]_vars
             PROVE  [Pipes!Next]_Pipes!vars
  OBVIOUS
<1> USE TerminalAssumption
<1>1. ASSUME NEW b \in Tabs, NEW s \in Sessions, Open(b, s)
      PROVE  Pipes!Next
  BY <1>1, RelayStart
<1>2. ASSUME NEW b \in Tabs, NEW s \in Sessions, Reject(b, s)
      PROVE  UNCHANGED Pipes!vars
  <2>1. \A d \in Tabs : tab'[d].session = tab[d].session
    BY <1>2 DEF Reject, IInv, Shape, IdleTabs
  <2> QED
    BY <1>2, <2>1, RelayQuiet DEF Reject, callVars, Arrived
<1>3. ASSUME NEW b \in Tabs, Asked(b)
      PROVE  UNCHANGED Pipes!vars
  <2>1. \A d \in Tabs : tab'[d].session = tab[d].session
    BY <1>3 DEF Asked, IInv, Shape
  <2> QED
    BY <1>3, <2>1, RelayQuiet DEF Asked, callVars, Arrived
<1>4. ASSUME NEW b \in Tabs, AskFails(b) \/ Return(b) \/ Leave(b)
      PROVE  Pipes!Next
  <2>1. \A d \in Tabs : tab'[d].session = tab[d].session
    BY <1>4 DEF AskFails, Return, Leave, IInv, Shape
  <2>2. UNCHANGED <<agent, typed, said, shown, got, reached, call>> /\ open' = open \ {b}
    BY <1>4 DEF AskFails, Return, Leave, callVars
  <2> QED
    BY <2>1, <2>2, RelayBrowserGone
<1>5. ASSUME NEW b \in Tabs, Type(b)
      PROVE  Pipes!Next
  <2>1. Session' = Session /\ Peer' = Peer /\ Arrived' = Arrived
    BY <1>5 DEF Type, Session, Peer, Arrived, callVars
  <2>2. Pipes!Type(b)
    BY <1>5, <2>1 DEF Type, Pipes!Type, Session, Peer, Arrived, callVars
  <2> QED
    BY <2>2 DEF Pipes!Next
<1>6. ASSUME NEW c \in Calls, Say(c)
      PROVE  Pipes!Next
  <2>1. Session' = Session /\ Peer' = Peer /\ Arrived' = Arrived
    BY <1>6 DEF Say, Session, Peer, Arrived, tabVars
  <2>2. Pipes!Say(c)
    BY <1>6, <2>1 DEF Say, Pipes!Say, Session, Peer, Arrived, tabVars
  <2> QED
    BY <2>2 DEF Pipes!Next
<1>7. ASSUME NEW c \in Calls, HangUp(c)
      PROVE  Pipes!Next
  <2>1. Session' = Session /\ Peer' = Peer /\ Arrived' = Arrived
    BY <1>7 DEF HangUp, Session, Peer, Arrived, tabVars
  <2>2. Pipes!AgentGone(c)
    BY <1>7, <2>1 DEF HangUp, Pipes!AgentGone, Session, Peer, Arrived, tabVars
  <2> QED
    BY <2>2 DEF Pipes!Next
<1>8. ASSUME NEW c \in Calls, NEW b \in Tabs, IoStream(c, b)
      PROVE  [Pipes!Next]_Pipes!vars
  <2>1. CASE Bind(c, b)
    BY <1>8, <2>1, RelayPair DEF IoStream, SessionOfTab
  <2>2. CASE Refuse(c, b)
    <3>1. /\ UNCHANGED <<open, agent, typed, said, shown, got, reached, tab>>
          /\ call[c] = None /\ call'[c] = Refused
          /\ \A e \in Calls \ {c} : call'[e] = call[e]
      BY <2>2 DEF Refuse, IInv, Shape, tabVars
    <3>2. Session' = Session /\ Peer' = Peer /\ Arrived' = Arrived
      BY <3>1 DEF Session, Peer, Arrived
    <3> QED
      BY <3>1, <3>2 DEF Pipes!vars, Session, Peer, Arrived
  <2> QED
    BY <1>8, <2>1, <2>2 DEF IoStream
<1>9. ASSUME NEW b \in Tabs, Show(b)
      PROVE  [Pipes!Next]_Pipes!vars
  BY <1>9, RelayShow
<1>10. ASSUME NEW c \in Calls, PumpUp(c)
       PROVE  UNCHANGED Pipes!vars
  BY <1>10, RelayPumpUp
<1>11. ASSUME \/ \E s \in Sessions : Create(s)
              \/ \E b \in Tabs : Read(b) \/ Push(b)
              \/ \E c \in Calls : PumpDown(c)
              \/ UNCHANGED vars
       PROVE  UNCHANGED Pipes!vars
  <2>1. UNCHANGED <<open, agent, typed, said, shown, call, tab>> /\ Arrived' = Arrived
    BY <1>11 DEF Create, Read, Push, PumpDown, vars, tabVars, callVars, Arrived
  <2> QED
    BY <2>1, RelayQuiet
<1>12. ASSUME NEW c \in Calls, Respond(c)
       PROVE  Pipes!Next
  BY <1>12, RelayRespond
<1> QED
  BY <1>1, <1>2, <1>3, <1>4, <1>5, <1>6, <1>7, <1>8, <1>9, <1>10, <1>11, <1>12 DEF Next

(* The maps, channels, pumps and handlers of any number of terminals, with *)
(* browsers and agents that leave at any moment, implement the relay.      *)
THEOREM TerminalIsRelay == Spec => IsRelay
<1>1. Init => Pipes!Init
  <2> SUFFICES ASSUME Init
               PROVE  Pipes!Init
    OBVIOUS
  <2>1. Session = [b \in Tabs |-> None] /\ Peer = [c \in Calls |-> None]
    BY TerminalAssumption DEF Init, Session, Peer
  <2>2. SubSeq(<<>>, 1, 0) = <<>>
    BY SubSeqEmpty
  <2>3. Arrived = [c \in Calls |-> <<>>]
    BY <2>2 DEF Init, Arrived
  <2> QED
    BY <2>1, <2>3 DEF Init, Pipes!Init, Session, Peer, Arrived
<1>2. Init => SessionOfTab
  BY DEF Init, SessionOfTab
<1> QED
  BY <1>1, <1>2, RelayStep, SessionOfTabStep, TypedInvariant, Invariant, OrderInvariant,
     CausalInvariant, ResponseInvariant, ArrivedIsCounted, PTL DEF Spec, IsRelay, Pipes!Spec

-----------------------------------------------------------------------------
(* A pump that cannot pass a message on stops reading.  Up, two channels    *)
(* and two pumps with one message each are between the browser and the     *)
(* agent; down, one channel and one pump.                                  *)
HeldIsBounded ==
  \A b \in Tabs, c \in Calls : call[c] = b =>
    /\ up[c] = 0 /\ recv[b] # Ended => taken[b] - reached[c] <= 2 * Capacity + 2
    /\ send[b] = 0 /\ down[c] # Ended => heard[c] - Len(shown[b]) <= Capacity + 1

(* What the panel holds of a terminal's data is bounded by its channels: a *)
(* browser that types faster than its agent receives is not read from, nor *)
(* an agent that sends faster than its browser is shown.                   *)
THEOREM BackPressure == Spec => []HeldIsBounded
<1>1. ASSUME Typed, Order, Response
      PROVE  HeldIsBounded
  <2> SUFFICES ASSUME NEW b \in Tabs, NEW c \in Calls, call[c] = b
               PROVE  /\ up[c] = 0 /\ recv[b] # Ended
                           => taken[b] - reached[c] <= 2 * Capacity + 2
                      /\ send[b] = 0 /\ down[c] # Ended
                           => heard[c] - Len(shown[b]) <= Capacity + 1
    BY DEF HeldIsBounded
  <2> USE TerminalAssumption
  <2> DEFINE f == Len(fromWs[b])
             g == Len(got[c])
             n == reached[c]
             t == Len(toWs[b])
             w == Len(shown[b])
  <2>1. f \in Nat /\ f <= Capacity /\ t \in Nat /\ t <= Capacity
    BY <1>1, ChannelOf DEF Typed, TypeUp, TypeDown
  <2>2. g \in Nat /\ w \in Nat /\ n \in Nat /\ g <= n + Capacity + 1
    BY <1>1 DEF Typed, TypeUp, TypeDown, Response
  <2>3. up[c] = 0 /\ recv[b] # Ended => taken[b] = g + f \/ taken[b] = g + f + 1
    BY <1>1 DEF Typed, TypeUp, Order, UpInOrder, Upward
  <2>4. send[b] = 0 /\ down[c] # Ended => heard[c] = w + t \/ heard[c] = w + t + 1
    BY <1>1 DEF Typed, TypeDown, Order, DownInOrder, Downward
  <2> HIDE DEF f, g, n, t, w
  <2>5. up[c] = 0 /\ recv[b] # Ended => taken[b] - n <= 2 * Capacity + 2
    BY <2>1, <2>2, <2>3
  <2>6. send[b] = 0 /\ down[c] # Ended => heard[c] - w <= Capacity + 1
    BY <2>1, <2>2, <2>4
  <2> QED
    BY <2>5, <2>6 DEF n, w
<1> QED
  BY <1>1, TypedInvariant, OrderInvariant, ResponseInvariant, PTL

-----------------------------------------------------------------------------
(* Winding down.  When one side of a bound stream leaves, what remains to  *)
(* be done is a number that no step raises and that every step of the      *)
(* pumps and handlers concerned lowers, and until the goal is reached one  *)
(* of these can move.                                                      *)
Work(sent, read, holding, queued, waiting, pump, stage) ==
  4 * (sent - read) + holding + 2 * queued + waiting + pump + stage

StageLeft(b) == IF tab[b].stage = "returned" THEN 0 ELSE 1
RecvLeft(b)  == IF recv[b] = Ended THEN 0 ELSE IF recv[b] = 0 THEN 1 ELSE 4
DownLeft(c)  == IF down[c] = Ended THEN 0 ELSE IF down[c] = 0 THEN 1 ELSE 4
UpLeft(c)    == IF up[c] = Ended THEN 0 ELSE 1
SendLeft(b)  == IF send[b] = Ended THEN 0 ELSE 1

UpWork(b, c) ==
  Work(typed[b], taken[b], RecvLeft(b), Len(fromWs[b]), Waiting(c), UpLeft(c), StageLeft(b))

DownWork(b, c) ==
  Work(said[c], heard[c], DownLeft(c), Len(toWs[b]), 0, SendLeft(b), StageLeft(b))

BrowserLeft(b, c) == call[c] = b /\ b \notin open
AgentLeft(b, c)   == call[c] = b /\ c \notin agent

\* Guards of Read (its socket is over), Push, Return, PumpUp and Respond.
UpCanMove(b, c) ==
  \/ recv[b] = 0
  \/ recv[b] \in 1..MaxUp /\ (Received(b) => Len(fromWs[b]) < Capacity)
  \/ tab[b].stage = "proxy" /\ (recv[b] = Ended \/ send[b] = Ended)
  \/ /\ up[c] = 0 /\ (c \in agent => ~InHand(c))
     /\ fromWs[b] # <<>> \/ recv[b] = Ended \/ InHand(c)
  \/ c \in agent /\ reached[c] < Len(got[c])

CallIsOver(b, c) ==
  /\ tab[b].stage = "returned" /\ up[c] = Ended
  /\ c \in agent => reached[c] = Len(got[c])

\* Guards of PumpDown (its agent is gone), Show and Return.
DownCanMove(b, c) ==
  \/ down[c] = 0
  \/ down[c] \in 1..MaxDown /\ (send[b] = 0 => Len(toWs[b]) < Capacity)
  \/ send[b] = 0 /\ (toWs[b] # <<>> \/ ~Fed(b))
  \/ tab[b].stage = "proxy" /\ (recv[b] = Ended \/ send[b] = Ended)

SomebodyMoves ==
  \A b \in Tabs, c \in Calls :
    /\ BrowserLeft(b, c) => CallIsOver(b, c) \/ UpCanMove(b, c)
    /\ AgentLeft(b, c) => tab[b].stage = "returned" \/ DownCanMove(b, c)

(* Safety beneath AgentLossEndsTab and LeavingEndsCall: once a side has    *)
(* left a bound stream, neither the other side nor anybody else's terminal *)
(* can add to what is left to do.                                          *)
WindsDown ==
  \A b \in Tabs, c \in Calls :
    /\ BrowserLeft(b, c) =>
         /\ BrowserLeft(b, c)'
         /\ UpWork(b, c) \in Nat /\ UpWork(b, c)' <= UpWork(b, c)
         /\ Read(b) \/ Push(b) \/ Return(b) \/ PumpUp(c) \/ Respond(c)
              => UpWork(b, c)' < UpWork(b, c)
    /\ AgentLeft(b, c) =>
         /\ AgentLeft(b, c)'
         /\ DownWork(b, c) \in Nat /\ DownWork(b, c)' <= DownWork(b, c)
         /\ PumpDown(c) \/ Show(b) \/ Return(b) => DownWork(b, c)' < DownWork(b, c)

\* That these are the guards of the actions; ENABLED is not for proofs, TLC can
\* evaluate this one.
GuardsAreGuards ==
  \A b \in Tabs, c \in Calls :
    /\ BrowserLeft(b, c) =>
         (UpCanMove(b, c)
            <=> ENABLED (Read(b) \/ Push(b) \/ Return(b) \/ PumpUp(c) \/ Respond(c)))
    /\ AgentLeft(b, c) =>
         (DownCanMove(b, c) <=> ENABLED (PumpDown(c) \/ Show(b) \/ Return(b)))

LEMMA WorkIsNat ==
  ASSUME NEW sent \in Nat, NEW read \in Nat, read <= sent, NEW holding \in Nat,
         NEW queued \in Nat, NEW waiting \in Nat, NEW pump \in Nat, NEW stage \in Nat
  PROVE  Work(sent, read, holding, queued, waiting, pump, stage) \in Nat
  BY DEF Work

(* The numbers the work is made of.                                        *)
LEMMA UpParts ==
  ASSUME Typed, Causal, Response, NEW b \in Tabs, NEW c \in Calls
  PROVE  /\ typed[b] \in Nat /\ taken[b] \in Nat /\ taken[b] <= typed[b]
         /\ RecvLeft(b) \in Nat /\ Len(fromWs[b]) \in Nat
         /\ Len(got[c]) \in Nat /\ reached[c] \in Nat /\ Waiting(c) \in Nat
         /\ UpLeft(c) \in Nat /\ StageLeft(b) \in Nat
         /\ UpWork(b, c) \in Nat
<1>1. /\ typed[b] \in Nat /\ taken[b] \in Nat /\ taken[b] <= typed[b]
  BY TerminalAssumption DEF Typed, TypeUp, Causal, CausalUp
<1>2. Len(fromWs[b]) \in Nat
  BY ChannelOf, TerminalAssumption DEF Typed, TypeUp
<1>3. RecvLeft(b) \in Nat /\ UpLeft(c) \in Nat /\ StageLeft(b) \in Nat
  BY DEF RecvLeft, UpLeft, StageLeft
<1>4. Len(got[c]) \in Nat /\ reached[c] \in Nat
  BY DEF Typed, TypeUp
<1>5. Waiting(c) \in Nat
  BY <1>4 DEF Waiting, Response
<1> QED
  BY <1>1, <1>2, <1>3, <1>4, <1>5, WorkIsNat DEF UpWork

LEMMA DownParts ==
  ASSUME Typed, Causal, NEW b \in Tabs, NEW c \in Calls
  PROVE  /\ said[c] \in Nat /\ heard[c] \in Nat /\ heard[c] <= said[c]
         /\ DownLeft(c) \in Nat /\ Len(toWs[b]) \in Nat
         /\ SendLeft(b) \in Nat /\ StageLeft(b) \in Nat
         /\ DownWork(b, c) \in Nat
<1>1. /\ said[c] \in Nat /\ heard[c] \in Nat /\ heard[c] <= said[c]
  BY TerminalAssumption DEF Typed, TypeDown, Causal, CausalDown
<1>2. Len(toWs[b]) \in Nat
  BY ChannelOf, TerminalAssumption DEF Typed, TypeDown
<1>3. DownLeft(c) \in Nat /\ SendLeft(b) \in Nat /\ StageLeft(b) \in Nat
  BY DEF DownLeft, SendLeft, StageLeft
<1> QED
  BY <1>1, <1>2, <1>3, WorkIsNat DEF DownWork

(* Until both are over, one of the five upward steps is possible.          *)
LEMMA UpMoves ==
  ASSUME Typed, IInv, Order, Response, NEW b \in Tabs, NEW c \in Calls, BrowserLeft(b, c),
         ~CallIsOver(b, c)
  PROVE  UpCanMove(b, c)
<1> USE TerminalAssumption
<1>1. tab[b].stage \in {"proxy", "returned"}
  BY DEF BrowserLeft, Order, BoundAfterTask
<1>2. recv[b] = 0 \/ recv[b] \in 1..MaxUp \/ recv[b] = Ended
  BY DEF Typed, TypeUp
<1>3. up[c] = 0 \/ up[c] = Ended
  BY DEF Typed, TypeUp
\* A full response: the agent has something to receive.
<1>4. c \in agent /\ InHand(c) => UpCanMove(b, c)
  <2>1. Len(got[c]) \in Nat /\ reached[c] \in Nat
    BY DEF Typed, TypeUp
  <2>2. InHand(c) => reached[c] < Len(got[c])
    BY <2>1 DEF InHand, Waiting
  <2> QED
    BY <2>2 DEF UpCanMove
<1>5. c \in agent /\ reached[c] # Len(got[c]) => UpCanMove(b, c)
  <2>1. Len(got[c]) \in Nat /\ reached[c] \in Nat /\ reached[c] <= Len(got[c])
    BY DEF Typed, TypeUp, Response
  <2>2. reached[c] # Len(got[c]) => reached[c] < Len(got[c])
    BY <2>1
  <2> QED
    BY <2>2 DEF UpCanMove
<1>6. CASE recv[b] \in 1..MaxUp /\ Received(b) /\ ~(Len(fromWs[b]) < Capacity)
  \* The stream left the map when the call took it, so the pump still runs.
  <2>1. b \notin active
    BY DEF BrowserLeft, IInv, ActiveIsUnbound, Bound
  <2>2. \A d \in Calls : call[d] = b => d = c
    BY DEF BrowserLeft, IInv, StreamBoundOnce
  <2>3. up[c] # Ended
    BY <1>6, <2>1, <2>2 DEF Received
  <2>4. fromWs[b] # <<>>
    BY <1>6
  <2> QED
    BY <1>3, <1>4, <2>3, <2>4 DEF UpCanMove
<1> QED
  BY <1>1, <1>2, <1>3, <1>4, <1>5, <1>6 DEF UpCanMove, CallIsOver

(* Until the handler has returned, one of the three downward steps is.     *)
LEMMA DownMoves ==
  ASSUME Typed, IInv, Order, NEW b \in Tabs, NEW c \in Calls, AgentLeft(b, c),
         tab[b].stage # "returned"
  PROVE  DownCanMove(b, c)
<1> USE TerminalAssumption
<1>1. tab[b].stage = "proxy"
  BY DEF AgentLeft, Order, BoundAfterTask
<1>2. send[b] = 0 \/ send[b] = Ended
  BY DEF Typed, TypeDown
<1>3. down[c] = 0 \/ down[c] \in 1..MaxDown \/ down[c] = Ended
  BY DEF Typed, TypeDown
<1>4. CASE send[b] = 0 /\ toWs[b] = <<>> /\ down[c] = Ended
  <2>1. b \notin active
    BY DEF AgentLeft, IInv, ActiveIsUnbound, Bound
  <2>2. \A d \in Calls : call[d] = b => d = c
    BY DEF AgentLeft, IInv, StreamBoundOnce
  <2>3. ~Fed(b)
    BY <1>4, <2>1, <2>2 DEF Fed
  <2> QED
    BY <1>4, <2>3 DEF DownCanMove
<1>5. CASE send[b] = 0 /\ toWs[b] = <<>> /\ down[c] \in 1..MaxDown
  <2>1. Len(toWs[b]) < Capacity
    BY <1>5
  <2> QED
    BY <1>5, <2>1 DEF DownCanMove
<1> QED
  BY <1>1, <1>2, <1>3, <1>4, <1>5 DEF DownCanMove

LEMMA UpStays ==
  ASSUME Typed, Causal, Response, NEW b \in Tabs, NEW c \in Calls, BrowserLeft(b, c),
         typed'[b] = typed[b], taken'[b] = taken[b], recv'[b] = recv[b],
         fromWs'[b] = fromWs[b], up'[c] = up[c], tab'[b].stage = tab[b].stage,
         call'[c] = call[c], got'[c] = got[c], reached'[c] = reached[c], b \notin open'
  PROVE  BrowserLeft(b, c)' /\ UpWork(b, c) \in Nat /\ UpWork(b, c)' <= UpWork(b, c)
<1>1. BrowserLeft(b, c)' /\ UpWork(b, c)' = UpWork(b, c)
  BY DEF BrowserLeft, UpWork, RecvLeft, UpLeft, StageLeft, Waiting
<1> QED
  BY <1>1, UpParts

LEMMA UpOthers ==
  ASSUME Typed, IInv, Order, Causal, Response, [Next]_vars,
         NEW b \in Tabs, NEW c \in Calls, BrowserLeft(b, c),
         ~(Read(b) \/ Push(b) \/ Return(b) \/ PumpUp(c) \/ Respond(c))
  PROVE  BrowserLeft(b, c)' /\ UpWork(b, c) \in Nat /\ UpWork(b, c)' <= UpWork(b, c)
<1> USE TerminalAssumption
<1>0. /\ TypeUsers /\ TypeUp /\ FreshCalls
      /\ tab[b].stage \in {"proxy", "returned"} /\ call[c] = b /\ b \notin open
  BY DEF Typed, BrowserLeft, Order, BoundAfterTask
<1>1. ASSUME NEW d \in Tabs, NEW s \in Sessions, Reject(d, s) \/ Open(d, s)
      PROVE  /\ UNCHANGED <<typed, taken, recv, fromWs, up, got, reached, call>>
             /\ tab'[b] = tab[b] /\ b \notin open'
  BY <1>0, <1>1 DEF Reject, Open, TypeUsers, callVars
<1>2. ASSUME NEW d \in Tabs, Asked(d) \/ AskFails(d)
      PROVE  /\ UNCHANGED <<typed, taken, fromWs, up, got, reached, call>> /\ recv'[b] = recv[b]
             /\ tab'[b] = tab[b] /\ b \notin open'
  BY <1>0, <1>2 DEF Asked, AskFails, TypeUsers, TypeUp, callVars
<1>3. ASSUME NEW d \in Tabs, Type(d) \/ Leave(d) \/ Show(d)
      PROVE  /\ UNCHANGED <<taken, recv, fromWs, up, got, reached, call, tab>>
             /\ typed'[b] = typed[b] /\ b \notin open'
  BY <1>0, <1>3 DEF Type, Leave, Show, TypeUp, callVars
<1>4. ASSUME NEW d \in Tabs, d # b, Read(d) \/ Push(d) \/ Return(d)
      PROVE  /\ UNCHANGED <<typed, up, got, reached, call>> /\ tab'[b] = tab[b] /\ b \notin open'
             /\ taken'[b] = taken[b] /\ recv'[b] = recv[b] /\ fromWs'[b] = fromWs[b]
  BY <1>0, <1>4 DEF Read, Push, Return, TypeUsers, TypeUp, callVars
<1>5. ASSUME NEW e \in Calls, NEW d \in Tabs, IoStream(e, d)
      PROVE  /\ UNCHANGED <<typed, taken, recv, fromWs, got, reached, tab, open>>
             /\ up'[c] = up[c] /\ call'[c] = call[c]
  BY <1>0, <1>5 DEF IoStream, Bind, Refuse, TypeUsers, TypeUp, tabVars
<1>6. ASSUME NEW e \in Calls, e # c, PumpUp(e)
      PROVE  /\ UNCHANGED <<typed, taken, recv, reached, call, tab, open>>
             /\ up'[c] = up[c] /\ got'[c] = got[c] /\ fromWs'[b] = fromWs[b]
  <2>1. up[e] = 0 /\ call[e] \in Tabs
    BY <1>0, <1>6 DEF PumpUp, FreshCalls
  \* The channel of b is the other call's.
  <2>2. call[e] # b
    BY <1>0, <1>6 DEF IInv, StreamBoundOnce
  <2> QED
    BY <1>0, <1>6, <2>1, <2>2 DEF PumpUp, TypeUp, tabVars
<1>7. ASSUME \/ \E s \in Sessions : Create(s)
             \/ \E e \in Calls : Say(e) \/ HangUp(e) \/ PumpDown(e)
             \/ UNCHANGED vars
      PROVE  UNCHANGED <<typed, taken, recv, fromWs, up, got, reached, call, tab, open>>
  BY <1>7 DEF Create, Say, HangUp, PumpDown, vars, tabVars, callVars
<1>8. ASSUME NEW e \in Calls, e # c, Respond(e)
      PROVE  /\ UNCHANGED <<typed, taken, recv, fromWs, up, got, call, tab, open>>
             /\ reached'[c] = reached[c]
  BY <1>0, <1>8 DEF Respond, TypeUp, tabVars
<1>9. /\ typed'[b] = typed[b] /\ taken'[b] = taken[b] /\ recv'[b] = recv[b]
      /\ fromWs'[b] = fromWs[b] /\ up'[c] = up[c] /\ tab'[b].stage = tab[b].stage
      /\ got'[c] = got[c] /\ reached'[c] = reached[c]
      /\ call'[c] = call[c] /\ b \notin open'
  BY <1>0, <1>1, <1>2, <1>3, <1>4, <1>5, <1>6, <1>7, <1>8 DEF Next
<1> QED
  BY <1>9, UpStays

LEMMA UpLowers ==
  ASSUME Typed, IInv, Order, Causal, Response, NEW b \in Tabs, NEW c \in Calls, BrowserLeft(b, c),
         Read(b) \/ Push(b) \/ Return(b) \/ PumpUp(c) \/ Respond(c)
  PROVE  /\ BrowserLeft(b, c)' /\ UpWork(b, c) \in Nat
         /\ UpWork(b, c)' <= UpWork(b, c) /\ UpWork(b, c)' < UpWork(b, c)
<1> USE TerminalAssumption
<1>0. /\ TypeUsers /\ TypeUp /\ FreshCalls /\ call[c] = b /\ b \notin open
      /\ typed[b] \in Nat /\ taken[b] \in Nat /\ taken[b] <= typed[b]
      /\ RecvLeft(b) \in Nat /\ Len(fromWs[b]) \in Nat
      /\ Len(got[c]) \in Nat /\ reached[c] \in Nat /\ Waiting(c) \in Nat
      /\ UpLeft(c) \in Nat /\ StageLeft(b) \in Nat
      /\ UpWork(b, c) \in Nat
      /\ Ended # 0 /\ Ended \notin 1..MaxUp
  BY UpParts DEF Typed, BrowserLeft
<1> DEFINE t == typed[b]
           k == taken[b]
           k1 == taken'[b]
           f == Len(fromWs[b])
           r == RecvLeft(b)
           w == Waiting(c)
           u == UpLeft(c)
           g == StageLeft(b)
           f1 == Len(fromWs'[b])
           r1 == RecvLeft(b)'
           w1 == Waiting(c)'
           u1 == UpLeft(c)'
           g1 == StageLeft(b)'
<1>1. CASE Read(b)
  <2>1. /\ UNCHANGED <<typed, fromWs, up, got, reached, call, tab, open>> /\ recv[b] = 0
        /\ \/ recv'[b] = taken[b] + 1 /\ taken'[b] = taken[b] + 1
           \/ recv'[b] = Ended /\ taken'[b] = taken[b]
    BY <1>0, <1>1 DEF Read, TypeUp, callVars
  <2>2. r = 1 /\ f1 = f /\ w1 = w /\ u1 = u /\ g1 = g
    BY <2>1 DEF RecvLeft, UpLeft, StageLeft, Waiting
  <2>3. \/ r1 = 4 /\ k1 = k + 1
        \/ r1 = 0 /\ k1 = k
    BY <1>0, <2>1 DEF RecvLeft
  <2>4. t \in Nat /\ k \in Nat /\ k <= t /\ f \in Nat /\ w \in Nat /\ u \in Nat /\ g \in Nat
    BY <1>0
  <2> HIDE DEF t, k, k1, f, r, w, u, g, f1, r1, w1, u1, g1
  <2>5. /\ Work(t, k1, r1, f1, w1, u1, g1) <= Work(t, k, r, f, w, u, g)
        /\ Work(t, k1, r1, f1, w1, u1, g1) < Work(t, k, r, f, w, u, g)
    BY <2>2, <2>3, <2>4 DEF Work
  <2> QED
    BY <1>0, <2>1, <2>5 DEF UpWork, BrowserLeft, t, k, k1, f, r, w, u, g, f1, r1, w1, u1, g1
<1>2. CASE Push(b)
  <2>1. /\ UNCHANGED <<typed, taken, up, got, reached, call, tab, open>> /\ recv[b] \in 1..MaxUp
        /\ \/ recv'[b] = 0 /\ fromWs'[b] = Append(fromWs[b], recv[b])
           \/ recv'[b] = Ended /\ fromWs'[b] = fromWs[b]
    BY <1>0, <1>2 DEF Push, TypeUp, callVars
  <2>2. r = 4 /\ w1 = w /\ u1 = u /\ g1 = g
    BY <1>0, <2>1 DEF RecvLeft, UpLeft, StageLeft, Waiting
  <2>3. fromWs[b] \in Seq(1..MaxUp)
    BY <1>0, ChannelOf DEF TypeUp
  <2>4. (r1 = 1 /\ f1 = f + 1) \/ (r1 = 0 /\ f1 = f)
    <3>1. CASE recv'[b] = 0 /\ fromWs'[b] = Append(fromWs[b], recv[b])
      <4>1. f1 = f + 1
        BY <2>1, <2>3, <3>1, Putting
      <4> QED
        BY <1>0, <3>1, <4>1 DEF RecvLeft
    <3>2. CASE recv'[b] = Ended /\ fromWs'[b] = fromWs[b]
      BY <3>2 DEF RecvLeft
    <3> QED
      BY <2>1, <3>1, <3>2
  <2>5. t \in Nat /\ k \in Nat /\ k <= t /\ f \in Nat /\ w \in Nat /\ u \in Nat /\ g \in Nat
    BY <1>0
  <2> HIDE DEF t, k, k1, f, r, w, u, g, f1, r1, w1, u1, g1
  <2>6. /\ Work(t, k, r1, f1, w1, u1, g1) <= Work(t, k, r, f, w, u, g)
        /\ Work(t, k, r1, f1, w1, u1, g1) < Work(t, k, r, f, w, u, g)
    BY <2>2, <2>4, <2>5 DEF Work
  <2> QED
    BY <1>0, <2>1, <2>6 DEF UpWork, BrowserLeft, t, k, k1, f, r, w, u, g, f1, r1, w1, u1, g1
<1>3. CASE Return(b)
  <2>1. /\ UNCHANGED <<typed, taken, fromWs, up, got, reached, call>> /\ b \notin open'
        /\ recv'[b] = Ended /\ tab[b].stage = "proxy" /\ tab'[b].stage = "returned"
    BY <1>0, <1>3 DEF Return, TypeUsers, TypeUp, callVars
  <2>2. r1 = 0 /\ g = 1 /\ g1 = 0 /\ w1 = w /\ u1 = u /\ f1 = f
    BY <2>1 DEF RecvLeft, UpLeft, StageLeft, Waiting
  <2>3. t \in Nat /\ k \in Nat /\ k <= t /\ f \in Nat /\ w \in Nat /\ u \in Nat /\ r \in Nat
    BY <1>0
  <2> HIDE DEF t, k, k1, f, r, w, u, g, f1, r1, w1, u1, g1
  <2>4. /\ Work(t, k, r1, f1, w1, u1, g1) <= Work(t, k, r, f, w, u, g)
        /\ Work(t, k, r1, f1, w1, u1, g1) < Work(t, k, r, f, w, u, g)
    BY <2>2, <2>3 DEF Work
  <2> QED
    BY <1>0, <2>1, <2>4 DEF UpWork, BrowserLeft, t, k, k1, f, r, w, u, g, f1, r1, w1, u1, g1
<1>4. CASE PumpUp(c)
  <2>1. /\ UNCHANGED <<typed, taken, recv, reached, call, tab, open>> /\ up[c] = 0
        /\ \/ /\ fromWs[b] # <<>> /\ fromWs'[b] = Tail(fromWs[b]) /\ up'[c] = 0
              /\ got'[c] = Append(got[c], Head(fromWs[b]))
           \/ fromWs'[b] = <<>> /\ up'[c] = Ended /\ got' = got
    BY <1>0, <1>4 DEF PumpUp, TypeUp, tabVars
  <2>2. r1 = r /\ g1 = g /\ u = 1
    BY <1>0, <2>1 DEF RecvLeft, UpLeft, StageLeft
  <2>3. (f1 = f - 1 /\ f1 \in Nat /\ w1 = w + 1 /\ u1 = 1) \/ (f1 = 0 /\ w1 = w /\ u1 = 0)
    <3>1. CASE /\ fromWs[b] # <<>> /\ fromWs'[b] = Tail(fromWs[b]) /\ up'[c] = 0
               /\ got'[c] = Append(got[c], Head(fromWs[b]))
      <4>1. /\ Len(Tail(fromWs[b])) = Len(fromWs[b]) - 1 /\ Len(fromWs[b]) \in Nat \ {0}
            /\ Head(fromWs[b]) \in 1..MaxUp
        BY <1>0, <3>1, Taking DEF TypeUp
      <4>2. Len(got'[c]) = Len(got[c]) + 1
        BY <1>0, <3>1, <4>1, Putting DEF TypeUp
      <4>3. w1 = w + 1
        BY <1>0, <2>1, <4>2 DEF Waiting
      <4> QED
        BY <1>0, <3>1, <4>1, <4>3 DEF UpLeft
    <3>2. CASE fromWs'[b] = <<>> /\ up'[c] = Ended /\ got' = got
      BY <2>1, <3>2 DEF UpLeft, Waiting
    <3> QED
      BY <2>1, <3>1, <3>2
  <2>4. t \in Nat /\ k \in Nat /\ k <= t /\ f \in Nat /\ w \in Nat /\ r \in Nat /\ g \in Nat
    BY <1>0
  <2> HIDE DEF t, k, k1, f, r, w, u, g, f1, r1, w1, u1, g1
  <2>5. /\ Work(t, k, r1, f1, w1, u1, g1) <= Work(t, k, r, f, w, u, g)
        /\ Work(t, k, r1, f1, w1, u1, g1) < Work(t, k, r, f, w, u, g)
    BY <2>2, <2>3, <2>4 DEF Work
  <2> QED
    BY <1>0, <2>1, <2>5 DEF UpWork, BrowserLeft, t, k, k1, f, r, w, u, g, f1, r1, w1, u1, g1
<1>5. CASE Respond(c)
  <2>1. /\ UNCHANGED <<typed, taken, recv, fromWs, up, got, call, tab, open>>
        /\ reached[c] < Len(got[c]) /\ reached'[c] = reached[c] + 1
    BY <1>0, <1>5 DEF Respond, TypeUp, tabVars
  <2>2. r1 = r /\ f1 = f /\ u1 = u /\ g1 = g
    BY <2>1 DEF RecvLeft, UpLeft, StageLeft
  <2>3. w1 = w - 1
    BY <1>0, <2>1 DEF Waiting
  <2>4. t \in Nat /\ k \in Nat /\ k <= t /\ f \in Nat /\ w \in Nat /\ r \in Nat /\ u \in Nat /\ g \in Nat
    BY <1>0
  <2> HIDE DEF t, k, k1, f, r, w, u, g, f1, r1, w1, u1, g1
  <2>5. /\ Work(t, k, r1, f1, w1, u1, g1) <= Work(t, k, r, f, w, u, g)
        /\ Work(t, k, r1, f1, w1, u1, g1) < Work(t, k, r, f, w, u, g)
    BY <2>2, <2>3, <2>4 DEF Work
  <2> QED
    BY <1>0, <2>1, <2>5 DEF UpWork, BrowserLeft, t, k, k1, f, r, w, u, g, f1, r1, w1, u1, g1
<1> QED
  BY <1>1, <1>2, <1>3, <1>4, <1>5

LEMMA DownStays ==
  ASSUME Typed, Causal, NEW b \in Tabs, NEW c \in Calls, AgentLeft(b, c),
         said'[c] = said[c], heard'[c] = heard[c], down'[c] = down[c],
         toWs'[b] = toWs[b], send'[b] = send[b], tab'[b].stage = tab[b].stage,
         call'[c] = call[c], c \notin agent'
  PROVE  AgentLeft(b, c)' /\ DownWork(b, c) \in Nat /\ DownWork(b, c)' <= DownWork(b, c)
<1>1. AgentLeft(b, c)' /\ DownWork(b, c)' = DownWork(b, c)
  BY DEF AgentLeft, DownWork, DownLeft, SendLeft, StageLeft
<1> QED
  BY <1>1, DownParts

LEMMA DownOthers ==
  ASSUME Typed, IInv, Order, Causal, [Next]_vars,
         NEW b \in Tabs, NEW c \in Calls, AgentLeft(b, c),
         ~(PumpDown(c) \/ Show(b) \/ Return(b))
  PROVE  AgentLeft(b, c)' /\ DownWork(b, c) \in Nat /\ DownWork(b, c)' <= DownWork(b, c)
<1> USE TerminalAssumption
<1>0. /\ TypeUsers /\ TypeDown /\ FreshCalls
      /\ tab[b].stage \in {"proxy", "returned"} /\ call[c] = b /\ c \notin agent
  BY DEF Typed, AgentLeft, Order, BoundAfterTask
<1>1. ASSUME NEW d \in Tabs, NEW s \in Sessions, Reject(d, s) \/ Open(d, s)
      PROVE  /\ UNCHANGED <<said, heard, down, toWs, send, call, agent>>
             /\ tab'[b] = tab[b]
  BY <1>0, <1>1 DEF Reject, Open, TypeUsers, callVars
<1>2. ASSUME NEW d \in Tabs, Asked(d) \/ AskFails(d)
      PROVE  /\ UNCHANGED <<said, heard, down, toWs, call, agent>> /\ send'[b] = send[b]
             /\ tab'[b] = tab[b]
  BY <1>0, <1>2 DEF Asked, AskFails, TypeUsers, TypeDown, callVars
<1>3. ASSUME NEW d \in Tabs, Type(d) \/ Leave(d) \/ Read(d) \/ Push(d)
      PROVE  UNCHANGED <<said, heard, down, toWs, send, call, agent, tab>>
  BY <1>3 DEF Type, Leave, Read, Push, callVars
<1>4. ASSUME NEW d \in Tabs, d # b, Show(d) \/ Return(d)
      PROVE  /\ UNCHANGED <<said, heard, down, call, agent>> /\ tab'[b] = tab[b]
             /\ toWs'[b] = toWs[b] /\ send'[b] = send[b]
  BY <1>0, <1>4 DEF Show, Return, TypeUsers, TypeDown, callVars
<1>5. ASSUME NEW e \in Calls, NEW d \in Tabs, IoStream(e, d)
      PROVE  /\ UNCHANGED <<said, heard, toWs, send, tab>> /\ c \notin agent'
             /\ down'[c] = down[c] /\ call'[c] = call[c]
  BY <1>0, <1>5 DEF IoStream, Bind, Refuse, TypeUsers, TypeDown, tabVars
<1>6. ASSUME NEW e \in Calls, e # c, PumpDown(e)
      PROVE  /\ UNCHANGED <<said, send, call, tab, agent>>
             /\ heard'[c] = heard[c] /\ down'[c] = down[c] /\ toWs'[b] = toWs[b]
  <2>1. UNCHANGED <<said, send, call, tab, agent>>
    BY <1>6 DEF PumpDown, tabVars
  <2>2. heard'[c] = heard[c] /\ down'[c] = down[c]
    BY <1>0, <1>6 DEF PumpDown, TypeDown
  \* The channel of b is the other call's.
  <2>3. call[e] # b
    BY <1>0, <1>6 DEF IInv, StreamBoundOnce
  <2>4. toWs'[b] = toWs[b]
    BY <1>0, <1>6, <2>3 DEF PumpDown, TypeDown
  <2> QED
    BY <2>1, <2>2, <2>4
<1>7. ASSUME NEW e \in Calls, Say(e) \/ HangUp(e)
      PROVE  /\ UNCHANGED <<heard, down, toWs, send, call, tab>>
             /\ said'[c] = said[c] /\ c \notin agent'
  BY <1>0, <1>7 DEF Say, HangUp, TypeDown, tabVars
<1>8. ASSUME \/ \E s \in Sessions : Create(s)
             \/ \E e \in Calls : PumpUp(e) \/ Respond(e)
             \/ UNCHANGED vars
      PROVE  UNCHANGED <<said, heard, down, toWs, send, call, tab, agent>>
  BY <1>8 DEF Create, PumpUp, Respond, vars, tabVars, callVars
<1>9. /\ said'[c] = said[c] /\ heard'[c] = heard[c] /\ down'[c] = down[c]
      /\ toWs'[b] = toWs[b] /\ send'[b] = send[b] /\ tab'[b].stage = tab[b].stage
      /\ call'[c] = call[c] /\ c \notin agent'
  BY <1>0, <1>1, <1>2, <1>3, <1>4, <1>5, <1>6, <1>7, <1>8 DEF Next
<1> QED
  BY <1>9, DownStays

LEMMA DownLowers ==
  ASSUME Typed, IInv, Order, Causal, NEW b \in Tabs, NEW c \in Calls, AgentLeft(b, c),
         PumpDown(c) \/ Show(b) \/ Return(b)
  PROVE  /\ AgentLeft(b, c)' /\ DownWork(b, c) \in Nat
         /\ DownWork(b, c)' <= DownWork(b, c) /\ DownWork(b, c)' < DownWork(b, c)
<1> USE TerminalAssumption
<1>0. /\ TypeUsers /\ TypeDown /\ FreshCalls /\ call[c] = b /\ c \notin agent
      /\ said[c] \in Nat /\ heard[c] \in Nat /\ heard[c] <= said[c]
      /\ DownLeft(c) \in Nat /\ Len(toWs[b]) \in Nat
      /\ SendLeft(b) \in Nat /\ StageLeft(b) \in Nat
      /\ DownWork(b, c) \in Nat
      /\ Ended # 0 /\ Ended \notin 1..MaxDown
  BY DownParts DEF Typed, AgentLeft
<1> DEFINE t == said[c]
           k == heard[c]
           k1 == heard'[c]
           f == Len(toWs[b])
           r == DownLeft(c)
           u == SendLeft(b)
           g == StageLeft(b)
           f1 == Len(toWs'[b])
           r1 == DownLeft(c)'
           u1 == SendLeft(b)'
           g1 == StageLeft(b)'
<1>1. CASE PumpDown(c)
  <2>1. /\ UNCHANGED <<said, send, call, tab, agent>>
        /\ \/ down[c] = 0 /\ heard'[c] = heard[c] + 1 /\ down'[c] = heard[c] + 1 /\ toWs' = toWs
           \/ down[c] # Ended /\ down'[c] = Ended /\ heard'[c] = heard[c] /\ toWs' = toWs
           \/ /\ down[c] \in 1..MaxDown /\ down'[c] = 0 /\ heard'[c] = heard[c]
              /\ toWs'[b] = Append(toWs[b], down[c])
    BY <1>0, <1>1 DEF PumpDown, TypeDown, tabVars
  <2>2. u1 = u /\ g1 = g
    BY <2>1 DEF SendLeft, StageLeft
  <2>3. \/ r = 1 /\ r1 = 4 /\ k1 = k + 1 /\ f1 = f
        \/ (r = 1 \/ r = 4) /\ r1 = 0 /\ k1 = k /\ f1 = f
        \/ r = 4 /\ r1 = 1 /\ k1 = k /\ f1 = f + 1
    <3>1. CASE down[c] = 0 /\ heard'[c] = heard[c] + 1 /\ down'[c] = heard[c] + 1 /\ toWs' = toWs
      BY <1>0, <3>1 DEF DownLeft
    <3>2. CASE down[c] # Ended /\ down'[c] = Ended /\ heard'[c] = heard[c] /\ toWs' = toWs
      BY <1>0, <3>2 DEF DownLeft
    <3>3. CASE /\ down[c] \in 1..MaxDown /\ down'[c] = 0 /\ heard'[c] = heard[c]
               /\ toWs'[b] = Append(toWs[b], down[c])
      <4>1. toWs[b] \in Seq(1..MaxDown)
        BY <1>0, ChannelOf DEF TypeDown
      <4>2. f1 = f + 1
        BY <3>3, <4>1, Putting
      <4>3. r = 4 /\ r1 = 1 /\ k1 = k
        BY <1>0, <3>3 DEF DownLeft
      <4> QED
        BY <4>2, <4>3
    <3> QED
      BY <2>1, <3>1, <3>2, <3>3
  <2>4. t \in Nat /\ k \in Nat /\ k <= t /\ f \in Nat /\ u \in Nat /\ g \in Nat
    BY <1>0
  <2> HIDE DEF t, k, k1, f, r, u, g, f1, r1, u1, g1
  <2>5. /\ Work(t, k1, r1, f1, 0, u1, g1) <= Work(t, k, r, f, 0, u, g)
        /\ Work(t, k1, r1, f1, 0, u1, g1) < Work(t, k, r, f, 0, u, g)
    BY <2>2, <2>3, <2>4 DEF Work
  <2> QED
    BY <1>0, <2>1, <2>5 DEF DownWork, AgentLeft, t, k, k1, f, r, u, g, f1, r1, u1, g1
<1>2. CASE Show(b)
  <2>1. /\ UNCHANGED <<said, heard, down, call, tab, agent>> /\ send[b] = 0
        /\ \/ toWs[b] # <<>> /\ toWs'[b] = Tail(toWs[b]) /\ send'[b] = 0
           \/ toWs'[b] = toWs[b] /\ send'[b] = Ended
    BY <1>0, <1>2 DEF Show, TypeDown, callVars
  <2>2. r1 = r /\ g1 = g /\ u = 1 /\ k1 = k
    BY <1>0, <2>1 DEF DownLeft, SendLeft, StageLeft
  <2>3. \/ f1 = f - 1 /\ f1 \in Nat /\ u1 = 1
        \/ f1 = f /\ u1 = 0
    <3>1. CASE toWs[b] # <<>> /\ toWs'[b] = Tail(toWs[b]) /\ send'[b] = 0
      <4>1. Len(Tail(toWs[b])) = Len(toWs[b]) - 1 /\ Len(toWs[b]) \in Nat \ {0}
        BY <1>0, <3>1, Taking DEF TypeDown
      <4> QED
        BY <1>0, <3>1, <4>1 DEF SendLeft
    <3>2. CASE toWs'[b] = toWs[b] /\ send'[b] = Ended
      BY <3>2 DEF SendLeft
    <3> QED
      BY <2>1, <3>1, <3>2
  <2>4. t \in Nat /\ k \in Nat /\ k <= t /\ f \in Nat /\ r \in Nat /\ g \in Nat
    BY <1>0
  <2> HIDE DEF t, k, k1, f, r, u, g, f1, r1, u1, g1
  <2>5. /\ Work(t, k1, r1, f1, 0, u1, g1) <= Work(t, k, r, f, 0, u, g)
        /\ Work(t, k1, r1, f1, 0, u1, g1) < Work(t, k, r, f, 0, u, g)
    BY <2>2, <2>3, <2>4 DEF Work
  <2> QED
    BY <1>0, <2>1, <2>5 DEF DownWork, AgentLeft, t, k, k1, f, r, u, g, f1, r1, u1, g1
<1>3. CASE Return(b)
  <2>1. /\ UNCHANGED <<said, heard, down, call, agent>> /\ send'[b] = Ended
        /\ tab[b].stage = "proxy" /\ tab'[b].stage = "returned" /\ toWs'[b] = <<>>
    BY <1>0, <1>3 DEF Return, TypeUsers, TypeDown, callVars
  <2>2. r1 = r /\ g = 1 /\ g1 = 0 /\ u1 = 0 /\ f1 = 0 /\ k1 = k
    BY <2>1 DEF DownLeft, SendLeft, StageLeft
  <2>3. t \in Nat /\ k \in Nat /\ k <= t /\ f \in Nat /\ u \in Nat /\ r \in Nat
    BY <1>0
  <2> HIDE DEF t, k, k1, f, r, u, g, f1, r1, u1, g1
  <2>4. /\ Work(t, k1, r1, f1, 0, u1, g1) <= Work(t, k, r, f, 0, u, g)
        /\ Work(t, k1, r1, f1, 0, u1, g1) < Work(t, k, r, f, 0, u, g)
    BY <2>2, <2>3 DEF Work
  <2> QED
    BY <1>0, <2>1, <2>4 DEF DownWork, AgentLeft, t, k, k1, f, r, u, g, f1, r1, u1, g1
<1> QED
  BY <1>1, <1>2, <1>3

(* Whichever side of a bound terminal leaves, at whatever point: somebody  *)
(* who has to move can move until the handler has returned and the call is *)
(* over.  No cycle of full channels and waiting pumps keeps it.            *)
THEOREM NobodyIsStuck == Spec => []SomebodyMoves
<1>1. Typed /\ IInv /\ Order /\ Response => SomebodyMoves
  BY UpMoves, DownMoves DEF SomebodyMoves
<1> QED
  BY <1>1, TypedInvariant, Invariant, OrderInvariant, ResponseInvariant, PTL

(* And each of these steps brings it nearer to the end, whatever others do *)
(* meanwhile.                                                              *)
THEOREM TerminalsWindDown == Spec => [][WindsDown]_vars
<1>1. ASSUME Typed, IInv, Order, Causal, Response, [Next]_vars
      PROVE  WindsDown
  <2>1. ASSUME NEW b \in Tabs, NEW c \in Calls, BrowserLeft(b, c)
        PROVE  /\ BrowserLeft(b, c)'
               /\ UpWork(b, c) \in Nat /\ UpWork(b, c)' <= UpWork(b, c)
               /\ Read(b) \/ Push(b) \/ Return(b) \/ PumpUp(c) \/ Respond(c)
                    => UpWork(b, c)' < UpWork(b, c)
    BY <1>1, <2>1, UpLowers, UpOthers
  <2>2. ASSUME NEW b \in Tabs, NEW c \in Calls, AgentLeft(b, c)
        PROVE  /\ AgentLeft(b, c)'
               /\ DownWork(b, c) \in Nat /\ DownWork(b, c)' <= DownWork(b, c)
               /\ PumpDown(c) \/ Show(b) \/ Return(b) => DownWork(b, c)' < DownWork(b, c)
    BY <1>1, <2>2, DownLowers, DownOthers
  <2> QED
    BY <2>1, <2>2 DEF WindsDown
<1> QED
  BY <1>1, TypedInvariant, Invariant, OrderInvariant, CausalInvariant, ResponseInvariant, PTL
     DEF Spec

-----------------------------------------------------------------------------
(* A terminal both of whose ends are there.                                *)
BothThere(b, c) == call[c] = b /\ b \in open /\ c \in agent

OpenTabs == \A b \in open : tab[b].stage \in {"asking", "proxy"}

\* A stream no call has taken yet is in the map, and its pumps run.
Takeable(b) ==
  tab[b].stage \in {"asking", "proxy"} /\ b \in open /\ ~Bound(b) =>
    /\ b \in active
    /\ tab[b].stage = "proxy" => recv[b] # Ended /\ send[b] = 0

Alive(b, c) ==
  /\ tab[b].stage = "proxy"
  /\ recv[b] # Ended /\ send[b] = 0 /\ up[c] = 0 /\ down[c] # Ended

(* No terminal is torn down while browser and agent are there: the handler *)
(* and all four pumps go on, whatever the other terminals do.              *)
KeptUp == \A b \in Tabs, c \in Calls : BothThere(b, c) => Alive(b, c)

Kept == OpenTabs /\ (\A b \in Tabs : Takeable(b)) /\ KeptUp

(* What one end has sent and the other not received can go a step further, *)
(* each way: read, put in the channel, taken out of it, or, up, passed on  *)
(* to the response and received from it.                                   *)
SentCanMove ==
  \A b \in Tabs, c \in Calls : BothThere(b, c) =>
    /\ reached[c] < typed[b] =>
         \/ recv[b] = 0 /\ taken[b] < typed[b]
         \/ recv[b] \in 1..MaxUp /\ Len(fromWs[b]) < Capacity
         \/ up[c] = 0 /\ fromWs[b] # <<>> /\ ~InHand(c)
         \/ reached[c] < Len(got[c])
    /\ Len(shown[b]) < said[c] =>
         \/ down[c] = 0 /\ heard[c] < said[c]
         \/ down[c] \in 1..MaxDown /\ Len(toWs[b]) < Capacity
         \/ send[b] = 0 /\ toWs[b] # <<>>

LEMMA OpenTabsStep == Typed /\ IInv /\ OpenTabs /\ [Next]_vars => OpenTabs'
<1> SUFFICES ASSUME Typed, IInv, OpenTabs, [Next]_vars
             PROVE  OpenTabs'
  OBVIOUS
<1>0. open \subseteq Tabs
  BY DEF Typed, TypeUsers
<1>1. ASSUME NEW b \in Tabs, NEW s \in Sessions, Reject(b, s) \/ Open(b, s)
      PROVE  OpenTabs'
  BY <1>0, <1>1 DEF Reject, Open, OpenTabs, IInv, Shape
<1>2. ASSUME NEW b \in Tabs, Asked(b) \/ AskFails(b) \/ Return(b)
      PROVE  OpenTabs'
  BY <1>0, <1>2 DEF Asked, AskFails, Return, OpenTabs, IInv, Shape
<1>3. CASE tab' = tab /\ open' \subseteq open
  BY <1>3 DEF OpenTabs
<1> QED
  BY <1>1, <1>2, <1>3
     DEF Next, Create, Type, Leave, Read, Push, Show, IoStream, Bind, Refuse, Say, HangUp,
         PumpUp, Respond, PumpDown, vars, tabVars

LEMMA TakeableStep ==
  ASSUME Typed, IInv, Kept, [Next]_vars, NEW b \in Tabs
  PROVE  Takeable(b)'
<1> USE TerminalAssumption
<1> SUFFICES ASSUME tab'[b].stage \in {"asking", "proxy"}, b \in open', ~Bound(b)'
             PROVE  b \in active' /\ (tab'[b].stage = "proxy" => recv'[b] # Ended /\ send'[b] = 0)
  BY DEF Takeable
<1>1. /\ call \in [Calls -> Tabs \cup {None, Refused}]
      /\ recv \in [Tabs -> 0..MaxUp \cup {Ended}] /\ send \in [Tabs -> {0, Ended}]
      /\ taken \in [Tabs -> 0..MaxUp]
      /\ tab \in [Tabs -> [stage : {"idle", "asking", "failed", "proxy", "returned"},
                           session : Sessions \cup {None}]]
  BY DEF Typed, TypeUsers, TypeUp, TypeDown
\* The steps that leave the stage, the map and the calls alone.
<1>2. CASE /\ tab' = tab /\ active' = active /\ call' = call /\ open' \subseteq open
           /\ \/ UNCHANGED <<recv, send>>
              \/ \E d \in Tabs : Read(d) \/ Push(d) \/ Show(d)
  <2>1. ~Bound(b)
    BY <1>2 DEF Bound
  <2>2. b \in active /\ (tab[b].stage = "proxy" => recv[b] # Ended /\ send[b] = 0) /\ b \in open
    BY <1>2, <2>1 DEF Kept, Takeable
  <2>3. Received(b) /\ Fed(b)
    BY <2>2 DEF Received, Fed
  <2>4. ASSUME NEW d \in Tabs, Read(d) \/ Push(d) \/ Show(d)
        PROVE  (recv'[b] = Ended => recv[b] = Ended) /\ send'[b] = send[b]
    <3>1. CASE Read(d)
      <4>1. CASE d = b
        <5>1. recv' = [recv EXCEPT ![b] = taken[b] + 1] /\ send' = send
          BY <2>2, <3>1, <4>1 DEF Read
        <5>2. taken[b] + 1 # Ended
          BY <1>1
        <5> QED
          BY <1>1, <5>1, <5>2
      <4>2. CASE d # b
        BY <1>1, <3>1, <4>2 DEF Read
      <4> QED
        BY <4>1, <4>2
    <3>2. CASE Push(d)
      BY <1>1, <2>3, <3>2 DEF Push
    <3>3. CASE Show(d)
      BY <1>1, <2>2, <2>3, <3>3 DEF Show
    <3> QED
      BY <2>4, <3>1, <3>2, <3>3
  <2> QED
    BY <1>2, <2>2, <2>4
<1>3. ASSUME NEW d \in Tabs, NEW s \in Sessions, Reject(d, s) \/ Open(d, s)
      PROVE  b \in active' /\ (tab'[b].stage = "proxy" => recv'[b] # Ended /\ send'[b] = 0)
  <2>1. CASE d = b
    BY <1>1, <1>3, <2>1 DEF Reject, Open
  <2>2. CASE d # b
    <3>1. /\ tab'[b] = tab[b] /\ active \subseteq active' /\ UNCHANGED <<call, recv, send>>
          /\ b \in open
      BY <1>1, <1>3, <2>2 DEF Reject, Open, mapVars, callVars
    <3> QED
      BY <3>1 DEF Kept, Takeable, Bound
  <2> QED
    BY <2>1, <2>2
<1>4. ASSUME NEW d \in Tabs, Asked(d) \/ AskFails(d) \/ Return(d)
      PROVE  b \in active' /\ (tab'[b].stage = "proxy" => recv'[b] # Ended /\ send'[b] = 0)
  <2>1. UNCHANGED call /\ b \in open
    BY <1>4 DEF Asked, AskFails, Return, callVars
  <2>2. CASE d = b
    <3>1. Asked(b)
      BY <1>4, <2>2 DEF AskFails, Return
    <3> QED
      BY <1>1, <2>1, <3>1 DEF Asked, Kept, Takeable, Bound, mapVars
  <2>3. CASE d # b
    <3>1. /\ tab'[b] = tab[b] /\ recv'[b] = recv[b] /\ send'[b] = send[b]
          /\ b \in active => b \in active'
      BY <1>1, <1>4, <2>3 DEF Asked, AskFails, Return, mapVars
    <3> QED
      BY <2>1, <3>1 DEF Kept, Takeable, Bound
  <2> QED
    BY <2>2, <2>3
<1>5. ASSUME NEW c \in Calls, NEW d \in Tabs, IoStream(c, d)
      PROVE  b \in active' /\ (tab'[b].stage = "proxy" => recv'[b] # Ended /\ send'[b] = 0)
  <2>1. UNCHANGED <<tab, recv, send, open>> /\ call[c] = None
    BY <1>5 DEF IoStream, Bind, Refuse, tabVars
  <2>2. \A e \in Calls \ {c} : call'[e] = call[e]
    BY <1>1, <1>5 DEF IoStream, Bind, Refuse
  <2>3. ~Bound(b)
    BY <2>1, <2>2 DEF Bound
  <2>4. CASE Bind(c, d)
    <3>1. d # b
      BY <1>1, <2>4 DEF Bind, Bound
    <3> QED
      BY <2>1, <2>3, <2>4, <3>1 DEF Bind, Kept, Takeable
  <2>5. CASE Refuse(c, d)
    BY <2>1, <2>3, <2>5 DEF Refuse, Kept, Takeable, mapVars
  <2> QED
    BY <1>5, <2>4, <2>5 DEF IoStream
<1> QED
  BY <1>2, <1>3, <1>4, <1>5
     DEF Next, Create, Type, Leave, Read, Push, Show, Say, HangUp, PumpUp, Respond, PumpDown,
         vars, mapVars, tabVars, callVars

LEMMA AliveStep ==
  ASSUME Typed, IInv, Order, Kept, [Next]_vars, NEW b \in Tabs, NEW c \in Calls, BothThere(b, c)'
  PROVE  Alive(b, c)'
<1> USE TerminalAssumption
<1>1. /\ call \in [Calls -> Tabs \cup {None, Refused}]
      /\ recv \in [Tabs -> 0..MaxUp \cup {Ended}] /\ send \in [Tabs -> {0, Ended}]
      /\ up \in [Calls -> {0, Ended}] /\ down \in [Calls -> 0..MaxDown \cup {Ended}]
      /\ taken \in [Tabs -> 0..MaxUp] /\ heard \in [Calls -> 0..MaxDown]
      /\ tab \in [Tabs -> [stage : {"idle", "asking", "failed", "proxy", "returned"},
                           session : Sessions \cup {None}]]
  BY DEF Typed, TypeUsers, TypeUp, TypeDown
\* The call takes the stream: its pumps have been running since the task was sent.
<1>2. ASSUME NEW d \in Calls, NEW e \in Tabs, IoStream(d, e), ~BothThere(b, c)
      PROVE  Alive(b, c)'
  <2>1. UNCHANGED <<tab, open, recv, send>>
    BY <1>2 DEF IoStream, Bind, Refuse, tabVars
  <2>2. d = c /\ e = b /\ Bind(c, b)
    BY <1>1, <1>2, <2>1 DEF IoStream, Bind, Refuse, BothThere
  <2>3. b \in active /\ ~Bound(b) /\ tab[b].stage = "proxy"
    BY <1>2, <2>1, <2>2 DEF Bind, IInv, ActiveIsUnbound, IoStream, Kept, OpenTabs, BothThere
  <2>4. recv[b] # Ended /\ send[b] = 0
    BY <2>1, <2>3 DEF Kept, Takeable, BothThere
  <2>5. up'[c] = 0 /\ down'[c] = 0
    BY <1>1, <2>2 DEF Bind
  <2> QED
    BY <2>1, <2>3, <2>4, <2>5 DEF Alive
<1>3. ASSUME ~BothThere(b, c)
      PROVE  \E d \in Calls, e \in Tabs : IoStream(d, e)
  <2>1. ASSUME NEW d \in Tabs, NEW s \in Sessions, Open(d, s)
        PROVE  BothThere(b, c)
    BY <2>1 DEF Open, BothThere, IInv, IdleTabs, Bound, callVars
  <2>2. CASE open' \subseteq open /\ agent' \subseteq agent /\ call' = call
    <3>1. call'[c] = b /\ b \in open' /\ c \in agent'
      BY DEF BothThere
    <3>2. BothThere(b, c)
      BY <2>2, <3>1 DEF BothThere
    <3> QED
      BY <1>3, <3>2
  <2> QED
    BY <1>3, <2>1, <2>2
       DEF Next, Create, Reject, Asked, AskFails, Type, Leave, Read, Push, Show, Return,
           Say, HangUp, PumpUp, Respond, PumpDown, vars, tabVars, callVars
<1>4. ASSUME BothThere(b, c)
      PROVE  Alive(b, c)'
  <2>1. /\ Alive(b, c) /\ call[c] = b /\ b \in open /\ c \in agent
        /\ b \in open' /\ c \in agent'
    BY <1>4 DEF Kept, KeptUp, BothThere
  <2>2. Received(b) /\ Fed(b)
    BY <2>1 DEF Alive, Received, Fed
  <2>3. ASSUME NEW d \in Tabs, Read(d) \/ Push(d) \/ Show(d)
        PROVE  Alive(b, c)'
    <3>1. UNCHANGED <<tab, up, down>>
      BY <2>3 DEF Read, Push, Show, callVars
    <3>2. CASE Read(d)
      <4>1. recv'[b] # Ended /\ UNCHANGED send
        <5>1. CASE d = b
          <6>1. recv' = [recv EXCEPT ![b] = taken[b] + 1] /\ taken[b] + 1 # Ended
            BY <1>1, <2>1, <3>2, <5>1 DEF Read
          <6> QED
            BY <1>1, <3>2, <6>1 DEF Read
        <5>2. CASE d # b
          BY <1>1, <2>1, <3>2, <5>2 DEF Read, Alive
        <5> QED
          BY <5>1, <5>2
      <4> QED
        BY <2>1, <3>1, <4>1 DEF Alive
    <3>3. CASE Push(d)
      BY <1>1, <2>1, <2>2, <3>1, <3>3 DEF Push, Alive
    <3>4. CASE Show(d)
      BY <1>1, <2>1, <2>2, <3>1, <3>4 DEF Show, Alive
    <3> QED
      BY <2>3, <3>2, <3>3, <3>4
  <2>4. ASSUME NEW d \in Tabs, \/ Asked(d) \/ AskFails(d) \/ Return(d)
                              \/ \E s \in Sessions : Reject(d, s) \/ Open(d, s)
        PROVE  Alive(b, c)'
    <3>1. d # b
      BY <1>4, <2>1, <2>4
         DEF Asked, AskFails, Return, Reject, Open, Alive
    <3>2. tab'[b] = tab[b] /\ recv'[b] = recv[b] /\ send'[b] = send[b] /\ UNCHANGED <<up, down>>
      BY <1>1, <2>4, <3>1 DEF Asked, AskFails, Return, Reject, Open, callVars
    <3> QED
      BY <2>1, <3>2 DEF Alive
  <2>5. ASSUME NEW d \in Calls, NEW e \in Tabs, IoStream(d, e)
        PROVE  Alive(b, c)'
    <3>1. d # c
      BY <2>1, <2>5 DEF IoStream, Bind, Refuse
    <3>2. UNCHANGED <<tab, recv, send>> /\ up'[c] = up[c] /\ down'[c] = down[c]
      BY <1>1, <2>5, <3>1 DEF IoStream, Bind, Refuse, tabVars
    <3> QED
      BY <2>1, <3>2 DEF Alive
  <2>6. ASSUME NEW d \in Calls, PumpUp(d) \/ PumpDown(d)
        PROVE  Alive(b, c)'
    <3>1. UNCHANGED <<tab, recv, send>>
      BY <2>6 DEF PumpUp, PumpDown, tabVars
    <3>2. CASE PumpUp(d)
      <4>1. up'[c] = 0
        BY <1>1, <2>1, <3>2 DEF PumpUp, Alive
      <4>2. UNCHANGED down
        BY <3>2 DEF PumpUp
      <4> QED
        BY <2>1, <3>1, <4>1, <4>2 DEF Alive
    <3>3. CASE PumpDown(d)
      <4>1. down'[c] # Ended
        <5>1. CASE d = c
          <6>1. heard[c] + 1 # Ended /\ 0 # Ended /\ send[b] # Ended
            BY <1>1, <2>1 DEF Alive
          <6>2. down' = [down EXCEPT ![c] = heard[c] + 1] \/ down' = [down EXCEPT ![c] = 0]
            BY <2>1, <3>3, <5>1, <6>1 DEF PumpDown
          <6> QED
            BY <1>1, <6>1, <6>2
        <5>2. CASE d # c
          BY <1>1, <2>1, <3>3, <5>2 DEF PumpDown, Alive
        <5> QED
          BY <5>1, <5>2
      <4>2. UNCHANGED up
        BY <3>3 DEF PumpDown
      <4> QED
        BY <2>1, <3>1, <4>1, <4>2 DEF Alive
    <3> QED
      BY <2>6, <3>2, <3>3
  <2>7. CASE UNCHANGED <<tab, recv, send, up, down>>
    BY <2>1, <2>7 DEF Alive
  <2> QED
    BY <2>3, <2>4, <2>5, <2>6, <2>7
       DEF Next, Create, Type, Leave, Say, HangUp, Respond, vars, tabVars, callVars
<1> QED
  BY <1>2, <1>3, <1>4

LEMMA KeptInvariant == Spec => []Kept
<1>1. Init => Kept
  BY TerminalAssumption DEF Init, Kept, OpenTabs, Takeable, KeptUp, BothThere
<1>2. Typed /\ IInv /\ Order /\ Kept /\ [Next]_vars => Kept'
  <2> SUFFICES ASSUME Typed, IInv, Order, Kept, [Next]_vars
               PROVE  Kept'
    OBVIOUS
  <2>1. OpenTabs'
    BY OpenTabsStep DEF Kept
  <2>2. \A b \in Tabs : Takeable(b)'
    BY TakeableStep
  <2>3. KeptUp'
    BY AliveStep DEF KeptUp
  <2> QED
    BY <2>1, <2>2, <2>3 DEF Kept
<1> QED
  BY <1>1, <1>2, TypedInvariant, Invariant, OrderInvariant, PTL DEF Spec

(* Nothing but a departure ends a bound terminal: while browser and agent  *)
(* are there the handler is in its proxy and no pump is over.              *)
THEOREM TerminalIsKept == Spec => []KeptUp
<1>1. Kept => KeptUp
  BY DEF Kept
<1> QED
  BY <1>1, KeptInvariant, PTL

(* The safety beneath TypedIsDelivered, both ways: no message waits for a  *)
(* step nobody can take.                                                   *)
THEOREM SentMoves == Spec => []SentCanMove
<1>1. ASSUME Typed, IInv, Order, Response, Kept
      PROVE  SentCanMove
  <2> SUFFICES ASSUME NEW b \in Tabs, NEW c \in Calls, BothThere(b, c)
               PROVE  /\ reached[c] < typed[b] =>
                           \/ recv[b] = 0 /\ taken[b] < typed[b]
                           \/ recv[b] \in 1..MaxUp /\ Len(fromWs[b]) < Capacity
                           \/ up[c] = 0 /\ fromWs[b] # <<>> /\ ~InHand(c)
                           \/ reached[c] < Len(got[c])
                      /\ Len(shown[b]) < said[c] =>
                           \/ down[c] = 0 /\ heard[c] < said[c]
                           \/ down[c] \in 1..MaxDown /\ Len(toWs[b]) < Capacity
                           \/ send[b] = 0 /\ toWs[b] # <<>>
    BY DEF SentCanMove
  <2> USE TerminalAssumption
  <2>1. Alive(b, c) /\ call[c] = b
    BY <1>1 DEF Kept, KeptUp, BothThere
  <2>2. Upward(b, Len(got[c])) /\ Downward(b, c)
    BY <1>1, <2>1 DEF Order, UpInOrder, DownInOrder, Alive
  <2> DEFINE f == Len(fromWs[b])
             g == Len(got[c])
             n == reached[c]
             u == Len(toWs[b])
             w == Len(shown[b])
  <2>3. /\ f \in Nat /\ u \in Nat /\ g \in Nat /\ w \in Nat
        /\ (f = 0 => Len(fromWs[b]) = 0) /\ (f # 0 => fromWs[b] # <<>>)
        /\ (u # 0 => toWs[b] # <<>>)
    BY <1>1, ChannelOf DEF Typed, TypeUp, TypeDown
  <2>4. /\ recv[b] = 0 \/ recv[b] \in 1..MaxUp
        /\ down[c] = 0 \/ down[c] \in 1..MaxDown
        /\ up[c] = 0 /\ send[b] = 0
    BY <1>1, <2>1 DEF Typed, TypeUp, TypeDown, Alive
  <2>5. /\ typed[b] \in Nat /\ taken[b] \in Nat /\ said[c] \in Nat /\ heard[c] \in Nat
    BY <1>1 DEF Typed, TypeUp, TypeDown
  <2>6. recv[b] = 0 => taken[b] = g + f
    BY <2>2 DEF Upward
  <2>7. down[c] = 0 => heard[c] = w + u
    BY <2>2, <2>4 DEF Downward
  \* When the agent has all that was taken for it, the response has room.
  <2>8. n \in Nat /\ (n < g \/ (n = g /\ ~InHand(c)))
    BY <1>1, <2>3 DEF Typed, TypeUp, Response, InHand, Waiting
  <2> HIDE DEF f, g, n, u, w
  <2>9. n < typed[b] =>
          \/ recv[b] = 0 /\ taken[b] < typed[b]
          \/ recv[b] \in 1..MaxUp /\ f < Capacity
          \/ f # 0 /\ ~InHand(c)
          \/ n < g
    BY <2>3, <2>4, <2>5, <2>6, <2>8
  <2>10. w < said[c] =>
          \/ down[c] = 0 /\ heard[c] < said[c]
          \/ down[c] \in 1..MaxDown /\ u < Capacity
          \/ u # 0
    BY <2>3, <2>4, <2>5, <2>7
  <2> QED
    BY <2>3, <2>4, <2>9, <2>10 DEF f, g, n, u, w
<1> QED
  BY <1>1, TypedInvariant, Invariant, OrderInvariant, ResponseInvariant, KeptInvariant, PTL
=============================================================================
