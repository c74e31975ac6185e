------------------------------- MODULE Directory -------------------------------
(***************************************************************************)
(* What the registry of servers promises, without handlers, copies, faults *)
(* or restarts: every change happens at once.  An id is assigned to one    *)
(* uuid, once; a uuid has one id at a time; an agent is told an id only    *)
(* while it is its own.                                                    *)
(***************************************************************************)
CONSTANTS
  Ids,    \* the ids that can be assigned
  Uuids,  \* those who can have one
  Nobody  \* the owner of an id that is not assigned, or no longer

VARIABLES
  owner,  \* whose id it is
  given,  \* ids that have ever been assigned
  told    \* for each uuid, the ids its open streams go by

vars == <<owner, given, told>>

Init ==
  /\ owner = [i \in Ids |-> Nobody]
  /\ given = {}
  /\ told = [u \in Uuids |-> {}]

Assign(i, u) ==
  /\ i \notin given
  /\ \A j \in Ids : owner[j] # u
  /\ owner' = [owner EXCEPT ![i] = u]
  /\ given' = given \cup {i}
  /\ UNCHANGED told

Retire(ids) ==
  /\ owner' = [i \in Ids |-> IF i \in ids THEN Nobody ELSE owner[i]]
  /\ UNCHANGED <<given, told>>

Tell(i, u) ==
  /\ owner[i] = u
  /\ told' = [told EXCEPT ![u] = @ \cup {i}]
  /\ UNCHANGED <<owner, given>>

\* Streams end: one, or all of them.
Hangup ==
  /\ told' \in [Uuids -> SUBSET Ids]
  /\ \A u \in Uuids : told'[u] \subseteq told[u]
  /\ UNCHANGED <<owner, given>>

Next ==
  \/ \E i \in Ids, u \in Uuids : Assign(i, u) \/ Tell(i, u)
  \/ \E ids \in SUBSET Ids : Retire(ids)
  \/ Hangup

Spec == Init /\ [][Next]_vars
=============================================================================
