----------------------------- MODULE MCNotification -----------------------------
(* Model values for Notification: a dead webhook, and a live one that its  *)
(* group lists twice.                                                      *)
EXTENDS Notification

CONSTANTS live, dead, junk

TwoHooks   == <<dead, live>>
OneGroup   == <<<<1, 2, 2>>>>
SomeLists  == {<<>>, <<2>>, <<1, 2, 2>>}
OneOrTwo   == {<<1>>, <<1, 1>>}
=============================================================================
