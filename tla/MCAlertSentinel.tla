--------------------------- MODULE MCAlertSentinel ---------------------------
(* Model values for AlertSentinel: a rule on load and one on silence.      *)
EXTENDS AlertSentinel, TLC

LoadRule    == [checks |-> {"load"}, all |-> FALSE, enabled |-> TRUE]
OfflineRule == [checks |-> {"offline"}, all |-> FALSE, enabled |-> TRUE]

TwoRules == {LoadRule, OfflineRule}
=============================================================================
