---------------------------- MODULE MCConfigStore ----------------------------
(* Model values for ConfigStore: a form that changes every setting, and an *)
(* environment that sets the language to another one.                      *)
EXTENDS ConfigStore, TLC

CONSTANTS n0, n1, t0, t1

OneForm == {[lang |-> n1, text |-> t1]}

=============================================================================
