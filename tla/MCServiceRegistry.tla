--------------------------- MODULE MCServiceRegistry ---------------------------
(* Model values for ServiceRegistry: a form whose values keep their order, *)
(* and two that mix a list with a number.                                  *)
EXTENDS ServiceRegistry, TLC

CONSTANTS t1, t2, l1, l2

OneEntry == {[target |-> t1, duration |-> 1, trigger |-> 1, skip |-> l1]}

ThreeForms ==
  {"target" :> t2 @@ "duration" :> 9,
   "duration" :> 9 @@ "skip" :> l2,
   "trigger" :> 0 @@ "skip" :> l2}

WorkerSymmetry == Permutations(Workers)
=============================================================================
