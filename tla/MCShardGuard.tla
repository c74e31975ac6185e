----------------------------- MODULE MCShardGuard -----------------------------
(* Model values for ShardGuard.                                            *)
EXTENDS ShardGuard, TLC

AnyRequest == Permutations(Requests)
=============================================================================
