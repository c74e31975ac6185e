----------------------------- MODULE MCAgentTasks -----------------------------
(* Model values for AgentTasks: every server in one shard, the case in     *)
(* which a guard held for one server delays the streams of all of them.    *)
EXTENDS AgentTasks, TLC

OneShard == [s \in Servers |-> CHOOSE x \in Shards : TRUE]
=============================================================================
