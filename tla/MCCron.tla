--------------------------------- MODULE MCCron ---------------------------------
(* Model values for Cron.                                                  *)
EXTENDS Cron

\* CREATE TABLE crons, db.rs 173-188.
TableColumns ==
  {"id", "created_at", "updated_at", "name", "task_type", "scheduler", "command",
   "servers_raw", "cover", "push_successful", "push_successful_message",
   "notification_group_id", "last_executed_at", "last_result"}

EveryMinute == [every |-> 1, unit |-> 60]
Hourly      == [minute |-> 0, hour |-> -1]

TwoForms ==
  {[task_type |-> Http, scheduler |-> EveryMinute, command |-> "url", servers |-> {}, cover |-> 0],
   [task_type |-> Command, scheduler |-> Hourly, command |-> "ls", servers |-> {1}, cover |-> 1]}
=============================================================================
