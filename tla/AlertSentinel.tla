---------------------------- MODULE AlertSentinel ----------------------------
(***************************************************************************)
(* The alert loop (nezha-service/src/alert.rs): one task selects between a *)
(* 15 s check of every server against a cache of compiled rules and a 60 s *)
(* reload of that cache from the alert_rules table, which administrators   *)
(* edit meanwhile (handlers/alert_rule.rs).  A table of the last firing of *)
(* each (rule, server) keeps a lasting condition from alerting at every    *)
(* check.                                                                  *)
(*                                                                         *)
(* Time is counted in checks of 15 s; the two intervals catch up in bursts *)
(* when the loop is late.                                                  *)
(***************************************************************************)
EXTENDS Integers, FiniteSets

CONSTANTS
  Rules,        \* ids of rows of alert_rules
  Servers,
  Defs,         \* bound: the rules administrators write
  ReloadEvery,  \* checks between two reloads (4)
  MinInterval,  \* checks between two alerts of a rule for a server (20)
  OfflineAfter, \* checks without a report after which a server is offline (8)
  DedupMax,     \* entries above which old ones are dropped (1000)
  MaxLag,       \* bound: ticks the loop can be late
  NoRule,       \* an id AUTOINCREMENT has not given out yet
  Deleted,      \* an id whose row is gone; it is never given out again
  Never

Metrics == {"load", "offline"}
RuleDef == [checks : SUBSET Metrics, all : BOOLEAN, enabled : BOOLEAN]

PurgeAge == 3 * MinInterval
Pairs    == Rules \X Servers

ASSUME AlertAssumption ==
  /\ Defs \subseteq RuleDef
  /\ NoRule \notin RuleDef /\ Deleted \notin RuleDef
  /\ ReloadEvery \in Nat \ {0} /\ MinInterval \in Nat \ {0}
  /\ OfflineAfter \in Nat \ {0} /\ DedupMax \in Nat
  /\ MaxLag \in Nat \ {0}
  /\ Never \notin Nat

VARIABLES
  table,   \* alert_rules
  cache,   \* rules_cache
  hot,     \* servers whose last reported load is out of range
  silence, \* checks since a server's last report, up to OfflineAfter; Never
           \* for a server that has not reported to this process
  phase,   \* checks since the reload interval last fired
  checks, reloads, \* ticks of the two intervals not yet served
  dedup,   \* checks since the last firing, or Never
  fired,   \* the alerts the last step handed to the notifier
  quiet    \* history: checks since the last alert, up to MinInterval

vars == <<table, cache, hot, silence, phase, checks, reloads, dedup, fired, quiet>>

TypeOK ==
  /\ table \in [Rules -> RuleDef \cup {NoRule, Deleted}]
  /\ cache \in [Rules -> RuleDef \cup {NoRule}]
  /\ hot \in SUBSET Servers
  /\ silence \in [Servers -> 0..OfflineAfter \cup {Never}]
  /\ phase \in 0..(ReloadEvery - 1)
  /\ checks \in 0..MaxLag /\ reloads \in 0..MaxLag
  /\ dedup \in [Pairs -> 0..PurgeAge \cup {Never}]
  /\ fired \in SUBSET Pairs
  /\ quiet \in [Pairs -> 0..MinInterval]

-----------------------------------------------------------------------------
\* What reload_rules compiles: enabled rules with at least one known check.
Compiled(rule) ==
  IF rule \in RuleDef /\ rule.enabled /\ rule.checks # {} THEN rule ELSE NoRule

CompiledTable == [r \in Rules |-> Compiled(table[r])]
NoRules       == [r \in Rules |-> NoRule]

\* What reload_rules gets out of its SELECT: the enabled rules or, on any error,
\* no rows.  It asks sqlx for `enabled` as a bool, and migrations declare it
\* INTEGER, which the Any driver does not give as one: with SQLite an enabled
\* rule is such an error, and the cache stays empty.  A column that is given as
\* a bool, or is cast like those of state.rs:123, gives the rules.
Fetched == {CompiledTable, NoRules}

Offline(s) == silence[s] = OfflineAfter

\* The metrics of a server's snapshot that are out of range.
Bad(s) == {m \in Metrics : \/ m = "load" /\ s \in hot
                           \/ m = "offline" /\ Offline(s)}

\* A server without a snapshot (state is None) is not looked at.
Matched(rule, s) ==
  /\ rule # NoRule
  /\ silence[s] # Never
  /\ IF rule.all THEN rule.checks \subseteq Bad(s)
                 ELSE rule.checks \cap Bad(s) # {}

\* Deviation: nothing caps an age.
OlderUncapped(n, limit) == IF n = Never THEN Never ELSE n + 1

\* A number of checks, up to the last one any comparison tells apart.
Older(n, limit) == IF n = Never \/ n = limit THEN n ELSE n + 1


Init ==
  /\ table \in [Rules -> Defs \cup {NoRule}]
  /\ cache \in Fetched                           \* the first load
  /\ hot = {}
  /\ silence = [s \in Servers |-> Never]
  /\ phase = 0
  /\ checks = 1 /\ reloads = 1                   \* both intervals fire at once
  /\ dedup = [p \in Pairs |-> Never]
  /\ fired = {}
  /\ quiet = [p \in Pairs |-> MinInterval]

-----------------------------------------------------------------------------
\* 15 s pass.
Advance ==
  /\ checks < MaxLag /\ reloads < MaxLag
  /\ phase' = (phase + 1) % ReloadEvery
  /\ checks' = checks + 1
  /\ reloads' = IF phase' = 0 THEN reloads + 1 ELSE reloads
  /\ silence' = [s \in Servers |-> Older(silence[s], OfflineAfter)]
  /\ dedup' = [p \in Pairs |-> Older(dedup[p], PurgeAge)]
  /\ quiet' = [p \in Pairs |-> Older(quiet[p], MinInterval)]
  /\ fired' = {}
  /\ UNCHANGED <<table, cache, hot>>

\* Deviation: >= becomes >.
ShouldFireLate(p) ==
  Matched(cache[p[1]], p[2]) /\ (dedup[p] = Never \/ dedup[p] > PurgeAge)

\* The rule matches the server and the pair has not fired for min_interval.
ShouldFire(p) ==
  Matched(cache[p[1]], p[2]) /\ (dedup[p] = Never \/ dedup[p] >= MinInterval)

\* Deviation: a full table is cleared instead of losing its old entries.
Cleared(d) ==
  IF Cardinality({p \in Pairs : d[p] # Never}) > DedupMax
    THEN [p \in Pairs |-> Never]
    ELSE d

\* Above DedupMax entries, those older than three intervals are dropped.
Purged(d) ==
  IF Cardinality({p \in Pairs : d[p] # Never}) > DedupMax
    THEN [p \in Pairs |-> IF d[p] = PurgeAge THEN Never ELSE d[p]]
    ELSE d

\* check_all: returns at once without rules.
Check ==
  /\ checks > 0
  /\ checks' = checks - 1
  /\ IF \A r \in Rules : cache[r] = NoRule
       THEN /\ fired' = {}
            /\ UNCHANGED <<dedup, quiet>>
       ELSE /\ fired' = {p \in Pairs : ShouldFire(p)}
            /\ dedup' = Purged([p \in Pairs |-> IF p \in fired' THEN 0 ELSE dedup[p]])
            /\ quiet' = [p \in Pairs |-> IF p \in fired' THEN 0 ELSE quiet[p]]
  /\ UNCHANGED <<table, cache, hot, silence, phase, reloads>>

\* Deviation: a reload only adds what it finds.
ReloadAdding ==
  /\ reloads > 0
  /\ reloads' = reloads - 1
  /\ \E rules \in Fetched :
       cache' = [r \in Rules |-> IF rules[r] = NoRule THEN cache[r] ELSE rules[r]]
  /\ fired' = {}
  /\ UNCHANGED <<table, hot, silence, phase, checks, dedup, quiet>>

\* reload_rules: the cache is replaced.
Reload ==
  /\ reloads > 0
  /\ reloads' = reloads - 1
  /\ cache' \in Fetched
  /\ fired' = {}
  /\ UNCHANGED <<table, hot, silence, phase, checks, dedup, quiet>>

-----------------------------------------------------------------------------
\* One statement of create, update (a statement per field) or batch_delete.
EditRules ==
  /\ \E r \in Rules :
       \/ /\ table[r] = NoRule
          /\ \E d \in Defs : table' = [table EXCEPT ![r] = d]
       \/ /\ table[r] \in RuleDef
          /\ \/ \E b \in BOOLEAN : table' = [table EXCEPT ![r].enabled = b]
             \/ \E d \in Defs : table' = [table EXCEPT ![r].checks = d.checks]
             \/ table' = [table EXCEPT ![r] = Deleted]
  /\ fired' = {}
  /\ UNCHANGED <<cache, hot, silence, phase, checks, reloads, dedup, quiet>>

\* report_system_state: last_active and the metrics.
Report ==
  /\ \E s \in Servers :
       /\ silence' = [silence EXCEPT ![s] = 0]
       /\ hot' \in {hot \cup {s}, hot \ {s}}
  /\ fired' = {}
  /\ UNCHANGED <<table, cache, phase, checks, reloads, dedup, quiet>>

Next == Advance \/ Check \/ Reload \/ EditRules \/ Report

Spec == Init /\ [][Next]_vars

\* Time passes and the loop serves both intervals (select! picks a ready
\* branch at random, so neither waits for ever behind the other).
Fairness == WF_vars(Advance) /\ WF_vars(Check) /\ WF_vars(Reload)

FairSpec == Spec /\ Fairness

-----------------------------------------------------------------------------
(* alert.rs:71, "最小告警间隔（秒）": two alerts of a rule for a server are at   *)
(* least min_interval apart, in bursts of late ticks and when the table of *)
(* last firings is cleaned as well.                                        *)
MinIntervalKept ==
  [][\A p \in fired' : quiet[p] = MinInterval]_vars

(* The other half: a check alerts for every rule in the cache that a server *)
(* breaks and that was silent for min_interval.  The table of last firings *)
(* holds back no alert for longer, be it of a rule that left the cache and *)
(* came back.                                                              *)
NothingSuppressed ==
  [][Check => \A p \in Pairs :
       Matched(cache[p[1]], p[2]) /\ quiet[p] = MinInterval => p \in fired']_vars

(* A rule that was disabled, emptied or deleted stops alerting.            *)
RemovedRuleIsSilent ==
  \A r \in Rules, s \in Servers :
    <>[](Compiled(table[r]) = NoRule) => <>[](<<r, s>> \notin fired)
=============================================================================
