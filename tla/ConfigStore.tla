----------------------------- MODULE ConfigStore -----------------------------
(***************************************************************************)
(* The configuration: a YAML file, Config in memory behind a               *)
(* tokio::sync::RwLock, and the handlers that take its guards              *)
(* (config.rs, handlers/setting.rs, auth.rs and oauth2.rs, middleware.rs). *)
(*                                                                         *)
(*   start:  file -> environment -> missing keys -> save                   *)
(*   update: write guard -> memory -> save -> answer                       *)
(*   read:   read guard, answer                                            *)
(*   oauth:  read guard -> token request -> user-info request -> users     *)
(*           table -> answer                                               *)
(*                                                                         *)
(* A Config is its language, which the environment may override; its       *)
(* ignored_ip_notification text, standing for every other field of the     *)
(* settings form; and its two keys.  An empty string is NoKey or NoText.   *)
(* A key that load draws differs from those handed out before.             *)
(* The environment and the file are edited only while the dashboard is     *)
(* down.                                                                   *)
(***************************************************************************)
EXTENDS Naturals, Sequences

CONSTANTS
  Handlers,  \* bound: requests in flight
  Keys,      \* secret keys
  EnvKeys,   \* bound: those the operator may set in the environment
  NoKey,     \* an empty key
  Texts,     \* values of the form's field, as the server ids they list
  NoText,    \* its default
  Langs,     \* values of the language
  NoLang,    \* its default, "en_US"
  EnvLangs,  \* bound: those the operator may set in the environment
  Forms,     \* bound: the settings administrators and operators write
  Unset,     \* a variable that is not in the environment
  Absent,    \* no file
  Bad        \* a file serde_yaml refuses

ASSUME ConfigAssumption ==
  /\ EnvKeys \subseteq Keys /\ NoKey \notin Keys /\ Unset \notin Keys \cup {NoKey} \cup Langs
  /\ NoText \in Texts /\ NoLang \in Langs /\ EnvLangs \subseteq Langs
  /\ Forms \subseteq [lang : Langs, text : Texts]

Config ==
  [lang : Langs, text : Texts, agent : Keys \cup {NoKey}, jwt : Keys \cup {NoKey}]

ASSUME FileAssumption == Absent \notin Config /\ Bad \notin Config /\ Absent # Bad

DefaultConfig == [lang |-> NoLang, text |-> NoText, agent |-> NoKey, jwt |-> NoKey]

NoForm == [lang |-> NoLang, text |-> NoText]

Request == [kind : {"read", "oauth"}, form : {NoForm}] \cup [kind : {"update"}, form : Forms]

NoRequest == [kind |-> "none", form |-> NoForm]

VARIABLES
  file,     \* config.yaml
  env,      \* NZ_AGENT_SECRET_KEY
  envLang,  \* NZ_LANGUAGE
  up,       \* the process runs
  conf,     \* AppState.config
  ids,      \* its ignored_ip_notification_server_ids
  queue,    \* handlers waiting for the lock, first come first served
  holders,  \* handlers with a guard
  req,      \* the request of a handler
  stage,    \* where the handler is
  dirty,    \* history: the last save failed
  tokens,   \* history: jwt keys of the tokens users hold
  agents    \* history: agent keys administrators were given

memVars  == <<conf, ids>>
lockVars == <<queue, holders>>
owedVars == <<tokens, agents>>
vars     == <<file, env, envLang, up, memVars, lockVars, req, stage, dirty, owedVars>>

Awaiting == {"token", "userinfo"}
Finished == {"done", "failed"}

TypeOK ==
  /\ file \in Config \cup {Absent, Bad}
  /\ env \in EnvKeys \cup {NoKey, Unset} /\ envLang \in EnvLangs \cup {Unset}
  /\ up \in BOOLEAN /\ dirty \in BOOLEAN
  /\ conf \in Config /\ ids \in Texts
  /\ queue \in Seq(Handlers) /\ holders \subseteq Handlers
  /\ req \in [Handlers -> Request \cup {NoRequest}]
  /\ stage \in [Handlers -> Finished \cup Awaiting \cup {"queued", "database", "saving"}]
  /\ tokens \subseteq Keys /\ agents \subseteq Keys

Init ==
  /\ file = Absent
  /\ env \in EnvKeys \cup {NoKey, Unset} /\ envLang \in EnvLangs \cup {Unset}
  /\ up = FALSE /\ dirty = FALSE
  /\ conf = DefaultConfig /\ ids = NoText
  /\ queue = <<>> /\ holders = {}
  /\ req = [h \in Handlers |-> NoRequest] /\ stage = [h \in Handlers |-> "done"]
  /\ tokens = {} /\ agents = {}

-----------------------------------------------------------------------------
(* Saving: fs::write truncates the file and writes the fields in their order. *)

\* What the file may hold when the write is cut short: a prefix that may
\* still parse, one field mangled, those after it at their defaults.
Torn(c) ==
  {Bad}
    \cup {[DefaultConfig EXCEPT !.lang = l] : l \in Langs}
    \cup {[DefaultConfig EXCEPT !.lang = c.lang, !.text = t] : t \in Texts}
    \cup {[c EXCEPT !.agent = k, !.jwt = NoKey] : k \in Keys \cup {NoKey}}
    \cup {[c EXCEPT !.jwt = k] : k \in Keys}

\* The outcomes of save: done, refused before the file is touched, cut short.
Saved(c) == [file : {c}, failed : {FALSE}]
Unsaved(c) == [file : {file} \cup Torn(c), failed : {TRUE}]
Save(c) ==
  \E s \in Saved(c) \cup Unsaved(c) : file' = s.file /\ dirty' = s.failed

-----------------------------------------------------------------------------
(* The process.                                                            *)

\* Deviation: The variables are read without asking whether they are set.
OverriddenUnset(f) ==
  [(IF f = Absent THEN DefaultConfig ELSE f) EXCEPT !.lang = envLang, !.agent = env]

\* What load reads: the file over the defaults, the environment over both.
Overridden(f) ==
  [(IF f = Absent THEN DefaultConfig ELSE f) EXCEPT
     !.lang  = IF envLang = Unset THEN @ ELSE envLang,
     !.agent = IF env = Unset THEN @ ELSE env]

NeedSave(c) == c.agent = NoKey \/ c.jwt = NoKey

\* Deviation: load draws a new jwt key at every start.
CompletedAnew(c, k, l) ==
  [c EXCEPT !.agent = IF @ = NoKey THEN k ELSE @, !.jwt = l]

\* load fills in empty keys.
Completed(c, k, l) ==
  [c EXCEPT !.agent = IF @ = NoKey THEN k ELSE @, !.jwt = IF @ = NoKey THEN l ELSE @]

\* main loads the configuration; a failing save only warns.  The parsed ids
\* are computed here and nowhere else.
Start ==
  /\ ~up /\ file # Bad
  /\ LET c == Overridden(file)
     IN  \E k \in Keys \ agents, l \in Keys \ tokens :
           /\ conf' = Completed(c, k, l)
           /\ IF NeedSave(c) THEN Save(conf') ELSE dirty' = FALSE /\ UNCHANGED file
  /\ ids' = conf'.text
  /\ up' = TRUE
  /\ UNCHANGED <<env, envLang, lockVars, req, stage, owedVars>>

\* The process ends.  What was not saved is forgiven, and so is the agent key
\* under an empty variable, which makes every start draw a new one.
Crash ==
  /\ up
  /\ up' = FALSE /\ conf' = DefaultConfig /\ ids' = NoText
  /\ queue' = <<>> /\ holders' = {}
  /\ req' = [h \in Handlers |-> NoRequest] /\ stage' = [h \in Handlers |-> "done"]
  /\ tokens' = IF dirty THEN {} ELSE tokens
  /\ agents' = IF dirty \/ env = NoKey THEN {} ELSE agents
  /\ dirty' = FALSE
  /\ UNCHANGED <<file, env, envLang>>

Keyless(form) == [DefaultConfig EXCEPT !.lang = form.lang, !.text = form.text]

\* The operator removes the file, writes one without keys, or drops its agent
\* key to have a new one.
EditFile ==
  /\ ~up
  /\ \/ /\ file' \in {Absent} \cup {Keyless(f) : f \in Forms}
        /\ tokens' = {}
     \/ /\ file \in Config /\ file' = [file EXCEPT !.agent = NoKey]
        /\ UNCHANGED tokens
  /\ agents' = {}
  /\ UNCHANGED <<env, envLang, up, memVars, lockVars, req, stage, dirty>>

\* The operator changes NZ_AGENT_SECRET_KEY or NZ_LANGUAGE.
EditEnv ==
  /\ ~up
  /\ \/ env' \in EnvKeys \cup {NoKey, Unset} /\ agents' = {} /\ UNCHANGED envLang
     \/ envLang' \in EnvLangs \cup {Unset} /\ UNCHANGED <<env, agents>>
  /\ UNCHANGED <<file, up, memVars, lockVars, req, stage, dirty, tokens>>

-----------------------------------------------------------------------------
(* The lock.                                                               *)

WriteHeld == \E h \in holders : req[h].kind = "update"

\* Deviation: Readers do not queue behind a waiting writer.
AdmittedReadersFirst(h) ==
  /\ up /\ queue # <<>> /\ \E i \in 1..Len(queue) : queue[i] = h
  /\ IF req[h].kind = "update" THEN holders = {} /\ Head(queue) = h ELSE ~WriteHeld

\* The semaphore of tokio's RwLock serves its queue in order.
Admitted(h) ==
  /\ up /\ queue # <<>> /\ Head(queue) = h
  /\ IF req[h].kind = "update" THEN holders = {} ELSE ~WriteHeld

\* The queue after h has left it: a handler is in it at most once.
Without(h) ==
  LET Places == {i \in 1..Len(queue) : queue[i] = h}
      n      == CHOOSE i \in Places : TRUE
  IN  IF Places = {} THEN queue
      ELSE SubSeq(queue, 1, n - 1) \o SubSeq(queue, n + 1, Len(queue))

\* A handler asks for its guard.
Arrive(h) ==
  /\ up /\ stage[h] \in Finished
  /\ \E r \in Request : req' = [req EXCEPT ![h] = r]
  /\ stage' = [stage EXCEPT ![h] = "queued"]
  /\ queue' = Append(queue, h)
  /\ UNCHANGED <<file, env, envLang, up, memVars, holders, dirty, owedVars>>

\* The handler ends and its guard is dropped.
Finish(h, how) ==
  /\ stage' = [stage EXCEPT ![h] = how]
  /\ req' = [req EXCEPT ![h] = NoRequest]
  /\ holders' = holders \ {h}

\* The client of a handler that waits is gone, and the future is dropped.
Cancel(h) ==
  /\ up /\ stage[h] \in Awaiting \cup {"queued", "database"}
  /\ Finish(h, "done") /\ queue' = Without(h)
  /\ UNCHANGED <<file, env, envLang, up, memVars, dirty, owedVars>>

-----------------------------------------------------------------------------
(* The handlers.                                                           *)

\* login and refresh_token sign with the key, get_profile and the two
\* get_config hand out the agent key, the middleware and check_auth compare:
\* no await under the guard.
Answer(h) ==
  /\ Admitted(h) /\ req[h].kind = "read"
  /\ \/ tokens' = tokens \cup {conf.jwt} /\ UNCHANGED agents
     \/ agents' = agents \cup {conf.agent} /\ UNCHANGED tokens
     \/ UNCHANGED owedVars
  /\ queue' = Without(h) /\ Finish(h, "done")
  /\ UNCHANGED <<file, env, envLang, up, memVars, dirty>>

\* Deviation: The write guard is dropped before the save.
ApplyAndRelease(h) ==
  /\ Admitted(h) /\ req[h].kind = "update"
  /\ conf' = [conf EXCEPT !.lang = req[h].form.lang, !.text = req[h].form.text]
  /\ queue' = Without(h)
  /\ stage' = [stage EXCEPT ![h] = "saving"]
  /\ UNCHANGED <<file, env, envLang, up, ids, holders, req, dirty, owedVars>>

\* update_config changes Config in memory and begins to save.
Apply(h) ==
  /\ Admitted(h) /\ req[h].kind = "update"
  /\ conf' = [conf EXCEPT !.lang = req[h].form.lang, !.text = req[h].form.text]
  /\ queue' = Without(h) /\ holders' = holders \cup {h}
  /\ stage' = [stage EXCEPT ![h] = "saving"]
  /\ UNCHANGED <<file, env, envLang, up, ids, req, dirty, owedVars>>

\* The save ends, well or not, and the write guard is dropped.
UpdateSave(h) ==
  /\ up /\ stage[h] = "saving"
  /\ Save(conf)
  /\ Finish(h, IF dirty' THEN "failed" ELSE "done")
  /\ UNCHANGED <<env, envLang, up, memVars, queue, owedVars>>

\* The OAuth callback takes its guard and sends the token request.
OauthBegin(h) ==
  /\ Admitted(h) /\ req[h].kind = "oauth"
  /\ queue' = Without(h) /\ holders' = holders \cup {h}
  /\ stage' = [stage EXCEPT ![h] = "token"]
  /\ UNCHANGED <<file, env, envLang, up, memVars, req, dirty, owedVars>>

\* The provider answers; the callback asks for the user, then has its id.
OauthAnswer(h) ==
  /\ up /\ stage[h] \in Awaiting
  /\ stage' = [stage EXCEPT ![h] = IF @ = "token" THEN "userinfo" ELSE "database"]
  /\ UNCHANGED <<file, env, envLang, up, memVars, lockVars, req, dirty, owedVars>>

\* The provider, or the connection to it, answers with an error.
OauthRefused(h) ==
  /\ up /\ stage[h] \in Awaiting
  /\ Finish(h, "failed")
  /\ UNCHANGED <<file, env, envLang, up, memVars, queue, dirty, owedVars>>

UserColumns ==
  {"id", "created_at", "updated_at", "username", "password", "role", "agent_secret"}

\* Those the callback's SELECT and INSERT name.
OauthColumns ==
  {"id", "created_at", "updated_at", "username", "password", "role", "oauth_id"}

\* A statement that names a column the table lacks is an error, so the user is
\* neither found nor inserted.
OauthDatabase(h) ==
  /\ up /\ stage[h] = "database"
  /\ IF OauthColumns \subseteq UserColumns
     THEN tokens' = tokens \cup {conf.jwt} /\ Finish(h, "done")
     ELSE UNCHANGED tokens /\ Finish(h, "failed")
  /\ UNCHANGED <<file, env, envLang, up, memVars, queue, dirty, agents>>

-----------------------------------------------------------------------------
HandlerStep(h) == Answer(h) \/ Apply(h) \/ UpdateSave(h) \/ OauthBegin(h) \/ OauthDatabase(h)
Provider(h)    == OauthAnswer(h) \/ OauthRefused(h)

Next ==
  \/ Start \/ Crash \/ EditFile \/ EditEnv
  \/ \E h \in Handlers :
       Arrive(h) \/ Cancel(h) \/ HandlerStep(h) \/ Provider(h)

Spec == Init /\ [][Next]_vars

\* Runtime threads run the handlers that are ready; nothing obliges a client
\* or a provider, and reqwest::Client::new() sets no timeout.
FairSpec == Spec /\ \A h \in Handlers : WF_vars(HandlerStep(h))

-----------------------------------------------------------------------------
(* Safety.                                                                 *)

\* After load neither key is empty: an empty NZ_AGENT_SECRET_KEY or a file cut
\* before its keys never lets an agent in, or signs a token, with "".
KeysPresent == up => conf.agent # NoKey /\ conf.jwt # NoKey

\* The configuration, in the language NZ_LANGUAGE sets.
WithEnvLang(c) == [c EXCEPT !.lang = IF envLang = Unset THEN @ ELSE envLang]

\* Whoever can read the configuration reads what a restart would load: load,
\* the environment override and update_config leave file and memory in step,
\* unless the last save failed or NZ_AGENT_SECRET_KEY is set and empty.  The
\* language is the exception: the form changes it although NZ_LANGUAGE is set,
\* and the restart is back at the variable's.
RestartKeepsSettings ==
  up /\ ~WriteHeld /\ ~dirty /\ env # NoKey
    => /\ file \notin {Absent, Bad}
       /\ Overridden(file) = WithEnvLang(conf)

\* Across crashes, restarts, saves and settings changes a token stays valid and
\* an installed agent stays admitted, unless a save failed or the operator
\* replaced the keys.
KeysSurvive ==
  up => tokens \subseteq {conf.jwt} /\ agents \subseteq {conf.agent}

-----------------------------------------------------------------------------
(* Liveness.                                                               *)

\* If every callback's provider answers in the end, every handler that waits
\* for the lock gets it: an update cannot be starved by readers, nor agents by
\* updates.
LockServed ==
  (\A h \in Handlers : []<>(stage[h] \notin Awaiting))
    => \A h \in Handlers : stage[h] = "queued" ~> stage[h] # "queued"

=============================================================================
