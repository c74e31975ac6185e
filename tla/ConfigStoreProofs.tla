-------------------------- MODULE ConfigStoreProofs --------------------------
(***************************************************************************)
(* File and memory stay in step and keys outlive restarts, for any number  *)
(* of handlers, keys and texts.  What the invariants say of a running      *)
(* process has a counterpart for one that is down, in terms of the file    *)
(* alone: the next start finds there what was promised.                    *)
(*                                                                         *)
(* The second part is about the lock: its queue holds who waits, once, in  *)
(* the order they came, a write guard is the only guard, and nobody that   *)
(* has a guard waits for another.                                          *)
(***************************************************************************)
EXTENDS ConfigStore, SequenceTheorems, TLAPS

USE ConfigAssumption, FileAssumption

(* The part of the state the configuration is about.                       *)
Shape ==
  /\ file \in Config \cup {Absent, Bad} /\ conf \in Config
  /\ env \in Keys \cup {NoKey, Unset} /\ envLang \in Langs \cup {Unset}
  /\ up \in BOOLEAN /\ dirty \in BOOLEAN
  /\ tokens \subseteq Keys /\ agents \subseteq Keys

(* Only a handler that saves has a write guard, and one that ended none.   *)
GuardsMatchStages ==
  \A h \in Handlers :
    /\ h \in holders /\ req[h].kind = "update" => stage[h] = "saving"
    /\ stage[h] = "saving" => req[h].kind = "update"
    /\ stage[h] \in Finished => h \notin holders

HandlersTyped ==
  /\ holders \subseteq Handlers
  /\ req \in [Handlers -> Request \cup {NoRequest}]
  /\ stage \in [Handlers -> Finished \cup Awaiting \cup {"queued", "database", "saving"}]

(* The environment rules over the agent key.                               *)
EnvApplied == up /\ env \in Keys => conf.agent = env

(* The keys a restart would find are those in memory, write guard or not.  *)
FileHasKeys ==
  up /\ ~dirty /\ env # NoKey =>
    /\ file \in Config
    /\ file.jwt = conf.jwt /\ Overridden(file).agent = conf.agent

JwtKeyInFile == up /\ ~dirty => file \in Config /\ file.jwt = conf.jwt

(* While the process is down the file keeps what is owed.                  *)
OwedInFile ==
  ~up => /\ ~dirty
         /\ \A k \in tokens : file \in Config /\ file.jwt = k
         /\ \A k \in agents : file \in Config /\ Overridden(file).agent = k

IInv ==
  /\ Shape /\ HandlersTyped /\ GuardsMatchStages
  /\ KeysPresent /\ EnvApplied /\ FileHasKeys /\ JwtKeyInFile /\ OwedInFile
  /\ RestartKeepsSettings /\ KeysSurvive

-----------------------------------------------------------------------------
(* What load computes.                                                     *)

LEMMA OverriddenFields ==
  ASSUME Shape, file # Bad
  PROVE  /\ Overridden(file) \in Config
         /\ env # Unset => Overridden(file).agent = env
         /\ envLang # Unset => Overridden(file).lang = envLang
         /\ file \in Config => /\ Overridden(file).jwt = file.jwt
                               /\ Overridden(file).text = file.text
                               /\ env = Unset => Overridden(file).agent = file.agent
         /\ file = Absent => Overridden(file).jwt = NoKey
<1> DEFINE c == IF file = Absent THEN DefaultConfig ELSE file
           l == IF envLang = Unset THEN c.lang ELSE envLang
           a == IF env = Unset THEN c.agent ELSE env
           d == [c EXCEPT !.lang = l, !.agent = a]
<1>1. c \in Config /\ (file \in Config => c = file) /\ (file = Absent => c.jwt = NoKey)
  BY DEF DefaultConfig, Config, Shape
<1>2. Overridden(file) = d
  BY DEF Overridden
<1> HIDE DEF c
<1>3. l \in Langs /\ a \in Keys \cup {NoKey}
  BY <1>1 DEF Config, Shape
<1> HIDE DEF l, a
<1>4. /\ d \in Config /\ d.lang = l /\ d.agent = a
      /\ d.jwt = c.jwt /\ d.text = c.text
  BY <1>1, <1>3 DEF Config
<1> HIDE DEF d
<1> QED
  BY <1>1, <1>2, <1>4 DEF l, a

LEMMA CompletedFields ==
  ASSUME NEW c \in Config, NEW k \in Keys, NEW l \in Keys
  PROVE  /\ Completed(c, k, l) \in Config
         /\ Completed(c, k, l).lang = c.lang /\ Completed(c, k, l).text = c.text
         /\ Completed(c, k, l).agent = IF c.agent = NoKey THEN k ELSE c.agent
         /\ Completed(c, k, l).jwt = IF c.jwt = NoKey THEN l ELSE c.jwt
  BY DEF Completed, Config

LEMMA SameFields ==
  ASSUME NEW c \in Config, NEW d \in Config,
         c.lang = d.lang, c.text = d.text, c.agent = d.agent, c.jwt = d.jwt
  PROVE  c = d
  BY DEF Config

(* What a save leaves in the file.                                         *)
LEMMA SaveOutcome ==
  ASSUME Shape, NEW c \in Config, Save(c)
  PROVE  /\ file' \in Config \cup {Absent, Bad} /\ dirty' \in BOOLEAN
         /\ ~dirty' => file' = c
<1>1. PICK s \in Saved(c) \cup Unsaved(c) : file' = s.file /\ dirty' = s.failed
  BY DEF Save
<1>2. Torn(c) \subseteq Config \cup {Bad}
  <2>1. \A l \in Langs : [DefaultConfig EXCEPT !.lang = l] \in Config
    BY DEF Config, DefaultConfig
  <2>2. \A t \in Texts : [DefaultConfig EXCEPT !.lang = c.lang, !.text = t] \in Config
    BY DEF Config, DefaultConfig
  <2>3. \A k \in Keys \cup {NoKey} : [c EXCEPT !.agent = k, !.jwt = NoKey] \in Config
    BY DEF Config
  <2>4. \A k \in Keys : [c EXCEPT !.jwt = k] \in Config
    BY DEF Config
  <2> QED
    BY <2>1, <2>2, <2>3, <2>4 DEF Torn
<1>3. CASE s \in Saved(c)
  BY <1>1, <1>3 DEF Saved
<1>4. CASE s \in Unsaved(c)
  BY <1>1, <1>2, <1>4 DEF Unsaved, Shape
<1> QED
  BY <1>1, <1>3, <1>4

(* A saved configuration is what the next load reads, in the language of   *)
(* the environment.                                                        *)
LEMMA SavedIsLoaded ==
  ASSUME NEW c \in Config, NEW e \in Keys \cup {NoKey, Unset},
         e # NoKey, e \in Keys => c.agent = e,
         env = e, envLang \in Langs \cup {Unset}
  PROVE  Overridden(c) = WithEnvLang(c)
<1> DEFINE l == IF envLang = Unset THEN c.lang ELSE envLang
           d == [c EXCEPT !.lang = l]
<1>1. c # Absent /\ (IF env = Unset THEN c.agent ELSE env) = c.agent
  OBVIOUS
<1>2. Overridden(c) = [c EXCEPT !.lang = l, !.agent = c.agent] /\ WithEnvLang(c) = d
  BY <1>1 DEF Overridden, WithEnvLang
<1> HIDE DEF l
<1>3. [c EXCEPT !.lang = l, !.agent = c.agent] = d
  BY DEF Config
<1> QED
  BY <1>2, <1>3

(* The language of the environment changes nothing a second time.          *)
LEMMA EnvLangStays ==
  ASSUME NEW c \in Config, envLang # Unset => c.lang = envLang
  PROVE  WithEnvLang(c) = c
<1> DEFINE d == [c EXCEPT !.lang = IF envLang = Unset THEN c.lang ELSE envLang]
<1>1. d = c
  BY DEF Config
<1> QED
  BY <1>1 DEF WithEnvLang

-----------------------------------------------------------------------------
(* The invariant is inductive.                                             *)

LEMMA InitEstablishesIInv == Init => IInv
<1> SUFFICES ASSUME Init PROVE IInv
  OBVIOUS
<1>1. DefaultConfig \in Config
  BY DEF DefaultConfig, Config
<1>2. Shape /\ HandlersTyped
  BY <1>1 DEF Init, Shape, HandlersTyped, Finished
<1> QED
  BY <1>2 DEF Init, IInv, GuardsMatchStages, KeysPresent, EnvApplied, FileHasKeys,
              JwtKeyInFile, OwedInFile, RestartKeepsSettings, KeysSurvive

(* A step of a handler that leaves file and memory alone and drops no      *)
(* write guard but its own.                                                *)
LEMMA QuietStep ==
  ASSUME IInv, HandlersTyped', GuardsMatchStages',
         UNCHANGED <<file, env, envLang, up, conf, dirty>>,
         tokens' \subseteq tokens \cup {conf.jwt},
         agents' \subseteq agents \cup {conf.agent},
         (tokens' = tokens /\ agents' = agents) \/ up,
         WriteHeld => WriteHeld'
  PROVE  IInv'
<1>1. Shape'
  <2>1. up => conf.jwt \in Keys /\ conf.agent \in Keys
    BY DEF IInv, Shape, KeysPresent, Config
  <2> QED
    BY <2>1 DEF IInv, Shape
<1>2. Overridden(file)' = Overridden(file) /\ WithEnvLang(conf)' = WithEnvLang(conf)
  BY DEF Overridden, WithEnvLang
<1>3. KeysPresent' /\ EnvApplied' /\ FileHasKeys' /\ JwtKeyInFile' /\ OwedInFile'
  BY <1>2 DEF IInv, KeysPresent, EnvApplied, FileHasKeys, JwtKeyInFile, OwedInFile
<1>4. RestartKeepsSettings'
  BY <1>2 DEF IInv, RestartKeepsSettings
<1>5. KeysSurvive'
  BY DEF IInv, KeysSurvive
<1> QED
  BY <1>1, <1>3, <1>4, <1>5 DEF IInv

(* A handler that does not save may end, wait or go on.                    *)
LEMMA HandlerMoves ==
  ASSUME IInv, NEW h \in Handlers, stage[h] # "saving", stage'[h] # "saving",
         \A g \in Handlers \ {h} : stage'[g] = stage[g] /\ req'[g] = req[g],
         \A g \in Handlers \ {h} : g \in holders' <=> g \in holders,
         h \in holders' => req'[h].kind # "update" /\ stage'[h] \notin Finished
  PROVE  GuardsMatchStages' /\ (WriteHeld => WriteHeld')
<1>1. GuardsMatchStages'
  BY DEF IInv, GuardsMatchStages
<1>2. WriteHeld => WriteHeld'
  BY DEF IInv, GuardsMatchStages, HandlersTyped, WriteHeld
<1> QED
  BY <1>1, <1>2

(* load: what it puts in memory is what the file holds or was owed.        *)
LEMMA StartPreserves == ASSUME IInv, Start PROVE IInv'
<1> DEFINE c == Overridden(file)
<1>1. PICK k \in Keys \ agents, l \in Keys \ tokens :
        /\ conf' = Completed(c, k, l)
        /\ IF NeedSave(c) THEN Save(conf') ELSE dirty' = FALSE /\ UNCHANGED file
  BY DEF Start
<1>2. /\ ~up /\ file # Bad /\ up' = TRUE
      /\ UNCHANGED <<env, envLang, queue, holders, req, stage, tokens, agents>>
  BY DEF Start, lockVars, owedVars
<1>3. Shape
  BY DEF IInv
<1>4. /\ c \in Config
      /\ env # Unset => c.agent = env
      /\ envLang # Unset => c.lang = envLang
      /\ file \in Config => c.jwt = file.jwt /\ c.text = file.text
      /\ file = Absent => c.jwt = NoKey
  BY <1>2, <1>3, OverriddenFields
<1> HIDE DEF c
<1>5. /\ conf' \in Config /\ conf'.lang = c.lang /\ conf'.text = c.text
      /\ conf'.agent = IF c.agent = NoKey THEN k ELSE c.agent
      /\ conf'.jwt = IF c.jwt = NoKey THEN l ELSE c.jwt
  BY <1>1, <1>4, CompletedFields
<1>6. /\ file' \in Config \cup {Absent, Bad} /\ dirty' \in BOOLEAN
      /\ NeedSave(c) /\ ~dirty' => file' = conf'
      /\ ~NeedSave(c) => file' = file /\ file \in Config /\ conf' = c
  <2>1. CASE NeedSave(c)
    BY <1>1, <1>3, <1>5, <2>1, SaveOutcome
  <2>2. CASE ~NeedSave(c)
    <3>1. file' = file /\ dirty' = FALSE
      BY <1>1, <2>2
    <3>2. c.agent # NoKey /\ c.jwt # NoKey
      BY <2>2 DEF NeedSave
    <3>3. file \in Config
      BY <1>2, <1>3, <1>4, <3>2 DEF Shape
    <3>4. conf' = c
      BY <1>4, <1>5, <3>2, SameFields
    <3> QED
      BY <2>2, <3>1, <3>3, <3>4
  <2> QED
    BY <2>1, <2>2
<1>7. Shape'
  BY <1>2, <1>3, <1>5, <1>6 DEF Shape
<1>8. HandlersTyped' /\ GuardsMatchStages'
  BY <1>2 DEF IInv, HandlersTyped, GuardsMatchStages
<1>9. KeysPresent'
  BY <1>1, <1>5 DEF KeysPresent
<1>10. env \in Keys => conf'.agent = env
  BY <1>4, <1>5
<1>11. EnvApplied'
  BY <1>2, <1>10 DEF EnvApplied
<1>12. ~dirty' => file' \in Config /\ file'.jwt = conf'.jwt
  BY <1>4, <1>5, <1>6
<1>12a. WithEnvLang(conf)' = conf'
  <2>1. WithEnvLang(conf') = conf'
    BY <1>4, <1>5, EnvLangStays
  <2> QED
    BY <1>2, <2>1 DEF WithEnvLang
<1>13. ~dirty' /\ env # NoKey => Overridden(file)' = conf'
  <2> SUFFICES ASSUME ~dirty', env # NoKey PROVE Overridden(file)' = conf'
    OBVIOUS
  <2>1. CASE NeedSave(c)
    <3>1. file' = conf'
      BY <1>6, <2>1
    <3>2. Overridden(conf') = WithEnvLang(conf')
      BY <1>3, <1>5, <1>10, SavedIsLoaded DEF Shape
    <3>3. Overridden(file)' = Overridden(conf')
      BY <1>2, <3>1 DEF Overridden
    <3>4. WithEnvLang(conf') = conf'
      BY <1>4, <1>5, EnvLangStays
    <3> QED
      BY <3>2, <3>3, <3>4
  <2>2. CASE ~NeedSave(c)
    <3>1. Overridden(file)' = Overridden(file)
      BY <1>2, <1>6, <2>2 DEF Overridden
    <3> QED
      BY <1>6, <2>2, <3>1 DEF c
  <2> QED
    BY <2>1, <2>2
<1>14. FileHasKeys' /\ JwtKeyInFile' /\ OwedInFile'
  BY <1>2, <1>12, <1>13 DEF FileHasKeys, JwtKeyInFile, OwedInFile
<1>15. RestartKeepsSettings'
  BY <1>2, <1>3, <1>12, <1>13, <1>12a DEF RestartKeepsSettings
<1>16. KeysSurvive'
  <2>1. ASSUME NEW t \in tokens PROVE t = conf'.jwt
    BY <1>2, <1>3, <1>4, <1>5, <2>1 DEF IInv, OwedInFile, Shape
  <2>2. ASSUME NEW t \in agents PROVE t = conf'.agent
    BY <1>2, <1>3, <1>4, <1>5, <2>2 DEF IInv, OwedInFile, Shape, c
  <2> QED
    BY <1>2, <2>1, <2>2 DEF KeysSurvive
<1> QED
  BY <1>7, <1>8, <1>9, <1>11, <1>14, <1>15, <1>16 DEF IInv

(* The end of the process, and the operator's edits while it is down.      *)
LEMMA CrashPreserves == ASSUME IInv, Crash PROVE IInv'
<1>1. DefaultConfig \in Config
  BY DEF DefaultConfig, Config
<1>2. Overridden(file)' = Overridden(file)
  BY DEF Crash, Overridden
<1>3. OwedInFile'
  <2>1. dirty => tokens' = {} /\ agents' = {}
    BY DEF Crash
  <2>2. ~dirty => \A k \in tokens' : file \in Config /\ file.jwt = k
    BY DEF Crash, IInv, JwtKeyInFile, KeysSurvive
  <2>3. ~dirty => \A k \in agents' : file \in Config /\ Overridden(file).agent = k
    BY DEF Crash, IInv, FileHasKeys, KeysSurvive
  <2> QED
    BY <1>2, <2>1, <2>2, <2>3 DEF Crash, OwedInFile
<1>4. Shape' /\ HandlersTyped' /\ GuardsMatchStages'
  BY <1>1 DEF Crash, IInv, Shape, HandlersTyped, GuardsMatchStages, Finished
<1>5. ~up'
  BY DEF Crash
<1> QED
  BY <1>3, <1>4, <1>5 DEF IInv, KeysPresent, EnvApplied, FileHasKeys, JwtKeyInFile,
     RestartKeepsSettings, KeysSurvive

LEMMA EditPreserves == ASSUME IInv, EditFile \/ EditEnv PROVE IInv'
<1>1. /\ ~up /\ ~up' /\ UNCHANGED <<conf, dirty, holders, req, stage>>
      /\ agents' = {} \/ (agents' = agents /\ file' = file /\ env' = env)
  BY DEF EditFile, EditEnv, memVars, lockVars
<1>2. Shape'
  <2>1. CASE EditEnv
    BY <2>1 DEF EditEnv, IInv, Shape, memVars
  <2>2. CASE EditFile
    <3>1. CASE file \in Config /\ file' = [file EXCEPT !.agent = NoKey] /\ UNCHANGED tokens
      <4>1. file' \in Config
        BY <3>1 DEF Config
      <4> QED
        BY <1>1, <2>2, <3>1, <4>1 DEF EditFile, IInv, Shape
    <3>2. CASE file' \in {Absent} \cup {Keyless(f) : f \in Forms} /\ tokens' = {}
      <4>1. file' \in Config \cup {Absent}
        BY <3>2 DEF Config, Keyless, DefaultConfig
      <4> QED
        BY <1>1, <2>2, <3>2, <4>1 DEF EditFile, IInv, Shape
    <3> QED
      BY <2>2, <3>1, <3>2 DEF EditFile
  <2> QED
    BY <2>1, <2>2
<1>3. OwedInFile'
  <2>1. \A k \in tokens' : file' \in Config /\ file'.jwt = k
    <3>1. CASE EditEnv
      BY <1>1, <3>1 DEF EditEnv, IInv, OwedInFile
    <3>2. CASE EditFile /\ tokens' = {}
      BY <3>2
    <3>3. CASE EditFile /\ tokens' # {}
      <4>1. file \in Config /\ file' = [file EXCEPT !.agent = NoKey] /\ tokens' = tokens
        BY <3>3 DEF EditFile
      <4>2. file' \in Config /\ file'.jwt = file.jwt
        BY <4>1 DEF Config
      <4> QED
        BY <1>1, <4>1, <4>2 DEF IInv, OwedInFile
    <3> QED
      BY <3>1, <3>2, <3>3
  <2>2. \A k \in agents' : file' \in Config /\ Overridden(file)'.agent = k
    <3> SUFFICES ASSUME NEW k \in agents', agents' = agents, file' = file, env' = env
                 PROVE  file' \in Config /\ Overridden(file)'.agent = k
      BY <1>1
    <3>1. file \in Config /\ Overridden(file).agent = k
      BY <1>1 DEF IInv, OwedInFile
    <3>2. /\ Shape /\ Shape' /\ file # Bad /\ file' # Bad
      BY <1>2, <3>1 DEF IInv
    <3>3. Overridden(file).agent = IF env = Unset THEN file.agent ELSE env
      BY <3>1, <3>2, OverriddenFields
    <3>4. Overridden(file)'.agent = IF env = Unset THEN file.agent ELSE env
      BY <3>1 DEF Overridden, Config
    <3> QED
      BY <3>1, <3>3, <3>4
  <2> QED
    BY <1>1, <2>1, <2>2 DEF IInv, OwedInFile
<1>4. HandlersTyped' /\ GuardsMatchStages'
  BY <1>1 DEF IInv, HandlersTyped, GuardsMatchStages
<1> QED
  BY <1>1, <1>2, <1>3, <1>4 DEF IInv, KeysPresent, EnvApplied, FileHasKeys, JwtKeyInFile,
     RestartKeepsSettings, KeysSurvive

-----------------------------------------------------------------------------
(* The handlers.                                                           *)

LEMMA ArrivePreserves == ASSUME IInv, NEW h \in Handlers, Arrive(h) PROVE IInv'
<1>1. PICK r \in Request : req' = [req EXCEPT ![h] = r]
  BY DEF Arrive
<1>2. UNCHANGED <<file, env, envLang, up, conf, dirty, tokens, agents, holders>>
  BY DEF Arrive, memVars, owedVars
<1>3. stage' = [stage EXCEPT ![h] = "queued"] /\ stage[h] # "saving" /\ h \notin holders
  BY DEF Arrive, Finished, IInv, GuardsMatchStages
<1>4. /\ HandlersTyped' /\ stage'[h] = "queued"
      /\ \A g \in Handlers \ {h} : stage'[g] = stage[g] /\ req'[g] = req[g]
  BY <1>1, <1>2, <1>3 DEF IInv, HandlersTyped
<1>5. GuardsMatchStages' /\ (WriteHeld => WriteHeld')
  BY <1>2, <1>3, <1>4, HandlerMoves
<1> QED
  BY <1>2, <1>4, <1>5, QuietStep

(* A handler that has not begun to save ends.                              *)
LEMMA FinishPreserves ==
  ASSUME IInv, NEW h \in Handlers, stage[h] # "saving",
         NEW how \in Finished, Finish(h, how),
         UNCHANGED <<file, env, envLang, up, conf, dirty>>,
         tokens' \subseteq tokens \cup {conf.jwt},
         agents' \subseteq agents \cup {conf.agent},
         (tokens' = tokens /\ agents' = agents) \/ up
  PROVE  IInv'
<1>1. /\ HandlersTyped' /\ stage'[h] = how /\ how # "saving" /\ holders' = holders \ {h}
      /\ \A g \in Handlers \ {h} : stage'[g] = stage[g] /\ req'[g] = req[g]
  BY DEF Finish, IInv, HandlersTyped, Finished
<1>2. GuardsMatchStages' /\ (WriteHeld => WriteHeld')
  BY <1>1, HandlerMoves
<1> QED
  BY <1>1, <1>2, QuietStep

LEMMA EndPreserves ==
  ASSUME IInv, NEW h \in Handlers,
         Cancel(h) \/ OauthRefused(h) \/ OauthDatabase(h) \/ Answer(h)
  PROVE  IInv'
<1>1. CASE Cancel(h)
  BY <1>1, FinishPreserves DEF Cancel, memVars, owedVars, Awaiting, Finished
<1>2. CASE OauthRefused(h)
  BY <1>2, FinishPreserves DEF OauthRefused, memVars, owedVars, Awaiting, Finished
<1>3. CASE OauthDatabase(h)
  <2>1. PICK how \in Finished : Finish(h, how)
    BY <1>3 DEF OauthDatabase, Finished
  <2>2. /\ tokens' \subseteq tokens \cup {conf.jwt} /\ agents' = agents
        /\ up /\ stage[h] # "saving" /\ UNCHANGED <<file, env, envLang, up, conf, dirty>>
    BY <1>3 DEF OauthDatabase, memVars
  <2> QED
    BY <2>1, <2>2, FinishPreserves
<1>4. CASE Answer(h)
  <2>1. Finish(h, "done") /\ "done" \in Finished
    BY <1>4 DEF Answer, Finished
  <2>2. /\ tokens' \subseteq tokens \cup {conf.jwt}
        /\ agents' \subseteq agents \cup {conf.agent}
        /\ up /\ UNCHANGED <<file, env, envLang, up, conf, dirty>>
    BY <1>4 DEF Answer, Admitted, memVars, owedVars
  <2>3. stage[h] # "saving"
    BY <1>4 DEF Answer, IInv, GuardsMatchStages
  <2> QED
    BY <2>1, <2>2, <2>3, FinishPreserves
<1> QED
  BY <1>1, <1>2, <1>3, <1>4

(* The OAuth callback goes on under its read guard.                        *)
LEMMA OauthPreserves ==
  ASSUME IInv, NEW h \in Handlers, OauthBegin(h) \/ OauthAnswer(h) PROVE IInv'
<1>1. UNCHANGED <<file, env, envLang, up, conf, dirty, tokens, agents, req>>
  BY DEF OauthBegin, OauthAnswer, memVars, lockVars, owedVars
<1>2. PICK s \in {"token", "userinfo", "database"} : stage' = [stage EXCEPT ![h] = s]
  BY DEF OauthBegin, OauthAnswer
<1>3. stage[h] # "saving" /\ (h \in holders => req[h].kind # "update")
  BY DEF OauthBegin, OauthAnswer, Awaiting, IInv, GuardsMatchStages
<1>4. \/ holders' = holders \cup {h} /\ req[h].kind # "update"
      \/ holders' = holders /\ h \notin holders
  BY <1>3 DEF OauthBegin, OauthAnswer, lockVars
<1>5. /\ HandlersTyped' /\ stage'[h] = s /\ s \notin Finished /\ s # "saving"
      /\ \A g \in Handlers \ {h} : stage'[g] = stage[g] /\ req'[g] = req[g]
  BY <1>1, <1>2, <1>4 DEF IInv, HandlersTyped, Finished, Awaiting
<1>6. GuardsMatchStages' /\ (WriteHeld => WriteHeld')
  BY <1>1, <1>3, <1>4, <1>5, HandlerMoves
<1> QED
  BY <1>1, <1>5, <1>6, QuietStep

(* An update changes what no key depends on, under the write guard.        *)
LEMMA ApplyPreserves == ASSUME IInv, NEW h \in Handlers, Apply(h) PROVE IInv'
<1>1. /\ conf' \in Config /\ conf'.agent = conf.agent /\ conf'.jwt = conf.jwt
  <2>1. req[h] \in Request /\ req[h].kind = "update"
    BY DEF Apply, IInv, HandlersTyped, NoRequest
  <2>2. req[h].form.lang \in Langs /\ req[h].form.text \in Texts
    BY <2>1 DEF Request
  <2> QED
    BY <2>2 DEF Apply, IInv, Shape, Config
<1>2. UNCHANGED <<file, env, envLang, up, dirty, tokens, agents, req>>
  BY DEF Apply, owedVars
<1>3. WriteHeld' /\ HandlersTyped' /\ GuardsMatchStages'
  <2>1. /\ holders' = holders \cup {h} /\ req[h].kind = "update"
        /\ stage' = [stage EXCEPT ![h] = "saving"]
    BY DEF Apply
  <2> QED
    BY <1>2, <2>1
    DEF IInv, HandlersTyped, GuardsMatchStages, WriteHeld, Finished
<1>4. Overridden(file)' = Overridden(file)
  BY <1>2 DEF Overridden
<1> QED
  BY <1>1, <1>2, <1>3, <1>4 DEF IInv, Shape, KeysPresent, EnvApplied, FileHasKeys,
     JwtKeyInFile, OwedInFile, RestartKeepsSettings, KeysSurvive

LEMMA UpdateSavePreserves == ASSUME IInv, NEW h \in Handlers, UpdateSave(h) PROVE IInv'
<1>1. UNCHANGED <<env, envLang, up, conf, tokens, agents>> /\ up
  BY DEF UpdateSave, memVars, owedVars
<1>2. Shape /\ conf \in Config
  BY DEF IInv, Shape
<1>3. /\ file' \in Config \cup {Absent, Bad} /\ dirty' \in BOOLEAN
      /\ ~dirty' => file' = conf
  BY <1>2, SaveOutcome DEF UpdateSave
<1>4. ~dirty' /\ env # NoKey => Overridden(file)' = WithEnvLang(conf)'
  <2> SUFFICES ASSUME ~dirty', env # NoKey PROVE Overridden(file)' = WithEnvLang(conf)'
    OBVIOUS
  <2>1. Overridden(file)' = Overridden(conf) /\ WithEnvLang(conf)' = WithEnvLang(conf)
    BY <1>1, <1>3 DEF Overridden, WithEnvLang
  <2>2. Overridden(conf) = WithEnvLang(conf)
    BY <1>1, <1>2, SavedIsLoaded DEF IInv, Shape, EnvApplied
  <2> QED
    BY <2>1, <2>2
<1>6. WithEnvLang(conf)'.agent = conf'.agent
  BY <1>1, <1>2 DEF WithEnvLang, Config
<1>5. HandlersTyped' /\ GuardsMatchStages'
  <2>1. PICK how \in Finished : Finish(h, how)
    BY DEF UpdateSave, Finished
  <2>2. /\ stage'[h] = how /\ holders' = holders \ {h}
        /\ \A g \in Handlers \ {h} : stage'[g] = stage[g] /\ req'[g] = req[g]
    BY <2>1 DEF Finish, IInv, HandlersTyped
  <2>3. HandlersTyped'
    BY <2>1 DEF Finish, IInv, HandlersTyped
  <2> QED
    BY <2>2, <2>3 DEF IInv, GuardsMatchStages, Finished
<1> QED
  BY <1>1, <1>3, <1>4, <1>5, <1>6 DEF IInv, Shape, KeysPresent, EnvApplied, FileHasKeys,
     JwtKeyInFile, OwedInFile, RestartKeepsSettings, KeysSurvive

-----------------------------------------------------------------------------
LEMMA NextPreservesIInv == IInv /\ [Next]_vars => IInv'
<1> SUFFICES ASSUME IInv, [Next]_vars PROVE IInv'
  OBVIOUS
<1>1. CASE Start
  BY <1>1, StartPreserves
<1>2. CASE Crash
  BY <1>2, CrashPreserves
<1>3. CASE EditFile \/ EditEnv
  BY <1>3, EditPreserves
<1>4. ASSUME NEW h \in Handlers, Arrive(h) PROVE IInv'
  BY <1>4, ArrivePreserves
<1>5. ASSUME NEW h \in Handlers, Cancel(h) \/ HandlerStep(h) \/ Provider(h) PROVE IInv'
  <2>1. CASE Cancel(h) \/ OauthRefused(h) \/ OauthDatabase(h) \/ Answer(h)
    BY <2>1, EndPreserves
  <2>2. CASE OauthBegin(h) \/ OauthAnswer(h)
    BY <2>2, OauthPreserves
  <2>3. CASE Apply(h)
    BY <2>3, ApplyPreserves
  <2>4. CASE UpdateSave(h)
    BY <2>4, UpdateSavePreserves
  <2> QED
    BY <1>5, <2>1, <2>2, <2>3, <2>4 DEF HandlerStep, Provider
<1>6. CASE UNCHANGED vars
  <2>1. /\ UNCHANGED <<file, env, envLang, up, conf, dirty, tokens, agents, holders, req, stage>>
    BY <1>6 DEF vars, memVars, lockVars, owedVars
  <2>2. HandlersTyped' /\ GuardsMatchStages' /\ (WriteHeld => WriteHeld')
    BY <2>1 DEF IInv, HandlersTyped, GuardsMatchStages, WriteHeld
  <2> QED
    BY <2>1, <2>2, QuietStep
<1> QED
  BY <1>1, <1>2, <1>3, <1>4, <1>5, <1>6 DEF Next

LEMMA InvariantHolds == Spec => []IInv
<1> QED
  BY InitEstablishesIInv, NextPreservesIInv, PTL DEF Spec

-----------------------------------------------------------------------------
(* The lock.                                                               *)

InQueue(q, h) == \E i \in 1..Len(q) : q[i] = h

Distinct(q) == \A i, j \in 1..Len(q) : q[i] = q[j] => i = j

(* Who waits is in the queue, once.                                        *)
QueueExact ==
  /\ queue \in Seq(Handlers) /\ Distinct(queue)
  /\ \A h \in Handlers : stage[h] = "queued" <=> InQueue(queue, h)

(* A write guard is the only guard.                                        *)
WriterAlone ==
  \A g, h \in holders : req[g].kind = "update" => g = h

(* The ids are those of a text, and the environment what it may be.        *)
RestTyped ==
  /\ ids \in Texts
  /\ env \in EnvKeys \cup {NoKey, Unset} /\ envLang \in EnvLangs \cup {Unset}

LockInv == QueueExact /\ WriterAlone /\ RestTyped

(* Leaving the queue takes out one place, and those behind it move up.     *)
LEMMA WithoutShape ==
  ASSUME queue \in Seq(Handlers), NEW h, InQueue(queue, h)
  PROVE  \E n \in 1..Len(queue) :
           /\ queue[n] = h
           /\ Without(h) \in Seq(Handlers) /\ Len(Without(h)) = Len(queue) - 1
           /\ \A i \in 1..Len(queue) - 1 :
                Without(h)[i] = IF i < n THEN queue[i] ELSE queue[i + 1]
<1> DEFINE Places == {i \in 1..Len(queue) : queue[i] = h}
           n == CHOOSE i \in Places : TRUE
           L == Len(queue)
           w == Without(h)
<1>0. Places # {}
  BY DEF InQueue
<1>1. n \in 1..L /\ queue[n] = h
  BY <1>0
<1>2. w = SubSeq(queue, 1, n - 1) \o SubSeq(queue, n + 1, L)
  BY <1>0 DEF Without
<1>3. L \in Nat
  BY LenProperties
<1> HIDE DEF n, L, w, Places
<1> DEFINE a == SubSeq(queue, 1, n - 1)
           b == SubSeq(queue, n + 1, L)
<1> HIDE DEF a, b
<1>4. \A i \in 1..L : queue[i] \in Handlers
  BY ElementOfSeq DEF L
<1>5. /\ a \in Seq(Handlers) /\ Len(a) = n - 1
      /\ \A i \in 1..n - 1 : a[i] = queue[i]
  <2>1. 1 \in Int /\ n - 1 \in Int /\ \A i \in 1..n - 1 : queue[i] \in Handlers
    BY <1>1, <1>3, <1>4
  <2>2. /\ a \in Seq(Handlers)
        /\ Len(a) = IF 1 <= n - 1 THEN n - 1 - 1 + 1 ELSE 0
        /\ \A i \in 1..n - 1 - 1 + 1 : a[i] = queue[1 + i - 1]
    BY <2>1, SubSeqProperties DEF a
  <2> QED
    BY <1>1, <1>3, <2>2
<1>6. /\ b \in Seq(Handlers) /\ Len(b) = L - n
      /\ \A i \in 1..L - n : b[i] = queue[n + i]
  <2>1. n + 1 \in Int /\ L \in Int /\ \A i \in n + 1..L : queue[i] \in Handlers
    BY <1>1, <1>3, <1>4
  <2>2. /\ b \in Seq(Handlers)
        /\ Len(b) = IF n + 1 <= L THEN L - (n + 1) + 1 ELSE 0
        /\ \A i \in 1..L - (n + 1) + 1 : b[i] = queue[n + 1 + i - 1]
    BY <2>1, SubSeqProperties DEF b
  <2>3. Len(b) = L - n
    <3> DEFINE m == Len(b)
    <3>1. m = IF n + 1 <= L THEN L - (n + 1) + 1 ELSE 0
      BY <2>2
    <3> HIDE DEF m
    <3>2. m = L - n
      BY <1>1, <1>3, <3>1
    <3> QED
      BY <3>2 DEF m
  <2>4. ASSUME NEW i \in 1..L - n
        PROVE  b[i] = queue[n + i]
    <3>1. i \in 1..L - (n + 1) + 1 /\ n + 1 + i - 1 = n + i
      BY <1>1, <1>3
    <3> QED
      BY <2>2, <3>1
  <2> QED
    BY <2>2, <2>3, <2>4
<1>7. /\ w \in Seq(Handlers) /\ Len(w) = L - 1
      /\ \A i \in 1..L - 1 : w[i] = IF i < n THEN queue[i] ELSE queue[i + 1]
  <2>1. w = a \o b
    BY <1>2 DEF a, b
  <2>2. /\ w \in Seq(Handlers)
        /\ Len(w) = Len(a) + Len(b)
        /\ \A i \in 1..Len(a) + Len(b) :
             w[i] = IF i <= Len(a) THEN a[i] ELSE b[i - Len(a)]
    <3>1. a \in Seq(Handlers) /\ b \in Seq(Handlers)
      BY <1>5, <1>6
    <3> QED
      BY <2>1, <3>1, ConcatProperties, Zenon
  <2>3. ASSUME NEW i \in 1..L - 1
        PROVE  w[i] = IF i < n THEN queue[i] ELSE queue[i + 1]
    <3>1. w[i] = IF i <= n - 1 THEN a[i] ELSE b[i - (n - 1)]
      <4>1. i \in 1..Len(a) + Len(b)
        BY <1>1, <1>3, <1>5, <1>6
      <4> QED
        BY <1>5, <2>2, <4>1
    <3>2. CASE i < n
      BY <1>1, <1>3, <1>5, <3>1, <3>2
    <3>3. CASE ~(i < n)
      <4>1. i - (n - 1) \in 1..L - n /\ n + (i - (n - 1)) = i + 1
        BY <1>1, <1>3, <3>3
      <4>2. b[i - (n - 1)] = queue[n + (i - (n - 1))]
        BY <1>6, <4>1
      <4> QED
        BY <1>1, <1>3, <3>1, <3>3, <4>1, <4>2
    <3> QED
      BY <3>2, <3>3
  <2> QED
    BY <1>1, <1>3, <1>5, <1>6, <2>1, <2>2, <2>3
<1> QED
  BY <1>1, <1>7 DEF L, w

(* Leaving the queue takes out one handler and leaves the others in order. *)
LEMMA WithoutLeaves ==
  ASSUME NEW h \in Handlers, queue \in Seq(Handlers), Distinct(queue)
  PROVE  /\ Without(h) \in Seq(Handlers) /\ Distinct(Without(h))
         /\ \A g \in Handlers : InQueue(Without(h), g) <=> g # h /\ InQueue(queue, g)
<1>1. CASE ~InQueue(queue, h)
  <2>1. Without(h) = queue
    BY <1>1 DEF Without, InQueue
  <2> QED
    BY <1>1, <2>1
<1>2. CASE InQueue(queue, h)
  <2> DEFINE L == Len(queue)
             w == Without(h)
  <2>1. PICK n \in 1..L :
          /\ queue[n] = h
          /\ w \in Seq(Handlers) /\ Len(w) = L - 1
          /\ \A i \in 1..L - 1 : w[i] = IF i < n THEN queue[i] ELSE queue[i + 1]
    BY <1>2, WithoutShape
  <2>3. L \in Nat
    BY LenProperties
  <2>7. /\ w \in Seq(Handlers) /\ Len(w) = L - 1
        /\ \A i \in 1..L - 1 : w[i] = IF i < n THEN queue[i] ELSE queue[i + 1]
    BY <2>1
  <2> HIDE DEF L, w
  <2>8. \A i, j \in 1..L : queue[i] = queue[j] => i = j
    BY DEF Distinct, L
  <2>9. Distinct(w)
    <3> SUFFICES ASSUME NEW i \in 1..L - 1, NEW j \in 1..L - 1, w[i] = w[j]
                 PROVE  i = j
      BY <2>7 DEF Distinct
    <3>1. /\ w[i] = IF i < n THEN queue[i] ELSE queue[i + 1]
          /\ w[j] = IF j < n THEN queue[j] ELSE queue[j + 1]
      BY <2>7
    <3> DEFINE place(k) == IF k < n THEN k ELSE k + 1
    <3>2. place(i) \in 1..L /\ place(j) \in 1..L
      BY <2>1, <2>3
    <3>3. w[i] = queue[place(i)] /\ w[j] = queue[place(j)]
      BY <3>1
    <3>4. place(i) = place(j)
      <4> HIDE DEF place
      <4> QED
        BY <2>8, <3>2, <3>3
    <3> QED
      BY <2>1, <2>3, <3>4
  <2>10. ASSUME NEW g \in Handlers, InQueue(w, g)
         PROVE  g # h /\ InQueue(queue, g)
    <3>1. PICK i \in 1..L - 1 : w[i] = g
      BY <2>7, <2>10 DEF InQueue
    <3>2. PICK j \in 1..L : j # n /\ queue[j] = g
      <4>1. w[i] = IF i < n THEN queue[i] ELSE queue[i + 1]
        BY <2>7
      <4>2. CASE i < n
        BY <2>1, <2>3, <3>1, <4>1, <4>2
      <4>3. CASE ~(i < n)
        <5>1. i + 1 \in 1..L /\ i + 1 # n
          BY <2>1, <2>3, <4>3
        <5> QED
          BY <3>1, <4>1, <4>3, <5>1
      <4> QED
        BY <4>2, <4>3
    <3> QED
      BY <2>1, <2>8, <3>2 DEF InQueue, L
  <2>11. ASSUME NEW g \in Handlers, g # h, InQueue(queue, g)
         PROVE  InQueue(w, g)
    <3>1. PICK j \in 1..L : queue[j] = g
      BY <2>11 DEF InQueue, L
    <3>2. PICK i \in 1..L - 1 : w[i] = g
      <4>1. j # n
        BY <2>1, <2>11, <3>1
      <4>2. CASE j < n
        <5>1. j \in 1..L - 1
          BY <2>1, <2>3, <4>2
        <5> QED
          BY <2>7, <3>1, <4>2, <5>1
      <4>3. CASE ~(j < n)
        <5>1. j - 1 \in 1..L - 1 /\ ~(j - 1 < n) /\ j - 1 + 1 = j
          BY <2>1, <2>3, <4>1, <4>3
        <5> QED
          BY <2>7, <3>1, <5>1
      <4> QED
        BY <4>2, <4>3
    <3> QED
      BY <2>7, <3>2 DEF InQueue
  <2> QED
    BY <2>7, <2>9, <2>10, <2>11 DEF w
<1> QED
  BY <1>1, <1>2

(* How the queue and the guards change.                                    *)

(* A handler that leaves the queue, if it was in it, and waits no more.    *)
LEMMA LeavePreserves ==
  ASSUME QueueExact, NEW h \in Handlers, queue' = Without(h),
         stage'[h] # "queued",
         \A g \in Handlers \ {h} : stage'[g] = stage[g]
  PROVE  QueueExact'
<1>1. /\ queue' \in Seq(Handlers) /\ Distinct(queue')
      /\ \A g \in Handlers : InQueue(queue', g) <=> g # h /\ InQueue(queue, g)
  BY WithoutLeaves DEF QueueExact
<1> QED
  BY <1>1 DEF QueueExact

(* A handler that is not in the queue and does not enter it.               *)
LEMMA StayPreserves ==
  ASSUME QueueExact, NEW h \in Handlers, queue' = queue,
         stage[h] # "queued", stage'[h] # "queued",
         \A g \in Handlers \ {h} : stage'[g] = stage[g]
  PROVE  QueueExact'
  BY DEF QueueExact

(* A handler that comes last.                                              *)
LEMMA AppendPreserves ==
  ASSUME QueueExact, NEW h \in Handlers, queue' = Append(queue, h),
         stage[h] # "queued", stage'[h] = "queued",
         \A g \in Handlers \ {h} : stage'[g] = stage[g]
  PROVE  QueueExact'
<1> DEFINE L == Len(queue)
<1>1. L \in Nat /\ \A i \in 1..L : queue[i] # h
  BY LenProperties DEF QueueExact, InQueue
<1>2. /\ queue' \in Seq(Handlers) /\ Len(queue') = L + 1
      /\ \A i \in 1..L : queue'[i] = queue[i]
      /\ queue'[L + 1] = h
  BY AppendProperties DEF QueueExact
<1>3. \A i, j \in 1..L : queue[i] = queue[j] => i = j
  BY DEF QueueExact, Distinct
<1> HIDE DEF L
<1>4. \A i \in 1..L + 1 : i \in 1..L \/ i = L + 1
  BY <1>1
<1>5. Distinct(queue')
  BY <1>1, <1>2, <1>3, <1>4 DEF Distinct
<1>6. ASSUME NEW g \in Handlers
      PROVE  InQueue(queue', g) <=> g = h \/ InQueue(queue, g)
  <2>1. InQueue(queue, g) => InQueue(queue', g)
    <3>1. \A i \in 1..L : i \in 1..L + 1
      BY <1>1
    <3> QED
      BY <1>2, <3>1 DEF InQueue, L
  <2>2. InQueue(queue', h)
    <3>1. L + 1 \in 1..L + 1
      BY <1>1
    <3> QED
      BY <1>2, <3>1 DEF InQueue
  <2>3. InQueue(queue', g) => g = h \/ InQueue(queue, g)
    BY <1>2, <1>4 DEF InQueue, L
  <2> QED
    BY <2>1, <2>2, <2>3
<1> QED
  BY <1>2, <1>5, <1>6 DEF QueueExact

(* A handler whose guard, if it has one then, it had before or is a read   *)
(* guard among read guards, or takes the only guard.                       *)
LEMMA GuardPreserves ==
  ASSUME WriterAlone, NEW h,
         \A g \in holders' \ {h} : g \in holders /\ req'[g] = req[g],
         \/ h \notin holders'
         \/ h \in holders /\ req'[h] = req[h]
         \/ ~WriteHeld /\ req'[h].kind # "update"
         \/ holders = {}
  PROVE  WriterAlone'
  BY DEF WriterAlone, WriteHeld

LEMMA LockInit == Init => LockInv
<1> SUFFICES ASSUME Init PROVE LockInv
  OBVIOUS
<1>1. QueueExact
  BY EmptySeq DEF Init, QueueExact, InQueue, Distinct
<1> QED
  BY <1>1 DEF Init, LockInv, WriterAlone, RestTyped

(* A handler that ends keeps nobody's place and nobody's guard but its own. *)
LEMMA FinishFrees ==
  ASSUME IInv, LockInv, NEW h \in Handlers, NEW how \in Finished, Finish(h, how),
         queue' = Without(h) \/ (queue' = queue /\ stage[h] # "queued")
  PROVE  QueueExact' /\ WriterAlone'
<1>1. /\ stage'[h] = how /\ how # "queued" /\ holders' = holders \ {h}
      /\ \A g \in Handlers \ {h} : stage'[g] = stage[g] /\ req'[g] = req[g]
  BY DEF Finish, IInv, HandlersTyped, Finished
<1>2. holders \subseteq Handlers
  BY DEF IInv, HandlersTyped
<1>3. QueueExact'
  BY <1>1, LeavePreserves, StayPreserves DEF LockInv
<1>4. WriterAlone'
  BY <1>1, <1>2, GuardPreserves DEF LockInv
<1> QED
  BY <1>3, <1>4

LEMMA HandlerKeepsLock ==
  ASSUME IInv, LockInv, NEW h \in Handlers, HandlerStep(h) \/ Provider(h) \/ Cancel(h)
  PROVE  QueueExact' /\ WriterAlone'
<1>1. CASE Answer(h)
  BY <1>1, FinishFrees DEF Answer, Finished
<1>2. CASE Cancel(h)
  BY <1>2, FinishFrees DEF Cancel, Finished
<1>3. CASE UpdateSave(h)
  <2>1. PICK how \in Finished : Finish(h, how)
    BY <1>3 DEF UpdateSave, Finished
  <2> QED
    BY <1>3, <2>1, FinishFrees DEF UpdateSave
<1>4. CASE OauthDatabase(h)
  <2>1. PICK how \in Finished : Finish(h, how)
    BY <1>4 DEF OauthDatabase, Finished
  <2> QED
    BY <1>4, <2>1, FinishFrees DEF OauthDatabase
<1>5. CASE OauthRefused(h)
  BY <1>5, FinishFrees DEF OauthRefused, Finished, Awaiting
<1>6. CASE OauthAnswer(h)
  <2>1. /\ UNCHANGED <<queue, holders, req>> /\ stage[h] # "queued" /\ stage'[h] # "queued"
        /\ \A g \in Handlers \ {h} : stage'[g] = stage[g]
    BY <1>6 DEF OauthAnswer, lockVars, Awaiting, IInv, HandlersTyped
  <2>2. QueueExact'
    BY <2>1, StayPreserves DEF LockInv
  <2>3. WriterAlone'
    BY <2>1 DEF LockInv, WriterAlone
  <2> QED
    BY <2>2, <2>3
<1>7. CASE Apply(h) \/ OauthBegin(h)
  <2>1. /\ queue' = Without(h) /\ holders' = holders \cup {h} /\ req' = req
        /\ stage'[h] # "queued" /\ \A g \in Handlers \ {h} : stage'[g] = stage[g]
        /\ holders = {} \/ (~WriteHeld /\ req[h].kind # "update")
    BY <1>7 DEF Apply, OauthBegin, Admitted, IInv, HandlersTyped
  <2>2. QueueExact'
    BY <2>1, LeavePreserves DEF LockInv
  <2>3. WriterAlone'
    BY <2>1, GuardPreserves DEF LockInv
  <2> QED
    BY <2>2, <2>3
<1> QED
  BY <1>1, <1>2, <1>3, <1>4, <1>5, <1>6, <1>7 DEF HandlerStep, Provider

LEMMA RestStaysTyped == IInv /\ RestTyped /\ [Next]_vars => RestTyped'
<1> SUFFICES ASSUME IInv, RestTyped, [Next]_vars PROVE RestTyped'
  OBVIOUS
<1>1. CASE Start
  <2>1. IInv'
    BY NextPreservesIInv
  <2>2. conf'.text \in Texts
    BY <2>1 DEF IInv, Shape, Config
  <2> QED
    BY <1>1, <2>2 DEF Start, RestTyped
<1>2. CASE Crash \/ EditFile \/ EditEnv
  BY <1>2 DEF Crash, EditFile, EditEnv, memVars, RestTyped
<1>3. ASSUME NEW h \in Handlers,
             Arrive(h) \/ Cancel(h) \/ HandlerStep(h) \/ Provider(h)
      PROVE  ids' = ids /\ env' = env /\ envLang' = envLang
  <2>1. CASE Arrive(h) \/ Cancel(h) \/ Provider(h)
    BY <2>1 DEF Arrive, Cancel, Provider, OauthAnswer, OauthRefused, memVars
  <2>2. CASE HandlerStep(h)
    BY <2>2 DEF HandlerStep, Answer, Apply, UpdateSave, OauthBegin, OauthDatabase, memVars
  <2> QED
    BY <1>3, <2>1, <2>2
<1>4. CASE UNCHANGED vars
  BY <1>4 DEF vars, memVars, RestTyped
<1> QED
  BY <1>1, <1>2, <1>3, <1>4 DEF Next, RestTyped

LEMMA NextPreservesLockInv == IInv /\ LockInv /\ [Next]_vars => LockInv'
<1> SUFFICES ASSUME IInv, LockInv, [Next]_vars PROVE QueueExact' /\ WriterAlone'
  BY RestStaysTyped DEF LockInv
<1>1. CASE Start \/ EditFile \/ EditEnv \/ UNCHANGED vars
  <2>1. UNCHANGED <<queue, holders, req, stage>>
    BY <1>1 DEF Start, EditFile, EditEnv, vars, lockVars
  <2> QED
    BY <2>1 DEF LockInv, QueueExact, WriterAlone
<1>2. CASE Crash
  BY <1>2, EmptySeq DEF Crash, QueueExact, InQueue, Distinct, WriterAlone
<1>3. ASSUME NEW h \in Handlers, Arrive(h) PROVE QueueExact' /\ WriterAlone'
  <2>1. /\ queue' = Append(queue, h) /\ holders' = holders /\ h \notin holders
        /\ stage[h] # "queued" /\ stage'[h] = "queued"
        /\ \A g \in Handlers \ {h} : stage'[g] = stage[g] /\ req'[g] = req[g]
    BY <1>3 DEF Arrive, Finished, IInv, HandlersTyped, GuardsMatchStages
  <2>2. QueueExact'
    BY <2>1, AppendPreserves DEF LockInv
  <2>3. WriterAlone'
    BY <2>1, GuardPreserves DEF LockInv, IInv, HandlersTyped
  <2> QED
    BY <2>2, <2>3
<1>4. ASSUME NEW h \in Handlers, Cancel(h) \/ HandlerStep(h) \/ Provider(h)
      PROVE  QueueExact' /\ WriterAlone'
  BY <1>4, HandlerKeepsLock
<1> QED
  BY <1>1, <1>2, <1>3, <1>4 DEF Next

LEMMA LockInvariantHolds == Spec => [](IInv /\ LockInv)
<1>1. Init => IInv /\ LockInv
  BY InitEstablishesIInv, LockInit
<1>2. IInv /\ LockInv /\ [Next]_vars => (IInv /\ LockInv)'
  BY NextPreservesIInv, NextPreservesLockInv
<1> QED
  BY <1>1, <1>2, PTL DEF Spec

-----------------------------------------------------------------------------
(* Every variable keeps its type: memory always holds a configuration, the *)
(* file one, none or a torn one, and the lock's queue handlers only.       *)
THEOREM TypeCorrect == Spec => []TypeOK
<1>1. IInv /\ LockInv => TypeOK
  BY DEF IInv, Shape, HandlersTyped, LockInv, QueueExact, RestTyped, TypeOK
<1> QED
  BY <1>1, LockInvariantHolds, PTL

(* While update_config changes and saves the configuration under its write *)
(* guard, nobody else holds a guard: no second save runs, and no callback  *)
(* reads a configuration that is being saved.                              *)
THEOREM UpdateHoldsLockAlone == Spec => []WriterAlone
<1>1. LockInv => WriterAlone
  BY DEF LockInv
<1> QED
  BY <1>1, LockInvariantHolds, PTL

(* No agent is admitted by an empty key and no token signed with one:      *)
(* config.rs 392-402 after any file and any environment.                   *)
THEOREM KeysNeverEmpty == Spec => []KeysPresent
<1>1. IInv => KeysPresent
  BY DEF IInv
<1> QED
  BY <1>1, InvariantHolds, PTL

(* What a reader of the lock sees is what a restart would load, in the     *)
(* language of the environment where there is one.                         *)
THEOREM FileAgreesWithMemory == Spec => []RestartKeepsSettings
<1>1. IInv => RestartKeepsSettings
  BY DEF IInv
<1> QED
  BY <1>1, InvariantHolds, PTL

(* Tokens and installed agents outlive crashes, restarts and updates.      *)
THEOREM KeysOutliveRestarts == Spec => []KeysSurvive
<1>1. IInv => KeysSurvive
  BY DEF IInv
<1> QED
  BY <1>1, InvariantHolds, PTL

-----------------------------------------------------------------------------
(* Safety beneath LockServed: the queue moves in order, and whoever is     *)
(* first in it waits only for handlers that need no lock to go on.         *)

\* A handler that waits keeps its place while the first one does, or moves up
\* one; it leaves as the first, or because its client is gone.
WaitersAdvance ==
  up /\ up' => \A j \in 1..Len(queue) :
    \/ j \in 1..Len(queue') /\ queue'[j] = queue[j] /\ queue'[1] = queue[1]
    \/ j - 1 \in 1..Len(queue') /\ queue'[j - 1] = queue[j]
    \/ j = 1
    \/ Cancel(queue[j])

\* A handler with a guard is at a step that takes no guard.
HoldersBusy == \A h \in holders : stage[h] \in Awaiting \cup {"database", "saving"}

\* The first that waits is admitted, or a guard it cannot share is held by a
\* handler that does not wait for the lock itself.
FirstWaitsForGuards ==
  up /\ queue # <<>> /\ ~Admitted(Head(queue)) =>
    \E h \in holders :
      /\ stage[h] \in Awaiting \cup {"database", "saving"}
      /\ req[h].kind = "update" \/ req[Head(queue)].kind = "update"

LEMMA BusyInit == Init => HoldersBusy
  BY DEF Init, HoldersBusy

LEMMA BusyStep == IInv /\ HoldersBusy /\ [Next]_vars => HoldersBusy'
<1> SUFFICES ASSUME IInv, HoldersBusy, [Next]_vars PROVE HoldersBusy'
  OBVIOUS
<1> USE DEF HoldersBusy
<1>1. CASE Start \/ EditFile \/ EditEnv \/ UNCHANGED vars
  BY <1>1 DEF Start, EditFile, EditEnv, vars, lockVars
<1>2. CASE Crash
  BY <1>2 DEF Crash
<1>3. ASSUME NEW h \in Handlers, Arrive(h) PROVE HoldersBusy'
  BY <1>3 DEF Arrive, IInv, HandlersTyped, GuardsMatchStages
<1>4. ASSUME NEW h \in Handlers, NEW how, Finish(h, how) PROVE HoldersBusy'
  BY <1>4 DEF Finish, IInv, HandlersTyped
<1>5. ASSUME NEW h \in Handlers, OauthAnswer(h) PROVE HoldersBusy'
  <2>1. /\ stage'[h] \in {"userinfo", "database"} /\ UNCHANGED holders
        /\ \A g \in Handlers \ {h} : stage'[g] = stage[g]
    BY <1>5 DEF OauthAnswer, lockVars, IInv, HandlersTyped
  <2> QED
    BY <2>1 DEF Awaiting, IInv, HandlersTyped
<1>6. ASSUME NEW h \in Handlers, Apply(h) \/ OauthBegin(h) PROVE HoldersBusy'
  BY <1>6 DEF Apply, OauthBegin, Awaiting, IInv, HandlersTyped
<1>7. ASSUME NEW h \in Handlers,
             Answer(h) \/ Cancel(h) \/ UpdateSave(h) \/ OauthDatabase(h) \/ OauthRefused(h)
      PROVE  \E how : Finish(h, how)
  BY <1>7 DEF Answer, Cancel, UpdateSave, OauthDatabase, OauthRefused
<1> QED
  BY <1>1, <1>2, <1>3, <1>4, <1>5, <1>6, <1>7 DEF Next, HandlerStep, Provider

(* A handler that is admitted was the first; its place is taken up.        *)
LEMMA LeavingAdvances ==
  ASSUME QueueExact, NEW h \in Handlers, queue' = Without(h),
         (queue # <<>> /\ Head(queue) = h) \/ Cancel(h)
  PROVE  WaitersAdvance
<1> SUFFICES ASSUME NEW j \in 1..Len(queue)
             PROVE  \/ j \in 1..Len(queue') /\ queue'[j] = queue[j] /\ queue'[1] = queue[1]
                    \/ j - 1 \in 1..Len(queue') /\ queue'[j - 1] = queue[j]
                    \/ j = 1
                    \/ Cancel(queue[j])
  BY DEF WaitersAdvance
<1> DEFINE L == Len(queue)
<1>1. L \in Nat /\ queue \in Seq(Handlers)
  BY LenProperties DEF QueueExact
<1>2. CASE ~InQueue(queue, h)
  <2>1. Without(h) = queue
    BY <1>2 DEF Without, InQueue
  <2> QED
    BY <2>1
<1>3. CASE InQueue(queue, h)
  <2>1. PICK n \in 1..L :
          /\ queue[n] = h /\ Len(queue') = L - 1
          /\ \A i \in 1..L - 1 : queue'[i] = IF i < n THEN queue[i] ELSE queue[i + 1]
    BY <1>1, <1>3, WithoutShape
  <2>2. n = 1 \/ Cancel(h)
    <3>1. CASE queue # <<>> /\ Head(queue) = h
      <4>1. queue[1] = h /\ 1 \in 1..L
        BY <1>1, <3>1
      <4> QED
        BY <2>1, <4>1 DEF QueueExact, Distinct
    <3> QED
      BY <3>1
  <2> HIDE DEF L
  <2>3. CASE j < n
    <3>1. j \in 1..L - 1 /\ 1 \in 1..L - 1 /\ 1 < n
      BY <1>1, <2>1, <2>3 DEF L
    <3> QED
      BY <2>1, <2>3, <3>1
  <2>4. CASE j = n
    BY <2>1, <2>2, <2>4
  <2>5. CASE j > n
    <3>1. j - 1 \in 1..L - 1 /\ ~(j - 1 < n) /\ j - 1 + 1 = j
      BY <1>1, <2>1, <2>5 DEF L
    <3> QED
      BY <2>1, <3>1
  <2> QED
    BY <1>1, <2>1, <2>3, <2>4, <2>5 DEF L
<1> QED
  BY <1>2, <1>3

LEMMA AdvanceStep == LockInv /\ [Next]_vars => WaitersAdvance
<1> SUFFICES ASSUME LockInv, [Next]_vars PROVE WaitersAdvance
  OBVIOUS
<1>0. QueueExact /\ queue \in Seq(Handlers) /\ Len(queue) \in Nat
  BY LenProperties DEF LockInv, QueueExact
<1>1. CASE UNCHANGED queue
  BY <1>1 DEF WaitersAdvance
<1>2. CASE ~(up /\ up')
  BY <1>2 DEF WaitersAdvance
<1>3. ASSUME NEW h \in Handlers, Arrive(h) PROVE WaitersAdvance
  <2>1. /\ queue' = Append(queue, h) /\ Len(queue') = Len(queue) + 1
        /\ \A i \in 1..Len(queue) : queue'[i] = queue[i]
    BY <1>0, <1>3, AppendProperties DEF Arrive
  <2>2. \A j \in 1..Len(queue) : j \in 1..Len(queue') /\ 1 \in 1..Len(queue)
    BY <1>0, <2>1
  <2> QED
    BY <2>1, <2>2 DEF WaitersAdvance
<1>4. ASSUME NEW h \in Handlers, Answer(h) \/ Apply(h) \/ OauthBegin(h) \/ Cancel(h)
      PROVE  WaitersAdvance
  BY <1>0, <1>4, LeavingAdvances DEF Answer, Apply, OauthBegin, Cancel, Admitted
<1>5. ASSUME NEW h \in Handlers, UpdateSave(h) \/ OauthDatabase(h) \/ Provider(h)
      PROVE  UNCHANGED queue
  BY <1>5 DEF UpdateSave, OauthDatabase, Provider, OauthAnswer, OauthRefused, lockVars
<1>6. Start \/ EditFile \/ EditEnv \/ UNCHANGED vars => UNCHANGED queue
  BY DEF Start, EditFile, EditEnv, vars, lockVars
<1>7. Crash => ~(up /\ up')
  BY DEF Crash
<1> QED
  BY <1>1, <1>2, <1>3, <1>4, <1>5, <1>6, <1>7 DEF Next, HandlerStep

(* The lock serves its queue in order: nobody overtakes a handler that     *)
(* waits, and its place only comes nearer to the first.                    *)
THEOREM LockServesInOrder == Spec => [][WaitersAdvance]_vars
  BY LockInvariantHolds, AdvanceStep, PTL DEF Spec

(* No handler that waits for the lock waits for one that waits for it too: *)
(* the guards are with handlers that save, ask the provider or the         *)
(* database, and none of them takes a second guard.                        *)
THEOREM NobodyWaitsForWaiters == Spec => []FirstWaitsForGuards
<1>1. LockInv /\ HoldersBusy => FirstWaitsForGuards
  <2> SUFFICES ASSUME QueueExact, HoldersBusy, up, queue # <<>>, ~Admitted(Head(queue))
               PROVE  \E h \in holders : req[h].kind = "update" \/ req[Head(queue)].kind = "update"
    BY DEF LockInv, HoldersBusy, FirstWaitsForGuards
  <2> QED
    BY DEF Admitted, WriteHeld
<1>2. Spec => []HoldersBusy
  BY BusyInit, BusyStep, InvariantHolds, PTL DEF Spec
<1> QED
  BY <1>1, <1>2, LockInvariantHolds, PTL

=============================================================================
