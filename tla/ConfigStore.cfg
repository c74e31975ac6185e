SPECIFICATION FairSpec
CONSTANTS
  Handlers = {h1, h2}
  Keys = {k1, k2}
  EnvKeys = {k1}
  NoKey = NoKey
  Texts = {t0, t1}
  NoText = t0
  Langs = {n0, n1}
  NoLang = n0
  EnvLangs = {n0}
  Forms <- OneForm
  n0 = n0
  n1 = n1
  t0 = t0
  t1 = t1
  Unset = Unset
  Absent = Absent
  Bad = Bad
INVARIANTS
  TypeOK
  RestartKeepsSettings
  KeysSurvive
PROPERTIES
  LockServed
