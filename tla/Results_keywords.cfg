CONSTANTS
  Absent = Absent
  IllTyped = IllTyped
  k1 = k1
  k2 = k2
  match1 = match1
  match2 = match2
  keywordsToBeSpotted <- MCKeywords
  t1 = t1
  t2 = t2
  TupleId = {t1, t2}
  NoTuple = NoTuple
  NoMessage = NoMessage
  Message <- MCMessage
  Configs <- KeywordConfigs

SPECIFICATION Spec
INVARIANTS
  KeywordsOfAllResults
