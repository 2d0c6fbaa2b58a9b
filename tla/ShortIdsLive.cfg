SPECIFICATION FairSpec
CONSTANTS
  Txns = {t1, t2}
  Entities = {e1, e2}
  Projects = {p1}
  Types = {ty1}
  LockKeys <- Keys
  HashText <- DistinctKeys
  Rescope = TRUE
  NoProject = NoProject
  NoRow = NoRow
  NoTxn = NoTxn
  NoJob = NoJob
PROPERTY RequestsEnd
