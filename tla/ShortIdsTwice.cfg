SPECIFICATION Spec
CONSTANTS
  Txns = {t1, t2}
  Entities = {e1, e2}
  Projects = {p1, p2}
  Types = {ty1}
  LockKeys <- Keys
  HashText <- DistinctKeys
  Rescope = FALSE
  NoProject = NoProject
  NoRow = NoRow
  NoTxn = NoTxn
  NoJob = NoJob
SYMMETRY Symmetry
PROPERTY ShortIdsPermanent
