SPECIFICATION Spec
CONSTANTS
  Txns = {t1, t2}
  Entities = {e1, e2}
  Projects = {p1, p2}
  Types = {ty1}
  LockKeys <- Keys
  HashText <- DistinctKeys
  Rescope = TRUE
  NoProject = NoProject
  NoRow = NoRow
  NoTxn = NoTxn
  NoJob = NoJob
SYMMETRY Symmetry
INVARIANTS TypeOK DenseShortIds NeverCollides UniqueShortIds NumberedIffScoped
PROPERTY ImplementsBook
