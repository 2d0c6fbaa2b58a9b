SPECIFICATION Spec
CONSTANTS
  Txns = {t1, t2}
  Entities = {e1}
  Fields = {description, reason}
  IngestFields = {description}
  OptionalFields = {description}
  Values = {v1, v2}
  MaxRevisions = 4
  NoRow = NoRow
  NoJob = NoJob
SYMMETRY Symmetry
INVARIANT LatestIsState
\* No request is taken up once e1 has MaxRevisions revisions: the model stops there.
CHECK_DEADLOCK FALSE
