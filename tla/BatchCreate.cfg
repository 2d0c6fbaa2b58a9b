SPECIFICATION FairSpec
CONSTANTS
  Requests = {r1, r2}
  Ids = {id1, id2}
  MaxItems = 3
  Nobody = Nobody
INVARIANTS TypeOK KeepsItemsAfterLastFailure
PROPERTY BatchesEnd
\* Every request is sent once; the model stops when all are over.
CHECK_DEADLOCK FALSE
