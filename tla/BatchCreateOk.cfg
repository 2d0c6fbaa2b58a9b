SPECIFICATION Spec
CONSTANTS
  Requests = {r1}
  Ids = {id1, id2}
  MaxItems = 3
  Nobody = Nobody
INVARIANT OkItemsExist
\* Every request is sent once; the model stops when all are over.
CHECK_DEADLOCK FALSE
