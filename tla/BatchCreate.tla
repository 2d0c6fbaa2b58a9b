----------------------------- MODULE BatchCreate -----------------------------
(***************************************************************************)
(* POST /entities/batch.  EntityService.batch_create runs create for one   *)
(* item after another in the request's single transaction; an item that    *)
(* raises rolls the whole session back and the loop goes on in a new       *)
(* transaction.  The response lists ok or an error per item and is sent    *)
(* before get_session commits (FastAPI runs the code after `yield' once    *)
(* the response is out).                                                   *)
(*                                                                         *)
(* Two requests may carry the same client-chosen id: the second INSERT     *)
(* waits for the first transaction to end (`owner' holds the committed     *)
(* rows, pend[r] the uncommitted ones).                                    *)
(***************************************************************************)
EXTENDS Naturals, Sequences, SequencesExt

CONSTANTS
  Requests,   \* the requests, each sent once
  Ids,        \* entity ids
  MaxItems,   \* bound: items of a batch
  Nobody      \* there is no such row

ASSUME ConstantsAssumption == MaxItems \in Nat /\ Nobody \notin Requests

VARIABLES
  owner,    \* owner[id]: the request whose commit made the row
  pend,     \* pend[r]: the ids r has inserted in its current transaction
  pc,       \* "start", "items", "answered", then "done", or "lost" if cut off
  items,    \* items[r]: the ids of r's items
  results   \* results[r]: for each item handled, whether it is reported ok

vars == <<owner, pend, pc, items, results>>

Item(r) == items[r][Len(results[r]) + 1]

(* The requests whose uncommitted row has the id of r's item. *)
Rivals(r) == {q \in Requests \ {r} : Item(r) \in pend[q]}

IdTaken(r) == owner[Item(r)] # Nobody \/ Item(r) \in pend[r]

-----------------------------------------------------------------------------
Init ==
  /\ owner = [id \in Ids |-> Nobody]
  /\ pend = [r \in Requests |-> {}]
  /\ pc = [r \in Requests |-> "start"]
  /\ items = [r \in Requests |-> <<>>]
  /\ results = [r \in Requests |-> <<>>]

Receive(r) ==
  /\ pc[r] = "start"
  /\ \E batch \in BoundedSeq(Ids, MaxItems) \ {<<>>} : items' = [items EXCEPT ![r] = batch]
  /\ pc' = [pc EXCEPT ![r] = "items"]
  /\ UNCHANGED <<owner, pend, results>>

AtItem(r) == pc[r] = "items" /\ Len(results[r]) < Len(items[r])

(* create returned: the row is flushed, not committed. *)
ItemOk(r) ==
  /\ AtItem(r)
  /\ Rivals(r) = {} /\ ~IdTaken(r)
  /\ pend' = [pend EXCEPT ![r] = @ \cup {Item(r)}]
  /\ results' = [results EXCEPT ![r] = Append(@, TRUE)]
  /\ UNCHANGED <<owner, pc, items>>

(* Mutant: each item has a savepoint. *)
ToSavepoint(r) == pend[r]

(* What session.rollback() leaves of the transaction. *)
RolledBack(r) == {}

(* Mutant: the item that failed is tried again. *)
ItemRetried(r) ==
  /\ AtItem(r)
  /\ pend' = [pend EXCEPT ![r] = RolledBack(r)]
  /\ UNCHANGED <<owner, pc, items, results>>

(* create raised: "await self._session.rollback()", and on to the next item. *)
ItemFails(r) ==
  /\ AtItem(r)
  /\ pend' = [pend EXCEPT ![r] = RolledBack(r)]
  /\ results' = [results EXCEPT ![r] = Append(@, FALSE)]
  /\ UNCHANGED <<owner, pc, items>>

(* IntegrityError of the primary key. *)
Duplicate(r) ==
  /\ AtItem(r)
  /\ Rivals(r) = {} /\ IdTaken(r)
  /\ ItemFails(r)

(* Any other error of an item, before its INSERT or after it (the tags of an *)
(* item, given twice, break uq_entity_tag).                                 *)
OtherError(r) == ItemFails(r)

WaitsFor(r) == IF AtItem(r) THEN Rivals(r) ELSE {}

Deadlocked(S) ==
  /\ S # {}
  /\ \A q \in S : WaitsFor(q) \cap S # {} /\ \E s \in S : q \in WaitsFor(s)

(* The deadlock detector cancels the INSERT of one of them. *)
DeadlockVictim(r) ==
  /\ \E S \in SUBSET Requests : r \in S /\ Deadlocked(S)
  /\ ItemFails(r)

(* Mutant: the batch stops at its first failure. *)
AnswerEarly(r) ==
  /\ pc[r] = "items"
  /\ Len(results[r]) = Len(items[r]) \/ \E i \in 1 .. Len(results[r]) : ~results[r][i]
  /\ pc' = [pc EXCEPT ![r] = "answered"]
  /\ UNCHANGED <<owner, pend, items, results>>

Answer(r) ==
  /\ pc[r] = "items"
  /\ Len(results[r]) = Len(items[r])
  /\ pc' = [pc EXCEPT ![r] = "answered"]
  /\ UNCHANGED <<owner, pend, items, results>>

(* get_session: commit. *)
Commit(r) ==
  /\ pc[r] = "answered"
  /\ owner' = [id \in Ids |-> IF id \in pend[r] THEN r ELSE owner[id]]
  /\ pend' = [pend EXCEPT ![r] = {}]
  /\ pc' = [pc EXCEPT ![r] = "done"]
  /\ UNCHANGED <<items, results>>

(* The worker or its connection dies, perhaps with the answer already out. *)
Lose(r) ==
  /\ pc[r] \in {"items", "answered"}
  /\ pend' = [pend EXCEPT ![r] = {}]
  /\ pc' = [pc EXCEPT ![r] = "lost"]
  /\ UNCHANGED <<owner, items, results>>

Next ==
  \E r \in Requests :
    \/ Receive(r)
    \/ ItemOk(r)
    \/ Duplicate(r)
    \/ OtherError(r)
    \/ DeadlockVictim(r)
    \/ Answer(r)
    \/ Commit(r)
    \/ Lose(r)

Spec == Init /\ [][Next]_vars

(* The worker runs a request it has received to its end, and the database's *)
(* deadlock detector runs; nothing obliges an item to fail otherwise.       *)
Fairness ==
  \A r \in Requests :
    /\ WF_vars(ItemOk(r) \/ Duplicate(r) \/ Answer(r) \/ Commit(r))
    /\ WF_vars(DeadlockVictim(r))

FairSpec == Spec /\ Fairness

-----------------------------------------------------------------------------
(* The values the variables take; a request answers for every item. *)
TypeOK ==
  /\ owner \in [Ids -> Requests \cup {Nobody}]
  /\ pend \in [Requests -> SUBSET Ids]
  /\ pc \in [Requests -> {"start", "items", "answered", "done", "lost"}]
  /\ items \in [Requests -> BoundedSeq(Ids, MaxItems)]
  /\ results \in [Requests -> BoundedSeq(BOOLEAN, MaxItems)]
  /\ \A r \in Requests :
       /\ Len(results[r]) <= Len(items[r])
       /\ pc[r] \in {"answered", "done"} => Len(results[r]) = Len(items[r])

(* Item i of r was reported ok and no later item failed. *)
Kept(r, i) == \A j \in i .. Len(results[r]) : results[r][j]

(* What a batch really creates: exactly the items after its last failure -  *)
(* with nothing left of a failed item, and each row made by one request,    *)
(* also when requests race for the same ids.                                *)
KeepsItemsAfterLastFailure ==
  \A r \in Requests :
    pc[r] \in {"done", "lost"} =>
      {id \in Ids : owner[id] = r} =
        IF pc[r] = "lost" THEN {}
        ELSE {items[r][i] : i \in {j \in 1 .. Len(items[r]) : Kept(r, j)}}

(* An item reported ok "actually exists" once the request is over           *)
(* (tests/test_entity_batch_api.py).                                        *)
OkItemsExist ==
  \A r \in Requests :
    pc[r] = "done" =>
      \A i \in 1 .. Len(items[r]) : results[r][i] => owner[items[r][i]] # Nobody

(* Every batch is done in the end, whatever other batches hold its ids;     *)
(* an item made a deadlock victim does not stop its batch.                  *)
BatchesEnd == \A r \in Requests : pc[r] = "items" ~> pc[r] \in {"done", "lost"}

=============================================================================
