-------------------------- MODULE BatchCreateProofs --------------------------
(***************************************************************************)
(* What a batch creates, for any requests, ids and size of a batch.  BInv  *)
(* ties the rows a request holds uncommitted to the results it has so far: *)
(* they are the items since its last failure, at every step and not only   *)
(* at the end, and nobody else has or is about to have a row with one of   *)
(* their ids.                                                              *)
(***************************************************************************)
EXTENDS BatchCreate, TLAPS

(* The ids of the items r has reported ok since its last failure. *)
KeptIds(r) == {items[r][i] : i \in {j \in 1 .. Len(results[r]) : Kept(r, j)}}

(* Before its first item a request has answered for nothing. *)
Unanswered == \A r \in Requests : pc[r] = "start" => results[r] = <<>>

(* The uncommitted rows of a request are the items it has kept so far. *)
PendIsKept ==
  \A r \in Requests :
    pend[r] = IF pc[r] \in {"items", "answered"} THEN KeptIds(r) ELSE {}

(* No two requests hold a row with the same id, committed or not. *)
OneHolder ==
  \A r \in Requests :
    /\ \A id \in pend[r] : owner[id] = Nobody
    /\ \A q \in Requests \ {r} : pend[q] \cap pend[r] = {}

(* The committed rows of a request are those it had kept at its end. *)
OwnedIsKept ==
  \A r \in Requests :
    {id \in Ids : owner[id] = r} = IF pc[r] = "done" THEN KeptIds(r) ELSE {}

BInv == TypeOK /\ Unanswered /\ PendIsKept /\ OneHolder /\ OwnedIsKept

-----------------------------------------------------------------------------
(* A batch or a list of results is a sequence within the bound. *)
LEMMA Bounded ==
  ASSUME NEW S, NEW n \in Nat, NEW s
  PROVE  s \in BoundedSeq(S, n) <=> s \in Seq(S) /\ Len(s) <= n
<1>1. ASSUME s \in BoundedSeq(S, n) PROVE s \in Seq(S) /\ Len(s) <= n
  <2>1. PICK m \in 0 .. n : s \in [1 .. m -> S]
    BY <1>1 DEF BoundedSeq, SeqOf
  <2>2. QED
    BY <2>1
<1>2. ASSUME s \in Seq(S), Len(s) <= n PROVE s \in BoundedSeq(S, n)
  <2>1. Len(s) \in 0 .. n /\ s \in [1 .. Len(s) -> S]
    BY <1>2
  <2>2. QED
    BY <2>1 DEF BoundedSeq, SeqOf
<1>3. QED
  BY <1>1, <1>2

LEMMA Sequenced ==
  ASSUME TypeOK, NEW r \in Requests
  PROVE  /\ items[r] \in Seq(Ids) /\ results[r] \in Seq(BOOLEAN)
         /\ Len(items[r]) \in Nat /\ Len(results[r]) \in Nat
         /\ Len(items[r]) <= MaxItems /\ Len(results[r]) <= Len(items[r])
<1>1. items[r] \in BoundedSeq(Ids, MaxItems) /\ results[r] \in BoundedSeq(BOOLEAN, MaxItems)
  BY DEF TypeOK
<1>2. QED
  BY <1>1, Bounded, ConstantsAssumption DEF TypeOK

(* One more result: after an ok the item joins those kept, after a failure  *)
(* none is left.                                                            *)
LEMMA KeptStep ==
  ASSUME TypeOK, NEW r \in Requests, AtItem(r), items'[r] = items[r],
         NEW ok \in BOOLEAN, results'[r] = Append(results[r], ok)
  PROVE  /\ Item(r) \in Ids
         /\ results'[r] \in BoundedSeq(BOOLEAN, MaxItems)
         /\ Len(results'[r]) <= Len(items[r])
         /\ KeptIds(r)' = IF ok THEN KeptIds(r) \cup {Item(r)} ELSE {}
<1> DEFINE n == Len(results[r])
           new == results'[r]
<1>1. /\ items[r] \in Seq(Ids) /\ results[r] \in Seq(BOOLEAN)
      /\ n \in Nat /\ Len(items[r]) \in Nat
      /\ Len(items[r]) <= MaxItems /\ n < Len(items[r])
  BY Sequenced DEF AtItem
<1>2. /\ new \in Seq(BOOLEAN) /\ Len(new) = n + 1
      /\ new[n + 1] = ok /\ \A i \in 1 .. n : new[i] = results[r][i]
  BY <1>1
<1>3. Item(r) = items[r][n + 1] /\ Item(r) \in Ids
  BY <1>1 DEF Item
<1>4. new \in BoundedSeq(BOOLEAN, MaxItems) /\ Len(new) <= Len(items[r])
  <2>1. MaxItems \in Nat /\ Len(new) <= MaxItems /\ Len(new) <= Len(items[r])
    BY <1>1, <1>2, ConstantsAssumption
  <2> HIDE DEF new
  <2>2. QED
    BY <1>2, <2>1, Bounded
<1>5. KeptIds(r)' = {items[r][i] : i \in {j \in 1 .. n + 1 : \A k \in j .. n + 1 : new[k]}}
  BY <1>2 DEF KeptIds, Kept
<1>6. KeptIds(r) = {items[r][i] : i \in {j \in 1 .. n : \A k \in j .. n : results[r][k]}}
  BY DEF KeptIds, Kept
<1>7. CASE ok
  <2>1. ASSUME NEW j \in 1 .. n
        PROVE  (\A k \in j .. n + 1 : new[k]) <=> (\A k \in j .. n : results[r][k])
    BY <1>1, <1>2, <1>7
  <2>2. \A k \in n + 1 .. n + 1 : new[k]
    BY <1>1, <1>2, <1>7
  <2>3. {j \in 1 .. n + 1 : \A k \in j .. n + 1 : new[k]}
          = {j \in 1 .. n : \A k \in j .. n : results[r][k]} \cup {n + 1}
    BY <1>1, <2>1, <2>2
  <2>4. KeptIds(r)' = KeptIds(r) \cup {Item(r)}
    <3> DEFINE A == {j \in 1 .. n : \A k \in j .. n : results[r][k]}
    <3>1. KeptIds(r)' = {items[r][i] : i \in A \cup {n + 1}}
      BY <1>5, <2>3
    <3>2. KeptIds(r) = {items[r][i] : i \in A}
      BY <1>6
    <3> HIDE DEF A, n
    <3>3. QED
      BY <1>3, <3>1, <3>2
  <2>5. QED
    BY <1>3, <1>4, <1>7, <2>4
<1>8. CASE ~ok
  <2>1. {j \in 1 .. n + 1 : \A k \in j .. n + 1 : new[k]} = {}
    BY <1>1, <1>2, <1>8
  <2>2. QED
    BY <1>3, <1>4, <1>5, <1>8, <2>1
<1>9. QED
  BY <1>7, <1>8

(* What a request has kept depends on its own items and results only. *)
LEMMA KeptSame ==
  ASSUME NEW r, items'[r] = items[r], results'[r] = results[r]
  PROVE  KeptIds(r)' = KeptIds(r)
BY DEF KeptIds, Kept

(* A request not yet at its first item has kept nothing. *)
LEMMA KeptNothing ==
  ASSUME NEW r, results[r] = <<>>
  PROVE  KeptIds(r) = {}
BY DEF KeptIds

-----------------------------------------------------------------------------
LEMMA InitBInv == Init => BInv
<1> SUFFICES ASSUME Init PROVE BInv
  OBVIOUS
<1>1. <<>> \in BoundedSeq(Ids, MaxItems) /\ <<>> \in BoundedSeq(BOOLEAN, MaxItems)
  <2>1. <<>> \in Seq(Ids) /\ <<>> \in Seq(BOOLEAN) /\ Len(<<>>) = 0
    OBVIOUS
  <2>2. MaxItems \in Nat /\ 0 <= MaxItems
    BY ConstantsAssumption
  <2>3. QED
    BY <2>1, <2>2, Bounded
<1>2. TypeOK
  BY <1>1 DEF Init, TypeOK
<1>3. Unanswered /\ PendIsKept /\ OneHolder
  BY DEF Init, Unanswered, PendIsKept, OneHolder
<1>4. OwnedIsKept
  BY ConstantsAssumption DEF Init, OwnedIsKept
<1>5. QED
  BY <1>2, <1>3, <1>4 DEF BInv

LEMMA ReceiveBInv ==
  ASSUME BInv, NEW r \in Requests, Receive(r)
  PROVE  BInv'
<1> USE DEF BInv
<1>1. PICK batch \in BoundedSeq(Ids, MaxItems) \ {<<>>} : items' = [items EXCEPT ![r] = batch]
  BY DEF Receive
<1>2. results[r] = <<>> /\ Len(results[r]) = 0
  BY DEF Receive, Unanswered
<1>3. batch \in Seq(Ids) /\ Len(batch) \in Nat /\ items'[r] = batch
  BY <1>1, Bounded, ConstantsAssumption DEF TypeOK
<1>4. TypeOK'
  BY <1>1, <1>2, <1>3 DEF Receive, TypeOK
<1>5. KeptIds(r) = {} /\ KeptIds(r)' = {}
  BY <1>2, KeptNothing DEF Receive, KeptIds
<1>6. ASSUME NEW q \in Requests \ {r}
      PROVE  KeptIds(q)' = KeptIds(q) /\ pc'[q] = pc[q]
  BY <1>1, KeptSame DEF Receive, TypeOK
<1>7. pc[r] = "start" /\ pc'[r] = "items"
  BY DEF Receive, TypeOK
<1>8. PendIsKept'
  BY <1>5, <1>6, <1>7 DEF Receive, PendIsKept
<1>9. OwnedIsKept'
  BY <1>5, <1>6, <1>7 DEF Receive, OwnedIsKept
<1>10. (Unanswered /\ OneHolder)'
  BY <1>6, <1>7 DEF Receive, Unanswered, OneHolder
<1>11. QED
  BY <1>4, <1>8, <1>9, <1>10

LEMMA ItemOkBInv ==
  ASSUME BInv, NEW r \in Requests, ItemOk(r)
  PROVE  BInv'
<1> USE DEF BInv
<1> DEFINE id == Item(r)
<1>1. AtItem(r) /\ pc[r] = "items" /\ items'[r] = items[r] /\ results'[r] = Append(results[r], TRUE)
  BY DEF ItemOk, AtItem, TypeOK
<1>2. /\ id \in Ids
      /\ results'[r] \in BoundedSeq(BOOLEAN, MaxItems)
      /\ Len(results'[r]) <= Len(items[r])
      /\ KeptIds(r)' = KeptIds(r) \cup {id}
  BY <1>1, KeptStep
<1>3. /\ owner[id] = Nobody /\ \A q \in Requests : id \notin pend[q]
  BY DEF ItemOk, Rivals, IdTaken
<1>4. /\ pend'[r] = pend[r] \cup {id}
      /\ \A q \in Requests \ {r} : pend'[q] = pend[q] /\ results'[q] = results[q]
      /\ owner' = owner /\ pc' = pc /\ items' = items
  BY DEF ItemOk, TypeOK
<1> HIDE DEF id
<1>5. ASSUME NEW q \in Requests \ {r} PROVE KeptIds(q)' = KeptIds(q)
  BY <1>4, KeptSame
<1>6. TypeOK'
  <2>1. pend' \in [Requests -> SUBSET Ids]
    BY <1>2 DEF ItemOk, TypeOK, id
  <2>2. results' \in [Requests -> BoundedSeq(BOOLEAN, MaxItems)]
    BY <1>2, <1>4 DEF ItemOk, TypeOK
  <2>3. ASSUME NEW q \in Requests
        PROVE  /\ Len(results'[q]) <= Len(items[q])
               /\ pc[q] \in {"answered", "done"} => Len(results'[q]) = Len(items[q])
    BY <1>1, <1>2, <1>4 DEF TypeOK
  <2>4. QED
    BY <1>4, <2>1, <2>2, <2>3 DEF TypeOK
<1>7. PendIsKept'
  BY <1>1, <1>2, <1>4, <1>5 DEF PendIsKept
<1>8. OwnedIsKept'
  BY <1>1, <1>4, <1>5 DEF OwnedIsKept
<1>9. OneHolder'
  BY <1>3, <1>4 DEF OneHolder
<1>10. Unanswered'
  BY <1>1, <1>4 DEF Unanswered
<1>11. QED
  BY <1>6, <1>7, <1>8, <1>9, <1>10

LEMMA ItemFailsBInv ==
  ASSUME BInv, NEW r \in Requests, ItemFails(r)
  PROVE  BInv'
<1> USE DEF BInv
<1>1. AtItem(r) /\ pc[r] = "items" /\ items'[r] = items[r] /\ results'[r] = Append(results[r], FALSE)
  BY DEF ItemFails, AtItem, TypeOK
<1>2. /\ results'[r] \in BoundedSeq(BOOLEAN, MaxItems)
      /\ Len(results'[r]) <= Len(items[r])
      /\ KeptIds(r)' = {}
  BY <1>1, KeptStep
<1>3. /\ pend'[r] = {}
      /\ \A q \in Requests \ {r} : pend'[q] = pend[q] /\ results'[q] = results[q]
      /\ owner' = owner /\ pc' = pc /\ items' = items
  BY DEF ItemFails, RolledBack, TypeOK
<1>4. ASSUME NEW q \in Requests \ {r} PROVE KeptIds(q)' = KeptIds(q)
  BY <1>3, KeptSame
<1>5. TypeOK'
  <2>1. pend' \in [Requests -> SUBSET Ids]
    BY DEF ItemFails, RolledBack, TypeOK
  <2>2. results' \in [Requests -> BoundedSeq(BOOLEAN, MaxItems)]
    BY <1>2, <1>3 DEF ItemFails, TypeOK
  <2>3. ASSUME NEW q \in Requests
        PROVE  /\ Len(results'[q]) <= Len(items[q])
               /\ pc[q] \in {"answered", "done"} => Len(results'[q]) = Len(items[q])
    BY <1>1, <1>2, <1>3 DEF TypeOK
  <2>4. QED
    BY <1>3, <2>1, <2>2, <2>3 DEF TypeOK
<1>6. PendIsKept'
  BY <1>1, <1>2, <1>3, <1>4 DEF PendIsKept
<1>7. OwnedIsKept'
  BY <1>1, <1>3, <1>4 DEF OwnedIsKept
<1>8. OneHolder'
  BY <1>3 DEF OneHolder
<1>9. Unanswered'
  BY <1>1, <1>3 DEF Unanswered
<1>10. QED
  BY <1>5, <1>6, <1>7, <1>8, <1>9

LEMMA AnswerBInv ==
  ASSUME BInv, NEW r \in Requests, Answer(r)
  PROVE  BInv'
<1> USE DEF BInv
<1>1. pc[r] = "items" /\ pc'[r] = "answered" /\ \A q \in Requests \ {r} : pc'[q] = pc[q]
  BY DEF Answer, TypeOK
<1>2. TypeOK'
  BY DEF Answer, TypeOK
<1>3. ASSUME NEW q \in Requests PROVE KeptIds(q)' = KeptIds(q)
  BY KeptSame DEF Answer
<1>4. PendIsKept' /\ OwnedIsKept'
  BY <1>1, <1>3 DEF Answer, PendIsKept, OwnedIsKept
<1>5. Unanswered' /\ OneHolder'
  BY <1>1 DEF Answer, Unanswered, OneHolder
<1>6. QED
  BY <1>2, <1>4, <1>5

LEMMA CommitBInv ==
  ASSUME BInv, NEW r \in Requests, Commit(r)
  PROVE  BInv'
<1> USE DEF BInv
<1>1. /\ pc[r] = "answered" /\ pc'[r] = "done" /\ pend'[r] = {}
      /\ \A q \in Requests \ {r} : pc'[q] = pc[q] /\ pend'[q] = pend[q]
      /\ \A id \in Ids : owner'[id] = IF id \in pend[r] THEN r ELSE owner[id]
      /\ pend[r] \subseteq Ids
  BY DEF Commit, TypeOK
<1>2. TypeOK'
  BY DEF Commit, TypeOK
<1>3. ASSUME NEW q \in Requests PROVE KeptIds(q)' = KeptIds(q)
  BY KeptSame DEF Commit
<1>4. PendIsKept'
  BY <1>1, <1>3 DEF PendIsKept
<1>5. OwnedIsKept'
  <2>1. {id \in Ids : owner'[id] = r} = KeptIds(r)
    <3>1. {id \in Ids : owner[id] = r} = {}
      BY <1>1 DEF OwnedIsKept
    <3>2. pend[r] = KeptIds(r)
      BY <1>1 DEF PendIsKept
    <3>3. QED
      BY <1>1, <3>1, <3>2
  <2>2. ASSUME NEW q \in Requests \ {r}
        PROVE  {id \in Ids : owner'[id] = q} = {id \in Ids : owner[id] = q}
    <3>1. \A id \in pend[r] : owner[id] # q /\ owner'[id] # q
      BY <1>1, ConstantsAssumption DEF OneHolder
    <3>2. QED
      BY <1>1, <3>1
  <2>3. QED
    BY <1>1, <1>3, <2>1, <2>2 DEF OwnedIsKept
<1>6. OneHolder'
  <2>1. ASSUME NEW q \in Requests \ {r}, NEW id \in pend[q] PROVE owner'[id] = Nobody
    BY <1>1 DEF OneHolder, TypeOK
  <2>2. QED
    BY <1>1, <2>1 DEF OneHolder
<1>7. Unanswered'
  BY <1>1 DEF Commit, Unanswered
<1>8. QED
  BY <1>2, <1>4, <1>5, <1>6, <1>7

LEMMA LoseBInv ==
  ASSUME BInv, NEW r \in Requests, Lose(r)
  PROVE  BInv'
<1> USE DEF BInv
<1>1. /\ pc[r] \in {"items", "answered"} /\ pc'[r] = "lost" /\ pend'[r] = {}
      /\ \A q \in Requests \ {r} : pc'[q] = pc[q] /\ pend'[q] = pend[q]
  BY DEF Lose, TypeOK
<1>2. TypeOK'
  BY DEF Lose, TypeOK
<1>3. ASSUME NEW q \in Requests PROVE KeptIds(q)' = KeptIds(q)
  BY KeptSame DEF Lose
<1>4. PendIsKept' /\ OwnedIsKept'
  BY <1>1, <1>3 DEF Lose, PendIsKept, OwnedIsKept
<1>5. OneHolder' /\ Unanswered'
  BY <1>1 DEF Lose, OneHolder, Unanswered
<1>6. QED
  BY <1>2, <1>4, <1>5

LEMMA NextBInv == BInv /\ [Next]_vars => BInv'
<1> SUFFICES ASSUME BInv, [Next]_vars PROVE BInv'
  OBVIOUS
<1>1. ASSUME NEW r \in Requests, Receive(r) \/ ItemOk(r)
      PROVE  BInv'
  BY <1>1, ReceiveBInv, ItemOkBInv
<1>2. ASSUME NEW r \in Requests, Duplicate(r) \/ OtherError(r) \/ DeadlockVictim(r)
      PROVE  BInv'
  BY <1>2, ItemFailsBInv DEF Duplicate, OtherError, DeadlockVictim
<1>3. ASSUME NEW r \in Requests, Answer(r) \/ Commit(r) \/ Lose(r)
      PROVE  BInv'
  BY <1>3, AnswerBInv, CommitBInv, LoseBInv
<1>4. CASE UNCHANGED vars
  <2>1. \A r \in Requests : KeptIds(r)' = KeptIds(r)
    BY <1>4, KeptSame DEF vars
  <2>2. QED
    BY <1>4, <2>1
       DEF vars, BInv, TypeOK, Unanswered, PendIsKept, OneHolder, OwnedIsKept
<1>5. QED
  BY <1>1, <1>2, <1>3, <1>4 DEF Next

(* Every reachable state of the batches has the stated types. *)
THEOREM BatchTypeCorrect == Spec => []TypeOK
<1>1. BInv => TypeOK
  BY DEF BInv
<1>2. QED
  BY InitBInv, NextBInv, <1>1, PTL DEF Spec

(* A batch that is over has made exactly the items after its last failure,  *)
(* and a lost one nothing, however many batches race for the same ids.      *)
THEOREM BatchKeepsItems == Spec => []KeepsItemsAfterLastFailure
<1>1. BInv => KeepsItemsAfterLastFailure
  <2> SUFFICES ASSUME BInv, NEW r \in Requests, pc[r] \in {"done", "lost"}
               PROVE  {id \in Ids : owner[id] = r} =
                        IF pc[r] = "lost" THEN {}
                        ELSE {items[r][i] : i \in {j \in 1 .. Len(items[r]) : Kept(r, j)}}
    BY DEF KeepsItemsAfterLastFailure
  <2>1. CASE pc[r] = "lost"
    BY <2>1 DEF BInv, OwnedIsKept
  <2>2. CASE pc[r] = "done"
    <3>1. Len(results[r]) = Len(items[r])
      BY <2>2 DEF BInv, TypeOK
    <3>2. QED
      BY <2>2, <3>1 DEF BInv, OwnedIsKept, KeptIds
  <2>3. QED
    BY <2>1, <2>2
<1>2. QED
  BY InitBInv, NextBInv, <1>1, PTL DEF Spec
=============================================================================
