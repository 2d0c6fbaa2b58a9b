---------------------------- MODULE ShortIdsProofs ----------------------------
(***************************************************************************)
(* Proofs about ShortIds, for any number of sessions, entities, projects   *)
(* and types and any hash of the lock keys.                                *)
(*                                                                         *)
(* A row may be committed only with its number if it has a project.  That  *)
(* is not inductive by itself: GInv adds what the uncommitted rows and the *)
(* items in progress must look like for a commit to install such rows,     *)
(* also when entities gain a project or move to another one meanwhile.     *)
(* The second half is about the series in which no short id has changed.   *)
(***************************************************************************)
EXTENDS ShortIds, MaxLemmas

Busy(t) == pc[t] \notin {"idle", "open"}

(* A row has a number iff it has a project. *)
Scoped(r) == r.seq # 0 <=> r.project # NoProject

-----------------------------------------------------------------------------
(* Row locks: one writer per entity. *)
PendAlone ==
  \A t, u \in Txns, e \in Entities :
    pend[t][e] # NoRow /\ pend[u][e] # NoRow => t = u

(* Between autoflush and flush, the row an item works on may have its       *)
(* project and not yet its number; no other uncommitted row may.            *)
PendScoped ==
  \A t \in Txns, e \in Entities :
    pend[t][e] # NoRow =>
      \/ Scoped(pend[t][e])
      \/ /\ pc[t] = "max" \/ (pc[t] = "write" /\ next[t] # 0)
         /\ e = job[t].entity /\ job[t].seen # NoRow
         /\ pend[t][e].project # NoProject

(* No update takes an entity out of all projects. *)
PendKeepsScope ==
  \A t \in Txns, e \in Entities :
    /\ pend[t][e] # NoRow
    /\ row[e] # NoRow
    /\ row[e].project # NoProject
    => pend[t][e].project # NoProject

(* An item in progress: the row it loaded is still there, in a project if   *)
(* it was in one; a number is on its way iff the item first gives a project.*)
ItemScoped(t) ==
  LET j == job[t] IN
    /\ j.seen # NoRow =>
         /\ Scoped(j.seen)
         /\ View(t)[j.entity] # NoRow
         /\ j.seen.project # NoProject => View(t)[j.entity].project # NoProject
         /\ j.project = NoProject => j.seen.project = NoProject
    /\ pc[t] # "write" => j.project # NoProject
    /\ pc[t] = "autoflush" => j.seen # NoRow
    /\ pc[t] = "write" /\ j.seen = NoRow => (next[t] # 0 <=> j.project # NoProject)
    /\ pc[t] = "write" /\ j.seen # NoRow /\ next[t] = 0 /\ j.project # NoProject
         => j.seen.project # NoProject
    /\ next[t] # 0 => j.project # NoProject

JobScoped ==
  \A t \in Txns :
    /\ next[t] # 0 => pc[t] = "write"
    /\ Busy(t) => ItemScoped(t)

GInv ==
  /\ TypeOK
  /\ NumberedIffScoped
  /\ PendAlone /\ PendScoped /\ PendKeepsScope /\ JobScoped

LEMMA ViewType ==
  ASSUME TypeOK, NEW t \in Txns
  PROVE  View(t) \in [Entities -> Row \cup {NoRow}]
BY DEF TypeOK, View

(* MAX(short_seq) of a finite table is a number. *)
LEMMA LastShortSeqType ==
  ASSUME NEW table \in [Entities -> Row \cup {NoRow}],
         NEW p \in Projects, NEW ty \in Types
  PROVE  /\ LastShortSeq(table, p, ty) \in Nat
         /\ \A n \in UsedSeqs(table, p, ty) : n <= LastShortSeq(table, p, ty)
<1> DEFINE H == {x \in Entities : Numbered(table[x], p, ty)}
           S == UsedSeqs(table, p, ty)
           f == [x \in H |-> table[x].seq]
<1>1. IsFiniteSet(H)
  BY ConstantsAssumption, FS_Subset
<1>2. \A x \in H : table[x] \in Row
  BY DEF Numbered
<1>3. S \in SUBSET Nat
  BY <1>2 DEF UsedSeqs, Row
<1>4. f \in Surjection(H, S)
  BY DEF Surjection, UsedSeqs
<1>5. IsFiniteSet(S)
  BY <1>1, <1>4, FS_Surjection
<1>6. QED
  BY <1>3, <1>5, MaxOrZero DEF LastShortSeq

LEMMA NewRowType ==
  ASSUME TypeOK, NEW t \in Txns, job[t] \in Jobs,
         job[t].seen # NoRow => View(t)[job[t].entity] # NoRow
  PROVE  NewRow(t) \in Row
<1>1. CASE job[t].seen = NoRow
  BY <1>1 DEF NewRow, TypeOK, Row, Jobs
<1>2. CASE job[t].seen # NoRow
  <2>1. View(t)[job[t].entity] \in Row
    BY <1>2, ViewType DEF Jobs
  <2>2. QED
    BY <1>2, <2>1 DEF NewRow, TypeOK, Row, Jobs
<1>3. QED
  BY <1>1, <1>2

LEMMA RewritingType ==
  ASSUME TypeOK, NEW t \in Txns
  PROVE  Rewriting(t) \in SUBSET (ProjectIds \X Types)
<1>1. ASSUME NEW e \in Entities
      PROVE  RewrittenBy(row[e], View(t)[e]) \in SUBSET (ProjectIds \X Types)
  <2>1. CASE row[e] = NoRow
    BY <2>1 DEF RewrittenBy
  <2>2. CASE row[e] # NoRow
    <3>1. row[e] \in Row /\ View(t)[e] \in Row
      BY <2>2 DEF TypeOK, View
    <3>2. QED
      BY <3>1 DEF RewrittenBy, Row
  <2>3. QED
    BY <2>1, <2>2
<1>2. QED
  BY <1>1 DEF Rewriting

LEMMA InitGInv == Init => GInv
BY ConstantsAssumption
   DEF Init, GInv, TypeOK, NumberedIffScoped, PendAlone, PendScoped,
       PendKeepsScope, JobScoped, Busy

(* A request that takes up an item touches only its own bookkeeping. *)
LEMMA TakeUpGInv ==
  ASSUME GInv, NEW t \in Txns, NEW j \in Jobs, NEW step \in {"lock", "write"},
         TakeUp(t, j, step),
         j.seen # NoRow =>
           /\ Scoped(j.seen) /\ j.seen = View(t)[j.entity]
           /\ j.project = NoProject => j.seen.project = NoProject
           /\ step = "write" /\ j.project # NoProject => j.seen.project # NoProject,
         step = "lock" => j.project # NoProject,
         step = "write" /\ j.seen = NoRow => j.project = NoProject
  PROVE  GInv'
<1> USE DEF GInv
<1>1. TypeOK'
  BY DEF TypeOK, TakeUp, Jobs
<1>2. (NumberedIffScoped /\ PendAlone /\ PendKeepsScope)'
  BY DEF NumberedIffScoped, PendAlone, PendKeepsScope, TakeUp
<1>3. PendScoped'
  BY DEF PendScoped, TakeUp, TypeOK
<1>4. JobScoped'
  <2> SUFFICES ASSUME NEW u \in Txns
               PROVE  /\ (next[u] # 0 => pc[u] = "write")'
                      /\ (Busy(u) => ItemScoped(u))'
    BY DEF JobScoped
  <2>1. CASE u = t
    <3>1. View(t)' = View(t)
      BY DEF TakeUp, View
    <3>2. next[t] = 0
      BY DEF JobScoped, TakeUp
    <3>3. pc'[t] = step /\ job'[t] = j /\ next'[t] = 0
      BY <3>2 DEF TakeUp, TypeOK
    <3>4. QED
      BY <2>1, <3>1, <3>3 DEF ItemScoped
  <2>2. CASE u # t
    <3>1. View(u)' = View(u)
      BY DEF TakeUp, View
    <3>2. pc'[u] = pc[u] /\ job'[u] = job[u] /\ next'[u] = next[u]
      BY <2>2 DEF TakeUp, TypeOK
    <3>3. QED
      BY <3>1, <3>2 DEF JobScoped, ItemScoped, Busy
  <2>3. QED
    BY <2>1, <2>2
<1>5. QED
  BY <1>1, <1>2, <1>3, <1>4

LEMMA CreateGInv ==
  ASSUME GInv, NEW t \in Txns, NEW e \in Entities, NEW p \in ProjectIds, NEW ty \in Types,
         Create(t, e, p, ty)
  PROVE  GInv'
<1> DEFINE j == [entity |-> e, project |-> p, type |-> ty, seen |-> NoRow, dirty |-> TRUE]
           step == IF p = NoProject THEN "write" ELSE "lock"
<1>1. j \in Jobs /\ j.seen = NoRow
  BY DEF Jobs
<1>2. TakeUp(t, j, step)
  BY DEF Create
<1> HIDE DEF j
<1>3. j.project = p
  BY DEF j
<1>4. QED
  BY <1>1, <1>2, <1>3, TakeUpGInv

LEMMA UpdateGInv ==
  ASSUME GInv, NEW t \in Txns, NEW e \in Entities, NEW p \in ProjectIds, NEW d \in BOOLEAN,
         Update(t, e, p, d)
  PROVE  GInv'
<1> DEFINE seen == View(t)[e]
           project == Named(p, seen)
           j == [entity |-> e, project |-> project, type |-> seen.type,
                 seen |-> seen, dirty |-> d]
           step == IF NeedsNumber(p, seen) THEN "lock" ELSE "write"
<1>1. TakeUp(t, j, step) /\ seen # NoRow
  BY DEF Update
<1>2. seen \in Row
  BY <1>1, ViewType DEF GInv
<1>3. j \in Jobs
  BY <1>2 DEF Jobs, Row, ProjectIds, Named
<1>4. Scoped(seen)
  <2>1. pc[t] \notin {"max", "write"}
    BY <1>1 DEF TakeUp
  <2>2. QED
    BY <1>1, <2>1 DEF GInv, PendScoped, NumberedIffScoped, View, Scoped
<1>5. /\ j.seen = seen /\ j.entity = e /\ j.project = project
  OBVIOUS
<1> HIDE DEF j
<1>6. project = NoProject => seen.project = NoProject
  BY DEF Named
<1>7. step = "write" /\ project # NoProject => seen.project # NoProject
  BY <1>4 DEF Scoped, NeedsNumber, Named
<1>8. step = "lock" => project # NoProject
  BY DEF NeedsNumber, Named
<1>9. QED
  BY <1>1, <1>3, <1>4, <1>5, <1>6, <1>7, <1>8, TakeUpGInv

LEMMA AcquireLockGInv ==
  ASSUME GInv, NEW t \in Txns, AcquireLock(t)
  PROVE  GInv'
<1> USE DEF GInv
<1>1. LockKey(t) \in LockKeys
  BY ConstantsAssumption DEF AcquireLock, LockKey, TypeOK, JobScoped, Busy, ItemScoped, Jobs, ProjectIds
<1>2. TypeOK'
  BY <1>1 DEF TypeOK, AcquireLock
<1>3. (NumberedIffScoped /\ PendAlone /\ PendKeepsScope)'
  BY DEF NumberedIffScoped, PendAlone, PendKeepsScope, AcquireLock
<1>4. PendScoped'
  BY DEF PendScoped, AcquireLock, TypeOK
<1>5. ASSUME NEW u \in Txns PROVE View(u)' = View(u)
  BY DEF View, AcquireLock
<1>6. JobScoped'
  BY <1>5 DEF JobScoped, ItemScoped, Busy, AcquireLock, TypeOK
<1>7. QED
  BY <1>2, <1>3, <1>4, <1>6

LEMMA ReadMaxGInv ==
  ASSUME GInv, NEW t \in Txns, ReadMax(t)
  PROVE  GInv'
<1> USE DEF GInv
<1> DEFINE n == NextShortSeq(View(t), job[t].project, job[t].type)
<1>1. job[t].project \in Projects /\ job[t].type \in Types
  BY DEF ReadMax, TypeOK, JobScoped, Busy, ItemScoped, Jobs, ProjectIds
<1>2. n \in Nat \ {0}
  <2>1. LastShortSeq(View(t), job[t].project, job[t].type) \in Nat
    BY <1>1, ViewType, LastShortSeqType
  <2>2. QED
    BY <2>1 DEF NextShortSeq
<1> HIDE DEF n
<1>3. next' = [next EXCEPT ![t] = n] /\ pc' = [pc EXCEPT ![t] = "write"]
  BY DEF ReadMax, n
<1>4. TypeOK'
  BY <1>2, <1>3 DEF TypeOK, ReadMax
<1>5. (NumberedIffScoped /\ PendAlone /\ PendKeepsScope)'
  BY DEF NumberedIffScoped, PendAlone, PendKeepsScope, ReadMax
<1>6. PendScoped'
  BY <1>2, <1>3 DEF PendScoped, ReadMax, TypeOK
<1>7. ASSUME NEW u \in Txns PROVE View(u)' = View(u)
  BY DEF View, ReadMax
<1>8. JobScoped'
  BY <1>1, <1>2, <1>3, <1>7, ConstantsAssumption
     DEF JobScoped, ItemScoped, Busy, ReadMax, TypeOK
<1>9. QED
  BY <1>4, <1>5, <1>6, <1>8

(* The row a flush writes is in a project if the entity already was, and    *)
(* has its number unless the number is still to be read.                    *)
LEMMA NewRowScoped ==
  ASSUME GInv, NEW t \in Txns, pc[t] \in {"autoflush", "write"}
  PROVE  /\ NewRow(t) \in Row
         /\ pc[t] = "write" => Scoped(NewRow(t))
         /\ pc[t] = "autoflush" => NewRow(t).project # NoProject
         /\ /\ job[t].seen # NoRow
            /\ View(t)[job[t].entity].project # NoProject
            => NewRow(t).project # NoProject
<1> USE DEF GInv
<1> DEFINE j == job[t]
           base == View(t)[j.entity]
<1>1. j \in Jobs /\ ItemScoped(t) /\ (next[t] # 0 => pc[t] = "write")
  BY DEF TypeOK, JobScoped, Busy
<1>2. NewRow(t) \in Row
  BY <1>1, NewRowType DEF ItemScoped
<1>3. CASE j.seen = NoRow
  BY <1>1, <1>2, <1>3 DEF ItemScoped, NewRow, Scoped, Jobs, TypeOK
<1>4. CASE j.seen # NoRow
  <2>1. base \in Row /\ j.seen \in Row /\ j.entity \in Entities
    BY <1>1, <1>4, ViewType DEF ItemScoped, Jobs
  <2>2. /\ NewRow(t).project = IF j.project # j.seen.project THEN j.project ELSE base.project
        /\ NewRow(t).seq = IF next[t] # 0 THEN next[t] ELSE base.seq
    BY <1>4 DEF NewRow
  <2>3. base.project # NoProject => NewRow(t).project # NoProject
    BY <1>1, <1>4, <2>2 DEF ItemScoped
  <2>4. next[t] = 0 /\ pc[t] = "write" => Scoped(base)
    BY <1>1, <1>4, <2>1 DEF ItemScoped, PendScoped, NumberedIffScoped, View, Scoped
  <2>5. pc[t] = "write" => Scoped(NewRow(t))
    BY <1>1, <1>4, <2>2, <2>4 DEF ItemScoped, Scoped
  <2>6. pc[t] = "autoflush" => NewRow(t).project # NoProject
    BY <1>1, <1>4, <2>2 DEF ItemScoped
  <2>7. QED
    BY <1>2, <2>3, <2>5, <2>6
<1>5. QED
  BY <1>3, <1>4

(* What a flush does to the uncommitted rows: nothing, or one new version   *)
(* of a row that no other transaction is writing.                           *)
LEMMA FlushEffect ==
  ASSUME GInv, NEW t \in Txns, Flush(t), pc[t] \in {"autoflush", "write"}
  PROVE  LET e == job[t].entity IN
         /\ e \in Entities
         /\ \/ pend' = pend /\ ~Emits(t)
            \/ /\ pend' = [pend EXCEPT ![t] = [@ EXCEPT ![e] = NewRow(t)]]
               /\ Emits(t)
               /\ NewRow(t) \in Row
               /\ \A u \in Txns \ {t} : pend[u][e] = NoRow
               /\ job[t].seen = NoRow => row[e] = NoRow
<1>1. job[t] \in Jobs /\ job[t].entity \in Entities
  BY DEF GInv, TypeOK, Jobs
<1>2. NewRow(t) \in Row
  BY NewRowScoped
<1>3. CASE Emits(t)
  BY <1>1, <1>2, <1>3 DEF Flush, Blocked, Rejected, Rivals, IdTaken
<1>4. CASE ~Emits(t)
  BY <1>1, <1>4 DEF Flush
<1>5. QED
  BY <1>3, <1>4

LEMMA FlushGInv ==
  ASSUME GInv, NEW t \in Txns, Flush(t),
         \/ pc[t] = "autoflush" /\ pc' = [pc EXCEPT ![t] = "max"] /\ UNCHANGED <<job, next>>
         \/ /\ pc[t] = "write" /\ pc' = [pc EXCEPT ![t] = "open"]
            /\ job' = [job EXCEPT ![t] = NoJob] /\ next' = [next EXCEPT ![t] = 0]
  PROVE  GInv'
<1> USE DEF GInv
<1> DEFINE e == job[t].entity
<1>1. e \in Entities /\ row' = row
  BY FlushEffect DEF Flush
<1>10. ASSUME pend' \in [Txns -> [Entities -> Row \cup {NoRow}]] PROVE TypeOK'
  <2>1. CASE pc[t] = "autoflush" /\ pc' = [pc EXCEPT ![t] = "max"] /\ UNCHANGED <<job, next>>
    BY <1>10, <2>1 DEF TypeOK, Flush
  <2>2. CASE /\ pc[t] = "write" /\ pc' = [pc EXCEPT ![t] = "open"]
             /\ job' = [job EXCEPT ![t] = NoJob] /\ next' = [next EXCEPT ![t] = 0]
    BY <1>10, <2>2 DEF TypeOK, Flush
  <2>3. QED
    BY <2>1, <2>2
<1>2. CASE pend' = pend /\ ~Emits(t)
  <2>1. TypeOK'
    BY <1>10, <1>2 DEF TypeOK
  <2>2. (NumberedIffScoped /\ PendAlone /\ PendKeepsScope)'
    BY <1>1, <1>2 DEF NumberedIffScoped, PendAlone, PendKeepsScope
  <2>3. PendScoped'
    <3>1. job[t].seen # NoRow /\ next[t] = 0
      BY <1>2 DEF Emits
    <3>2. ASSUME NEW u \in Txns, NEW f \in Entities, pend[u][f] # NoRow, u # t
          PROVE  pc'[u] = pc[u] /\ job'[u] = job[u] /\ next'[u] = next[u]
      BY <3>2 DEF TypeOK
    <3>3. ASSUME NEW f \in Entities, pend[t][f] # NoRow PROVE Scoped(pend[t][f])
      BY <3>1, <3>3 DEF PendScoped
    <3>4. QED
      BY <1>2, <3>2, <3>3 DEF PendScoped, Scoped
  <2>4. ASSUME NEW u \in Txns PROVE View(u)' = View(u)
    BY <1>1, <1>2 DEF View
  <2>5. JobScoped'
    BY <2>4 DEF JobScoped, ItemScoped, Busy, TypeOK
  <2>6. QED
    BY <2>1, <2>2, <2>3, <2>5
<1>3. CASE /\ pend' = [pend EXCEPT ![t] = [@ EXCEPT ![e] = NewRow(t)]]
           /\ NewRow(t) \in Row
           /\ \A u \in Txns \ {t} : pend[u][e] = NoRow
           /\ job[t].seen = NoRow => row[e] = NoRow
  <2> DEFINE r == NewRow(t)
  <2>1. /\ r \in Row
        /\ pc[t] = "write" => Scoped(r)
        /\ pc[t] = "autoflush" => r.project # NoProject
        /\ job[t].seen # NoRow /\ View(t)[e].project # NoProject => r.project # NoProject
    BY NewRowScoped
  <2> HIDE DEF r
  <2>2. /\ pend'[t] = [pend[t] EXCEPT ![e] = r]
        /\ \A u \in Txns \ {t} : pend'[u] = pend[u]
    BY <1>1, <1>3 DEF TypeOK, r
  <2>3. pend' \in [Txns -> [Entities -> Row \cup {NoRow}]]
    BY <1>1, <1>3, <2>1 DEF TypeOK, r
  <2>4. TypeOK'
    BY <1>10, <2>3
  <2>5. NumberedIffScoped'
    BY <1>1 DEF NumberedIffScoped
  <2>6. PendAlone'
    BY <1>1, <1>3, <2>2 DEF PendAlone, TypeOK
  <2>7. PendScoped'
    <3> SUFFICES ASSUME NEW u \in Txns, NEW f \in Entities, pend'[u][f] # NoRow
                 PROVE  \/ Scoped(pend'[u][f])
                        \/ /\ pc'[u] = "max" \/ (pc'[u] = "write" /\ next'[u] # 0)
                           /\ f = job'[u].entity /\ job'[u].seen # NoRow
                           /\ pend'[u][f].project # NoProject
      BY DEF PendScoped, Scoped
    <3>1. CASE u # t
      BY <2>2, <3>1 DEF PendScoped, TypeOK
    <3>2. CASE u = t /\ f # e
      <4>1. pend'[t][f] = pend[t][f]
        BY <2>2, <3>2 DEF TypeOK
      <4>2. QED
        BY <3>2, <4>1 DEF PendScoped
    <3>3. CASE u = t /\ f = e
      <4>1. pend'[t][e] = r
        BY <1>1, <2>2 DEF TypeOK
      <4>2. pc[t] = "autoflush" => job[t].seen # NoRow
        BY DEF JobScoped, ItemScoped, Busy
      <4>3. QED
        BY <2>1, <3>3, <4>1, <4>2 DEF TypeOK
    <3>4. QED
      BY <3>1, <3>2, <3>3
  <2>8. PendKeepsScope'
    <3> SUFFICES ASSUME NEW u \in Txns, NEW f \in Entities, pend'[u][f] # NoRow,
                        row[f] # NoRow, row[f].project # NoProject
                 PROVE  pend'[u][f].project # NoProject
      BY <1>1 DEF PendKeepsScope
    <3>1. CASE u # t \/ f # e
      BY <1>1, <2>2, <3>1 DEF PendKeepsScope, TypeOK
    <3>2. CASE u = t /\ f = e
      <4>1. job[t].seen # NoRow
        BY <1>3, <3>2
      <4>2. View(t)[e].project # NoProject
        BY <1>1, <3>2 DEF View, PendKeepsScope
      <4>3. QED
        BY <1>1, <2>1, <2>2, <3>2, <4>1, <4>2 DEF TypeOK
    <3>3. QED
      BY <3>1, <3>2
  <2>9. JobScoped'
    <3> SUFFICES ASSUME NEW u \in Txns
                 PROVE  /\ (next[u] # 0 => pc[u] = "write")'
                        /\ (Busy(u) => ItemScoped(u))'
      BY DEF JobScoped
    <3>1. CASE u # t
      <4>1. View(u)' = View(u)
        BY <1>1, <2>2, <3>1 DEF View
      <4>2. pc'[u] = pc[u] /\ job'[u] = job[u] /\ next'[u] = next[u]
        BY <3>1 DEF TypeOK
      <4>3. QED
        BY <4>1, <4>2 DEF JobScoped, ItemScoped, Busy
    <3>2. CASE u = t /\ pc[t] = "write"
      BY <3>2 DEF Busy, TypeOK
    <3>3. CASE u = t /\ pc[t] = "autoflush"
      <4>1. View(t)'[e] = r
        BY <1>1, <2>1, <2>2, ConstantsAssumption DEF View, TypeOK
      <4>2. /\ pc'[t] = "max" /\ job'[t] = job[t] /\ next'[t] = next[t]
            /\ r # NoRow
        BY <2>1, <3>3, ConstantsAssumption DEF TypeOK
      <4>3. ItemScoped(t) /\ (next[t] # 0 => pc[t] = "write")
        BY <3>3 DEF JobScoped, Busy
      <4>4. QED
        BY <2>1, <3>3, <4>1, <4>2, <4>3 DEF ItemScoped
    <3>4. QED
      BY <3>1, <3>2, <3>3
  <2>10. QED
    BY <2>4, <2>5, <2>6, <2>7, <2>8, <2>9
<1>4. QED
  BY <1>2, <1>3, FlushEffect

LEMMA AutoflushGInv == ASSUME GInv, NEW t \in Txns, Autoflush(t) PROVE GInv'
BY FlushGInv DEF Autoflush

LEMMA WriteGInv == ASSUME GInv, NEW t \in Txns, Write(t) PROVE GInv'
BY FlushGInv DEF Write

(* The end of a transaction, with or without its rows. *)
LEMMA EndGInv ==
  ASSUME GInv, NEW t \in Txns, End(t),
         \/ UNCHANGED <<row, rewritten>>
         \/ /\ pc[t] = "open" /\ row' = View(t)
            /\ rewritten' = rewritten \cup Rewriting(t)
  PROVE  GInv'
<1> USE DEF GInv
<1>1. /\ pend'[t] = [e \in Entities |-> NoRow]
      /\ \A u \in Txns \ {t} : pend'[u] = pend[u]
  BY DEF End, TypeOK
<1>2. row' \in [Entities -> Row \cup {NoRow}]
  BY ViewType DEF TypeOK
<1>3. ASSUME NEW e \in Entities
      PROVE  \/ row'[e] = row[e]
             \/ row'[e] = pend[t][e] /\ pend[t][e] # NoRow /\ Scoped(pend[t][e])
  BY DEF View, PendScoped
<1>4. TypeOK'
  <2>1. rewritten' \in SUBSET (ProjectIds \X Types)
    BY RewritingType DEF TypeOK
  <2>2. QED
    BY <1>2, <2>1 DEF TypeOK, End
<1>5. NumberedIffScoped'
  BY <1>3 DEF NumberedIffScoped, Scoped
<1>6. PendAlone'
  BY <1>1 DEF PendAlone
<1>7. PendScoped'
  <2> SUFFICES ASSUME NEW u \in Txns, NEW e \in Entities, pend'[u][e] # NoRow
               PROVE  \/ Scoped(pend'[u][e])
                      \/ /\ pc'[u] = "max" \/ (pc'[u] = "write" /\ next'[u] # 0)
                         /\ e = job'[u].entity /\ job'[u].seen # NoRow
                         /\ pend'[u][e].project # NoProject
    BY DEF PendScoped, Scoped
  <2>1. u # t
    BY <1>1
  <2>2. pc'[u] = pc[u] /\ next'[u] = next[u] /\ job'[u] = job[u]
    BY <2>1 DEF End, TypeOK
  <2>3. QED
    BY <1>1, <2>1, <2>2 DEF PendScoped
<1>8. PendKeepsScope'
  <2> SUFFICES ASSUME NEW u \in Txns, NEW e \in Entities, pend'[u][e] # NoRow,
                      row'[e] # NoRow, row'[e].project # NoProject
               PROVE  pend'[u][e].project # NoProject
    BY DEF PendKeepsScope
  <2>1. u # t /\ pend'[u][e] = pend[u][e]
    BY <1>1
  <2>2. row'[e] = row[e]
    BY <1>3, <2>1 DEF PendAlone
  <2>3. QED
    BY <2>1, <2>2 DEF PendKeepsScope
<1>9. JobScoped'
  <2> SUFFICES ASSUME NEW u \in Txns
               PROVE  /\ (next[u] # 0 => pc[u] = "write")'
                      /\ (Busy(u) => ItemScoped(u))'
    BY DEF JobScoped
  <2>1. CASE u = t
    BY <2>1 DEF Busy, End, TypeOK
  <2>2. CASE u # t
    <3>1. pc'[u] = pc[u] /\ next'[u] = next[u] /\ job'[u] = job[u]
      BY <2>2 DEF End, TypeOK
    <3>2. ASSUME NEW e \in Entities, View(u)[e] # NoRow
          PROVE  /\ View(u)'[e] # NoRow
                 /\ View(u)[e].project # NoProject => View(u)'[e].project # NoProject
      <4>1. CASE pend[u][e] # NoRow
        BY <1>1, <2>2, <4>1 DEF View
      <4>2. CASE pend[u][e] = NoRow
        <5>1. View(u)[e] = row[e] /\ View(u)'[e] = row'[e]
          BY <1>1, <2>2, <4>2 DEF View
        <5>2. QED
          BY <1>3, <3>2, <5>1 DEF PendKeepsScope
      <4>3. QED
        BY <4>1, <4>2
    <3>3. Busy(u) => job[u].entity \in Entities
      BY DEF Busy, TypeOK, Jobs
    <3>4. QED
      BY <3>1, <3>2, <3>3 DEF JobScoped, ItemScoped, Busy
  <2>3. QED
    BY <2>1, <2>2
<1>10. QED
  BY <1>4, <1>5, <1>6, <1>7, <1>8, <1>9

LEMMA NextGInv == GInv /\ [Next]_vars => GInv'
<1> SUFFICES ASSUME GInv, [Next]_vars PROVE GInv'
  OBVIOUS
<1>1. ASSUME NEW t \in Txns, NEW e \in Entities, NEW p \in ProjectIds, NEW ty \in Types,
             Create(t, e, p, ty)
      PROVE  GInv'
  BY <1>1, CreateGInv
<1>2. ASSUME NEW t \in Txns, NEW e \in Entities, NEW p \in ProjectIds, NEW d \in BOOLEAN,
             Update(t, e, p, d)
      PROVE  GInv'
  BY <1>2, UpdateGInv
<1>3. ASSUME NEW t \in Txns,
             AcquireLock(t) \/ Autoflush(t) \/ ReadMax(t) \/ Write(t)
      PROVE  GInv'
  BY <1>3, AcquireLockGInv, AutoflushGInv, ReadMaxGInv, WriteGInv
<1>4. ASSUME NEW t \in Txns,
             Commit(t) \/ ConstraintError(t) \/ Rollback(t) \/ DeadlockVictim(t)
      PROVE  GInv'
  BY <1>4, EndGInv DEF Commit, ConstraintError, Rollback, DeadlockVictim
<1>5. CASE UNCHANGED vars
  <2>1. ASSUME NEW t \in Txns PROVE View(t)' = View(t)
    BY <1>5 DEF View, vars
  <2>2. QED
    BY <1>5, <2>1
       DEF vars, GInv, TypeOK, NumberedIffScoped, PendAlone, PendScoped,
           PendKeepsScope, JobScoped, ItemScoped, Busy
<1>6. QED
  BY <1>1, <1>2, <1>3, <1>4, <1>5 DEF Next

(* Every reachable state of the numbering has the stated types. *)
THEOREM TypeCorrect == Spec => []TypeOK
<1>1. GInv => TypeOK
  BY DEF GInv
<1>2. QED
  BY InitGInv, NextGInv, <1>1, PTL DEF Spec

(* A committed entity has a number iff it has a project, also when entities *)
(* gain a project or move between projects under concurrent requests.       *)
THEOREM ScopeAndNumber == Spec => []NumberedIffScoped
<1>1. GInv => NumberedIffScoped
  BY DEF GInv
<1>2. QED
  BY InitGInv, NextGInv, <1>1, PTL DEF Spec

-----------------------------------------------------------------------------
(* No two rows of a table have the same key of uq_entity_short_seq. *)
KeysApart(table) ==
  \A e, f \in Entities : e # f => ~SameShortId(table[e], table[f])

(* What makes a unique key hold in every commit, in whatever order they     *)
(* come: the check of a flush covers all the transaction sees, and no two   *)
(* transactions have uncommitted rows with the same key.                    *)
UInv ==
  /\ GInv
  /\ KeysApart(row)
  /\ \A t \in Txns : KeysApart(View(t))
  /\ \A t \in Txns : \A u \in Txns \ {t} : \A e, f \in Entities :
       e # f => ~SameShortId(pend[t][e], pend[u][f])

LEMMA SameShortIdSymmetric ==
  ASSUME NEW r, NEW s, SameShortId(r, s)
  PROVE  SameShortId(s, r)
BY DEF SameShortId

LEMMA InitUInv == Init => UInv
<1> SUFFICES ASSUME Init PROVE UInv
  OBVIOUS
<1>1. \A e \in Entities : row[e] = NoRow /\ \A t \in Txns : pend[t][e] = NoRow /\ View(t)[e] = NoRow
  BY DEF Init, View
<1>2. QED
  BY <1>1, InitGInv DEF UInv, KeysApart, SameShortId

(* A step that writes no row. *)
LEMMA FrameUInv ==
  ASSUME UInv, GInv', UNCHANGED <<row, pend>>
  PROVE  UInv'
<1>1. ASSUME NEW t \in Txns PROVE View(t)' = View(t)
  BY DEF View
<1>2. QED
  BY <1>1 DEF UInv, KeysApart, SameShortId

LEMMA FlushUInv ==
  ASSUME UInv, GInv', NEW t \in Txns, Flush(t), pc[t] \in {"autoflush", "write"}
  PROVE  UInv'
<1> DEFINE e == job[t].entity
           r == NewRow(t)
<1>1. GInv /\ row' = row /\ e \in Entities
  BY FlushEffect DEF UInv, Flush
<1>2. CASE pend' = pend /\ ~Emits(t)
  BY <1>1, <1>2, FrameUInv
<1>3. CASE /\ pend' = [pend EXCEPT ![t] = [@ EXCEPT ![e] = r]]
           /\ Emits(t) /\ r \in Row
  <2>1. /\ Rivals(t, e, r) = {} /\ ~ShortIdTaken(t, e, r)
    BY <1>3 DEF Flush, Blocked, Rejected
  <2>2. \A f \in Entities \ {e} :
          /\ ~SameShortId(View(t)[f], r)
          /\ \A u \in Txns \ {t} : ~SameShortId(pend[u][f], r)
    BY <2>1 DEF Rivals, ShortIdTaken, SameShortId
  <2>3. /\ r # NoRow
        /\ pend'[t] = [pend[t] EXCEPT ![e] = r]
        /\ \A u \in Txns \ {t} : pend'[u] = pend[u]
        /\ \A f \in Entities : pend'[t][f] = IF f = e THEN r ELSE pend[t][f]
    BY <1>1, <1>3, ConstantsAssumption DEF GInv, TypeOK
  <2> HIDE DEF e, r
  <2>4. \A f \in Entities : View(t)'[f] = IF f = e THEN r ELSE View(t)[f]
    BY <1>1, <2>3 DEF View
  <2>5. \A u \in Txns \ {t} : View(u)' = View(u)
    BY <1>1, <2>3 DEF View
  <2>6. ASSUME NEW u \in Txns PROVE KeysApart(View(u))'
    <3>1. CASE u # t
      BY <2>5, <3>1 DEF UInv, KeysApart, SameShortId
    <3>2. CASE u = t
      <4> SUFFICES ASSUME NEW f \in Entities, NEW g \in Entities, f # g
                   PROVE  ~SameShortId(View(t)'[f], View(t)'[g])
        BY <3>2 DEF KeysApart, SameShortId
      <4>1. CASE f # e /\ g # e
        BY <2>4, <4>1 DEF UInv, KeysApart
      <4>2. CASE f = e
        BY <2>2, <2>4, <4>2, SameShortIdSymmetric
      <4>3. CASE g = e
        BY <2>2, <2>4, <4>3
      <4>4. QED
        BY <4>1, <4>2, <4>3
    <3>3. QED
      BY <3>1, <3>2
  <2>7. ASSUME NEW u \in Txns, NEW v \in Txns \ {u}, NEW f \in Entities, NEW g \in Entities, f # g
        PROVE  ~SameShortId(pend'[u][f], pend'[v][g])
    <3>1. CASE u = t /\ f = e
      <4>1. g \in Entities \ {e} /\ v \in Txns \ {t} /\ pend'[u][f] = r /\ pend'[v][g] = pend[v][g]
        BY <2>3, <2>7, <3>1
      <4>2. ~SameShortId(pend[v][g], r)
        BY <2>2, <4>1
      <4>3. QED
        BY <4>1, <4>2, SameShortIdSymmetric
    <3>2. CASE v = t /\ g = e
      <4>1. f \in Entities \ {e} /\ u \in Txns \ {t} /\ pend'[v][g] = r /\ pend'[u][f] = pend[u][f]
        BY <2>3, <2>7, <3>2
      <4>2. QED
        BY <2>2, <4>1
    <3>3. CASE ~(u = t /\ f = e) /\ ~(v = t /\ g = e)
      BY <2>3, <2>7, <3>3 DEF UInv
    <3>4. QED
      BY <3>1, <3>2, <3>3
  <2>8. KeysApart(row)'
    BY <1>1 DEF UInv, KeysApart, SameShortId
  <2>9. QED
    BY <2>6, <2>7, <2>8 DEF UInv, SameShortId
<1>4. QED
  BY <1>1, <1>2, <1>3, FlushEffect

(* A commit installs rows whose keys no other transaction sees or has. *)
LEMMA EndUInv ==
  ASSUME UInv, GInv', NEW t \in Txns, End(t), row' = row \/ row' = View(t)
  PROVE  UInv'
<1>1. /\ \A e \in Entities : pend'[t][e] = NoRow
      /\ \A u \in Txns \ {t} : pend'[u] = pend[u]
  BY DEF UInv, GInv, End, TypeOK
<1>2. KeysApart(row')
  BY DEF UInv
<1>3. ASSUME NEW u \in Txns PROVE KeysApart(View(u)')
  <2>1. CASE u = t
    <3>1. \A e \in Entities : View(t)'[e] = row'[e]
      BY <1>1 DEF View
    <3>2. QED
      BY <1>2, <2>1, <3>1 DEF KeysApart
  <2>2. CASE u # t
    <3> SUFFICES ASSUME NEW f \in Entities, NEW g \in Entities, f # g,
                        SameShortId(View(u)'[f], View(u)'[g])
                 PROVE  FALSE
      BY DEF KeysApart
    <3>1. \A e \in Entities :
            View(u)'[e] = IF pend[u][e] # NoRow THEN pend[u][e] ELSE row'[e]
      BY <1>1, <2>2 DEF View
    <3>2. \A e \in Entities : pend[u][e] # NoRow => View(u)[e] = pend[u][e]
      BY DEF View
    <3>3. \A e \in Entities :
            pend[u][e] = NoRow => row'[e] = View(u)[e] \/ row'[e] = pend[t][e]
      BY DEF View
    <3>4. CASE pend[u][f] = NoRow /\ pend[u][g] = NoRow
      BY <1>2, <3>1, <3>4 DEF KeysApart
    <3>5. CASE pend[u][f] # NoRow /\ pend[u][g] # NoRow
      BY <3>1, <3>2, <3>5 DEF UInv, KeysApart
    <3>6. CASE pend[u][f] # NoRow /\ pend[u][g] = NoRow
      BY <2>2, <3>1, <3>2, <3>3, <3>6 DEF UInv, KeysApart
    <3>7. CASE pend[u][f] = NoRow /\ pend[u][g] # NoRow
      BY <2>2, <3>1, <3>2, <3>3, <3>7 DEF UInv, KeysApart
    <3>8. QED
      BY <3>4, <3>5, <3>6, <3>7
  <2>3. QED
    BY <2>1, <2>2
<1>4. ASSUME NEW u \in Txns, NEW v \in Txns \ {u}, NEW f \in Entities, NEW g \in Entities, f # g
      PROVE  ~SameShortId(pend'[u][f], pend'[v][g])
  BY <1>1, <1>4 DEF UInv, SameShortId
<1>5. QED
  BY <1>2, <1>3, <1>4 DEF UInv, KeysApart, SameShortId

LEMMA NextUInv == UInv /\ [Next]_vars => UInv'
<1> SUFFICES ASSUME UInv, [Next]_vars PROVE UInv'
  OBVIOUS
<1>1. GInv'
  BY NextGInv DEF UInv
<1>2. ASSUME NEW t \in Txns, Autoflush(t) \/ Write(t) PROVE UInv'
  BY <1>1, <1>2, FlushUInv DEF Autoflush, Write
<1>3. ASSUME NEW t \in Txns,
             Commit(t) \/ ConstraintError(t) \/ Rollback(t) \/ DeadlockVictim(t)
      PROVE  UInv'
  BY <1>1, <1>3, EndUInv DEF Commit, ConstraintError, Rollback, DeadlockVictim
<1>4. CASE UNCHANGED <<row, pend>>
  BY <1>1, <1>4, FrameUInv
<1>5. CASE Next
  <2>1. PICK t \in Txns :
          \/ \E e \in Entities, p \in ProjectIds, ty \in Types : Create(t, e, p, ty)
          \/ \E e \in Entities, p \in ProjectIds, d \in BOOLEAN : Update(t, e, p, d)
          \/ AcquireLock(t) \/ ReadMax(t)
          \/ Autoflush(t) \/ Write(t)
          \/ Commit(t) \/ ConstraintError(t) \/ Rollback(t) \/ DeadlockVictim(t)
    BY <1>5 DEF Next
  <2>2. CASE \E e \in Entities, p \in ProjectIds, ty \in Types : Create(t, e, p, ty)
    BY <1>4, <2>2 DEF Create, TakeUp
  <2>3. CASE \E e \in Entities, p \in ProjectIds, d \in BOOLEAN : Update(t, e, p, d)
    BY <1>4, <2>3 DEF Update, TakeUp
  <2>4. CASE AcquireLock(t) \/ ReadMax(t)
    BY <1>4, <2>4 DEF AcquireLock, ReadMax
  <2>5. QED
    BY <1>2, <1>3, <2>1, <2>2, <2>3, <2>4
<1>6. QED
  BY <1>4, <1>5 DEF vars

(* No number is ever on two committed rows, also when entities move between *)
(* projects and bring their old number with them.                           *)
THEOREM ShortIdsUnique == Spec => []UniqueShortIds
<1>1. UInv => UniqueShortIds
  BY DEF UInv, UniqueShortIds, OneEach, KeysApart, SameShortId, Numbered
<1>2. QED
  BY InitUInv, NextUInv, <1>1, PTL DEF Spec

-----------------------------------------------------------------------------
(***************************************************************************)
(* In a series (project and type) in which no commit has changed a short   *)
(* id, the short ids are 1 .. n and assigning one never collides; and the  *)
(* registry implements the book of short ids.                              *)
(*                                                                         *)
(* The committed numbers alone are not inductive: a commit installs what   *)
(* its transaction has seen and written.  IInv adds what makes the commit  *)
(* safe: the uncommitted number of a row that had none is covered by its   *)
(* writer's advisory lock; a session that is not about to change a short   *)
(* id of the series sees it dense; and the number it is about to write     *)
(* there is still the next one.                                            *)
(***************************************************************************)
Dense(table, p, ty) == GapFree(table, p, ty) /\ OneEach(table, p, ty)

(* No commit has changed a short id of the series, nor is t about to. *)
Kept(t, p, ty) == <<p, ty>> \notin rewritten \cup Rewriting(t)

(* t is between taking the lock and the flush that carries the number. *)
Numbering(t) ==
  pc[t] \in {"autoflush", "max"} \/ (pc[t] = "write" /\ next[t] # 0)

(* t has flushed the project of the entity and not yet its number. *)
Flushed(t) == Numbering(t) /\ pc[t] # "autoflush" /\ job[t].seen # NoRow

PendTyped ==
  \A t \in Txns, e \in Entities :
    pend[t][e] # NoRow /\ row[e] # NoRow => pend[t][e].type = row[e].type

PendLocked ==
  \A t \in Txns, e \in Entities :
    /\ pend[t][e] # NoRow /\ pend[t][e].seq # 0
    /\ row[e] = NoRow \/ row[e].seq = 0
    => locks[HashText[<<pend[t][e].project, pend[t][e].type>>]] = t

PendDone ==
  \A t \in Txns :
    /\ \A e \in Entities : pend[t][e] # NoRow => e \in done[t]
    /\ Busy(t) => /\ job[t].entity \in done[t]
                  /\ ~Flushed(t) => pend[t][job[t].entity] = NoRow

(* An update keeps the type; it takes a number only if it found none, and   *)
(* what it has flushed by then is the committed row with the new project.   *)
ItemShape(t) ==
  LET j == job[t] IN
    /\ j.seen # NoRow => View(t)[j.entity].type = j.type
    /\ j.seen # NoRow /\ (pc[t] = "lock" \/ Numbering(t)) => j.seen.seq = 0
    /\ Flushed(t) =>
         /\ row[j.entity] # NoRow
         /\ pend[t][j.entity] = [project |-> j.project, type |-> row[j.entity].type,
                                 seq |-> row[j.entity].seq]

JobShape == \A t \in Txns : Busy(t) => ItemShape(t)

StepLocked == \A t \in Txns : Numbering(t) => locks[LockKey(t)] = t

ViewDense ==
  \A t \in Txns, p \in Projects, ty \in Types :
    Kept(t, p, ty) => Dense(View(t), p, ty)

NextFits ==
  \A t \in Txns :
    /\ pc[t] = "write" /\ next[t] # 0
    /\ Kept(t, job[t].project, job[t].type)
    => next[t] = NextShortSeq(View(t), job[t].project, job[t].type)

(* The part of the invariant that says how locks, rows and items fit. *)
LInv == GInv /\ PendTyped /\ PendLocked /\ PendDone /\ JobShape /\ StepLocked

IInv == LInv /\ ViewDense /\ NextFits /\ DenseShortIds

-----------------------------------------------------------------------------
Tables == [Entities -> Row \cup {NoRow}]

(* Two tables with the same numbered rows of a project and type have the    *)
(* same numbers of it.                                                      *)
LEMMA SameScope ==
  ASSUME NEW A \in Tables, NEW B \in Tables, NEW p \in Projects, NEW ty \in Types,
         \A e \in Entities :
           Numbered(A[e], p, ty) \/ Numbered(B[e], p, ty) => A[e] = B[e]
  PROVE  /\ NextShortSeq(A, p, ty) = NextShortSeq(B, p, ty)
         /\ Dense(A, p, ty) => Dense(B, p, ty)
<1>1. UsedSeqs(A, p, ty) = UsedSeqs(B, p, ty)
  BY DEF UsedSeqs
<1>2. LastShortSeq(A, p, ty) = LastShortSeq(B, p, ty)
  BY <1>1 DEF LastShortSeq
<1>3. GapFree(A, p, ty) => GapFree(B, p, ty)
  BY <1>1, <1>2 DEF GapFree
<1>4. OneEach(A, p, ty) => OneEach(B, p, ty)
  BY DEF OneEach
<1>5. QED
  BY <1>2, <1>3, <1>4 DEF NextShortSeq, Dense

(* Adding a row with the next number keeps the numbers dense. *)
LEMMA AddNext ==
  ASSUME NEW A \in Tables, NEW B \in Tables, NEW p \in Projects, NEW ty \in Types,
         NEW e \in Entities,
         ~Numbered(A[e], p, ty), Numbered(B[e], p, ty),
         B[e].seq = NextShortSeq(A, p, ty),
         \A f \in Entities \ {e} : B[f] = A[f],
         Dense(A, p, ty)
  PROVE  Dense(B, p, ty)
<1> DEFINE n == LastShortSeq(A, p, ty)
<1>1. n \in Nat /\ \A x \in UsedSeqs(A, p, ty) : x <= n
  BY LastShortSeqType DEF Tables
<1>2. UsedSeqs(A, p, ty) = 1 .. n
  BY DEF Dense, GapFree
<1>3. B[e].seq = n + 1
  BY DEF NextShortSeq
<1>4. \A f \in Entities : Numbered(A[f], p, ty) => f # e /\ Numbered(B[f], p, ty)
  BY DEF Numbered
<1>5. \A f \in Entities : Numbered(B[f], p, ty) => f = e \/ Numbered(A[f], p, ty)
  BY DEF Numbered
<1> HIDE DEF n
<1>6. UsedSeqs(B, p, ty) = UsedSeqs(A, p, ty) \cup {n + 1}
  <2>1. ASSUME NEW x \in UsedSeqs(B, p, ty)
        PROVE  x \in UsedSeqs(A, p, ty) \cup {n + 1}
    <3>1. PICK f \in Entities : Numbered(B[f], p, ty) /\ x = B[f].seq
      BY <2>1 DEF UsedSeqs
    <3>2. CASE f = e
      BY <3>1, <3>2, <1>3
    <3>3. CASE f # e
      BY <3>1, <3>3, <1>5 DEF UsedSeqs
    <3>4. QED
      BY <3>2, <3>3
  <2>2. ASSUME NEW x \in UsedSeqs(A, p, ty)
        PROVE  x \in UsedSeqs(B, p, ty)
    BY <2>2, <1>4 DEF UsedSeqs
  <2>3. n + 1 \in UsedSeqs(B, p, ty)
    BY <1>3 DEF UsedSeqs
  <2>4. QED
    BY <2>1, <2>2, <2>3
<1>7. UsedSeqs(B, p, ty) = 1 .. (n + 1)
  BY <1>1, <1>2, <1>6
<1>8. LastShortSeq(B, p, ty) = n + 1
  BY <1>1, <1>7, MaxOfInterval DEF LastShortSeq
<1>9. GapFree(B, p, ty)
  BY <1>1, <1>7, <1>8 DEF GapFree
<1>10. OneEach(B, p, ty)
  <2> SUFFICES ASSUME NEW f \in Entities, NEW g \in Entities,
                      Numbered(B[f], p, ty), Numbered(B[g], p, ty), B[f].seq = B[g].seq
               PROVE  f = g
    BY DEF OneEach
  <2>1. ASSUME NEW h \in Entities, Numbered(B[h], p, ty), h # e
        PROVE  Numbered(A[h], p, ty) /\ B[h] = A[h] /\ B[h].seq # n + 1
    <3>1. Numbered(A[h], p, ty) /\ B[h] = A[h]
      BY <2>1, <1>5
    <3>2. A[h].seq \in 1 .. n
      BY <3>1, <1>2 DEF UsedSeqs
    <3>3. QED
      BY <1>1, <3>1, <3>2
  <2>2. CASE f = e \/ g = e
    BY <1>3, <2>1, <2>2
  <2>3. CASE f # e /\ g # e
    BY <2>1, <2>3 DEF Dense, OneEach
  <2>4. QED
    BY <2>2, <2>3
<1>11. QED
  BY <1>9, <1>10 DEF Dense

-----------------------------------------------------------------------------
(* A version that replaces a row by itself rewrites nothing. *)
LEMMA SameRewritesNothing ==
  ASSUME NEW r PROVE RewrittenBy(r, r) = {}
BY DEF RewrittenBy, SameShortId

(* A row of a series that t is not about to rewrite is as t has written it. *)
LEMMA KeptRow ==
  ASSUME NEW r \in Row, NEW s \in Row, NEW p, NEW ty, r.seq # 0,
         <<p, ty>> \notin RewrittenBy(r, s),
         Numbered(r, p, ty) \/ Numbered(s, p, ty)
  PROVE  r = s
<1>1. ASSUME ~SameShortId(r, s) PROVE FALSE
  <2>1. r # NoRow
    BY ConstantsAssumption
  <2>2. RewrittenBy(r, s) = {<<r.project, r.type>>, <<s.project, s.type>>}
    BY <1>1, <2>1 DEF RewrittenBy
  <2>3. QED
    BY <2>2 DEF Numbered
<1>2. r.project = s.project /\ r.type = s.type /\ r.seq = s.seq
  BY <1>1 DEF SameShortId
<1>3. QED
  BY <1>2 DEF Row

(* What an item in progress is like. *)
LEMMA BusyItem ==
  ASSUME GInv, NEW t \in Txns, Busy(t)
  PROVE  /\ TypeOK /\ job[t] \in Jobs /\ job[t].entity \in Entities
         /\ ItemScoped(t) /\ (next[t] # 0 => pc[t] = "write")
         /\ pc[t] = "lock" \/ Numbering(t)
              => job[t].project \in Projects /\ job[t].type \in Types
<1>1. TypeOK /\ job[t] \in Jobs /\ ItemScoped(t) /\ (next[t] # 0 => pc[t] = "write")
  BY DEF GInv, TypeOK, JobScoped, Busy
<1>2. QED
  BY <1>1 DEF ItemScoped, Numbering, Jobs, ProjectIds

(* Every uncommitted number is of some project. *)
LEMMA PendInSeries ==
  ASSUME GInv, NEW t \in Txns, NEW e \in Entities,
         pend[t][e] # NoRow, pend[t][e].seq # 0
  PROVE  /\ pend[t][e].project \in Projects /\ pend[t][e].type \in Types
         /\ HashText[<<pend[t][e].project, pend[t][e].type>>] \in LockKeys
<1>1. pend[t][e] \in Row
  BY DEF GInv, TypeOK
<1>2. pend[t][e].project # NoProject
  BY DEF GInv, PendScoped, Scoped
<1>3. pend[t][e].project \in Projects /\ pend[t][e].type \in Types
  BY <1>1, <1>2 DEF Row, ProjectIds
<1>4. QED
  BY <1>3, ConstantsAssumption

LEMMA NumberingKey ==
  ASSUME GInv, NEW t \in Txns, Numbering(t) \/ pc[t] = "lock"
  PROVE  LockKey(t) \in LockKeys
<1>1. Busy(t)
  BY DEF Numbering, Busy
<1>2. QED
  BY <1>1, BusyItem, ConstantsAssumption DEF LockKey

LEMMA InitIInv == Init => IInv
<1> SUFFICES ASSUME Init PROVE IInv
  OBVIOUS
<1>1. LInv
  BY InitGInv, ConstantsAssumption
     DEF Init, LInv, PendTyped, PendLocked, PendDone, JobShape, StepLocked, Busy, Numbering
<1>2. ASSUME NEW p \in Projects, NEW ty \in Types PROVE Dense(row, p, ty)
  <2>1. UsedSeqs(row, p, ty) = 1 .. 0
    BY DEF Init, UsedSeqs, Numbered
  <2>2. LastShortSeq(row, p, ty) = 0
    BY <2>1, MaxOfInterval DEF LastShortSeq
  <2>3. QED
    BY <2>1, <2>2 DEF Dense, GapFree, OneEach, Init, Numbered
<1>3. ASSUME NEW t \in Txns PROVE View(t) = row
  BY DEF Init, View
<1>4. NextFits
  BY DEF Init, NextFits
<1>5. QED
  BY <1>1, <1>2, <1>3, <1>4 DEF IInv, ViewDense, DenseShortIds, Dense

(* Steps that write no row leave what every session sees and rewrites. *)
LEMMA FrameViews ==
  ASSUME UNCHANGED <<row, pend, rewritten>>
  PROVE  \A t \in Txns : /\ View(t)' = View(t) /\ Rewriting(t)' = Rewriting(t)
                         /\ \A p, ty : Kept(t, p, ty)' <=> Kept(t, p, ty)
<1>1. ASSUME NEW t \in Txns PROVE View(t)' = View(t)
  BY DEF View
<1>2. ASSUME NEW t \in Txns PROVE Rewriting(t)' = Rewriting(t)
  BY <1>1 DEF Rewriting
<1>3. QED
  BY <1>1, <1>2 DEF Kept

LEMMA FrameIInv ==
  ASSUME IInv, LInv', NextFits', UNCHANGED <<row, pend, rewritten>>
  PROVE  IInv'
<1>1. ViewDense'
  BY FrameViews DEF IInv, ViewDense
<1>2. DenseShortIds'
  BY DEF IInv, DenseShortIds
<1>3. QED
  BY <1>1, <1>2 DEF IInv

LEMMA TakeUpIInv ==
  ASSUME IInv, GInv', NEW t \in Txns, NEW j \in Jobs, NEW step \in {"lock", "write"},
         TakeUp(t, j, step),
         j.seen # NoRow =>
           /\ View(t)[j.entity].type = j.type
           /\ step = "lock" => j.seen.seq = 0
  PROVE  IInv'
<1> USE DEF IInv, LInv
<1>1. TypeOK /\ next[t] = 0 /\ j.entity \in Entities
  BY DEF GInv, JobScoped, TakeUp, Jobs
<1>2. /\ pc'[t] = step /\ job'[t] = j /\ next'[t] = 0
      /\ done'[t] = done[t] \cup {j.entity}
      /\ UNCHANGED <<row, pend, locks, rewritten>>
      /\ \A u \in Txns \ {t} : /\ pc'[u] = pc[u] /\ job'[u] = job[u]
                               /\ next'[u] = next[u] /\ done'[u] = done[u]
  BY <1>1 DEF TakeUp, TypeOK
<1>3. pend[t][j.entity] = NoRow
  BY <1>1 DEF PendDone, TakeUp
<1>4. ~Numbering(t)' /\ ~Flushed(t)'
  BY <1>2 DEF Numbering, Flushed
<1>5. ASSUME NEW u \in Txns \ {t}
      PROVE  /\ Numbering(u)' <=> Numbering(u)
             /\ Flushed(u)' <=> Flushed(u)
             /\ Busy(u)' <=> Busy(u)
  BY <1>2 DEF Numbering, Flushed, Busy
<1>6. PendTyped' /\ PendLocked'
  BY <1>2 DEF PendTyped, PendLocked
<1>7. PendDone'
  <2>1. \A u \in Txns : \A e \in Entities : pend[u][e] # NoRow => e \in done'[u]
    BY <1>2 DEF PendDone
  <2>2. QED
    BY <1>2, <1>3, <1>5, <2>1 DEF PendDone
<1>8. JobShape'
  <2>1. ItemShape(t)'
    BY <1>2, <1>4, FrameViews DEF ItemShape
  <2>2. ASSUME NEW u \in Txns \ {t}, Busy(u) PROVE ItemShape(u)'
    BY <1>2, <1>5, <2>2, FrameViews DEF JobShape, ItemShape
  <2>3. QED
    BY <1>5, <2>1, <2>2 DEF JobShape
<1>9. StepLocked'
  BY <1>2, <1>4, <1>5 DEF StepLocked, LockKey
<1>10. NextFits'
  BY <1>2, FrameViews DEF NextFits
<1>11. QED
  BY <1>2, <1>6, <1>7, <1>8, <1>9, <1>10, FrameIInv

LEMMA CreateIInv ==
  ASSUME IInv, NEW t \in Txns, NEW e \in Entities, NEW p \in ProjectIds, NEW ty \in Types,
         Create(t, e, p, ty)
  PROVE  IInv'
<1> DEFINE j == [entity |-> e, project |-> p, type |-> ty, seen |-> NoRow, dirty |-> TRUE]
           step == IF p = NoProject THEN "write" ELSE "lock"
<1>1. j \in Jobs /\ j.seen = NoRow /\ TakeUp(t, j, step)
  BY DEF Jobs, Create
<1>2. GInv'
  BY CreateGInv DEF IInv, LInv
<1> HIDE DEF j
<1>3. QED
  BY <1>1, <1>2, TakeUpIInv

LEMMA UpdateIInv ==
  ASSUME IInv, NEW t \in Txns, NEW e \in Entities, NEW p \in ProjectIds,
         NEW d \in BOOLEAN, Update(t, e, p, d)
  PROVE  IInv'
<1> DEFINE seen == View(t)[e]
           project == Named(p, seen)
           j == [entity |-> e, project |-> project, type |-> seen.type,
                 seen |-> seen, dirty |-> d]
           step == IF NeedsNumber(p, seen) THEN "lock" ELSE "write"
<1>1. TakeUp(t, j, step) /\ seen # NoRow
  BY DEF Update
<1>2. seen \in Row
  BY <1>1, ViewType DEF IInv, LInv, GInv
<1>3. j \in Jobs
  BY <1>2 DEF Jobs, Row, ProjectIds, Named
<1>4. GInv'
  BY UpdateGInv DEF IInv, LInv
<1>5. j.seen = seen /\ j.entity = e /\ j.type = seen.type
  OBVIOUS
<1>6. step = "lock" => seen.seq = 0
  BY DEF NeedsNumber
<1> HIDE DEF j
<1>7. QED
  BY <1>1, <1>3, <1>4, <1>5, <1>6, TakeUpIInv

LEMMA AcquireLockIInv ==
  ASSUME IInv, NEW t \in Txns, AcquireLock(t)
  PROVE  IInv'
<1> USE DEF IInv, LInv
<1> DEFINE k == LockKey(t)
<1>1. GInv' /\ TypeOK /\ Busy(t) /\ ItemShape(t) /\ pc[t] = "lock"
  BY AcquireLockGInv DEF GInv, JobShape, Busy, AcquireLock
<1>2. k \in LockKeys
  BY <1>1, NumberingKey
<1> HIDE DEF k
<1>3. /\ pc'[t] = IF job[t].seen = NoRow THEN "max" ELSE "autoflush"
      /\ locks'[k] = t
      /\ \A x \in LockKeys : locks[x] \in Txns => locks'[x] = locks[x]
      /\ UNCHANGED <<row, pend, job, next, done, rewritten>>
      /\ \A u \in Txns \ {t} : pc'[u] = pc[u]
  BY <1>1, <1>2, ConstantsAssumption DEF AcquireLock, TypeOK, k
<1>4. Numbering(t)' /\ ~Flushed(t) /\ ~Flushed(t)' /\ Busy(t)'
  BY <1>1, <1>3 DEF Numbering, Flushed, Busy
<1>5. ASSUME NEW u \in Txns \ {t}
      PROVE  /\ Numbering(u)' <=> Numbering(u)
             /\ Flushed(u)' <=> Flushed(u)
             /\ Busy(u)' <=> Busy(u)
  BY <1>3 DEF Numbering, Flushed, Busy
<1>6. PendTyped' /\ PendDone'
  BY <1>1, <1>3, <1>4, <1>5 DEF PendTyped, PendDone
<1>7. JobShape'
  <2>1. ItemShape(t)'
    BY <1>1, <1>3, <1>4, FrameViews DEF ItemShape
  <2>2. ASSUME NEW u \in Txns \ {t}, Busy(u) PROVE ItemShape(u)'
    BY <1>3, <1>5, <2>2, FrameViews DEF JobShape, ItemShape
  <2>3. QED
    BY <1>5, <2>1, <2>2 DEF JobShape
<1>8. ASSUME NEW u \in Txns, NEW x \in LockKeys, locks[x] = u PROVE locks'[x] = u
  BY <1>3, <1>8
<1>9. PendLocked'
  BY <1>3, <1>8, PendInSeries DEF PendLocked
<1>10. StepLocked'
  <2> SUFFICES ASSUME NEW u \in Txns, Numbering(u)' PROVE locks'[LockKey(u)] = u
    BY <1>3 DEF StepLocked, LockKey
  <2>1. CASE u = t
    BY <1>3, <2>1 DEF k
  <2>2. CASE u # t
    BY <1>5, <1>8, <2>2, NumberingKey DEF StepLocked
  <2>3. QED
    BY <2>1, <2>2
<1>11. NextFits'
  <2> SUFFICES ASSUME NEW u \in Txns, pc'[u] = "write" /\ next[u] # 0,
                      Kept(u, job[u].project, job[u].type)
               PROVE  next[u] = NextShortSeq(View(u), job[u].project, job[u].type)
    BY <1>3, FrameViews DEF NextFits
  <2>1. u # t
    BY <1>3
  <2>2. QED
    BY <1>3, <2>1 DEF NextFits
<1>12. QED
  BY <1>1, <1>3, <1>6, <1>7, <1>9, <1>10, <1>11, FrameIInv

LEMMA ReadMaxIInv ==
  ASSUME IInv, NEW t \in Txns, ReadMax(t)
  PROVE  IInv'
<1> USE DEF IInv, LInv
<1> DEFINE n == NextShortSeq(View(t), job[t].project, job[t].type)
<1>1. GInv' /\ TypeOK /\ Busy(t) /\ ItemShape(t) /\ pc[t] = "max"
  BY ReadMaxGInv DEF GInv, JobShape, Busy, ReadMax
<1>2. n # 0
  <2>1. LastShortSeq(View(t), job[t].project, job[t].type) \in Nat
    BY <1>1, BusyItem, ViewType, LastShortSeqType DEF Numbering
  <2>2. QED
    BY <2>1 DEF NextShortSeq
<1> HIDE DEF n
<1>3. /\ pc'[t] = "write" /\ next'[t] = n
      /\ UNCHANGED <<row, pend, locks, job, done, rewritten>>
      /\ \A u \in Txns \ {t} : pc'[u] = pc[u] /\ next'[u] = next[u]
  BY <1>1 DEF ReadMax, TypeOK, n
<1>4. /\ Numbering(t) /\ Numbering(t)' /\ Busy(t)'
      /\ Flushed(t)' <=> Flushed(t)
  BY <1>1, <1>2, <1>3 DEF Numbering, Flushed, Busy
<1>5. ASSUME NEW u \in Txns
      PROVE  /\ Numbering(u)' <=> Numbering(u)
             /\ Flushed(u)' <=> Flushed(u)
             /\ Busy(u)' <=> Busy(u)
  <2>1. CASE u = t
    BY <1>1, <1>4, <2>1
  <2>2. CASE u # t
    BY <1>3, <2>2 DEF Numbering, Flushed, Busy
  <2>3. QED
    BY <2>1, <2>2
<1>6. PendTyped' /\ PendLocked' /\ PendDone'
  BY <1>3, <1>5 DEF PendTyped, PendLocked, PendDone
<1>7. JobShape'
  <2>1. ASSUME NEW u \in Txns, Busy(u) PROVE ItemShape(u)'
    <3>1. ItemShape(u) /\ (pc'[u] = "lock" => pc[u] = "lock")
      BY <1>3, <2>1 DEF JobShape
    <3>2. QED
      BY <1>3, <1>5, <3>1, FrameViews DEF ItemShape
  <2>2. QED
    BY <1>5, <2>1 DEF JobShape
<1>8. StepLocked'
  BY <1>3, <1>5 DEF StepLocked, LockKey
<1>9. NextFits'
  BY <1>3, FrameViews DEF NextFits, n
<1>10. QED
  BY <1>1, <1>3, <1>6, <1>7, <1>8, <1>9, FrameIInv

(* What a flush writes: the row as it is but for the project; a row without *)
(* a number; or the number just read, on a row that had none or on one that *)
(* was numbered since the item loaded it.                                   *)
LEMMA FlushShape ==
  ASSUME IInv, NEW t \in Txns, Flush(t), pc[t] \in {"autoflush", "write"}
  PROVE  LET e == job[t].entity  r == NewRow(t) IN
         /\ e \in Entities /\ UNCHANGED <<row, locks, done, rewritten>>
         /\ \/ pend' = pend /\ next[t] = 0 /\ pc[t] = "write"
            \/ /\ pend' = [pend EXCEPT ![t] = [@ EXCEPT ![e] = r]]
               /\ r \in Row
               /\ row[e] # NoRow => r.type = row[e].type
               /\ \/ /\ next[t] = 0 /\ pend[t][e] = NoRow
                     /\ \/ row[e] # NoRow /\ r.seq = row[e].seq
                        \/ row[e] = NoRow /\ r.seq = 0
                  \/ /\ next[t] # 0 /\ r.seq = next[t]
                     /\ r.project = job[t].project /\ r.type = job[t].type
                     /\ \/ row[e] = NoRow /\ pend[t][e] = NoRow
                        \/ /\ row[e] # NoRow
                           /\ pend[t][e] = [project |-> job[t].project,
                                            type |-> row[e].type, seq |-> row[e].seq]
               /\ pc[t] = "autoflush" =>
                    /\ row[e] # NoRow
                    /\ r = [project |-> job[t].project, type |-> row[e].type,
                            seq |-> row[e].seq]
<1> USE DEF IInv, LInv
<1> DEFINE e == job[t].entity
           j == job[t]
           r == NewRow(t)
<1>1. /\ Busy(t) /\ TypeOK /\ j \in Jobs /\ e \in Entities /\ ItemScoped(t)
      /\ next[t] # 0 => pc[t] = "write"
      /\ ItemShape(t)
      /\ UNCHANGED <<row, locks, done, rewritten>>
  BY BusyItem DEF JobShape, Busy, GInv, Flush
<1>2. ~Flushed(t) => pend[t][e] = NoRow
  BY <1>1 DEF PendDone
<1>3. CASE j.seen = NoRow
  <2>1. pc[t] = "write" /\ Emits(t)
    BY <1>1, <1>3 DEF ItemScoped, Emits
  <2>2. pend' = [pend EXCEPT ![t] = [@ EXCEPT ![e] = r]] /\ r \in Row /\ row[e] = NoRow
    BY <1>3, <2>1, FlushEffect
  <2>3. r.project = j.project /\ r.type = j.type /\ r.seq = next[t]
    BY <1>3 DEF NewRow
  <2>4. pend[t][e] = NoRow
    BY <1>2, <1>3 DEF Flushed
  <2>5. QED
    BY <1>1, <2>1, <2>2, <2>3, <2>4
<1>4. CASE j.seen # NoRow
  <2> DEFINE base == View(t)[e]
  <2>1. base \in Row /\ base.type = j.type /\ Scoped(j.seen)
    BY <1>1, <1>4, ViewType DEF ItemScoped, ItemShape
  <2>2. /\ r.project = IF j.project # j.seen.project THEN j.project ELSE base.project
        /\ r.type = base.type
        /\ r.seq = IF next[t] # 0 THEN next[t] ELSE base.seq
    BY <1>4 DEF NewRow
  <2>3. CASE next[t] = 0
    <3>1. pend[t][e] = NoRow
      BY <1>2, <2>3 DEF Flushed, Numbering
    <3>2. base = row[e] /\ row[e] # NoRow
      BY <1>1, <2>1, <3>1, ConstantsAssumption DEF View
    <3>3. CASE pc[t] = "write"
      <4>1. CASE Emits(t)
        <5>1. pend' = [pend EXCEPT ![t] = [@ EXCEPT ![e] = r]] /\ r \in Row
          BY <4>1, FlushEffect
        <5>2. QED
          BY <1>1, <2>2, <2>3, <3>1, <3>2, <3>3, <5>1
      <4>2. CASE ~Emits(t)
        BY <1>1, <2>3, <3>3, <4>2, FlushEffect
      <4>3. QED
        BY <4>1, <4>2
    <3>4. CASE pc[t] = "autoflush"
      <4>1. j.seen.project = NoProject /\ j.project # NoProject
        BY <1>1, <1>4, <2>1, <3>4 DEF ItemShape, ItemScoped, Numbering, Scoped
      <4>2. Emits(t) /\ r.project = j.project
        BY <2>2, <4>1 DEF Emits
      <4>3. pend' = [pend EXCEPT ![t] = [@ EXCEPT ![e] = r]] /\ r \in Row
        BY <4>2, FlushEffect
      <4>4. r = [project |-> j.project, type |-> row[e].type, seq |-> row[e].seq]
        BY <2>2, <2>3, <3>2, <4>2, <4>3 DEF Row
      <4>5. QED
        BY <1>1, <2>2, <2>3, <3>1, <3>2, <4>3, <4>4
    <3>5. QED
      BY <3>3, <3>4
  <2>4. CASE next[t] # 0
    <3>1. pc[t] = "write" /\ Flushed(t) /\ Emits(t)
      BY <1>1, <1>4, <2>4 DEF Flushed, Numbering, Emits
    <3>2. j.seen.project = NoProject /\ j.project # NoProject
      <4>1. j.seen.seq = 0
        BY <1>1, <1>4, <3>1 DEF ItemShape, Flushed
      <4>2. j.seen.project = NoProject
        BY <2>1, <4>1 DEF Scoped
      <4>3. j.project # NoProject
        BY <1>1, <2>4 DEF ItemScoped
      <4>4. QED
        BY <4>2, <4>3
    <3>3. /\ row[e] # NoRow
          /\ pend[t][e] = [project |-> j.project, type |-> row[e].type, seq |-> row[e].seq]
      BY <1>1, <3>1 DEF ItemShape
    <3>4. r.project = j.project /\ r.seq = next[t] /\ r.type = j.type
      BY <2>1, <2>2, <2>4, <3>2
    <3>5. pend[t][e] # NoRow
      BY <3>3, <1>1, ConstantsAssumption DEF Row, TypeOK, Jobs
    <3>6. r.type = row[e].type
      BY <1>1, <2>2, <3>3, <3>5 DEF View
    <3>7. pend' = [pend EXCEPT ![t] = [@ EXCEPT ![e] = r]] /\ r \in Row
      BY <3>1, FlushEffect
    <3>8. QED
      BY <1>1, <2>4, <3>1, <3>3, <3>4, <3>6, <3>7
  <2>5. QED
    BY <2>3, <2>4
<1>5. QED
  BY <1>3, <1>4

(* What the session sees after a flush is dense where it rewrites nothing.  *)
LEMMA FlushViewDense ==
  ASSUME IInv, NEW t \in Txns, Flush(t), pc[t] \in {"autoflush", "write"}, TypeOK',
         NEW p \in Projects, NEW ty \in Types, Kept(t, p, ty)'
  PROVE  Dense(View(t)', p, ty)
<1> USE DEF IInv, LInv
<1> DEFINE e == job[t].entity
           r == NewRow(t)
           A == View(t)
           B == View(t)'
<1>1. /\ TypeOK /\ e \in Entities /\ UNCHANGED <<row, locks, done, rewritten>>
  BY FlushShape DEF GInv
<1>2. CASE pend' = pend
  BY <1>1, <1>2, FrameViews DEF ViewDense
<1>3. CASE /\ pend' = [pend EXCEPT ![t] = [@ EXCEPT ![e] = r]]
           /\ r \in Row
           /\ row[e] # NoRow => r.type = row[e].type
           /\ \/ /\ next[t] = 0 /\ pend[t][e] = NoRow
                 /\ \/ row[e] # NoRow /\ r.seq = row[e].seq
                    \/ row[e] = NoRow /\ r.seq = 0
              \/ /\ next[t] # 0 /\ r.seq = next[t]
                 /\ r.project = job[t].project /\ r.type = job[t].type
                 /\ \/ row[e] = NoRow /\ pend[t][e] = NoRow
                    \/ /\ row[e] # NoRow
                       /\ pend[t][e] = [project |-> job[t].project,
                                        type |-> row[e].type, seq |-> row[e].seq]
  <2> HIDE DEF r, e
  <2>1. /\ pend'[t][e] = r /\ r # NoRow
        /\ \A f \in Entities \ {e} : pend'[t][f] = pend[t][f]
    BY <1>1, <1>3, ConstantsAssumption DEF TypeOK
  <2>2. /\ A \in Tables /\ B \in Tables /\ B[e] = r
        /\ \A f \in Entities \ {e} : B[f] = A[f]
    BY <1>1, <2>1, ViewType DEF Tables, View, TypeOK
  <2>3. A[e] = IF pend[t][e] # NoRow THEN pend[t][e] ELSE row[e]
    BY <1>1 DEF View
  <2>4. Rewriting(t)' = UNION {RewrittenBy(row[f], B[f]) : f \in Entities}
    BY <1>1 DEF Rewriting
  <2>5. Rewriting(t) = UNION {RewrittenBy(row[f], A[f]) : f \in Entities}
    BY DEF Rewriting
  <2> HIDE DEF A, B
  <2>6. <<p, ty>> \notin rewritten /\ \A f \in Entities : <<p, ty>> \notin RewrittenBy(row[f], B[f])
    BY <1>1, <2>4 DEF Kept
  <2>7. <<p, ty>> \notin RewrittenBy(row[e], r)
    BY <1>1, <2>2, <2>6
  <2>8. CASE row[e] # NoRow /\ row[e].seq # 0
    <3>1. row[e] \in Row
      BY <1>1, <2>8 DEF TypeOK
    <3>2. Numbered(row[e], p, ty) \/ Numbered(r, p, ty) => r = row[e]
      BY <1>3, <2>7, <2>8, <3>1, KeptRow
    <3>3. A[e] # row[e] =>
            /\ next[t] # 0 /\ r.seq # 0
            /\ A[e] = [project |-> r.project, type |-> r.type, seq |-> row[e].seq]
      BY <1>3, <2>3
    <3>4. A[e] # row[e] => ~Numbered(row[e], p, ty) /\ ~Numbered(r, p, ty)
      BY <2>8, <3>1, <3>2, <3>3 DEF Row
    <3>5. A[e] # row[e] => ~Numbered(A[e], p, ty)
      BY <1>3, <2>1, <3>3, <3>4 DEF Numbered
    <3>6. A[e] # row[e] => <<p, ty>> \notin RewrittenBy(row[e], A[e])
      <4> HAVE A[e] # row[e]
      <4>1. A[e] \in Row /\ A[e].seq = row[e].seq
        BY <1>3, <3>1, <3>3 DEF Row
      <4>2. A[e] # NoRow /\ row[e] # NoRow
        BY <3>1, <4>1, ConstantsAssumption
      <4>3. <<p, ty>> # <<row[e].project, row[e].type>>
        BY <2>8, <3>4, <4>2 DEF Numbered
      <4>4. <<p, ty>> # <<A[e].project, A[e].type>>
        BY <2>8, <3>5, <4>1, <4>2 DEF Numbered
      <4>5. QED
        BY <4>3, <4>4 DEF RewrittenBy
    <3>7. <<p, ty>> \notin RewrittenBy(row[e], A[e])
      BY <3>6, SameRewritesNothing
    <3>8. Dense(A, p, ty)
      BY <2>2, <2>5, <2>6, <3>7 DEF ViewDense, Kept, A
    <3>9. ASSUME NEW f \in Entities, Numbered(A[f], p, ty) \/ Numbered(B[f], p, ty)
          PROVE  A[f] = B[f]
      BY <2>2, <3>2, <3>4, <3>5, <3>9
    <3>10. QED
      BY <2>2, <3>8, <3>9, SameScope DEF B
  <2>9. CASE row[e] = NoRow \/ row[e].seq = 0
    <3>1. ~Numbered(A[e], p, ty)
      BY <1>3, <2>3, <2>9 DEF Numbered
    <3>2. RewrittenBy(row[e], A[e]) = {}
      BY <2>9 DEF RewrittenBy
    <3>3. Kept(t, p, ty)
      BY <2>2, <2>5, <2>6, <3>2 DEF Kept
    <3>4. Dense(A, p, ty)
      BY <3>3 DEF ViewDense, A
    <3>5. CASE Numbered(r, p, ty)
      <4>1. next[t] # 0 /\ r.seq = next[t] /\ p = job[t].project /\ ty = job[t].type
        BY <1>3, <2>9, <3>5 DEF Numbered
      <4>2. pc[t] = "write"
        BY <4>1 DEF GInv, JobScoped
      <4>3. r.seq = NextShortSeq(A, p, ty)
        BY <3>3, <4>1, <4>2 DEF NextFits, A
      <4>4. QED
        BY <1>1, <2>2, <3>1, <3>4, <3>5, <4>3, AddNext DEF B
    <3>6. CASE ~Numbered(r, p, ty)
      <4>1. ASSUME NEW f \in Entities, Numbered(A[f], p, ty) \/ Numbered(B[f], p, ty)
            PROVE  A[f] = B[f]
        BY <2>2, <3>1, <3>6, <4>1
      <4>2. QED
        BY <2>2, <3>4, <4>1, SameScope DEF B
    <3>7. QED
      BY <3>5, <3>6
  <2>10. QED
    BY <2>8, <2>9
<1>4. QED
  BY <1>2, <1>3, FlushShape

LEMMA FlushIInv ==
  ASSUME IInv, GInv', NEW t \in Txns, Flush(t),
         \/ pc[t] = "autoflush" /\ pc' = [pc EXCEPT ![t] = "max"] /\ UNCHANGED <<job, next>>
         \/ /\ pc[t] = "write" /\ pc' = [pc EXCEPT ![t] = "open"]
            /\ job' = [job EXCEPT ![t] = NoJob] /\ next' = [next EXCEPT ![t] = 0]
  PROVE  IInv'
<1> USE DEF IInv, LInv
<1> DEFINE e == job[t].entity
           r == NewRow(t)
<1>1. /\ TypeOK /\ TypeOK' /\ e \in Entities /\ Busy(t) /\ e \in done[t]
      /\ UNCHANGED <<row, locks, done, rewritten>>
  BY FlushShape DEF GInv, PendDone, Busy
<1>2. ASSUME NEW u \in Txns \ {t}
      PROVE  /\ pc'[u] = pc[u] /\ next'[u] = next[u] /\ job'[u] = job[u]
             /\ pend'[u] = pend[u]
  <2>1. pend'[u] = pend[u]
    <3>1. pc[t] \in {"autoflush", "write"}
      OBVIOUS
    <3>2. pend' = pend \/ pend' = [pend EXCEPT ![t] = [@ EXCEPT ![e] = r]]
      BY <3>1, FlushShape
    <3>3. QED
      BY <1>1, <3>2 DEF TypeOK
  <2>2. pc'[u] = pc[u] /\ next'[u] = next[u] /\ job'[u] = job[u]
    BY <1>1 DEF TypeOK
  <2>3. QED
    BY <2>1, <2>2
<1>3. ASSUME NEW u \in Txns \ {t}
      PROVE  /\ View(u)' = View(u)
             /\ Rewriting(u)' = Rewriting(u)
             /\ \A p, ty : Kept(u, p, ty)' <=> Kept(u, p, ty)
             /\ Numbering(u)' <=> Numbering(u)
             /\ Flushed(u)' <=> Flushed(u)
             /\ Busy(u)' <=> Busy(u)
  <2>1. View(u)' = View(u)
    BY <1>1, <1>2 DEF View
  <2>2. Rewriting(u)' = Rewriting(u)
    BY <1>1, <2>1 DEF Rewriting
  <2>3. QED
    BY <1>1, <1>2, <2>1, <2>2 DEF Kept, Numbering, Flushed, Busy
<1>4. ViewDense'
  BY <1>1, <1>3, FlushViewDense DEF ViewDense
<1>5. DenseShortIds'
  BY <1>1 DEF DenseShortIds
<1>6. NextFits'
  <2> SUFFICES ASSUME NEW u \in Txns, pc'[u] = "write" /\ next'[u] # 0,
                      (Kept(u, job[u].project, job[u].type))'
               PROVE  next'[u] = NextShortSeq(View(u)', job'[u].project, job'[u].type)
    BY DEF NextFits
  <2>1. u # t
    BY <1>1 DEF TypeOK
  <2>2. QED
    BY <1>2, <1>3, <2>1 DEF NextFits
<1>7. CASE pend' = pend /\ pc[t] = "write" /\ next[t] = 0
  <2>1. ~Numbering(t) /\ ~Numbering(t)' /\ ~Flushed(t)' /\ ~Busy(t)'
    BY <1>1, <1>7 DEF Numbering, Flushed, Busy, TypeOK
  <2>2. PendTyped' /\ PendLocked' /\ PendDone'
    BY <1>1, <1>2, <1>3, <1>7, <2>1 DEF PendTyped, PendLocked, PendDone
  <2>3. JobShape'
    BY <1>1, <1>2, <1>3, <2>1 DEF JobShape, ItemShape
  <2>4. StepLocked'
    BY <1>1, <1>2, <1>3, <2>1 DEF StepLocked, LockKey
  <2>5. QED
    BY <1>4, <1>5, <1>6, <2>2, <2>3, <2>4
<1>8. CASE /\ pend' = [pend EXCEPT ![t] = [@ EXCEPT ![e] = r]]
           /\ r \in Row
           /\ row[e] # NoRow => r.type = row[e].type
           /\ \/ /\ next[t] = 0 /\ pend[t][e] = NoRow
                 /\ \/ row[e] # NoRow /\ r.seq = row[e].seq
                    \/ row[e] = NoRow /\ r.seq = 0
              \/ /\ next[t] # 0 /\ r.seq = next[t]
                 /\ r.project = job[t].project /\ r.type = job[t].type
           /\ pc[t] = "autoflush" =>
                /\ row[e] # NoRow
                /\ r = [project |-> job[t].project, type |-> row[e].type,
                        seq |-> row[e].seq]
  <2> HIDE DEF r
  <2>1. /\ pend'[t][e] = r /\ r # NoRow
        /\ \A f \in Entities \ {e} : pend'[t][f] = pend[t][f]
    BY <1>1, <1>8, ConstantsAssumption DEF TypeOK
  <2>2. PendTyped'
    <3> SUFFICES ASSUME NEW u \in Txns, NEW f \in Entities, pend'[u][f] # NoRow, row[f] # NoRow
                 PROVE  pend'[u][f].type = row[f].type
      BY <1>1 DEF PendTyped
    <3>1. CASE u = t /\ f = e
      BY <1>8, <2>1, <3>1
    <3>2. CASE u # t \/ f # e
      BY <1>2, <2>1, <3>2 DEF PendTyped
    <3>3. QED
      BY <3>1, <3>2
  <2>3. PendLocked'
    <3> SUFFICES ASSUME NEW u \in Txns, NEW f \in Entities,
                        pend'[u][f] # NoRow, pend'[u][f].seq # 0,
                        row[f] = NoRow \/ row[f].seq = 0
                 PROVE  locks[HashText[<<pend'[u][f].project, pend'[u][f].type>>]] = u
      BY <1>1 DEF PendLocked
    <3>1. CASE u = t /\ f = e
      <4>1. next[t] # 0 /\ r.project = job[t].project /\ r.type = job[t].type
        BY <1>8, <2>1, <3>1
      <4>2. Numbering(t)
        BY <4>1 DEF Numbering, GInv, JobScoped
      <4>3. locks[LockKey(t)] = t
        BY <4>2 DEF StepLocked
      <4>4. QED
        BY <2>1, <3>1, <4>1, <4>3 DEF LockKey
    <3>2. CASE u # t \/ f # e
      BY <1>2, <2>1, <3>2 DEF PendLocked
    <3>3. QED
      BY <3>1, <3>2
  <2>4. CASE pc[t] = "write"
    <3>1. pc'[t] = "open" /\ next'[t] = 0
      BY <1>1, <2>4 DEF TypeOK
    <3>2. ~Numbering(t)' /\ ~Busy(t)'
      BY <3>1 DEF Numbering, Busy
    <3>3. PendDone'
      <4>1. \A u \in Txns : \A f \in Entities : pend'[u][f] # NoRow => f \in done'[u]
        BY <1>1, <1>2, <2>1 DEF PendDone
      <4>2. QED
        BY <1>1, <1>2, <1>3, <3>2, <4>1 DEF PendDone
    <3>4. JobShape' /\ StepLocked'
      BY <1>1, <1>2, <1>3, <3>2 DEF JobShape, ItemShape, StepLocked, LockKey
    <3>5. QED
      BY <1>4, <1>5, <1>6, <2>2, <2>3, <3>3, <3>4
  <2>5. CASE pc[t] = "autoflush"
    <3>1. /\ pc'[t] = "max" /\ UNCHANGED <<job, next>>
          /\ row[e] # NoRow
          /\ r = [project |-> job[t].project, type |-> row[e].type, seq |-> row[e].seq]
      BY <1>1, <1>8, <2>5 DEF TypeOK
    <3>2. /\ job[t].seen # NoRow /\ ItemShape(t) /\ ItemScoped(t) /\ next[t] = 0
      BY <1>1, <2>5, BusyItem DEF JobShape, ItemScoped
    <3>3. Numbering(t) /\ Numbering(t)' /\ Flushed(t)' /\ Busy(t)' /\ ~Flushed(t)
      BY <2>5, <3>1, <3>2 DEF Numbering, Flushed, Busy
    <3>4. PendDone'
      <4>1. \A u \in Txns : \A f \in Entities : pend'[u][f] # NoRow => f \in done'[u]
        BY <1>1, <1>2, <2>1 DEF PendDone
      <4>2. QED
        BY <1>1, <1>2, <1>3, <3>1, <3>3, <4>1 DEF PendDone
    <3>5. JobShape'
      <4>1. ItemShape(t)'
        <5>1. pend[t][e] = NoRow
          BY <1>1, <3>3 DEF PendDone
        <5>2. View(t)[e] = row[e] /\ View(t)'[e] = r
          BY <1>1, <2>1, <5>1 DEF View
        <5>3. r.type = job[t].type
          BY <3>1, <3>2, <5>2 DEF ItemShape
        <5>4. job[t].seen.seq = 0
          BY <3>2, <3>3 DEF ItemShape
        <5>5. QED
          BY <1>1, <2>1, <3>1, <5>2, <5>3, <5>4 DEF ItemShape
      <4>2. ASSUME NEW u \in Txns \ {t}, Busy(u) PROVE ItemShape(u)'
        BY <1>1, <1>2, <1>3, <4>2 DEF JobShape, ItemShape
      <4>3. QED
        BY <1>3, <4>1, <4>2 DEF JobShape
    <3>6. StepLocked'
      BY <1>1, <1>2, <1>3, <3>1, <3>3 DEF StepLocked, LockKey
    <3>7. QED
      BY <1>4, <1>5, <1>6, <2>2, <2>3, <3>4, <3>5, <3>6
  <2>6. QED
    BY <2>4, <2>5
<1>9. QED
  BY <1>7, <1>8, FlushShape

(* The end of a transaction, with or without its rows. *)
LEMMA EndIInv ==
  ASSUME IInv, NEW t \in Txns, End(t),
         \/ UNCHANGED <<row, rewritten>>
         \/ /\ pc[t] = "open" /\ row' = View(t)
            /\ rewritten' = rewritten \cup Rewriting(t)
  PROVE  IInv'
<1> USE DEF IInv, LInv
<1>1. /\ GInv /\ GInv' /\ TypeOK /\ PendAlone
      /\ row \in Tables /\ row' \in Tables /\ View(t) \in Tables
      /\ rewritten \subseteq rewritten'
  BY EndGInv, ViewType DEF GInv, TypeOK, Tables
<1>2. /\ pend'[t] = [f \in Entities |-> NoRow]
      /\ pc'[t] = "idle" /\ next'[t] = 0
      /\ \A u \in Txns \ {t} : /\ pend'[u] = pend[u] /\ pc'[u] = pc[u]
                               /\ job'[u] = job[u] /\ next'[u] = next[u]
                               /\ done'[u] = done[u]
      /\ locks' = [k \in LockKeys |-> IF locks[k] = t THEN NoTxn ELSE locks[k]]
  BY <1>1 DEF End, TypeOK
<1>3. ASSUME NEW e \in Entities, row'[e] # row[e]
      PROVE  /\ row'[e] = pend[t][e] /\ pend[t][e] # NoRow
             /\ rewritten' = rewritten \cup Rewriting(t)
             /\ RewrittenBy(row[e], row'[e]) \subseteq rewritten'
  <2>1. row' = View(t) /\ rewritten' = rewritten \cup Rewriting(t)
    BY <1>3
  <2>2. row'[e] = pend[t][e] /\ pend[t][e] # NoRow
    BY <1>3, <2>1 DEF View
  <2>3. RewrittenBy(row[e], row'[e]) \subseteq Rewriting(t)
    BY <2>1 DEF Rewriting
  <2>4. QED
    BY <2>1, <2>2, <2>3
<1>4. ASSUME NEW u \in Txns \ {t}, NEW e \in Entities, pend[u][e] # NoRow
      PROVE  row'[e] = row[e]
  BY <1>1, <1>3, <1>4 DEF PendAlone
<1>5. ASSUME NEW u \in Txns \ {t}
      PROVE  /\ Numbering(u)' <=> Numbering(u)
             /\ Flushed(u)' <=> Flushed(u)
             /\ Busy(u)' <=> Busy(u)
  BY <1>2 DEF Numbering, Flushed, Busy
<1>6. ~Numbering(t)' /\ ~Busy(t)'
  BY <1>2 DEF Numbering, Busy
<1>7. ASSUME NEW u \in Txns \ {t}, NEW p \in Projects, NEW ty \in Types, Kept(u, p, ty)'
      PROVE  Kept(u, p, ty) /\ <<p, ty>> \notin rewritten'
  <2>1. ASSUME NEW e \in Entities
        PROVE  RewrittenBy(row[e], View(u)[e]) = RewrittenBy(row'[e], View(u)'[e])
                 \/ RewrittenBy(row[e], View(u)[e]) = {}
    <3>1. CASE pend[u][e] # NoRow
      BY <1>2, <1>4, <3>1 DEF View
    <3>2. CASE pend[u][e] = NoRow
      BY <3>2, SameRewritesNothing DEF View
    <3>3. QED
      BY <3>1, <3>2
  <2>2. Rewriting(u) \subseteq Rewriting(u)'
    BY <2>1 DEF Rewriting
  <2>3. QED
    BY <1>1, <1>7, <2>2 DEF Kept
<1>8. ASSUME NEW e \in Entities, row'[e] # row[e],
             NEW p \in Projects, NEW ty \in Types, <<p, ty>> \notin rewritten',
             Numbered(row[e], p, ty) \/ Numbered(row'[e], p, ty)
      PROVE  /\ row[e] = NoRow \/ row[e].seq = 0
             /\ Numbered(row'[e], p, ty)
             /\ locks[HashText[<<p, ty>>]] = t
  <2>1. row'[e] = pend[t][e] /\ pend[t][e] # NoRow /\ row'[e] \in Row
    BY <1>1, <1>3, <1>8 DEF TypeOK
  <2>2. <<p, ty>> \notin RewrittenBy(row[e], row'[e])
    BY <1>3, <1>8
  <2>3. row[e] = NoRow \/ row[e].seq = 0
    <3> SUFFICES ASSUME row[e] # NoRow, row[e].seq # 0 PROVE FALSE
      OBVIOUS
    <3>1. row[e] \in Row
      BY <1>1 DEF TypeOK
    <3>2. row[e] = row'[e]
      BY <1>8, <2>1, <2>2, <3>1, KeptRow
    <3>3. QED
      BY <1>8, <3>2
  <2>4. Numbered(row'[e], p, ty)
    BY <1>8, <2>3 DEF Numbered
  <2>5. pend[t][e].project = p /\ pend[t][e].type = ty /\ pend[t][e].seq # 0
    BY <2>1, <2>4 DEF Numbered
  <2>6. QED
    BY <2>1, <2>3, <2>4, <2>5 DEF PendLocked
<1>9. PendTyped'
  <2> SUFFICES ASSUME NEW u \in Txns, NEW e \in Entities, pend'[u][e] # NoRow, row'[e] # NoRow
               PROVE  pend'[u][e].type = row'[e].type
    BY DEF PendTyped
  <2>1. u # t /\ pend'[u][e] = pend[u][e]
    BY <1>2
  <2>2. row'[e] = row[e]
    BY <1>4, <2>1
  <2>3. QED
    BY <2>1, <2>2 DEF PendTyped
<1>10. PendDone'
  <2>1. \A u \in Txns : \A e \in Entities : pend'[u][e] # NoRow => e \in done'[u]
    BY <1>2 DEF PendDone
  <2>2. QED
    BY <1>2, <1>5, <1>6, <2>1 DEF PendDone
<1>11. ASSUME NEW u \in Txns \ {t}, NEW k \in LockKeys, locks[k] = u
       PROVE  locks'[k] = u
  BY <1>2, <1>11
<1>12. PendLocked'
  <2> SUFFICES ASSUME NEW u \in Txns, NEW e \in Entities,
                      pend'[u][e] # NoRow, pend'[u][e].seq # 0,
                      row'[e] = NoRow \/ row'[e].seq = 0
               PROVE  locks'[HashText[<<pend'[u][e].project, pend'[u][e].type>>]] = u
    BY DEF PendLocked
  <2>1. u # t /\ pend'[u][e] = pend[u][e]
    BY <1>2
  <2>2. row'[e] = row[e]
    BY <1>4, <2>1
  <2>3. QED
    BY <1>1, <1>11, <2>1, <2>2, PendInSeries DEF PendLocked
<1>13. JobShape'
  <2> SUFFICES ASSUME NEW u \in Txns \ {t}, Busy(u)
               PROVE  ItemShape(u)'
    BY <1>5, <1>6 DEF JobShape
  <2>1. ItemShape(u) /\ ItemScoped(u) /\ job[u].entity \in Entities
    BY <1>1, BusyItem DEF JobShape
  <2> DEFINE e == job[u].entity
  <2>2. ASSUME View(u)[e] # NoRow PROVE View(u)'[e].type = View(u)[e].type
    <3>1. CASE pend[u][e] # NoRow
      BY <1>2, <2>1, <3>1 DEF View
    <3>2. CASE pend[u][e] = NoRow
      <4>1. View(u)[e] = row[e] /\ View(u)'[e] = row'[e]
        BY <1>2, <2>1, <3>2 DEF View
      <4>2. CASE row'[e] = row[e]
        BY <4>1, <4>2
      <4>3. CASE row'[e] # row[e]
        BY <1>3, <2>1, <2>2, <4>1, <4>3 DEF PendTyped
      <4>4. QED
        BY <4>2, <4>3
    <3>3. QED
      BY <3>1, <3>2
  <2>3. job[u].seen # NoRow => View(u)'[e].type = job[u].type
    BY <2>1, <2>2 DEF ItemShape, ItemScoped
  <2>4. Flushed(u) => row'[e] = row[e]
    <3> HAVE Flushed(u)
    <3>1. row[e] # NoRow
          /\ pend[u][e] = [project |-> job[u].project, type |-> row[e].type, seq |-> row[e].seq]
      BY <2>1 DEF ItemShape
    <3>2. row[e] \in Row /\ job[u].project \in ProjectIds
      BY <1>1, <2>1, <3>1, BusyItem DEF TypeOK, Jobs
    <3>3. pend[u][e] \in Row
      BY <3>1, <3>2 DEF Row
    <3>4. QED
      BY <1>4, <2>1, <3>3, ConstantsAssumption
  <2>5. QED
    BY <1>2, <1>5, <2>1, <2>3, <2>4 DEF ItemShape
<1>14. StepLocked'
  <2> SUFFICES ASSUME NEW u \in Txns \ {t}, Numbering(u) PROVE locks'[LockKey(u)] = u
    BY <1>2, <1>5, <1>6 DEF StepLocked, LockKey
  <2>1. QED
    BY <1>1, <1>11, NumberingKey DEF StepLocked
<1>15. ASSUME NEW u \in Txns PROVE View(u) \in Tables /\ View(u)' \in Tables
  <2>1. TypeOK'
    BY <1>1 DEF GInv
  <2>2. View(u) \in Tables
    BY <1>1, ViewType DEF Tables
  <2>3. View(u)' \in Tables
    BY <2>1 DEF Tables, View, TypeOK
  <2>4. QED
    BY <2>2, <2>3
<1>16. ASSUME NEW u \in Txns \ {t}, NEW p \in Projects, NEW ty \in Types,
              Kept(u, p, ty)', locks[HashText[<<p, ty>>]] = u
       PROVE  /\ NextShortSeq(View(u)', p, ty) = NextShortSeq(View(u), p, ty)
              /\ Dense(View(u)', p, ty)
  <2>1. Kept(u, p, ty) /\ <<p, ty>> \notin rewritten'
    BY <1>7, <1>16
  <2>2. ASSUME NEW e \in Entities,
               Numbered(View(u)[e], p, ty) \/ Numbered(View(u)'[e], p, ty)
        PROVE  View(u)[e] = View(u)'[e]
    <3>1. CASE pend[u][e] # NoRow
      BY <1>2, <3>1 DEF View
    <3>2. CASE pend[u][e] = NoRow
      <4>1. View(u)[e] = row[e] /\ View(u)'[e] = row'[e]
        BY <1>2, <3>2 DEF View
      <4>2. row'[e] = row[e]
        BY <1>8, <1>16, <2>1, <2>2, <4>1
      <4>3. QED
        BY <4>1, <4>2
    <3>3. QED
      BY <3>1, <3>2
  <2>3. Dense(View(u), p, ty)
    BY <2>1 DEF ViewDense
  <2>4. QED
    BY <1>15, <2>2, <2>3, SameScope
<1>17. NextFits'
  <2> SUFFICES ASSUME NEW u \in Txns, pc'[u] = "write", next'[u] # 0,
                      (Kept(u, job[u].project, job[u].type))'
               PROVE  next'[u] = NextShortSeq(View(u)', job'[u].project, job'[u].type)
    BY DEF NextFits
  <2>1. /\ u # t /\ pc[u] = "write" /\ next[u] # 0
        /\ job'[u] = job[u] /\ next'[u] = next[u] /\ Numbering(u)
    BY <1>2 DEF Numbering
  <2>2. job[u].project \in Projects /\ job[u].type \in Types
    BY <1>1, <2>1, BusyItem DEF Busy
  <2>3. locks[HashText[<<job[u].project, job[u].type>>]] = u
    BY <2>1 DEF StepLocked, LockKey
  <2>4. Kept(u, job[u].project, job[u].type)'
    BY <2>1 DEF Kept
  <2>5. Kept(u, job[u].project, job[u].type)
    BY <1>7, <2>1, <2>2, <2>4
  <2>6. QED
    BY <1>16, <2>1, <2>2, <2>3, <2>4, <2>5 DEF NextFits
<1>18. ASSUME NEW p \in Projects, NEW ty \in Types, <<p, ty>> \notin rewritten'
       PROVE  Dense(row', p, ty)
  <2>1. CASE row' = row
    BY <1>1, <1>18, <2>1 DEF DenseShortIds, Dense
  <2>2. CASE row' = View(t) /\ rewritten' = rewritten \cup Rewriting(t)
    <3>1. Kept(t, p, ty)
      BY <1>18, <2>2 DEF Kept
    <3>2. QED
      BY <2>2, <3>1 DEF ViewDense
  <2>3. QED
    BY <2>1, <2>2
<1>19. ViewDense'
  <2> SUFFICES ASSUME NEW u \in Txns, NEW p \in Projects, NEW ty \in Types, Kept(u, p, ty)'
               PROVE  Dense(View(u)', p, ty)
    BY DEF ViewDense
  <2>1. CASE u # t /\ locks[HashText[<<p, ty>>]] = u
    BY <1>16, <2>1
  <2>2. CASE u = t \/ locks[HashText[<<p, ty>>]] # u
    <3>1. <<p, ty>> \notin rewritten' /\ <<p, ty>> \notin Rewriting(u)'
      BY DEF Kept
    <3>2. ASSUME NEW e \in Entities,
                 Numbered(row'[e], p, ty) \/ Numbered(View(u)'[e], p, ty)
          PROVE  row'[e] = View(u)'[e]
      <4>1. CASE pend'[u][e] = NoRow
        BY <4>1 DEF View
      <4>2. CASE pend'[u][e] # NoRow
        <5>1. u # t /\ pend[u][e] = pend'[u][e] /\ row'[e] = row[e]
          BY <1>2, <1>4, <4>2
        <5>2. View(u)'[e] = pend[u][e] /\ pend[u][e] # NoRow /\ pend[u][e] \in Row
          BY <1>1, <4>2, <5>1 DEF View, TypeOK
        <5>3. CASE row[e] = NoRow \/ row[e].seq = 0
          <6>1. Numbered(pend[u][e], p, ty)
            BY <3>2, <5>1, <5>2, <5>3 DEF Numbered
          <6>2. locks[HashText[<<p, ty>>]] = u
            BY <5>2, <5>3, <6>1 DEF PendLocked, Numbered
          <6>3. QED
            BY <2>2, <5>1, <6>2
        <5>4. CASE row[e] # NoRow /\ row[e].seq # 0
          <6>1. row[e] \in Row
            BY <1>1, <5>4 DEF TypeOK
          <6>2. <<p, ty>> \notin RewrittenBy(row'[e], View(u)'[e])
            BY <3>1 DEF Rewriting
          <6>3. QED
            BY <3>2, <5>1, <5>2, <5>4, <6>1, <6>2, KeptRow
        <5>5. QED
          BY <5>3, <5>4
      <4>3. QED
        BY <4>1, <4>2
    <3>3. QED
      BY <1>1, <1>15, <1>18, <3>1, <3>2, SameScope
  <2>3. QED
    BY <2>1, <2>2
<1>20. DenseShortIds'
  BY <1>18 DEF DenseShortIds, Dense
<1>21. QED
  BY <1>1, <1>9, <1>10, <1>12, <1>13, <1>14, <1>17, <1>19, <1>20

LEMMA NextIInv == IInv /\ [Next]_vars => IInv'
<1> SUFFICES ASSUME IInv, [Next]_vars PROVE IInv'
  OBVIOUS
<1>1. ASSUME NEW t \in Txns, NEW e \in Entities, NEW p \in ProjectIds, NEW ty \in Types,
             Create(t, e, p, ty)
      PROVE  IInv'
  BY <1>1, CreateIInv
<1>2. ASSUME NEW t \in Txns, NEW e \in Entities, NEW p \in ProjectIds, NEW d \in BOOLEAN,
             Update(t, e, p, d)
      PROVE  IInv'
  BY <1>2, UpdateIInv
<1>3. ASSUME NEW t \in Txns, AcquireLock(t) \/ ReadMax(t)
      PROVE  IInv'
  BY <1>3, AcquireLockIInv, ReadMaxIInv
<1>4. ASSUME NEW t \in Txns, Autoflush(t) \/ Write(t) PROVE IInv'
  <2>1. GInv'
    BY NextGInv DEF IInv, LInv
  <2>2. CASE Autoflush(t)
    BY <2>1, <2>2, FlushIInv DEF Autoflush
  <2>3. CASE Write(t)
    BY <2>1, <2>3, FlushIInv DEF Write
  <2>4. QED
    BY <1>4, <2>2, <2>3
<1>5. ASSUME NEW t \in Txns,
             Commit(t) \/ ConstraintError(t) \/ Rollback(t) \/ DeadlockVictim(t)
      PROVE  IInv'
  BY <1>5, EndIInv DEF Commit, ConstraintError, Rollback, DeadlockVictim
<1>6. CASE UNCHANGED vars
  <2>1. GInv'
    BY <1>6, NextGInv DEF IInv, LInv
  <2>2. ASSUME NEW t \in Txns
        PROVE  /\ Numbering(t)' <=> Numbering(t)
               /\ Flushed(t)' <=> Flushed(t)
               /\ Busy(t)' <=> Busy(t)
               /\ View(t)' = View(t)
    BY <1>6, FrameViews DEF vars, Numbering, Flushed, Busy
  <2>3. (PendTyped /\ PendLocked /\ PendDone /\ StepLocked)'
    BY <1>6, <2>2 DEF vars, IInv, LInv, PendTyped, PendLocked, PendDone, StepLocked, LockKey
  <2>4. JobShape'
    BY <1>6, <2>2 DEF vars, IInv, LInv, JobShape, ItemShape
  <2>5. NextFits'
    BY <1>6, FrameViews DEF vars, IInv, NextFits
  <2>6. QED
    BY <1>6, <2>1, <2>3, <2>4, <2>5, FrameIInv DEF vars, LInv
<1>7. QED
  BY <1>1, <1>2, <1>3, <1>4, <1>5, <1>6 DEF Next

(* No other row, committed or not, has the number a request is about to     *)
(* write.                                                                   *)
LEMMA NoCollision == IInv => NeverCollides
<1> SUFFICES ASSUME IInv, NEW t \in Txns, pc[t] = "write", next[t] # 0,
                    <<job[t].project, job[t].type>>
                      \notin rewritten \cup UNION {Rewriting(u) : u \in Txns},
                    NEW f \in Entities \ {job[t].entity}
             PROVE  /\ ~SameShortId(View(t)[f], NewRow(t))
                    /\ \A u \in Txns \ {t} : ~SameShortId(pend[u][f], NewRow(t))
  BY DEF NeverCollides
<1> USE DEF IInv, LInv
<1> DEFINE p == job[t].project
           ty == job[t].type
           r == NewRow(t)
<1>1. /\ Busy(t) /\ Numbering(t) /\ GInv /\ TypeOK /\ PendAlone
      /\ job[t] \in Jobs /\ job[t].entity \in Entities
      /\ ItemScoped(t) /\ ItemShape(t) /\ p \in Projects /\ ty \in Types
  BY BusyItem DEF Busy, Numbering, JobShape, GInv
<1>2. r.project = p /\ r.type = ty /\ r.seq = next[t]
  <2>1. CASE job[t].seen = NoRow
    BY <2>1 DEF NewRow
  <2>2. CASE job[t].seen # NoRow
    <3>1. job[t].seen.seq = 0 /\ View(t)[job[t].entity].type = ty
      BY <1>1, <2>2 DEF ItemShape
    <3>2. job[t].seen.project = NoProject
      BY <1>1, <2>2, <3>1 DEF ItemScoped, Scoped
    <3>3. p # NoProject
      BY <1>1, ConstantsAssumption
    <3>4. QED
      BY <2>2, <3>1, <3>2, <3>3 DEF NewRow
  <2>3. QED
    BY <2>1, <2>2
<1>3. Kept(t, p, ty) /\ \A u \in Txns : <<p, ty>> \notin Rewriting(u)
  BY DEF Kept
<1>4. next[t] = LastShortSeq(View(t), p, ty) + 1
  BY <1>3 DEF NextFits, NextShortSeq
<1>5. locks[HashText[<<p, ty>>]] = t
  BY <1>1 DEF StepLocked, LockKey
<1> HIDE DEF r, p, ty
<1>6. ASSUME SameShortId(View(t)[f], r) PROVE FALSE
  <2>1. Numbered(View(t)[f], p, ty) /\ View(t)[f].seq = next[t]
    BY <1>2, <1>6 DEF SameShortId, Numbered
  <2>2. next[t] \in UsedSeqs(View(t), p, ty)
    BY <2>1 DEF UsedSeqs
  <2>3. /\ LastShortSeq(View(t), p, ty) \in Nat
        /\ next[t] <= LastShortSeq(View(t), p, ty)
    BY <1>1, <2>2, ViewType, LastShortSeqType
  <2>4. QED
    BY <1>4, <2>3
<1>7. ASSUME NEW u \in Txns \ {t}, SameShortId(pend[u][f], r) PROVE FALSE
  <2>1. /\ pend[u][f] # NoRow /\ pend[u][f].seq # 0 /\ Numbered(pend[u][f], p, ty)
        /\ pend[u][f].project = p /\ pend[u][f].type = ty
        /\ pend[u][f] \in Row
    BY <1>1, <1>2, <1>7 DEF SameShortId, Numbered, TypeOK
  <2>2. row[f] # NoRow /\ row[f].seq # 0 /\ row[f] \in Row
    BY <1>1, <1>5, <2>1 DEF PendLocked, TypeOK
  <2>3. View(u)[f] = pend[u][f]
    BY <2>1 DEF View
  <2>4. <<p, ty>> \notin RewrittenBy(row[f], pend[u][f])
    BY <1>3, <2>3 DEF Rewriting
  <2>5. pend[u][f] = row[f] /\ pend[t][f] = NoRow
    BY <1>1, <2>1, <2>2, <2>4, KeptRow DEF PendAlone
  <2>6. View(t)[f] = pend[u][f]
    BY <2>5 DEF View
  <2>7. QED
    BY <1>6, <1>7, <2>6
<1>8. QED
  BY <1>6, <1>7 DEF r

(* The committed numbers of each project and type are 1 .. n, each on one   *)
(* entity, under any interleaving of creates and ingests and any rollbacks, *)
(* until a commit changes a short id there.                                 *)
THEOREM ShortIdsDense == Spec => []DenseShortIds
<1>1. IInv => DenseShortIds
  BY DEF IInv
<1>2. QED
  BY InitIInv, NextIInv, <1>1, PTL DEF Spec

(* next_short_seq's "MAX+1 can't collide": the lock it takes is enough      *)
(* wherever no short id has been changed or is being changed, for an INSERT *)
(* and for an UPDATE that gives an entity its first project.                *)
THEOREM ShortIdsNeverCollide == Spec => []NeverCollides
BY InitIInv, NextIInv, NoCollision, PTL DEF Spec

-----------------------------------------------------------------------------
BookOf == [e \in Entities |-> ShortIdOf(e)]

GoodBook ==
  BookOf \in [Entities -> Book!Id \cup {NoRow}] /\ Book!WellNumbered(BookOf, rewritten)

(* The entry of a row in the book. *)
LEMMA EntryOfRow ==
  ASSUME TypeOK, NumberedIffScoped, NEW e \in Entities
  PROVE  /\ row[e] # NoRow /\ row[e].seq # 0 =>
              /\ row[e].project \in Projects /\ row[e].type \in Types /\ row[e].seq \in Nat
              /\ ShortIdOf(e) = row[e] /\ ShortIdOf(e) # NoRow
              /\ ShortIdOf(e) \in Book!Id
         /\ ~(row[e] # NoRow /\ row[e].seq # 0) => ShortIdOf(e) = NoRow
<1>1. ASSUME row[e] # NoRow, row[e].seq # 0
      PROVE  /\ row[e].project \in Projects /\ row[e].type \in Types /\ row[e].seq \in Nat
             /\ ShortIdOf(e) = row[e] /\ ShortIdOf(e) \in Book!Id
  <2>1. row[e] \in Row
    BY <1>1 DEF TypeOK
  <2>2. row[e].project \in Projects /\ row[e].type \in Types /\ row[e].seq \in Nat
    BY <1>1, <2>1 DEF NumberedIffScoped, Row, ProjectIds
  <2>3. ShortIdOf(e) = [project |-> row[e].project, type |-> row[e].type, seq |-> row[e].seq]
    BY <1>1 DEF ShortIdOf
  <2>4. ShortIdOf(e) = row[e]
    BY <2>1, <2>3 DEF Row
  <2>5. QED
    BY <1>1, <2>2, <2>3, <2>4 DEF Book!Id
<1>2. QED
  BY <1>1 DEF ShortIdOf

(* The book that another session reads is well numbered. *)
LEMMA BookWellNumbered ==
  ASSUME IInv
  PROVE  GoodBook
<1> USE DEF IInv, LInv
<1> DEFINE issued == [e \in Entities |-> ShortIdOf(e)]
<1>1. TypeOK /\ NumberedIffScoped
  BY DEF GInv
<1>2. ASSUME NEW e \in Entities, row[e] # NoRow, row[e].seq # 0
      PROVE  /\ row[e].project \in Projects /\ row[e].type \in Types /\ row[e].seq \in Nat
             /\ issued[e] = row[e] /\ issued[e] # NoRow
             /\ issued[e] \in Book!Id
  BY <1>1, <1>2, EntryOfRow
<1>3. ASSUME NEW e \in Entities, ~(row[e] # NoRow /\ row[e].seq # 0)
      PROVE  issued[e] = NoRow
  BY <1>3 DEF ShortIdOf
<1> HIDE DEF issued
<1>4. issued \in [Entities -> Book!Id \cup {NoRow}]
  BY <1>2, <1>3 DEF issued
<1>5. ASSUME NEW e \in Entities, issued[e] # NoRow,
             <<issued[e].project, issued[e].type>> \notin rewritten
      PROVE  /\ \A f \in Entities :
                  Book!Holds(issued, f, issued[e].project, issued[e].type, issued[e].seq)
                    => f = e
             /\ \A n \in 1 .. issued[e].seq :
                  \E f \in Entities :
                    Book!Holds(issued, f, issued[e].project, issued[e].type, n)
  <2> DEFINE p == row[e].project
             ty == row[e].type
  <2>1. row[e] # NoRow /\ row[e].seq # 0
    BY <1>3, <1>5
  <2>2. /\ issued[e].project = p /\ issued[e].type = ty /\ issued[e].seq = row[e].seq
        /\ p \in Projects /\ ty \in Types /\ Numbered(row[e], p, ty)
        /\ <<p, ty>> \notin rewritten
    BY <1>2, <1>5, <2>1 DEF Numbered
  <2> HIDE DEF p, ty
  <2>3. ASSUME NEW f \in Entities, NEW n, n # 0
        PROVE  Book!Holds(issued, f, p, ty, n)
                 <=> Numbered(row[f], p, ty) /\ row[f].seq = n
    <3>1. CASE row[f] # NoRow /\ row[f].seq # 0
      BY <1>2, <2>3, <3>1 DEF Book!Holds, Numbered
    <3>2. CASE ~(row[f] # NoRow /\ row[f].seq # 0)
      BY <1>3, <2>3, <3>2 DEF Book!Holds, Numbered
    <3>3. QED
      BY <3>1, <3>2
  <2>4. GapFree(row, p, ty) /\ OneEach(row, p, ty)
    BY <2>2 DEF DenseShortIds
  <2>5. ASSUME NEW f \in Entities, Book!Holds(issued, f, p, ty, row[e].seq)
        PROVE  f = e
    BY <2>1, <2>2, <2>3, <2>4, <2>5 DEF OneEach
  <2>6. ASSUME NEW n \in 1 .. row[e].seq
        PROVE  \E f \in Entities : Book!Holds(issued, f, p, ty, n)
    <3>1. row[e].seq \in UsedSeqs(row, p, ty)
      BY <2>2 DEF UsedSeqs
    <3>2. n \in UsedSeqs(row, p, ty) /\ n # 0
      BY <2>4, <2>6, <3>1 DEF GapFree
    <3>3. PICK f \in Entities : Numbered(row[f], p, ty) /\ row[f].seq = n
      BY <3>2 DEF UsedSeqs
    <3>4. QED
      BY <2>3, <3>2, <3>3
  <2>7. QED
    BY <2>2, <2>5, <2>6
<1>6. Book!WellNumbered(issued, rewritten)
  BY <1>5 DEF Book!WellNumbered, Book!SeriesOf
<1>7. QED
  BY <1>4, <1>6 DEF issued, GoodBook, BookOf

(* An entry that a commit changes stays in the book, and the two series are *)
(* those it adds to the rewritten ones.                                     *)
LEMMA CommitSpoils ==
  ASSUME IInv, GInv', NEW t \in Txns,
         row' = View(t), rewritten' = rewritten \cup Rewriting(t)
  PROVE  LET changed == {e \in Entities : BookOf[e] # NoRow /\ BookOf'[e] # BookOf[e]}
         IN /\ \A e \in changed : BookOf'[e] # NoRow
            /\ rewritten' = rewritten \cup {Book!SeriesOf(BookOf[e]) : e \in changed}
                                      \cup {Book!SeriesOf(BookOf'[e]) : e \in changed}
<1> DEFINE changed == {e \in Entities : BookOf[e] # NoRow /\ BookOf'[e] # BookOf[e]}
           OldSeries == {Book!SeriesOf(BookOf[e]) : e \in changed}
           NewSeries == {Book!SeriesOf(BookOf'[e]) : e \in changed}
<1>1. TypeOK /\ NumberedIffScoped /\ TypeOK' /\ NumberedIffScoped' /\ PendKeepsScope
  BY DEF IInv, LInv, GInv
<1>2. ASSUME NEW e \in Entities
      PROVE  /\ BookOf[e] = ShortIdOf(e) /\ BookOf'[e] = ShortIdOf(e)'
             /\ row[e] # NoRow /\ row[e].seq # 0 => BookOf[e] = row[e] /\ BookOf[e] # NoRow
             /\ ~(row[e] # NoRow /\ row[e].seq # 0) => BookOf[e] = NoRow
             /\ row'[e] # NoRow /\ row'[e].seq # 0 => BookOf'[e] = row'[e] /\ BookOf'[e] # NoRow
  <2>1. BookOf[e] = ShortIdOf(e) /\ BookOf'[e] = ShortIdOf(e)'
    BY DEF BookOf
  <2>2. /\ row[e] # NoRow /\ row[e].seq # 0 => ShortIdOf(e) = row[e] /\ ShortIdOf(e) # NoRow
        /\ ~(row[e] # NoRow /\ row[e].seq # 0) => ShortIdOf(e) = NoRow
    BY <1>1, EntryOfRow
  <2>3. row'[e] # NoRow /\ row'[e].seq # 0 => ShortIdOf(e)' = row'[e] /\ ShortIdOf(e)' # NoRow
    <3> SUFFICES ASSUME row'[e] # NoRow, row'[e].seq # 0
                 PROVE  ShortIdOf(e)' = row'[e]
      OBVIOUS
    <3>1. row'[e] \in Row
      BY <1>1 DEF TypeOK
    <3>2. QED
      BY <3>1 DEF ShortIdOf, Row
  <2>4. QED
    BY <2>1, <2>2, <2>3
<1>3. ASSUME NEW e \in Entities, row[e] # NoRow, row[e].seq # 0
      PROVE  /\ row[e] \in Row /\ row'[e] \in Row /\ row'[e] # NoRow /\ row'[e].seq # 0
             /\ row'[e] = View(t)[e]
             /\ SameShortId(row[e], row'[e]) <=> row'[e] = row[e]
  <2>1. row[e] \in Row /\ row[e].project # NoProject
    BY <1>1, <1>3 DEF TypeOK, NumberedIffScoped
  <2>2. View(t)[e] # NoRow /\ View(t)[e].project # NoProject
    BY <1>1, <1>3, <2>1 DEF View, PendKeepsScope
  <2>3. row'[e] \in Row /\ row'[e].seq # 0
    BY <1>1, <2>2 DEF TypeOK, NumberedIffScoped
  <2>4. SameShortId(row[e], row'[e]) => row'[e] = row[e]
    BY <2>1, <2>3 DEF SameShortId, Row
  <2>5. row'[e] = row[e] => SameShortId(row[e], row'[e])
    BY <1>3 DEF SameShortId
  <2>6. QED
    BY <2>1, <2>2, <2>3, <2>4, <2>5
<1>4. ASSUME NEW e \in changed
      PROVE  /\ BookOf'[e] # NoRow
             /\ RewrittenBy(row[e], View(t)[e])
                  = {Book!SeriesOf(BookOf[e]), Book!SeriesOf(BookOf'[e])}
  <2>1. e \in Entities /\ row[e] # NoRow /\ row[e].seq # 0 /\ row'[e] # row[e]
    BY <1>2, <1>3
  <2>2. BookOf[e] = row[e] /\ BookOf'[e] = row'[e] /\ BookOf'[e] # NoRow
    BY <1>2, <1>3, <2>1
  <2>3. RewrittenBy(row[e], row'[e])
          = {<<row[e].project, row[e].type>>, <<row'[e].project, row'[e].type>>}
    BY <1>3, <2>1 DEF RewrittenBy
  <2>4. QED
    BY <1>3, <2>1, <2>2, <2>3 DEF Book!SeriesOf
<1>5. ASSUME NEW e \in Entities, e \notin changed
      PROVE  RewrittenBy(row[e], View(t)[e]) = {}
  <2>1. CASE row[e] # NoRow /\ row[e].seq # 0
    <3>1. row'[e] = row[e]
      BY <1>2, <1>3, <1>5, <2>1
    <3>2. QED
      BY <1>3, <2>1, <3>1, SameRewritesNothing
  <2>2. CASE ~(row[e] # NoRow /\ row[e].seq # 0)
    BY <2>2 DEF RewrittenBy
  <2>3. QED
    BY <2>1, <2>2
<1> DEFINE R(e) == RewrittenBy(row[e], View(t)[e])
<1>6. Rewriting(t) = UNION {R(e) : e \in Entities}
  BY DEF Rewriting
<1>7. changed \subseteq Entities
  OBVIOUS
<1>8. \A e \in changed : R(e) = {Book!SeriesOf(BookOf[e]), Book!SeriesOf(BookOf'[e])}
  BY <1>4
<1>9. \A e \in Entities : e \notin changed => R(e) = {}
  BY <1>5
<1> HIDE DEF R, changed
<1>10. Rewriting(t) = OldSeries \cup NewSeries
  <2>1. ASSUME NEW s \in Rewriting(t) PROVE s \in OldSeries \cup NewSeries
    <3>1. PICK e \in Entities : s \in R(e)
      BY <1>6
    <3>2. e \in changed
      BY <1>9, <3>1
    <3>3. QED
      BY <1>8, <3>1, <3>2
  <2>2. ASSUME NEW e \in changed
        PROVE  Book!SeriesOf(BookOf[e]) \in Rewriting(t) /\ Book!SeriesOf(BookOf'[e]) \in Rewriting(t)
    BY <1>6, <1>7, <1>8
  <2>3. QED
    BY <2>1, <2>2
<1>11. QED
  BY <1>4, <1>10 DEF changed

(* Every commit enters its numbers in the book. *)
LEMMA StepEnters ==
  ASSUME IInv, IInv', GoodBook', [Next]_vars
  PROVE  [Book!Enter]_<<[e \in Entities |-> ShortIdOf(e)], rewritten>>
<1>1. CASE UNCHANGED <<row, rewritten>>
  <2>1. \A e \in Entities : ShortIdOf(e)' = ShortIdOf(e)
    BY <1>1 DEF ShortIdOf
  <2>2. QED
    BY <1>1, <2>1
<1>2. CASE ~UNCHANGED <<row, rewritten>>
  <2>1. PICK t \in Txns : row' = View(t) /\ rewritten' = rewritten \cup Rewriting(t)
    BY <1>2 DEF Next, vars, Create, Update, TakeUp, AcquireLock, Autoflush, ReadMax, Write,
                Flush, Commit, ConstraintError, Rollback, DeadlockVictim
  <2>2. GInv'
    BY DEF IInv, LInv
  <2> DEFINE issued == [e \in Entities |-> ShortIdOf(e)]
             changed == {e \in Entities : issued[e] # NoRow /\ issued'[e] # issued[e]}
  <2>3. /\ \A e \in changed : issued'[e] # NoRow
        /\ rewritten' = rewritten \cup {Book!SeriesOf(issued[e]) : e \in changed}
                                  \cup {Book!SeriesOf(issued'[e]) : e \in changed}
    BY <2>1, <2>2, CommitSpoils DEF BookOf
  <2>4. issued' \in [Entities -> Book!Id \cup {NoRow}] /\ Book!WellNumbered(issued', rewritten')
    BY DEF GoodBook, BookOf
  <2>5. Book!Enter
    BY <2>3, <2>4 DEF Book!Enter
  <2>6. QED
    BY <2>5
<1>3. QED
  BY <1>1, <1>2

(* What other sessions can read of the numbering is a book of short ids:    *)
(* entered in batches, and, where no entry was changed, without gaps or     *)
(* duplicates.                                                              *)
THEOREM ShortIdsImplementBook == Spec => ImplementsBook
<1>1. Init => Book!Init
  BY DEF Init, Book!Init, ShortIdOf
<1>2. IInv /\ IInv' /\ GoodBook' /\ [Next]_vars
        => [Book!Enter]_<<[e \in Entities |-> ShortIdOf(e)], rewritten>>
  BY StepEnters
<1>3. QED
  BY InitIInv, NextIInv, BookWellNumbered, <1>1, <1>2, PTL
     DEF Spec, ImplementsBook, Book!Spec, Book!vars
=============================================================================
