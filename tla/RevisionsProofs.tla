--------------------------- MODULE RevisionsProofs ---------------------------
(***************************************************************************)
(* Proofs about Revisions, for any number of sessions, entities, columns   *)
(* and values.  RInv says what the uncommitted rows and revisions of a     *)
(* session have to do with the committed ones at every statement of every  *)
(* other session, so that a commit, whenever it comes, adds the next       *)
(* numbers to the history and a revision for each row it changes.          *)
(***************************************************************************)
EXTENDS Revisions, MaxLemmas

(* The item of t has been flushed and its revision is not inserted yet. *)
InHand(t, e) == pc[t] \in {"refresh", "max", "insert"} /\ job[t].entity = e

(* The revisions of e that t can read. *)
Readable(t, e) == hist[e] \cup pendHist[t][e]

-----------------------------------------------------------------------------
(* What holds of the session t. *)

(* Between two requests it has nothing. *)
IdleEmpty(t) ==
  pc[t] = "idle" => \A e \in Entities : pend[t][e] = NoRow /\ pendHist[t][e] = {}

(* What it can read is numbered 1 .. n, its own revisions last. *)
NumberedLast(t) ==
  \A e \in Entities : Contiguous(Readable(t, e)) /\ hist[e] \cap pendHist[t][e] = {}

(* The number in hand follows those that were read with it. *)
NumberInHand(t) ==
  pc[t] = "insert" =>
    LET e == job[t].entity IN
      /\ revNo[t] # 0
      /\ 1 .. revNo[t] - 1 \subseteq Numbers(Readable(t, e))
      /\ revNo[t] \notin Numbers(pendHist[t][e])

(* What it has loaded or recorded is there for it to see. *)
Visible(t) ==
  \A e \in Entities :
    loaded[t][e] # NoRow \/ pendHist[t][e] # {} => View(t)[e] # NoRow

(* It writes no row without a revision, except for the item in hand. *)
WritesRecorded(t) ==
  \A e \in Entities : pend[t][e] # NoRow => pendHist[t][e] # {} \/ InHand(t, e)

PendingCreation(t) ==
  \A e \in Entities : \A r \in pendHist[t][e] : r.type = "create" <=> r.no = 1

(* The item it is at creates its entity or finds it recorded. *)
ItemOK(t) ==
  LET j == job[t]
      e == j.entity
  IN Busy(t) =>
       /\ j.kind = "patch" => j.before # NoRow
       /\ pc[t] = "assign" =>
            /\ loaded[t][e] = j.before
            /\ j.before = NoRow => j.assign \in State /\ pend[t][e] = NoRow
       /\ pc[t] # "assign" =>
            /\ loaded[t][e] # NoRow
            /\ j.before = NoRow => pend[t][e] # NoRow /\ row[e] = NoRow
            /\ j.kind # "ingest" /\ pend[t][e] # NoRow => loaded[t][e] = pend[t][e]
       /\ j.before = NoRow => pendHist[t][e] = {}
       /\ j.before # NoRow => Readable(t, e) # {}

(* Its object of a row it has written agrees with the row, except in        *)
(* columns that are as committed.                                           *)
ObjectAgrees(t) ==
  \A e \in Entities :
    pend[t][e] # NoRow =>
      /\ loaded[t][e] # NoRow
      /\ \A f \in Fields :
           \/ loaded[t][e][f] = pend[t][e][f]
           \/ row[e] # NoRow /\ pend[t][e][f] = row[e][f]

(* What CommitsRecorded asks of the newest revision, before the commit. *)
Tells(r, t, e) ==
  \A f \in Fields :
    \/ EffectiveState(r)[f] = pend[t][e][f]
    \/ /\ r.type = "update" /\ r.changed = NoChange
       /\ row[e] # NoRow /\ pend[t][e][f] = row[e][f]

NewestTells(t) ==
  \A e \in Entities :
    pend[t][e] # NoRow /\ ~InHand(t, e) =>
      \E r \in pendHist[t][e] :
        (\A s \in pendHist[t][e] : s.no <= r.no) /\ Tells(r, t, e)

(* A row it has written differs from the committed one in columns it was    *)
(* asked to set only.                                                       *)
WritesAsked(t) ==
  \A e \in Entities :
    pend[t][e] # NoRow /\ row[e] # NoRow =>
      \A f \in Fields \ asked[t][e] : pend[t][e][f] = row[e][f]

SessionOK(t) ==
  /\ IdleEmpty(t)
  /\ NumberedLast(t) /\ NumberInHand(t)
  /\ Visible(t) /\ WritesRecorded(t) /\ PendingCreation(t)
  /\ ItemOK(t)
  /\ ObjectAgrees(t) /\ NewestTells(t) /\ WritesAsked(t)

-----------------------------------------------------------------------------
(* What holds between sessions: at most one has written an entity, at most  *)
(* one has revisions of it that are not committed.                          *)
OneWriter ==
  \A t, u \in Txns, e \in Entities :
    pend[t][e] # NoRow /\ pend[u][e] # NoRow => t = u

OneRecorder ==
  \A t, u \in Txns, e \in Entities :
    pendHist[t][e] # {} /\ pendHist[u][e] # {} => t = u

RInv ==
  /\ TypeOK
  /\ ContiguousRevisions /\ CreatedOnce
  /\ OneWriter /\ OneRecorder
  /\ \A t \in Txns : SessionOK(t)

-----------------------------------------------------------------------------
(* Revisions numbered 1 .. n, without the maximum. *)
LEMMA LastOfInterval ==
  ASSUME NEW revs, NEW n \in Nat, Numbers(revs) = 1 .. n
  PROVE  LastRevisionNo(revs) = n
BY MaxOfInterval DEF LastRevisionNo

LEMMA ContiguousNumbers ==
  ASSUME NEW revs
  PROVE  Contiguous(revs) <=>
           /\ \E n \in Nat : Numbers(revs) = 1 .. n
           /\ \A r, s \in revs : r.no = s.no => r = s
BY LastOfInterval DEF Contiguous

LEMMA ContiguousNothing == Contiguous({})
<1>1. Numbers({}) = 1 .. 0
  BY DEF Numbers
<1>2. QED
  BY <1>1, ContiguousNumbers

(* The next number extends the numbering, at its end. *)
LEMMA ContiguousNext ==
  ASSUME NEW revs, NEW n \in Nat, Numbers(revs) = 1 .. n, Contiguous(revs),
         NEW r, r.no = n + 1
  PROVE  Contiguous(revs \cup {r}) /\ \A s \in revs : s.no <= r.no
<1>1. Numbers(revs \cup {r}) = 1 .. n + 1
  BY DEF Numbers
<1>2. \A s \in revs : s.no \in 1 .. n
  BY DEF Numbers
<1>3. \A s, q \in revs \cup {r} : s.no = q.no => s = q
  BY <1>2 DEF Contiguous
<1>4. n + 1 \in Nat
  OBVIOUS
<1>5. QED
  BY <1>1, <1>2, <1>3, <1>4, ContiguousNumbers

(* Of a numbering that extends another one, every further revision is above.*)
LEMMA FurtherAbove ==
  ASSUME NEW H, NEW P, Contiguous(H), Contiguous(H \cup P), H \cap P = {},
         NEW n \in Nat, Numbers(H) = 1 .. n
  PROVE  /\ \A s \in P : s.no \in Nat /\ s.no > n
         /\ P # {} => n + 1 \in Numbers(P)
<1>1. PICK m \in Nat : Numbers(H \cup P) = 1 .. m
  BY ContiguousNumbers
<1>2. ASSUME NEW s \in P PROVE s.no \in 1 .. m /\ s.no > n
  <2>1. s.no \in 1 .. m
    BY <1>1 DEF Numbers
  <2>2. s.no \notin 1 .. n
    <3> SUFFICES ASSUME s.no \in Numbers(H) PROVE FALSE
      OBVIOUS
    <3>1. PICK r \in H : r.no = s.no
      BY DEF Numbers
    <3>2. r = s
      BY <3>1 DEF Contiguous
    <3>3. QED
      BY <3>1, <3>2
  <2>3. QED
    BY <2>1, <2>2
<1>3. ASSUME P # {} PROVE n + 1 \in Numbers(P)
  <2>1. n + 1 \in 1 .. m
    BY <1>2, <1>3
  <2>2. n + 1 \in Numbers(H \cup P) /\ n + 1 \notin Numbers(H)
    BY <1>1, <2>1
  <2>3. QED
    BY <2>2 DEF Numbers
<1>4. QED
  BY <1>2, <1>3

LEMMA ViewType ==
  ASSUME TypeOK, NEW t \in Txns, NEW e \in Entities
  PROVE  /\ View(t)[e] \in State \cup {NoRow}
         /\ View(t)[e] = IF pend[t][e] # NoRow THEN pend[t][e] ELSE row[e]
BY DEF TypeOK, View

LEMMA OverlayState ==
  ASSUME NEW state \in State, NEW assign \in Assignments
  PROVE  /\ DOMAIN assign \subseteq Fields
         /\ Overlay(state, assign) \in State
         /\ \A f \in Fields : Overlay(state, assign)[f] =
              IF f \in DOMAIN assign THEN assign[f] ELSE state[f]
<1>1. PICK F \in SUBSET Fields : assign \in [F -> Values]
  BY DEF Assignments
<1>2. QED
  BY <1>1 DEF Overlay, State

(* The row a flush writes and what it leaves of the object. *)
LEMMA FlushedState ==
  ASSUME RInv, NEW t \in Txns, pc[t] = "assign"
  PROVE  LET j == job[t]
             e == j.entity
         IN
         /\ j \in Jobs /\ e \in Entities
         /\ NewRow(t) \in State /\ AfterFlush(t) \in State
         /\ Dirty(t) \subseteq DOMAIN j.assign
         /\ IsInsert(t) <=> j.before = NoRow
         /\ IsInsert(t) => AfterFlush(t) = NewRow(t) /\ pend[t][e] = NoRow
         /\ ~IsInsert(t) =>
              /\ View(t)[e] # NoRow
              /\ \A f \in Fields : f \notin Dirty(t) => NewRow(t)[f] = View(t)[e][f]
              /\ Dirty(t) = {} => NewRow(t) = View(t)[e]
              /\ \/ AfterFlush(t) = NewRow(t)
                 \/ /\ j.kind = "ingest"
                    /\ \A f \in Fields : AfterFlush(t)[f] =
                         IF f \in Dirty(t) THEN NewRow(t)[f] ELSE loaded[t][e][f]
<1> DEFINE j == job[t]
           e == j.entity
<1>1. /\ j \in Jobs /\ e \in Entities /\ j.assign \in Assignments
      /\ loaded[t][e] \in State \cup {NoRow}
  <2>1. j \in Jobs
    BY DEF RInv, TypeOK, Busy
  <2>2. e \in Entities /\ j.assign \in Assignments
    BY <2>1 DEF Jobs
  <2>3. QED
    BY <2>1, <2>2 DEF RInv, TypeOK
<1>2. /\ loaded[t][e] = j.before
      /\ j.before = NoRow => j.assign \in State /\ pend[t][e] = NoRow
  BY DEF RInv, SessionOK, ItemOK, Busy
<1>3. IsInsert(t) <=> j.before = NoRow
  BY <1>2 DEF IsInsert
<1>4. Dirty(t) \subseteq DOMAIN j.assign
  BY DEF Dirty
<1>5. CASE IsInsert(t)
  <2>1. NewRow(t) = j.assign /\ AfterFlush(t) = NewRow(t)
    BY <1>5 DEF NewRow, AfterFlush
  <2>2. NewRow(t) \in State /\ pend[t][e] = NoRow
    BY <1>2, <1>3, <1>5, <2>1
  <2>3. QED
    BY <1>1, <1>3, <1>4, <1>5, <2>1, <2>2
<1>6. CASE ~IsInsert(t)
  <2>1. loaded[t][e] \in State /\ View(t)[e] \in State
    BY <1>1, <1>6, ViewType DEF RInv, SessionOK, Visible, IsInsert
  <2>2. DOMAIN j.assign \subseteq Fields /\ \A f \in DOMAIN j.assign : j.assign[f] \in Values
    BY <1>1 DEF Assignments
  <2>3. /\ NewRow(t) \in State
        /\ \A f \in Fields : NewRow(t)[f] = IF f \in Dirty(t) THEN j.assign[f] ELSE View(t)[e][f]
    BY <1>4, <1>6, <2>1, <2>2 DEF NewRow, State
  <2>4. Dirty(t) = {} => NewRow(t) = View(t)[e]
    BY <2>1, <2>3 DEF State
  <2>5. CASE j.kind = "ingest"
    <3>1. AfterFlush(t) = Overlay(loaded[t][e], j.assign)
      BY <1>6, <2>5 DEF AfterFlush
    <3>2. \A f \in Fields : AfterFlush(t)[f] =
            IF f \in DOMAIN j.assign THEN j.assign[f] ELSE loaded[t][e][f]
      BY <1>1, <2>1, <3>1, OverlayState
    <3>3. \A f \in DOMAIN j.assign : f \notin Dirty(t) => loaded[t][e][f] = j.assign[f]
      BY DEF Dirty
    <3>4. AfterFlush(t) \in State
      BY <1>1, <2>1, <3>1, OverlayState
    <3>5. \A f \in Fields : AfterFlush(t)[f] =
            IF f \in Dirty(t) THEN NewRow(t)[f] ELSE loaded[t][e][f]
      BY <1>4, <2>3, <3>2, <3>3
    <3>6. QED
      BY <1>1, <1>3, <1>4, <1>6, <2>1, <2>3, <2>4, <2>5, <3>4, <3>5, ConstantsAssumption
  <2>6. CASE j.kind # "ingest"
    <3>1. AfterFlush(t) = NewRow(t)
      BY <2>6 DEF AfterFlush
    <3>2. QED
      BY <1>1, <1>3, <1>4, <1>6, <2>1, <2>3, <2>4, <3>1, ConstantsAssumption
  <2>7. QED
    BY <2>5, <2>6
<1>7. QED
  BY <1>5, <1>6

-----------------------------------------------------------------------------
LEMMA InitRInv == Init => RInv
<1> SUFFICES ASSUME Init PROVE RInv
  OBVIOUS
<1>1. TypeOK
  BY DEF Init, TypeOK, Busy
<1>2. ContiguousRevisions /\ CreatedOnce
  BY ContiguousNothing DEF Init, ContiguousRevisions, CreatedOnce
<1>3. OneWriter /\ OneRecorder
  BY DEF Init, OneWriter, OneRecorder
<1>4. ASSUME NEW t \in Txns PROVE SessionOK(t)
  <2>1. \A e \in Entities : Readable(t, e) = {}
    BY DEF Init, Readable
  <2>2. IdleEmpty(t) /\ NumberedLast(t) /\ NumberInHand(t)
    BY <2>1, ContiguousNothing DEF Init, IdleEmpty, NumberedLast, NumberInHand
  <2>3. Visible(t) /\ WritesRecorded(t) /\ PendingCreation(t) /\ ItemOK(t)
    BY DEF Init, Visible, WritesRecorded, PendingCreation, ItemOK, Busy
  <2>4. ObjectAgrees(t) /\ NewestTells(t) /\ WritesAsked(t)
    BY DEF Init, ObjectAgrees, NewestTells, WritesAsked
  <2>5. QED
    BY <2>2, <2>3, <2>4 DEF SessionOK
<1>5. QED
  BY <1>1, <1>2, <1>3, <1>4 DEF RInv

(* A step of t alone, that commits nothing. *)
SameSession(u) ==
  /\ pend'[u] = pend[u] /\ pendHist'[u] = pendHist[u]
  /\ loaded'[u] = loaded[u] /\ asked'[u] = asked[u]
  /\ pc'[u] = pc[u] /\ job'[u] = job[u] /\ revNo'[u] = revNo[u]

StepOf(t) == UNCHANGED <<row, hist>> /\ \A u \in Txns \ {t} : SameSession(u)

LEMMA SessionKept ==
  ASSUME NEW u \in Txns, SessionOK(u), UNCHANGED <<row, hist>>, SameSession(u)
  PROVE  SessionOK(u)'
<1>1. \A e \in Entities : View(u)'[e] = View(u)[e]
  BY DEF SameSession, View
<1>2. \A e : Readable(u, e)' = Readable(u, e)
  BY DEF SameSession, Readable
<1>3. (IdleEmpty(u) /\ NumberedLast(u) /\ NumberInHand(u))'
  BY <1>2 DEF SessionOK, SameSession, IdleEmpty, NumberedLast, NumberInHand
<1>4. (Visible(u) /\ WritesRecorded(u) /\ PendingCreation(u))'
  BY <1>1 DEF SessionOK, SameSession, Visible, WritesRecorded, PendingCreation, InHand
<1>5. ItemOK(u)'
  BY <1>2 DEF SessionOK, SameSession, ItemOK, Busy
<1>6. (ObjectAgrees(u) /\ NewestTells(u) /\ WritesAsked(u))'
  BY DEF SessionOK, SameSession, ObjectAgrees, NewestTells, WritesAsked, Tells, InHand
<1>7. QED
  BY <1>3, <1>4, <1>5, <1>6 DEF SessionOK

(* So a step of t alone is about t's own state and what it now holds.       *)
LEMMA StepRInv ==
  ASSUME RInv, NEW t \in Txns, StepOf(t), TypeOK', SessionOK(t)',
         \A e \in Entities :
           /\ pend'[t][e] # NoRow =>
                pend[t][e] # NoRow \/ \A u \in Txns \ {t} : pend[u][e] = NoRow
           /\ pendHist'[t][e] # {} =>
                pendHist[t][e] # {} \/ \A u \in Txns \ {t} : pendHist[u][e] = {}
  PROVE  RInv'
<1>1. ASSUME NEW u \in Txns PROVE SessionOK(u)'
  BY SessionKept DEF RInv, StepOf
<1>2. (ContiguousRevisions /\ CreatedOnce)'
  BY DEF RInv, StepOf, ContiguousRevisions, CreatedOnce
<1>3. OneWriter'
  BY DEF RInv, StepOf, SameSession, OneWriter
<1>4. OneRecorder'
  BY DEF RInv, StepOf, SameSession, OneRecorder
<1>5. QED
  BY <1>1, <1>2, <1>3, <1>4 DEF RInv

-----------------------------------------------------------------------------
(* A session that takes up an item. *)
LEMMA TakeUpRInv ==
  ASSUME RInv, NEW t \in Txns, NEW e \in Entities, NEW kind \in Kinds,
         NEW assign \in Assignments, NEW retag \in BOOLEAN,
         NEW seen \in State \cup {NoRow}, NEW step \in {"assign", "refresh", "max"},
         TakeUp(t, e, kind, assign, retag, seen, step),
         pc[t] \in {"idle", "open"},
         kind = "patch" => seen # NoRow,
         seen = NoRow => /\ step = "assign" /\ assign \in State
                         /\ pend[t][e] = NoRow /\ pendHist[t][e] = {},
         seen # NoRow => View(t)[e] # NoRow,
         pend[t][e] # NoRow => seen = loaded[t][e] /\ step = "assign"
  PROVE  RInv'
<1> DEFINE j == [entity |-> e, kind |-> kind, assign |-> assign, retag |-> retag,
                 before |-> seen]
<1>1. j \in Jobs
  BY DEF Jobs
<1>2. /\ j.entity = e /\ j.kind = kind /\ j.assign = assign /\ j.before = seen
  OBVIOUS
<1>3. /\ loaded' = [loaded EXCEPT ![t][e] = seen]
      /\ job' = [job EXCEPT ![t] = j]
      /\ pc' = [pc EXCEPT ![t] = step]
      /\ UNCHANGED <<row, hist, pend, pendHist, asked, revNo>>
  BY DEF TakeUp
<1> HIDE DEF j
<1>4. TypeOK'
  BY <1>1, <1>3 DEF RInv, TypeOK, Busy
<1>5. StepOf(t)
  BY <1>3 DEF RInv, TypeOK, StepOf, SameSession
<1>6. /\ pc'[t] = step /\ job'[t] = j
      /\ loaded'[t][e] = seen /\ \A g \in Entities \ {e} : loaded'[t][g] = loaded[t][g]
      /\ \A g \in Entities : View(t)'[g] = View(t)[g] /\ Readable(t, g)' = Readable(t, g)
  BY <1>3 DEF RInv, TypeOK, View, Readable
<1>7. SessionOK(t)'
  <2> USE DEF RInv, SessionOK
  <2>1. (IdleEmpty(t) /\ NumberedLast(t) /\ NumberInHand(t))'
    BY <1>3, <1>6 DEF IdleEmpty, NumberedLast, NumberInHand
  <2>2. (Visible(t) /\ WritesRecorded(t) /\ PendingCreation(t))'
    <3>1. Visible(t)'
      BY <1>3, <1>6 DEF Visible
    <3>2. WritesRecorded(t)' /\ PendingCreation(t)'
      BY <1>3 DEF WritesRecorded, PendingCreation, InHand
    <3>3. QED
      BY <3>1, <3>2
  <2>3. seen # NoRow => Readable(t, e) # {}
    <3>1. pend[t][e] # NoRow => pendHist[t][e] # {}
      BY DEF WritesRecorded, InHand
    <3>2. row[e] # NoRow => hist[e] # {}
      BY DEF CreatedOnce
    <3>3. QED
      BY <3>1, <3>2 DEF View, Readable
  <2>4. ItemOK(t)'
    BY <1>2, <1>3, <1>6, <2>3 DEF ItemOK
  <2>5. ObjectAgrees(t)'
    BY <1>3, <1>6 DEF ObjectAgrees
  <2>6. (NewestTells(t) /\ WritesAsked(t))'
    BY <1>2, <1>3, <1>6 DEF NewestTells, WritesAsked, Tells, InHand
  <2>7. QED
    BY <2>1, <2>2, <2>4, <2>5, <2>6
<1>8. QED
  BY <1>3, <1>4, <1>5, <1>7, StepRInv

LEMMA PostRInv ==
  ASSUME RInv, NEW t \in Txns, NEW e \in Entities, NEW s \in State, Post(t, e, s)
  PROVE  RInv'
<1>1. s \in Assignments /\ "post" \in Kinds
  BY DEF State, Assignments, Kinds
<1>2. pend[t][e] = NoRow /\ pendHist[t][e] = {}
  BY DEF RInv, SessionOK, IdleEmpty, Post
<1>3. TakeUp(t, e, "post", s, FALSE, NoRow, "assign") /\ pc[t] = "idle"
  BY DEF Post
<1>4. QED
  BY <1>1, <1>2, <1>3, TakeUpRInv

LEMMA PatchRInv ==
  ASSUME RInv, NEW t \in Txns, NEW e \in Entities, NEW a \in Assignments,
         NEW retag \in BOOLEAN, Patch(t, e, a, retag)
  PROVE  RInv'
<1> DEFINE step == IF DOMAIN a # {} THEN "assign" ELSE IF retag THEN "refresh" ELSE "max"
<1>1. pend[t][e] = NoRow /\ pendHist[t][e] = {}
  BY DEF RInv, SessionOK, IdleEmpty, Patch
<1>2. TakeUp(t, e, "patch", a, retag, row[e], step) /\ pc[t] = "idle" /\ row[e] # NoRow
  BY DEF Patch
<1>3. row[e] \in State \cup {NoRow} /\ View(t)[e] # NoRow /\ "patch" \in Kinds
  BY <1>1, <1>2 DEF RInv, TypeOK, View, Kinds
<1>4. step \in {"assign", "refresh", "max"}
  OBVIOUS
<1> HIDE DEF step
<1>5. QED
  BY <1>1, <1>2, <1>3, <1>4, TakeUpRInv

LEMMA IngestRInv ==
  ASSUME RInv, NEW t \in Txns, NEW e \in Entities, NEW a \in Assignments, Ingest(t, e, a)
  PROVE  RInv'
<1> DEFINE seen == Loaded(t, e)
<1>1. TakeUp(t, e, "ingest", a, FALSE, seen, "assign") /\ pc[t] \in {"idle", "open"}
  BY DEF Ingest
<1>2. seen \in State \cup {NoRow} /\ "ingest" \in Kinds
  BY ViewType DEF Loaded, RInv, TypeOK, Kinds
<1>3. Visible(t) /\ ObjectAgrees(t)
  BY DEF RInv, SessionOK
<1>4. seen # NoRow => View(t)[e] # NoRow
  BY <1>3 DEF Visible, Loaded
<1>5. pend[t][e] # NoRow => seen = loaded[t][e]
  BY <1>3 DEF ObjectAgrees, Loaded
<1>6. seen = NoRow => pend[t][e] = NoRow /\ pendHist[t][e] = {}
  BY <1>3 DEF Visible, Loaded, View
<1>7. seen = NoRow => a \in State
  <2>1. seen = NoRow => DOMAIN a = Fields
    BY DEF Ingest
  <2>2. PICK F \in SUBSET Fields : a \in [F -> Values]
    BY DEF Assignments
  <2>3. DOMAIN a = F
    BY <2>2
  <2>4. QED
    BY <2>1, <2>2, <2>3 DEF State
<1> HIDE DEF seen
<1>8. QED
  BY <1>1, <1>2, <1>4, <1>5, <1>6, <1>7, TakeUpRInv

-----------------------------------------------------------------------------
(* The flush of an item. *)
LEMMA AssignRInv ==
  ASSUME RInv, NEW t \in Txns, Assign(t)
  PROVE  RInv'
<1> DEFINE j == job[t]
           e == j.entity
           nr == NewRow(t)
           af == AfterFlush(t)
           step == IF j.retag THEN "refresh" ELSE "max"
<1>1. /\ pc[t] = "assign"
      /\ Emits(t) => RowRivals(t) = {} /\ ~IdTaken(t)
      /\ pend' = IF Emits(t) THEN [pend EXCEPT ![t][e] = nr] ELSE pend
      /\ loaded' = [loaded EXCEPT ![t][e] = af]
      /\ asked' = [asked EXCEPT ![t][e] = @ \cup DOMAIN j.assign]
      /\ pc' = [pc EXCEPT ![t] = step]
      /\ UNCHANGED <<row, hist, pendHist, job, revNo>>
  BY DEF Assign
<1>2. /\ j \in Jobs /\ e \in Entities /\ nr \in State /\ af \in State
      /\ Dirty(t) \subseteq DOMAIN j.assign
      /\ IsInsert(t) <=> j.before = NoRow
      /\ IsInsert(t) => af = nr /\ pend[t][e] = NoRow
      /\ ~IsInsert(t) =>
           /\ View(t)[e] # NoRow
           /\ \A f \in Fields : f \notin Dirty(t) => nr[f] = View(t)[e][f]
           /\ Dirty(t) = {} => nr = View(t)[e]
           /\ \/ af = nr
              \/ /\ j.kind = "ingest"
                 /\ \A f \in Fields : af[f] = IF f \in Dirty(t) THEN nr[f] ELSE loaded[t][e][f]
  BY <1>1, FlushedState
<1>3. DOMAIN j.assign \subseteq Fields
  <2>1. j.assign \in Assignments
    BY <1>2 DEF Jobs
  <2>2. QED
    BY <2>1 DEF Assignments
<1>4. step \in {"refresh", "max"} /\ nr # NoRow /\ af # NoRow
  BY <1>2, ConstantsAssumption
<1>5. /\ Emits(t) <=> IsInsert(t) \/ Dirty(t) # {}
      /\ Emits(t) => \A u \in Txns \ {t} : pend[u][e] = NoRow
      /\ IsInsert(t) => Emits(t) /\ row[e] = NoRow
  BY <1>1, <1>2 DEF Emits, RowRivals, IdTaken
<1>6. /\ ItemOK(t) /\ Busy(t) /\ Visible(t) /\ ObjectAgrees(t) /\ WritesAsked(t)
      /\ View(t)[e] = IF pend[t][e] # NoRow THEN pend[t][e] ELSE row[e]
  BY <1>1, <1>2 DEF RInv, SessionOK, Busy, View
<1> HIDE DEF nr, af, step
<1>7. TypeOK'
  BY <1>1, <1>2, <1>3, <1>4 DEF RInv, TypeOK, Busy
<1>8. StepOf(t)
  BY <1>1 DEF RInv, TypeOK, StepOf, SameSession
<1>9. /\ pend'[t][e] = IF Emits(t) THEN nr ELSE pend[t][e]
      /\ loaded'[t][e] = af
      /\ asked'[t][e] = asked[t][e] \cup DOMAIN j.assign
      /\ pc'[t] = step /\ job'[t] = j /\ pendHist'[t] = pendHist[t]
      /\ \A g \in Entities \ {e} :
           /\ pend'[t][g] = pend[t][g] /\ loaded'[t][g] = loaded[t][g]
           /\ asked'[t][g] = asked[t][g]
      /\ \A g : Readable(t, g)' = Readable(t, g)
  BY <1>1, <1>2 DEF RInv, TypeOK, Readable
<1>10. \A g \in Entities : View(t)[g] # NoRow => View(t)'[g] # NoRow
  BY <1>1, <1>4, <1>9 DEF View
<1>11. View(t)'[e] # NoRow
  BY <1>1, <1>2, <1>4, <1>5, <1>6, <1>9 DEF View
<1>12. SessionOK(t)'
  <2> USE DEF RInv, SessionOK
  <2>1. (IdleEmpty(t) /\ NumberedLast(t) /\ NumberInHand(t))'
    BY <1>1, <1>4, <1>9 DEF IdleEmpty, NumberedLast, NumberInHand
  <2>2. Visible(t)'
    BY <1>9, <1>10, <1>11 DEF Visible
  <2>3. WritesRecorded(t)'
    BY <1>1, <1>4, <1>9 DEF WritesRecorded, InHand
  <2>4. PendingCreation(t)'
    BY <1>1 DEF PendingCreation
  <2>5. ItemOK(t)'
    <3>1. j.before = NoRow => pend'[t][e] # NoRow /\ row'[e] = NoRow
      BY <1>1, <1>2, <1>4, <1>5, <1>9
    <3>2. j.kind # "ingest" /\ pend'[t][e] # NoRow => af = pend'[t][e]
      BY <1>2, <1>5, <1>6, <1>9
    <3>3. QED
      BY <1>1, <1>4, <1>6, <1>9, <3>1, <3>2 DEF ItemOK, Busy
  <2>6. ObjectAgrees(t)'
    <3> SUFFICES ASSUME NEW g \in Entities, pend'[t][g] # NoRow
                 PROVE  /\ loaded'[t][g] # NoRow
                        /\ \A f \in Fields :
                             \/ loaded'[t][g][f] = pend'[t][g][f]
                             \/ row[g] # NoRow /\ pend'[t][g][f] = row[g][f]
      BY <1>1 DEF ObjectAgrees
    <3>1. CASE g # e
      BY <1>9, <3>1 DEF ObjectAgrees
    <3>2. CASE g = e /\ af = nr
      BY <1>2, <1>4, <1>5, <1>6, <1>9, <3>2 DEF ObjectAgrees
    <3>3. CASE g = e /\ af # nr
      <4>1. /\ ~IsInsert(t)
            /\ \A f \in Fields : af[f] = IF f \in Dirty(t) THEN nr[f] ELSE loaded[t][e][f]
            /\ \A f \in Fields : f \notin Dirty(t) => nr[f] = View(t)[e][f]
            /\ View(t)[e] # NoRow
        BY <1>2, <3>3
      <4>2. \A f \in Fields : f \notin Dirty(t) =>
              \/ loaded[t][e][f] = View(t)[e][f]
              \/ row[e] # NoRow /\ View(t)[e][f] = row[e][f]
        BY <1>2, <1>6, <4>1 DEF ObjectAgrees
      <4>3. CASE Emits(t)
        BY <1>4, <1>9, <3>3, <4>1, <4>2, <4>3
      <4>4. CASE ~Emits(t)
        BY <1>4, <1>5, <1>6, <1>9, <3>3, <4>1, <4>2, <4>4
      <4>5. QED
        BY <4>3, <4>4
    <3>4. QED
      BY <3>1, <3>2, <3>3
  <2>7. NewestTells(t)'
    BY <1>1, <1>4, <1>9 DEF NewestTells, Tells, InHand
  <2>8. WritesAsked(t)'
    <3> SUFFICES ASSUME NEW g \in Entities, pend'[t][g] # NoRow, row[g] # NoRow,
                        NEW f \in Fields, f \notin asked'[t][g]
                 PROVE  pend'[t][g][f] = row[g][f]
      BY <1>1 DEF WritesAsked
    <3>1. CASE g # e
      BY <1>9, <3>1 DEF WritesAsked
    <3>2. CASE g = e
      <4>1. ~IsInsert(t) /\ f \notin Dirty(t) /\ f \notin asked[t][e]
        BY <1>2, <1>5, <1>9, <3>2
      <4>2. View(t)[e][f] = row[e][f]
        BY <1>2, <1>6, <3>2, <4>1 DEF WritesAsked
      <4>3. nr[f] = View(t)[e][f]
        BY <1>2, <4>1
      <4>4. QED
        BY <1>6, <1>9, <3>2, <4>2, <4>3
    <3>3. QED
      BY <3>1, <3>2
  <2>9. QED
    BY <2>1, <2>2, <2>3, <2>4, <2>5, <2>6, <2>7, <2>8
<1>13. QED
  BY <1>1, <1>5, <1>7, <1>8, <1>9, <1>12, StepRInv

LEMMA RefreshRInv ==
  ASSUME RInv, NEW t \in Txns, Refresh(t)
  PROVE  RInv'
<1> DEFINE e == job[t].entity
           seen == View(t)[e]
<1>1. /\ pc[t] = "refresh"
      /\ loaded' = [loaded EXCEPT ![t][e] = seen]
      /\ pc' = [pc EXCEPT ![t] = "max"]
      /\ UNCHANGED <<row, hist, pend, pendHist, asked, job, revNo>>
  BY DEF Refresh
<1>2. job[t] \in Jobs /\ e \in Entities /\ seen \in State \cup {NoRow}
  <2>1. job[t] \in Jobs
    BY <1>1 DEF RInv, TypeOK, Busy
  <2>2. e \in Entities
    BY <2>1 DEF Jobs
  <2>3. QED
    BY <2>1, <2>2, ViewType DEF RInv
<1>3. ItemOK(t) /\ Busy(t) /\ Visible(t) /\ seen # NoRow
  BY <1>1, <1>2 DEF RInv, SessionOK, Busy, ItemOK, Visible
<1>4. seen = IF pend[t][e] # NoRow THEN pend[t][e] ELSE row[e]
  BY <1>2 DEF View
<1> HIDE DEF seen
<1>5. TypeOK'
  BY <1>1, <1>2 DEF RInv, TypeOK, Busy
<1>6. StepOf(t)
  BY <1>1 DEF RInv, TypeOK, StepOf, SameSession
<1>7. /\ loaded'[t][e] = seen /\ pc'[t] = "max"
      /\ \A g \in Entities \ {e} : loaded'[t][g] = loaded[t][g]
      /\ \A g \in Entities : View(t)'[g] = View(t)[g]
      /\ \A g : Readable(t, g)' = Readable(t, g)
  BY <1>1, <1>2 DEF RInv, TypeOK, View, Readable
<1>8. SessionOK(t)'
  <2> USE DEF RInv, SessionOK
  <2>1. (IdleEmpty(t) /\ NumberedLast(t) /\ NumberInHand(t))'
    BY <1>1, <1>7 DEF IdleEmpty, NumberedLast, NumberInHand
  <2>2. (Visible(t) /\ WritesRecorded(t) /\ PendingCreation(t))'
    <3>1. Visible(t)'
      BY <1>1, <1>3, <1>7 DEF Visible, seen
    <3>2. WritesRecorded(t)' /\ PendingCreation(t)'
      BY <1>1, <1>7 DEF WritesRecorded, PendingCreation, InHand
    <3>3. QED
      BY <3>1, <3>2
  <2>3. ItemOK(t)'
    BY <1>1, <1>3, <1>4, <1>7 DEF ItemOK, Busy
  <2>4. ObjectAgrees(t)'
    BY <1>1, <1>3, <1>4, <1>7 DEF ObjectAgrees
  <2>5. (NewestTells(t) /\ WritesAsked(t))'
    BY <1>1, <1>7 DEF NewestTells, WritesAsked, Tells, InHand
  <2>6. QED
    BY <2>1, <2>2, <2>3, <2>4, <2>5
<1>9. QED
  BY <1>1, <1>5, <1>6, <1>8, StepRInv

(* The number read follows all that t can read. *)
LEMMA ReadMaxRInv ==
  ASSUME RInv, NEW t \in Txns, ReadMax(t)
  PROVE  RInv'
<1> DEFINE e == job[t].entity
           n == LastRevisionNo(Readable(t, e))
<1>1. /\ pc[t] = "max"
      /\ revNo' = [revNo EXCEPT ![t] = n + 1]
      /\ pc' = [pc EXCEPT ![t] = "insert"]
      /\ UNCHANGED <<row, hist, pend, pendHist, loaded, asked, job>>
  BY DEF ReadMax, NextRevisionNo, Readable
<1>2. e \in Entities
  <2>1. job[t] \in Jobs
    BY <1>1 DEF RInv, TypeOK, Busy
  <2>2. QED
    BY <2>1 DEF Jobs
<1>3. n \in Nat /\ Numbers(Readable(t, e)) = 1 .. n
  BY <1>2 DEF RInv, SessionOK, NumberedLast, Contiguous
<1> HIDE DEF n
<1>4. TypeOK'
  BY <1>1, <1>3 DEF RInv, TypeOK, Busy
<1>5. StepOf(t)
  BY <1>1 DEF RInv, TypeOK, StepOf, SameSession
<1>6. /\ pc'[t] = "insert" /\ revNo'[t] = n + 1
      /\ \A g \in Entities : View(t)'[g] = View(t)[g]
      /\ \A g : Readable(t, g)' = Readable(t, g)
  BY <1>1 DEF RInv, TypeOK, View, Readable
<1>7. SessionOK(t)'
  <2> USE DEF RInv, SessionOK
  <2>1. (IdleEmpty(t) /\ NumberedLast(t))'
    BY <1>1, <1>6 DEF IdleEmpty, NumberedLast
  <2>2. NumberInHand(t)'
    <3>1. Numbers(pendHist[t][e]) \subseteq 1 .. n
      BY <1>3 DEF Numbers, Readable
    <3>2. n + 1 # 0 /\ 1 .. (n + 1) - 1 = 1 .. n /\ n + 1 \notin 1 .. n
      BY <1>3
    <3>3. QED
      BY <1>1, <1>3, <1>6, <3>1, <3>2 DEF NumberInHand
  <2>3. (Visible(t) /\ WritesRecorded(t) /\ PendingCreation(t))'
    BY <1>1, <1>6 DEF Visible, WritesRecorded, PendingCreation, InHand
  <2>4. ItemOK(t)'
    BY <1>1, <1>6 DEF ItemOK, Busy
  <2>5. (ObjectAgrees(t) /\ NewestTells(t) /\ WritesAsked(t))'
    BY <1>1, <1>6 DEF ObjectAgrees, NewestTells, WritesAsked, Tells, InHand
  <2>6. QED
    BY <2>1, <2>2, <2>3, <2>4, <2>5
<1>8. QED
  BY <1>1, <1>4, <1>5, <1>7, StepRInv

-----------------------------------------------------------------------------
(* The revision of an item.  The constraint lets the number through only if *)
(* it is the next one, and then nobody else has a revision of the entity    *)
(* under way: it would have the same number.                                *)
LEMMA InsertNumber ==
  ASSUME RInv, NEW t \in Txns, Insert(t)
  PROVE  LET e == job[t].entity IN
         /\ job[t] \in Jobs /\ e \in Entities
         /\ Numbers(Readable(t, e)) = 1 .. revNo[t] - 1
         /\ revNo[t] \in Nat \ {0}
         /\ \A u \in Txns \ {t} : pendHist[u][e] = {}
<1> DEFINE e == job[t].entity
           k == revNo[t]
<1>1. pc[t] = "insert" /\ RevisionRivals(t) = {} /\ ~RevisionTaken(t)
  BY DEF Insert
<1>2. job[t] \in Jobs
  BY <1>1 DEF RInv, TypeOK, Busy
<1>3. e \in Entities
  BY <1>2 DEF Jobs
<1>4. /\ k \in Nat \ {0}
      /\ 1 .. k - 1 \subseteq Numbers(Readable(t, e))
      /\ k \notin Numbers(pendHist[t][e])
  BY <1>1 DEF RInv, TypeOK, SessionOK, NumberInHand
<1>5. k \notin Numbers(hist[e]) /\ \A u \in Txns \ {t} : k \notin Numbers(pendHist[u][e])
  BY <1>1 DEF RevisionRivals, RevisionTaken
<1>6. PICK n \in Nat : Numbers(Readable(t, e)) = 1 .. n
  BY <1>3, ContiguousNumbers DEF RInv, SessionOK, NumberedLast
<1>7. k \notin 1 .. n
  BY <1>4, <1>5, <1>6 DEF Numbers, Readable
<1>8. k = n + 1
  <2>1. k > n
    BY <1>4, <1>7
  <2>2. k - 1 > n => k - 1 \in 1 .. k - 1
    BY <1>4, <1>6
  <2>3. ~(k - 1 > n)
    BY <1>4, <1>6, <2>2
  <2>4. QED
    BY <1>4, <2>1, <2>3
<1>9. ASSUME NEW u \in Txns \ {t}, pendHist[u][e] # {} PROVE FALSE
  <2>1. pendHist[t][e] = {}
    BY <1>3, <1>9 DEF RInv, OneRecorder
  <2>2. Numbers(hist[e]) = 1 .. n /\ Contiguous(hist[e])
    BY <1>3, <1>6, <2>1 DEF Readable, RInv, ContiguousRevisions
  <2>3. Contiguous(hist[e] \cup pendHist[u][e]) /\ hist[e] \cap pendHist[u][e] = {}
    BY <1>3 DEF RInv, SessionOK, NumberedLast, Readable
  <2>4. n + 1 \in Numbers(pendHist[u][e])
    BY <1>9, <2>2, <2>3, FurtherAbove
  <2>5. QED
    BY <1>5, <1>8, <2>4
<1>10. 1 .. k - 1 = 1 .. n
  BY <1>4, <1>8
<1>11. QED
  BY <1>2, <1>3, <1>4, <1>6, <1>9, <1>10

(* What the revision says. *)
LEMMA InsertSays ==
  ASSUME RInv, NEW t \in Txns, Insert(t)
  PROVE  LET e == job[t].entity
             r == NewRevision(t)
         IN
         /\ r \in Revision /\ r.no = revNo[t]
         /\ r.type = "create" <=> r.no = 1
         /\ pend[t][e] # NoRow => Tells(r, t, e)
<1> DEFINE j == job[t]
           e == j.entity
           r == NewRevision(t)
           now == loaded[t][e]
<1>1. /\ j \in Jobs /\ e \in Entities
      /\ Numbers(Readable(t, e)) = 1 .. revNo[t] - 1
      /\ revNo[t] \in Nat \ {0}
  BY InsertNumber
<1>2. pc[t] = "insert" /\ Busy(t)
  BY DEF Insert, Busy
<1>3. /\ ItemOK(t) /\ ObjectAgrees(t)
      /\ now # NoRow
  BY <1>2 DEF RInv, SessionOK, ItemOK
<1>4. now \in State /\ j.before \in State \cup {NoRow} /\ j.kind \in Kinds
  BY <1>1, <1>3 DEF RInv, TypeOK, Jobs
<1>5. NoChange \in Assignments /\ DOMAIN NoChange = {}
  BY DEF NoChange, Assignments
<1>6. j.before = NoRow => revNo[t] = 1
  <2> SUFFICES ASSUME j.before = NoRow PROVE revNo[t] = 1
    OBVIOUS
  <2>1. row[e] = NoRow /\ pendHist[t][e] = {}
    BY <1>2, <1>3 DEF ItemOK
  <2>2. Readable(t, e) = {}
    BY <1>1, <2>1 DEF Readable, RInv, CreatedOnce
  <2>3. 1 .. revNo[t] - 1 = {}
    BY <1>1, <2>2 DEF Numbers
  <2>4. revNo[t] - 1 >= 1 => 1 \in 1 .. revNo[t] - 1
    BY <1>1
  <2>5. QED
    BY <1>1, <2>3, <2>4
<1>7. j.before # NoRow => revNo[t] # 1
  <2> SUFFICES ASSUME j.before # NoRow PROVE revNo[t] # 1
    OBVIOUS
  <2>1. Readable(t, e) # {}
    BY <1>2, <1>3 DEF ItemOK
  <2>2. 1 .. revNo[t] - 1 # {}
    BY <1>1, <2>1 DEF Numbers
  <2>3. QED
    BY <1>1, <2>2
<1> HIDE DEF now
<1>8. CASE j.kind = "patch"
  <2> DEFINE ch == [f \in {g \in Fields : j.before[g] # now[g]} |-> now[f]]
  <2>1. j.before \in State
    BY <1>2, <1>3, <1>4, <1>8 DEF ItemOK
  <2>2. ch \in Assignments
    <3> DEFINE F == {g \in Fields : j.before[g] # now[g]}
    <3>1. F \in SUBSET Fields /\ ch \in [F -> Values]
      BY <1>4 DEF State
    <3>2. QED
      BY <3>1 DEF Assignments
  <2>3. r = [no |-> revNo[t], type |-> "update", snapshot |-> j.before, changed |-> ch]
    BY <1>8 DEF NewRevision, now
  <2>4. \A f \in Fields : Overlay(j.before, ch)[f] = now[f]
    BY DEF Overlay
  <2> HIDE DEF ch
  <2>5. r \in Revision /\ r.no = revNo[t] /\ r.type = "update"
    BY <1>1, <2>1, <2>2, <2>3 DEF Revision
  <2>6. \A f \in Fields : EffectiveState(r)[f] = now[f]
    BY <2>3, <2>4 DEF EffectiveState
  <2>7. pend[t][e] # NoRow => now = pend[t][e]
    BY <1>2, <1>3, <1>8 DEF ItemOK, now
  <2>8. j.before # NoRow
    BY <2>1, ConstantsAssumption
  <2> HIDE DEF r, j
  <2>9. QED
    BY <1>7, <2>5, <2>6, <2>7, <2>8 DEF Tells, r, j
<1>9. CASE j.kind # "patch"
  <2> DEFINE type == IF j.before = NoRow THEN "create" ELSE "update"
  <2>1. r = [no |-> revNo[t], type |-> type, snapshot |-> now, changed |-> NoChange]
    BY <1>9 DEF NewRevision, now
  <2>2. /\ r \in Revision /\ r.no = revNo[t] /\ r.type = type /\ r.changed = NoChange
    BY <1>1, <1>4, <1>5, <2>1 DEF Revision
  <2>3. \A f \in Fields : EffectiveState(r)[f] = now[f]
    BY <1>5, <2>1 DEF EffectiveState, Overlay
  <2>4. r.type = "create" <=> r.no = 1
    BY <1>6, <1>7, <2>2
  <2>5. ASSUME pend[t][e] # NoRow PROVE Tells(r, t, e)
    <3> SUFFICES ASSUME NEW f \in Fields, EffectiveState(r)[f] # pend[t][e][f]
                 PROVE  /\ r.type = "update" /\ r.changed = NoChange
                        /\ row[e] # NoRow /\ pend[t][e][f] = row[e][f]
      BY DEF Tells
    <3>1. now[f] # pend[t][e][f]
      BY <2>3
    <3>2. row[e] # NoRow /\ pend[t][e][f] = row[e][f]
      BY <1>1, <1>3, <2>5, <3>1 DEF ObjectAgrees, now
    <3>3. j.before # NoRow
      BY <1>2, <1>3, <3>2 DEF ItemOK
    <3>4. QED
      BY <2>2, <3>2, <3>3
  <2> HIDE DEF r, j, type
  <2>6. QED
    BY <2>2, <2>4, <2>5 DEF r, j
<1>10. QED
  BY <1>8, <1>9

LEMMA InsertRInv ==
  ASSUME RInv, NEW t \in Txns, Insert(t)
  PROVE  RInv'
<1> DEFINE e == job[t].entity
           r == NewRevision(t)
           step == IF job[t].kind = "ingest" THEN "open" ELSE "commit"
<1>1. /\ pc[t] = "insert"
      /\ pendHist' = [pendHist EXCEPT ![t][e] = @ \cup {r}]
      /\ pc' = [pc EXCEPT ![t] = step]
      /\ job' = [job EXCEPT ![t] = NoJob]
      /\ revNo' = [revNo EXCEPT ![t] = 0]
      /\ UNCHANGED <<row, hist, pend, loaded, asked>>
  BY DEF Insert
<1>2. /\ e \in Entities
      /\ Numbers(Readable(t, e)) = 1 .. revNo[t] - 1
      /\ revNo[t] \in Nat \ {0}
      /\ \A u \in Txns \ {t} : pendHist[u][e] = {}
  BY InsertNumber
<1>3. /\ r \in Revision /\ r.no = revNo[t]
      /\ r.type = "create" <=> r.no = 1
      /\ pend[t][e] # NoRow => Tells(r, t, e)
  BY InsertSays
<1>4. step \in {"open", "commit"}
  OBVIOUS
<1> HIDE DEF r, step
<1>5. TypeOK'
  BY <1>1, <1>2, <1>3, <1>4 DEF RInv, TypeOK, Busy
<1>6. StepOf(t)
  BY <1>1 DEF RInv, TypeOK, StepOf, SameSession
<1> DEFINE entity == e
<1>7. PICK x \in Entities : x = e
  BY <1>2
<1>8. /\ pc'[t] = step
      /\ pendHist'[t][x] = pendHist[t][x] \cup {r}
      /\ \A g \in Entities \ {x} : pendHist'[t][g] = pendHist[t][g]
      /\ Readable(t, x)' = Readable(t, x) \cup {r}
      /\ \A g \in Entities \ {x} : Readable(t, g)' = Readable(t, g)
      /\ \A g \in Entities : View(t)'[g] = View(t)[g]
  BY <1>1, <1>7 DEF RInv, TypeOK, View, Readable
<1>9. Contiguous(Readable(t, x) \cup {r}) /\ \A s \in Readable(t, x) : s.no <= r.no
  <2> DEFINE n == revNo[t] - 1
  <2>1. n \in Nat /\ r.no = n + 1 /\ Numbers(Readable(t, x)) = 1 .. n
    BY <1>2, <1>3, <1>7
  <2>2. Contiguous(Readable(t, x))
    BY <1>2, <1>7 DEF RInv, SessionOK, NumberedLast
  <2> HIDE DEF n
  <2>3. QED
    BY <2>1, <2>2, ContiguousNext
<1>10. r \notin hist[x]
  BY <1>1, <1>3, <1>7 DEF Insert, RevisionTaken, Numbers
<1>11. SessionOK(t)'
  <2> USE DEF RInv, SessionOK
  <2>1. IdleEmpty(t)' /\ NumberInHand(t)'
    BY <1>4, <1>8 DEF IdleEmpty, NumberInHand
  <2>2. NumberedLast(t)'
    <3> SUFFICES ASSUME NEW g \in Entities
                 PROVE  /\ Contiguous(Readable(t, g)')
                        /\ hist[g] \cap pendHist'[t][g] = {}
      BY <1>1 DEF NumberedLast, Contiguous, LastRevisionNo, Numbers
    <3>1. Contiguous(Readable(t, g)) /\ hist[g] \cap pendHist[t][g] = {}
      BY DEF NumberedLast
    <3>2. CASE g = x
      BY <1>8, <1>9, <1>10, <3>1, <3>2
    <3>3. CASE g # x
      BY <1>8, <3>1, <3>3
    <3>4. QED
      BY <3>2, <3>3
  <2>3. Visible(t)'
    <3>1. View(t)[x] # NoRow
      BY <1>1, <1>7 DEF Visible, ItemOK, Busy
    <3>2. QED
      BY <1>1, <1>8, <3>1 DEF Visible
  <2>4. WritesRecorded(t)'
    <3>1. \A g \in Entities \ {x} : pend[t][g] # NoRow => pendHist[t][g] # {}
      BY <1>7 DEF WritesRecorded, InHand
    <3>2. pendHist'[t][x] # {}
      BY <1>8
    <3>3. QED
      BY <1>1, <1>8, <3>1, <3>2 DEF WritesRecorded
  <2>5. PendingCreation(t)'
    BY <1>3, <1>8 DEF PendingCreation
  <2>6. ItemOK(t)'
    BY <1>4, <1>8 DEF ItemOK, Busy
  <2>7. ObjectAgrees(t)' /\ WritesAsked(t)'
    BY <1>1 DEF ObjectAgrees, WritesAsked
  <2>8. NewestTells(t)'
    <3> SUFFICES ASSUME NEW g \in Entities, pend[t][g] # NoRow
                 PROVE  \E q \in pendHist'[t][g] :
                          (\A s \in pendHist'[t][g] : s.no <= q.no) /\ Tells(q, t, g)
      BY <1>1 DEF NewestTells, Tells
    <3>1. CASE g = x
      <4>1. \A s \in pendHist[t][x] : s.no <= r.no
        BY <1>9 DEF Readable
      <4>2. r.no <= r.no
        BY <1>2, <1>3
      <4>3. r \in pendHist'[t][x] /\ \A s \in pendHist'[t][x] : s.no <= r.no
        BY <1>8, <4>1, <4>2
      <4>4. Tells(r, t, x)
        BY <1>3, <1>7, <3>1
      <4>5. QED
        BY <3>1, <4>3, <4>4
    <3>2. CASE g # x
      BY <1>7, <1>8, <3>2 DEF NewestTells, InHand
    <3>3. QED
      BY <3>1, <3>2
  <2>9. QED
    BY <2>1, <2>2, <2>3, <2>4, <2>5, <2>6, <2>7, <2>8
<1>12. \A g \in Entities :
         /\ pend'[t][g] # NoRow => pend[t][g] # NoRow
         /\ pendHist'[t][g] # {} =>
              pendHist[t][g] # {} \/ \A u \in Txns \ {t} : pendHist[u][g] = {}
  BY <1>1, <1>2, <1>7, <1>8
<1>13. QED
  BY <1>5, <1>6, <1>11, <1>12, StepRInv

-----------------------------------------------------------------------------
(* The end of a transaction. *)
LEMMA EndedSession ==
  ASSUME TypeOK, NEW t \in Txns, End(t), ContiguousRevisions'
  PROVE  /\ SessionOK(t)'
         /\ \A e \in Entities : pend'[t][e] = NoRow /\ pendHist'[t][e] = {}
         /\ \A u \in Txns \ {t} : SameSession(u)
<1>1. /\ pend' = [pend EXCEPT ![t] = [e \in Entities |-> NoRow]]
      /\ pendHist' = [pendHist EXCEPT ![t] = [e \in Entities |-> {}]]
      /\ loaded' = [loaded EXCEPT ![t] = [e \in Entities |-> NoRow]]
      /\ asked' = [asked EXCEPT ![t] = [e \in Entities |-> {}]]
      /\ pc' = [pc EXCEPT ![t] = "idle"]
      /\ job' = [job EXCEPT ![t] = NoJob]
      /\ revNo' = [revNo EXCEPT ![t] = 0]
  BY DEF End
<1>2. /\ pc'[t] = "idle"
      /\ \A e \in Entities : /\ pend'[t][e] = NoRow /\ pendHist'[t][e] = {}
                             /\ loaded'[t][e] = NoRow
  BY <1>1 DEF TypeOK
<1>3. \A u \in Txns \ {t} : SameSession(u)
  BY <1>1 DEF TypeOK, SameSession
<1>4. \A e \in Entities : Readable(t, e)' = hist'[e]
  BY <1>2 DEF Readable
<1>5. (IdleEmpty(t) /\ NumberedLast(t) /\ NumberInHand(t))'
  BY <1>2, <1>4 DEF IdleEmpty, NumberedLast, NumberInHand, ContiguousRevisions
<1>6. (Visible(t) /\ WritesRecorded(t) /\ PendingCreation(t) /\ ItemOK(t))'
  BY <1>2 DEF Visible, WritesRecorded, PendingCreation, ItemOK, Busy
<1>7. (ObjectAgrees(t) /\ NewestTells(t) /\ WritesAsked(t))'
  BY <1>2 DEF ObjectAgrees, NewestTells, WritesAsked
<1>8. QED
  BY <1>2, <1>3, <1>5, <1>6, <1>7 DEF SessionOK

LEMMA AbortRInv ==
  ASSUME RInv, NEW t \in Txns, End(t), UNCHANGED <<row, hist>>
  PROVE  RInv'
<1>1. ContiguousRevisions'
  BY DEF RInv, ContiguousRevisions
<1>2. /\ SessionOK(t)'
      /\ \A e \in Entities : pend'[t][e] = NoRow /\ pendHist'[t][e] = {}
      /\ StepOf(t)
  BY <1>1, EndedSession DEF RInv, StepOf
<1>3. TypeOK'
  BY DEF RInv, TypeOK, End, Busy
<1>4. QED
  BY <1>2, <1>3, StepRInv

(* A commit takes from no other session what that session relies on. *)
LEMMA CommitKeeps ==
  ASSUME RInv, NEW t \in Txns, Commit(t), NEW u \in Txns \ {t}, SameSession(u),
         ContiguousRevisions'
  PROVE  SessionOK(u)'
<1>1. ASSUME NEW e \in Entities
      PROVE  /\ row'[e] = IF pend[t][e] # NoRow THEN pend[t][e] ELSE row[e]
             /\ hist'[e] = hist[e] \cup pendHist[t][e]
             /\ pend[u][e] # NoRow => row'[e] = row[e]
             /\ row[e] # NoRow => row'[e] # NoRow
             /\ pendHist[u][e] # {} => hist'[e] = hist[e]
             /\ View(u)[e] # NoRow => View(u)'[e] # NoRow
             /\ Readable(u, e) \subseteq Readable(u, e)'
             /\ pendHist[u][e] # {} => Readable(u, e)' = Readable(u, e)
             /\ pendHist[u][e] = {} => Readable(u, e)' = hist'[e]
  <2>1. row'[e] = IF pend[t][e] # NoRow THEN pend[t][e] ELSE row[e]
    BY DEF Commit, View
  <2>2. hist'[e] = hist[e] \cup pendHist[t][e]
    BY DEF Commit
  <2>3. pend[u][e] # NoRow => pend[t][e] = NoRow
    BY DEF RInv, OneWriter
  <2>4. pendHist[u][e] # {} => pendHist[t][e] = {}
    BY DEF RInv, OneRecorder
  <2>5. pend'[u][e] = pend[u][e] /\ pendHist'[u][e] = pendHist[u][e]
    BY DEF SameSession
  <2>6. QED
    BY <2>1, <2>2, <2>3, <2>4, <2>5 DEF View, Readable
<1> USE DEF SameSession
<1>2. SessionOK(u)
  BY DEF RInv
<1>3. IdleEmpty(u)'
  BY <1>2 DEF SessionOK, IdleEmpty
<1>4. NumberedLast(u)'
  BY <1>1, <1>2 DEF SessionOK, NumberedLast, ContiguousRevisions
<1>5. Busy(u) => job[u].entity \in Entities
  <2>1. Busy(u) => job[u] \in Jobs
    BY DEF RInv, TypeOK
  <2>2. QED
    BY <2>1 DEF Jobs
<1>6. NumberInHand(u)'
  <2> SUFFICES ASSUME pc[u] = "insert"
               PROVE  LET e == job[u].entity IN
                      /\ revNo[u] # 0
                      /\ 1 .. revNo[u] - 1 \subseteq Numbers(Readable(u, e)')
                      /\ revNo[u] \notin Numbers(pendHist[u][e])
    BY DEF NumberInHand, Numbers
  <2>1. job[u].entity \in Entities
    BY <1>5 DEF Busy
  <2>2. Numbers(Readable(u, job[u].entity)) \subseteq Numbers(Readable(u, job[u].entity)')
    BY <1>1, <2>1 DEF Numbers
  <2>3. QED
    BY <1>2, <2>2 DEF SessionOK, NumberInHand
<1>7. Visible(u)'
  BY <1>1, <1>2 DEF SessionOK, Visible
<1>8. WritesRecorded(u)' /\ PendingCreation(u)'
  BY <1>2 DEF SessionOK, WritesRecorded, PendingCreation, InHand
<1>9. ItemOK(u)'
  <2> SUFFICES ASSUME Busy(u) PROVE ItemOK(u)'
    BY DEF ItemOK, Busy
  <2>1. job[u].entity \in Entities
    BY <1>5
  <2>2. QED
    BY <1>1, <1>2, <2>1 DEF SessionOK, ItemOK, Busy
<1>10. ObjectAgrees(u)'
  BY <1>1, <1>2 DEF SessionOK, ObjectAgrees
<1>11. NewestTells(u)'
  BY <1>1, <1>2 DEF SessionOK, NewestTells, Tells, InHand
<1>12. WritesAsked(u)'
  BY <1>1, <1>2 DEF SessionOK, WritesAsked
<1>13. QED
  BY <1>3, <1>4, <1>6, <1>7, <1>8, <1>9, <1>10, <1>11, <1>12 DEF SessionOK

LEMMA CommitRInv ==
  ASSUME RInv, NEW t \in Txns, Commit(t)
  PROVE  RInv'
<1>1. /\ pc[t] \in {"open", "commit"} /\ End(t)
      /\ row' = View(t) /\ hist' = [e \in Entities |-> Readable(t, e)]
  BY DEF Commit, Readable
<1>2. SessionOK(t) /\ \A e \in Entities : ~InHand(t, e)
  BY <1>1 DEF RInv, InHand
<1>3. ContiguousRevisions'
  BY <1>1, <1>2 DEF SessionOK, NumberedLast, ContiguousRevisions
<1>4. CreatedOnce'
  <2> SUFFICES ASSUME NEW e \in Entities
               PROVE  /\ hist'[e] # {} <=> row'[e] # NoRow
                      /\ \A r \in hist'[e] : r.type = "create" <=> r.no = 1
    BY DEF CreatedOnce
  <2>1. /\ row'[e] = View(t)[e] /\ hist'[e] = hist[e] \cup pendHist[t][e]
        /\ hist[e] # {} <=> row[e] # NoRow
        /\ \A r \in hist[e] : r.type = "create" <=> r.no = 1
    BY <1>1 DEF RInv, CreatedOnce, Readable
  <2>2. pend[t][e] # NoRow => pendHist[t][e] # {}
    BY <1>2 DEF SessionOK, WritesRecorded
  <2>3. pendHist[t][e] # {} => View(t)[e] # NoRow
    BY <1>2 DEF SessionOK, Visible
  <2>4. \A r \in pendHist[t][e] : r.type = "create" <=> r.no = 1
    BY <1>2 DEF SessionOK, PendingCreation
  <2>5. View(t)[e] = IF pend[t][e] # NoRow THEN pend[t][e] ELSE row[e]
    BY DEF View
  <2>6. QED
    BY <2>1, <2>2, <2>3, <2>4, <2>5
<1>5. /\ SessionOK(t)'
      /\ \A e \in Entities : pend'[t][e] = NoRow /\ pendHist'[t][e] = {}
      /\ \A u \in Txns \ {t} : SameSession(u)
  BY <1>1, <1>3, EndedSession DEF RInv
<1>6. ASSUME NEW u \in Txns PROVE SessionOK(u)'
  BY <1>3, <1>5, CommitKeeps
<1>7. TypeOK'
  <2>1. row' \in [Entities -> State \cup {NoRow}]
    BY <1>1 DEF RInv, TypeOK, View
  <2>2. hist' \in [Entities -> SUBSET Revision]
    BY <1>1 DEF RInv, TypeOK, Readable
  <2>3. QED
    BY <1>1, <2>1, <2>2 DEF RInv, TypeOK, End, Busy
<1>8. OneWriter' /\ OneRecorder'
  BY <1>5 DEF RInv, OneWriter, OneRecorder, SameSession
<1>9. QED
  BY <1>3, <1>4, <1>6, <1>7, <1>8 DEF RInv

LEMMA NextRInv == RInv /\ [Next]_vars => RInv'
<1> SUFFICES ASSUME RInv, [Next]_vars PROVE RInv'
  OBVIOUS
<1>1. ASSUME NEW t \in Txns, \E e \in Entities, s \in State : Post(t, e, s)
      PROVE  RInv'
  BY <1>1, PostRInv
<1>2. ASSUME NEW t \in Txns,
             \E e \in Entities, a \in Assignments, retag \in BOOLEAN : Patch(t, e, a, retag)
      PROVE  RInv'
  BY <1>2, PatchRInv
<1>3. ASSUME NEW t \in Txns, \E e \in Entities, a \in Assignments : Ingest(t, e, a)
      PROVE  RInv'
  BY <1>3, IngestRInv
<1>4. ASSUME NEW t \in Txns, Assign(t) \/ Refresh(t) \/ ReadMax(t) \/ Insert(t)
      PROVE  RInv'
  BY <1>4, AssignRInv, RefreshRInv, ReadMaxRInv, InsertRInv
<1>5. ASSUME NEW t \in Txns,
             Commit(t) \/ ConstraintError(t) \/ Rollback(t) \/ DeadlockVictim(t)
      PROVE  RInv'
  BY <1>5, CommitRInv, AbortRInv DEF ConstraintError, Rollback, DeadlockVictim
<1>6. CASE UNCHANGED vars
  <2>1. UNCHANGED <<row, hist>> /\ \A u \in Txns : SameSession(u)
    BY <1>6 DEF vars, SameSession
  <2>2. \A u \in Txns : SessionOK(u)'
    BY <2>1, SessionKept DEF RInv
  <2>3. TypeOK'
    BY <1>6 DEF vars, RInv, TypeOK, Busy
  <2>4. (ContiguousRevisions /\ CreatedOnce /\ OneWriter /\ OneRecorder)'
    BY <1>6 DEF vars, RInv, ContiguousRevisions, CreatedOnce, OneWriter, OneRecorder
  <2>5. QED
    BY <2>2, <2>3, <2>4 DEF RInv
<1>7. QED
  BY <1>1, <1>2, <1>3, <1>4, <1>5, <1>6 DEF Next

-----------------------------------------------------------------------------
(* Every reachable state of the revisions has the stated types. *)
THEOREM RevisionsTypeCorrect == Spec => []TypeOK
<1>1. RInv => TypeOK
  BY DEF RInv
<1>2. QED
  BY InitRInv, NextRInv, <1>1, PTL DEF Spec

(* The committed revisions of an entity are 1 .. n, each number once,       *)
(* although nothing but the constraint orders the sessions.                 *)
THEOREM RevisionsContiguous == Spec => []ContiguousRevisions
<1>1. RInv => ContiguousRevisions
  BY DEF RInv
<1>2. QED
  BY InitRInv, NextRInv, <1>1, PTL DEF Spec

(* An entity exists iff it has revisions, and the first is its creation. *)
THEOREM RevisionsStartWithCreation == Spec => []CreatedOnce
<1>1. RInv => CreatedOnce
  BY DEF RInv
<1>2. QED
  BY InitRInv, NextRInv, <1>1, PTL DEF Spec

(* Only a commit changes what is committed. *)
LEMMA OnlyCommits ==
  ASSUME [Next]_vars
  PROVE  UNCHANGED <<row, hist>> \/ \E t \in Txns : Commit(t)
<1>1. ASSUME NEW t \in Txns, NEW e \in Entities, NEW s \in State, Post(t, e, s)
      PROVE  UNCHANGED <<row, hist>>
  BY <1>1 DEF Post, TakeUp
<1>2. ASSUME NEW t \in Txns, NEW e \in Entities, NEW a \in Assignments, NEW retag \in BOOLEAN,
             Patch(t, e, a, retag)
      PROVE  UNCHANGED <<row, hist>>
  BY <1>2 DEF Patch, TakeUp
<1>3. ASSUME NEW t \in Txns, NEW e \in Entities, NEW a \in Assignments, Ingest(t, e, a)
      PROVE  UNCHANGED <<row, hist>>
  BY <1>3 DEF Ingest, TakeUp
<1>4. ASSUME NEW t \in Txns, Assign(t) \/ Refresh(t) \/ ReadMax(t) \/ Insert(t)
      PROVE  UNCHANGED <<row, hist>>
  BY <1>4 DEF Assign, Refresh, ReadMax, Insert
<1>5. ASSUME NEW t \in Txns, ConstraintError(t) \/ Rollback(t) \/ DeadlockVictim(t)
      PROVE  UNCHANGED <<row, hist>>
  BY <1>5 DEF ConstraintError, Rollback, DeadlockVictim
<1>6. CASE UNCHANGED vars
  BY <1>6 DEF vars
<1>7. QED
  BY <1>1, <1>2, <1>3, <1>4, <1>5, <1>6 DEF Next

(* A row that a commit changes is one that its transaction has written. *)
LEMMA CommitWrites ==
  ASSUME NEW t \in Txns, Commit(t), NEW e \in Entities, row'[e] # row[e]
  PROVE  pend[t][e] # NoRow /\ row'[e] = pend[t][e]
BY DEF Commit, View

(* The newest revision of the entity after such a commit is one of the      *)
(* transaction's, and tells the state of the row.                           *)
LEMMA CommitTells ==
  ASSUME RInv, NEW t \in Txns, Commit(t), NEW e \in Entities, row'[e] # row[e]
  PROVE  LET r == LatestRevision(hist'[e]) IN
         r \notin hist[e] /\ Tells(r, t, e)
<1> DEFINE H == hist[e]
           P == pendHist[t][e]
<1>1. pend[t][e] # NoRow /\ ~InHand(t, e) /\ hist'[e] = H \cup P
  BY CommitWrites DEF Commit, InHand
<1>2. PICK r \in P : (\A s \in P : s.no <= r.no) /\ Tells(r, t, e)
  BY <1>1 DEF RInv, SessionOK, NewestTells
<1>3. Contiguous(H) /\ Contiguous(H \cup P) /\ H \cap P = {}
  BY DEF RInv, SessionOK, NumberedLast, ContiguousRevisions, Readable
<1>4. PICK n \in Nat : Numbers(H) = 1 .. n
  BY <1>3, ContiguousNumbers
<1>5. \A s \in P : s.no \in Nat /\ s.no > n
  BY <1>3, <1>4, FurtherAbove
<1>6. \A s \in H : s.no \in 1 .. n
  BY <1>4 DEF Numbers
<1>7. \A s \in H \cup P : s.no <= r.no /\ s.no \in Nat
  BY <1>2, <1>4, <1>5, <1>6
<1>8. LatestRevision(H \cup P) = r
  <2> DEFINE q == LatestRevision(H \cup P)
  <2>1. q \in H \cup P /\ \A s \in H \cup P : s.no <= q.no
    BY <1>7 DEF LatestRevision
  <2> HIDE DEF q
  <2>2. q.no = r.no
    BY <1>7, <2>1
  <2>3. q = r
    BY <1>3, <2>1, <2>2 DEF Contiguous
  <2>4. QED
    BY <2>3 DEF q
<1>9. QED
  BY <1>1, <1>2, <1>3, <1>8

(* A commit that changes an entity has a new revision that stands for the   *)
(* new state, however old the object was that the revision is made from.    *)
THEOREM RevisionsRecordCommits == Spec => CommitsRecorded
<1> DEFINE Recorded ==
      \A e \in Entities :
        row'[e] # row[e] =>
          LET r == LatestRevision(hist'[e]) IN
            /\ r \notin hist[e]
            /\ \A f \in Fields :
                 \/ EffectiveState(r)[f] = row'[e][f]
                 \/ /\ r.type = "update" /\ r.changed = NoChange
                    /\ row'[e][f] = row[e][f]
<1>1. RInv /\ [Next]_vars => [Recorded]_<<row, hist>>
  <2> SUFFICES ASSUME RInv, [Next]_vars, ~UNCHANGED <<row, hist>>,
                      NEW e \in Entities, row'[e] # row[e]
               PROVE  LET r == LatestRevision(hist'[e]) IN
                        /\ r \notin hist[e]
                        /\ \A f \in Fields :
                             \/ EffectiveState(r)[f] = row'[e][f]
                             \/ /\ r.type = "update" /\ r.changed = NoChange
                                /\ row'[e][f] = row[e][f]
    OBVIOUS
  <2>1. PICK t \in Txns : Commit(t)
    BY OnlyCommits
  <2>2. row'[e] = pend[t][e]
    BY <2>1, CommitWrites
  <2>3. LET r == LatestRevision(hist'[e]) IN r \notin hist[e] /\ Tells(r, t, e)
    BY <2>1, CommitTells
  <2>4. QED
    BY <2>2, <2>3 DEF Tells
<1>2. QED
  BY InitRInv, NextRInv, <1>1, PTL DEF Spec, CommitsRecorded

(* No commit takes back what another one wrote in a column that its own     *)
(* request did not set.                                                     *)
THEOREM RevisionsLoseNoUpdate == Spec => OnlyAskedColumns
<1> DEFINE Kept ==
      \A e \in Entities :
        row[e] # NoRow /\ row'[e] # row[e] =>
          \E t \in Txns :
            /\ pc[t] \in {"open", "commit"} /\ pc'[t] = "idle"
            /\ \A f \in Fields \ asked[t][e] : row'[e][f] = row[e][f]
<1>1. RInv /\ [Next]_vars => [Kept]_row
  <2> SUFFICES ASSUME RInv, [Next]_vars, row' # row,
                      NEW e \in Entities, row[e] # NoRow, row'[e] # row[e]
               PROVE  \E t \in Txns :
                        /\ pc[t] \in {"open", "commit"} /\ pc'[t] = "idle"
                        /\ \A f \in Fields \ asked[t][e] : row'[e][f] = row[e][f]
    OBVIOUS
  <2>1. PICK t \in Txns : Commit(t)
    BY OnlyCommits
  <2>2. pend[t][e] # NoRow /\ row'[e] = pend[t][e]
    BY <2>1, CommitWrites
  <2>3. pc[t] \in {"open", "commit"} /\ pc'[t] = "idle"
    BY <2>1 DEF Commit, End, RInv, TypeOK
  <2>4. \A f \in Fields \ asked[t][e] : row'[e][f] = row[e][f]
    BY <2>2 DEF RInv, SessionOK, WritesAsked
  <2>5. QED
    BY <2>3, <2>4
<1>2. QED
  BY InitRInv, NextRInv, <1>1, PTL DEF Spec, OnlyAskedColumns
=============================================================================
