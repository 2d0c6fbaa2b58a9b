------------------------------ MODULE Revisions ------------------------------
(***************************************************************************)
(* The revision history of entities.  POST /entities, PATCH /entities/x    *)
(* and every item of POST /ingest/batch write one entity_history row in    *)
(* the transaction that writes the entity: revision_no is MAX + 1, read    *)
(* without a lock, and unique per entity; the snapshot is taken from the   *)
(* ORM object of the session, which may be older than the row it updates.  *)
(*                                                                         *)
(* Each request is one transaction at READ COMMITTED, and its statements   *)
(* interleave with those of others: load, flush of the assigned columns    *)
(* (an UPDATE holds the row lock until the end), refresh, MAX, INSERT of   *)
(* the revision.  `row' and `hist' are what is committed, pend[t] and      *)
(* pendHist[t] what t has written and not committed.                       *)
(***************************************************************************)
EXTENDS Naturals, FiniteSets, FiniteSetsExt

CONSTANTS
  Txns,          \* database sessions; each serves one request after another
  Entities,      \* entity ids
  Fields,        \* the columns a snapshot holds
  IngestFields,  \* those an ingest item sets: name, description, status, confidence
  OptionalFields,  \* those of them it leaves alone when absent: description
  Values,        \* column values
  MaxRevisions,  \* bound: requests stop being taken up at this many revisions
  NoRow,         \* there is no such row, or the session has not loaded it
  NoJob          \* the request is not handling an item

State == [Fields -> Values]

(* The columns a request sets, with their values: PATCH those in its body.  *)
Assignments == UNION {[F -> Values] : F \in SUBSET Fields}

Kinds == {"post", "patch", "ingest"}

Revision == [no : Nat, type : {"create", "update"},
             snapshot : State, changed : Assignments]

Jobs == [entity : Entities, kind : Kinds, assign : Assignments, retag : BOOLEAN,
         before : State \cup {NoRow}]

ASSUME ConstantsAssumption ==
  /\ OptionalFields \subseteq IngestFields /\ IngestFields \subseteq Fields
  /\ MaxRevisions \in Nat
  /\ NoRow \notin State
  /\ NoJob \notin Jobs

VARIABLES
  row,       \* the committed entity table
  hist,      \* hist[e]: the committed entity_history rows of e
  pend,      \* pend[t][e]: the version of e's row that t has flushed
  pendHist,  \* pendHist[t][e]: the revisions of e that t has inserted
  loaded,    \* loaded[t][e]: the attributes of e in t's identity map
  asked,     \* asked[t][e]: the columns of e the request of t has set so far
  pc,        \* the statement each request runs next
  job,       \* the item each request is handling
  revNo      \* the number next_revision_no returned for it

vars == <<row, hist, pend, pendHist, loaded, asked, pc, job, revNo>>

-----------------------------------------------------------------------------
View(t) == [e \in Entities |-> IF pend[t][e] # NoRow THEN pend[t][e] ELSE row[e]]

Numbers(revs) == {r.no : r \in revs}

LastRevisionNo(revs) == Max(Numbers(revs) \cup {0})

(* COALESCE(MAX(revision_no), 0) + 1 *)
NextRevisionNo(revs) == LastRevisionNo(revs) + 1

(* Mutant: the columns given replace the whole object. *)
BodyOnly(state, assign) == assign

(* A state with some columns assigned. *)
Overlay(state, assign) ==
  [f \in Fields |-> IF f \in DOMAIN assign THEN assign[f] ELSE state[f]]

NoChange == [f \in {} |-> CHOOSE v \in Values : TRUE]

(* The state after a revision: its snapshot with the "after" values of its  *)
(* changed_fields.                                                          *)
EffectiveState(r) == Overlay(r.snapshot, r.changed)

Busy(t) == pc[t] \notin {"idle", "open", "commit"}

(* Fewer than MaxRevisions revisions of e exist or are being written. *)
RoomFor(e) ==
  Cardinality(hist[e] \cup UNION {pendHist[u][e] : u \in Txns})
    + Cardinality({u \in Txns : Busy(u) /\ job[u].entity = e}) < MaxRevisions

(* The columns the unit of work writes: those that differ from the loaded   *)
(* values, whatever the row holds by now.                                   *)
Dirty(t) ==
  LET j == job[t]
  IN {f \in DOMAIN j.assign : loaded[t][j.entity][f] # j.assign[f]}

IsInsert(t) == loaded[t][job[t].entity] = NoRow

Emits(t) == IsInsert(t) \/ Dirty(t) # {}

(* Mutant: the UPDATE writes the whole loaded object back. *)
WholeObject(t) ==
  IF IsInsert(t) THEN job[t].assign ELSE Overlay(loaded[t][job[t].entity], job[t].assign)

(* The row after the flush: an UPDATE sets the dirty columns of the latest  *)
(* version and no other.                                                    *)
NewRow(t) ==
  LET j == job[t]
  IN IF IsInsert(t)
       THEN j.assign
       ELSE [f \in Fields |-> IF f \in Dirty(t) THEN j.assign[f] ELSE View(t)[j.entity][f]]

(* Mutant: no update refreshes the object. *)
NoRefresh(t) ==
  IF IsInsert(t) THEN NewRow(t) ELSE Overlay(loaded[t][job[t].entity], job[t].assign)

(* The session's object after the flush: create and EntityRepository.update *)
(* refresh it from the row, an ingest update does not.                      *)
AfterFlush(t) ==
  LET j == job[t]
  IN IF j.kind = "ingest" /\ ~IsInsert(t)
       THEN Overlay(loaded[t][j.entity], j.assign)
       ELSE NewRow(t)

(* Whoever has written e's row and not ended yet. *)
RowRivals(t) == {u \in Txns \ {t} : pend[u][job[t].entity] # NoRow}

(* Whoever has inserted the revision number t is about to insert. *)
RevisionRivals(t) ==
  {u \in Txns \ {t} : revNo[t] \in Numbers(pendHist[u][job[t].entity])}

(* Mutants: an id, or a revision number, may be used twice. *)
IdNeverTaken(t) == FALSE
RevisionNeverTaken(t) == FALSE

(* The primary key of entity and uq_entity_history_rev. *)
IdTaken(t) == IsInsert(t) /\ row[job[t].entity] # NoRow

RevisionTaken(t) == revNo[t] \in Numbers(hist[job[t].entity])

-----------------------------------------------------------------------------
Init ==
  /\ row = [e \in Entities |-> NoRow]
  /\ hist = [e \in Entities |-> {}]
  /\ pend = [t \in Txns |-> [e \in Entities |-> NoRow]]
  /\ pendHist = [t \in Txns |-> [e \in Entities |-> {}]]
  /\ loaded = [t \in Txns |-> [e \in Entities |-> NoRow]]
  /\ asked = [t \in Txns |-> [e \in Entities |-> {}]]
  /\ pc = [t \in Txns |-> "idle"]
  /\ job = [t \in Txns |-> NoJob]
  /\ revNo = [t \in Txns |-> 0]

(* A request takes up an item; a row already in the session's identity map  *)
(* keeps the attributes it was loaded with.                                 *)
TakeUp(t, e, kind, assign, retag, seen, step) ==
  /\ RoomFor(e)
  /\ loaded' = [loaded EXCEPT ![t][e] = seen]
  /\ job' = [job EXCEPT ![t] = [entity |-> e, kind |-> kind, assign |-> assign,
                                retag |-> retag, before |-> seen]]
  /\ pc' = [pc EXCEPT ![t] = step]
  /\ UNCHANGED <<row, hist, pend, pendHist, asked, revNo>>

(* What the session has of e once it has selected it. *)
Loaded(t, e) == IF loaded[t][e] # NoRow THEN loaded[t][e] ELSE View(t)[e]

(* EntityService.create, with an id from the client or one just made up. *)
Post(t, e, state) ==
  /\ pc[t] = "idle"
  /\ TakeUp(t, e, "post", state, FALSE, NoRow, "assign")

(* EntityService.update on a row it finds; a body may set no column at all  *)
(* and may replace the tags.                                                *)
Patch(t, e, assign, retag) ==
  /\ pc[t] = "idle"
  /\ row[e] # NoRow
  /\ TakeUp(t, e, "patch", assign, retag, row[e],
            IF DOMAIN assign # {} THEN "assign" ELSE IF retag THEN "refresh" ELSE "max")

(* An item of batch_ingest, the first one or a later one. *)
Ingest(t, e, assign) ==
  /\ pc[t] \in {"idle", "open"}
  /\ DOMAIN assign \in IF Loaded(t, e) = NoRow
                         THEN {Fields}
                         ELSE {IngestFields \ F : F \in SUBSET OptionalFields}
  /\ TakeUp(t, e, "ingest", assign, FALSE, Loaded(t, e), "assign")

(* The flush of the INSERT or UPDATE, and the refresh if there is one. *)
Assign(t) ==
  LET e == job[t].entity
  IN /\ pc[t] = "assign"
     /\ Emits(t) => RowRivals(t) = {} /\ ~IdTaken(t)
     /\ pend' = IF Emits(t) THEN [pend EXCEPT ![t][e] = NewRow(t)] ELSE pend
     /\ loaded' = [loaded EXCEPT ![t][e] = AfterFlush(t)]
     /\ asked' = [asked EXCEPT ![t][e] = @ \cup DOMAIN job[t].assign]
     /\ pc' = [pc EXCEPT ![t] = IF job[t].retag THEN "refresh" ELSE "max"]
     /\ UNCHANGED <<row, hist, pendHist, job, revNo>>

(* replace_tags, then session.refresh(entity): the row as it is by now. *)
Refresh(t) ==
  /\ pc[t] = "refresh"
  /\ loaded' = [loaded EXCEPT ![t][job[t].entity] = View(t)[job[t].entity]]
  /\ pc' = [pc EXCEPT ![t] = "max"]
  /\ UNCHANGED <<row, hist, pend, pendHist, asked, job, revNo>>

ReadMax(t) ==
  LET e == job[t].entity
  IN /\ pc[t] = "max"
     /\ revNo' = [revNo EXCEPT ![t] = NextRevisionNo(hist[e] \cup pendHist[t][e])]
     /\ pc' = [pc EXCEPT ![t] = "insert"]
     /\ UNCHANGED <<row, hist, pend, pendHist, loaded, asked, job>>

(* The entity_history row.  PATCH records the state it loaded and what is   *)
(* different now; create and ingest record the state they have now.         *)
NewRevision(t) ==
  LET j == job[t]
      now == loaded[t][j.entity]
  IN IF j.kind = "patch"
       THEN [no |-> revNo[t], type |-> "update", snapshot |-> j.before,
             changed |-> [f \in {g \in Fields : j.before[g] # now[g]} |-> now[f]]]
       ELSE [no |-> revNo[t], type |-> IF j.before = NoRow THEN "create" ELSE "update",
             snapshot |-> now, changed |-> NoChange]

Insert(t) ==
  LET e == job[t].entity
  IN /\ pc[t] = "insert"
     /\ RevisionRivals(t) = {}
     /\ ~RevisionTaken(t)
     /\ pendHist' = [pendHist EXCEPT ![t][e] = @ \cup {NewRevision(t)}]
     /\ pc' = [pc EXCEPT ![t] = IF job[t].kind = "ingest" THEN "open" ELSE "commit"]
     /\ job' = [job EXCEPT ![t] = NoJob]
     /\ revNo' = [revNo EXCEPT ![t] = 0]
     /\ UNCHANGED <<row, hist, pend, loaded, asked>>

(* The transaction of t ends and its session is closed. *)
End(t) ==
  /\ pend' = [pend EXCEPT ![t] = [e \in Entities |-> NoRow]]
  /\ pendHist' = [pendHist EXCEPT ![t] = [e \in Entities |-> {}]]
  /\ loaded' = [loaded EXCEPT ![t] = [e \in Entities |-> NoRow]]
  /\ asked' = [asked EXCEPT ![t] = [e \in Entities |-> {}]]
  /\ pc' = [pc EXCEPT ![t] = "idle"]
  /\ job' = [job EXCEPT ![t] = NoJob]
  /\ revNo' = [revNo EXCEPT ![t] = 0]

Commit(t) ==
  /\ pc[t] \in {"open", "commit"}
  /\ row' = View(t)
  /\ hist' = [e \in Entities |-> hist[e] \cup pendHist[t][e]]
  /\ End(t)

(* IntegrityError of the primary key or of uq_entity_history_rev. *)
ConstraintError(t) ==
  /\ \/ pc[t] = "assign" /\ RowRivals(t) = {} /\ IdTaken(t)
     \/ pc[t] = "insert" /\ RevisionRivals(t) = {} /\ RevisionTaken(t)
  /\ End(t)
  /\ UNCHANGED <<row, hist>>

(* Any other failure of the request. *)
Rollback(t) ==
  /\ pc[t] # "idle"
  /\ End(t)
  /\ UNCHANGED <<row, hist>>

WaitsFor(t) ==
  CASE pc[t] = "assign" /\ Emits(t) -> RowRivals(t)
    [] pc[t] = "insert" -> RevisionRivals(t)
    [] OTHER -> {}

Deadlocked(S) ==
  /\ S # {}
  /\ \A u \in S : WaitsFor(u) \cap S # {} /\ \E v \in S : u \in WaitsFor(v)

DeadlockVictim(t) ==
  /\ \E S \in SUBSET Txns : t \in S /\ Deadlocked(S)
  /\ End(t)
  /\ UNCHANGED <<row, hist>>

Next ==
  \E t \in Txns :
    \/ \E e \in Entities, s \in State : Post(t, e, s)
    \/ \E e \in Entities, a \in Assignments, retag \in BOOLEAN : Patch(t, e, a, retag)
    \/ \E e \in Entities, a \in Assignments : Ingest(t, e, a)
    \/ Assign(t)
    \/ Refresh(t)
    \/ ReadMax(t)
    \/ Insert(t)
    \/ Commit(t)
    \/ ConstraintError(t)
    \/ Rollback(t)
    \/ DeadlockVictim(t)

Spec == Init /\ [][Next]_vars

-----------------------------------------------------------------------------
(* The values the variables take. *)
TypeOK ==
  /\ row \in [Entities -> State \cup {NoRow}]
  /\ hist \in [Entities -> SUBSET Revision]
  /\ pend \in [Txns -> [Entities -> State \cup {NoRow}]]
  /\ pendHist \in [Txns -> [Entities -> SUBSET Revision]]
  /\ loaded \in [Txns -> [Entities -> State \cup {NoRow}]]
  /\ asked \in [Txns -> [Entities -> SUBSET Fields]]
  /\ pc \in [Txns -> {"idle", "open", "commit", "assign", "refresh", "max", "insert"}]
  /\ job \in [Txns -> Jobs \cup {NoJob}]
  /\ revNo \in [Txns -> Nat]
  /\ \A t \in Txns : Busy(t) => job[t] \in Jobs

(* The revisions are numbered 1 .. n, each number once. *)
Contiguous(revs) ==
  /\ LastRevisionNo(revs) \in Nat
  /\ Numbers(revs) = 1 .. LastRevisionNo(revs)
  /\ \A r, s \in revs : r.no = s.no => r = s

(* However requests on an entity interleave, fail or wait for one another,  *)
(* its committed revisions are 1, 2, 3, ... without gap or duplicate        *)
(* (next_revision_no takes no lock: the constraint refuses the late one).   *)
ContiguousRevisions == \A e \in Entities : Contiguous(hist[e])

(* Revision 1 is the creation of the entity and no other revision is, and   *)
(* an entity has revisions from the moment it exists.                       *)
CreatedOnce ==
  \A e \in Entities :
    /\ hist[e] # {} <=> row[e] # NoRow
    /\ \A r \in hist[e] : r.type = "create" <=> r.no = 1

LatestRevision(revs) == CHOOSE r \in revs : \A s \in revs : s.no <= r.no

(* A commit that changes an entity also records it: the newest revision is  *)
(* a new one, and the state it stands for has every column the commit       *)
(* changed at its committed value - and every other column too, unless the  *)
(* revision is an ingest's, whose snapshot may hold older values.           *)
CommitsRecorded ==
  [][\A e \in Entities :
       row'[e] # row[e] =>
         LET r == LatestRevision(hist'[e]) IN
           /\ r \notin hist[e]
           /\ \A f \in Fields :
                \/ EffectiveState(r)[f] = row'[e][f]
                \/ /\ r.type = "update" /\ r.changed = NoChange
                   /\ row'[e][f] = row[e][f]]_<<row, hist>>

(* No lost update: a commit leaves every column its request did not set as  *)
(* the last commit left it, however stale the object in its session was.    *)
OnlyAskedColumns ==
  [][\A e \in Entities :
       row[e] # NoRow /\ row'[e] # row[e] =>
         \E t \in Txns :
           /\ pc[t] \in {"open", "commit"} /\ pc'[t] = "idle"
           /\ \A f \in Fields \ asked[t][e] : row'[e][f] = row[e][f]]_row

(* The snapshot of an update is a before-image: the state the revision      *)
(* before it left (_effective_state, tests/test_history_api.py).            *)
BeforeImages ==
  \A e \in Entities : \A r, s \in hist[e] :
    r.type = "update" /\ s.no + 1 = r.no => r.snapshot = EffectiveState(s)

(* The newest revision stands for the state the entity is in ("the actual   *)
(* post-revision state", _effective_state).                                 *)
LatestIsState ==
  \A e \in Entities :
    row[e] # NoRow => EffectiveState(LatestRevision(hist[e])) = row[e]

=============================================================================
