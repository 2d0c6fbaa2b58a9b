------------------------------ MODULE ShortIds ------------------------------
(***************************************************************************)
(* How the registry numbers entities.  An entity of a project has a short  *)
(* identifier PROJECT-TYPE-N, stored as the columns project_id, type and   *)
(* short_seq of its row.  N is chosen by EntityRepository.next_short_seq:  *)
(* take a transaction-scoped advisory lock on the hash of "project:type",  *)
(* then read MAX(short_seq) + 1.  POST /entities, POST /entities/batch and *)
(* POST /ingest/batch all number rows this way, each request in one        *)
(* transaction at READ COMMITTED.                                          *)
(*                                                                         *)
(* A transaction handles one item after another (Create, Update), each in  *)
(* the steps between which other transactions run: advisory lock,          *)
(* autoflush, MAX, flush.  `row' holds the committed rows, pend[t] the     *)
(* uncommitted row versions of t (their holders also hold the row locks),  *)
(* `locks' the advisory locks.  A column that is NULL is NoProject or 0.   *)
(*                                                                         *)
(* A short id can change after it was committed: an ingest moves an entity *)
(* to another project, or two ingests that both loaded an entity without a *)
(* project number it one after the other.  The history variable            *)
(* `rewritten' collects the series (project and type) in which that has    *)
(* happened; no step depends on it.                                        *)
(***************************************************************************)
EXTENDS Naturals, FiniteSets, FiniteSetsExt

CONSTANTS
  Txns,        \* database sessions; each serves one request after another
  Entities,    \* entity ids (uuid)
  Projects,    \* project ids
  Types,       \* EntityType values
  LockKeys,    \* 32-bit results of hashtext()
  HashText,    \* HashText[<<p, ty>>]: the advisory lock key of "p:ty"
  Rescope,     \* may an ingest name another project than the one it found?
  NoProject,   \* project_id IS NULL
  NoRow,       \* the entity has no row, or t has written no version of it
  NoTxn,       \* a lock nobody holds
  NoJob        \* the request is not handling an item

ProjectIds == Projects \cup {NoProject}

Row == [project : ProjectIds, type : Types, seq : Nat]

Jobs == [entity : Entities, project : ProjectIds, type : Types,
         seen : Row \cup {NoRow}, dirty : BOOLEAN]

ASSUME ConstantsAssumption ==
  /\ IsFiniteSet(Entities)
  /\ NoProject \notin Projects
  /\ NoTxn \notin Txns
  /\ NoRow \notin Row
  /\ NoJob \notin Jobs
  /\ HashText \in [Projects \X Types -> LockKeys]
  /\ Rescope \in BOOLEAN

VARIABLES
  row,     \* the committed entity table
  pend,    \* pend[t][e]: the version of e's row that t has flushed
  locks,   \* advisory lock table
  pc,      \* the statement each request runs next
  job,     \* the item each request is handling
  next,    \* the number next_short_seq returned for that item, 0 if none
  done,    \* the entities the request has handled so far
  rewritten  \* history: the series in which a commit has changed a short id

vars == <<row, pend, locks, pc, job, next, done, rewritten>>

-----------------------------------------------------------------------------
(* What a statement of t sees: the committed rows and its own writes. *)
View(t) == [e \in Entities |-> IF pend[t][e] # NoRow THEN pend[t][e] ELSE row[e]]

Numbered(r, p, ty) == r # NoRow /\ r.project = p /\ r.type = ty /\ r.seq # 0

UsedSeqs(table, p, ty) ==
  {table[e].seq : e \in {x \in Entities : Numbered(table[x], p, ty)}}

LastShortSeq(table, p, ty) == Max(UsedSeqs(table, p, ty) \cup {0})

(* Mutant: the WHERE of the MAX is forgotten. *)
NextShortSeqOverall(table, p, ty) ==
  Max({table[e].seq : e \in {x \in Entities : table[x] # NoRow}} \cup {0}) + 1

(* COALESCE(MAX(short_seq), 0) + 1 over the rows of the project and type. *)
NextShortSeq(table, p, ty) == LastShortSeq(table, p, ty) + 1

(* Two rows with the same key of uq_entity_short_seq; NULLs never conflict. *)
SameShortId(r, s) ==
  /\ r # NoRow /\ s # NoRow
  /\ r.seq # 0
  /\ r.project = s.project /\ r.type = s.type /\ r.seq = s.seq

(* The series a short id leaves and comes to when version s replaces r. *)
RewrittenBy(r, s) ==
  IF r # NoRow /\ r.seq # 0 /\ ~SameShortId(r, s)
    THEN {<<r.project, r.type>>, <<s.project, s.type>>}
    ELSE {}

(* The series in which a commit of t would change a committed short id. *)
Rewriting(t) == UNION {RewrittenBy(row[e], View(t)[e]) : e \in Entities}

(* Transactions that t waits for before its version r of e can be written: *)
(* the holder of e's row lock (or of an uncommitted row with the same id), *)
(* and whoever writes, or rewrites, another row with r's key.              *)
Rivals(t, e, r) ==
  {u \in Txns \ {t} :
     \/ pend[u][e] # NoRow
     \/ \E f \in Entities \ {e} :
          /\ pend[u][f] # NoRow
          /\ SameShortId(pend[u][f], r) \/ SameShortId(row[f], r)}

(* Mutant: there is no uq_entity_short_seq. *)
NoConstraint(t, e, r) == FALSE

(* uq_entity_short_seq, checked against what is left once the rivals are gone. *)
ShortIdTaken(t, e, r) ==
  \E f \in Entities \ {e} : SameShortId(View(t)[f], r)

(* The row the item of t writes.  An UPDATE sets only the columns that differ *)
(* from what the session loaded (seen), on top of the latest version.        *)
NewRow(t) ==
  LET j == job[t]
      base == View(t)[j.entity]
  IN IF j.seen = NoRow
       THEN [project |-> j.project, type |-> j.type, seq |-> next[t]]
       ELSE [project |-> IF j.project # j.seen.project THEN j.project ELSE base.project,
             type |-> base.type,
             seq |-> IF next[t] # 0 THEN next[t] ELSE base.seq]

(* Whether the flush sends a statement: an INSERT does, an UPDATE if it sets *)
(* a column.                                                                *)
Emits(t) ==
  LET j == job[t]
  IN j.seen # NoRow => (j.dirty \/ j.project # j.seen.project \/ next[t] # 0)

IdTaken(t) == job[t].seen = NoRow /\ row[job[t].entity] # NoRow

Blocked(t) == Emits(t) /\ Rivals(t, job[t].entity, NewRow(t)) # {}

Rejected(t) ==
  /\ Emits(t)
  /\ ~Blocked(t)
  /\ IdTaken(t) \/ ShortIdTaken(t, job[t].entity, NewRow(t))

LockKey(t) == HashText[<<job[t].project, job[t].type>>]

-----------------------------------------------------------------------------
(* A new database, every migration run. *)
Init ==
  /\ row = [e \in Entities |-> NoRow]
  /\ pend = [t \in Txns |-> [e \in Entities |-> NoRow]]
  /\ locks = [k \in LockKeys |-> NoTxn]
  /\ pc = [t \in Txns |-> "idle"]
  /\ job = [t \in Txns |-> NoJob]
  /\ next = [t \in Txns |-> 0]
  /\ done = [t \in Txns |-> {}]
  /\ rewritten = {}

(* A request takes up an entity it has not handled yet (one that names an  *)
(* entity twice is left out).                                              *)
TakeUp(t, j, step) ==
  /\ pc[t] \in {"idle", "open"}
  /\ j.entity \notin done[t]
  /\ job' = [job EXCEPT ![t] = j]
  /\ pc' = [pc EXCEPT ![t] = step]
  /\ done' = [done EXCEPT ![t] = @ \cup {j.entity}]
  /\ UNCHANGED <<row, pend, locks, next, rewritten>>

(* EntityRepository.create, and _upsert_entity when no row is found. *)
Create(t, e, p, ty) ==
  TakeUp(t, [entity |-> e, project |-> p, type |-> ty, seen |-> NoRow, dirty |-> TRUE],
         IF p = NoProject THEN "write" ELSE "lock")

(* Mutant: a number for no update. *)
NumberNever(p, seen) == FALSE

(* _upsert_entity: "the first time an entity gains a project scope". *)
NeedsNumber(p, seen) == p # NoProject /\ seen.seq = 0

(* Mutant: an item without a project takes the entity out of its own. *)
NamedOrNone(p, seen) == p

(* The project of the entity after an item that names p, or none. *)
Named(p, seen) == IF p = NoProject THEN seen.project ELSE p

(* _upsert_entity on a row it finds.  dirty: the item also changes the name, *)
(* description, status or confidence.  An entity without a project may be    *)
(* given any; Rescope says whether another one may be moved.                 *)
Update(t, e, p, dirty) ==
  LET seen == View(t)[e]
      project == Named(p, seen)
  IN /\ seen # NoRow
     /\ Rescope \/ seen.project \in {NoProject, project}
     /\ TakeUp(t, [entity |-> e, project |-> project, type |-> seen.type,
                   seen |-> seen, dirty |-> dirty],
               IF NeedsNumber(p, seen) THEN "lock" ELSE "write")

(* Mutant: MAX is read without taking the lock. *)
SkipLock(t) ==
  /\ pc[t] = "lock"
  /\ pc' = [pc EXCEPT ![t] = IF job[t].seen = NoRow THEN "max" ELSE "autoflush"]
  /\ UNCHANGED <<row, pend, locks, job, next, done, rewritten>>

(* SELECT pg_advisory_xact_lock(hashtext(...)); a session may hold it already. *)
AcquireLock(t) ==
  /\ pc[t] = "lock"
  /\ locks[LockKey(t)] \in {NoTxn, t}
  /\ locks' = [locks EXCEPT ![LockKey(t)] = t]
  /\ pc' = [pc EXCEPT ![t] = IF job[t].seen = NoRow THEN "max" ELSE "autoflush"]
  /\ UNCHANGED <<row, pend, job, next, done, rewritten>>

(* A flush of the item's pending changes that the database accepts. *)
Flush(t) ==
  /\ ~Blocked(t) /\ ~Rejected(t)
  /\ pend' = IF Emits(t) THEN [pend EXCEPT ![t][job[t].entity] = NewRow(t)] ELSE pend
  /\ UNCHANGED <<row, locks, done, rewritten>>

(* The SELECT MAX of an update flushes the columns assigned before it. *)
Autoflush(t) ==
  /\ pc[t] = "autoflush"
  /\ Flush(t)
  /\ pc' = [pc EXCEPT ![t] = "max"]
  /\ UNCHANGED <<job, next>>

(* SELECT COALESCE(MAX(short_seq), 0) + 1, a statement of its own. *)
ReadMax(t) ==
  /\ pc[t] = "max"
  /\ next' = [next EXCEPT ![t] = NextShortSeq(View(t), job[t].project, job[t].type)]
  /\ pc' = [pc EXCEPT ![t] = "write"]
  /\ UNCHANGED <<row, pend, locks, job, done, rewritten>>

(* The flush of the INSERT, or of the UPDATE with its short_seq; the item is done. *)
Write(t) ==
  /\ pc[t] = "write"
  /\ Flush(t)
  /\ pc' = [pc EXCEPT ![t] = "open"]
  /\ job' = [job EXCEPT ![t] = NoJob]
  /\ next' = [next EXCEPT ![t] = 0]

(* Mutant: after a rollback the request carries on, its item forgotten. *)
EndMidItem(t) ==
  /\ pend' = [pend EXCEPT ![t] = [e \in Entities |-> NoRow]]
  /\ locks' = [k \in LockKeys |-> IF locks[k] = t THEN NoTxn ELSE locks[k]]
  /\ job' = [job EXCEPT ![t] = NoJob]
  /\ UNCHANGED <<pc, next, done>>

(* Mutant: the lock belongs to the session (pg_advisory_lock). *)
EndKeepLocks(t) ==
  /\ pend' = [pend EXCEPT ![t] = [e \in Entities |-> NoRow]]
  /\ pc' = [pc EXCEPT ![t] = "idle"]
  /\ job' = [job EXCEPT ![t] = NoJob]
  /\ next' = [next EXCEPT ![t] = 0]
  /\ done' = [done EXCEPT ![t] = {}]
  /\ UNCHANGED locks

(* The transaction of t ends; the server releases all it held. *)
End(t) ==
  /\ pend' = [pend EXCEPT ![t] = [e \in Entities |-> NoRow]]
  /\ locks' = [k \in LockKeys |-> IF locks[k] = t THEN NoTxn ELSE locks[k]]
  /\ pc' = [pc EXCEPT ![t] = "idle"]
  /\ job' = [job EXCEPT ![t] = NoJob]
  /\ next' = [next EXCEPT ![t] = 0]
  /\ done' = [done EXCEPT ![t] = {}]

Commit(t) ==
  /\ pc[t] = "open"
  /\ row' = View(t)
  /\ rewritten' = rewritten \cup Rewriting(t)
  /\ End(t)

(* IntegrityError of uq_entity_short_seq or of the primary key. *)
ConstraintError(t) ==
  /\ pc[t] \in {"autoflush", "write"}
  /\ Rejected(t)
  /\ End(t)
  /\ UNCHANGED <<row, rewritten>>

(* Any other failure: an item refused (TYPE_CHANGE_FORBIDDEN, a relation to *)
(* nowhere), a lost connection, a worker that dies.                        *)
Rollback(t) ==
  /\ pc[t] # "idle"
  /\ End(t)
  /\ UNCHANGED <<row, rewritten>>

(* Whom t waits for, and the sets of transactions that wait for each other. *)
WaitsFor(t) ==
  CASE pc[t] = "lock" -> {locks[LockKey(t)]} \ {NoTxn, t}
    [] pc[t] \in {"autoflush", "write"} /\ Emits(t) ->
         Rivals(t, job[t].entity, NewRow(t))
    [] OTHER -> {}

Deadlocked(S) ==
  /\ S # {}
  /\ \A u \in S : WaitsFor(u) \cap S # {} /\ \E v \in S : u \in WaitsFor(v)

(* PostgreSQL's deadlock detector aborts one of them. *)
DeadlockVictim(t) ==
  /\ \E S \in SUBSET Txns : t \in S /\ Deadlocked(S)
  /\ End(t)
  /\ UNCHANGED <<row, rewritten>>

Next ==
  \E t \in Txns :
    \/ \E e \in Entities, p \in ProjectIds, ty \in Types : Create(t, e, p, ty)
    \/ \E e \in Entities, p \in ProjectIds, d \in BOOLEAN : Update(t, e, p, d)
    \/ AcquireLock(t)
    \/ Autoflush(t)
    \/ ReadMax(t)
    \/ Write(t)
    \/ Commit(t)
    \/ ConstraintError(t)
    \/ Rollback(t)
    \/ DeadlockVictim(t)

Spec == Init /\ [][Next]_vars

(* A request that has begun is run to its end by its worker, and the lock  *)
(* manager queues waiters in order, so a statement that is let through     *)
(* again and again is not passed over for ever (strong fairness).  Nothing *)
(* obliges a client to send a request, or a request to fail.               *)
Proceed(t) ==
  \/ AcquireLock(t) \/ Autoflush(t) \/ ReadMax(t)
  \/ Write(t) \/ Commit(t) \/ ConstraintError(t)

Fairness == \A t \in Txns : SF_vars(Proceed(t)) /\ WF_vars(DeadlockVictim(t))

FairSpec == Spec /\ Fairness

-----------------------------------------------------------------------------
(* The values the variables take: rows, locks and items of the right shape, *)
(* a request between two items iff it is "open".                            *)
TypeOK ==
  /\ row \in [Entities -> Row \cup {NoRow}]
  /\ pend \in [Txns -> [Entities -> Row \cup {NoRow}]]
  /\ locks \in [LockKeys -> Txns \cup {NoTxn}]
  /\ pc \in [Txns -> {"idle", "open", "lock", "autoflush", "max", "write"}]
  /\ job \in [Txns -> Jobs \cup {NoJob}]
  /\ next \in [Txns -> Nat]
  /\ done \in [Txns -> SUBSET Entities]
  /\ rewritten \in SUBSET (ProjectIds \X Types)
  /\ \A t \in Txns : pc[t] \notin {"idle", "open"} => job[t] \in Jobs

GapFree(table, p, ty) ==
  /\ LastShortSeq(table, p, ty) \in Nat
  /\ UsedSeqs(table, p, ty) = 1 .. LastShortSeq(table, p, ty)

OneEach(table, p, ty) ==
  \A e, f \in Entities :
    /\ Numbered(table[e], p, ty) /\ Numbered(table[f], p, ty)
    /\ table[e].seq = table[f].seq
    => e = f

(* The committed numbers of a project and type are 1 .. n, each on one row, *)
(* as long as no commit has changed a short id there: a rolled back or      *)
(* crashed request leaves no gap, concurrent ones no duplicate, whether     *)
(* they insert the rows they number or update them.                         *)
DenseShortIds ==
  \A p \in Projects, ty \in Types :
    <<p, ty>> \notin rewritten => GapFree(row, p, ty) /\ OneEach(row, p, ty)

(* No number is on two committed rows (what uq_entity_short_seq enforces). *)
UniqueShortIds ==
  \A p \in Projects, ty \in Types : OneEach(row, p, ty)

(* next_short_seq: "serializes concurrent assignments, so MAX+1 can't       *)
(* collide" - a flush that carries a new number is never refused by         *)
(* uq_entity_short_seq, nor made to wait for another holder of the number,  *)
(* in a series where no short id has been changed or is being changed.      *)
NeverCollides ==
  \A t \in Txns :
    /\ pc[t] = "write" /\ next[t] # 0
    /\ <<job[t].project, job[t].type>> \notin rewritten \cup UNION {Rewriting(u) : u \in Txns}
    => \A f \in Entities \ {job[t].entity} :
         /\ ~SameShortId(View(t)[f], NewRow(t))
         /\ \A u \in Txns \ {t} : ~SameShortId(pend[u][f], NewRow(t))

(* A row has a number exactly when it has a project: _upsert_entity gives   *)
(* an entity its number in the transaction that gives it its project.       *)
NumberedIffScoped ==
  \A e \in Entities :
    row[e] # NoRow => (row[e].seq # 0 <=> row[e].project # NoProject)

(* A short id, once committed, is that entity's for good. *)
ShortIdsPermanent ==
  [][\A e \in Entities :
       row[e] # NoRow /\ row[e].seq # 0 => row'[e] = row[e]]_row

(* Every request that has begun ends, whatever locks it meets on its way:   *)
(* waits on advisory locks and row locks resolve, or the detector does.     *)
RequestsEnd == \A t \in Txns : pc[t] # "idle" ~> pc[t] = "idle"

-----------------------------------------------------------------------------
(* The committed table as the abstract book of short ids. *)
ShortIdOf(e) ==
  IF row[e] # NoRow /\ row[e].seq # 0
    THEN [project |-> row[e].project, type |-> row[e].type, seq |-> row[e].seq]
    ELSE NoRow

Book == INSTANCE ShortIdBook
          WITH issued <- [e \in Entities |-> ShortIdOf(e)],
               spoiled <- rewritten, NoId <- NoRow

(* What other sessions can read is a book of short ids: every commit enters *)
(* a batch, in which a change of an entry spoils its series and no other;   *)
(* every other step leaves the book as it is.                               *)
ImplementsBook == Book!Spec

=============================================================================
