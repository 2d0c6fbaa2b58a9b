---------------------------- MODULE EntityRoutes ----------------------------
(***************************************************************************)
(* What the entity pages of the web frontend need of the backend: the      *)
(* routes of entities, tags, aliases, contexts and bundles.                *)
(*                                                                         *)
(* A request (one per browser tab) authorises its caller, loads what it is *)
(* about (Load), sends its statement, which may wait for that of another   *)
(* transaction, and is answered (Flush).  The commit comes after the       *)
(* answer: `unsaved' holds the transactions that have been answered and    *)
(* not committed.  Revisions and ShortIds look into the transactions of    *)
(* entities; here only their effect counts.                                *)
(***************************************************************************)
EXTENDS Naturals, FiniteSets, Sequences, SequencesExt, TLC

CONSTANTS
  Tabs,      \* browser tabs, each with one request on its way at most
  People,    \* who uses the tabs
  Admins,    \* those of them with the role "admin"
  Order,     \* the entity ids, the youngest first
  Shared,    \* the entities of a project of which everybody is a member
  Tags, Aliases, Contexts,  \* tags, and ids of the rows of entity_alias, entity_context
  Texts,     \* what name and description of an entity may say
  NoEntity,  \* there is no such entity, or none is meant
  NoRequest  \* the tab has no request on its way

Entities == {Order[n] : n \in DOMAIN Order}
Parts == Aliases \cup Contexts
Statuses == {"candidate", "active", "deprecated", "archived"}

VARIABLES
  entity,   \* entity[e]: the committed rows that make up e
  unsaved,  \* requests answered whose transaction has not committed
  taken,    \* history: what the backend has accepted, and from which tab
  req,      \* req[t]: the request of tab t
  faults    \* bound: workers and answers that may still be lost

serverVars == <<entity, unsaved, taken, req, faults>>

-----------------------------------------------------------------------------
EntityRow == [status : Statuses, text : Texts, tags : SUBSET Tags,
              parts : SUBSET Parts, gone : SUBSET Aliases]

(* What a request of each kind carries. *)
Args == [create |-> Texts,
         update |-> [status : Statuses] \cup [status : Statuses, text : Texts],
         addTag |-> Tags, deleteTag |-> Tags, addPart |-> Parts, deactivate |-> Aliases,
         bundle |-> {NoEntity}]
Ops == DOMAIN Args

Requests == {q \in [tab : Tabs, op : Ops, by : People, target : Entities,
                    arg : UNION {Args[o] : o \in Ops},
                    at : {"sent", "loaded", "done"}, seen : EntityRow \cup {NoEntity},
                    ok : BOOLEAN] : q.arg \in Args[q.op]}

ASSUME RoutesAssumption ==
  /\ Order \in Seq(Entities) /\ IsInjective(Order)
  /\ IsFiniteSet(Tags)
  /\ NoEntity \notin Entities \cup EntityRow
  /\ NoRequest \notin Requests

IsEntity(e) == e # NoEntity /\ entity[e] # NoEntity

(* EntityCreate: what a new entity is if the page says no more than a name. *)
Created(text) == [status |-> "active", text |-> text, tags |-> {}, parts |-> {},
                  gone |-> {}]

(* check_can_mutate_entity: administrators, and members of the project. *)
MayMutate(u, e) == u \in Admins \/ e \in Shared

(* check_can_assign_project: the page names no project, so this is an      *)
(* entity of none, which only an administrator may create.                 *)
MayCreate(u) == u \in Admins

(* The checks of the routes and services, on what has been committed. *)
Accepted(q) ==
  CASE q.op = "create" -> MayCreate(q.by)
    [] q.op = "bundle" -> IsEntity(q.target)
    [] OTHER -> /\ IsEntity(q.target)
                /\ MayMutate(q.by, q.target)
                /\ q.op = "addTag" => q.arg \notin entity[q.target].tags
                /\ q.op = "deleteTag" => q.arg \in entity[q.target].tags
                /\ q.op = "deactivate" => q.arg \in entity[q.target].parts

(* EntityRepository.update: the columns that differ from what was loaded. *)
Changes(q) == {c \in DOMAIN q.arg : q.arg[c] # q.seen[c]}

(* The row that the statement of a request writes. *)
Written(q) == IF q.op = "update" THEN <<q.target>> ELSE <<q.target, q.arg>>
Locks(q) == q.op \notin {"create", "bundle"} /\ (q.op = "update" => Changes(q) # {})

(* An earlier statement about the same row has not been committed. *)
Blocked(q) == Locks(q) /\ \E w \in unsaved : Locks(w) /\ Written(w) = Written(q)

(* Mutant: the body of a PATCH is taken for the whole row. *)
AfterAsPut(q, now) ==
  CASE q.op = "create" -> Created(q.arg)
    [] q.op = "update" -> q.arg
    [] q.op = "addTag" -> [now EXCEPT !.tags = @ \cup {q.arg}]
    [] OTHER -> now

(* The rows of entity q.target after the transaction. *)
After(q, now) ==
  CASE q.op = "create" -> Created(q.arg)
    [] q.op = "update" -> [c \in DOMAIN now |-> IF c \in DOMAIN q.arg /\ c \in Changes(q)
                                                THEN q.arg[c] ELSE now[c]]
    [] q.op = "addTag" -> [now EXCEPT !.tags = @ \cup {q.arg}]
    [] q.op = "deleteTag" -> [now EXCEPT !.tags = @ \ {q.arg}]
    [] q.op = "addPart" -> [now EXCEPT !.parts = @ \cup {q.arg}]
    [] q.op = "deactivate" -> [now EXCEPT !.parts = @ \ {q.arg}, !.gone = @ \cup {q.arg}]

-----------------------------------------------------------------------------
Request(t, call, who) ==
  [tab |-> t, op |-> call.op, by |-> who, target |-> call.target, arg |-> call.arg,
   at |-> "sent", seen |-> NoEntity, ok |-> FALSE]

At(t, stage) == req[t] # NoRequest /\ req[t].at = stage
Answer(t, ok) == req' = [req EXCEPT ![t].at = "done", ![t].ok = ok]

(* Authorisation and the statements that read. *)
Load(t) ==
  /\ At(t, "sent")
  /\ Accepted(req[t])
  /\ req' = [req EXCEPT ![t].at = "loaded",
       ![t].seen = IF req[t].op = "update" THEN entity[req[t].target] ELSE NoEntity]
  /\ UNCHANGED <<entity, unsaved, taken, faults>>

(* Mutant: a conflict with what is already there is never answered. *)
RefuseForbidden(t) ==
  /\ At(t, "sent")
  /\ req[t].op = "create" \/ ~MayMutate(req[t].by, req[t].target)
  /\ ~Accepted(req[t])
  /\ Answer(t, FALSE)
  /\ UNCHANGED <<entity, unsaved, taken, faults>>

(* 403, 404 or 409. *)
Refuse(t) ==
  /\ At(t, "sent")
  /\ ~Accepted(req[t])
  /\ Answer(t, FALSE)
  /\ UNCHANGED <<entity, unsaved, taken, faults>>

(* The statement that writes, and the answer. A tag inserted meanwhile: the  *)
(* unique constraint.                                                      *)
Flush(t) ==
  LET q == req[t] IN
  /\ At(t, "loaded")
  /\ ~Blocked(q)
  /\ IF q.op = "addTag" /\ q.arg \in entity[q.target].tags
     THEN Answer(t, FALSE) /\ UNCHANGED <<unsaved, taken>>
     ELSE /\ Answer(t, TRUE)
          /\ IF q.op = "bundle" THEN UNCHANGED <<unsaved, taken>>
             ELSE /\ unsaved' = unsaved \cup {q}
                  /\ taken' = taken \cup {<<t, q.op, q.target, q.arg>>}
  /\ UNCHANGED <<entity, faults>>

(* get_session, after the answer. *)
Commit(q) ==
  /\ unsaved' = unsaved \ {q}
  /\ entity' = [entity EXCEPT ![q.target] = After(q, @)]
  /\ UNCHANGED <<taken, req, faults>>

(* The worker dies before it has answered, or the answer is lost. *)
Lose(t) ==
  /\ faults > 0
  /\ req[t] # NoRequest /\ (req[t].at # "done" \/ req[t].ok)
  /\ Answer(t, FALSE)
  /\ faults' = faults - 1
  /\ UNCHANGED <<entity, unsaved, taken>>

(* The worker dies between the answer and the commit. *)
Die(q) ==
  /\ faults > 0
  /\ unsaved' = unsaved \ {q}
  /\ faults' = faults - 1
  /\ UNCHANGED <<entity, taken, req>>

Serve(t) == Load(t) \/ Refuse(t) \/ Flush(t)
=============================================================================
