--------------------------- MODULE AccountService ---------------------------
(***************************************************************************)
(* Accounts, projects, membership and API keys on the backend: AuthService *)
(* and ProjectService with the routes of api/auth.py and api/admin_*.py.   *)
(*                                                                         *)
(* `row' holds the committed rows of user_account, project, project_member *)
(* and api_key; every id belongs to one of the sets of ids below.  A       *)
(* request (one per browser tab, `req') authenticates, loads the row it is *)
(* about and checks it (Load), then writes the columns that differ from    *)
(* what it loaded (Change).  The admin routes commit the audit row in a    *)
(* second transaction (Audit).  A password change deletes the keys of the  *)
(* user (Sweep) some statements before it commits (CommitPassword).        *)
(* POST /auth/users and POST /projects create accounts and projects too,   *)
(* from scripts and other clients, and commit no audit row (Post).         *)
(***************************************************************************)
EXTENDS Naturals, FiniteSets, TLC

CONSTANTS
  Tabs,        \* browser tabs, each with one request on its way at most
  Users,       \* user_account ids
  Projects,    \* project ids
  Members,     \* project_member keys
  Keys,        \* api_key ids
  Texts,       \* what alias and description of a project may say
  HomeProject, \* the project of which Members are the members
  MemberUser,  \* MemberUser[m]: the user of a membership row
  NoRow,       \* there is no such row yet
  Deleted,     \* the row has been deleted
  NoUser,      \* nobody is logged in
  NoTarget,    \* the request is not about a row
  NoRequest    \* the tab has no request on its way

(* The tables have ids of their own. *)
ASSUME IdsAssumption ==
  /\ Users \cap Projects = {}
  /\ (Users \cup Projects) \cap Members = {}
  /\ (Users \cup Projects \cup Members) \cap Keys = {}

Ids == Users \cup Projects \cup Members \cup Keys

Roles == {"admin", "project_admin", "user"}
MemberRoles == {"member", "project_admin"}

UserRow == [role : Roles, active : BOOLEAN, must : BOOLEAN]
ProjectRow == [text : Texts, active : BOOLEAN]
MemberRow == [role : MemberRoles, active : BOOLEAN]
KeyRow == [owner : Users, revoked : BOOLEAN]

VARIABLES
  row,     \* row[i]: the committed row i
  had,     \* history: the rows i has been
  audit,   \* entity_audit_log: the target and its after-snapshot
  req,     \* req[t]: the request of tab t
  faults,  \* bound: requests that may still be lost
  posting, \* the rows that a POST outside the administration is creating
  unlogged \* history: the rows such a POST has left, as `audit' has them

postVars == <<posting, unlogged>>
serverVars == <<row, had, audit, req, faults, postVars>>

-----------------------------------------------------------------------------
IsRow(r) == r # NoRow /\ r # Deleted
Active(i) == IsRow(row[i]) /\ row[i].active

(* get_current_user: a valid token of an active user. *)
SignedIn(u) == u # NoUser /\ Active(u)
IsAdmin(u) == SignedIn(u) /\ row[u].role = "admin"

AdminOps == {"createUser", "updateUser", "reset", "createProject", "updateProject",
             "addMember", "updateRole", "removeMember", "adminCreateKey",
             "adminRevokeKey"}
Audited == AdminOps \ {"adminCreateKey", "adminRevokeKey"}
Inserts == {"createUser", "createProject", "createKey", "adminCreateKey"}
Revokes == {"revokeKey", "adminRevokeKey"}
Sweeps == {"password", "reset"}

(* Who may call: get_current_admin, get_current_user, or anybody. *)
Authorised(q) ==
  IF q.op \in AdminOps THEN IsAdmin(q.caller)
  ELSE q.op \in {"login", "logout"} \/ SignedIn(q.caller)

(* auth.py create_api_key: a key of one's own project, unless an admin. *)
MayIssueKey(u) ==
  \/ IsAdmin(u)
  \/ \E m \in Members : MemberUser[m] = u /\ Active(m)

(* project_service.add_member: an active project, not an active member. *)
Addable(m) == Active(HomeProject) /\ ~Active(m)

(* auth_service.revoke_api_key: one's own key, or any key for an admin. *)
Revocable(q) ==
  /\ IsRow(row[q.target])
  /\ IsAdmin(q.caller) \/ row[q.target].owner = q.caller

(* update_user and reset_password, update_project: the row must exist. *)
Found(i) == IsRow(row[i])

(* The checks a request makes before it writes anything. *)
Accepted(q) ==
  /\ Authorised(q)
  /\ CASE q.op \in {"createUser", "createProject"} -> ~Found(q.target)
       [] q.op \in {"updateUser", "updateProject", "reset"} -> Found(q.target)
       [] q.op = "createKey" -> MayIssueKey(q.caller)
       [] q.op = "addMember" -> Addable(q.target)
       [] q.op \in {"updateRole", "removeMember"} -> Active(q.target)
       [] q.op \in Revokes -> Revocable(q)
       [] q.op = "login" -> Active(q.target)
       [] OTHER -> TRUE

-----------------------------------------------------------------------------
(* Mutant: the ORM writes every column of the row it loaded. *)
WrittenWhole(q, now) == [c \in DOMAIN now |->
  IF c \in DOMAIN q.asks THEN q.asks[c] ELSE q.seen[c]]

(* Mutant: is_active is flipped where it stands, whatever was asked. *)
WrittenFlipped(q, now) == [c \in DOMAIN now |->
  IF c \notin DOMAIN q.asks THEN now[c] ELSE
  IF c = "active" /\ q.op = "updateUser" THEN ~now[c] ELSE q.asks[c]]

(* Mutant: the body of a PATCH is taken for the whole row. *)
WrittenAsPut(q, now) == q.asks

(* The UPDATE of a flush: the columns asked for that differ from what was  *)
(* loaded, on top of the row as it is now.                                 *)
Written(q, now) == [c \in DOMAIN now |->
  IF c \in DOMAIN q.asks /\ q.asks[c] # q.seen[c] THEN q.asks[c] ELSE now[c]]

(* The object in the session after the flush, where it is not refreshed. *)
Asked(q) == [c \in DOMAIN q.seen |->
  IF c \in DOMAIN q.asks THEN q.asks[c] ELSE q.seen[c]]

(* Mutant: the after-snapshot is put together from what was loaded and asked. *)
SnapshotAsked(q, new) == IF IsRow(q.seen) THEN Asked(q) ELSE new

(* after_snapshot: users and projects are refreshed, memberships are not. *)
Snapshot(q, new) ==
  IF q.target \in Members /\ IsRow(q.seen) THEN Asked(q) ELSE new

(* The row of user u is locked by a password change that has not committed. *)
LockedUser(u) == \E t \in Tabs :
  req[t] # NoRequest /\ req[t].at = "swept" /\ req[t].target = u

(* A key that such a change has deleted, for its own transaction only. *)
Condemned(k) == \E t \in Tabs :
  req[t] # NoRequest /\ req[t].at = "swept" /\ k \in req[t].swept

KeysOf(u) == {k \in Keys : IsRow(row[k]) /\ row[k].owner = u}

-----------------------------------------------------------------------------
Request(call, who) ==
  [op |-> call.op, caller |-> who, target |-> call.target, asks |-> call.asks,
   saw |-> call.saw, at |-> "sent", seen |-> NoRow, after |-> NoRow,
   swept |-> {}, ok |-> FALSE, did |-> FALSE]

At(t, stage) == req[t] # NoRequest /\ req[t].at = stage

(* The answer goes back. *)
Answer(t, ok) == req' = [req EXCEPT ![t].at = "done", ![t].ok = ok]

(* What a commit leaves in the tables. *)
Store(i, new) ==
  /\ row' = [row EXCEPT ![i] = new]
  /\ had' = [had EXCEPT ![i] = @ \cup {new}]

(* A request is received: the caller is authenticated, the row loaded and   *)
(* checked; logging in and out writes nothing.                             *)
Load(t) ==
  /\ At(t, "sent")
  /\ Accepted(req[t])
  /\ LET answered == req[t].op \in {"login", "logout"} IN
     req' = [req EXCEPT ![t].at = IF answered THEN "done" ELSE "loaded",
                        ![t].ok = answered,
                        ![t].seen = IF req[t].op \in Inserts \cup {"logout"}
                                    THEN NoRow ELSE row[req[t].target]]
  /\ UNCHANGED <<row, had, audit, faults>>

(* 401, 403, 404, 409 or 422. *)
Refuse(t) ==
  /\ At(t, "sent")
  /\ ~Accepted(req[t]) \/ req[t].op \in {"login", "password"}  \* a wrong password
  /\ Answer(t, FALSE)
  /\ UNCHANGED <<row, had, audit, faults>>

(* Mutant: an edit of a project is answered by the service's commit. *)
CommittedAnswered(t, new) ==
  LET more == req[t].op \in Audited \ {"updateProject"} IN
  req' = [req EXCEPT ![t].at = IF more THEN "changed" ELSE "done",
                     ![t].ok = ~more,
                     ![t].did = TRUE,
                     ![t].after = Snapshot(req[t], new)]

Committed(t, new) ==
  req' = [req EXCEPT ![t].at = IF req[t].op \in Audited THEN "changed"
                               ELSE "done",
                     ![t].ok = req[t].op \notin Audited,
                     ![t].did = TRUE,
                     ![t].after = Snapshot(req[t], new)]

(* create_user, create_project, create_api_key, add_member: INSERT, commit. *)
Insert(t) ==
  /\ At(t, "loaded")
  /\ req[t].op \notin Sweeps
  /\ req[t].seen = NoRow
  /\ IF IsRow(row[req[t].target])
     THEN Answer(t, FALSE) /\ UNCHANGED <<row, had>>  \* unique violation
     ELSE Store(req[t].target, req[t].asks) /\ Committed(t, req[t].asks)
  /\ UNCHANGED <<audit, faults>>

(* update_user, update_project, the member routes, revoke: UPDATE, commit. *)
Update(t) ==
  LET q == req[t] IN
  /\ At(t, "loaded")
  /\ q.op \notin Sweeps
  /\ q.seen # NoRow
  /\ (q.op \in Revokes \/ Written(q, q.seen) # q.seen) =>  \* an UPDATE waits
       ~LockedUser(q.target) /\ ~Condemned(q.target)
  /\ IF row[q.target] = Deleted
     THEN Answer(t, FALSE) /\ UNCHANGED <<row, had>>  \* no row to update
     ELSE LET new == Written(q, row[q.target])
          IN  Store(q.target, new) /\ Committed(t, new)
  /\ UNCHANGED <<audit, faults>>

(* change_password, reset_password: UPDATE of the user, DELETE of the keys. *)
Sweep(t) ==
  /\ At(t, "loaded")
  /\ req[t].op \in Sweeps
  /\ ~LockedUser(req[t].target)
  /\ req' = [req EXCEPT ![t].at = "swept", ![t].swept = KeysOf(req[t].target)]
  /\ UNCHANGED <<row, had, audit, faults>>

(* The same: commit. *)
CommitPassword(t) ==
  LET q == req[t]
      new == Written(q, row[q.target])
  IN
  /\ At(t, "swept")
  /\ row' = [i \in Ids |-> IF i = q.target THEN new
                           ELSE IF i \in q.swept THEN Deleted ELSE row[i]]
  /\ had' = [had EXCEPT ![q.target] = @ \cup {new}]
  /\ Committed(t, NoRow)
  /\ UNCHANGED <<audit, faults>>

(* AuditLogRepository.create and the second commit of the admin routes. *)
Audit(t) ==
  /\ At(t, "changed")
  /\ audit' = audit \cup
       {[target |-> req[t].target,
         after |-> IF req[t].op \in {"reset", "removeMember"} THEN NoRow
                   ELSE req[t].after]}
  /\ Answer(t, TRUE)
  /\ UNCHANGED <<row, had, faults>>

(* The worker or the connection dies: what is not committed is gone, and    *)
(* the caller gets an error.                                               *)
Lose(t) ==
  /\ faults > 0
  /\ req[t] # NoRequest /\ req[t].at # "done"
  /\ Answer(t, FALSE)
  /\ faults' = faults - 1
  /\ UNCHANGED <<row, had, audit, postVars>>

Serve(t) ==
  /\ \/ Load(t) \/ Refuse(t) \/ Insert(t) \/ Update(t)
     \/ Sweep(t) \/ CommitPassword(t) \/ Audit(t)
  /\ UNCHANGED postVars

-----------------------------------------------------------------------------
(* What api/auth.py create_user and api/projects.py create_project insert. *)
Created(i) ==
  IF i \in Users THEN [role : Roles, active : {TRUE}, must : {FALSE}]
  ELSE [text : Texts, active : {TRUE}]

(* An administrator asks for it, and there is no such row. *)
PostCheck(i) ==
  /\ i \notin posting
  /\ ~Found(i)
  /\ \E u \in Users : IsAdmin(u)
  /\ posting' = posting \cup {i}
  /\ UNCHANGED <<row, had, audit, req, faults, unlogged>>

(* INSERT and the only commit, or a unique violation. *)
PostInsert(i) ==
  /\ i \in posting
  /\ posting' = posting \ {i}
  /\ IF IsRow(row[i]) THEN UNCHANGED <<row, had, unlogged>>
     ELSE \E new \in Created(i) :
            /\ Store(i, new)
            /\ unlogged' = unlogged \cup {[target |-> i, after |-> new]}
  /\ UNCHANGED <<audit, req, faults>>

Post(i) == PostCheck(i) \/ PostInsert(i)

ServerTypeOK ==
  /\ \A i \in Ids : row[i] \in {NoRow, Deleted} \/
       row[i] \in (CASE i \in Users -> UserRow [] i \in Projects -> ProjectRow
                   [] i \in Members -> MemberRow [] i \in Keys -> KeyRow)
  /\ \A i \in Ids : row[i] \in had[i] \cup {NoRow, Deleted}
  /\ faults \in Nat
  /\ posting \subseteq Users \cup Projects

=============================================================================
