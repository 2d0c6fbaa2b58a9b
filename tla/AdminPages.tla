----------------------------- MODULE AdminPages -----------------------------
(***************************************************************************)
(* The administration pages: users, projects, and the members of a         *)
(* project.  Each shows the rows it got as props; what a button sends is   *)
(* computed from the row on the screen, which may be older than the row in *)
(* the database.                                                           *)
(***************************************************************************)
EXTENDS AccountPages

TableOpen(t, p) == On(t, p) /\ ui[t].dialog = Closed
Shown(t) == DOMAIN ui[t].rows

(* The searches of the tables: a navigation to the same page. *)
FilterTable(t) ==
  /\ page[t] \in {"users", "projects"} /\ TableOpen(t, page[t])
  /\ going[t] = "nowhere"
  /\ going' = [going EXCEPT ![t] = page[t]]
  /\ UNCHANGED <<serverVars, tour, cookie, page, ui, calls, gaveUp, clicks>>

-----------------------------------------------------------------------------
(* UsersTable *)
UserRowOps == {"updateUser"}

(* ActionMenu: disabled while a call of the same row is out. *)
MenuOpen(t, u) ==
  TableOpen(t, "users") /\ u \in Shown(t) /\ ~WaitingFor(t, UserRowOps, u)

(* "Deactivate" or "activate": the opposite of what the row shows. *)
ToggleUser(t) == \E u \in Users :
  /\ MenuOpen(t, u)
  /\ Clicked(t, "updateUser", u, [active |-> ~ui[t].rows[u].active], FALSE,
             ui[t].rows[u].active)

PromoteRole(t) == \E u \in Users : \E r \in Roles :
  /\ MenuOpen(t, u)
  /\ r # ui[t].rows[u].role
  /\ Clicked(t, "updateUser", u, [role |-> r], FALSE, ui[t].rows[u].active)

OpenCreateUser(t) == TableOpen(t, "users") /\ OpenDialog(t, Dialog("createUser", NoTarget))

OpenReset(t) == \E u \in Users :
  TableOpen(t, "users") /\ u \in Shown(t) /\ OpenDialog(t, Dialog("reset", u))

(* CreateUserModal. *)
SubmitCreateUser(t) ==
  /\ On(t, "users") /\ ui[t].dialog.kind = "createUser"
  /\ ~DialogWaiting(t)
  /\ \E u \in Users \ Shown(t) :
       Clicked(t, "createUser", u, [role |-> "user", active |-> TRUE, must |-> FALSE],
               TRUE, TRUE)

(* ResetPasswordModal. *)
SubmitReset(t) ==
  /\ On(t, "users") /\ ui[t].dialog.kind = "reset"
  /\ ~DialogWaiting(t)
  /\ Clicked(t, "reset", ui[t].dialog.target, [must |-> TRUE], TRUE, TRUE)

-----------------------------------------------------------------------------
(* ProjectsTable *)
(* Editing and toggling are offered to administrators only. *)
ProjectMenu(t, p) == TableOpen(t, "projects") /\ p \in Shown(t) /\ ui[t].admin

ToggleProject(t) == \E p \in Projects :
  /\ ProjectMenu(t, p) /\ ~WaitingFor(t, {"updateProject"}, p)
  /\ Clicked(t, "updateProject", p, [active |-> ~ui[t].rows[p].active], FALSE,
             ui[t].rows[p].active)

OpenCreateProject(t) ==
  TableOpen(t, "projects") /\ ui[t].admin /\ OpenDialog(t, Dialog("createProject", NoTarget))

OpenEditProject(t) == \E p \in Projects :
  ProjectMenu(t, p) /\ OpenDialog(t, Dialog("editProject", p))

(* CreateProjectModal: an id of the right form. *)
SubmitCreateProject(t) ==
  /\ On(t, "projects") /\ ui[t].dialog.kind = "createProject"
  /\ ~DialogWaiting(t)
  /\ \E p \in Projects \ Shown(t) : \E x \in Texts :
       Clicked(t, "createProject", p, [text |-> x, active |-> TRUE], TRUE, TRUE)

(* EditProjectModal: the whole text, edited or as it was shown. *)
SubmitEditProject(t) ==
  /\ On(t, "projects") /\ ui[t].dialog.kind = "editProject"
  /\ ~DialogWaiting(t)
  /\ \E x \in Texts :
       Clicked(t, "updateProject", ui[t].dialog.target, [text |-> x], TRUE, TRUE)

-----------------------------------------------------------------------------
(* MembersPanel *)
(* AddMemberModal offers the users who are not shown as active members. *)
OpenAddMember(t) ==
  TableOpen(t, "members") /\ ui[t].admin /\ OpenDialog(t, Dialog("addMember", NoTarget))

SubmitAddMember(t) ==
  /\ On(t, "members") /\ ui[t].dialog.kind = "addMember"
  /\ ~DialogWaiting(t)
  /\ \E m \in Members \ Shown(t) : \E r \in MemberRoles :
       Clicked(t, "addMember", m, [role |-> r, active |-> TRUE], TRUE, TRUE)

RowWaiting(t, m) == WaitingFor(t, {"updateRole", "removeMember"}, m)

(* MemberRow: the selection of the role, for administrators. *)
ChangeRole(t) == \E m \in Members : \E r \in MemberRoles :
  /\ TableOpen(t, "members") /\ ui[t].admin
  /\ m \in Shown(t) /\ ~RowWaiting(t, m)
  /\ r # ui[t].rows[m].role
  /\ Clicked(t, "updateRole", m, [role |-> r], FALSE, TRUE)

(* The button "remove" is there for everybody who sees the row. *)
OpenRemove(t) == \E m \in Members :
  /\ TableOpen(t, "members") /\ m \in Shown(t) /\ ~RowWaiting(t, m)
  /\ OpenDialog(t, Dialog("remove", m))

SubmitRemove(t) ==
  LET m == ui[t].dialog.target IN
  /\ On(t, "members") /\ ui[t].dialog.kind = "remove"
  /\ ~RowWaiting(t, m)
  /\ Clicked(t, "removeMember", m, [active |-> FALSE], TRUE, TRUE)

-----------------------------------------------------------------------------
DialogKind(op) ==
  CASE op = "updateProject" -> "editProject"
    [] op = "removeMember" -> "remove"
    [] OTHER -> op

PageOps == AdminOps \ {"adminCreateKey", "adminRevokeKey"}

(* Mutant: onClose stands in a finally. *)
FormDoneFinally(t) ==
  /\ Settles(t, PageOps) /\ calls[t][1].form
  /\ Continue(t, page[t], CloseDialog(t, DialogKind(req[t].op)))
  /\ UNCHANGED cookie

(* The form of a dialog: refresh and close, or the message. The closures of  *)
(* a dialog cancelled meanwhile still run, and close the one of their kind *)
(* that is open. Removing a member has no catch.                           *)
FormDone(t) ==
  /\ Settles(t, PageOps) /\ calls[t][1].form
  /\ IF req[t].ok THEN Continue(t, page[t], CloseDialog(t, DialogKind(req[t].op)))
     ELSE Continue(t, "nowhere",
            IF req[t].op = "removeMember" THEN Broken(t) ELSE Message(t))
  /\ UNCHANGED cookie

(* A button or a selection in a row: refresh; there is no catch. *)
RowDone(t) ==
  /\ Settles(t, PageOps) /\ ~calls[t][1].form
  /\ IF req[t].ok THEN Continue(t, page[t], ui[t])
     ELSE Continue(t, "nowhere", Broken(t))
  /\ UNCHANGED cookie

AdminPagesNext(t) ==
  \/ FilterTable(t)
  \/ ToggleUser(t) \/ PromoteRole(t) \/ OpenCreateUser(t) \/ OpenReset(t)
  \/ SubmitCreateUser(t) \/ SubmitReset(t)
  \/ ToggleProject(t) \/ OpenCreateProject(t) \/ OpenEditProject(t)
  \/ SubmitCreateProject(t) \/ SubmitEditProject(t)
  \/ OpenAddMember(t) \/ SubmitAddMember(t) \/ ChangeRole(t)
  \/ OpenRemove(t) \/ SubmitRemove(t)

AdminPagesDone(t) == FormDone(t) \/ RowDone(t)
=============================================================================
