---------------------------- MODULE ConsoleProofs ----------------------------
(***************************************************************************)
(* Proofs about Console, for any tabs, browsers, accounts and situations:  *)
(* its types, the audit log, the redirects, and the switches of the        *)
(* administration.                                                         *)
(*                                                                         *)
(* TInv adds to TypeOK what a call and a request look like, by their       *)
(* operation, and what a request has found out about its row.              *)
(***************************************************************************)
EXTENDS Console, TLAPS

-----------------------------------------------------------------------------
(* What the pages send: by the operation, the row and the columns. *)
OfUsers == {"login", "password", "createUser", "updateUser", "reset"}
OfProjects == {"createProject", "updateProject"}
OfMembers == {"addMember", "updateRole", "removeMember"}
OfKeys == {"createKey", "adminCreateKey"} \cup Revokes
Updates == {"updateUser", "updateProject", "updateRole", "removeMember"} \cup Revokes

AsksOf(op) ==
  CASE op \in {"login", "logout"} -> {<<>>}
    [] op \in Sweeps -> [must : BOOLEAN]
    [] op = "createUser" -> UserRow
    [] op = "createProject" -> ProjectRow
    [] op = "addMember" -> MemberRow
    [] op \in {"createKey", "adminCreateKey"} -> KeyRow
    [] op = "updateUser" -> [active : BOOLEAN] \cup [role : Roles]
    [] op = "updateProject" -> [active : BOOLEAN] \cup [text : Texts]
    [] op = "updateRole" -> [role : MemberRoles]
    [] op = "removeMember" -> [active : {FALSE}]
    [] op \in Revokes -> [revoked : {TRUE}]
Ops == OfUsers \cup OfProjects \cup OfMembers \cup OfKeys \cup {"logout"}

(* A button that switches something asks for the opposite of what it shows. *)
CallOK(c) ==
  /\ c.op \in Ops
  /\ c.op \in OfUsers => c.target \in Users
  /\ c.op \in OfProjects => c.target \in Projects
  /\ c.op \in OfMembers => c.target \in Members
  /\ c.op \in OfKeys => c.target \in Keys
  /\ c.op = "password" => c.target \in {Person[b] : b \in Browsers}
  /\ c.asks \in AsksOf(c.op)
  /\ (c.op \in {"updateUser", "updateProject"} /\ "active" \in DOMAIN c.asks) =>
       c.asks.active = ~c.saw

Calls == {c \in [op : Ops, target : Ids \cup {NoTarget}, asks : UNION {AsksOf(op) : op \in Ops},
                 form : BOOLEAN, modal : BOOLEAN, here : BOOLEAN, saw : BOOLEAN] : CallOK(c)}

(* A request has all its fields; before it writes, it knows whether its row *)
(* was there.                                                              *)
Fields == {"op", "caller", "target", "asks", "saw", "at", "seen", "after",
           "swept", "ok", "did"}

RequestOK(q) ==
  /\ DOMAIN q = Fields
  /\ CallOK(q) /\ q.saw \in BOOLEAN
  /\ q.swept \subseteq Keys
  /\ q.at = "swept" => q.op \in Sweeps
  /\ q.at \in {"loaded", "swept"} =>
       /\ q.op \notin {"login", "logout"}
       /\ q.op \in Inserts => q.seen = NoRow
       /\ q.op \in Updates => q.seen # NoRow
       /\ q.op \in Sweeps => row[q.target] # NoRow
       /\ q.seen # NoRow => row[q.target] # NoRow

(* A dialog is about a row of its page's table. *)
DialogOK(d) ==
  /\ d.kind = "reset" => d.target \in Users
  /\ d.kind = "editProject" => d.target \in Projects
  /\ d.kind = "remove" => d.target \in Members

ScreenOK(x) ==
  /\ DOMAIN x = {"rows", "admin", "dialog", "failed", "revealed"}
  /\ DOMAIN x.rows \subseteq Ids
  /\ \A i \in (Users \cup Projects) \cap DOMAIN x.rows : x.rows[i].active \in BOOLEAN
  /\ DialogOK(x.dialog)
  /\ x.revealed \in Keys \cup {NoTarget}

-----------------------------------------------------------------------------
Tables ==
  /\ DOMAIN row = Ids /\ DOMAIN had = Ids
  /\ \A u \in Users : row[u] \in UserRow \cup {NoRow}
  /\ \A p \in Projects : row[p] \in ProjectRow \cup {NoRow}
  /\ \A m \in Members : row[m] \in MemberRow \cup {NoRow}
  /\ \A k \in Keys : row[k] \in KeyRow \cup {NoRow, Deleted}
  /\ \A i \in Ids : row[i] \in had[i] \cup {NoRow, Deleted}
  /\ \A b \in Browsers : row[Person[b]] # NoRow
  /\ faults \in Nat
  /\ posting \subseteq Users \cup Projects

Screens ==
  /\ tour \in Tours /\ clicks \in 0..tour.clicks
  /\ cookie \in [Browsers -> Users \cup {NoUser}]
  /\ page \in [Tabs -> Pages]
  /\ going \in [Tabs -> Pages \cup {"nowhere"}]
  /\ DOMAIN ui = Tabs
  /\ \A t \in Tabs : ScreenOK(ui[t])

Requests ==
  /\ DOMAIN req = Tabs
  /\ \A t \in Tabs : req[t] # NoRequest =>
       RequestOK(req[t]) /\ calls[t] # <<>> /\ req[t].op = calls[t][1].op

TInv == Tables /\ Screens /\ calls \in [Tabs -> Seq(Calls)] /\ Requests

(* NoRequest is no record with a field "at". *)
(* (TLC cannot evaluate this for a model value: the theorems that need it   *)
(* have it as a hypothesis.)                                               *)
Apart == "at" \notin DOMAIN NoRequest

LEMMA TInvTypeOK == TInv => TypeOK
<1> SUFFICES ASSUME TInv PROVE TypeOK
  OBVIOUS
<1>1. ServerTypeOK
  BY IdsAssumption DEF TInv, Tables, ServerTypeOK, Ids
<1>2. QED
  BY <1>1 DEF TInv, Screens, Requests, ScreenOK, TypeOK

LEMMA InitTInv == Init => TInv
<1> SUFFICES ASSUME Init PROVE TInv
  OBVIOUS
<1>1. Tables
  BY ToursAssumption DEF Init, TabsInit, Tables
<1>2. Screens
  BY ToursAssumption DEF Init, TabsInit, Screens, ScreenOK, DialogOK, Blank, Opened,
     Closed, Pages, AppPages
<1>3. calls \in [Tabs -> Seq(Calls)] /\ Requests
  BY DEF Init, TabsInit, Requests
<1>4. QED
  BY <1>1, <1>2, <1>3 DEF TInv

-----------------------------------------------------------------------------
(* Steps of the pages.  A click appends a call. *)
LEMMA ClickTInv ==
  ASSUME TInv, NEW t \in Tabs, NEW op, NEW i, NEW asks, NEW modal \in BOOLEAN,
         NEW saw \in BOOLEAN, Clicked(t, op, i, asks, modal, saw),
         op \in Ops, i \in Ids \cup {NoTarget},
         CallOK([op |-> op, target |-> i, asks |-> asks, saw |-> saw])
  PROVE  TInv'
<1> DEFINE c == [op |-> op, target |-> i, asks |-> asks, form |-> modal,
                 modal |-> modal, here |-> TRUE, saw |-> saw]
<1>1. c \in Calls
  BY DEF Calls, CallOK
<1> HIDE DEF c
<1>2. calls' = [calls EXCEPT ![t] = Append(@, c)] /\ calls[t] \in Seq(Calls)
  BY DEF Clicked, Call, TInv, c
<1>3. calls' \in [Tabs -> Seq(Calls)]
  BY <1>1, <1>2 DEF TInv
<1>4. Requests'
  <2>1. UNCHANGED <<row, req>>
    BY DEF Clicked, serverVars, postVars
  <2>2. \A u \in Tabs : calls[u] # <<>> =>
          calls'[u] # <<>> /\ calls'[u][1] = calls[u][1]
    BY <1>1, <1>2 DEF TInv
  <2>3. QED
    BY <2>1, <2>2 DEF TInv, Requests, RequestOK
<1>5. Tables'
  BY DEF TInv, Tables, Clicked, serverVars, postVars
<1>6. Screens'
  BY ToursAssumption DEF TInv, Screens, Clicked, Call
<1>7. QED
  BY <1>3, <1>4, <1>5, <1>6 DEF TInv

(* A step that only changes screens and where they go. *)
LEMMA ScreensTInv ==
  ASSUME TInv, UNCHANGED serverVars, Screens', calls' = calls
  PROVE  TInv'
<1>1. Tables' /\ Requests'
  BY DEF TInv, Tables, Requests, RequestOK, serverVars, postVars
<1>2. QED
  BY <1>1 DEF TInv

LEMMA OpenDialogTInv ==
  ASSUME TInv, NEW t \in Tabs, NEW d, OpenDialog(t, d), DialogOK(d)
  PROVE  TInv'
<1>1. Screens'
  BY DEF TInv, Screens, ScreenOK, OpenDialog
<1>2. QED
  BY <1>1, ScreensTInv DEF OpenDialog

(* A step that changes what the calls of one tab are to the screen. *)
LEMMA CallsTInv ==
  ASSUME TInv, NEW t \in Tabs, NEW s \in Seq(Calls),
         UNCHANGED serverVars, Screens', calls' = [calls EXCEPT ![t] = s],
         calls[t] # <<>> => s # <<>> /\ s[1].op = calls[t][1].op
  PROVE  TInv'
<1>1. Tables'
  BY DEF TInv, Tables, serverVars, postVars
<1>2. Requests'
  BY DEF TInv, Requests, RequestOK, serverVars, postVars
<1>3. QED
  BY <1>1, <1>2 DEF TInv

(* Calls that lose their dialog or their page are the same calls. *)
LEMMA CloseCalls ==
  ASSUME TInv, NEW t \in Tabs, NEW s,
         \/ s = [n \in DOMAIN calls[t] |-> [calls[t][n] EXCEPT !.modal = FALSE]]
         \/ s = Leave(t)
  PROVE  /\ s \in Seq(Calls)
         /\ calls[t] # <<>> => s # <<>> /\ s[1].op = calls[t][1].op
<1>1. calls[t] \in Seq(Calls)
  BY DEF TInv
<1>2. DOMAIN s = 1..Len(calls[t]) /\ Len(calls[t]) \in Nat
  <2>1. DOMAIN s = DOMAIN calls[t]
    BY DEF Leave
  <2>2. QED
    BY <1>1, <2>1
<1>3. \A n \in DOMAIN s : s[n] \in Calls /\ s[n].op = calls[t][n].op
  <2> SUFFICES ASSUME NEW n \in DOMAIN s PROVE s[n] \in Calls /\ s[n].op = calls[t][n].op
    OBVIOUS
  <2>1. calls[t][n] \in Calls
    BY <1>1, <1>2
  <2>2. \/ s[n] = [calls[t][n] EXCEPT !.modal = FALSE]
        \/ s[n] = [calls[t][n] EXCEPT !.here = FALSE, !.modal = FALSE]
    BY <1>2 DEF Leave
  <2>3. QED
    BY <2>1, <2>2 DEF Calls, CallOK
<1>4. s \in Seq(Calls)
  <2>1. s \in [1..Len(calls[t]) -> Calls]
    BY <1>2, <1>3 DEF Leave
  <2>2. QED
    BY <1>2, <2>1
<1>5. ASSUME calls[t] # <<>> PROVE s # <<>> /\ s[1].op = calls[t][1].op
  <2>1. 1 \in DOMAIN s
    BY <1>1, <1>2, <1>5
  <2>2. QED
    BY <1>3, <2>1
<1>6. QED
  BY <1>4, <1>5

LEMMA CancelTInv ==
  ASSUME TInv, NEW t \in Tabs, Cancel(t)
  PROVE  TInv'
<1>1. Screens'
  BY DEF TInv, Screens, ScreenOK, DialogOK, Cancel, Closed
<1>2. QED
  BY <1>1, CallsTInv, CloseCalls DEF Cancel

LEMMA FollowTInv ==
  ASSUME TInv, NEW t \in Tabs, NEW p \in AppPages, Follow(t, p)
  PROVE  TInv'
<1> DEFINE s == SubSeq(calls[t], 1, IF calls[t] = <<>> THEN 0 ELSE 1)
<1>1. Screens'
  BY DEF TInv, Screens, Follow, Pages
<1>2. s \in Seq(Calls) /\ (calls[t] # <<>> => s # <<>> /\ s[1] = calls[t][1])
  <2>1. calls[t] \in Seq(Calls)
    BY DEF TInv
  <2>2. CASE calls[t] = <<>>
    BY <2>1, <2>2
  <2>3. CASE calls[t] # <<>>
    BY <2>1, <2>3
  <2>4. QED
    BY <2>2, <2>3
<1>3. calls' = [calls EXCEPT ![t] = s]
  BY DEF Follow
<1> HIDE DEF s
<1>4. QED
  BY <1>1, <1>2, <1>3, CallsTInv DEF Follow

LEMMA RowsOfType ==
  ASSUME Tables, NEW p \in Pages, NEW u
  PROVE  /\ DOMAIN RowsOf(p, u) \subseteq Ids
         /\ \A i \in (Users \cup Projects) \cap DOMAIN RowsOf(p, u) :
              RowsOf(p, u)[i].active \in BOOLEAN
<1>1. DOMAIN RowsOf(p, u) \subseteq Ids
  BY DEF RowsOf, Ids, KeysOf
<1>2. ASSUME NEW i \in (Users \cup Projects) \cap DOMAIN RowsOf(p, u)
      PROVE  RowsOf(p, u)[i].active \in BOOLEAN
  <2>1. RowsOf(p, u)[i] = row[i]
    BY <1>2 DEF RowsOf
  <2>2. IsRow(row[i])
    BY <1>2, IdsAssumption DEF RowsOf, KeysOf, Active
  <2>3. QED
    BY <1>2, <2>1, <2>2 DEF Tables, IsRow, UserRow, ProjectRow
<1>3. QED
  BY <1>1, <1>2

LEMMA ArriveTInv ==
  ASSUME TInv, NEW t \in Tabs, Arrive(t)
  PROVE  TInv'
<1> DEFINE p == going[t]
           u == Viewer(t)
<1>1. p \in Pages /\ Redirect(p, u) \in Pages
  BY DEF Arrive, TInv, Screens, Redirect, Pages, AppPages
<1>2. CASE Redirect(p, u) # p
  <2>1. Screens'
    BY <1>1, <1>2 DEF Arrive, TInv, Screens
  <2>2. QED
    BY <1>2, <2>1, ScreensTInv DEF Arrive
<1>3. CASE Redirect(p, u) = p
  <2>1. /\ DOMAIN RowsOf(p, u) \subseteq Ids
        /\ \A i \in (Users \cup Projects) \cap DOMAIN RowsOf(p, u) :
             RowsOf(p, u)[i].active \in BOOLEAN
    BY <1>1, RowsOfType DEF TInv
  <2>2. ScreenOK(Opened(RowsOf(p, u), IsAdmin(u))) /\ ScreenOK([Blank EXCEPT !.failed = "page"])
    BY <2>1 DEF ScreenOK, Opened, Blank, Closed, DialogOK
  <2>3. page[t] = p => ScreenOK(Refreshed(t, u))
    BY <1>1, <2>1 DEF ScreenOK, Refreshed, Closed, DialogOK, TInv, Screens
  <2>4. Screens'
    BY <1>1, <1>3, <2>2, <2>3 DEF Arrive, TInv, Screens
  <2>5. QED
    BY <1>3, <2>4, ScreensTInv, CallsTInv, CloseCalls DEF Arrive
<1>4. QED
  BY <1>2, <1>3

(* A button that switches an account or a project. *)
LEMMA ToggleTInv ==
  ASSUME TInv, NEW t \in Tabs, NEW op, NEW i, NEW saw \in BOOLEAN,
         \/ op = "updateUser" /\ i \in Users
         \/ op = "updateProject" /\ i \in Projects,
         Clicked(t, op, i, [active |-> ~saw], FALSE, saw)
  PROVE  TInv'
<1> DEFINE asks == [active |-> ~saw]
<1>1. asks \in [active : BOOLEAN] /\ asks.active = ~saw
  OBVIOUS
<1>2. Clicked(t, op, i, asks, FALSE, saw)
  OBVIOUS
<1> HIDE DEF asks
<1>3. CallOK([op |-> op, target |-> i, asks |-> asks, saw |-> saw])
  BY <1>1 DEF CallOK, AsksOf, Ops, OfUsers, OfProjects, OfMembers, OfKeys, Revokes, Sweeps
<1>4. op \in Ops /\ i \in Ids \cup {NoTarget}
  BY DEF Ops, OfUsers, OfProjects, Ids
<1>5. QED
  BY <1>2, <1>3, <1>4, ClickTInv

(* What the buttons of the pages send. *)
LEMMA ButtonsTInv ==
  ASSUME TInv, NEW t \in Tabs, AccountPagesNext(t) \/ AdminPagesNext(t)
  PROVE  TInv'
<1> USE DEF CallOK, AsksOf, Ops, OfUsers, OfProjects, OfMembers, OfKeys, Revokes,
            Sweeps, Ids
<1>1. Person[Browser(t)] \in Users /\ Browser(t) \in Browsers
  BY ToursAssumption DEF TInv, Screens, Browser
<1>2. ScreenOK(ui[t])
  BY DEF TInv, Screens
<1>3. CASE SubmitLogin(t)
  BY <1>1, <1>3, ClickTInv DEF SubmitLogin
<1>4. CASE SubmitPassword(t)
  BY <1>1, <1>4, ClickTInv DEF SubmitPassword
<1>5. CASE Logout(t)
  BY <1>5, ClickTInv DEF Logout
<1>6. CASE SubmitCreateKey(t)
  BY <1>1, <1>6, ClickTInv DEF SubmitCreateKey, CreateOp, Fresh, KeyRow
<1>7. CASE SubmitRevoke(t)
  BY <1>7, ClickTInv DEF SubmitRevoke, RevokeOp
<1>8. CASE OpenCreateKey(t) \/ OpenCreateUser(t) \/ OpenReset(t) \/ OpenCreateProject(t)
             \/ OpenEditProject(t) \/ OpenAddMember(t) \/ OpenRemove(t)
  BY <1>8, OpenDialogTInv DEF OpenCreateKey, OpenCreateUser, OpenReset, OpenCreateProject,
     OpenEditProject, OpenAddMember, OpenRemove, Dialog, DialogOK
<1>9. CASE CloseReveal(t)
  <2>1. Screens'
    BY <1>9 DEF CloseReveal, TInv, Screens, ScreenOK
  <2>2. QED
    BY <1>9, <2>1, ScreensTInv DEF CloseReveal
<1>10. CASE FilterKeys(t) \/ FilterTable(t)
  <2>1. Screens'
    BY <1>10 DEF FilterKeys, FilterTable, TInv, Screens
  <2>2. QED
    BY <1>10, <2>1, ScreensTInv DEF FilterKeys, FilterTable
<1>11. CASE ToggleUser(t)
  <2>1. PICK u \in Users :
          /\ MenuOpen(t, u)
          /\ Clicked(t, "updateUser", u, [active |-> ~ui[t].rows[u].active], FALSE,
                     ui[t].rows[u].active)
    BY <1>11 DEF ToggleUser
  <2>2. ui[t].rows[u].active \in BOOLEAN
    BY <1>2, <2>1 DEF MenuOpen, Shown, ScreenOK
  <2>3. QED
    BY <2>1, <2>2, ToggleTInv
<1>12. CASE PromoteRole(t)
  <2>1. PICK u \in Users, r \in Roles :
          /\ MenuOpen(t, u)
          /\ Clicked(t, "updateUser", u, [role |-> r], FALSE, ui[t].rows[u].active)
    BY <1>12 DEF PromoteRole
  <2>2. ui[t].rows[u].active \in BOOLEAN
    BY <1>2, <2>1 DEF MenuOpen, Shown, ScreenOK
  <2> DEFINE saw == ui[t].rows[u].active
  <2> HIDE DEF saw
  <2>3. Clicked(t, "updateUser", u, [role |-> r], FALSE, saw) /\ saw \in BOOLEAN
    BY <2>1, <2>2 DEF saw
  <2>4. QED
    BY <2>3, ClickTInv
<1>13. CASE SubmitCreateUser(t)
  BY <1>13, ClickTInv DEF SubmitCreateUser, UserRow, Roles
<1>14. CASE SubmitReset(t)
  BY <1>2, <1>14, ClickTInv DEF SubmitReset, ScreenOK, DialogOK
<1>15. CASE ToggleProject(t)
  <2>1. PICK p \in Projects :
          /\ ProjectMenu(t, p)
          /\ Clicked(t, "updateProject", p, [active |-> ~ui[t].rows[p].active], FALSE,
                     ui[t].rows[p].active)
    BY <1>15 DEF ToggleProject
  <2>2. ui[t].rows[p].active \in BOOLEAN
    BY <1>2, <2>1 DEF ProjectMenu, Shown, ScreenOK
  <2>3. QED
    BY <2>1, <2>2, ToggleTInv
<1>16. CASE SubmitCreateProject(t)
  BY <1>16, ClickTInv DEF SubmitCreateProject, ProjectRow
<1>17. CASE SubmitEditProject(t)
  BY <1>2, <1>17, ClickTInv DEF SubmitEditProject, ScreenOK, DialogOK
<1>18. CASE SubmitAddMember(t)
  BY <1>18, ClickTInv DEF SubmitAddMember, MemberRow
<1>19. CASE ChangeRole(t)
  BY <1>19, ClickTInv DEF ChangeRole
<1>20. CASE SubmitRemove(t)
  BY <1>2, <1>20, ClickTInv DEF SubmitRemove, ScreenOK, DialogOK
<1>21. QED
  BY <1>3, <1>4, <1>5, <1>6, <1>7, <1>8, <1>9, <1>10, <1>11, <1>12, <1>13, <1>14, <1>15,
     <1>16, <1>17, <1>18, <1>19, <1>20 DEF AccountPagesNext, AdminPagesNext

-----------------------------------------------------------------------------
(* The code after the `await' of a server action. *)
LEMMA ContinueTInv ==
  ASSUME TInv, NEW t \in Tabs, NEW to \in Pages \cup {"nowhere"}, NEW next,
         ScreenOK(next), req[t] # NoRequest, Continue(t, to, next),
         cookie' \in [Browsers -> Users \cup {NoUser}]
  PROVE  TInv'
<1>1. calls' \in [Tabs -> Seq(Calls)]
  <2>1. calls[t] \in Seq(Calls) /\ calls[t] # <<>>
    BY DEF TInv, Requests
  <2>2. Tail(calls[t]) \in Seq(Calls)
    BY <2>1
  <2>3. QED
    BY <2>2 DEF Continue, TInv
<1>2. Requests'
  BY DEF Continue, TInv, Requests, RequestOK
<1>3. Tables'
  BY DEF Continue, TInv, Tables, postVars
<1>4. Screens'
  BY DEF Continue, TInv, Screens
<1>5. QED
  BY <1>1, <1>2, <1>3, <1>4 DEF TInv

LEMMA SettlesTInv ==
  ASSUME TInv, NEW t \in Tabs, AccountPagesDone(t) \/ AdminPagesDone(t)
  PROVE  TInv'
<1>1. page[t] \in Pages /\ cookie \in [Browsers -> Users \cup {NoUser}]
  BY DEF TInv, Screens
<1>2. ScreenOK(ui[t])
  BY DEF TInv, Screens
<1>3. ScreenOK(Message(t)) /\ ScreenOK(Broken(t))
  BY <1>2 DEF ScreenOK, Message, Broken, Closed, DialogOK
<1>4. \A kind : ScreenOK(CloseDialog(t, kind))
  BY <1>2 DEF ScreenOK, CloseDialog, Closed, DialogOK
<1>5. ASSUME req[t] # NoRequest PROVE RequestOK(req[t]) /\ req[t].op = calls[t][1].op
  BY <1>5 DEF TInv, Requests
<1>6. CASE LoginDone(t)
  <2>1. req[t] # NoRequest /\ req[t].target \in Users
    BY <1>5, <1>6 DEF LoginDone, Settles, At, RequestOK, CallOK, OfUsers
  <2>2. cookie' \in [Browsers -> Users \cup {NoUser}]
    BY <1>1, <1>6, <2>1 DEF LoginDone
  <2>3. QED
    BY <1>2, <1>3, <1>6, <2>1, <2>2, ContinueTInv DEF LoginDone, Pages, AppPages
<1>7. CASE PasswordDone(t)
  BY <1>1, <1>2, <1>3, <1>7, ContinueTInv
     DEF PasswordDone, Settles, At, Pages, AppPages
<1>8. CASE LogoutDone(t)
  <2>1. cookie' \in [Browsers -> Users \cup {NoUser}]
    BY <1>1, <1>8 DEF LogoutDone
  <2>2. QED
    BY <1>2, <1>8, <2>1, ContinueTInv DEF LogoutDone, Settles, At, Pages
<1>9. CASE CreateKeyDone(t)
  <2> DEFINE shown == [CloseDialog(t, "createKey") EXCEPT !.revealed = req[t].target]
  <2>1. req[t] # NoRequest /\ req[t].target \in Keys
    BY <1>5, <1>9 DEF CreateKeyDone, Settles, At, RequestOK, CallOK, OfKeys
  <2>2. ScreenOK(shown)
    BY <1>4, <2>1 DEF ScreenOK
  <2> HIDE DEF shown
  <2>3. \/ Continue(t, page[t], shown) \/ Continue(t, "nowhere", Message(t))
    BY <1>9 DEF CreateKeyDone, shown
  <2>4. QED
    BY <1>1, <1>3, <1>9, <2>1, <2>2, <2>3, ContinueTInv DEF CreateKeyDone
<1>10. CASE RevokeDone(t)
  <2> DEFINE rows == [i \in DOMAIN ui[t].rows |->
                        IF i = req[t].target THEN [ui[t].rows[i] EXCEPT !.revoked = TRUE]
                        ELSE ui[t].rows[i]]
             marked == [ui[t] EXCEPT !.rows = rows]
  <2>1. req[t] # NoRequest /\ req[t].target \in Keys
    BY <1>5, <1>10 DEF RevokeDone, Settles, At, RequestOK, CallOK, OfKeys
  <2>2. ScreenOK(marked)
    BY <1>2, <2>1, IdsAssumption DEF ScreenOK
  <2>3. \/ Continue(t, page[t], marked) \/ Continue(t, "nowhere", Broken(t))
    BY <1>2, <1>10 DEF RevokeDone, ScreenOK
  <2> HIDE DEF marked
  <2>4. QED
    BY <1>1, <1>3, <1>10, <2>1, <2>2, <2>3, ContinueTInv DEF RevokeDone
<1>11. CASE FormDone(t)
  BY <1>1, <1>3, <1>4, <1>11, ContinueTInv DEF FormDone, Settles, At
<1>12. CASE RowDone(t)
  BY <1>1, <1>2, <1>3, <1>12, ContinueTInv DEF RowDone, Settles, At
<1>13. QED
  BY <1>6, <1>7, <1>8, <1>9, <1>10, <1>11, <1>12 DEF AccountPagesDone, AdminPagesDone

-----------------------------------------------------------------------------
(* Steps of the backend: one request moves on, and no row disappears. *)
LEMMA RequestTInv ==
  ASSUME TInv, NEW t \in Tabs, UNCHANGED tabVars, req[t] # NoRequest,
         Tables', \A i \in Ids : row[i] # NoRow => row'[i] # NoRow,
         DOMAIN req' = Tabs, \A u \in Tabs \ {t} : req'[u] = req[u],
         RequestOK(req[t])', req'[t].op = req[t].op
  PROVE  TInv'
<1>1. \A u \in Tabs \ {t} : req[u] # NoRequest => RequestOK(req[u])'
  <2> SUFFICES ASSUME NEW u \in Tabs \ {t}, req[u] # NoRequest PROVE RequestOK(req[u])'
    OBVIOUS
  <2>1. RequestOK(req[u]) /\ req'[u] = req[u]
    BY DEF TInv, Requests
  <2>2. req[u].op \notin {"login", "logout"} => req[u].target \in Ids
    BY <2>1 DEF RequestOK, CallOK, Ops, OfUsers, OfProjects, OfMembers, OfKeys, Revokes, Ids
  <2>3. CallOK(req[u])'
    BY <2>1 DEF RequestOK, CallOK
  <2>4. QED
    BY <2>1, <2>2, <2>3 DEF RequestOK, Sweeps
<1>2. Requests'
  BY <1>1 DEF TInv, Requests, tabVars
<1>3. Screens'
  BY DEF TInv, Screens, tabVars
<1>4. QED
  BY <1>2, <1>3 DEF TInv, tabVars

(* The fields that say what a request is do not change on the way. *)
LEMMA SameCall ==
  ASSUME NEW q, NEW r, CallOK(q), r.op = q.op, r.target = q.target, r.asks = q.asks,
         r.saw = q.saw
  PROVE  CallOK(r)
BY DEF CallOK

LEMMA SendTInv ==
  ASSUME TInv, NEW t \in Tabs, Send(t)
  PROVE  TInv'
<1> DEFINE who == IF calls[t][1].op = "login" THEN calls[t][1].target ELSE Viewer(t)
           q == Request(calls[t][1], who)
<1>1. calls[t][1] \in Calls
  BY DEF Send, TInv
<1>2. RequestOK(q)
  <2>1. CallOK(calls[t][1])
    BY <1>1 DEF Calls
  <2>2. CallOK(q)
    BY <2>1, SameCall DEF Request
  <2>3. QED
    BY <1>1, <2>2 DEF RequestOK, Request, Fields, Calls
<1>3. req' = [req EXCEPT ![t] = q] /\ q.op = calls[t][1].op
  BY DEF Send, Request
<1> HIDE DEF q
<1>4. Requests'
  <2> SUFFICES ASSUME NEW u \in Tabs, req'[u] # NoRequest
               PROVE  (RequestOK(req[u]) /\ calls[u] # <<>> /\ req[u].op = calls[u][1].op)'
    BY <1>3 DEF Requests, TInv
  <2>1. CASE u = t
    BY <1>2, <1>3, <2>1 DEF Send, TInv, Requests, RequestOK, CallOK, tabVars
  <2>2. CASE u # t
    BY <1>3, <2>2 DEF Send, TInv, Requests, RequestOK, CallOK, tabVars
  <2>3. QED
    BY <2>1, <2>2
<1>5. Tables' /\ Screens'
  BY DEF Send, TInv, Tables, Screens, postVars, tabVars
<1>6. QED
  BY <1>4, <1>5 DEF Send, TInv, tabVars

LEMMA AnswerTInv ==
  ASSUME TInv, NEW t \in Tabs, NEW ok, req[t] # NoRequest, Answer(t, ok),
         UNCHANGED <<row, had, postVars, tabVars>>, faults' \in Nat
  PROVE  TInv'
<1>1. RequestOK(req[t])
  BY DEF TInv, Requests
<1>2. req'[t] = [req[t] EXCEPT !.at = "done", !.ok = ok]
  BY DEF Answer, TInv, Requests
<1>3. RequestOK(req[t])' /\ req'[t].op = req[t].op
  <2>1. CallOK(req'[t])
    BY <1>1, <1>2, SameCall DEF RequestOK, Fields
  <2>2. CallOK(req[t])'
    BY <2>1 DEF CallOK
  <2>3. QED
    BY <1>1, <1>2, <2>2 DEF RequestOK, Fields
<1>4. Tables'
  BY DEF TInv, Tables, postVars
<1>5. QED
  BY <1>3, <1>4, RequestTInv DEF Answer, TInv, Requests

(* What Load finds out about the row. *)
LEMMA LoadTInv ==
  ASSUME TInv, NEW t \in Tabs, Load(t), UNCHANGED <<postVars, tabVars>>
  PROVE  TInv'
<1> DEFINE q == req[t]
           r == req'[t]
<1>1. RequestOK(q) /\ q # NoRequest /\ Accepted(q)
  BY DEF TInv, Requests, Load, At
<1>2. /\ r.op = q.op /\ r.target = q.target /\ r.asks = q.asks /\ r.saw = q.saw
      /\ r.swept = q.swept /\ DOMAIN r = Fields
      /\ r.at = IF q.op \in {"login", "logout"} THEN "done" ELSE "loaded"
      /\ r.seen = IF q.op \in Inserts \cup {"logout"} THEN NoRow ELSE row[q.target]
  BY <1>1 DEF Load, TInv, Requests, RequestOK, Fields
<1>3. q.op \in Updates => row[q.target] # NoRow
  BY <1>1 DEF Accepted, Updates, Revokes, Found, Active, Revocable, IsRow
<1>4. q.op \in Sweeps => row[q.target] # NoRow
  <2>1. CASE q.op = "reset"
    BY <1>1, <2>1 DEF Accepted, Found, IsRow, Revokes
  <2>2. CASE q.op = "password"
    BY <1>1, <2>2 DEF RequestOK, CallOK, TInv, Tables
  <2>3. QED
    BY <2>1, <2>2 DEF Sweeps
<1>5. CallOK(r)
  BY <1>1, <1>2, SameCall DEF RequestOK
<1>6. RequestOK(req[t])'
  <2>1. CallOK(req[t])'
    BY <1>5 DEF CallOK
  <2>2. r.at \in {"loaded", "swept"} =>
          /\ r.op \notin {"login", "logout"}
          /\ r.op \in Inserts => r.seen = NoRow
          /\ r.op \in Updates => r.seen # NoRow
          /\ r.op \in Sweeps => row[r.target] # NoRow
          /\ r.seen # NoRow => row[r.target] # NoRow
    BY <1>2, <1>3, <1>4 DEF Inserts, Updates, Revokes
  <2>3. r.at # "swept" /\ r.saw \in BOOLEAN /\ r.swept \subseteq Keys
    BY <1>1, <1>2 DEF RequestOK
  <2>4. QED
    BY <1>2, <2>1, <2>2, <2>3 DEF RequestOK, Load
<1>7. Tables'
  BY DEF TInv, Tables, Load, postVars
<1>8. QED
  BY <1>1, <1>2, <1>6, <1>7, RequestTInv DEF Load, TInv, Requests

(* The types of the rows of each table. *)
RowOK(i, r) ==
  /\ i \in Users => r \in UserRow
  /\ i \in Projects => r \in ProjectRow
  /\ i \in Members => r \in MemberRow
  /\ i \in Keys => r \in KeyRow

LEMMA StoreTables ==
  ASSUME Tables, NEW i \in Ids, NEW new, RowOK(i, new), Store(i, new), faults' = faults,
         posting' \subseteq posting
  PROVE  Tables' /\ \A j \in Ids : row[j] # NoRow => row'[j] # NoRow
<1>1. new # NoRow
  BY ToursAssumption DEF RowOK, Ids
<1>2. \A j \in Ids : row'[j] = IF j = i THEN new ELSE row[j]
  BY DEF Store, Tables
<1>3. \A j \in Ids : row'[j] \in had'[j] \cup {NoRow, Deleted}
  BY <1>2 DEF Store, Tables
<1>4. \A b \in Browsers : row'[Person[b]] # NoRow
  BY <1>1, <1>2, ToursAssumption DEF Tables, Ids
<1>5. /\ \A u \in Users : row'[u] \in UserRow \cup {NoRow}
      /\ \A p \in Projects : row'[p] \in ProjectRow \cup {NoRow}
      /\ \A m \in Members : row'[m] \in MemberRow \cup {NoRow}
      /\ \A k \in Keys : row'[k] \in KeyRow \cup {NoRow, Deleted}
  BY <1>2 DEF Tables, RowOK, Ids
<1>6. QED
  BY <1>1, <1>2, <1>3, <1>4, <1>5 DEF Tables, Store

(* An UPDATE keeps the columns of the row, and their types. *)
LEMMA WrittenOK ==
  ASSUME Tables, NEW q, CallOK(q), q.op \in Updates \cup {"addMember"},
         row[q.target] # NoRow, row[q.target] # Deleted
  PROVE  RowOK(q.target, Written(q, row[q.target])) /\ q.target \in Ids
<1> DEFINE now == row[q.target]
           new == Written(q, now)
<1> USE DEF Written
<1>1. CASE q.op = "updateUser"
  <2>1. q.target \in Users /\ now \in UserRow
    BY <1>1 DEF CallOK, OfUsers, Tables
  <2>2. q.asks \in [active : BOOLEAN] \cup [role : Roles]
    BY <1>1 DEF CallOK, AsksOf, Sweeps, Revokes
  <2>3. new \in UserRow
    BY <2>1, <2>2 DEF UserRow
  <2>4. QED
    BY <2>1, <2>3, IdsAssumption DEF RowOK, Ids
<1>2. CASE q.op = "updateProject"
  <2>1. q.target \in Projects /\ now \in ProjectRow
    BY <1>2 DEF CallOK, OfProjects, Tables
  <2>2. q.asks \in [active : BOOLEAN] \cup [text : Texts]
    BY <1>2 DEF CallOK, AsksOf, Sweeps, Revokes
  <2>3. new \in ProjectRow
    BY <2>1, <2>2 DEF ProjectRow
  <2>4. QED
    BY <2>1, <2>3, IdsAssumption DEF RowOK, Ids
<1>3. CASE q.op \in OfMembers
  <2>1. q.target \in Members /\ now \in MemberRow
    BY <1>3 DEF CallOK, OfMembers, Tables
  <2>2. q.asks \in MemberRow \cup [role : MemberRoles] \cup [active : {FALSE}]
    BY <1>3 DEF CallOK, AsksOf, Sweeps, Revokes, OfMembers
  <2>3. new \in MemberRow
    BY <2>1, <2>2 DEF MemberRow
  <2>4. QED
    BY <2>1, <2>3, IdsAssumption DEF RowOK, Ids
<1>4. CASE q.op \in Revokes
  <2>1. q.target \in Keys /\ now \in KeyRow
    BY <1>4 DEF CallOK, OfKeys, Tables
  <2>2. q.asks \in [revoked : {TRUE}]
    BY <1>4 DEF CallOK, AsksOf, Sweeps, Revokes
  <2>3. new \in KeyRow
    BY <2>1, <2>2 DEF KeyRow
  <2>4. QED
    BY <2>1, <2>3, IdsAssumption DEF RowOK, Ids
<1>5. QED
  BY <1>1, <1>2, <1>3, <1>4 DEF Updates, OfMembers

LEMMA InsertedOK ==
  ASSUME NEW q, CallOK(q), q.op \in Inserts \cup {"addMember"}
  PROVE  RowOK(q.target, q.asks) /\ q.target \in Ids
<1>1. \/ q.target \in Users /\ q.asks \in UserRow
      \/ q.target \in Projects /\ q.asks \in ProjectRow
      \/ q.target \in Members /\ q.asks \in MemberRow
      \/ q.target \in Keys /\ q.asks \in KeyRow
  BY DEF CallOK, AsksOf, Inserts, Sweeps, Revokes, OfUsers, OfProjects, OfMembers, OfKeys
<1>2. QED
  BY <1>1, IdsAssumption DEF RowOK, Ids

LEMMA CommittedTInv ==
  ASSUME TInv, NEW t \in Tabs, NEW new, req[t] # NoRequest, Committed(t, new),
         UNCHANGED tabVars,
         Tables', \A i \in Ids : row[i] # NoRow => row'[i] # NoRow
  PROVE  TInv'
<1> DEFINE r == req'[t]
<1>1. RequestOK(req[t])
  BY DEF TInv, Requests
<1>2. /\ r.op = req[t].op /\ r.target = req[t].target /\ r.asks = req[t].asks
      /\ r.saw = req[t].saw /\ r.swept = req[t].swept /\ DOMAIN r = Fields
      /\ r.at \in {"changed", "done"}
  BY <1>1 DEF Committed, TInv, Requests, RequestOK, Fields
<1>3. CallOK(r)
  BY <1>1, <1>2, SameCall DEF RequestOK
<1>4. RequestOK(req[t])'
  <2>1. CallOK(req[t])'
    BY <1>3 DEF CallOK
  <2>2. QED
    BY <1>1, <1>2, <2>1 DEF RequestOK
<1>5. QED
  BY <1>2, <1>4, RequestTInv DEF Committed, TInv, Requests

LEMMA InsertTInv ==
  ASSUME TInv, NEW t \in Tabs, Insert(t), UNCHANGED <<postVars, tabVars>>
  PROVE  TInv'
<1>1. RequestOK(req[t]) /\ req[t] # NoRequest
  BY DEF TInv, Requests, Insert, At
<1>2. CASE IsRow(row[req[t].target])
  BY <1>1, <1>2, AnswerTInv DEF Insert, TInv, Tables
<1>3. CASE ~IsRow(row[req[t].target])
  <2>1. req[t].op \in Inserts \cup {"addMember"}
    BY <1>1 DEF Insert, At, RequestOK, CallOK, Ops, OfUsers, OfProjects, OfMembers, OfKeys,
       Updates, Inserts, Sweeps
  <2>2. RowOK(req[t].target, req[t].asks) /\ req[t].target \in Ids
    BY <1>1, <2>1, InsertedOK DEF RequestOK
  <2>3. Tables' /\ \A i \in Ids : row[i] # NoRow => row'[i] # NoRow
    BY <1>3, <2>2, StoreTables DEF Insert, TInv, postVars
  <2>4. QED
    BY <1>1, <1>3, <2>3, CommittedTInv DEF Insert
<1>4. QED
  BY <1>2, <1>3

LEMMA UpdateTInv ==
  ASSUME TInv, NEW t \in Tabs, Update(t), UNCHANGED <<postVars, tabVars>>
  PROVE  TInv'
<1> DEFINE new == Written(req[t], row[req[t].target])
<1>1. RequestOK(req[t]) /\ req[t] # NoRequest
  BY DEF TInv, Requests, Update, At
<1>2. CASE row[req[t].target] = Deleted
  BY <1>1, <1>2, AnswerTInv DEF Update, TInv, Tables
<1>3. CASE row[req[t].target] # Deleted
  <2>1. req[t].op \in Updates \cup {"addMember"} /\ row[req[t].target] # NoRow
    BY <1>1 DEF Update, At, RequestOK, CallOK, Ops, OfUsers, OfProjects, OfMembers, OfKeys,
       Updates, Inserts, Sweeps
  <2>2. RowOK(req[t].target, new) /\ req[t].target \in Ids
    BY <1>1, <1>3, <2>1, WrittenOK DEF RequestOK, TInv
  <2>3. Store(req[t].target, new) /\ Committed(t, new) /\ faults' = faults
    BY <1>3 DEF Update
  <2> HIDE DEF new
  <2>4. Tables' /\ \A i \in Ids : row[i] # NoRow => row'[i] # NoRow
    BY <2>2, <2>3, StoreTables DEF TInv, postVars
  <2>5. QED
    BY <1>1, <2>3, <2>4, CommittedTInv
<1>4. QED
  BY <1>2, <1>3

LEMMA SweepTInv ==
  ASSUME TInv, NEW t \in Tabs, Sweep(t), UNCHANGED <<postVars, tabVars>>
  PROVE  TInv'
<1> DEFINE r == req'[t]
<1>1. RequestOK(req[t]) /\ req[t] # NoRequest /\ req[t].at = "loaded"
  BY DEF TInv, Requests, Sweep, At
<1>2. /\ r.op = req[t].op /\ r.target = req[t].target /\ r.asks = req[t].asks
      /\ r.saw = req[t].saw /\ r.seen = req[t].seen /\ DOMAIN r = Fields
      /\ r.at = "swept" /\ r.swept = KeysOf(req[t].target)
  BY <1>1 DEF Sweep, TInv, Requests, RequestOK, Fields
<1>3. CallOK(r)
  BY <1>1, <1>2, SameCall DEF RequestOK
<1>4. RequestOK(req[t])'
  <2>1. CallOK(req[t])'
    BY <1>3 DEF CallOK
  <2>2. QED
    BY <1>1, <1>2, <2>1 DEF RequestOK, KeysOf, Sweep
<1>5. Tables'
  BY DEF TInv, Tables, Sweep, postVars
<1>6. QED
  BY <1>1, <1>2, <1>4, <1>5, RequestTInv DEF Sweep, TInv, Requests

LEMMA CommitPasswordTInv ==
  ASSUME TInv, NEW t \in Tabs, CommitPassword(t), UNCHANGED <<postVars, tabVars>>
  PROVE  TInv'
<1> DEFINE u == req[t].target
           new == Written(req[t], row[u])
<1>1. RequestOK(req[t]) /\ req[t] # NoRequest /\ req[t].at = "swept"
  BY DEF TInv, Requests, CommitPassword, At
<1>2. req[t].op \in Sweeps /\ row[u] # NoRow
  BY <1>1 DEF RequestOK, CommitPassword
<1>3. u \in Users /\ req[t].asks \in [must : BOOLEAN] /\ req[t].swept \subseteq Keys
  BY <1>1, <1>2 DEF RequestOK, CallOK, OfUsers, AsksOf, Sweeps, Revokes
<1>4. new \in UserRow /\ new # NoRow
  <2>1. row[u] \in UserRow
    BY <1>2, <1>3 DEF TInv, Tables
  <2>2. new \in UserRow
    BY <1>3, <2>1 DEF UserRow, Written
  <2>3. QED
    BY <2>2, ToursAssumption
<1>5. /\ row' = [i \in Ids |-> IF i = u THEN new
                               ELSE IF i \in req[t].swept THEN Deleted ELSE row[i]]
      /\ had' = [had EXCEPT ![u] = @ \cup {new}] /\ faults' = faults
  BY DEF CommitPassword
<1> HIDE DEF new
<1>6. \A i \in Ids : row[i] # NoRow => row'[i] # NoRow
  BY <1>4, <1>5, ToursAssumption
<1>7. Tables'
  <2>1. /\ DOMAIN row' = Ids /\ DOMAIN had' = Ids /\ faults' \in Nat
        /\ posting' \subseteq Users \cup Projects
    BY <1>5 DEF TInv, Tables, postVars
  <2>2. /\ \A v \in Users : row'[v] \in UserRow \cup {NoRow}
        /\ \A p \in Projects : row'[p] \in ProjectRow \cup {NoRow}
        /\ \A m \in Members : row'[m] \in MemberRow \cup {NoRow}
        /\ \A k \in Keys : row'[k] \in KeyRow \cup {NoRow, Deleted}
    BY <1>3, <1>4, <1>5, IdsAssumption DEF TInv, Tables, Ids
  <2>3. \A i \in Ids : row'[i] \in had'[i] \cup {NoRow, Deleted}
    BY <1>5 DEF TInv, Tables
  <2>4. \A b \in Browsers : row'[Person[b]] # NoRow
    BY <1>6, ToursAssumption DEF TInv, Tables, Ids
  <2>5. QED
    BY <2>1, <2>2, <2>3, <2>4 DEF Tables
<1>8. QED
  BY <1>1, <1>6, <1>7, CommittedTInv DEF CommitPassword

(* The pages call server actions and navigate, they touch no table. *)
LEMMA PagesKeep ==
  ASSUME NEW t \in Tabs,
         AccountPagesNext(t) \/ AdminPagesNext(t) \/ Cancel(t) \/ Arrive(t)
           \/ \E p \in AppPages : Follow(t, p)
  PROVE  UNCHANGED serverVars
<1>1. CASE AccountPagesNext(t)
  BY <1>1 DEF AccountPagesNext, SubmitLogin, SubmitPassword, Logout, OpenCreateKey,
     SubmitCreateKey, CloseReveal, SubmitRevoke, FilterKeys, Clicked, OpenDialog
<1>2. CASE AdminPagesNext(t)
  BY <1>2 DEF AdminPagesNext, FilterTable, ToggleUser, PromoteRole, OpenCreateUser,
     OpenReset, SubmitCreateUser, SubmitReset, ToggleProject, OpenCreateProject,
     OpenEditProject, SubmitCreateProject, SubmitEditProject, OpenAddMember,
     SubmitAddMember, ChangeRole, OpenRemove, SubmitRemove, Clicked, OpenDialog
<1>3. CASE Cancel(t) \/ Arrive(t) \/ \E p \in AppPages : Follow(t, p)
  BY <1>3 DEF Cancel, Arrive, Follow
<1>4. QED
  BY <1>1, <1>2, <1>3

(* The code after the `await' of a server action ends its request. *)
LEMMA PagesSettle ==
  ASSUME NEW t \in Tabs, AccountPagesDone(t) \/ AdminPagesDone(t)
  PROVE  /\ UNCHANGED <<row, had, audit, faults, postVars>>
         /\ req' = [req EXCEPT ![t] = NoRequest]
<1>1. CASE AccountPagesDone(t)
  BY <1>1 DEF AccountPagesDone, LoginDone, PasswordDone, LogoutDone, CreateKeyDone,
     RevokeDone, Continue
<1>2. CASE AdminPagesDone(t)
  BY <1>2 DEF AdminPagesDone, FormDone, RowDone, Continue
<1>3. QED
  BY <1>1, <1>2

(* A row that a POST outside the administration creates. *)
LEMMA CreatedOK ==
  ASSUME NEW i \in Users \cup Projects, NEW new \in Created(i)
  PROVE  RowOK(i, new)
<1>1. CASE i \in Users
  <2>1. new \in UserRow
    BY <1>1 DEF Created, UserRow
  <2>2. QED
    BY <1>1, <2>1, IdsAssumption DEF RowOK
<1>2. CASE i \notin Users
  <2>1. new \in ProjectRow
    BY <1>2 DEF Created, ProjectRow
  <2>2. QED
    BY <1>2, <2>1, IdsAssumption DEF RowOK
<1>3. QED
  BY <1>1, <1>2

LEMMA PostTInv ==
  ASSUME TInv, NEW i \in tour.posts, Post(i), UNCHANGED tabVars
  PROVE  TInv'
<1>1. i \in Users \cup Projects
  BY ToursAssumption DEF TInv, Screens
<1>2. Tables' /\ \A j \in Ids : row[j] # NoRow => row'[j] # NoRow
  <2>1. CASE PostCheck(i)
    BY <1>1, <2>1 DEF PostCheck, TInv, Tables
  <2>2. CASE PostInsert(i) /\ IsRow(row[i])
    BY <2>2 DEF PostInsert, TInv, Tables
  <2>3. CASE PostInsert(i) /\ ~IsRow(row[i])
    <3>1. PICK new \in Created(i) : Store(i, new)
      BY <2>3 DEF PostInsert
    <3>2. RowOK(i, new) /\ i \in Ids
      BY <1>1, CreatedOK DEF Ids
    <3>3. QED
      BY <2>3, <3>1, <3>2, StoreTables DEF PostInsert, TInv
  <2>4. QED
    BY <2>1, <2>2, <2>3 DEF Post
<1>3. req' = req
  BY DEF Post, PostCheck, PostInsert
<1>4. Requests'
  <2> SUFFICES ASSUME NEW u \in Tabs, req[u] # NoRequest
               PROVE  RequestOK(req[u])' /\ calls[u] # <<>> /\ req[u].op = calls[u][1].op
    BY <1>3 DEF Requests, TInv, tabVars
  <2>1. RequestOK(req[u]) /\ calls[u] # <<>> /\ req[u].op = calls[u][1].op
    BY DEF TInv, Requests
  <2>2. req[u].op \notin {"login", "logout"} => req[u].target \in Ids
    BY <2>1 DEF RequestOK, CallOK, Ops, OfUsers, OfProjects, OfMembers, OfKeys, Revokes, Ids
  <2>3. CallOK(req[u])'
    BY <1>3, <2>1 DEF RequestOK, CallOK
  <2>4. QED
    BY <1>2, <1>3, <2>1, <2>2, <2>3 DEF RequestOK, Sweeps
<1>5. Screens'
  BY DEF TInv, Screens, tabVars
<1>6. QED
  BY <1>2, <1>4, <1>5 DEF TInv, tabVars

LEMMA NextTInv == TInv /\ [Next]_vars => TInv'
<1> SUFFICES ASSUME TInv, [Next]_vars PROVE TInv'
  OBVIOUS
<1>1. CASE UNCHANGED vars
  BY <1>1 DEF vars, serverVars, postVars, tabVars, TInv, Tables, Screens, Requests, RequestOK, CallOK
<1>2. ASSUME NEW t \in Tabs, Serve(t), UNCHANGED <<postVars, tabVars>>
      PROVE  TInv'
  <2>1. CASE Refuse(t)
    BY <1>2, <2>1, AnswerTInv DEF Refuse, At, TInv, Tables
  <2>2. CASE Audit(t)
    BY <1>2, <2>2, AnswerTInv DEF Audit, At, TInv, Tables
  <2>3. QED
    BY <1>2, <2>1, <2>2, LoadTInv, InsertTInv, UpdateTInv, SweepTInv, CommitPasswordTInv
       DEF Serve
<1>3. ASSUME NEW t \in Tabs, Lose(t), UNCHANGED tabVars
      PROVE  TInv'
  <2>1. faults' \in Nat
    BY <1>3 DEF Lose, TInv, Tables
  <2>2. QED
    BY <1>3, <2>1, AnswerTInv DEF Lose
<1>4. ASSUME NEW t \in Tabs, TabNext(t)
      PROVE  TInv'
  BY <1>2, <1>3, <1>4, ButtonsTInv, SettlesTInv, CancelTInv, ArriveTInv, SendTInv, FollowTInv
     DEF TabNext, Serve
<1>5. QED
  BY <1>1, <1>4, PostTInv DEF Next

(* Every table, page, call and request has its type: for any tabs, accounts *)
(* and situations.                                                         *)
THEOREM ConsoleTypes == Spec => []TypeOK
<1>1. Spec => []TInv
  BY InitTInv, NextTInv, PTL DEF Spec
<1>2. QED
  BY <1>1, TInvTypeOK, PTL

-----------------------------------------------------------------------------
(* The audit log *)

(* Between its two commits, an admin route holds a row that was committed. *)
Holds(t) ==
  (At(t, "changed") /\ req[t].target \in Users \cup Projects /\ req[t].after # NoRow)
    => req[t].after \in had[req[t].target]

AInv == AuditTellsCommitted /\ \A t \in Tabs : Holds(t)

(* A step that changes nothing but the request of one tab and adds to `had'. *)
LEMMA OneRequest ==
  ASSUME AInv, NEW t \in Tabs, \A i \in Ids : had[i] \subseteq had'[i], audit' = audit,
         \A u \in Tabs \ {t} : req'[u] = req[u], Holds(t)'
  PROVE  AInv'
<1>1. AuditTellsCommitted'
  BY DEF AInv, AuditTellsCommitted, Ids
<1>2. \A u \in Tabs \ {t} : Holds(u)'
  BY DEF AInv, Holds, At, Ids
<1>3. QED
  BY <1>1, <1>2 DEF AInv

LEMMA AnswerAInv ==
  ASSUME TInv, AInv, NEW t \in Tabs, NEW ok, req[t] # NoRequest, Answer(t, ok),
         UNCHANGED <<had, audit>>
  PROVE  AInv'
<1>1. req'[t] = [req[t] EXCEPT !.at = "done", !.ok = ok]
  BY DEF Answer, TInv, Requests
<1>2. ~At(t, "changed")'
  BY <1>1 DEF At, TInv, Requests, RequestOK, Fields
<1>3. QED
  BY <1>2, OneRequest DEF Answer, Holds, TInv, Requests

(* The first commit of a request, which leaves its row in `had'. *)
LEMMA CommittedAInv ==
  ASSUME TInv, AInv, NEW t \in Tabs, NEW new, req[t] # NoRequest, Committed(t, new),
         \A i \in Ids : had[i] \subseteq had'[i], UNCHANGED audit,
         new = NoRow \/ (req[t].target \in Ids => new \in had'[req[t].target])
  PROVE  AInv'
<1>1. /\ req'[t].at # "changed" \/ req'[t].after = Snapshot(req[t], new)
      /\ req'[t].target = req[t].target
  BY DEF Committed, TInv, Requests, RequestOK, Fields
<1>2. Holds(t)'
  BY <1>1, IdsAssumption DEF Holds, At, Snapshot, Ids
<1>3. QED
  BY <1>2, OneRequest DEF Committed, TInv, Requests

LEMMA ServeAInv ==
  ASSUME TInv, AInv, NEW t \in Tabs, Serve(t)
  PROVE  AInv'
<1> USE DEF TInv, Requests, RequestOK, Tables
<1>1. CASE Load(t)
  <2>1. req'[t].at \in {"loaded", "done"}
    BY <1>1 DEF Load, At, Fields
  <2>2. QED
    BY <1>1, <2>1, OneRequest DEF Load, Holds, At
<1>2. CASE Refuse(t)
  BY <1>2, AnswerAInv DEF Refuse, At
<1>3. CASE Insert(t)
  <2>1. CASE IsRow(row[req[t].target])
    BY <1>3, <2>1, AnswerAInv DEF Insert, At
  <2>2. CASE ~IsRow(row[req[t].target])
    <3>1. /\ \A i \in Ids : had[i] \subseteq had'[i]
          /\ req[t].target \in Ids => req[t].asks \in had'[req[t].target]
      <4>1. had' = [had EXCEPT ![req[t].target] = @ \cup {req[t].asks}]
        BY <1>3, <2>2 DEF Insert, Store
      <4>2. QED
        BY <4>1
    <3>2. QED
      BY <1>3, <2>2, <3>1, CommittedAInv DEF Insert, At
  <2>3. QED
    BY <2>1, <2>2
<1>4. CASE Update(t)
  <2> DEFINE new == Written(req[t], row[req[t].target])
  <2>1. CASE row[req[t].target] = Deleted
    BY <1>4, <2>1, AnswerAInv DEF Update, At
  <2>2. CASE row[req[t].target] # Deleted
    <3> HIDE DEF new
    <3>1. /\ Store(req[t].target, new) /\ Committed(t, new)
          /\ UNCHANGED audit /\ req[t] # NoRequest
      BY <1>4, <2>2 DEF Update, At, new
    <3>2. /\ \A i \in Ids : had[i] \subseteq had'[i]
          /\ req[t].target \in Ids => new \in had'[req[t].target]
      BY <3>1 DEF Store
    <3>3. QED
      BY <3>1, <3>2, CommittedAInv
  <2>3. QED
    BY <2>1, <2>2
<1>5. CASE Sweep(t)
  <2>1. req'[t].at = "swept"
    BY <1>5 DEF Sweep, At, Fields
  <2>2. QED
    BY <1>5, <2>1, OneRequest DEF Sweep, Holds, At
<1>6. CASE CommitPassword(t)
  <2>1. \A i \in Ids : had[i] \subseteq had'[i]
    BY <1>6 DEF CommitPassword
  <2>2. QED
    BY <1>6, <2>1, CommittedAInv DEF CommitPassword, At
<1>7. CASE Audit(t)
  <2>1. AuditTellsCommitted'
    BY <1>7 DEF Audit, AInv, AuditTellsCommitted, Holds
  <2>2. \A u \in Tabs : Holds(u)'
    <3>1. req'[t] = [req[t] EXCEPT !.at = "done", !.ok = TRUE]
      BY <1>7 DEF Audit, Answer
    <3>2. ~At(t, "changed")'
      BY <1>7, <3>1 DEF Audit, At, Fields
    <3>3. QED
      BY <1>7, <3>2 DEF Audit, Answer, AInv, Holds, At
  <2>3. QED
    BY <2>1, <2>2 DEF AInv
<1>8. QED
  BY <1>1, <1>2, <1>3, <1>4, <1>5, <1>6, <1>7 DEF Serve

LEMMA NextAInv == TInv /\ AInv /\ [Next]_vars => AInv'
<1> SUFFICES ASSUME TInv, AInv, [Next]_vars PROVE AInv'
  OBVIOUS
<1>1. CASE UNCHANGED vars
  BY <1>1 DEF vars, serverVars, postVars, AInv, AuditTellsCommitted, Holds, At
<1>2. ASSUME NEW t \in Tabs,
             AccountPagesNext(t) \/ AdminPagesNext(t) \/ Cancel(t) \/ Arrive(t)
               \/ \E p \in AppPages : Follow(t, p)
      PROVE  AInv'
  BY <1>2, PagesKeep DEF serverVars, postVars, AInv, AuditTellsCommitted, Holds, At
<1>3. ASSUME NEW t \in Tabs, AccountPagesDone(t) \/ AdminPagesDone(t)
      PROVE  AInv'
  BY <1>3, PagesSettle, OneRequest DEF TInv, Requests, Holds, At
<1>4. ASSUME NEW t \in Tabs, Send(t)
      PROVE  AInv'
  <2>1. req'[t].at = "sent"
    BY <1>4 DEF Send, Request, TInv, Requests
  <2>2. QED
    BY <1>4, <2>1, OneRequest DEF Send, Holds, At
<1>5. ASSUME NEW t \in Tabs, Serve(t)
      PROVE  AInv'
  BY <1>5, ServeAInv
<1>6. ASSUME NEW t \in Tabs, Lose(t)
      PROVE  AInv'
  BY <1>6, AnswerAInv DEF Lose
<1>7. ASSUME NEW i \in tour.posts, Post(i)
      PROVE  AInv'
  <2>1. UNCHANGED <<audit, req>>
    BY <1>7 DEF Post, PostCheck, PostInsert
  <2>2. \A j \in Ids : had[j] \subseteq had'[j]
    BY <1>7 DEF Post, PostCheck, PostInsert, Store, TInv, Tables
  <2>3. QED
    BY <2>1, <2>2 DEF AInv, AuditTellsCommitted, Holds, At, Ids
<1>8. QED
  BY <1>1, <1>2, <1>3, <1>4, <1>5, <1>6, <1>7 DEF Next, TabNext

(* The after-snapshot of an audit row of a user or a project is a state    *)
(* the row has really been in, whatever other requests change and whatever *)
(* is lost (admin_users.py:116-131).                                       *)
THEOREM AuditIsTrue == Spec => []AuditTellsCommitted
<1>1. Init => TInv /\ AInv
  BY InitTInv DEF Init, TabsInit, AInv, AuditTellsCommitted, Holds, At
<1>2. TInv /\ AInv /\ [Next]_vars => TInv' /\ AInv'
  BY NextTInv, NextAInv
<1>3. AInv => AuditTellsCommitted
  BY DEF AInv
<1>4. QED
  BY <1>1, <1>2, <1>3, PTL DEF Spec

-----------------------------------------------------------------------------
(* The audit log misses nothing *)

(* Every row is told of by the log, or will be by a request on its way, or  *)
(* is as a POST outside the administration created it.                     *)
AccountedFor(i, r) ==
  \/ Tells(tour.row[i], r)
  \/ \E a \in audit \cup unlogged : a.target = i /\ Tells(a.after, r)
  \/ \E t \in Tabs : At(t, "changed") /\ req[t].target = i
                    /\ req[t].op # "reset" /\ Tells(req[t].after, r)

MInv ==
  /\ faults <= tour.faults
  /\ faults = tour.faults =>
       \A i \in Users \cup Projects : \A r \in had[i] : AccountedFor(i, r)

(* A step that only adds to the log and to the rows there have been, and    *)
(* leaves no request between its commits without its entry.                *)
LEMMA MoreRows ==
  ASSUME MInv, NEW t \in Tabs, UNCHANGED <<tour, faults, unlogged>>, audit \subseteq audit',
         \A u \in Tabs \ {t} : req'[u] = req[u], ~At(t, "changed"),
         \A i \in Users \cup Projects : \A r \in had'[i] :
           faults = tour.faults => r \in had[i] \/ AccountedFor(i, r)'
  PROVE  MInv'
<1>1. ASSUME NEW i, NEW r, AccountedFor(i, r)
      PROVE  AccountedFor(i, r)'
  BY <1>1 DEF AccountedFor, Tells, At
<1>2. QED
  BY <1>1 DEF MInv

LEMMA SameRows ==
  ASSUME MInv, NEW t \in Tabs, UNCHANGED <<tour, faults, had, audit, unlogged>>,
         \A u \in Tabs \ {t} : req'[u] = req[u], ~At(t, "changed")
  PROVE  MInv'
BY MoreRows

(* The first commit of an audited request. *)
LEMMA CommittedAudited ==
  ASSUME Apart, TInv, MInv, NEW t \in Tabs, NEW new, req[t] # NoRequest, ~At(t, "changed"),
         UNCHANGED <<tour, faults, audit, unlogged>>,
         Committed(t, new), Store(req[t].target, new), RowOK(req[t].target, new),
         req[t].op \notin Sweeps \cup {"login", "logout"}
  PROVE  MInv'
<1> DEFINE q == req[t]
<1>1. RequestOK(q)
  BY DEF TInv, Requests
<1>2. ASSUME NEW i \in Users \cup Projects, NEW r \in had'[i], r \notin had[i]
      PROVE  AccountedFor(i, r)'
  <2>1. i = q.target /\ r = new
    BY <1>2 DEF Store, TInv, Tables, Ids
  <2>2. new # NoRow
    BY <2>1, ToursAssumption DEF RowOK
  <2>3. q.op \in Audited /\ q.op # "reset"
    BY <1>1, <2>1, IdsAssumption DEF RequestOK, CallOK, Ops, OfUsers, OfProjects, OfMembers,
       OfKeys, Revokes, Sweeps, Audited, AdminOps
  <2>4. Snapshot(q, new) = new
    BY <2>1, IdsAssumption DEF Snapshot
  <2>5. /\ req'[t].at = "changed" /\ req'[t].after = new
        /\ req'[t].op = q.op /\ req'[t].target = q.target
    BY <1>1, <2>3, <2>4 DEF Committed, TInv, Requests, RequestOK, Fields
  <2>6. req'[t] # NoRequest
    BY <1>1 DEF Committed, TInv, Requests, RequestOK, Fields, Apart
  <2>7. QED
    BY <2>1, <2>2, <2>3, <2>5, <2>6 DEF AccountedFor, At, Tells
<1>3. \A u \in Tabs \ {t} : req'[u] = req[u]
  BY DEF Committed, TInv, Requests
<1>4. QED
  BY <1>2, <1>3, MoreRows

(* A change of a password is a change of nothing the log tells of. *)
LEMMA PasswordAudited ==
  ASSUME TInv, MInv, NEW t \in Tabs, CommitPassword(t), UNCHANGED <<tour, unlogged>>
  PROVE  MInv'
<1> DEFINE u == req[t].target
           new == Written(req[t], row[u])
<1>1. RequestOK(req[t]) /\ req[t] # NoRequest /\ req[t].at = "swept"
  BY DEF TInv, Requests, CommitPassword, At
<1>2. u \in Users /\ row[u] # NoRow
  BY <1>1 DEF RequestOK, CallOK, OfUsers, Sweeps, CommitPassword
<1>3. row[u] \in UserRow /\ row[u] \in had[u]
  BY <1>2, ToursAssumption DEF TInv, Tables, Ids
<1>4. \A a : Tells(a, row[u]) => Tells(a, new)
  <2>1. req[t].asks \in [must : BOOLEAN]
    BY <1>1 DEF RequestOK, CallOK, AsksOf, Sweeps, Revokes
  <2>2. DOMAIN new = DOMAIN row[u] /\ \A c \in DOMAIN new \ {"must"} : new[c] = row[u][c]
    BY <2>1 DEF Written
  <2>3. QED
    BY <2>2 DEF Tells
<1> HIDE DEF new
<1>5. \A u2 \in Tabs \ {t} : req'[u2] = req[u2]
  BY DEF CommitPassword, Committed, TInv, Requests
<1>6. \A i \in Users \cup Projects : \A r \in had'[i] : r \in had[i] \/ (i = u /\ r = new)
  BY DEF CommitPassword, TInv, Tables, Ids, new
<1>7. ~At(t, "changed")
  BY <1>1 DEF At
<1>8. UNCHANGED <<tour, faults, audit, unlogged>>
  BY DEF CommitPassword
<1>9. ASSUME faults = tour.faults, NEW i, NEW r, i = u, r = new
      PROVE  AccountedFor(i, r)'
  <2>1. AccountedFor(i, row[u])
    BY <1>2, <1>3, <1>9 DEF MInv
  <2>2. AccountedFor(i, r)
    BY <1>4, <1>9, <2>1 DEF AccountedFor
  <2>3. QED
    BY <1>5, <1>7, <1>8, <2>2 DEF AccountedFor, At, Tells
<1>10. QED
  BY <1>5, <1>6, <1>7, <1>8, <1>9, MoreRows

(* The second commit: the log takes over what the request told of. *)
LEMMA AuditAudited ==
  ASSUME TInv, MInv, NEW t \in Tabs, Audit(t), UNCHANGED <<tour, unlogged>>
  PROVE  MInv'
<1> DEFINE q == req[t]
<1>1. RequestOK(q) /\ q # NoRequest
  BY DEF TInv, Requests, Audit, At
<1>2. ASSUME NEW i \in Users \cup Projects, NEW r, AccountedFor(i, r)
      PROVE  AccountedFor(i, r)'
  <2>1. CASE q.target = i /\ q.op # "reset" /\ Tells(q.after, r)
    <3>1. q.op # "removeMember"
      BY <1>1, <2>1, IdsAssumption DEF RequestOK, CallOK, OfMembers
    <3>2. [target |-> q.target, after |-> q.after] \in audit'
      BY <2>1, <3>1 DEF Audit
    <3>3. QED
      BY <2>1, <3>2 DEF AccountedFor, Tells
  <2>2. CASE ~(q.target = i /\ q.op # "reset" /\ Tells(q.after, r))
    <3>1. UNCHANGED <<tour, unlogged>> /\ audit \subseteq audit' /\ \A u \in Tabs \ {t} : req'[u] = req[u]
      BY DEF Audit, Answer, TInv, Requests
    <3>2. QED
      BY <1>2, <2>2, <3>1 DEF AccountedFor, Tells, At
  <2>3. QED
    BY <2>1, <2>2
<1>3. QED
  BY <1>2 DEF MInv, Audit

(* No step but the first chooses the situation. *)
LEMMA TourStays == [Next]_vars => tour' = tour
<1>1. ASSUME NEW t \in Tabs,
             AccountPagesNext(t) \/ Cancel(t) \/ Arrive(t) \/ Send(t)
               \/ \E p \in AppPages : Follow(t, p)
      PROVE  tour' = tour
  BY <1>1 DEF AccountPagesNext, SubmitLogin, SubmitPassword, Logout, OpenCreateKey,
     SubmitCreateKey, CloseReveal, SubmitRevoke, FilterKeys, Clicked, OpenDialog,
     Cancel, Arrive, Send, Follow, tabVars
<1>2. ASSUME NEW t \in Tabs, AdminPagesNext(t)
      PROVE  tour' = tour
  BY <1>2 DEF AdminPagesNext, FilterTable, ToggleUser, PromoteRole, OpenCreateUser,
     OpenReset, SubmitCreateUser, SubmitReset, ToggleProject, OpenCreateProject,
     OpenEditProject, SubmitCreateProject, SubmitEditProject, OpenAddMember,
     SubmitAddMember, ChangeRole, OpenRemove, SubmitRemove, Clicked, OpenDialog
<1>3. ASSUME NEW t \in Tabs, AccountPagesDone(t) \/ AdminPagesDone(t)
      PROVE  tour' = tour
  BY <1>3 DEF AccountPagesDone, LoginDone, PasswordDone, LogoutDone, CreateKeyDone,
     RevokeDone, AdminPagesDone, FormDone, RowDone, Continue
<1>4. QED
  BY <1>1, <1>2, <1>3 DEF Next, TabNext, vars, tabVars

LEMMA ServeMInv ==
  ASSUME Apart, TInv, MInv, NEW t \in Tabs, Serve(t), UNCHANGED tour
  PROVE  MInv'
<1> UNCHANGED unlogged
  BY DEF Serve, postVars
<1>1. CASE Load(t) \/ Refuse(t) \/ Sweep(t)
  BY <1>1, SameRows DEF Load, Refuse, Sweep, Answer, At, TInv, Requests
<1>2. CASE Insert(t)
  <2>1. CASE IsRow(row[req[t].target])
    BY <1>2, <2>1, SameRows DEF Insert, Answer, At, TInv, Requests
  <2>2. CASE ~IsRow(row[req[t].target])
    <3>1. RequestOK(req[t]) /\ req[t] # NoRequest /\ ~At(t, "changed")
      BY <1>2 DEF Insert, At, TInv, Requests
    <3>2. req[t].op \in Inserts \cup {"addMember"}
      BY <1>2, <3>1 DEF Insert, At, RequestOK, CallOK, Ops, OfUsers, OfProjects, OfMembers,
         OfKeys, Updates, Inserts, Sweeps
    <3>3. RowOK(req[t].target, req[t].asks)
      BY <3>1, <3>2, InsertedOK DEF RequestOK
    <3>4. QED
      BY <1>2, <2>2, <3>1, <3>2, <3>3, CommittedAudited DEF Insert, Inserts, Sweeps
  <2>3. QED
    BY <2>1, <2>2
<1>3. CASE Update(t)
  <2> DEFINE new == Written(req[t], row[req[t].target])
  <2>1. CASE row[req[t].target] = Deleted
    BY <1>3, <2>1, SameRows DEF Update, Answer, At, TInv, Requests
  <2>2. CASE row[req[t].target] # Deleted
    <3>1. RequestOK(req[t]) /\ req[t] # NoRequest /\ ~At(t, "changed")
      BY <1>3 DEF Update, At, TInv, Requests
    <3>2. req[t].op \in Updates \cup {"addMember"} /\ row[req[t].target] # NoRow
      BY <1>3, <3>1 DEF Update, At, RequestOK, CallOK, Ops, OfUsers, OfProjects, OfMembers,
         OfKeys, Updates, Inserts, Sweeps
    <3>3. RowOK(req[t].target, new)
      BY <2>2, <3>1, <3>2, WrittenOK DEF RequestOK, TInv
    <3>4. Store(req[t].target, new) /\ Committed(t, new) /\ UNCHANGED <<audit, faults>>
      BY <1>3, <2>2 DEF Update
    <3> HIDE DEF new
    <3>5. req[t].op \notin Sweeps \cup {"login", "logout"}
      BY <3>2 DEF Updates, Sweeps, Revokes
    <3>6. QED
      BY <3>1, <3>3, <3>4, <3>5, CommittedAudited
  <2>3. QED
    BY <2>1, <2>2
<1>4. QED
  BY <1>1, <1>2, <1>3, PasswordAudited, AuditAudited DEF Serve

LEMMA PostMInv ==
  ASSUME TInv, MInv, NEW i \in tour.posts, Post(i), UNCHANGED tour
  PROVE  MInv'
<1>1. UNCHANGED <<audit, req, faults>> /\ unlogged \subseteq unlogged'
  BY DEF Post, PostCheck, PostInsert
<1>2. ASSUME NEW j \in Users \cup Projects, NEW r, AccountedFor(j, r)
      PROVE  AccountedFor(j, r)'
  BY <1>1, <1>2 DEF AccountedFor, Tells, At
<1>3. ASSUME NEW j \in Users \cup Projects, NEW r \in had'[j], r \notin had[j]
      PROVE  AccountedFor(j, r)'
  <2>1. PICK new \in Created(i) :
          Store(i, new) /\ unlogged' = unlogged \cup {[target |-> i, after |-> new]}
    BY <1>3 DEF Post, PostCheck, PostInsert
  <2>2. j = i /\ r = new
    BY <1>3, <2>1 DEF Store, TInv, Tables, Ids
  <2>3. new # NoRow
    BY <1>3, <2>2, CreatedOK, ToursAssumption DEF RowOK
  <2> DEFINE a == [target |-> i, after |-> new]
  <2>4. a \in unlogged' /\ a.target = j /\ a.after = r
    BY <2>1, <2>2
  <2> HIDE DEF a
  <2>5. Tells(a.after, r)
    BY <2>2, <2>3, <2>4 DEF Tells
  <2>6. QED
    BY <2>4, <2>5 DEF AccountedFor, Tells
<1>4. QED
  BY <1>1, <1>2, <1>3 DEF MInv

LEMMA NextMInv ==
  ASSUME Apart, TInv, MInv, [Next]_vars
  PROVE  MInv'
<1> tour' = tour
  BY TourStays
<1>1. ASSUME UNCHANGED serverVars
      PROVE  MInv'
  BY <1>1 DEF serverVars, postVars, MInv, AccountedFor, Tells, At
<1>2. ASSUME NEW t \in Tabs, AccountPagesDone(t) \/ AdminPagesDone(t)
      PROVE  MInv'
  <2>1. At(t, "done")
    BY <1>2 DEF AccountPagesDone, LoginDone, PasswordDone, LogoutDone, CreateKeyDone,
       RevokeDone, AdminPagesDone, FormDone, RowDone, Settles
  <2>2. QED
    BY <1>2, <2>1, PagesSettle, SameRows DEF At, TInv, Requests, postVars
<1>3. ASSUME NEW t \in Tabs, Send(t)
      PROVE  MInv'
  BY <1>3, SameRows DEF Send, At, TInv, Requests, postVars
<1>4. ASSUME NEW t \in Tabs, Lose(t)
      PROVE  MInv'
  <2>1. tour.faults \in Nat /\ faults \in Nat
    BY ToursAssumption DEF TInv, Tables, Screens
  <2>2. faults <= tour.faults /\ faults' = faults - 1
    BY <1>4 DEF Lose, MInv
  <2>3. faults' <= tour.faults /\ faults' # tour.faults
    BY <2>1, <2>2
  <2>4. QED
    BY <2>3 DEF MInv
<1>5. ASSUME NEW t \in Tabs,
             AccountPagesNext(t) \/ AdminPagesNext(t) \/ Cancel(t) \/ Arrive(t)
               \/ \E p \in AppPages : Follow(t, p)
      PROVE  MInv'
  BY <1>1, <1>5, PagesKeep
<1>6. ASSUME NEW t \in Tabs, Serve(t)
      PROVE  MInv'
  BY <1>6, ServeMInv
<1>7. CASE UNCHANGED vars
  BY <1>1, <1>7 DEF vars
<1>8. ASSUME NEW i \in tour.posts, Post(i)
      PROVE  MInv'
  BY <1>8, PostMInv
<1>9. QED
  BY <1>2, <1>3, <1>4, <1>5, <1>6, <1>7, <1>8 DEF Next, TabNext

(* Only a lost request, and POST /auth/users and POST /projects, leave a state   *)
(* of a user or a project, the password apart, without its audit row:      *)
(* however many administrators and scripts write at once, every other      *)
(* change is in the log or between its two commits (admin_users.py:116-131, *)
(* api/auth.py:178-191, api/projects.py:66-78).                            *)
THEOREM AuditIsComplete == ASSUME Apart PROVE Spec => []AuditMissesNothing
<1>1. Init => TInv /\ MInv
  <2>1. ASSUME Init PROVE MInv
    <3>1. faults = tour.faults /\ tour \in Tours
      BY <2>1 DEF Init, TabsInit
    <3>2. \A i \in Ids : \A r \in had[i] : r = tour.row[i] /\ r # NoRow
      BY <2>1 DEF Init, TabsInit
    <3>3. QED
      BY <3>1, <3>2, ToursAssumption DEF MInv, AccountedFor, Tells, Ids
  <2>2. QED
    BY <2>1, InitTInv
<1>2. TInv /\ MInv /\ [Next]_vars => TInv' /\ MInv'
  BY NextTInv, NextMInv
<1>3. MInv => AuditMissesNothing
  BY DEF MInv, AuditMissesNothing, AccountedFor
<1>4. QED
  BY <1>1, <1>2, <1>3, PTL DEF Spec

-----------------------------------------------------------------------------
(* The redirects settle in every state, whoever the viewer is. *)
LEMMA HopsSettle ==
  ASSUME NEW p, NEW u
  PROVE  LET Hop(q) == Redirect(q, u) IN Hop(Hop(Hop(p))) = Hop(Hop(p))
<1>1. ~SignedIn(u) => \A q : Redirect(q, u) = "login"
  BY DEF Redirect
<1>2. SignedIn(u) => Redirect("password", u) = "password"
  BY DEF Redirect
<1>3. SignedIn(u) /\ row[u].must =>
        \A q : Redirect(q, u) \in {"home", "password"} /\ Redirect("home", u) = "password"
  BY DEF Redirect
<1>4. SignedIn(u) /\ ~row[u].must =>
        \A q : Redirect("home", u) = "home" /\ Redirect(q, u) \in {"home", q}
  BY DEF Redirect
<1>5. QED
  BY <1>1, <1>2, <1>3, <1>4

(* Whatever has become of the accounts and of the cookie, a tab that loads *)
(* a page is at a page after two redirects.                                *)
THEOREM RedirectsSettle == Spec => []NavigationSettles
<1>1. NavigationSettles
  BY HopsSettle DEF NavigationSettles
<1>2. QED
  BY <1>1, PTL

-----------------------------------------------------------------------------
(* Membership and switches: what a write to the tables can change. *)

(* A row that is there is changed by an UPDATE of its own columns, or by a  *)
(* password change, which only sets must_change_password of the user and   *)
(* deletes keys.                                                           *)
LEMMA RowChanges ==
  ASSUME TInv, [Next]_vars, NEW i \in Users \cup Projects \cup Members, IsRow(row[i]),
         row'[i].active # row[i].active
  PROVE  \E t \in Tabs :
           /\ Update(t) /\ req[t].target = i
           /\ row'[i] = Written(req[t], row[i]) /\ req'[t] # req[t]
<1>1. row' # row
  OBVIOUS
<1>2. PICK t \in Tabs : Serve(t)
  <2>1. ASSUME NEW t \in Tabs, Send(t) \/ Lose(t) PROVE row' = row
    BY <2>1 DEF Send, Lose
  <2>2. ASSUME NEW j \in tour.posts, Post(j) PROVE row'[i] = row[i]
    <3>1. CASE IsRow(row[j])
      BY <2>2, <3>1 DEF Post, PostCheck, PostInsert
    <3>2. CASE ~IsRow(row[j])
      BY <2>2, <3>2 DEF Post, PostCheck, PostInsert, Store, TInv, Tables, Ids
    <3>3. QED
      BY <3>1, <3>2
  <2>3. QED
    BY <1>1, <2>1, <2>2, PagesKeep, PagesSettle
       DEF Next, TabNext, vars, serverVars, postVars
<1>3. RequestOK(req[t]) /\ req[t] # NoRequest
  BY <1>2 DEF Serve, Load, Refuse, Insert, Update, Sweep, CommitPassword, Audit, At,
     TInv, Requests
<1>4. ~Insert(t)
  <2> SUFFICES ASSUME Insert(t) PROVE FALSE
    OBVIOUS
  <2>1. req[t].target # i
    BY <1>1 DEF Insert
  <2>2. QED
    BY <1>1, <2>1 DEF Insert, Store, TInv, Tables, Ids
<1>5. ~CommitPassword(t)
  <2> SUFFICES ASSUME CommitPassword(t) PROVE FALSE
    OBVIOUS
  <2>1. i \notin req[t].swept
    BY <1>3, IdsAssumption DEF RequestOK
  <2>2. i = req[t].target /\ row'[i] = Written(req[t], row[i])
    BY <2>1 DEF CommitPassword, Ids
  <2>3. "active" \in DOMAIN row[i] /\ "active" \notin DOMAIN req[t].asks
    <3>1. req[t].op \in Sweeps /\ CallOK(req[t])
      BY <1>3 DEF CommitPassword, At, RequestOK
    <3>2. req[t].asks \in [must : BOOLEAN]
      BY <3>1 DEF CallOK, AsksOf, Sweeps, Revokes
    <3>3. "active" \in DOMAIN row[i]
      BY DEF TInv, Tables, IsRow, UserRow, ProjectRow, MemberRow
    <3>4. QED
      BY <3>2, <3>3
  <2>4. QED
    BY <2>2, <2>3 DEF Written
<1>6. Update(t)
  BY <1>1, <1>2, <1>4, <1>5 DEF Serve, Load, Refuse, Sweep, Audit
<1>7. req[t].target = i /\ row[i] # Deleted
  BY <1>1, <1>6 DEF Update, Store, IsRow, TInv, Tables, Ids
<1>8. row'[i] = Written(req[t], row[i]) /\ Committed(t, Written(req[t], row[i]))
  BY <1>6, <1>7 DEF Update, Store, TInv, Tables, Ids
<1>9. req'[t].at # req[t].at
  BY <1>3, <1>6, <1>8 DEF Update, At, Committed, TInv, Requests, RequestOK, Fields
<1>10. QED
  BY <1>6, <1>7, <1>8, <1>9

(* The column an UPDATE changes was asked for, by an operation on that row. *)
LEMMA ActiveAsked ==
  ASSUME TInv, [Next]_vars, NEW i \in Users \cup Projects \cup Members, IsRow(row[i]),
         row'[i].active # row[i].active
  PROVE  \E t \in Tabs :
           /\ req[t] # NoRequest /\ RequestOK(req[t]) /\ req[t].target = i
           /\ req[t].op \in Updates \cup {"addMember"}
           /\ "active" \in DOMAIN req[t].asks /\ row'[i].active = req[t].asks.active
           /\ req'[t] # req[t]
<1>1. PICK t \in Tabs : /\ Update(t) /\ req[t].target = i
                        /\ row'[i] = Written(req[t], row[i]) /\ req'[t] # req[t]
  BY RowChanges
<1>2. RequestOK(req[t]) /\ req[t] # NoRequest /\ req[t].at = "loaded"
  BY <1>1 DEF Update, At, TInv, Requests
<1>3. req[t].op \in Updates \cup {"addMember"}
  BY <1>1, <1>2 DEF Update, RequestOK, CallOK, Ops, OfUsers, OfProjects, OfMembers, OfKeys,
     Updates, Inserts, Sweeps
<1>4. "active" \in DOMAIN row[i]
  BY DEF TInv, Tables, IsRow, UserRow, ProjectRow, MemberRow
<1>5. "active" \in DOMAIN req[t].asks /\ row'[i].active = req[t].asks.active
  BY <1>1, <1>4 DEF Written
<1>6. QED
  BY <1>1, <1>2, <1>3, <1>5

(* Whoever was removed from a project comes back only by being added, for   *)
(* any number of administrators (project_service.py:125-143).              *)
THEOREM RemovedStaysRemoved == Spec => RoleChangeNeverRevives
<1>1. TInv /\ [Next]_vars =>
        [\A m \in Members : (IsRow(row[m]) /\ ~row[m].active /\ row'[m].active) =>
           \E t \in Tabs : req[t] # NoRequest /\ req[t].op = "addMember"
                           /\ req[t].target = m /\ req'[t] # req[t]]_vars
  <2> SUFFICES ASSUME TInv, [Next]_vars, NEW m \in Members, IsRow(row[m]),
                      ~row[m].active, row'[m].active
               PROVE  \E t \in Tabs : req[t] # NoRequest /\ req[t].op = "addMember"
                        /\ req[t].target = m /\ req'[t] # req[t]
    OBVIOUS
  <2>1. PICK t \in Tabs :
          /\ req[t] # NoRequest /\ RequestOK(req[t]) /\ req[t].target = m
          /\ req[t].op \in Updates \cup {"addMember"}
          /\ "active" \in DOMAIN req[t].asks /\ row'[m].active = req[t].asks.active
          /\ req'[t] # req[t]
    <3>1. row'[m].active # row[m].active
      OBVIOUS
    <3>2. QED
      BY <3>1, ActiveAsked
  <2>2. req[t].op \in OfMembers
    BY <2>1, IdsAssumption DEF RequestOK, CallOK, Ops, OfUsers, OfProjects, OfMembers, OfKeys,
       Updates, Revokes
  <2>3. req[t].op # "removeMember" /\ req[t].op # "updateRole"
    <3>1. req[t].op = "removeMember" => req[t].asks \in [active : {FALSE}]
      BY <2>1 DEF RequestOK, CallOK, AsksOf, Sweeps, Revokes
    <3>2. req[t].op = "updateRole" => req[t].asks \in [role : MemberRoles]
      BY <2>1 DEF RequestOK, CallOK, AsksOf, Sweeps, Revokes
    <3>3. req[t].asks.active
      BY <2>1
    <3>4. req[t].op = "removeMember" => req[t].asks.active = FALSE
      BY <3>1
    <3>5. req[t].op = "updateRole" => "active" \notin DOMAIN req[t].asks
      BY <3>2
    <3>6. QED
      BY <2>1, <3>3, <3>4, <3>5
  <2>4. QED
    BY <2>1, <2>2, <2>3 DEF OfMembers
<1>2. QED
  BY <1>1, InitTInv, NextTInv, PTL DEF Spec, RoleChangeNeverRevives

(* An account or a project is switched only in the direction its button     *)
(* said, for any number of administrators (UsersTable.tsx:119-125).        *)
THEOREM SwitchesFollowLabels == Spec => TogglesFollowTheLabel
<1>1. TInv /\ [Next]_vars =>
        [\A i \in Users \cup Projects :
           (IsRow(row[i]) /\ row'[i].active # row[i].active) =>
             \E t \in Tabs : req[t] # NoRequest /\ req[t].target = i
                             /\ req'[t] # req[t] /\ req[t].saw = row[i].active]_vars
  <2> SUFFICES ASSUME TInv, [Next]_vars, NEW i \in Users \cup Projects, IsRow(row[i]),
                      row'[i].active # row[i].active
               PROVE  \E t \in Tabs : req[t] # NoRequest /\ req[t].target = i
                        /\ req'[t] # req[t] /\ req[t].saw = row[i].active
    OBVIOUS
  <2>1. PICK t \in Tabs :
          /\ req[t] # NoRequest /\ RequestOK(req[t]) /\ req[t].target = i
          /\ req[t].op \in Updates \cup {"addMember"}
          /\ "active" \in DOMAIN req[t].asks /\ row'[i].active = req[t].asks.active
          /\ req'[t] # req[t]
    BY ActiveAsked
  <2>2. req[t].op \in {"updateUser", "updateProject"}
    BY <2>1, IdsAssumption DEF RequestOK, CallOK, Ops, OfUsers, OfProjects, OfMembers, OfKeys,
       Updates, Revokes
  <2>3. row'[i].active = ~req[t].saw /\ req[t].saw \in BOOLEAN
    BY <2>1, <2>2 DEF RequestOK, CallOK
  <2>4. row[i].active \in BOOLEAN
    BY DEF TInv, Tables, IsRow, UserRow, ProjectRow
  <2>5. req[t].saw = row[i].active
    BY <2>3, <2>4
  <2>6. QED
    BY <2>1, <2>5
<1>2. QED
  BY <1>1, InitTInv, NextTInv, PTL DEF Spec, TogglesFollowTheLabel
==============================================================================
