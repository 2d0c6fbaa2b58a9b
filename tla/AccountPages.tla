--------------------------- MODULE AccountPages ---------------------------
(***************************************************************************)
(* The pages a person uses for the own account: login, change of password, *)
(* the sidebar, and the panels of API keys (one's own at settings/api-keys,*)
(* all of them at admin/api-keys).                                         *)
(***************************************************************************)
EXTENDS Tabs

(* Ids not yet used by a row or by a call on its way. *)
Fresh(ids) == {i \in ids : row[i] = NoRow /\
  \A t \in Tabs : \A n \in DOMAIN calls[t] : calls[t][n].target # i}

-----------------------------------------------------------------------------
(* LoginForm: one submission at a time. *)
SubmitLogin(t) ==
  /\ On(t, "login") /\ going[t] = "nowhere"
  /\ ~Waiting(t, {"login"})
  /\ Clicked(t, "login", Person[Browser(t)], <<>>, FALSE, TRUE)

(* The cookie comes with the answer; then router.push and router.refresh. *)
LoginDone(t) ==
  LET u == req[t].target IN
  /\ Settles(t, {"login"})
  /\ IF req[t].ok
     THEN /\ cookie' = [cookie EXCEPT ![Browser(t)] = u]
          /\ Continue(t, IF req[t].seen.must THEN "password" ELSE "home", ui[t])
     ELSE Continue(t, "nowhere", Message(t)) /\ UNCHANGED cookie

(* ChangePasswordForm: both new passwords agree and are long enough. *)
SubmitPassword(t) ==
  /\ On(t, "password") /\ going[t] = "nowhere"
  /\ ~Waiting(t, {"password"})
  /\ Clicked(t, "password", Person[Browser(t)], [must |-> FALSE], FALSE, TRUE)

PasswordDone(t) ==
  /\ Settles(t, {"password"})
  /\ IF req[t].ok THEN Continue(t, "home", ui[t])
                  ELSE Continue(t, "nowhere", Message(t))
  /\ UNCHANGED cookie

(* The sidebar: a link, a way to the change of the password, logging out. *)
Logout(t) ==
  /\ page[t] \in AppPages /\ ui[t].failed # "page"
  /\ ui[t].dialog = Closed /\ ui[t].revealed = NoTarget
  /\ ~Waiting(t, {"logout"})
  /\ Clicked(t, "logout", NoTarget, <<>>, FALSE, TRUE)

(* logoutAction: the cookie goes whatever the backend says; redirect. *)
LogoutDone(t) ==
  /\ Settles(t, {"logout"})
  /\ cookie' = [cookie EXCEPT ![Browser(t)] = NoUser]
  /\ Continue(t, "login", ui[t])

-----------------------------------------------------------------------------
KeyPages == {"keys", "adminkeys"}
CreateOp(t) == IF page[t] = "keys" THEN "createKey" ELSE "adminCreateKey"
RevokeOp(t) == IF page[t] = "keys" THEN "revokeKey" ELSE "adminRevokeKey"

(* Nothing covers the panel: no error page, no key being shown. *)
PanelOpen(t) == page[t] \in KeyPages /\ On(t, page[t]) /\ ui[t].revealed = NoTarget

OpenCreateKey(t) == PanelOpen(t) /\ OpenDialog(t, Dialog("createKey", NoTarget))

(* Mutant: the button is not disabled while the call is out. *)
SubmitCreateKeyTwice(t) ==
  /\ PanelOpen(t) /\ ui[t].dialog.kind = "createKey"
  /\ \E k \in Fresh(Keys) :
       Clicked(t, CreateOp(t), k, [owner |-> Person[Browser(t)], revoked |-> FALSE],
               TRUE, TRUE)

(* CreateApiKeyModal: name, project and a scope given; not while pending. *)
SubmitCreateKey(t) ==
  /\ PanelOpen(t) /\ ui[t].dialog.kind = "createKey"
  /\ ~DialogWaiting(t)
  /\ \E k \in Fresh(Keys) :
       Clicked(t, CreateOp(t), k, [owner |-> Person[Browser(t)], revoked |-> FALSE],
               TRUE, TRUE)

(* onCreated(result), which refreshes and shows the key, then onClose(). *)
CreateKeyDone(t) ==
  /\ Settles(t, {"createKey", "adminCreateKey"})
  /\ IF req[t].ok
     THEN Continue(t, page[t],
            [CloseDialog(t, "createKey") EXCEPT !.revealed = req[t].target])
     ELSE Continue(t, "nowhere", Message(t))
  /\ UNCHANGED cookie

(* KeyRevealModal: closed by the person. *)
CloseReveal(t) ==
  /\ ui[t].revealed # NoTarget
  /\ ui' = [ui EXCEPT ![t].revealed = NoTarget]
  /\ UNCHANGED <<serverVars, tour, cookie, page, going, calls, gaveUp, clicks>>

(* Mutant: the row is marked before the answer is there. *)
SubmitRevokeMarking(t) ==
  \E k \in Keys :
    /\ PanelOpen(t) /\ ui[t].dialog = Closed
    /\ k \in DOMAIN ui[t].rows /\ ~ui[t].rows[k].revoked
    /\ ~Waiting(t, Revokes)
    /\ Call(t, RevokeOp(t), k, [revoked |-> TRUE], FALSE, TRUE)
    /\ ui' = [ui EXCEPT ![t].rows[k].revoked = TRUE]
    /\ UNCHANGED <<serverVars, tour, cookie, page, going, gaveUp>>

(* handleRevoke, confirmed: the row of an active key, one at a time. *)
SubmitRevoke(t) ==
  \E k \in Keys :
    /\ PanelOpen(t) /\ ui[t].dialog = Closed
    /\ k \in DOMAIN ui[t].rows /\ ~ui[t].rows[k].revoked
    /\ ~Waiting(t, Revokes)
    /\ Clicked(t, RevokeOp(t), k, [revoked |-> TRUE], FALSE, TRUE)

(* The row is marked in the panel's own state; there is no catch. *)
RevokeDone(t) ==
  LET k == req[t].target IN
  /\ Settles(t, Revokes)
  /\ IF req[t].ok
     THEN Continue(t, page[t], [ui[t] EXCEPT !.rows =
            [i \in DOMAIN @ |-> IF i = k THEN [@[i] EXCEPT !.revoked = TRUE] ELSE @[i]]])
     ELSE Continue(t, "nowhere", Broken(t))
  /\ UNCHANGED cookie

(* The filters of admin/api-keys: a navigation to the same page. *)
FilterKeys(t) ==
  /\ PanelOpen(t) /\ page[t] = "adminkeys" /\ ui[t].dialog = Closed
  /\ going[t] = "nowhere"
  /\ going' = [going EXCEPT ![t] = page[t]]
  /\ UNCHANGED <<serverVars, tour, cookie, page, ui, calls, gaveUp, clicks>>

AccountPagesNext(t) ==
  \/ SubmitLogin(t) \/ SubmitPassword(t) \/ Logout(t)
  \/ OpenCreateKey(t) \/ SubmitCreateKey(t) \/ CloseReveal(t)
  \/ SubmitRevoke(t) \/ FilterKeys(t)

AccountPagesDone(t) ==
  LoginDone(t) \/ PasswordDone(t) \/ LogoutDone(t) \/ CreateKeyDone(t) \/ RevokeDone(t)
=============================================================================
