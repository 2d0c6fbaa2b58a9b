------------------------------ MODULE Console ------------------------------
(***************************************************************************)
(* The account and administration pages in several tabs and browsers over  *)
(* the backend they share.                                                 *)
(***************************************************************************)
EXTENDS AdminPages

Init == TabsInit

TabNext(t) ==
  \/ AccountPagesNext(t) \/ AccountPagesDone(t)
  \/ AdminPagesNext(t) \/ AdminPagesDone(t)
  \/ Cancel(t) \/ Arrive(t) \/ Send(t)
  \/ (Serve(t) \/ Lose(t)) /\ UNCHANGED tabVars
  \/ \E p \in AppPages : Follow(t, p)

Next ==
  \/ \E t \in Tabs : TabNext(t)
  \/ \E i \in tour.posts : Post(i) /\ UNCHANGED tabVars

Spec == Init /\ [][Next]_vars

-----------------------------------------------------------------------------
(* Types of the tables, the pages and the calls. *)
TypeOK ==
  /\ ServerTypeOK
  /\ \A t \in Tabs :
       /\ page[t] \in Pages
       /\ going[t] \in Pages \cup {"nowhere"}
       /\ ui[t].revealed \in Keys \cup {NoTarget}
       /\ DOMAIN ui[t].rows \subseteq Ids
       /\ req[t] # NoRequest => calls[t] # <<>> /\ req[t].op = calls[t][1].op
  /\ \A b \in Browsers : cookie[b] \in Users \cup {NoUser}
  /\ clicks \in 0..tour.clicks

(* A key that a panel shows as revoked does not work any more: whoever     *)
(* relies on the table can rely on it (ApiKeyPanel.tsx:227-235).           *)
ShownRevokedIsDead == \A t \in Tabs : \A k \in Keys :
  (page[t] \in KeyPages /\ k \in DOMAIN ui[t].rows /\ ui[t].rows[k].revoked) =>
    (row[k] = Deleted \/ row[k].revoked)

(* The after-snapshot of an audit row of a user or a project is a state    *)
(* that the row has really been in, whatever other requests changed while  *)
(* this one was on its way (admin_users.py:116-131).                       *)
AuditTellsCommitted == \A a \in audit :
  (a.target \in Users \cup Projects /\ a.after # NoRow) => a.after \in had[a.target]

(* The columns of the snapshot a and of the row r agree, the password apart. *)
Tells(a, r) == a # NoRow /\ \A c \in DOMAIN r \ {"must"} : a[c] = r[c]

(* The converse: unless a request was lost, the administration's log misses *)
(* no state of a user or a project, the password apart.  A state was there *)
(* at the beginning, or there is an audit row of it, or the request that   *)
(* made it is between its two commits - or it is how POST /auth/users or   *)
(* POST /projects created the row, which write no audit row (admin_users.  *)
(* py:116-131, admin_projects.py:100-140, api/auth.py:178-191, api/        *)
(* projects.py:66-78).                                                     *)
AuditMissesNothing == faults = tour.faults =>
  \A i \in Users \cup Projects : \A r \in had[i] :
    \/ Tells(tour.row[i], r)
    \/ \E a \in audit \cup unlogged : a.target = i /\ Tells(a.after, r)
    \/ \E t \in Tabs : At(t, "changed") /\ req[t].target = i
                      /\ req[t].op # "reset" /\ Tells(req[t].after, r)

(* Whoever was removed from a project comes back only by being added: a    *)
(* change of the role that was checked before the removal does not revive  *)
(* the membership (project_service.py:125-143).                            *)
RoleChangeNeverRevives == [][\A m \in Members :
  (IsRow(row[m]) /\ ~row[m].active /\ row'[m].active) =>
    \E t \in Tabs : req[t] # NoRequest /\ req[t].op = "addMember"
                    /\ req[t].target = m /\ req'[t] # req[t]]_vars

(* An account or project is switched only in the direction that the label  *)
(* of the pressed button said, also when two administrators press it       *)
(* (UsersTable.tsx:119-125).                                               *)
TogglesFollowTheLabel == [][\A i \in Users \cup Projects :
  (IsRow(row[i]) /\ row'[i].active # row[i].active) =>
    \E t \in Tabs : req[t] # NoRequest /\ req[t].target = i
                    /\ req'[t] # req[t] /\ req[t].saw = row[i].active]_vars

(* The raw key on the screen, which is never shown again, is never replaced *)
(* by another one while its page is there, unless a dialog was cancelled    *)
(* while it was creating a key (ApiKeyPanel.tsx:116-136).  It can go with   *)
(* its page, when an error page or a redirect takes that away.              *)
RevealKept == [][\A t \in Tabs :
  (ui[t].revealed # NoTarget /\ page'[t] = page[t]
     /\ ui'[t].revealed \notin {NoTarget, ui[t].revealed}) => gaveUp[t]]_vars

(* An answer that closes a dialog, and is not an error page, tells of a     *)
(* change that was committed; and unless a dialog was cancelled while it    *)
(* waited, that change is the one the open dialog has sent.  (A refresh can *)
(* close a dialog too: its row is gone, UsersTable.tsx:31-43 and the others.) *)
DialogClosesOnSuccess == [][\A t \in Tabs :
  (ui[t].dialog # Closed /\ ui'[t].dialog = Closed
     /\ req[t] # NoRequest /\ req'[t] = NoRequest /\ ui'[t].failed # "page") =>
    req[t].did /\ (calls[t][1].modal \/ gaveUp[t])]_vars

(* The redirects of the layout and of the pages never chase each other:     *)
(* whatever has become of the accounts and of the cookie, a tab that loads  *)
(* a page is at a page after two redirects (layout.tsx:10-16, the pages).  *)
NavigationSettles == \A t \in Tabs : going[t] # "nowhere" =>
  LET Hop(q) == Redirect(q, Viewer(t)) IN Hop(Hop(Hop(going[t]))) = Hop(Hop(going[t]))

(* README.md:180 of the repository: changing the password deletes all API  *)
(* keys there are. Violated: a key committed between the DELETE and the    *)
(* commit of the change stays (auth_service.py:124-139).                   *)
KeysDieWithPassword == [][\A u \in Users :
  (\E t \in Tabs : At(t, "swept") /\ req[t].target = u /\ req'[t] # NoRequest
                   /\ req'[t].did) =>
    \A k \in KeysOf(u) : row'[k] = Deleted]_vars
=============================================================================
