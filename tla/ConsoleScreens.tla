--------------------------- MODULE ConsoleScreens ---------------------------
(***************************************************************************)
(* Proofs about what the screens of Console show, for any tabs, keys and   *)
(* situations: the raw key that is shown once, dialogs that close by       *)
(* themselves, and keys that are shown as revoked.                         *)
(*                                                                         *)
(* The dialogs rest on what a tab has on its way (Orderly): while no       *)
(* dialog was cancelled over a call, a form on the screen that waits is in *)
(* the open dialog, there is one creation of a key at most, and none while *)
(* a key is shown.                                                         *)
(*                                                                         *)
(* A key that is revoked or deleted stays so because its id is given to    *)
(* one creation only (FreshIds).  A panel learns of a revocation from the  *)
(* rows it is opened with, or from the answer to its own request, which is *)
(* positive only if the key was found revoked or has been made so (Kept).  *)
(***************************************************************************)
EXTENDS ConsoleProofs

CreateKeys == {"createKey", "adminCreateKey"}
Creating(c) == c.here /\ c.op \in CreateKeys

(* `s' are the calls of a tab, `given' its gaveUp, `shown' the key it shows. *)
Orderly(s, given, shown) ==
  /\ \A n \in DOMAIN s : s[n].op \in CreateKeys => s[n].form
  /\ ~given =>
       /\ \A n \in DOMAIN s : s[n].form /\ s[n].here => s[n].modal
       /\ \A m, n \in DOMAIN s : Creating(s[m]) /\ Creating(s[n]) => m = n
       /\ shown # NoTarget => \A n \in DOMAIN s : ~Creating(s[n])

OrderlyTabs ==
  /\ gaveUp \in [Tabs -> BOOLEAN]
  /\ \A t \in Tabs : Orderly(calls[t], gaveUp[t], ui[t].revealed)

-----------------------------------------------------------------------------
(* What the steps do to the calls of a tab. *)
LEMMA AppendOrderly ==
  ASSUME NEW s \in Seq(Calls), NEW given, NEW shown, Orderly(s, given, shown),
         NEW c \in Calls, c.form = c.modal,
         c.op \in CreateKeys =>
           c.form /\ shown = NoTarget /\ \A n \in DOMAIN s : ~s[n].modal
  PROVE  Orderly(Append(s, c), given, shown)
<1> DEFINE r == Append(s, c)
<1>1. /\ DOMAIN r = DOMAIN s \cup {Len(s) + 1}
      /\ Len(s) + 1 \notin DOMAIN s
      /\ r[Len(s) + 1] = c
      /\ \A n \in DOMAIN s : r[n] = s[n]
  OBVIOUS
<1> HIDE DEF r
<1>2. ~given /\ Creating(c) => \A n \in DOMAIN s : ~Creating(s[n])
  BY DEF Orderly, Creating
<1>3. Orderly(r, given, shown)
  BY <1>1, <1>2 DEF Orderly, Creating
<1>4. QED
  BY <1>3 DEF r

LEMMA TailOrderly ==
  ASSUME NEW s \in Seq(Calls), s # <<>>, NEW given, NEW shown, Orderly(s, given, shown),
         NEW next, next \in {NoTarget, shown} \/ Creating(s[1])
  PROVE  Orderly(Tail(s), given, next)
<1> DEFINE r == Tail(s)
<1>1. /\ Len(s) \in Nat /\ Len(s) > 0 /\ DOMAIN s = 1..Len(s)
      /\ DOMAIN r = 1..(Len(s) - 1)
      /\ \A n \in 1..(Len(s) - 1) : r[n] = s[n + 1]
  OBVIOUS
<1>2. \A n \in DOMAIN r : n \in Nat /\ n + 1 \in DOMAIN s /\ n + 1 # 1 /\ r[n] = s[n + 1]
  BY <1>1
<1>3. 1 \in DOMAIN s
  BY <1>1
<1> HIDE DEF r
<1>4. ~given => \A m, n \in DOMAIN r : Creating(r[m]) /\ Creating(r[n]) => m = n
  <2> SUFFICES ASSUME ~given, NEW m \in DOMAIN r, NEW n \in DOMAIN r,
                      Creating(r[m]), Creating(r[n])
               PROVE  m = n
    OBVIOUS
  <2>1. m + 1 = n + 1
    BY <1>2 DEF Orderly
  <2>2. QED
    BY <1>2, <2>1
<1>5. ~given /\ next # NoTarget => \A n \in DOMAIN r : ~Creating(r[n])
  BY <1>2, <1>3 DEF Orderly
<1>6. Orderly(r, given, next)
  BY <1>2, <1>4, <1>5 DEF Orderly
<1>7. QED
  BY <1>6 DEF r

LEMMA CancelOrderly ==
  ASSUME NEW s \in Seq(Calls), NEW given \in BOOLEAN, NEW shown, Orderly(s, given, shown)
  PROVE  Orderly([n \in DOMAIN s |-> [s[n] EXCEPT !.modal = FALSE]],
                 given \/ \E n \in DOMAIN s : s[n].modal, shown)
<1> DEFINE r == [n \in DOMAIN s |-> [s[n] EXCEPT !.modal = FALSE]]
           after == given \/ \E n \in DOMAIN s : s[n].modal
<1>1. \A n \in DOMAIN s : s[n] \in Calls
  OBVIOUS
<1>2. /\ DOMAIN r = DOMAIN s
      /\ \A n \in DOMAIN s : /\ r[n].op = s[n].op /\ r[n].form = s[n].form
                             /\ r[n].here = s[n].here
  BY <1>1 DEF Calls
<1>3. ~after => ~given /\ \A n \in DOMAIN s : ~s[n].modal
  OBVIOUS
<1> HIDE DEF r, after
<1>4. Orderly(r, after, shown)
  BY <1>2, <1>3 DEF Orderly, Creating
<1>5. QED
  BY <1>4 DEF r, after

(* Nothing is on the screen any more. *)
LEMMA LeaveOrderly ==
  ASSUME NEW t \in Tabs, calls[t] \in Seq(Calls), NEW given, NEW shown,
         Orderly(calls[t], given, shown), NEW next
  PROVE  Orderly(Leave(t), given, next)
<1> DEFINE r == Leave(t)
<1>1. \A n \in DOMAIN calls[t] : calls[t][n] \in Calls
  OBVIOUS
<1>2. /\ DOMAIN r = DOMAIN calls[t]
      /\ \A n \in DOMAIN r : /\ r[n].op = calls[t][n].op /\ r[n].form = calls[t][n].form
                             /\ ~r[n].here
  BY <1>1 DEF Leave, Calls
<1> HIDE DEF r
<1>3. Orderly(r, given, next)
  BY <1>2 DEF Orderly, Creating
<1>4. QED
  BY <1>3 DEF r

LEMMA FollowOrderly ==
  ASSUME NEW s \in Seq(Calls), NEW given, NEW shown, Orderly(s, given, shown)
  PROVE  Orderly(SubSeq(s, 1, IF s = <<>> THEN 0 ELSE 1), given, shown)
<1> DEFINE r == SubSeq(s, 1, IF s = <<>> THEN 0 ELSE 1)
<1>1. \A n \in DOMAIN r : n \in DOMAIN s /\ r[n] = s[n]
  <2>1. CASE s = <<>>
    BY <2>1
  <2>2. CASE s # <<>>
    BY <2>2
  <2>3. QED
    BY <2>1, <2>2
<1> HIDE DEF r
<1>2. Orderly(r, given, shown)
  BY <1>1 DEF Orderly
<1>3. QED
  BY <1>2 DEF r

-----------------------------------------------------------------------------
LEMMA ClickOrderly ==
  ASSUME TInv, TInv', OrderlyTabs, NEW t \in Tabs, NEW op, NEW i, NEW asks, NEW modal,
         NEW saw, Clicked(t, op, i, asks, modal, saw),
         op \in CreateKeys =>
           modal /\ ui[t].revealed = NoTarget /\ \A n \in DOMAIN calls[t] : ~calls[t][n].modal
  PROVE  OrderlyTabs'
<1> DEFINE c == [op |-> op, target |-> i, asks |-> asks, form |-> modal,
                 modal |-> modal, here |-> TRUE, saw |-> saw]
<1>1. calls' = [calls EXCEPT ![t] = Append(@, c)] /\ UNCHANGED <<ui, gaveUp>>
  BY DEF Clicked, Call
<1>2. calls[t] \in Seq(Calls) /\ calls'[t] \in Seq(Calls) /\ calls'[t] = Append(calls[t], c)
  BY <1>1 DEF TInv
<1>3. c \in Calls
  <2>1. Len(calls[t]) + 1 \in DOMAIN calls'[t] /\ calls'[t][Len(calls[t]) + 1] = c
    BY <1>2
  <2>2. QED
    BY <1>2, <2>1
<1>4. c.op = op /\ c.form = modal /\ c.modal = modal
  OBVIOUS
<1> HIDE DEF c
<1>5. Orderly(calls'[t], gaveUp[t], ui[t].revealed)
  BY <1>2, <1>3, <1>4, AppendOrderly DEF OrderlyTabs
<1>6. QED
  BY <1>1, <1>5 DEF OrderlyTabs, TInv

LEMMA ButtonsOrderly ==
  ASSUME TInv, TInv', OrderlyTabs, NEW t \in Tabs,
         AccountPagesNext(t) \/ AdminPagesNext(t)
  PROVE  OrderlyTabs'
<1>1. CASE SubmitCreateKey(t)
  BY <1>1, ClickOrderly DEF SubmitCreateKey, PanelOpen, DialogWaiting
<1>2. CASE SubmitLogin(t) \/ SubmitPassword(t) \/ Logout(t) \/ SubmitRevoke(t)
  BY <1>2, ClickOrderly DEF SubmitLogin, SubmitPassword, Logout, SubmitRevoke, RevokeOp,
     CreateKeys
<1>3. CASE ToggleUser(t) \/ PromoteRole(t) \/ SubmitCreateUser(t) \/ SubmitReset(t)
  BY <1>3, ClickOrderly DEF ToggleUser, PromoteRole, SubmitCreateUser, SubmitReset,
     CreateKeys
<1>4. CASE ToggleProject(t) \/ SubmitCreateProject(t) \/ SubmitEditProject(t)
  BY <1>4, ClickOrderly DEF ToggleProject, SubmitCreateProject, SubmitEditProject,
     CreateKeys
<1>5. CASE SubmitAddMember(t) \/ ChangeRole(t) \/ SubmitRemove(t)
  BY <1>5, ClickOrderly DEF SubmitAddMember, ChangeRole, SubmitRemove, CreateKeys
<1>6. CASE OpenCreateKey(t) \/ OpenCreateUser(t) \/ OpenReset(t) \/ OpenCreateProject(t)
             \/ OpenEditProject(t) \/ OpenAddMember(t) \/ OpenRemove(t)
  <2>1. \E d : OpenDialog(t, d)
    BY <1>6 DEF OpenCreateKey, OpenCreateUser, OpenReset, OpenCreateProject,
       OpenEditProject, OpenAddMember, OpenRemove
  <2>2. UNCHANGED <<calls, gaveUp>> /\ \A u \in Tabs : ui'[u].revealed = ui[u].revealed
    BY <2>1 DEF OpenDialog, TInv, Screens, ScreenOK
  <2>3. QED
    BY <2>2 DEF OrderlyTabs
<1>7. CASE CloseReveal(t)
  <2>1. UNCHANGED <<calls, gaveUp>> /\ ui' = [ui EXCEPT ![t].revealed = NoTarget]
    BY <1>7 DEF CloseReveal
  <2>2. \A u \in Tabs : ui'[u].revealed \in {NoTarget, ui[u].revealed}
    BY <2>1 DEF TInv, Screens, ScreenOK
  <2>3. QED
    BY <2>1, <2>2 DEF OrderlyTabs, Orderly
<1>8. CASE FilterKeys(t) \/ FilterTable(t)
  BY <1>8 DEF FilterKeys, FilterTable, OrderlyTabs
<1>9. QED
  BY <1>1, <1>2, <1>3, <1>4, <1>5, <1>6, <1>7, <1>8 DEF AccountPagesNext, AdminPagesNext

(* Navigation: the calls of a page that is left are not on the screen. *)
LEMMA MovesOrderly ==
  ASSUME TInv, OrderlyTabs, NEW t \in Tabs,
         Cancel(t) \/ Arrive(t) \/ \E p \in AppPages : Follow(t, p)
  PROVE  OrderlyTabs'
<1>1. calls[t] \in Seq(Calls) /\ DOMAIN calls = Tabs /\ DOMAIN ui = Tabs
  BY DEF TInv, Screens
<1>2. /\ Orderly(calls[t], gaveUp[t], ui[t].revealed)
      /\ gaveUp[t] \in BOOLEAN /\ DOMAIN gaveUp = Tabs
  BY DEF OrderlyTabs
<1>3. ASSUME /\ \A u \in Tabs \ {t} : /\ calls'[u] = calls[u] /\ gaveUp'[u] = gaveUp[u]
                                       /\ ui'[u].revealed = ui[u].revealed
             /\ gaveUp' \in [Tabs -> BOOLEAN]
             /\ Orderly(calls'[t], gaveUp'[t], ui'[t].revealed)
      PROVE  OrderlyTabs'
  BY <1>3 DEF OrderlyTabs
<1>4. CASE Cancel(t)
  <2>1. /\ calls'[t] = [n \in DOMAIN calls[t] |-> [calls[t][n] EXCEPT !.modal = FALSE]]
        /\ gaveUp'[t] = (gaveUp[t] \/ \E n \in DOMAIN calls[t] : calls[t][n].modal)
        /\ ui'[t].revealed = ui[t].revealed
    BY <1>1, <1>2, <1>4 DEF Cancel, DialogWaiting, TInv, Screens, ScreenOK
  <2>2. Orderly(calls'[t], gaveUp'[t], ui'[t].revealed)
    BY <1>1, <1>2, <2>1, CancelOrderly
  <2>3. gaveUp' \in [Tabs -> BOOLEAN]
    BY <1>4 DEF Cancel, OrderlyTabs, DialogWaiting
  <2>4. QED
    BY <1>1, <1>3, <1>4, <2>2, <2>3 DEF Cancel
<1>5. CASE Arrive(t)
  <2>1. \/ calls' = calls /\ ui'[t].revealed = ui[t].revealed
        \/ calls'[t] = Leave(t)
    <3>1. \/ UNCHANGED <<ui, calls>>
          \/ ui' = [ui EXCEPT ![t] = Refreshed(t, Viewer(t))] /\ calls' = calls
          \/ calls' = [calls EXCEPT ![t] = Leave(t)]
      BY <1>5 DEF Arrive
    <3>2. Refreshed(t, Viewer(t)).revealed = ui[t].revealed
      BY DEF Refreshed
    <3>3. QED
      BY <1>1, <3>1, <3>2
  <2>2. Orderly(calls'[t], gaveUp[t], ui'[t].revealed)
    BY <1>1, <1>2, <2>1, LeaveOrderly
  <2>3. QED
    BY <1>1, <1>3, <1>5, <2>2 DEF Arrive, OrderlyTabs
<1>6. CASE \E p \in AppPages : Follow(t, p)
  <2>1. /\ calls'[t] = SubSeq(calls[t], 1, IF calls[t] = <<>> THEN 0 ELSE 1)
        /\ UNCHANGED <<ui, gaveUp>>
        /\ \A u \in Tabs \ {t} : calls'[u] = calls[u]
    BY <1>1, <1>6 DEF Follow
  <2>2. Orderly(calls'[t], gaveUp[t], ui[t].revealed)
    BY <1>1, <1>2, <2>1, FollowOrderly
  <2>3. QED
    BY <1>3, <2>1, <2>2 DEF OrderlyTabs
<1>7. QED
  BY <1>4, <1>5, <1>6

(* The code after an `await' shows a key only if that call was to create it. *)
LEMMA ContinueOrderly ==
  ASSUME TInv, OrderlyTabs, NEW t \in Tabs, req[t] # NoRequest, NEW to, NEW next,
         Continue(t, to, next),
         \/ next.revealed \in {NoTarget, ui[t].revealed}
         \/ calls[t][1].op \in CreateKeys
  PROVE  OrderlyTabs'
<1>1. calls[t] \in Seq(Calls) /\ calls[t] # <<>> /\ DOMAIN calls = Tabs /\ DOMAIN ui = Tabs
  BY DEF TInv, Requests, Screens
<1>2. \/ ui'[t].revealed \in {NoTarget, ui[t].revealed}
      \/ Creating(calls[t][1])
  BY <1>1 DEF Continue, Creating
<1>3. calls'[t] = Tail(calls[t]) /\ gaveUp' = gaveUp
  BY <1>1 DEF Continue
<1>4. Orderly(calls'[t], gaveUp[t], ui'[t].revealed)
  BY <1>1, <1>2, <1>3, TailOrderly DEF OrderlyTabs
<1>5. \A u \in Tabs \ {t} : calls'[u] = calls[u] /\ ui'[u] = ui[u]
  BY <1>1 DEF Continue
<1>6. QED
  BY <1>3, <1>4, <1>5 DEF OrderlyTabs

LEMMA SettlesOrderly ==
  ASSUME TInv, OrderlyTabs, NEW t \in Tabs, AccountPagesDone(t) \/ AdminPagesDone(t)
  PROVE  OrderlyTabs'
<1>1. DOMAIN ui[t] = {"rows", "admin", "dialog", "failed", "revealed"}
  BY DEF TInv, Screens, ScreenOK
<1>2. Message(t).revealed = ui[t].revealed /\ Broken(t).revealed = NoTarget
  BY <1>1 DEF Message, Broken
<1>3. \A kind : CloseDialog(t, kind).revealed = ui[t].revealed
  BY DEF CloseDialog
<1>4. req[t] # NoRequest
  BY DEF AccountPagesDone, AdminPagesDone, LoginDone, PasswordDone, LogoutDone,
     CreateKeyDone, RevokeDone, FormDone, RowDone, Settles, At
<1>5. CASE LoginDone(t) \/ PasswordDone(t) \/ LogoutDone(t)
  BY <1>2, <1>4, <1>5, ContinueOrderly DEF LoginDone, PasswordDone, LogoutDone
<1>6. CASE CreateKeyDone(t)
  BY <1>4, <1>6, ContinueOrderly DEF CreateKeyDone, Settles, CreateKeys
<1>7. CASE RevokeDone(t)
  <2> DEFINE marked == [ui[t] EXCEPT !.rows =
        [i \in DOMAIN @ |-> IF i = req[t].target THEN [@[i] EXCEPT !.revoked = TRUE]
                            ELSE @[i]]]
  <2>1. marked.revealed = ui[t].revealed
    OBVIOUS
  <2>2. \/ Continue(t, page[t], marked) \/ Continue(t, "nowhere", Broken(t))
    BY <1>7 DEF RevokeDone
  <2> HIDE DEF marked
  <2>3. QED
    BY <1>2, <1>4, <2>1, <2>2, ContinueOrderly
<1>8. CASE FormDone(t) \/ RowDone(t)
  BY <1>2, <1>3, <1>4, <1>8, ContinueOrderly DEF FormDone, RowDone
<1>9. QED
  BY <1>5, <1>6, <1>7, <1>8 DEF AccountPagesDone, AdminPagesDone

LEMMA NextOrderly == TInv /\ TInv' /\ OrderlyTabs /\ [Next]_vars => OrderlyTabs'
<1> SUFFICES ASSUME TInv, TInv', OrderlyTabs, [Next]_vars PROVE OrderlyTabs'
  OBVIOUS
<1>1. UNCHANGED tabVars => OrderlyTabs'
  BY DEF tabVars, OrderlyTabs
<1>2. \A t \in Tabs : Send(t) => UNCHANGED tabVars
  BY DEF Send, tabVars
<1>3. QED
  BY <1>1, <1>2, ButtonsOrderly, MovesOrderly, SettlesOrderly DEF Next, TabNext, vars

LEMMA InitOrderly == Init => OrderlyTabs
BY DEF Init, TabsInit, OrderlyTabs, Orderly, Blank, Opened

-----------------------------------------------------------------------------
(* A key appears on the screen by the call that created it. *)
LEMMA KeyAppears ==
  ASSUME TInv, OrderlyTabs, [Next]_vars, NEW t \in Tabs, ui[t].revealed # NoTarget,
         page'[t] = page[t], ui'[t].revealed \notin {NoTarget, ui[t].revealed}
  PROVE  gaveUp[t]
<1>1. DOMAIN ui = Tabs /\ DOMAIN ui[t] = {"rows", "admin", "dialog", "failed", "revealed"}
  BY DEF TInv, Screens, ScreenOK
<1>2. ASSUME NEW u \in Tabs, AccountPagesNext(u) \/ AdminPagesNext(u) \/ Cancel(u)
      PROVE  FALSE
  <2>1. ui' = ui \/ CloseReveal(u) \/ Cancel(u) \/ \E d : OpenDialog(u, d)
    BY <1>2 DEF AccountPagesNext, AdminPagesNext, SubmitLogin, SubmitPassword, Logout,
       OpenCreateKey, SubmitCreateKey, SubmitRevoke, FilterKeys, FilterTable,
       ToggleUser, PromoteRole, OpenCreateUser, OpenReset, SubmitCreateUser, SubmitReset,
       ToggleProject, OpenCreateProject, OpenEditProject, SubmitCreateProject,
       SubmitEditProject, OpenAddMember, SubmitAddMember, ChangeRole, OpenRemove,
       SubmitRemove, Clicked
  <2>2. CloseReveal(u) => ui'[t].revealed \in {NoTarget, ui[t].revealed}
    BY <1>1 DEF CloseReveal
  <2>3. Cancel(u) => ui'[t].revealed = ui[t].revealed
    BY <1>1 DEF Cancel
  <2>4. ASSUME NEW d, OpenDialog(u, d) PROVE ui'[t].revealed = ui[t].revealed
    BY <1>1, <2>4 DEF OpenDialog
  <2>5. QED
    BY <2>1, <2>2, <2>3, <2>4
<1>3. ASSUME NEW u \in Tabs, Arrive(u) PROVE FALSE
  <2>1. \/ ui' = ui
        \/ ui' = [ui EXCEPT ![u] = Refreshed(u, Viewer(u))]
        \/ ui' = [ui EXCEPT ![u] = [Blank EXCEPT !.failed = "page"]]
        \/ ui' = [ui EXCEPT ![u] = Opened(RowsOf(going[u], Viewer(u)), IsAdmin(Viewer(u)))]
    BY <1>3 DEF Arrive
  <2>2. /\ Refreshed(t, Viewer(t)).revealed = ui[t].revealed
        /\ [Blank EXCEPT !.failed = "page"].revealed = NoTarget
        /\ Opened(RowsOf(going[t], Viewer(t)), IsAdmin(Viewer(t))).revealed = NoTarget
    BY DEF Refreshed, Blank, Opened
  <2>3. QED
    BY <1>1, <2>1, <2>2
<1>4. ASSUME NEW u \in Tabs, AccountPagesDone(u) \/ AdminPagesDone(u), ~CreateKeyDone(t)
      PROVE  FALSE
  <2>1. PICK next : /\ ui' = ui \/ ui' = [ui EXCEPT ![u] = next]
                    /\ u = t => next.revealed \in {NoTarget, ui[t].revealed}
    <3>1. Message(t).revealed = ui[t].revealed /\ Broken(t).revealed = NoTarget
      BY <1>1 DEF Message, Broken
    <3>2. \A kind : CloseDialog(t, kind).revealed = ui[t].revealed
      BY DEF CloseDialog
    <3>3. CASE RevokeDone(u)
      <4> DEFINE marked == [ui[u] EXCEPT !.rows =
            [i \in DOMAIN @ |-> IF i = req[u].target THEN [@[i] EXCEPT !.revoked = TRUE]
                                ELSE @[i]]]
      <4>1. u = t => marked.revealed = ui[t].revealed
        OBVIOUS
      <4>2. \/ Continue(u, page[u], marked) \/ Continue(u, "nowhere", Broken(u))
        BY <3>3 DEF RevokeDone
      <4> HIDE DEF marked
      <4>3. QED
        BY <3>1, <4>1, <4>2 DEF Continue
    <3>4. CASE LoginDone(u) \/ PasswordDone(u) \/ LogoutDone(u)
      BY <3>1, <3>4 DEF LoginDone, PasswordDone, LogoutDone, Continue
    <3>5. CASE FormDone(u) \/ RowDone(u)
      BY <3>1, <3>2, <3>5 DEF FormDone, RowDone, Continue
    <3>6. CASE CreateKeyDone(u)
      BY <1>4, <3>6 DEF CreateKeyDone, Continue
    <3>7. QED
      BY <1>4, <3>3, <3>4, <3>5, <3>6 DEF AccountPagesDone, AdminPagesDone
  <2>2. QED
    BY <1>1, <2>1
<1>5. CreateKeyDone(t)
  <2>1. ASSUME NEW u \in Tabs, Send(u) \/ \E p \in AppPages : Follow(u, p)
        PROVE  ui' = ui
    BY <2>1 DEF Send, Follow, tabVars
  <2>2. UNCHANGED tabVars => ui' = ui
    BY DEF tabVars
  <2>3. ui' # ui
    OBVIOUS
  <2>4. QED
    BY <1>2, <1>3, <1>4, <2>1, <2>2, <2>3 DEF Next, TabNext, vars
<1>6. 1 \in DOMAIN calls[t]
  <2>1. calls[t] \in Seq(Calls) /\ calls[t] # <<>>
    BY <1>5 DEF CreateKeyDone, Settles, At, TInv, Requests
  <2>2. QED
    BY <2>1
<1>7. Creating(calls[t][1])
  BY <1>5 DEF CreateKeyDone, Settles, Continue, Creating, CreateKeys
<1>8. QED
  BY <1>6, <1>7 DEF OrderlyTabs, Orderly

(* The raw key on the screen is never replaced by another one while its    *)
(* page is there, unless a dialog was cancelled while it was creating a    *)
(* key: for any number of tabs (ApiKeyPanel.tsx:116-136).                  *)
THEOREM KeyNotReplaced == Spec => RevealKept
<1>1. TInv /\ OrderlyTabs /\ [Next]_vars =>
        [\A t \in Tabs :
           (ui[t].revealed # NoTarget /\ page'[t] = page[t]
              /\ ui'[t].revealed \notin {NoTarget, ui[t].revealed}) => gaveUp[t]]_vars
  BY KeyAppears
<1>2. Init => TInv /\ OrderlyTabs
  BY InitTInv, InitOrderly
<1>3. TInv /\ OrderlyTabs /\ [Next]_vars => TInv' /\ OrderlyTabs'
  BY NextTInv, NextOrderly
<1>4. QED
  BY <1>1, <1>2, <1>3, PTL DEF Spec, RevealKept

-----------------------------------------------------------------------------
(* A POST outside the administration touches no request and no key. *)
LEMMA PostKeeps ==
  ASSUME NEW i \in tour.posts, Post(i)
  PROVE  /\ req' = req
         /\ TInv => \A k \in Keys : row'[k] = row[k]
<1>1. req' = req
  BY DEF Post, PostCheck, PostInsert
<1>2. ASSUME TInv, NEW k \in Keys PROVE row'[k] = row[k]
  <2>1. i \in Users \cup Projects
    BY <1>2, ToursAssumption DEF TInv, Screens
  <2>2. i # k /\ k \in DOMAIN row
    BY <1>2, <2>1, IdsAssumption DEF TInv, Tables, Ids
  <2>3. row' = row \/ \E new : row' = [row EXCEPT ![i] = new]
    BY DEF Post, PostCheck, PostInsert, Store
  <2>4. QED
    BY <2>2, <2>3
<1>3. QED
  BY <1>1, <1>2

(* Success is answered only when the change has been committed. *)
Told == \A t \in Tabs : req[t] # NoRequest =>
  /\ req[t].at = "changed" => req[t].did
  /\ req[t].at = "done" /\ req[t].op \notin {"login", "logout"} /\ req[t].ok => req[t].did

LEMMA NextTold == TInv /\ Told /\ [Next]_vars => Told'
<1> SUFFICES ASSUME TInv, Told, [Next]_vars PROVE Told'
  OBVIOUS
<1>1. req' = req => Told'
  BY DEF Told
<1>2. ASSUME NEW t \in Tabs, \A u \in Tabs \ {t} : req'[u] = req[u],
             \/ req'[t].at \notin {"changed", "done"}
             \/ req'[t].op \in {"login", "logout"} /\ req'[t].at = "done"
             \/ req'[t].at = "done" /\ req'[t].ok = FALSE
             \/ req'[t].did = TRUE
             \/ req'[t] = NoRequest
      PROVE  Told'
  BY <1>2 DEF Told
<1>3. DOMAIN req = Tabs /\ \A t \in Tabs : req[t] # NoRequest => DOMAIN req[t] = Fields
  BY DEF TInv, Requests, RequestOK
<1>4. ASSUME NEW t \in Tabs, AccountPagesDone(t) \/ AdminPagesDone(t)
      PROVE  Told'
  <2>1. req' = [req EXCEPT ![t] = NoRequest]
    BY <1>4, PagesSettle
  <2>2. QED
    BY <1>2, <1>3, <2>1
<1>5. ASSUME NEW t \in Tabs, Send(t)
      PROVE  Told'
  <2>1. req'[t].at = "sent" /\ \A u \in Tabs \ {t} : req'[u] = req[u]
    BY <1>3, <1>5 DEF Send, Request
  <2>2. QED
    BY <1>2, <2>1
<1>6. ASSUME NEW t \in Tabs, req[t] # NoRequest, Answer(t, FALSE)
      PROVE  Told'
  <2>1. req'[t].at = "done" /\ req'[t].ok = FALSE /\ \A u \in Tabs \ {t} : req'[u] = req[u]
    BY <1>3, <1>6 DEF Answer, Fields
  <2>2. QED
    BY <1>2, <2>1
<1>7. ASSUME NEW t \in Tabs, NEW new, req[t] # NoRequest, Committed(t, new)
      PROVE  Told'
  <2>1. req'[t].did = TRUE /\ \A u \in Tabs \ {t} : req'[u] = req[u]
    BY <1>3, <1>7 DEF Committed, Fields
  <2>2. QED
    BY <1>2, <2>1
<1>8. ASSUME NEW t \in Tabs, Serve(t)
      PROVE  Told'
  <2>1. CASE Load(t)
    <3>1. /\ req'[t].op = req[t].op
          /\ req'[t].at = IF req[t].op \in {"login", "logout"} THEN "done" ELSE "loaded"
          /\ \A u \in Tabs \ {t} : req'[u] = req[u]
      BY <1>3, <2>1 DEF Load, At, Fields
    <3>2. QED
      BY <1>2, <3>1
  <2>2. CASE Refuse(t)
    BY <1>6, <2>2 DEF Refuse, At
  <2>3. CASE Insert(t)
    BY <1>6, <1>7, <2>3 DEF Insert, At
  <2>4. CASE Update(t)
    BY <1>6, <1>7, <2>4 DEF Update, At
  <2>5. CASE Sweep(t)
    <3>1. req'[t].at = "swept" /\ \A u \in Tabs \ {t} : req'[u] = req[u]
      BY <1>3, <2>5 DEF Sweep, At, Fields
    <3>2. QED
      BY <1>2, <3>1
  <2>6. CASE CommitPassword(t)
    BY <1>7, <2>6 DEF CommitPassword, At
  <2>7. CASE Audit(t)
    <3>1. req[t] # NoRequest /\ req[t].did
      BY <2>7 DEF Audit, At, Told
    <3>2. req'[t].did = req[t].did /\ \A u \in Tabs \ {t} : req'[u] = req[u]
      BY <1>3, <2>7, <3>1 DEF Audit, Answer, Fields
    <3>3. QED
      BY <3>1, <3>2 DEF Told
  <2>8. QED
    BY <1>8, <2>1, <2>2, <2>3, <2>4, <2>5, <2>6, <2>7 DEF Serve
<1>9. ASSUME NEW t \in Tabs, Lose(t)
      PROVE  Told'
  BY <1>6, <1>9 DEF Lose
<1>10. ASSUME NEW i \in tour.posts, Post(i) PROVE req' = req
  BY <1>10, PostKeeps
<1>11. QED
  BY <1>1, <1>4, <1>5, <1>8, <1>9, <1>10, PagesKeep DEF Next, TabNext, vars, serverVars, postVars

(* Only the answer to a form closes a dialog while a request ends. *)
LEMMA DialogCloses ==
  ASSUME TInv, OrderlyTabs, Told, [Next]_vars, NEW t \in Tabs, ui[t].dialog # Closed,
         ui'[t].dialog = Closed, req[t] # NoRequest, req'[t] = NoRequest,
         ui'[t].failed # "page"
  PROVE  req[t].did /\ (calls[t][1].modal \/ gaveUp[t])
<1>1. DOMAIN req = Tabs /\ DOMAIN ui = Tabs
      /\ DOMAIN ui[t] = {"rows", "admin", "dialog", "failed", "revealed"}
  BY DEF TInv, Requests, Screens, ScreenOK
<1>2. AccountPagesDone(t) \/ AdminPagesDone(t)
  <2>1. UNCHANGED tabVars => FALSE
    BY DEF tabVars
  <2>2. ASSUME NEW u \in Tabs, AccountPagesDone(u) \/ AdminPagesDone(u), u # t PROVE FALSE
    BY <1>1, <2>2, PagesSettle
  <2>3. \A u \in Tabs : ~Send(u)
    BY <2>1 DEF Send, tabVars
  <2>4. QED
    BY <2>1, <2>2, <2>3, PagesKeep DEF Next, TabNext, vars, serverVars, postVars
<1>3. Message(t).dialog = ui[t].dialog /\ Broken(t).failed = "page"
  BY <1>1 DEF Message, Broken
<1>4. ASSUME NEW to, NEW next, Continue(t, to, next)
      PROVE  next.dialog = Closed /\ next.failed # "page" /\ calls[t][1].here
  BY <1>1, <1>4 DEF Continue
<1>5. ~(LoginDone(t) \/ PasswordDone(t) \/ LogoutDone(t) \/ RowDone(t))
  BY <1>3, <1>4 DEF LoginDone, PasswordDone, LogoutDone, RowDone
<1>6. ~RevokeDone(t)
  <2> DEFINE marked == [ui[t] EXCEPT !.rows =
        [i \in DOMAIN @ |-> IF i = req[t].target THEN [@[i] EXCEPT !.revoked = TRUE]
                            ELSE @[i]]]
  <2>1. marked.dialog = ui[t].dialog
    OBVIOUS
  <2>2. RevokeDone(t) =>
          Continue(t, page[t], marked) \/ Continue(t, "nowhere", Broken(t))
    BY DEF RevokeDone
  <2> HIDE DEF marked
  <2>3. QED
    BY <1>3, <1>4, <2>1, <2>2
<1>7. CreateKeyDone(t) \/ FormDone(t)
  BY <1>2, <1>5, <1>6 DEF AccountPagesDone, AdminPagesDone
<1>8. req[t].at = "done" /\ req[t].ok /\ calls[t][1].here
  BY <1>3, <1>4, <1>7 DEF CreateKeyDone, FormDone, Settles, At
<1>9. req[t].op = calls[t][1].op /\ calls[t][1].op \notin {"login", "logout"}
  BY <1>7 DEF CreateKeyDone, FormDone, Settles, PageOps, AdminOps, TInv, Requests
<1>10. req[t].did
  BY <1>8, <1>9 DEF Told
<1>11. 1 \in DOMAIN calls[t]
  <2>1. calls[t] \in Seq(Calls) /\ calls[t] # <<>>
    BY DEF TInv, Requests
  <2>2. QED
    BY <2>1
<1>12. calls[t][1].form
  BY <1>7, <1>11 DEF CreateKeyDone, FormDone, Settles, CreateKeys, OrderlyTabs, Orderly
<1>13. calls[t][1].modal \/ gaveUp[t]
  BY <1>8, <1>11, <1>12 DEF OrderlyTabs, Orderly
<1>14. QED
  BY <1>10, <1>13

(* A dialog that closes by itself has had its change committed; one that is  *)
(* not yet submitted is closed only by the answer to one that was cancelled *)
(* (UsersTable.tsx:31-43 and the other dialogs).                           *)
THEOREM ClosedMeansCommitted == Spec => DialogClosesOnSuccess
<1>1. TInv /\ OrderlyTabs /\ Told /\ [Next]_vars =>
        [\A t \in Tabs :
           (ui[t].dialog # Closed /\ ui'[t].dialog = Closed
              /\ req[t] # NoRequest /\ req'[t] = NoRequest /\ ui'[t].failed # "page") =>
             req[t].did /\ (calls[t][1].modal \/ gaveUp[t])]_vars
  BY DialogCloses
<1>2. Init => TInv /\ OrderlyTabs /\ Told
  BY InitTInv, InitOrderly DEF Init, TabsInit, Told
<1>3. TInv /\ OrderlyTabs /\ Told /\ [Next]_vars => TInv' /\ OrderlyTabs' /\ Told'
  BY NextTInv, NextOrderly, NextTold
<1>4. QED
  BY <1>1, <1>2, <1>3, PTL DEF Spec, DialogClosesOnSuccess

-----------------------------------------------------------------------------
Dead(k) == row[k] = Deleted \/ (row[k] # NoRow /\ row[k].revoked)

Creates(c, k) == c.op \in CreateKeys /\ c.target = k

(* Call n of tab t has not been inserted. *)
Ahead(t, n) == n = 1 /\ req[t] # NoRequest => req[t].at \in {"sent", "loaded"}

FreshIds ==
  /\ \A t \in Tabs : req[t] # NoRequest => req[t].target = calls[t][1].target
  /\ \A k \in Keys, t \in Tabs : \A n \in DOMAIN calls[t] :
       Creates(calls[t][n], k) /\ Ahead(t, n) => row[k] = NoRow
  /\ \A k \in Keys, t, u \in Tabs : \A n \in DOMAIN calls[t], m \in DOMAIN calls[u] :
       Creates(calls[t][n], k) /\ Creates(calls[u][m], k) => t = u /\ n = m
  /\ \A t \in Tabs : req[t] # NoRequest => \A k \in req[t].swept : row[k] # NoRow

-----------------------------------------------------------------------------
LEMMA CallsMove ==
  ASSUME TInv, TInv', FreshIds, NEW t \in Tabs, UNCHANGED row,
         \A u \in Tabs \ {t} : calls'[u] = calls[u] /\ req'[u] = req[u],
         req'[t] = req[t] \/ req'[t] = NoRequest,
         NEW from \in [DOMAIN calls'[t] -> DOMAIN calls[t]],
         \A m, n \in DOMAIN calls'[t] : from[m] = from[n] => m = n,
         \A n \in DOMAIN calls'[t] : /\ calls'[t][n].op = calls[t][from[n]].op
                                     /\ calls'[t][n].target = calls[t][from[n]].target,
         req'[t] = req[t] /\ req[t] # NoRequest => 1 \in DOMAIN calls'[t] /\ from[1] = 1,
         req'[t] = req[t] /\ req[t] # NoRequest => \A n \in DOMAIN from : from[n] = 1 => n = 1,
         req'[t] = NoRequest /\ req[t] # NoRequest => \A n \in DOMAIN from : from[n] # 1
  PROVE  FreshIds'
<1>1. \A k, n : n \in DOMAIN calls'[t] /\ Creates(calls'[t][n], k) =>
        from[n] \in DOMAIN calls[t] /\ Creates(calls[t][from[n]], k)
  BY DEF Creates
<1>2. \A n \in DOMAIN calls'[t] : Ahead(t, n)' => Ahead(t, from[n])
  BY DEF Ahead
<1>3. (\A u \in Tabs : req[u] # NoRequest => req[u].target = calls[u][1].target)'
  <2> SUFFICES ASSUME NEW u \in Tabs, req'[u] # NoRequest
               PROVE  req'[u].target = calls'[u][1].target
    OBVIOUS
  <2>1. CASE u = t
    BY <2>1 DEF FreshIds
  <2>2. CASE u # t
    BY <2>2 DEF FreshIds
  <2>3. QED
    BY <2>1, <2>2
<1>4. (\A k \in Keys, u \in Tabs : \A n \in DOMAIN calls[u] :
         Creates(calls[u][n], k) /\ Ahead(u, n) => row[k] = NoRow)'
  <2> SUFFICES ASSUME NEW k \in Keys, NEW u \in Tabs, NEW n \in DOMAIN calls'[u],
                      Creates(calls'[u][n], k), Ahead(u, n)'
               PROVE  row'[k] = NoRow
    BY DEF Creates
  <2>1. CASE u = t
    BY <1>1, <1>2, <2>1 DEF FreshIds
  <2>2. CASE u # t
    BY <2>2 DEF FreshIds, Ahead
  <2>3. QED
    BY <2>1, <2>2
<1>5. (\A k \in Keys, u, v \in Tabs : \A n \in DOMAIN calls[u], m \in DOMAIN calls[v] :
         Creates(calls[u][n], k) /\ Creates(calls[v][m], k) => u = v /\ n = m)'
  <2> SUFFICES ASSUME NEW k \in Keys, NEW u \in Tabs, NEW v \in Tabs,
                      NEW n \in DOMAIN calls'[u], NEW m \in DOMAIN calls'[v],
                      Creates(calls'[u][n], k), Creates(calls'[v][m], k)
               PROVE  u = v /\ n = m
    BY DEF Creates
  <2>1. CASE u = t /\ v = t
    <3>1. from[n] \in DOMAIN calls[t] /\ Creates(calls[t][from[n]], k)
      BY <1>1, <2>1
    <3>2. from[m] \in DOMAIN calls[t] /\ Creates(calls[t][from[m]], k)
      BY <1>1, <2>1
    <3>3. from[n] = from[m]
      BY <3>1, <3>2 DEF FreshIds
    <3>4. QED
      BY <2>1, <3>3
  <2>2. CASE u = t /\ v # t
    <3>1. from[n] \in DOMAIN calls[t] /\ Creates(calls[t][from[n]], k)
      BY <1>1, <2>2
    <3>2. m \in DOMAIN calls[v] /\ Creates(calls[v][m], k)
      BY <2>2 DEF Creates
    <3>3. QED
      BY <2>2, <3>1, <3>2 DEF FreshIds
  <2>3. CASE u # t /\ v = t
    <3>1. from[m] \in DOMAIN calls[t] /\ Creates(calls[t][from[m]], k)
      BY <1>1, <2>3
    <3>2. n \in DOMAIN calls[u] /\ Creates(calls[u][n], k)
      BY <2>3 DEF Creates
    <3>3. QED
      BY <2>3, <3>1, <3>2 DEF FreshIds
  <2>4. CASE u # t /\ v # t
    BY <2>4 DEF FreshIds
  <2>5. QED
    BY <2>1, <2>2, <2>3, <2>4
<1>6. (\A u \in Tabs : req[u] # NoRequest => \A k \in req[u].swept : row[k] # NoRow)'
  <2> SUFFICES ASSUME NEW u \in Tabs, req'[u] # NoRequest, NEW k \in req'[u].swept
               PROVE  row'[k] # NoRow
    OBVIOUS
  <2>1. req'[u] = req[u]
    OBVIOUS
  <2>2. QED
    BY <2>1 DEF FreshIds
<1>7. QED
  BY <1>3, <1>4, <1>5, <1>6 DEF FreshIds

(* A page that is left, a dialog that is closed: the calls stay in place. *)
LEMMA InPlace ==
  ASSUME TInv, TInv', FreshIds, NEW t \in Tabs, UNCHANGED <<row, req>>,
         \A u \in Tabs \ {t} : calls'[u] = calls[u],
         DOMAIN calls'[t] \subseteq DOMAIN calls[t],
         calls[t] # <<>> => 1 \in DOMAIN calls'[t],
         \A n \in DOMAIN calls'[t] : /\ calls'[t][n].op = calls[t][n].op
                                     /\ calls'[t][n].target = calls[t][n].target
  PROVE  FreshIds'
<1> DEFINE from == [n \in DOMAIN calls'[t] |-> n]
<1>1. from \in [DOMAIN calls'[t] -> DOMAIN calls[t]] /\ DOMAIN from = DOMAIN calls'[t]
      /\ \A n \in DOMAIN calls'[t] : from[n] = n
  OBVIOUS
<1>2. req[t] # NoRequest => 1 \in DOMAIN calls'[t] /\ from[1] = 1
  BY <1>1 DEF TInv, Requests
<1>3. req'[t] = NoRequest /\ req[t] # NoRequest => FALSE
  OBVIOUS
<1> HIDE DEF from
<1>4. QED
  BY <1>1, <1>2, <1>3, CallsMove

LEMMA MovesFresh ==
  ASSUME TInv, TInv', FreshIds, NEW t \in Tabs,
         Cancel(t) \/ Arrive(t) \/ \E p \in AppPages : Follow(t, p)
  PROVE  FreshIds'
<1>1. UNCHANGED <<row, req>>
  BY PagesKeep DEF serverVars, postVars
<1>2. calls[t] \in Seq(Calls) /\ DOMAIN calls = Tabs
  BY DEF TInv
<1>3. \A n \in DOMAIN calls[t] : calls[t][n] \in Calls
  BY <1>2
<1>4. calls[t] # <<>> => 1 \in DOMAIN calls[t]
  BY <1>2
<1>5. CASE Cancel(t)
  <2>1. calls' = [calls EXCEPT ![t] = [n \in DOMAIN @ |-> [@[n] EXCEPT !.modal = FALSE]]]
    BY <1>5 DEF Cancel
  <2>2. /\ DOMAIN calls'[t] = DOMAIN calls[t]
        /\ \A n \in DOMAIN calls'[t] : /\ calls'[t][n].op = calls[t][n].op
                                       /\ calls'[t][n].target = calls[t][n].target
    BY <1>2, <1>3, <2>1 DEF Calls
  <2>3. QED
    BY <1>1, <1>2, <1>4, <2>1, <2>2, InPlace
<1>6. CASE Arrive(t)
  <2>1. calls' = calls \/ calls' = [calls EXCEPT ![t] = Leave(t)]
    BY <1>6 DEF Arrive
  <2>2. /\ DOMAIN calls'[t] = DOMAIN calls[t]
        /\ \A n \in DOMAIN calls'[t] : /\ calls'[t][n].op = calls[t][n].op
                                       /\ calls'[t][n].target = calls[t][n].target
    <3>1. CASE calls' = calls
      BY <3>1
    <3>2. CASE calls' = [calls EXCEPT ![t] = Leave(t)]
      <4> DEFINE r == Leave(t)
      <4>1. /\ DOMAIN r = DOMAIN calls[t]
            /\ \A n \in DOMAIN r : r[n].op = calls[t][n].op /\ r[n].target = calls[t][n].target
        BY <1>3 DEF Calls, Leave
      <4>2. calls'[t] = r
        BY <1>2, <3>2
      <4> HIDE DEF r
      <4>3. QED
        BY <4>1, <4>2
    <3>3. QED
      BY <2>1, <3>1, <3>2
  <2>3. QED
    BY <1>1, <1>2, <1>4, <2>1, <2>2, InPlace
<1>7. CASE \E p \in AppPages : Follow(t, p)
  <2> DEFINE r == SubSeq(calls[t], 1, IF calls[t] = <<>> THEN 0 ELSE 1)
  <2>1. calls' = [calls EXCEPT ![t] = r]
    BY <1>7 DEF Follow
  <2>2. /\ \A n \in DOMAIN r : n \in DOMAIN calls[t] /\ r[n] = calls[t][n]
        /\ calls[t] # <<>> => 1 \in DOMAIN r
    <3>1. CASE calls[t] = <<>>
      BY <3>1
    <3>2. CASE calls[t] # <<>>
      BY <1>2, <3>2
    <3>3. QED
      BY <3>1, <3>2
  <2> HIDE DEF r
  <2>3. QED
    BY <1>1, <1>2, <2>1, <2>2, InPlace
<1>8. QED
  BY <1>5, <1>6, <1>7

LEMMA SettlesFresh ==
  ASSUME TInv, TInv', FreshIds, NEW t \in Tabs, AccountPagesDone(t) \/ AdminPagesDone(t)
  PROVE  FreshIds'
<1>1. /\ calls' = [calls EXCEPT ![t] = Tail(@)] /\ row' = row
      /\ req' = [req EXCEPT ![t] = NoRequest] /\ req[t] # NoRequest
  BY DEF AccountPagesDone, AdminPagesDone, LoginDone, PasswordDone, LogoutDone,
     CreateKeyDone, RevokeDone, FormDone, RowDone, Continue, Settles, At
<1>2. calls[t] \in Seq(Calls) /\ calls[t] # <<>> /\ DOMAIN calls = Tabs /\ DOMAIN req = Tabs
  BY <1>1 DEF TInv, Requests
<1> DEFINE from == [n \in DOMAIN calls'[t] |-> n + 1]
<1>3. /\ Len(calls[t]) \in Nat /\ DOMAIN calls[t] = 1..Len(calls[t])
      /\ DOMAIN calls'[t] = 1..(Len(calls[t]) - 1)
      /\ \A n \in DOMAIN calls'[t] : calls'[t][n] = calls[t][n + 1]
  BY <1>1, <1>2
<1>4. /\ from \in [DOMAIN calls'[t] -> DOMAIN calls[t]] /\ DOMAIN from = DOMAIN calls'[t]
      /\ \A n \in DOMAIN calls'[t] : from[n] = n + 1 /\ from[n] # 1
      /\ \A m, n \in DOMAIN calls'[t] : from[m] = from[n] => m = n
  BY <1>3
<1> HIDE DEF from
<1>5. \A n \in DOMAIN calls'[t] : calls'[t][n] = calls[t][from[n]]
  BY <1>3, <1>4
<1>6. /\ \A u \in Tabs \ {t} : calls'[u] = calls[u] /\ req'[u] = req[u]
      /\ req'[t] = NoRequest /\ req'[t] # req[t]
  BY <1>1, <1>2
<1>7. \A n \in DOMAIN from : from[n] # 1
  BY <1>4
<1>8. \A n \in DOMAIN calls'[t] : /\ calls'[t][n].op = calls[t][from[n]].op
                                  /\ calls'[t][n].target = calls[t][from[n]].target
  BY <1>5
<1>9. from \in [DOMAIN calls'[t] -> DOMAIN calls[t]]
      /\ \A m, n \in DOMAIN calls'[t] : from[m] = from[n] => m = n
  BY <1>4
<1>10. UNCHANGED row
  BY <1>1
<1>11. QED
  BY <1>6, <1>7, <1>8, <1>9, <1>10, CallsMove

(* A new creation takes an id that no row and no call has. *)
LEMMA ClickFresh ==
  ASSUME TInv, TInv', FreshIds, NEW t \in Tabs, NEW op, NEW i, NEW asks, NEW modal,
         NEW saw, Clicked(t, op, i, asks, modal, saw),
         op \in CreateKeys => i \in Fresh(Keys)
  PROVE  FreshIds'
<1> DEFINE c == [op |-> op, target |-> i, asks |-> asks, form |-> modal,
                 modal |-> modal, here |-> TRUE, saw |-> saw]
<1>1. calls' = [calls EXCEPT ![t] = Append(@, c)] /\ UNCHANGED <<row, req>>
  BY DEF Clicked, Call, serverVars, postVars
<1>2. calls[t] \in Seq(Calls) /\ DOMAIN calls = Tabs
  BY DEF TInv
<1> DEFINE last == Len(calls[t]) + 1
<1>3. /\ DOMAIN calls'[t] = DOMAIN calls[t] \cup {last} /\ calls'[t][last] = c
      /\ \A n \in DOMAIN calls[t] : calls'[t][n] = calls[t][n]
  BY <1>1, <1>2
<1>4. calls[t] # <<>> => 1 \in DOMAIN calls[t]
  BY <1>2
<1>5. \A k \in Keys : Creates(c, k) =>
        row[k] = NoRow /\ \A u \in Tabs : \A n \in DOMAIN calls[u] : ~Creates(calls[u][n], k)
  BY DEF Creates, Fresh
<1> HIDE DEF c, last
<1>6. \A u \in Tabs : \A n \in DOMAIN calls'[u] :
        \/ n \in DOMAIN calls[u] /\ calls'[u][n] = calls[u][n]
        \/ u = t /\ n = last /\ calls'[u][n] = c
  BY <1>1, <1>2, <1>3
<1>7. \A u \in Tabs : req[u] # NoRequest => calls'[u][1] = calls[u][1]
  BY <1>1, <1>2, <1>3, <1>4 DEF TInv, Requests
<1>8. (\A k \in Keys, u \in Tabs : \A n \in DOMAIN calls[u] :
         Creates(calls[u][n], k) /\ Ahead(u, n) => row[k] = NoRow)'
  <2> SUFFICES ASSUME NEW k \in Keys, NEW u \in Tabs, NEW n \in DOMAIN calls'[u],
                      Creates(calls'[u][n], k), Ahead(u, n)'
               PROVE  row'[k] = NoRow
    BY DEF Creates
  <2>1. Ahead(u, n) /\ row' = row
    BY <1>1 DEF Ahead
  <2>2. QED
    BY <1>5, <1>6, <2>1 DEF FreshIds
<1>9. (\A k \in Keys, u, v \in Tabs : \A n \in DOMAIN calls[u], m \in DOMAIN calls[v] :
         Creates(calls[u][n], k) /\ Creates(calls[v][m], k) => u = v /\ n = m)'
  <2> SUFFICES ASSUME NEW k \in Keys, NEW u \in Tabs, NEW v \in Tabs,
                      NEW n \in DOMAIN calls'[u], NEW m \in DOMAIN calls'[v],
                      Creates(calls'[u][n], k), Creates(calls'[v][m], k)
               PROVE  u = v /\ n = m
    BY DEF Creates
  <2>1. CASE Creates(c, k)
    BY <1>5, <1>6, <2>1
  <2>2. CASE ~Creates(c, k)
    <3>1. n \in DOMAIN calls[u] /\ calls'[u][n] = calls[u][n]
      BY <1>6, <2>2
    <3>2. m \in DOMAIN calls[v] /\ calls'[v][m] = calls[v][m]
      BY <1>6, <2>2
    <3>3. QED
      BY <3>1, <3>2 DEF FreshIds
  <2>3. QED
    BY <2>1, <2>2
<1>10. QED
  BY <1>1, <1>7, <1>8, <1>9 DEF FreshIds

LEMMA ButtonsFresh ==
  ASSUME TInv, TInv', FreshIds, NEW t \in Tabs, AccountPagesNext(t) \/ AdminPagesNext(t)
  PROVE  FreshIds'
<1>1. CASE SubmitCreateKey(t)
  BY <1>1, ClickFresh DEF SubmitCreateKey
<1>2. CASE SubmitLogin(t)
  BY ClickFresh, <1>2 DEF SubmitLogin, CreateKeys
<1>3. CASE SubmitPassword(t)
  BY ClickFresh, <1>3 DEF SubmitPassword, CreateKeys
<1>4. CASE Logout(t)
  BY ClickFresh, <1>4 DEF Logout, CreateKeys
<1>5. CASE SubmitRevoke(t)
  BY ClickFresh, <1>5 DEF SubmitRevoke, CreateKeys, RevokeOp
<1>6. CASE ToggleUser(t)
  <2>1. PICK u \in Users :
          Clicked(t, "updateUser", u, [active |-> ~ui[t].rows[u].active], FALSE,
                  ui[t].rows[u].active)
    BY <1>6 DEF ToggleUser
  <2> DEFINE saw == ui[t].rows[u].active
             asks == [active |-> ~saw]
  <2>2. Clicked(t, "updateUser", u, asks, FALSE, saw)
    BY <2>1
  <2> HIDE DEF saw, asks
  <2>3. QED
    BY <2>2, ClickFresh DEF CreateKeys
<1>7. CASE PromoteRole(t)
  <2>1. PICK u \in Users, r \in Roles :
          Clicked(t, "updateUser", u, [role |-> r], FALSE, ui[t].rows[u].active)
    BY <1>7 DEF PromoteRole
  <2> DEFINE saw == ui[t].rows[u].active
  <2>2. Clicked(t, "updateUser", u, [role |-> r], FALSE, saw)
    BY <2>1
  <2> HIDE DEF saw
  <2>3. QED
    BY <2>2, ClickFresh DEF CreateKeys
<1>8. CASE SubmitCreateUser(t)
  BY ClickFresh, <1>8 DEF SubmitCreateUser, CreateKeys
<1>9. CASE SubmitReset(t)
  BY ClickFresh, <1>9 DEF SubmitReset, CreateKeys
<1>10. CASE ToggleProject(t)
  <2>1. PICK p \in Projects :
          Clicked(t, "updateProject", p, [active |-> ~ui[t].rows[p].active], FALSE,
                  ui[t].rows[p].active)
    BY <1>10 DEF ToggleProject
  <2> DEFINE saw == ui[t].rows[p].active
             asks == [active |-> ~saw]
  <2>2. Clicked(t, "updateProject", p, asks, FALSE, saw)
    BY <2>1
  <2> HIDE DEF saw, asks
  <2>3. QED
    BY <2>2, ClickFresh DEF CreateKeys
<1>11. CASE SubmitCreateProject(t)
  BY ClickFresh, <1>11 DEF SubmitCreateProject, CreateKeys
<1>12. CASE SubmitEditProject(t)
  BY ClickFresh, <1>12 DEF SubmitEditProject, CreateKeys
<1>13. CASE SubmitAddMember(t)
  BY ClickFresh, <1>13 DEF SubmitAddMember, CreateKeys
<1>14. CASE ChangeRole(t)
  BY ClickFresh, <1>14 DEF ChangeRole, CreateKeys
<1>15. CASE SubmitRemove(t)
  BY ClickFresh, <1>15 DEF SubmitRemove, CreateKeys
<1>16. CASE OpenCreateKey(t) \/ OpenCreateUser(t) \/ OpenReset(t) \/ OpenCreateProject(t)
             \/ OpenEditProject(t) \/ OpenAddMember(t) \/ OpenRemove(t) \/ CloseReveal(t)
             \/ FilterKeys(t) \/ FilterTable(t)
  <2>1. UNCHANGED <<row, req, calls>>
    BY <1>16 DEF OpenCreateKey, OpenCreateUser, OpenReset, OpenCreateProject, OpenEditProject,
       OpenAddMember, OpenRemove, OpenDialog, CloseReveal, FilterKeys, FilterTable, serverVars,
       postVars
  <2>2. QED
    BY <2>1 DEF FreshIds, Creates, Ahead
<1>17. QED
  BY <1>1, <1>2, <1>3, <1>4, <1>5, <1>6, <1>7, <1>8, <1>9, <1>10, <1>11, <1>12, <1>13, <1>14, <1>15, <1>16
     DEF AccountPagesNext, AdminPagesNext

-----------------------------------------------------------------------------
(* What the backend does to keys: an INSERT where there was no row, a       *)
(* revocation, a deletion.                                                 *)

(* A request moves on; a row that was not there appears by its own INSERT. *)
LEMMA RequestFresh ==
  ASSUME TInv, TInv', FreshIds, NEW t \in Tabs, req[t] # NoRequest, calls' = calls,
         \A u \in Tabs \ {t} : req'[u] = req[u],
         req'[t] # NoRequest, req'[t].target = req[t].target, req'[t].op = req[t].op,
         Ahead(t, 1)' => Ahead(t, 1),
         \A k \in Keys : row[k] # NoRow => row'[k] # NoRow,
         \A k \in req'[t].swept : row'[k] # NoRow,
         \A k \in Keys : row[k] = NoRow /\ row'[k] # NoRow =>
           Creates(calls[t][1], k) /\ ~Ahead(t, 1)'
  PROVE  FreshIds'
<1>1. (\A k \in Keys, u \in Tabs : \A n \in DOMAIN calls[u] :
         Creates(calls[u][n], k) /\ Ahead(u, n) => row[k] = NoRow)'
  <2> SUFFICES ASSUME NEW k \in Keys, NEW u \in Tabs, NEW n \in DOMAIN calls[u],
                      Creates(calls[u][n], k), Ahead(u, n)'
               PROVE  row'[k] = NoRow
    BY DEF Creates
  <2>1. Ahead(u, n)
    BY DEF Ahead
  <2>2. row[k] = NoRow
    BY <2>1 DEF FreshIds
  <2>3. 1 \in DOMAIN calls[t]
    <3>1. calls[t] \in Seq(Calls) /\ calls[t] # <<>>
      BY DEF TInv, Requests
    <3>2. QED
      BY <3>1
  <2>4. ASSUME row'[k] # NoRow PROVE FALSE
    <3>1. Creates(calls[t][1], k) /\ ~Ahead(t, 1)'
      BY <2>2, <2>4
    <3>2. u = t /\ n = 1
      BY <2>3, <3>1 DEF FreshIds
    <3>3. QED
      BY <3>1, <3>2
  <2>5. QED
    BY <2>4
<1>2. (\A u \in Tabs : req[u] # NoRequest => \A k \in req[u].swept : row[k] # NoRow)'
  <2> SUFFICES ASSUME NEW u \in Tabs, req'[u] # NoRequest, NEW k \in req'[u].swept
               PROVE  row'[k] # NoRow
    OBVIOUS
  <2>1. k \in Keys
    BY DEF TInv, Requests, RequestOK
  <2>2. CASE u = t
    BY <2>2
  <2>3. CASE u # t
    BY <2>1, <2>3 DEF FreshIds
  <2>4. QED
    BY <2>2, <2>3
<1>3. (\A u \in Tabs : req[u] # NoRequest => req[u].target = calls[u][1].target)'
  BY DEF FreshIds
<1>4. QED
  BY <1>1, <1>2, <1>3 DEF FreshIds, Creates

(* A request that writes no key. *)
LEMMA QuietFresh ==
  ASSUME Apart, TInv, TInv', FreshIds, NEW t \in Tabs, req[t] # NoRequest, calls' = calls,
         \A u \in Tabs \ {t} : req'[u] = req[u], DOMAIN req'[t] = Fields,
         req'[t].target = req[t].target, req'[t].op = req[t].op,
         req'[t].swept = req[t].swept,
         Ahead(t, 1)' => Ahead(t, 1), \A k \in Keys : row'[k] = row[k]
  PROVE  FreshIds'
<1>1. req'[t] # NoRequest
  BY DEF Apart, Fields
<1>2. \A k \in req'[t].swept : row'[k] # NoRow
  BY DEF FreshIds, TInv, Requests, RequestOK
<1>3. QED
  BY <1>1, <1>2, RequestFresh

LEMMA AnswerFresh ==
  ASSUME Apart, TInv, TInv', FreshIds, NEW t \in Tabs, NEW ok, req[t] # NoRequest,
         Answer(t, ok), calls' = calls, row' = row
  PROVE  FreshIds'
<1>1. /\ DOMAIN req = Tabs /\ DOMAIN req[t] = Fields
  BY DEF TInv, Requests, RequestOK
<1>2. /\ DOMAIN req'[t] = Fields /\ req'[t].target = req[t].target /\ req'[t].op = req[t].op
      /\ req'[t].swept = req[t].swept /\ req'[t].at = "done"
      /\ \A u \in Tabs \ {t} : req'[u] = req[u]
  BY <1>1 DEF Answer, Fields
<1>3. req'[t] # NoRequest
  BY <1>2 DEF Apart, Fields
<1>4. ~Ahead(t, 1)'
  BY <1>2, <1>3 DEF Ahead
<1>5. QED
  BY <1>2, <1>4, QuietFresh

(* A commit of one row. *)
LEMMA StoreFresh ==
  ASSUME Apart, TInv, TInv', FreshIds, NEW t \in Tabs, NEW new, At(t, "loaded"),
         Store(req[t].target, new), Committed(t, new), calls' = calls, new # NoRow,
         row[req[t].target] = NoRow /\ req[t].target \in Keys => req[t].op \in CreateKeys
  PROVE  FreshIds'
<1>1. /\ DOMAIN req = Tabs /\ DOMAIN req[t] = Fields /\ req[t] # NoRequest
      /\ req[t].op = calls[t][1].op /\ DOMAIN row = Ids
  BY DEF TInv, Requests, RequestOK, Tables, At
<1>2. /\ DOMAIN req'[t] = Fields /\ req'[t].target = req[t].target /\ req'[t].op = req[t].op
      /\ req'[t].swept = req[t].swept /\ req'[t].at \in {"changed", "done"}
      /\ \A u \in Tabs \ {t} : req'[u] = req[u]
  BY <1>1 DEF Committed, Fields
<1>3. req'[t] # NoRequest
  BY <1>2 DEF Apart, Fields
<1>4. ~Ahead(t, 1)'
  BY <1>2, <1>3 DEF Ahead
<1>5. \A k \in Keys : row'[k] = IF k = req[t].target THEN new ELSE row[k]
  BY <1>1 DEF Store, Ids
<1>6. \A k \in Keys : row[k] # NoRow => row'[k] # NoRow
  BY <1>5
<1>7. \A k \in req'[t].swept : row'[k] # NoRow
  BY <1>1, <1>2, <1>6 DEF FreshIds, TInv, Requests, RequestOK
<1>8. \A k \in Keys : row[k] = NoRow /\ row'[k] # NoRow => Creates(calls[t][1], k)
  BY <1>1, <1>5 DEF Creates, FreshIds
<1>9. QED
  BY <1>1, <1>2, <1>3, <1>4, <1>6, <1>7, <1>8, RequestFresh

LEMMA ServeFresh ==
  ASSUME Apart, TInv, TInv', FreshIds, NEW t \in Tabs, Serve(t), calls' = calls
  PROVE  FreshIds'
<1>1. req[t] # NoRequest /\ RequestOK(req[t]) /\ DOMAIN req = Tabs
  BY DEF Serve, Load, Refuse, Insert, Update, Sweep, CommitPassword, Audit, At, TInv, Requests
<1>2. CASE Load(t)
  <2>1. /\ DOMAIN req'[t] = Fields /\ req'[t].target = req[t].target /\ req'[t].op = req[t].op
        /\ req'[t].swept = req[t].swept /\ \A u \in Tabs \ {t} : req'[u] = req[u]
        /\ row' = row
    BY <1>1, <1>2 DEF Load, RequestOK, Fields
  <2>2. Ahead(t, 1)
    BY <1>2 DEF Load, At, Ahead
  <2>3. QED
    BY <1>1, <2>1, <2>2, QuietFresh
<1>3. CASE Refuse(t)
  BY <1>1, <1>3, AnswerFresh DEF Refuse
<1>4. CASE Insert(t)
  <2>1. CASE IsRow(row[req[t].target])
    BY <1>1, <1>4, <2>1, AnswerFresh DEF Insert
  <2>2. CASE ~IsRow(row[req[t].target])
    <3>1. req[t].op \in Inserts \cup {"addMember"}
      BY <1>1, <1>4 DEF Insert, At, RequestOK, CallOK, Ops, OfUsers, OfProjects, OfMembers,
         OfKeys, Updates, Inserts, Sweeps
    <3>2. RowOK(req[t].target, req[t].asks) /\ req[t].target \in Ids
      BY <1>1, <3>1, InsertedOK DEF RequestOK
    <3>3. req[t].asks # NoRow
      BY <3>2, ToursAssumption DEF RowOK, Ids
    <3>4. req[t].target \in Keys => req[t].op \in CreateKeys
      BY <1>1, <3>1, IdsAssumption DEF RequestOK, CallOK, Inserts, CreateKeys, OfUsers,
         OfProjects, OfMembers
    <3>5. QED
      BY <1>4, <2>2, <3>3, <3>4, StoreFresh DEF Insert
  <2>3. QED
    BY <2>1, <2>2
<1>5. CASE Update(t)
  <2>1. CASE row[req[t].target] = Deleted
    BY <1>1, <1>5, <2>1, AnswerFresh DEF Update
  <2>2. CASE row[req[t].target] # Deleted
    <3> DEFINE new == Written(req[t], row[req[t].target])
    <3>1. req[t].op \in Updates \cup {"addMember"} /\ row[req[t].target] # NoRow
      BY <1>1, <1>5 DEF Update, At, RequestOK, CallOK, Ops, OfUsers, OfProjects, OfMembers,
         OfKeys, Updates, Inserts, Sweeps
    <3>2. RowOK(req[t].target, new) /\ req[t].target \in Ids
      BY <1>1, <2>2, <3>1, WrittenOK DEF RequestOK, TInv
    <3>3. Store(req[t].target, new) /\ Committed(t, new) /\ At(t, "loaded")
      BY <1>5, <2>2 DEF Update
    <3> HIDE DEF new
    <3>4. new # NoRow
      BY <3>2, ToursAssumption DEF RowOK, Ids
    <3>5. QED
      BY <3>1, <3>3, <3>4, StoreFresh
  <2>3. QED
    BY <2>1, <2>2
<1>6. CASE Sweep(t)
  <2>1. /\ DOMAIN req'[t] = Fields /\ req'[t].target = req[t].target /\ req'[t].op = req[t].op
        /\ req'[t].at = "swept" /\ req'[t].swept = KeysOf(req[t].target)
        /\ \A u \in Tabs \ {t} : req'[u] = req[u] /\ row' = row
    BY <1>1, <1>6 DEF Sweep, RequestOK, Fields
  <2>2. req'[t] # NoRequest
    BY <2>1 DEF Apart, Fields
  <2>3. ~Ahead(t, 1)'
    BY <2>1, <2>2 DEF Ahead
  <2>4. row' = row
    BY <1>6 DEF Sweep
  <2>5. \A k \in req'[t].swept : row'[k] # NoRow
    BY <2>1, <2>4 DEF KeysOf, IsRow
  <2>6. QED
    BY <1>1, <2>1, <2>2, <2>3, <2>4, <2>5, RequestFresh
<1>7. CASE CommitPassword(t)
  <2>1. /\ DOMAIN req'[t] = Fields /\ req'[t].target = req[t].target /\ req'[t].op = req[t].op
        /\ req'[t].swept = req[t].swept /\ req'[t].at \in {"changed", "done"}
        /\ \A u \in Tabs \ {t} : req'[u] = req[u]
    BY <1>1, <1>7 DEF CommitPassword, Committed, RequestOK, Fields
  <2>2. req'[t] # NoRequest
    BY <2>1 DEF Apart, Fields
  <2>3. ~Ahead(t, 1)'
    BY <2>1, <2>2 DEF Ahead
  <2>4. req[t].target \in Users
    BY <1>1, <1>7 DEF CommitPassword, At, RequestOK, CallOK, Sweeps, OfUsers
  <2>5. \A k \in Keys : row'[k] = IF k \in req[t].swept THEN Deleted ELSE row[k]
    BY <1>7, <2>4, IdsAssumption DEF CommitPassword, Ids
  <2>6. Deleted # NoRow
    BY ToursAssumption
  <2>7. \A k \in Keys : row[k] # NoRow <=> row'[k] # NoRow
    BY <1>1, <2>5, <2>6 DEF FreshIds
  <2>8. \A k \in req'[t].swept : row'[k] # NoRow
    BY <1>1, <2>1, <2>5, <2>6 DEF RequestOK
  <2>9. QED
    BY <1>1, <2>1, <2>2, <2>3, <2>7, <2>8, RequestFresh
<1>8. CASE Audit(t)
  BY <1>1, <1>8, AnswerFresh DEF Audit
<1>9. QED
  BY <1>2, <1>3, <1>4, <1>5, <1>6, <1>7, <1>8 DEF Serve

LEMMA SendFresh ==
  ASSUME Apart, TInv, TInv', FreshIds, NEW t \in Tabs, Send(t)
  PROVE  FreshIds'
<1>1. /\ calls' = calls /\ row' = row /\ DOMAIN req = Tabs
      /\ \A u \in Tabs \ {t} : req'[u] = req[u]
      /\ req'[t].target = calls[t][1].target /\ req'[t].at = "sent" /\ req'[t].swept = {}
  BY DEF Send, tabVars, TInv, Requests, Request
<1>2. \A u \in Tabs : \A n \in DOMAIN calls[u] : Ahead(u, n)' => Ahead(u, n)
  BY <1>1 DEF Ahead, Send
<1>3. (\A u \in Tabs : req[u] # NoRequest => req[u].target = calls[u][1].target)'
  BY <1>1 DEF FreshIds
<1>4. (\A u \in Tabs : req[u] # NoRequest => \A k \in req[u].swept : row[k] # NoRow)'
  <2> SUFFICES ASSUME NEW u \in Tabs, req'[u] # NoRequest, NEW k \in req'[u].swept
               PROVE  row'[k] # NoRow
    OBVIOUS
  <2>1. u # t
    BY <1>1
  <2>2. QED
    BY <1>1, <2>1 DEF FreshIds
<1>5. QED
  BY <1>1, <1>2, <1>3, <1>4 DEF FreshIds, Creates

LEMMA NextFresh == Apart /\ TInv /\ TInv' /\ FreshIds /\ [Next]_vars => FreshIds'
<1> SUFFICES ASSUME Apart, TInv, TInv', FreshIds, [Next]_vars PROVE FreshIds'
  OBVIOUS
<1>1. CASE UNCHANGED vars
  BY <1>1 DEF vars, serverVars, tabVars, FreshIds, Creates, Ahead
<1>2. ASSUME NEW t \in Tabs, Lose(t), UNCHANGED tabVars
      PROVE  FreshIds'
  BY <1>2, AnswerFresh DEF Lose, tabVars
<1>3. ASSUME NEW t \in Tabs, Serve(t), UNCHANGED tabVars
      PROVE  FreshIds'
  BY <1>3, ServeFresh DEF tabVars
<1>4. ASSUME NEW i \in tour.posts, Post(i), UNCHANGED tabVars
      PROVE  FreshIds'
  <2>1. req' = req /\ \A k \in Keys : row'[k] = row[k]
    BY <1>4, PostKeeps
  <2>2. QED
    <3>1. \A u \in Tabs : \A n : Ahead(u, n)' <=> Ahead(u, n)
      BY <2>1 DEF Ahead
    <3>2. calls' = calls
      BY <1>4 DEF tabVars
    <3>3. \A t \in Tabs : req[t] # NoRequest => req[t].swept \subseteq Keys
      BY DEF TInv, Requests, RequestOK
    <3>4. QED
      BY <2>1, <3>1, <3>2, <3>3 DEF FreshIds, Creates
<1>5. QED
  BY <1>1, <1>2, <1>3, <1>4, ButtonsFresh, MovesFresh, SettlesFresh, SendFresh
     DEF Next, TabNext

LEMMA InitFresh == Init => FreshIds
BY DEF Init, TabsInit, FreshIds

-----------------------------------------------------------------------------
LEMMA DeadStays ==
  ASSUME TInv, FreshIds, [Next]_vars, NEW k \in Keys, Dead(k)
  PROVE  Dead(k)'
<1>1. k \in Ids /\ k \notin Users \cup Projects \cup Members
  BY IdsAssumption DEF Ids
<1>2. CASE row' = row
  BY <1>2 DEF Dead
<1>3. CASE \E i \in tour.posts : Post(i)
  BY <1>3, PostKeeps DEF Dead
<1>4. CASE row' # row /\ ~\E i \in tour.posts : Post(i)
  <2>1. PICK t \in Tabs : Serve(t)
    <3>1. ASSUME NEW t \in Tabs, Send(t) \/ Lose(t) PROVE row' = row
      BY <3>1 DEF Send, Lose
    <3>2. QED
      BY <1>4, <3>1, PagesKeep, PagesSettle DEF Next, TabNext, vars, serverVars, postVars
  <2>2. req[t] # NoRequest /\ RequestOK(req[t])
    BY <2>1 DEF Serve, Load, Refuse, Insert, Update, Sweep, CommitPassword, Audit, At,
       TInv, Requests
  <2>3. CASE Insert(t)
    <3>1. ~IsRow(row[req[t].target]) /\ row' = [row EXCEPT ![req[t].target] = req[t].asks]
      BY <1>4, <2>3 DEF Insert, Store
    <3>2. ASSUME k = req[t].target PROVE FALSE
      <4>1. req[t].op \in CreateKeys
        BY <1>1, <2>2, <2>3, <3>2 DEF Insert, At, RequestOK, CallOK, Ops, OfUsers, OfProjects,
           OfMembers, OfKeys, Updates, Inserts, Sweeps, CreateKeys
      <4>2. calls[t] \in Seq(Calls) /\ calls[t] # <<>>
        BY <2>2 DEF TInv, Requests
      <4>3. 1 \in DOMAIN calls[t]
        BY <4>2
      <4>4. Creates(calls[t][1], k) /\ Ahead(t, 1)
        BY <2>2, <2>3, <3>2, <4>1 DEF Creates, Ahead, Insert, At, TInv, Requests, FreshIds
      <4>5. row[k] = NoRow
        BY <4>3, <4>4 DEF FreshIds
      <4>6. QED
        BY <3>1, <4>5, ToursAssumption DEF Dead
    <3>3. QED
      BY <1>1, <3>1, <3>2 DEF Dead, TInv, Tables
  <2>4. CASE Update(t)
    <3> DEFINE new == Written(req[t], row[req[t].target])
    <3>1. row' = [row EXCEPT ![req[t].target] = new] /\ row[req[t].target] # Deleted
      BY <1>4, <2>4 DEF Update, Store
    <3>2. CASE k = req[t].target
      <4>1. req[t].op \in Revokes
        BY <1>1, <2>2, <2>4, <3>2 DEF Update, At, RequestOK, CallOK, Ops, OfUsers, OfProjects,
           OfMembers, OfKeys, Inserts, Sweeps
      <4>2. req[t].asks.revoked = TRUE
        <5>1. req[t].asks \in [revoked : {TRUE}]
          BY <2>2, <4>1 DEF RequestOK, CallOK, AsksOf, Sweeps, Revokes
        <5>2. QED
          BY <5>1
      <4>3. row[k] \in KeyRow /\ row[k].revoked
        BY <3>1, <3>2 DEF Dead, TInv, Tables
      <4>4. new \in KeyRow
        BY <2>2, <3>1, <3>2, <4>1, <4>3, WrittenOK, ToursAssumption
           DEF RowOK, RequestOK, TInv, Updates
      <4>5. new.revoked
        BY <3>2, <4>2, <4>3 DEF Written, KeyRow
      <4>6. row'[k] = new
        BY <1>1, <3>1, <3>2 DEF TInv, Tables
      <4> HIDE DEF new
      <4>7. QED
        BY <4>4, <4>5, <4>6, ToursAssumption DEF Dead
    <3>3. CASE k # req[t].target
      BY <1>1, <3>1, <3>3 DEF Dead, TInv, Tables
    <3>4. QED
      BY <3>2, <3>3
  <2>5. CASE CommitPassword(t)
    <3>1. req[t].target \in Users
      BY <2>2, <2>5 DEF CommitPassword, At, RequestOK, CallOK, Sweeps, OfUsers
    <3>2. row'[k] = IF k \in req[t].swept THEN Deleted ELSE row[k]
      BY <1>1, <2>5, <3>1 DEF CommitPassword
    <3>3. QED
      BY <3>2 DEF Dead
  <2>6. QED
    BY <1>4, <2>1, <2>3, <2>4, <2>5 DEF Serve, Load, Refuse, Sweep, Audit
<1>5. QED
  BY <1>2, <1>3, <1>4

-----------------------------------------------------------------------------
(* What a request to revoke a key knows of it. *)
Kept(t) == req[t] # NoRequest /\ req[t].op \in Revokes =>
  /\ req[t].at # "changed"
  /\ req[t].at = "loaded" /\ req[t].seen.revoked => Dead(req[t].target)
  /\ req[t].at = "done" /\ req[t].ok => Dead(req[t].target)

(* What a panel shows of a key. *)
Marked(t) == {k \in Keys : page[t] \in KeyPages /\ k \in DOMAIN ui[t].rows
                           /\ ui[t].rows[k].revoked}

KInv == FreshIds /\ \A t \in Tabs : Kept(t) /\ \A k \in Marked(t) : Dead(k)

LEMMA ServeKept ==
  ASSUME TInv, TInv', KInv, [Next]_vars, NEW t \in Tabs, Serve(t), req'[t] # NoRequest,
         req'[t].op \in Revokes
  PROVE  Kept(t)'
<1>1. req[t] # NoRequest /\ RequestOK(req[t]) /\ DOMAIN req = Tabs
  BY DEF Serve, Load, Refuse, Insert, Update, Sweep, CommitPassword, Audit, At,
     TInv, Requests
<1>2. CASE Load(t)
  <2>1. /\ req'[t].op = req[t].op /\ req'[t].target = req[t].target /\ row' = row
        /\ req'[t].at = IF req[t].op \in {"login", "logout"} THEN "done" ELSE "loaded"
        /\ req'[t].seen = IF req[t].op \in Inserts \cup {"logout"} THEN NoRow
                          ELSE row[req[t].target]
    BY <1>1, <1>2 DEF Load, RequestOK, Fields
  <2>2. req'[t].at = "loaded" /\ req'[t].seen = row[req[t].target]
    BY <2>1 DEF Revokes, Inserts
  <2>3. Revocable(req[t])
    BY <1>2, <2>1 DEF Load, Accepted, Revokes
  <2>4. row[req[t].target] # NoRow
    BY <2>3 DEF Revocable, IsRow
  <2>5. QED
    BY <2>1, <2>2, <2>4 DEF Kept, Dead
<1>3. CASE Refuse(t)
  <2>1. req'[t].at = "done" /\ req'[t].ok = FALSE
    BY <1>1, <1>3 DEF Refuse, Answer, RequestOK, Fields
  <2>2. QED
    BY <2>1 DEF Kept
<1>4. CASE Insert(t)
  <2>1. req[t].op = req'[t].op
    BY <1>1, <1>4 DEF Insert, Answer, Committed, RequestOK, Fields
  <2>2. QED
    BY <1>1, <1>4, <2>1 DEF Insert, At, RequestOK, Updates
<1>5. CASE Update(t)
  <2>1. CASE row[req[t].target] = Deleted
    <3>1. req'[t].at = "done" /\ req'[t].ok = FALSE
      BY <1>1, <1>5, <2>1 DEF Update, Answer, RequestOK, Fields
    <3>2. QED
      BY <3>1 DEF Kept
  <2>2. CASE row[req[t].target] # Deleted
    <3> DEFINE now == row[req[t].target]
               new == Written(req[t], now)
    <3>1. Store(req[t].target, new) /\ Committed(t, new) /\ At(t, "loaded")
      BY <1>5, <2>2 DEF Update
    <3>2. /\ req'[t].op = req[t].op /\ req'[t].target = req[t].target
          /\ req'[t].at = IF req[t].op \in Audited THEN "changed" ELSE "done"
      BY <1>1, <3>1 DEF Committed, RequestOK, Fields
    <3>3. req'[t].at = "done" /\ req[t].target \in Keys
      BY <1>1, <3>2 DEF Audited, AdminOps, Revokes, RequestOK, CallOK, OfKeys
    <3>4. req[t].asks.revoked = TRUE /\ "revoked" \in DOMAIN req[t].asks
      <4>1. req[t].asks \in [revoked : {TRUE}]
        BY <1>1, <3>2 DEF RequestOK, CallOK, AsksOf, Sweeps, Revokes
      <4>2. QED
        BY <4>1
    <3>5. now # NoRow
      BY <1>1, <1>5, <3>1, <3>2 DEF RequestOK, At, Updates
    <3>6. now \in KeyRow
      BY <2>2, <3>3, <3>5 DEF TInv, Tables
    <3>7. new.revoked
      <4>1. new.revoked = IF req[t].asks.revoked # req[t].seen.revoked THEN TRUE
                          ELSE now.revoked
        BY <3>4, <3>6 DEF Written, KeyRow
      <4>2. CASE req[t].seen.revoked = TRUE
        <5>1. Dead(req[t].target)
          BY <1>1, <3>1, <3>2, <4>2 DEF KInv, Kept, At
        <5>2. now.revoked
          BY <2>2, <5>1 DEF Dead
        <5>3. QED
          BY <3>4, <4>1, <4>2, <5>2
      <4>3. CASE req[t].seen.revoked # TRUE
        BY <3>4, <4>1, <4>3
      <4>4. QED
        BY <4>2, <4>3
    <3>8. new \in KeyRow
      BY <1>1, <2>2, <3>2, <3>3, <3>5, WrittenOK DEF RowOK, RequestOK, TInv, Updates
    <3>9. row'[req[t].target] = new
      BY <3>1, <3>3 DEF Store, TInv, Tables, Ids
    <3> HIDE DEF new
    <3>10. Dead(req[t].target)'
      BY <3>2, <3>7, <3>8, <3>9, ToursAssumption DEF Dead
    <3>11. QED
      BY <3>3, <3>10 DEF Kept
  <2>3. QED
    BY <2>1, <2>2
<1>6. CASE Sweep(t) \/ CommitPassword(t)
  <2>1. req[t].op = req'[t].op /\ req[t].op \in Sweeps
    BY <1>1, <1>6 DEF Sweep, CommitPassword, Committed, At, RequestOK, Fields
  <2>2. QED
    BY <2>1 DEF Sweeps, Revokes
<1>7. CASE Audit(t)
  <2>1. req[t].op = req'[t].op /\ req[t].at = "changed"
    BY <1>1, <1>7 DEF Audit, Answer, At, RequestOK, Fields
  <2>2. QED
    BY <1>1, <2>1 DEF KInv, Kept
<1>8. QED
  BY <1>2, <1>3, <1>4, <1>5, <1>6, <1>7 DEF Serve

LEMMA NextKept ==
  ASSUME TInv, TInv', KInv, [Next]_vars
  PROVE  \A t \in Tabs : Kept(t)'
<1>1. ASSUME NEW t \in Tabs, req'[t] = req[t] PROVE Kept(t)'
  <2>1. ASSUME req[t] # NoRequest, req[t].op \in Revokes PROVE req[t].target \in Keys
    BY <2>1 DEF TInv, Requests, RequestOK, CallOK, OfKeys
  <2>2. req[t] # NoRequest /\ req[t].op \in Revokes /\ Dead(req[t].target) =>
          Dead(req[t].target)'
    BY <1>1, <2>1, DeadStays DEF KInv
  <2>3. QED
    BY <1>1, <2>2 DEF KInv, Kept, Dead
<1>2. ASSUME NEW t \in Tabs, req'[t] = NoRequest \/ req'[t].at = "sent"
                 \/ (req'[t].at = "done" /\ req'[t].ok = FALSE)
      PROVE  Kept(t)'
  BY <1>2 DEF Kept
<1>3. DOMAIN req = Tabs
  BY DEF TInv, Requests
<1>4. ASSUME NEW t \in Tabs, NEW u \in Tabs, Serve(t) PROVE Kept(u)'
  <2>1. CASE u = t
    BY <1>4, <2>1, ServeKept DEF Kept
  <2>2. CASE u # t
    <3>1. req'[u] = req[u]
      BY <1>3, <1>4, <2>2 DEF Serve, Load, Refuse, Insert, Update, Sweep, CommitPassword,
         Audit, Answer, Committed
    <3>2. QED
      BY <1>1, <3>1
  <2>3. QED
    BY <2>1, <2>2
<1>5. ASSUME NEW t \in Tabs, NEW u \in Tabs, Lose(t) PROVE Kept(u)'
  <2>1. DOMAIN req[t] = Fields
    BY <1>5 DEF Lose, TInv, Requests, RequestOK
  <2>2. req'[u] = req[u] \/ (req'[u].at = "done" /\ req'[u].ok = FALSE)
    BY <1>3, <1>5, <2>1 DEF Lose, Answer, Fields
  <2>3. QED
    BY <1>1, <1>2, <2>2
<1>6. ASSUME NEW t \in Tabs, NEW u \in Tabs, Send(t) PROVE Kept(u)'
  <2>1. req'[u] = req[u] \/ req'[u].at = "sent"
    BY <1>3, <1>6 DEF Send, Request
  <2>2. QED
    BY <1>1, <1>2, <2>1
<1>7. ASSUME NEW t \in Tabs, NEW u \in Tabs, AccountPagesDone(t) \/ AdminPagesDone(t)
      PROVE  Kept(u)'
  <2>1. req'[u] = req[u] \/ req'[u] = NoRequest
    BY <1>3, <1>7, PagesSettle
  <2>2. QED
    BY <1>1, <1>2, <2>1
<1>8. req' = req => \A t \in Tabs : Kept(t)'
  BY <1>1
<1>9. \A i \in tour.posts : Post(i) => req' = req
  BY PostKeeps
<1>10. QED
  BY <1>4, <1>5, <1>6, <1>7, <1>8, <1>9, PagesKeep DEF Next, TabNext, vars, serverVars, postVars

-----------------------------------------------------------------------------
(* A panel marks a key that it was opened with as revoked, or that its own  *)
(* request has revoked.                                                    *)
LEMMA SettlesMarked ==
  ASSUME TInv, KInv, NEW t \in Tabs, AccountPagesDone(t) \/ AdminPagesDone(t),
         NEW u \in Tabs, NEW k \in Marked(u)'
  PROVE  k \in Marked(u) \/ Dead(k)
<1>1. DOMAIN ui = Tabs /\ page' = page
      /\ DOMAIN ui[t] = {"rows", "admin", "dialog", "failed", "revealed"}
  BY DEF TInv, Screens, ScreenOK, AccountPagesDone, AdminPagesDone, LoginDone, PasswordDone,
     LogoutDone, CreateKeyDone, RevokeDone, FormDone, RowDone, Continue
<1>2. Message(t).rows = ui[t].rows /\ Broken(t).rows = ui[t].rows
      /\ \A kind : CloseDialog(t, kind).rows = ui[t].rows
  BY <1>1 DEF Message, Broken, CloseDialog
<1>3. ASSUME NEW to, NEW next, Continue(t, to, next), next.rows = ui[t].rows
      PROVE  k \in Marked(u)
  BY <1>1, <1>3 DEF Continue, Marked
<1>4. CASE RevokeDone(t)
  <2> DEFINE i == req[t].target
             rows == [j \in DOMAIN ui[t].rows |->
                        IF j = i THEN [ui[t].rows[j] EXCEPT !.revoked = TRUE]
                        ELSE ui[t].rows[j]]
             marked == [ui[t] EXCEPT !.rows = rows]
  <2>1. CASE req[t].ok
    <3>1. Continue(t, page[t], marked)
      BY <1>1, <1>4, <2>1 DEF RevokeDone
    <3>2. Dead(i)
      <4>1. req[t] # NoRequest /\ req[t].at = "done" /\ req[t].op \in Revokes
        BY <1>4 DEF RevokeDone, Settles, At, TInv, Requests
      <4>2. QED
        BY <2>1, <4>1 DEF KInv, Kept
    <3>3. marked.rows = rows
      BY <1>1
    <3>4. DOMAIN rows = DOMAIN ui[t].rows
          /\ \A j \in DOMAIN rows : j # i => rows[j] = ui[t].rows[j]
      OBVIOUS
    <3> HIDE DEF marked, rows
    <3>5. CASE u = t /\ k # i
      BY <1>1, <3>1, <3>3, <3>4, <3>5 DEF Continue, Marked
    <3>6. CASE u # t
      BY <1>1, <3>1, <3>6 DEF Continue, Marked
    <3>7. QED
      BY <3>2, <3>5, <3>6
  <2>2. CASE ~req[t].ok
    BY <1>2, <1>3, <1>4, <2>2 DEF RevokeDone
  <2>3. QED
    BY <2>1, <2>2
<1>5. CASE CreateKeyDone(t)
  <2> DEFINE shown == [CloseDialog(t, "createKey") EXCEPT !.revealed = req[t].target]
  <2>1. shown.rows = ui[t].rows
    BY <1>2 
  <2>2. Continue(t, page[t], shown) \/ Continue(t, "nowhere", Message(t))
    BY <1>5 DEF CreateKeyDone
  <2> HIDE DEF shown
  <2>3. QED
    BY <1>2, <1>3, <2>1, <2>2
<1>6. CASE LoginDone(t) \/ PasswordDone(t) \/ LogoutDone(t) \/ FormDone(t) \/ RowDone(t)
  <2>1. \E to, next : Continue(t, to, next) /\ next.rows = ui[t].rows
    BY <1>2, <1>6 DEF LoginDone, PasswordDone, LogoutDone, FormDone, RowDone
  <2>2. QED
    BY <1>3, <2>1
<1>7. QED
  BY <1>4, <1>5, <1>6 DEF AccountPagesDone, AdminPagesDone

LEMMA ArriveMarked ==
  ASSUME TInv, NEW t \in Tabs, Arrive(t), NEW u \in Tabs, NEW k \in Marked(u)'
  PROVE  k \in Marked(u) \/ Dead(k)
<1> DEFINE p == going[t]
           who == Viewer(t)
<1>1. DOMAIN ui = Tabs /\ DOMAIN page = Tabs
      /\ DOMAIN ui[t] = {"rows", "admin", "dialog", "failed", "revealed"}
  BY DEF TInv, Screens, ScreenOK
<1>2. CASE u # t \/ (ui' = ui /\ page' = page)
  BY <1>1, <1>2 DEF Arrive, Marked
<1>3. CASE u = t /\ ui' = [ui EXCEPT ![t] = Refreshed(t, who)] /\ page[t] = p
  <2>1. page'[t] = page[t]
    BY <1>1, <1>3 DEF Arrive
  <2>2. page[t] \in KeyPages => Refreshed(t, who).rows = ui[t].rows
    BY <1>1 DEF Refreshed, KeyPages
  <2>3. ui'[t] = Refreshed(t, who)
    BY <1>1, <1>3
  <2>4. QED
    BY <1>3, <2>1, <2>2, <2>3 DEF Marked
<1>4. CASE u = t /\ ui' = [ui EXCEPT ![t] = [Blank EXCEPT !.failed = "page"]]
  <2>1. ui'[t].rows = <<>>
    BY <1>1, <1>4 DEF Blank, Opened
  <2>2. QED
    BY <1>4, <2>1 DEF Marked
<1>5. CASE /\ u = t /\ page' = [page EXCEPT ![t] = p]
           /\ ui' = [ui EXCEPT ![t] = Opened(RowsOf(p, who), IsAdmin(who))]
  <2>1. page'[t] = p /\ ui'[t].rows = RowsOf(p, who)
    BY <1>1, <1>5 DEF Opened
  <2>2. p \in KeyPages /\ k \in DOMAIN RowsOf(p, who) /\ RowsOf(p, who)[k].revoked
    BY <1>5, <2>1 DEF Marked
  <2>3. RowsOf(p, who)[k] = row[k]
    BY <2>2 DEF RowsOf
  <2>4. IsRow(row[k])
    BY <2>2 DEF RowsOf, KeyPages, KeysOf
  <2>5. QED
    BY <2>2, <2>3, <2>4 DEF Dead, IsRow
<1>6. \/ ui' = ui /\ page' = page
      \/ ui' = [ui EXCEPT ![t] = Refreshed(t, who)] /\ page[t] = p
      \/ ui' = [ui EXCEPT ![t] = [Blank EXCEPT !.failed = "page"]]
      \/ page' = [page EXCEPT ![t] = p]
         /\ ui' = [ui EXCEPT ![t] = Opened(RowsOf(p, who), IsAdmin(who))]
  BY DEF Arrive
<1>7. QED
  BY <1>2, <1>3, <1>4, <1>5, <1>6

LEMMA NextMarked ==
  ASSUME TInv, KInv, [Next]_vars, NEW u \in Tabs, NEW k \in Marked(u)'
  PROVE  k \in Marked(u) \/ Dead(k)
<1>1. DOMAIN ui = Tabs /\ DOMAIN ui[u] = {"rows", "admin", "dialog", "failed", "revealed"}
  BY DEF TInv, Screens, ScreenOK
<1>2. ui'[u].rows = ui[u].rows /\ page'[u] = page[u] => k \in Marked(u)
  BY DEF Marked
<1>3. ASSUME NEW t \in Tabs, AccountPagesNext(t) \/ AdminPagesNext(t) \/ Cancel(t)
      PROVE  ui'[u].rows = ui[u].rows /\ page'[u] = page[u]
  <2>1. ui' = ui \/ CloseReveal(t) \/ Cancel(t) \/ \E d : OpenDialog(t, d)
    BY <1>3 DEF AccountPagesNext, AdminPagesNext, SubmitLogin, SubmitPassword, Logout,
       OpenCreateKey, SubmitCreateKey, SubmitRevoke, FilterKeys, FilterTable,
       ToggleUser, PromoteRole, OpenCreateUser, OpenReset, SubmitCreateUser, SubmitReset,
       ToggleProject, OpenCreateProject, OpenEditProject, SubmitCreateProject,
       SubmitEditProject, OpenAddMember, SubmitAddMember, ChangeRole, OpenRemove,
       SubmitRemove, Clicked
  <2>2. CloseReveal(t) \/ Cancel(t) => ui'[u].rows = ui[u].rows
    BY <1>1 DEF CloseReveal, Cancel
  <2>3. ASSUME NEW d, OpenDialog(t, d) PROVE ui'[u].rows = ui[u].rows
    BY <1>1, <2>3 DEF OpenDialog
  <2>4. page' = page
    BY <1>3 DEF AccountPagesNext, AdminPagesNext, SubmitLogin, SubmitPassword, Logout,
       OpenCreateKey, SubmitCreateKey, SubmitRevoke, FilterKeys, FilterTable,
       ToggleUser, PromoteRole, OpenCreateUser, OpenReset, SubmitCreateUser, SubmitReset,
       ToggleProject, OpenCreateProject, OpenEditProject, SubmitCreateProject,
       SubmitEditProject, OpenAddMember, SubmitAddMember, ChangeRole, OpenRemove,
       SubmitRemove, Clicked, OpenDialog, CloseReveal, Cancel
  <2>5. QED
    BY <2>1, <2>2, <2>3, <2>4
<1>4. ASSUME NEW t \in Tabs, Send(t) \/ \E p \in AppPages : Follow(t, p)
      PROVE  ui' = ui /\ page' = page
  BY <1>4 DEF Send, Follow, tabVars
<1>5. UNCHANGED tabVars => ui' = ui /\ page' = page
  BY DEF tabVars
<1>6. QED
  BY <1>2, <1>3, <1>4, <1>5, SettlesMarked, ArriveMarked DEF Next, TabNext, vars

(* A key that a panel shows as revoked does not work any more, for any      *)
(* number of tabs, people and keys (ApiKeyPanel.tsx:227-235).              *)
THEOREM RevokedForGood == ASSUME Apart PROVE Spec => []ShownRevokedIsDead
<1>1. Init => TInv /\ KInv
  BY InitTInv, InitFresh
     DEF Init, TabsInit, KInv, Kept, Marked, KeyPages
<1>2. TInv /\ KInv /\ [Next]_vars => TInv' /\ KInv'
  <2> SUFFICES ASSUME TInv, KInv, [Next]_vars PROVE TInv' /\ KInv'
    OBVIOUS
  <2>1. TInv'
    BY NextTInv
  <2>2. FreshIds'
    BY <2>1, Apart, NextFresh DEF KInv
  <2>3. \A t \in Tabs : \A k \in Marked(t)' : Dead(k)'
    <3> SUFFICES ASSUME NEW t \in Tabs, NEW k \in Marked(t)' PROVE Dead(k)'
      OBVIOUS
    <3>1. Dead(k) /\ k \in Keys
      BY NextMarked DEF KInv, Marked
    <3>2. QED
      BY <3>1, DeadStays DEF KInv
  <2>4. QED
    BY <2>1, <2>2, <2>3, NextKept DEF KInv
<1>3. TInv /\ KInv => ShownRevokedIsDead
  BY DEF KInv, Marked, ShownRevokedIsDead, Dead
<1>4. QED
  BY <1>1, <1>2, <1>3, PTL DEF Spec
=============================================================================
