------------------------------- MODULE Tabs -------------------------------
(***************************************************************************)
(* A browser tab of the web frontend: the page it shows, the page it is    *)
(* loading, the state the components of the page keep (`ui'), and the      *)
(* server actions it has called.  Next.js sends the actions of a tab one   *)
(* at a time, in order; a navigation drops those not yet sent.  What comes *)
(* after the `await' of an action runs when its answer is there, with the  *)
(* values of the render that made the call; on a page that is gone its     *)
(* setState does nothing.                                                  *)
(***************************************************************************)
EXTENDS AccountService, Sequences, SequencesExt

CONSTANTS
  Browsers,    \* tabs of one browser share its cookie
  Person,      \* Person[b]: the account of who uses browser b
  Tours        \* the situations to start from, see TabsInit; tour.clicks
               \* bounds the server actions called, tour.pages the pages,
               \* tour.faults the requests lost, tour.posts the rows
               \* created outside the administration

VARIABLES
  tour,        \* the situation chosen
  cookie,      \* cookie[b]: whose access_token browser b holds
  page,        \* page[t]: the page on the screen
  going,       \* going[t]: the page being loaded, or "nowhere"
  ui,          \* ui[t]: props and state of the components of that page
  calls,       \* calls[t]: the server actions called and not settled
  gaveUp,      \* history: a dialog was cancelled while its call was out
  clicks       \* how many server actions were called

tabVars == <<tour, cookie, page, going, ui, calls, gaveUp, clicks>>
vars == <<serverVars, tabVars>>

AppPages == {"home", "keys", "adminkeys", "users", "projects", "members"}
Pages == AppPages \cup {"login", "password"}

Closed == [kind |-> "none", target |-> NoTarget]
Dialog(kind, i) == [kind |-> kind, target |-> i]

(* A page just opened; `rows' are the rows it got as props. *)
Opened(rows, admin) ==
  [rows |-> rows, admin |-> admin, dialog |-> Closed, failed |-> "no",
   revealed |-> NoTarget]

Blank == Opened(<<>>, FALSE)

Browser(t) == tour.browser[t]
Viewer(t) == cookie[Browser(t)]

(* The page can be used: it is not replaced by the error page. *)
On(t, p) == page[t] = p /\ ui[t].failed # "page"

(* The calls of the components on the screen, and of the open dialog: a     *)
(* call is `here' while its page is, `modal' while its dialog is open.     *)
Waiting(t, ops) == \E n \in DOMAIN calls[t] : calls[t][n].here /\ calls[t][n].op \in ops
WaitingFor(t, ops, i) == \E n \in DOMAIN calls[t] :
  calls[t][n].here /\ calls[t][n].op \in ops /\ calls[t][n].target = i
DialogWaiting(t) == \E n \in DOMAIN calls[t] : calls[t][n].modal

(* startTransition(async () => { await op(...); ... }) *)
Call(t, op, i, asks, modal, saw) ==
  /\ clicks < tour.clicks
  /\ clicks' = clicks + 1
  /\ calls' = [calls EXCEPT ![t] = Append(@,
       [op |-> op, target |-> i, asks |-> asks, form |-> modal, modal |-> modal,
        here |-> TRUE, saw |-> saw])]

Clicked(t, op, i, asks, modal, saw) ==
  /\ Call(t, op, i, asks, modal, saw)
  /\ UNCHANGED <<serverVars, tour, cookie, page, going, ui, gaveUp>>

-----------------------------------------------------------------------------
(* Dialogs: shown by a button, hidden by Cancel at any time. *)
OpenDialog(t, d) ==
  /\ ui[t].dialog = Closed
  /\ ui' = [ui EXCEPT ![t].dialog = d, ![t].failed = "no"]
  /\ UNCHANGED <<serverVars, tour, cookie, page, going, calls, gaveUp, clicks>>

Cancel(t) ==
  /\ ui[t].dialog # Closed
  /\ ui[t].failed # "page"
  /\ ui' = [ui EXCEPT ![t].dialog = Closed, ![t].failed = "no"]
  /\ gaveUp' = [gaveUp EXCEPT ![t] = @ \/ DialogWaiting(t)]
  /\ calls' = [calls EXCEPT ![t] =
       [n \in DOMAIN @ |-> [@[n] EXCEPT !.modal = FALSE]]]
  /\ UNCHANGED <<serverVars, tour, cookie, page, going, clicks>>

-----------------------------------------------------------------------------
(* Loading a page: its server components run as the holder of the cookie.  *)
Member(u) == \E m \in Members : MemberUser[m] = u /\ Active(m)

(* Mutant: a forced change of the password is sent back to the login page. *)
RedirectToLogin(p, u) ==
  IF p = "login" THEN IF SignedIn(u) THEN "home" ELSE p
  ELSE IF ~SignedIn(u) \/ (p # "password" /\ row[u].must) THEN "login"
  ELSE p

(* The redirects of the layout of the application and of the pages. *)
Redirect(p, u) ==
  IF p = "login" THEN IF SignedIn(u) THEN "home" ELSE p
  ELSE IF ~SignedIn(u) THEN "login"
  ELSE IF p = "password" THEN p
  ELSE IF row[u].must THEN "password"
  ELSE IF \/ p \in {"users", "adminkeys"} /\ ~IsAdmin(u)
          \/ p \in {"projects", "members"} /\ row[u].role = "user" THEN "home"
  ELSE p

(* The rows a page asks the backend for. Bound: of all rows, those that the  *)
(* search of the tour finds.                                               *)
RowsOf(p, u) ==
  LET listed == CASE p = "keys" -> KeysOf(u)
                  [] p = "adminkeys" -> {k \in Keys : IsRow(row[k])}
                  [] p = "users" -> {v \in Users : IsRow(row[v])}
                  [] p = "projects" -> {q \in Projects : IsRow(row[q]) /\
                       (IsAdmin(u) \/ (q = HomeProject /\ Member(u)))}
                  [] p = "members" -> {m \in Members : Active(m)}
                  [] OTHER -> {}
  IN  [i \in listed \cap tour.searched |-> row[i]]

(* list_members refuses a project_admin who is not a member: error page. *)
Fails(p, u) == p = "members" /\ ~IsAdmin(u) /\ ~Member(u)

(* A refresh keeps the state of the components: the key panels made their   *)
(* table out of the props of their first render (useState(initialKeys)),    *)
(* the others show the new props; a row that is gone takes its dialog along.*)
Refreshed(t, u) ==
  LET rows == RowsOf(page[t], u)
      d == ui[t].dialog
  IN  [ui[t] EXCEPT
        !.rows = IF page[t] \in {"keys", "adminkeys"} THEN @ ELSE rows,
        !.admin = IsAdmin(u),
        !.dialog = IF d.target # NoTarget /\ d.target \notin DOMAIN rows
                   THEN Closed ELSE d]

Leave(t) == [n \in DOMAIN calls[t] |->
  [calls[t][n] EXCEPT !.here = FALSE, !.modal = FALSE]]

Arrive(t) ==
  LET p == going[t]
      u == Viewer(t)
  IN
  /\ going[t] # "nowhere"
  /\ IF Redirect(p, u) # p THEN
       /\ going' = [going EXCEPT ![t] = Redirect(p, u)]
       /\ UNCHANGED <<page, ui, calls>>
     ELSE
       /\ going' = [going EXCEPT ![t] = "nowhere"]
       /\ page' = [page EXCEPT ![t] = p]
       /\ IF Fails(p, u) THEN
            ui' = [ui EXCEPT ![t] = [Blank EXCEPT !.failed = "page"]]
            /\ calls' = [calls EXCEPT ![t] = Leave(t)]
          ELSE IF p = page[t] /\ ui[t].failed # "page" THEN
            ui' = [ui EXCEPT ![t] = Refreshed(t, u)] /\ UNCHANGED calls
          ELSE
            ui' = [ui EXCEPT ![t] = Opened(RowsOf(p, u), IsAdmin(u))]
            /\ calls' = [calls EXCEPT ![t] = Leave(t)]
  /\ UNCHANGED <<serverVars, tour, cookie, gaveUp, clicks>>

(* A link of the sidebar, or a reload after an error. Bound: the tab keeps to  *)
(* the pages of its tour.                                                  *)
Follow(t, p) ==
  /\ p \in tour.pages[t]
  /\ going[t] \in {"nowhere", page[t]}
  /\ IF ui[t].failed = "page" THEN p = page[t] /\ calls[t] = <<>>
     ELSE page[t] \in AppPages /\ p # page[t] /\ ui[t].dialog = Closed
  /\ going' = [going EXCEPT ![t] = p]
  /\ calls' = [calls EXCEPT ![t] = SubSeq(@, 1, IF @ = <<>> THEN 0 ELSE 1)]
  /\ UNCHANGED <<serverVars, tour, cookie, page, ui, gaveUp, clicks>>

(* The next server action is sent, with the cookie of the browser. *)
Send(t) ==
  /\ calls[t] # <<>>
  /\ req[t] = NoRequest
  /\ req' = [req EXCEPT ![t] = Request(calls[t][1],
       IF calls[t][1].op = "login" THEN calls[t][1].target ELSE Viewer(t))]
  /\ UNCHANGED <<row, had, audit, faults, postVars, tabVars>>

(* The answer is there and the code after the `await' runs: the call is     *)
(* over, the page loads `to' and its components are in state `next'.       *)
Settles(t, ops) == At(t, "done") /\ calls[t][1].op \in ops

Continue(t, to, next) ==
  /\ calls' = [calls EXCEPT ![t] = Tail(@)]
  /\ req' = [req EXCEPT ![t] = NoRequest]
  /\ IF calls[t][1].here
     THEN /\ going' = [going EXCEPT ![t] = IF to = "nowhere" THEN @ ELSE to]
          /\ ui' = [ui EXCEPT ![t] = next]
     ELSE UNCHANGED <<going, ui>>
  /\ UNCHANGED <<row, had, audit, faults, postVars, tour, page, gaveUp, clicks>>

(* catch: the message goes to the form that made the call, if still open. *)
Message(t) == [ui[t] EXCEPT !.failed =
  IF calls[t][1].modal \/ page[t] \in {"login", "password"}
  THEN "message" ELSE @]

(* No catch: the error page replaces the page. *)
Broken(t) == [ui[t] EXCEPT !.failed = "page", !.dialog = Closed, !.revealed = NoTarget]

(* onClose of a dialog hides whichever dialog of its kind is open now. *)
CloseDialog(t, kind) == [ui[t] EXCEPT !.dialog =
  IF @.kind = kind /\ @.target \in {NoTarget, calls[t][1].target} THEN Closed ELSE @]

(* The tables a situation starts from, who uses the browsers, and bounds. *)
ASSUME ToursAssumption ==
  /\ Person \in [Browsers -> Users]
  /\ {NoRow, Deleted} \cap (UserRow \cup ProjectRow \cup MemberRow \cup KeyRow) = {}
  /\ NoRow # Deleted
  /\ \A tr \in Tours :
       /\ DOMAIN tr.row = Ids
       /\ \A u \in Users : tr.row[u] \in UserRow \cup {NoRow}
       /\ \A p \in Projects : tr.row[p] \in ProjectRow \cup {NoRow}
       /\ \A m \in Members : tr.row[m] \in MemberRow \cup {NoRow}
       /\ \A k \in Keys : tr.row[k] \in KeyRow \cup {NoRow, Deleted}
       /\ \A b \in Browsers : tr.row[Person[b]] # NoRow
       /\ tr.browser \in [Tabs -> Browsers]
       /\ tr.cookie \in [Browsers -> Users \cup {NoUser}]
       /\ tr.start \in [Tabs -> Pages]
       /\ tr.clicks \in Nat /\ tr.faults \in Nat
       /\ tr.posts \subseteq Users \cup Projects

TabsInit ==
  /\ tour \in Tours
  /\ row = tour.row
  /\ had = [i \in Ids |-> {tour.row[i]} \ {NoRow}]
  /\ audit = {}
  /\ req = [t \in Tabs |-> NoRequest]
  /\ faults = tour.faults
  /\ posting = {} /\ unlogged = {}
  /\ cookie = tour.cookie
  /\ page = [t \in Tabs |-> "login"]
  /\ going = tour.start
  /\ ui = [t \in Tabs |-> Blank]
  /\ calls = [t \in Tabs |-> <<>>]
  /\ gaveUp = [t \in Tabs |-> FALSE]
  /\ clicks = 0
=============================================================================
