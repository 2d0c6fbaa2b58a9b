----------------------------- MODULE EntityTabs -----------------------------
(***************************************************************************)
(* A browser tab on the entity pages: where it is, what it is loading, the *)
(* state the components of the page keep and the server actions it has     *)
(* called.  As in Tabs, Next.js sends the actions of a tab in order and    *)
(* drops those not yet sent when the tab navigates.  A page reads the      *)
(* backend in several requests.  After an action has settled its code goes *)
(* on even if the page is gone: setState does nothing then, but the router *)
(* and further actions are called.                                         *)
(***************************************************************************)
EXTENDS EntityRoutes

CONSTANTS
  PageSize,  \* rows of a page of the list
  Tours      \* the situations to start from, see TabsInit; tour.clicks bounds
             \* the server actions called, tour.faults what may be lost,
             \* tour.pages[t] the pages that tab t visits, tour.filters
             \* the filters of the list that are touched

VARIABLES
  tour,      \* the situation chosen
  loc,       \* loc[t]: the location of tab t
  going,     \* going[t]: the location it loads, or Nowhere
  got,       \* got[t]: what has been fetched for it
  ui,        \* ui[t]: props and state of the components on the screen
  calls,     \* calls[t]: the server actions called and not settled
  stale,     \* history: what is on the screen may be old - the entity has been
             \* changed from elsewhere, or by a commit that came after the answer
             \* was used, or an answer or a commit was lost
  clicks     \* how many server actions were called

tabVars == <<tour, loc, going, got, ui, calls, stale, clicks>>
vars == <<serverVars, tabVars>>

Pages == {"list", "review", "detail", "edit", "bundle"}
Place(p, e) == [page |-> p, of |-> e, status |-> "any", tags |-> {}, offset |-> 0]
Nowhere == Place("nowhere", NoEntity)
Locations == {l \in [page : Pages \cup {"nowhere"}, of : Entities \cup {NoEntity},
                     status : Statuses \cup {"any"}, tags : SUBSET Tags, offset : Nat] :
                /\ l.page \in {"detail", "edit"} => l.of # NoEntity
                /\ l.page # "list" => l = Place(l.page, l.of)}
Nothing == [rows |-> NoEntity, parts |-> NoEntity, total |-> 0]

ASSUME ToursAssumption ==
  /\ PageSize \in Nat \ {0}
  /\ \A s \in Tours :
       /\ s.who \in [Tabs -> People]
       /\ s.start \in [Tabs -> {l \in Locations : l.offset = 0}]
       /\ s.entity \in [Entities -> EntityRow \cup {NoEntity}]
       /\ s.clicks \in Nat

(* A page just opened on what was fetched. chips[x] counts the chips of x,  *)
(* hung are the components that wait for a call that was dropped, and late *)
(* says that an edit form that had been left has loaded another page.      *)
Opened(g, l) ==
  [rows |-> g.rows, parts |-> g.parts, total |-> g.total,
   chips |-> [x \in Tags |-> IF l.page = "detail" /\ x \in g.rows[l.of].tags THEN 1 ELSE 0],
   active |-> l.tags, dialog |-> "none", dismissed |-> {}, failed |-> "no",
   result |-> NoEntity, hung |-> {}, late |-> FALSE]

Blank == Opened([Nothing EXCEPT !.rows = <<>>, !.parts = <<>>], Nowhere)

User(t) == tour.who[t]
Shown(t) == DOMAIN ui[t].rows
Quiet(t) == calls[t] = <<>> /\ going[t] = Nowhere

(* The page can be used: no error page, and no other page on its way.      *)
(* Bound: a person who has followed a link waits for the page.             *)
On(t, p) == loc[t].page = p /\ ui[t].failed # "page" /\ going[t].page \in {"nowhere", p}

(* isPending: of a component, for a target. *)
PendingFor(t, form, e) ==
  \/ <<form, e>> \in ui[t].hung
  \/ \E n \in DOMAIN calls[t] :
       calls[t][n].waits /\ calls[t][n].form = form /\ calls[t][n].target = e
Pending(t, form) == \E e \in Entities : PendingFor(t, form, e)

(* `form' is the component that made the call; it is on the screen and      *)
(* pending while it `waits', the page is while `here'. `all' are the tags  *)
(* that the submission of a new entity is to set.                          *)
Action(form, op, e, arg, all) ==
  [form |-> form, op |-> op, target |-> e, arg |-> arg, all |-> all,
   here |-> TRUE, waits |-> TRUE]

(* startTransition(async () => { await op(...); ... }) *)
Call(t, form, op, e, arg, all) ==
  /\ clicks < tour.clicks
  /\ clicks' = clicks + 1
  /\ calls' = [calls EXCEPT ![t] = Append(@, Action(form, op, e, arg, all))]

Clicked(t, form, op, e, arg) ==
  /\ Call(t, form, op, e, arg, {})
  /\ UNCHANGED <<serverVars, tour, loc, going, got, ui, stale>>

Set(t, new) ==
  /\ ui' = [ui EXCEPT ![t] = new]
  /\ UNCHANGED <<serverVars, tour, loc, going, got, calls, stale, clicks>>

-----------------------------------------------------------------------------
(* Loading a page *)

Matching(l) == {n \in DOMAIN Order : LET e == Order[n] IN
  /\ entity[e] # NoEntity
  /\ l.status \in {"any", entity[e].status}
  /\ l.tags \subseteq entity[e].tags}

(* The row that the n-th entity has in the result. *)
Rank(l, n) == Cardinality({m \in Matching(l) : m <= n})

(* The entities that a page asks for. Bound: the candidates of the review  *)
(* page are fewer than its limit of 50.                                    *)
Listed(l) ==
  CASE l.page = "list" -> 
         {Order[n] : n \in {m \in Matching(l) :
            Rank(l, m) \in l.offset + 1 .. l.offset + PageSize}}
    [] l.page = "review" -> {e \in Entities : IsEntity(e) /\ entity[e].status = "candidate"}
    [] OTHER -> {l.of} \ {NoEntity}

Columns(e) == [c \in {"status", "text", "tags"} |-> entity[e][c]]

HasParts(l) == l.page \in {"review", "detail"}

FetchRows(t) ==
  LET l == going[t] IN
  /\ l # Nowhere /\ got[t].rows = NoEntity
  /\ got' = [got EXCEPT
       ![t].rows = IF l.page = "bundle" THEN <<>> ELSE [e \in Listed(l) |-> Columns(e)],
       ![t].total = Cardinality(Matching(l))]
  /\ UNCHANGED <<serverVars, tour, loc, going, ui, calls, stale, clicks>>

(* Aliases and contexts: of the cards after the cards are known, of the     *)
(* details before or after the entity.                                     *)
FetchParts(t) ==
  LET l == going[t] IN
  /\ HasParts(l) /\ got[t].parts = NoEntity
  /\ l.page = "review" => got[t].rows # NoEntity
  /\ got' = [got EXCEPT ![t].parts =
       [e \in IF l.page = "review" THEN DOMAIN got[t].rows ELSE {l.of} |-> entity[e].parts]]
  /\ UNCHANGED <<serverVars, tour, loc, going, ui, calls, stale, clicks>>

Fetched(t) == got[t].rows # NoEntity /\ (HasParts(going[t]) => got[t].parts # NoEntity)

(* The calls of components that are gone. *)
Unmounted(cs) == [n \in DOMAIN cs |-> [cs[n] EXCEPT !.here = FALSE, !.waits = FALSE]]

(* The bundle page opened with a root in its address asks at once. *)
FirstCalls(l) == IF l.page = "bundle" /\ l.of # NoEntity
                 THEN <<Action("bundle", "bundle", l.of, NoEntity, {})>> ELSE <<>>

(* A page that is loaded again keeps its state and gets new props. *)
Arrive(t) ==
  LET l == going[t] IN
  /\ l # Nowhere /\ Fetched(t)
  /\ loc' = [loc EXCEPT ![t] = l]
  /\ going' = [going EXCEPT ![t] = Nowhere]
  /\ got' = [got EXCEPT ![t] = Nothing]
  /\ IF l.page = loc[t].page /\ l.of = loc[t].of /\ ui[t].failed # "page"
     THEN /\ ui' = [ui EXCEPT ![t].rows = got[t].rows, ![t].parts = got[t].parts,
                              ![t].total = got[t].total]
          /\ UNCHANGED calls
     ELSE /\ ui' = [ui EXCEPT ![t] = Opened(got[t], l)]
          /\ calls' = [calls EXCEPT ![t] =
               Unmounted(@) \o FirstCalls(l)]
  /\ UNCHANGED <<serverVars, tour, stale, clicks>>

(* router.push, or a link. *)
Navigate(t, l) ==
  /\ going' = [going EXCEPT ![t] = l]
  /\ got' = [got EXCEPT ![t] = Nothing]

(* router.refresh: the page on the screen, or the one on its way, is read  *)
(* (again).                                                                *)
Refreshing(t) == IF going[t] = Nowhere THEN loc[t] ELSE going[t]

Rest(t) == Tail(calls[t])

(* A call of the same submission of a new entity as c. *)
SameNew(c, d) == d.form = "new" /\ d.target = c.target

(* What remains of a queue when the tab navigates: the call on its way. If   *)
(* one of its submission is dropped, Promise.all waits for ever.           *)
First(cs) ==
  IF cs = <<>> THEN <<>> ELSE
  <<IF cs[1].form = "new" /\ \E n \in DOMAIN Tail(cs) : SameNew(cs[1], Tail(cs)[n])
    THEN [cs[1] EXCEPT !.form = "none"] ELSE cs[1]>>
Sent(t) == First(calls[t])

(* The component of a call that is dropped waits for ever, as long as it is  *)
(* on the screen: the calls after the k-th are dropped.                    *)
Hanging(t, k) == ui[t].hung \cup
  {<<calls[t][n].form, calls[t][n].target>> :
     n \in {m \in DOMAIN calls[t] : m > k /\ calls[t][m].waits}}

(* A link of a page or of the sidebar, and loading again after an error. *)
Links(t) ==
  IF ui[t].failed = "page" THEN {loc[t]} ELSE
  {l \in CASE loc[t].page = "list" -> {Place("detail", e) : e \in Shown(t)}
           [] loc[t].page = "review" -> {Place(p, e) : p \in {"detail", "edit"},
                                                       e \in Shown(t) \ ui[t].dismissed}
           [] loc[t].page = "detail" -> {Place("edit", loc[t].of), Place("bundle", loc[t].of)}
           [] loc[t].page = "edit" -> {Place("detail", loc[t].of)}
           [] OTHER -> {} :
     l.page \in tour.pages[t]}
  \cup {Place(p, NoEntity) : p \in (tour.pages[t] \cap {"list", "review", "bundle"})
                                     \ {loc[t].page}}

Follow(t) == \E l \in Links(t) :
  /\ going[t] \in {Nowhere, loc[t]}
  /\ ui[t].dialog = "none"
  /\ Navigate(t, l)
  /\ calls' = [calls EXCEPT ![t] = Sent(t)]
  /\ ui' = [ui EXCEPT ![t].hung = Hanging(t, 1)]
  /\ stale' = [stale EXCEPT ![t] = FALSE]
  /\ UNCHANGED <<serverVars, tour, loc, clicks>>

-----------------------------------------------------------------------------
(* Server actions *)

Send(t) ==
  /\ calls[t] # <<>>
  /\ req[t] = NoRequest
  /\ req' = [req EXCEPT ![t] = Request(t, calls[t][1], User(t))]
  /\ UNCHANGED <<entity, unsaved, taken, faults, tabVars>>

Settles(t, form) == At(t, "done") /\ calls[t][1].form = form

(* The code after the `await': loads the page `l' (or none); `screen' is     *)
(* what is on the screen, `rest' are the calls from then on.               *)
GoOn(t, screen, l, rest) ==
  /\ calls' = [calls EXCEPT ![t] = rest]
  /\ req' = [req EXCEPT ![t] = NoRequest]
  /\ ui' = [ui EXCEPT ![t] = screen]
  /\ IF l = Nowhere THEN UNCHANGED <<going, got>> ELSE Navigate(t, l)
  /\ stale' = [stale EXCEPT ![t] = @ \/ (l = loc[t] /\ going[t] \notin {Nowhere, l})]
  /\ UNCHANGED <<entity, unsaved, taken, faults, tour, loc, clicks>>

(* It leaves the components in state `next' if they are still there. *)
Continue(t, next, l, rest) == GoOn(t, IF calls[t][1].here THEN next ELSE ui[t], l, rest)

(* catch (e) { setError(...) } *)
Message(t) == [ui[t] EXCEPT !.failed = IF calls[t][1].waits THEN "message" ELSE @]

(* No catch: the error page replaces the page. *)
Broken(t) == [ui[t] EXCEPT !.failed = "page", !.dialog = "none", !.hung = {}]

(* The tab is about to go on after the answer of request q, on the page      *)
(* that made the call.                                                     *)
Awaited(t, q) ==
  /\ t = q.tab /\ At(t, "done") /\ calls[t][1].here
  /\ going[t] \in {Nowhere, loc[t]}
  /\ [req[t] EXCEPT !.at = q.at, !.ok = q.ok] = q

(* The transaction of an answered request commits. Tabs that look at the    *)
(* entity, other than the one that is about to go on after its answer,      *)
(* have an older state on the screen from now on.                          *)
Saved(q) ==
  /\ q \in unsaved
  /\ Commit(q)
  /\ stale' = [t \in Tabs |-> stale[t] \/
       /\ q.target \in {loc[t].of, going[t].of}
       /\ ~Awaited(t, q)]
  /\ UNCHANGED <<tour, loc, going, got, ui, calls, clicks>>

TabsInit ==
  /\ tour \in Tours
  /\ entity = tour.entity
  /\ unsaved = {}
  /\ taken = {}
  /\ req = [t \in Tabs |-> NoRequest]
  /\ faults = tour.faults
  /\ loc = [t \in Tabs |-> Nowhere]
  /\ going = tour.start
  /\ got = [t \in Tabs |-> Nothing]
  /\ ui = [t \in Tabs |-> Blank]
  /\ calls = [t \in Tabs |-> <<>>]
  /\ stale = [t \in Tabs |-> FALSE]
  /\ clicks = 0
=============================================================================
