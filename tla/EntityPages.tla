---------------------------- MODULE EntityPages ----------------------------
(***************************************************************************)
(* The pages that show and edit entities: the list with the dialog for a   *)
(* new entity, the review page, the details with their tags, aliases and   *)
(* contexts, the edit form and the bundle page.                            *)
(***************************************************************************)
EXTENDS EntityTabs

Used(p) == \E e \in Entities : IsEntity(e) /\ p \in entity[e].parts \cup entity[e].gone
Asked(x) == \E t \in Tabs : \/ \E n \in DOMAIN calls[t] : x \in {calls[t][n].target, calls[t][n].arg}
                            \/ \E q \in unsaved : x \in {q.target, q.arg}

Free(e) == entity[e] = NoEntity /\ ~Asked(e)

(* The id that the next row of a table gets. *)
NewEntity == {Order[n] : n \in {k \in DOMAIN Order :
  Free(Order[k]) /\ \A m \in DOMAIN Order : m > k => ~Free(Order[m])}}
NewPart(ids) == LET free == {p \in ids : ~Used(p) /\ ~Asked(p)}
                IN  IF free = {} THEN {} ELSE {CHOOSE p \in free : TRUE}

-----------------------------------------------------------------------------
(* ReviewList *)

(* approve, for administrators, and archive: not while the card waits. *)
Decide(t) == \E e \in Shown(t) \ ui[t].dismissed :
  /\ On(t, "review") /\ ~PendingFor(t, "card", e)
  /\ \E s \in {"archived"} \cup (IF User(t) \in Admins THEN {"active"} ELSE {}) :
       Clicked(t, "card", "update", e, [status |-> s])

(* Mutant: onDismiss stands in a finally. *)
DecidedFinally(t) ==
  /\ Settles(t, "card")
  /\ Continue(t, [ui[t] EXCEPT !.dismissed = @ \cup {req[t].target}], Refreshing(t), Rest(t))

(* onDismiss and a refresh, or the message on the card. *)
Decided(t) ==
  /\ Settles(t, "card")
  /\ IF req[t].ok
     THEN Continue(t, [ui[t] EXCEPT !.dismissed = @ \cup {req[t].target}], Refreshing(t), Rest(t))
     ELSE Continue(t, Message(t), Nowhere, Rest(t))

-----------------------------------------------------------------------------
(* EntityList: the filters and the page are in the address; a change starts *)
(* from the address on the screen, also when another change is on its way. *)

(* Mutant: the offset stays when the filter changes. *)
FilterKeepingOffset(t, l, active) ==
  /\ Navigate(t, l)
  /\ ui' = [ui EXCEPT ![t].active = active]
  /\ calls' = [calls EXCEPT ![t] = Sent(t)]
  /\ UNCHANGED <<serverVars, tour, loc, stale, clicks>>

(* setFilter, with the chips of the tag filter. *)
Filter(t, l, active) ==
  /\ Navigate(t, [l EXCEPT !.offset = 0])
  /\ ui' = [ui EXCEPT ![t].active = active]
  /\ calls' = [calls EXCEPT ![t] = Sent(t)]
  /\ UNCHANGED <<serverVars, tour, loc, stale, clicks>>

ListOpen(t) == On(t, "list") /\ ui[t].dialog = "none"

(* One of the selections. Bound: of the four, that of the status. *)
SelectStatus(t) == \E s \in {"any", "active"} \ {loc[t].status} :
  /\ ListOpen(t) /\ "status" \in tour.filters
  /\ Filter(t, [loc[t] EXCEPT !.status = s], ui[t].active)

AddTagFilter(t) == \E x \in (Tags \cap tour.filters) \ ui[t].active :
  LET next == ui[t].active \cup {x} IN
  ListOpen(t) /\ Filter(t, [loc[t] EXCEPT !.tags = next], next)

RemoveTagFilter(t) == \E x \in ui[t].active :
  LET next == ui[t].active \ {x} IN
  ListOpen(t) /\ Filter(t, [loc[t] EXCEPT !.tags = next], next)

PageNumber(t) == loc[t].offset \div PageSize
TotalPages(t) == (ui[t].total + PageSize - 1) \div PageSize

(* The pager: the first five pages, the one before and the one after.       *)
PagerButtons(t) ==
  ((0..(TotalPages(t) - 1)) \cap (0..4))
  \cup (IF PageNumber(t) > 0 THEN {PageNumber(t) - 1} ELSE {})
  \cup (IF PageNumber(t) < TotalPages(t) - 1 THEN {PageNumber(t) + 1} ELSE {})

(* It is there if there is more than one page. *)
SetPage(t) ==
  /\ ListOpen(t) /\ TotalPages(t) > 1 /\ "page" \in tour.filters
  /\ \E n \in PagerButtons(t) : Navigate(t, [loc[t] EXCEPT !.offset = n * PageSize])
  /\ calls' = [calls EXCEPT ![t] = Sent(t)]
  /\ UNCHANGED <<serverVars, tour, loc, ui, stale, clicks>>

-----------------------------------------------------------------------------
(* NewEntityModal *)
OpenNew(t) == ListOpen(t) /\ Set(t, [ui[t] EXCEPT !.dialog = "new", !.failed = "no"])

(* Name and tags, not while a submission waits. *)
SubmitNew(t) ==
  /\ On(t, "list") /\ ui[t].dialog = "new" /\ ~Pending(t, "new")
  /\ \E e \in NewEntity : \E all \in SUBSET Tags : \E x \in Texts :
       Call(t, "new", "create", e, x, all)
  /\ UNCHANGED <<serverVars, tour, loc, going, got, ui, stale>>

(* onClose, which the parent gave: hides the modal and refreshes. *)
CloseNew(t) == [ui[t] EXCEPT !.dialog = IF @ = "new" THEN "none" ELSE @]
Unwaited(cs) == [n \in DOMAIN cs |-> [cs[n] EXCEPT !.waits = @ /\ cs[n].form # "new"]]

(* Cancel: the same, at any time; the calls of the modal go on without it. *)
CancelNew(t) ==
  /\ On(t, "list") /\ ui[t].dialog = "new"
  /\ ui' = [ui EXCEPT ![t] = CloseNew(t)]
  /\ Navigate(t, Refreshing(t))
  /\ calls' = [calls EXCEPT ![t] = Unwaited(@)]
  /\ UNCHANGED <<serverVars, tour, loc, stale, clicks>>

(* addTag for each of the tags, all at once. *)
AddTags(t) == LET c == calls[t][1] IN
  [n \in 1..Cardinality(c.all) |->
     [c EXCEPT !.op = "addTag", !.arg = SetToSeq(c.all)[n]]]

(* The calls that Promise.all still waits for, and what becomes of them     *)
(* when one fails: they go on, and nobody looks at the answers.            *)
LastTag(t) == \A n \in DOMAIN Rest(t) : ~SameNew(calls[t][1], Rest(t)[n])
Rejected(t) == [n \in DOMAIN Rest(t) |->
  IF SameNew(calls[t][1], Rest(t)[n]) THEN [Rest(t)[n] EXCEPT !.form = "none", !.waits = FALSE]
  ELSE Rest(t)[n]]

(* Mutant: onClose does not wait for the tags. *)
NewDoneEarly(t) ==
  /\ Settles(t, "new")
  /\ IF ~req[t].ok THEN Continue(t, Message(t), Nowhere, Rejected(t))
     ELSE IF req[t].op = "create"
     THEN Continue(t, CloseNew(t), Refreshing(t), Unwaited(Rest(t) \o AddTags(t)))
     ELSE Continue(t, ui[t], Nowhere, Rest(t))

(* The entity, then its tags, then onClose; or the message. *)
NewDone(t) ==
  /\ Settles(t, "new")
  /\ IF ~req[t].ok THEN Continue(t, Message(t), Nowhere, Rejected(t))
     ELSE IF req[t].op = "create" /\ calls[t][1].all # {}
     THEN Continue(t, ui[t], Nowhere, Rest(t) \o AddTags(t))
     ELSE IF LastTag(t) THEN Continue(t, CloseNew(t), Refreshing(t), Unwaited(Rest(t)))
     ELSE Continue(t, ui[t], Nowhere, Rest(t))

Ignored(t) == Settles(t, "none") /\ Continue(t, ui[t], Nowhere, Rest(t))

-----------------------------------------------------------------------------
(* EntityDetail *)
Details(t) == On(t, "detail") /\ ui[t].dialog = "none"
Status(t) == ui[t].rows[loc[t].of].status

(* The buttons of the header, by the status on the screen. *)
Approve(t) ==
  /\ Details(t) /\ Status(t) = "candidate" /\ ~Pending(t, "header")
  /\ Clicked(t, "header", "update", loc[t].of, [status |-> "active"])

OpenDeprecate(t) ==
  /\ Details(t) /\ Status(t) = "active" /\ ~Pending(t, "header")
  /\ Set(t, [ui[t] EXCEPT !.dialog = "deprecate"])

CancelDeprecate(t) ==
  /\ On(t, "detail") /\ ui[t].dialog = "deprecate"
  /\ Set(t, [ui[t] EXCEPT !.dialog = "none"])

(* handleDeprecated: the modal goes before the call. *)
Deprecate(t) ==
  /\ On(t, "detail") /\ ui[t].dialog = "deprecate"
  /\ ui' = [ui EXCEPT ![t].dialog = "none"]
  /\ Call(t, "header", "update", loc[t].of, [status |-> "deprecated"], {})
  /\ UNCHANGED <<serverVars, tour, loc, going, got, stale>>

(* No catch. *)
ButtonDone(t) == \E form \in {"header", "deactivate"} :
  /\ Settles(t, form)
  /\ IF req[t].ok THEN Continue(t, ui[t], Refreshing(t), Rest(t))
     ELSE Continue(t, Broken(t), Nowhere, Unmounted(Rest(t)))

Chips(t) == {x \in Tags : ui[t].chips[x] > 0}

(* TagBar: Enter works while a call is out, the crosses do not. *)
EnterTag(t) == \E x \in Tags \ Chips(t) :
  Details(t) /\ Clicked(t, "tags", "addTag", loc[t].of, x)

CrossTag(t) == \E x \in Chips(t) :
  Details(t) /\ ~Pending(t, "tags") /\ Clicked(t, "tags", "deleteTag", loc[t].of, x)

(* Mutant: setTags([...tags, val]) with the tags of the render of the call. *)
TagAddedToOld(t) ==
  /\ Settles(t, "tags") /\ req[t].op = "addTag"
  /\ IF req[t].ok
     THEN Continue(t, [ui[t] EXCEPT !.chips =
            [x \in Tags |-> IF x = req[t].arg \/ x \in ui[t].rows[loc[t].of].tags THEN 1 ELSE 0]],
            Refreshing(t), Rest(t))
     ELSE Continue(t, Broken(t), Nowhere, Unmounted(Rest(t)))

(* setTags with what the chips are by then; no catch. *)
TagAdded(t) ==
  /\ Settles(t, "tags") /\ req[t].op = "addTag"
  /\ IF req[t].ok
     THEN Continue(t, [ui[t] EXCEPT !.chips[req[t].arg] = @ + 1], Refreshing(t), Rest(t))
     ELSE Continue(t, Broken(t), Nowhere, Unmounted(Rest(t)))

TagDeleted(t) ==
  /\ Settles(t, "tags") /\ req[t].op = "deleteTag"
  /\ IF req[t].ok
     THEN Continue(t, [ui[t] EXCEPT !.chips[req[t].arg] = 0],
                   Refreshing(t), Rest(t))
     ELSE Continue(t, Broken(t), Nowhere, Unmounted(Rest(t)))

(* The forms of AliasPane and ContextPane. *)
AddPart(t) == \E p \in NewPart(Aliases) \cup NewPart(Contexts) :
  LET pane == IF p \in Aliases THEN "alias" ELSE "context" IN
  /\ Details(t) /\ ~Pending(t, pane)
  /\ pane = "alias" => ~Pending(t, "deactivate")
  /\ Clicked(t, pane, "addPart", loc[t].of, p)

PartAdded(t) == \E pane \in {"alias", "context"} :
  /\ Settles(t, pane)
  /\ IF req[t].ok THEN Continue(t, ui[t], Refreshing(t), Rest(t))
     ELSE Continue(t, Message(t), Nowhere, Rest(t))

Deactivate(t) == \E p \in Aliases :
  /\ Details(t) /\ ~Pending(t, "alias") /\ ~Pending(t, "deactivate")
  /\ p \in ui[t].parts[loc[t].of]
  /\ Clicked(t, "deactivate", "deactivate", loc[t].of, p)

-----------------------------------------------------------------------------
(* EntityEditForm: every field, as it was shown or edited. *)
SubmitEdit(t) == \E s \in Statuses : \E x \in Texts :
  /\ On(t, "edit") /\ ~Pending(t, "edit")
  /\ Clicked(t, "edit", "update", loc[t].of, [status |-> s, text |-> x])

(* router.push to the details, without a refresh: a navigation. If the form  *)
(* was left meanwhile, the calls made since are dropped but for the first, *)
(* which may be on its way; components of these details wait for ever.     *)
EditDone(t) ==
  /\ Settles(t, "edit")
  /\ IF req[t].ok
     THEN \E k \in {1, 2} :
            GoOn(t, [ui[t] EXCEPT !.hung = Hanging(t, k), !.late = @ \/ ~calls[t][1].here],
                 Place("detail", req[t].target), IF k = 1 THEN <<>> ELSE First(Rest(t)))
     ELSE Continue(t, Message(t), Nowhere, Rest(t))

-----------------------------------------------------------------------------
(* BundlePage *)
RunFetch(t) == \E e \in Entities :
  On(t, "bundle") /\ ~Pending(t, "bundle") /\ Clicked(t, "bundle", "bundle", e, NoEntity)

BundleDone(t) ==
  /\ Settles(t, "bundle")
  /\ Continue(t, IF req[t].ok THEN [ui[t] EXCEPT !.result = req[t].target] ELSE Message(t),
              Nowhere, Rest(t))

-----------------------------------------------------------------------------
Click(t) ==
  \/ Decide(t) \/ SelectStatus(t) \/ AddTagFilter(t) \/ RemoveTagFilter(t) \/ SetPage(t)
  \/ OpenNew(t) \/ SubmitNew(t) \/ CancelNew(t)
  \/ Approve(t) \/ OpenDeprecate(t) \/ CancelDeprecate(t) \/ Deprecate(t)
  \/ EnterTag(t) \/ CrossTag(t) \/ AddPart(t) \/ Deactivate(t)
  \/ SubmitEdit(t) \/ RunFetch(t) \/ Follow(t)

Settle(t) ==
  \/ Decided(t) \/ NewDone(t) \/ Ignored(t) \/ ButtonDone(t) \/ TagAdded(t)
  \/ TagDeleted(t) \/ PartAdded(t) \/ EditDone(t) \/ BundleDone(t)

(* An answer that is lost, or a commit: the page is not told of it. *)
Lost(t) ==
  /\ Lose(t)
  /\ stale' = [stale EXCEPT ![t] = TRUE]
  /\ UNCHANGED <<tour, loc, going, got, ui, calls, clicks>>

Died(q) ==
  /\ Die(q)
  /\ stale' = [t \in Tabs |-> stale[t] \/ q.target \in {loc[t].of, going[t].of}]
  /\ UNCHANGED <<tour, loc, going, got, ui, calls, clicks>>

Next ==
  \/ \E t \in Tabs :
       \/ Click(t) \/ Settle(t) \/ Send(t) \/ FetchRows(t) \/ FetchParts(t) \/ Arrive(t)
       \/ Serve(t) /\ UNCHANGED tabVars
       \/ Lost(t)
  \/ \E q \in unsaved : Saved(q) \/ Died(q)

(* Transactions end, requests are served and answers are used; nobody has to *)
(* click, and nothing has to be lost.                                      *)
Fairness ==
  /\ \A t \in Tabs : WF_vars(Send(t)) /\ WF_vars(Settle(t))
                     /\ WF_vars(Serve(t) /\ UNCHANGED tabVars)
  /\ WF_vars(\E q \in unsaved : Saved(q))

Spec == TabsInit /\ [][Next]_vars /\ Fairness

-----------------------------------------------------------------------------
(* Types of the rows, the pages and the calls. *)
TypeOK ==
  /\ entity \in [Entities -> EntityRow \cup {NoEntity}]
  /\ unsaved \subseteq Requests
  /\ req \in [Tabs -> Requests \cup {NoRequest}]
  /\ loc \in [Tabs -> Locations] /\ going \in [Tabs -> Locations]
  /\ \A t \in Tabs :
       /\ Shown(t) \subseteq Entities /\ ui[t].dismissed \subseteq Entities
       /\ ui[t].chips \in [Tags -> Nat]
       /\ req[t] # NoRequest => calls[t] # <<>> /\ req[t].op = calls[t][1].op
  /\ clicks \in 0..tour.clicks

(* A card leaves the review page only when the backend has accepted the     *)
(* decision; after a refusal or an error it stays (ReviewList.tsx:63-95).  *)
DismissedWasDecided == \A t \in Tabs : \A e \in ui[t].dismissed :
  \E s \in {"active", "archived"} : <<t, "update", e, [status |-> s]>> \in taken

(* What the details show - status, tags, aliases, contexts, and the chips   *)
(* that TagBar keeps for itself - is what is stored as soon as the tab has *)
(* nothing left to do, unless the entity was changed from elsewhere or by  *)
(* a commit later than the refresh that follows the answer                 *)
(* (EntityDetail.tsx:43-60, 206-229, 276-295, 417-429).                    *)
DetailAgrees == \A t \in Tabs :
  (On(t, "detail") /\ Quiet(t) /\ ~stale[t] /\ unsaved = {}) =>
    LET e == loc[t].of IN
    /\ ui[t].rows[e] = Columns(e)
    /\ ui[t].parts[e] = entity[e].parts
    /\ \A x \in Tags : ui[t].chips[x] = IF x \in entity[e].tags THEN 1 ELSE 0

(* An answer closes the modal for a new entity only when the submission it   *)
(* belongs to is complete: the entity and every tag chosen with it have    *)
(* been accepted, however many submissions were sent, refused or cancelled *)
(* before.  The modal that closes may have been opened since and hold      *)
(* another entity (NewEntityModal.tsx:28-40).                              *)
ClosedMeansTagged == [][\A t \in Tabs :
  (ui[t].dialog = "new" /\ ui'[t].dialog = "none" /\ req'[t] # req[t]) =>
    LET c == calls[t][1] IN
    /\ \E x \in Texts : <<t, "create", c.target, x>> \in taken
    /\ \A x \in c.all : <<t, "addTag", c.target, x>> \in taken]_vars

(* The list never shows an empty page of a result that is not empty, as     *)
(* long as no entity is changed so that it stops matching: the offset in   *)
(* the address fits the filters in it, however fast they are changed       *)
(* (EntityList.tsx:56-72).                                                 *)
NoEmptyPage == \A t \in Tabs :
  (loc[t].page = "list" /\ Shown(t) = {} /\ ui[t].total > 0) =>
    \E w \in taken : w[2] \in {"update", "deleteTag"}

(* Whatever is refused, lost or dropped, the components stop waiting:        *)
(* buttons that are disabled while a call is out come back (isPending of   *)
(* useTransition, NewEntityModal.tsx:117-121 and the others), or their     *)
(* page is left.  Except that the answer to an edit form that was left     *)
(* loads the details, which drops calls of the details already on the      *)
(* screen: their buttons stay disabled (EntityEditForm.tsx:30).            *)
Waiting(t) == \/ \E n \in DOMAIN calls[t] : calls[t][n].waits
              \/ ui[t].hung # {} /\ going[t] \in {Nowhere, loc[t]}
PendingEnds == \A t \in Tabs : Waiting(t) ~> (~Waiting(t) \/ ui[t].late)
=============================================================================
