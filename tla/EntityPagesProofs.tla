------------------------- MODULE EntityPagesProofs -------------------------
(***************************************************************************)
(* Proofs about EntityPages, for any tabs, people, entities and tags and   *)
(* from any situations.  PInv says what the queued calls of a tab and its  *)
(* request have to do with the page on the screen and with what the        *)
(* backend has accepted, whatever is clicked, dropped or lost meanwhile;   *)
(* Effect(t) is what a click in a tab, or the code after an answer, leaves *)
(* of queue, rows and address.  FInv says that a new entity is new, and    *)
(* NInv adds that the address of a list fits the rows there are.           *)
(***************************************************************************)
EXTENDS EntityPages, FiniteSetTheorems, TLAPS

(* The components that make calls, and the page each of them is on. *)
PageOf == [card |-> "review", new |-> "list", header |-> "detail", tags |-> "detail",
           deactivate |-> "detail", alias |-> "detail", context |-> "detail",
           edit |-> "edit", bundle |-> "bundle"]

AnyArg == UNION {Args[o] : o \in Ops}
CallShape == [form : DOMAIN PageOf \cup {"none"}, op : Ops, target : Entities, arg : AnyArg,
              all : SUBSET Tags, here : BOOLEAN, waits : BOOLEAN]
Calls == {c \in CallShape : c.arg \in Args[c.op]}

(* The state of a page on the screen. *)
ScreenOK(u) ==
  /\ u = [rows |-> u.rows, parts |-> u.parts, total |-> u.total, chips |-> u.chips,
          active |-> u.active, dialog |-> u.dialog, dismissed |-> u.dismissed,
          failed |-> u.failed, result |-> u.result, hung |-> u.hung, late |-> u.late]
  /\ DOMAIN u.rows \subseteq Entities
  /\ u.total \in Nat /\ u.chips \in [Tags -> Nat] /\ u.active \subseteq Tags
  /\ u.dialog \in {"none", "new", "deprecate"} /\ u.dismissed \subseteq Entities
  /\ u.failed \in {"no", "message", "page"} /\ u.late \in BOOLEAN

(* What has been fetched for a page. *)
FetchOK(g) ==
  /\ g = [rows |-> g.rows, parts |-> g.parts, total |-> g.total]
  /\ g.rows = NoEntity \/ DOMAIN g.rows \subseteq Entities
  /\ g.total \in Nat

-----------------------------------------------------------------------------
(* Queues of calls.  A card asks for one of the two decisions. *)
CardsDecide(cs) ==
  \A n \in DOMAIN cs : cs[n].form = "card" =>
    cs[n].op = "update" /\ \E s \in {"active", "archived"} : cs[n].arg = [status |-> s]

(* The modal creates an entity and adds tags, and a component that is on    *)
(* the screen is on its page.                                              *)
OnPage(cs, page) ==
  \A n \in DOMAIN cs :
    /\ cs[n].form = "new" => cs[n].op \in {"create", "addTag"}
    /\ cs[n].here /\ cs[n].form # "none" => page = PageOf[cs[n].form]

(* A submission that still waits has every tag accepted or queued. *)
Adds(c, e, x) == c.form = "new" /\ c.op = "addTag" /\ c.target = e /\ c.arg = x

TagsComing(t, cs, accepted) ==
  \A n \in DOMAIN cs :
    cs[n].form = "new" /\ cs[n].op = "addTag" =>
      \A x \in cs[n].all :
        \/ <<t, "addTag", cs[n].target, x>> \in accepted
        \/ \E m \in DOMAIN cs : Adds(cs[m], cs[n].target, x)

(* Its tags follow the entity. *)
EntityFirst(t, cs, accepted) ==
  \A n \in DOMAIN cs :
    cs[n].form = "new" /\ cs[n].op = "addTag" =>
      \E x \in Texts : <<t, "create", cs[n].target, x>> \in accepted

QueueOK(t, cs, page, accepted) ==
  /\ cs \in Seq(Calls) /\ CardsDecide(cs) /\ OnPage(cs, page)
  /\ TagsComing(t, cs, accepted) /\ EntityFirst(t, cs, accepted)

-----------------------------------------------------------------------------
(* A queue with no more creations than another one, and a screen with the   *)
(* same rows.                                                              *)
Keeps(cs, ds) ==
  \A n \in DOMAIN ds : ds[n].op = "create" =>
    n \in DOMAIN cs /\ cs[n].op = "create" /\ cs[n].target = ds[n].target

SameRows(v, u) == v.rows = u.rows /\ v.total = u.total

(* Where a click or an answer leads: to the page on the screen or on its    *)
(* way, to the first rows of a page or to other rows of the same list.     *)
Leads(t, l) ==
  \/ l \in {loc[t], going[t]} \/ l.offset = 0
  \/ /\ loc[t].page = "list" /\ l.page = "list" /\ l.status = loc[t].status /\ l.tags = loc[t].tags
     /\ l.offset < ui[t].total \/ l.offset <= loc[t].offset

-----------------------------------------------------------------------------
(* The request of a tab is that of its first call; what it was told to be   *)
(* accepted is.                                                            *)
HeadSent(t) ==
  req[t] # NoRequest =>
    LET q == req[t]
        c == calls[t][1]
    IN /\ calls[t] # <<>>
       /\ q.tab = t /\ q.op = c.op /\ q.target = c.target /\ q.arg = c.arg
       /\ q.ok => q.at = "done"
       /\ q.ok /\ q.op # "bundle" => <<t, q.op, q.target, q.arg>> \in taken
       /\ q.at = "loaded" /\ q.op # "create" => entity[q.target] # NoEntity

DialogOnList(t) == ui[t].dialog = "new" => loc[t].page = "list"

WasDecided(t, e) ==
  \E s \in {"active", "archived"} : <<t, "update", e, [status |-> s]>> \in taken

TabOK(t) ==
  /\ ScreenOK(ui[t]) /\ FetchOK(got[t]) /\ HeadSent(t) /\ DialogOnList(t)
  /\ QueueOK(t, calls[t], loc[t].page, taken)
  /\ \A e \in ui[t].dismissed : WasDecided(t, e)

(* A transaction that has answered and not committed. *)
UnsavedOK(q) ==
  /\ q.at = "loaded" /\ q.op # "bundle"
  /\ q.op # "create" => entity[q.target] # NoEntity
  /\ <<q.tab, q.op, q.target, q.arg>> \in taken

PInv ==
  /\ tour \in Tours
  /\ entity \in [Entities -> EntityRow \cup {NoEntity}]
  /\ unsaved \subseteq Requests /\ \A q \in unsaved : UnsavedOK(q)
  /\ req \in [Tabs -> Requests \cup {NoRequest}]
  /\ loc \in [Tabs -> Locations] /\ going \in [Tabs -> Locations]
  /\ DOMAIN ui = Tabs /\ DOMAIN got = Tabs /\ DOMAIN calls = Tabs
  /\ ui = [t \in Tabs |-> ui[t]] /\ got = [t \in Tabs |-> got[t]]
  /\ calls = [t \in Tabs |-> calls[t]]
  /\ clicks \in 0..tour.clicks
  /\ \A t \in Tabs : TabOK(t)

LEMMA PInvTypeOK == PInv => TypeOK
BY DEF PInv, TabOK, ScreenOK, HeadSent, TypeOK, Shown

LEMMA PInvDismissed == PInv => DismissedWasDecided
BY DEF PInv, TabOK, WasDecided, DismissedWasDecided

-----------------------------------------------------------------------------
(* Lemmas on queues.  A queue whose calls are the same but for what they    *)
(* are to the screen, or are no more of a form.                            *)
LEMMA AppendOK ==
  ASSUME NEW t, NEW page, NEW accepted, NEW cs, QueueOK(t, cs, page, accepted),
         NEW c \in Calls,
         c.form = "card" =>
           c.op = "update" /\ \E s \in {"active", "archived"} : c.arg = [status |-> s],
         c.form = "new" => c.op = "create",
         c.form # "none" /\ page = PageOf[c.form]
  PROVE  /\ QueueOK(t, Append(cs, c), page, accepted)
         /\ c.op # "create" => Keeps(cs, Append(cs, c))
         /\ cs # <<>> => Append(cs, c) # <<>> /\ Append(cs, c)[1] = cs[1]
<1> DEFINE r == Append(cs, c)
<1>1. cs \in Seq(Calls)
  BY DEF QueueOK
<1>2. /\ r \in Seq(Calls) /\ Len(r) = Len(cs) + 1 /\ Len(cs) \in Nat
      /\ \A n \in 1..Len(cs) : r[n] = cs[n]
      /\ r[Len(cs) + 1] = c
      /\ DOMAIN r = 1..Len(cs) + 1 /\ DOMAIN cs = 1..Len(cs)
  BY <1>1
<1> HIDE DEF r
<1>3. \A n \in DOMAIN r : r[n] = c \/ (n \in DOMAIN cs /\ r[n] = cs[n])
  BY <1>2
<1>4. CardsDecide(r) /\ OnPage(r, page)
  BY <1>3 DEF QueueOK, CardsDecide, OnPage
<1>9. EntityFirst(t, r, accepted)
  BY <1>3 DEF QueueOK, EntityFirst
<1>5. TagsComing(t, r, accepted)
  <2> SUFFICES ASSUME NEW n \in DOMAIN r, r[n].form = "new", r[n].op = "addTag", NEW x \in r[n].all
               PROVE  \/ <<t, "addTag", r[n].target, x>> \in accepted
                      \/ \E m \in DOMAIN r : Adds(r[m], r[n].target, x)
    BY DEF TagsComing
  <2>1. n \in DOMAIN cs /\ r[n] = cs[n]
    BY <1>3
  <2>2. CASE \E m \in DOMAIN cs : Adds(cs[m], cs[n].target, x)
    <3>1. PICK m \in DOMAIN cs : Adds(cs[m], cs[n].target, x)
      BY <2>2
    <3>2. m \in DOMAIN r /\ r[m] = cs[m]
      BY <1>2
    <3>3. QED
      BY <2>1, <3>1, <3>2
  <2>3. QED
    BY <2>1, <2>2 DEF QueueOK, TagsComing
<1>6. cs # <<>> => r # <<>> /\ r[1] = cs[1]
  BY <1>1, <1>2
<1>7. c.op # "create" => Keeps(cs, r)
  BY <1>3 DEF Keeps
<1>8. QED
  BY <1>2, <1>4, <1>5, <1>6, <1>7, <1>9 DEF QueueOK, r

(* Some calls changed form to "none", or are not on the screen any more; if  *)
(* one of a submission changed form, all have.                             *)
SameCall(c, d) ==
  /\ d \in Calls
  /\ d.op = c.op /\ d.target = c.target /\ d.arg = c.arg /\ d.all = c.all
  /\ d.form \in {c.form, "none"}

LEMMA CallFormNone ==
  ASSUME NEW c \in Calls, NEW d, d = [c EXCEPT !.form = "none", !.waits = FALSE]
                                 \/ d = [c EXCEPT !.form = "none"]
  PROVE  SameCall(c, d) /\ d.here = c.here /\ d.form = "none"
<1>1. c \in CallShape /\ c.arg \in Args[c.op]
  BY DEF Calls
<1>2. d \in CallShape /\ d.arg = c.arg /\ d.op = c.op /\ d.target = c.target /\ d.all = c.all
      /\ d.here = c.here /\ d.form = "none"
  BY <1>1 DEF CallShape
<1>3. QED
  BY <1>1, <1>2 DEF Calls, SameCall

LEMMA CallGone ==
  ASSUME NEW c \in Calls, NEW d, d = [c EXCEPT !.here = FALSE, !.waits = FALSE]
                                 \/ d = [c EXCEPT !.waits = FALSE]
  PROVE  /\ SameCall(c, d) /\ d.form = c.form /\ (d.here => c.here)
         /\ d = [c EXCEPT !.here = FALSE, !.waits = FALSE] => ~d.here
<1>1. c \in CallShape /\ c.arg \in Args[c.op]
  BY DEF Calls
<1>2. /\ d \in CallShape /\ d.arg = c.arg /\ d.op = c.op /\ d.target = c.target /\ d.all = c.all
      /\ d.form = c.form /\ (d.here => c.here)
      /\ d = [c EXCEPT !.here = FALSE, !.waits = FALSE] => ~d.here
  BY <1>1 DEF CallShape
<1>3. QED
  BY <1>1, <1>2 DEF Calls, SameCall

LEMMA CallWaits ==
  ASSUME NEW c \in Calls, NEW w \in BOOLEAN, NEW d, d = [c EXCEPT !.waits = w]
  PROVE  SameCall(c, d) /\ d.form = c.form /\ d.here = c.here
<1>1. c \in CallShape /\ c.arg \in Args[c.op]
  BY DEF Calls
<1>2. /\ d \in CallShape /\ d.arg = c.arg /\ d.op = c.op /\ d.target = c.target /\ d.all = c.all
      /\ d.form = c.form /\ d.here = c.here
  BY <1>1 DEF CallShape
<1>3. QED
  BY <1>1, <1>2 DEF Calls, SameCall

LEMMA ChangedOK ==
  ASSUME NEW t, NEW page, NEW next, NEW accepted, NEW cs, QueueOK(t, cs, page, accepted),
         NEW r, r = [n \in DOMAIN cs |-> r[n]],
         \A n \in DOMAIN cs : SameCall(cs[n], r[n]) /\ (r[n].here => cs[n].here /\ next = page),
         \A n, m \in DOMAIN cs :
           r[n].form = "new" /\ cs[m].form = "new" /\ cs[n].target = cs[m].target =>
             r[m].form = "new"
  PROVE  QueueOK(t, r, next, accepted) /\ (cs # <<>> => r # <<>>) /\ Keeps(cs, r)
<1>1. cs \in Seq(Calls) /\ DOMAIN cs = 1..Len(cs) /\ Len(cs) \in Nat
  BY DEF QueueOK
<1>2. DOMAIN r = DOMAIN cs
  OBVIOUS
<1>3. r \in Seq(Calls)
  <2>1. r \in [1..Len(cs) -> Calls]
    BY <1>1, <1>2 DEF SameCall
  <2>2. QED
    BY <1>1, <2>1
<1>4. CardsDecide(r) /\ OnPage(r, next) /\ EntityFirst(t, r, accepted)
  <2>1. CardsDecide(r) /\ OnPage(r, next)
    BY <1>2 DEF QueueOK, CardsDecide, OnPage, SameCall
  <2>2. EntityFirst(t, r, accepted)
    BY <1>2 DEF QueueOK, EntityFirst, SameCall
  <2>3. QED
    BY <2>1, <2>2
<1>5. TagsComing(t, r, accepted)
  <2> SUFFICES ASSUME NEW n \in DOMAIN r, r[n].form = "new", r[n].op = "addTag", NEW x \in r[n].all
               PROVE  \/ <<t, "addTag", r[n].target, x>> \in accepted
                      \/ \E m \in DOMAIN r : Adds(r[m], r[n].target, x)
    BY DEF TagsComing
  <2>1. /\ n \in DOMAIN cs /\ cs[n].form = "new" /\ cs[n].op = "addTag" /\ x \in cs[n].all
        /\ r[n].target = cs[n].target
    BY <1>2 DEF SameCall
  <2>2. CASE \E m \in DOMAIN cs : Adds(cs[m], cs[n].target, x)
    <3>1. PICK m \in DOMAIN cs : Adds(cs[m], cs[n].target, x)
      BY <2>2
    <3>2. Adds(r[m], r[n].target, x)
      BY <2>1, <3>1 DEF Adds, SameCall
    <3>3. QED
      BY <1>2, <3>2
  <2>3. QED
    BY <2>1, <2>2 DEF QueueOK, TagsComing
<1>6. cs # <<>> => r # <<>>
  BY <1>1, <1>2
<1>7. Keeps(cs, r)
  BY <1>2 DEF Keeps, SameCall
<1>8. QED
  BY <1>3, <1>4, <1>5, <1>6, <1>7 DEF QueueOK

(* A call is over. *)
LEMMA TailOK ==
  ASSUME NEW t, NEW page, NEW accepted, NEW cs, QueueOK(t, cs, page, accepted), cs # <<>>,
         \/ cs[1].form # "new" \/ cs[1].op # "addTag"
         \/ <<t, "addTag", cs[1].target, cs[1].arg>> \in accepted
  PROVE  QueueOK(t, Tail(cs), page, accepted)
<1> DEFINE r == Tail(cs)
<1>1. cs \in Seq(Calls)
  BY DEF QueueOK
<1>2. /\ r \in Seq(Calls) /\ DOMAIN r = 1..Len(cs) - 1 /\ DOMAIN cs = 1..Len(cs)
      /\ Len(cs) \in Nat \ {0}
      /\ \A n \in 1..Len(cs) - 1 : r[n] = cs[n + 1]
  BY <1>1
<1> HIDE DEF r
<1>3. \A n \in DOMAIN r : n + 1 \in DOMAIN cs /\ r[n] = cs[n + 1]
  BY <1>2
<1>4. CardsDecide(r) /\ OnPage(r, page) /\ EntityFirst(t, r, accepted)
  <2>1. CardsDecide(r) /\ OnPage(r, page)
    BY <1>3 DEF QueueOK, CardsDecide, OnPage
  <2>2. EntityFirst(t, r, accepted)
    BY <1>3 DEF QueueOK, EntityFirst
  <2>3. QED
    BY <2>1, <2>2
<1>5. TagsComing(t, r, accepted)
  <2> SUFFICES ASSUME NEW n \in DOMAIN r, r[n].form = "new", r[n].op = "addTag", NEW x \in r[n].all
               PROVE  \/ <<t, "addTag", r[n].target, x>> \in accepted
                      \/ \E m \in DOMAIN r : Adds(r[m], r[n].target, x)
    BY DEF TagsComing
  <2>1. n + 1 \in DOMAIN cs /\ r[n] = cs[n + 1]
    BY <1>3
  <2>2. CASE \E m \in DOMAIN cs : Adds(cs[m], r[n].target, x)
    <3>1. PICK m \in DOMAIN cs : Adds(cs[m], r[n].target, x)
      BY <2>2
    <3>2. CASE m = 1
      BY <3>1, <3>2 DEF Adds
    <3>3. CASE m # 1
      <4>1. m - 1 \in DOMAIN r /\ r[m - 1] = cs[m]
        BY <1>2, <3>3
      <4>2. QED
        BY <3>1, <4>1
    <3>4. QED
      BY <3>2, <3>3
  <2>3. QED
    BY <2>1, <2>2 DEF QueueOK, TagsComing
<1>6. QED
  BY <1>2, <1>4, <1>5 DEF QueueOK, r

(* The refusal of a tag rejects the Promise.all of its submission. *)
LEMMA RejectedOK ==
  ASSUME NEW t, NEW page, NEW accepted, QueueOK(t, calls[t], page, accepted), calls[t] # <<>>
  PROVE  QueueOK(t, Rejected(t), page, accepted) /\ Keeps(Rest(t), Rejected(t))
<1> DEFINE cs == calls[t]
           r == Rest(t)
           s == Rejected(t)
           e == calls[t][1].target
<1>1. cs \in Seq(Calls)
  BY DEF QueueOK
<1>2. /\ r \in Seq(Calls) /\ DOMAIN r = 1..Len(cs) - 1 /\ DOMAIN cs = 1..Len(cs)
      /\ Len(cs) \in Nat \ {0}
      /\ \A n \in 1..Len(cs) - 1 : r[n] = cs[n + 1]
  BY <1>1 DEF Rest
<1>3. s = [n \in DOMAIN r |-> IF SameNew(calls[t][1], r[n])
                              THEN [r[n] EXCEPT !.form = "none", !.waits = FALSE] ELSE r[n]]
  BY DEF Rejected
<1> HIDE DEF r, s
<1>4. \A n \in DOMAIN r : n + 1 \in DOMAIN cs /\ r[n] = cs[n + 1] /\ r[n] \in Calls
  BY <1>2
<1>5. ASSUME NEW n \in DOMAIN r
      PROVE  /\ SameCall(r[n], s[n]) /\ s[n].here = r[n].here
             /\ s[n].form = "new" <=> r[n].form = "new" /\ r[n].target # e
  <2>1. CASE SameNew(calls[t][1], r[n])
    <3>1. r[n] \in Calls /\ s[n] = [r[n] EXCEPT !.form = "none", !.waits = FALSE]
      BY <1>3, <1>4, <2>1
    <3>2. QED
      BY <2>1, <3>1, CallFormNone DEF SameNew
  <2>2. CASE ~SameNew(calls[t][1], r[n])
    BY <1>3, <1>4, <2>2 DEF SameCall, SameNew
  <2>3. QED
    BY <2>1, <2>2
<1>6. DOMAIN s = DOMAIN r
  BY <1>3
<1>7. s \in Seq(Calls)
  <2>1. DOMAIN s = 1..Len(cs) - 1 /\ \A n \in DOMAIN s : s[n] \in Calls
    BY <1>2, <1>5, <1>6 DEF SameCall
  <2>2. s \in [1..Len(cs) - 1 -> Calls]
    BY <1>3, <2>1
  <2>3. Len(cs) - 1 \in Nat
    BY <1>2
  <2>4. QED
    BY <2>2, <2>3
<1>8. CardsDecide(s) /\ OnPage(s, page) /\ EntityFirst(t, s, accepted)
  <2>1. CardsDecide(r) /\ OnPage(r, page)
    BY <1>4 DEF QueueOK, CardsDecide, OnPage
  <2>6. EntityFirst(t, r, accepted)
    BY <1>4 DEF QueueOK, EntityFirst
  <2>5. EntityFirst(t, s, accepted)
    BY <1>5, <1>6, <2>6 DEF EntityFirst, SameCall
  <2>2. CardsDecide(s)
    BY <1>5, <1>6, <2>1 DEF CardsDecide, SameCall
  <2>3. OnPage(s, page)
    BY <1>5, <1>6, <2>1 DEF OnPage, SameCall
  <2>4. QED
    BY <2>2, <2>3, <2>5
<1>9. TagsComing(t, s, accepted)
  <2> SUFFICES ASSUME NEW n \in DOMAIN s, s[n].form = "new", s[n].op = "addTag", NEW x \in s[n].all
               PROVE  \/ <<t, "addTag", s[n].target, x>> \in accepted
                      \/ \E m \in DOMAIN s : Adds(s[m], s[n].target, x)
    BY DEF TagsComing
  <2>1. /\ n + 1 \in DOMAIN cs /\ r[n] = cs[n + 1] /\ cs[n + 1].form = "new"
        /\ cs[n + 1].op = "addTag" /\ x \in cs[n + 1].all
        /\ s[n].target = cs[n + 1].target /\ s[n].target # e
    BY <1>4, <1>5, <1>6 DEF SameCall
  <2>2. CASE \E m \in DOMAIN cs : Adds(cs[m], cs[n + 1].target, x)
    <3>1. PICK m \in DOMAIN cs : Adds(cs[m], s[n].target, x)
      BY <2>1, <2>2
    <3>2. m # 1
      BY <2>1, <3>1 DEF Adds
    <3>3. m - 1 \in DOMAIN r /\ r[m - 1] = cs[m]
      BY <1>2, <3>2
    <3>4. Adds(s[m - 1], s[n].target, x)
      BY <1>5, <2>1, <3>1, <3>3 DEF Adds, SameCall
    <3>5. QED
      BY <1>6, <3>3, <3>4
  <2>3. QED
    BY <2>1, <2>2 DEF QueueOK, TagsComing
<1>10. Keeps(r, s)
  BY <1>5, <1>6 DEF Keeps, SameCall
<1>11. QED
  BY <1>7, <1>8, <1>9, <1>10 DEF QueueOK, s, r

(* The tags of a new entity are asked for, all of them. *)
LEMMA TagsOrdered ==
  ASSUME NEW all \in SUBSET Tags
  PROVE  /\ Cardinality(all) \in Nat
         /\ SetToSeq(all) \in [1..Cardinality(all) -> all]
         /\ \A x \in all : \E n \in 1..Cardinality(all) : SetToSeq(all)[n] = x
<1>1. IsFiniteSet(all) /\ Cardinality(all) \in Nat
  BY RoutesAssumption, FS_Subset, FS_CardinalityType
<1> DEFINE k == Cardinality(all)
           F == {g \in [1..k -> all] : IsInjective(g)}
<1>2. SetToSeq(all) \in F
  <2>1. F # {}
    BY <1>1, FS_CardinalityType DEF ExistsBijection, Bijection, Injection
  <2>2. SetToSeq(all) = CHOOSE g \in [1..k -> all] : IsInjective(g)
    BY DEF SetToSeq
  <2>3. QED
    BY <2>1, <2>2
<1>3. SetToSeq(all) \in Injection(1..k, all) /\ IsFiniteSet(1..k) /\ Cardinality(1..k) = k
  BY <1>1, <1>2, FS_Interval DEF Injection
<1>4. SetToSeq(all) \in Surjection(1..k, all)
  BY <1>1, <1>3, FS_Injection
<1>5. QED
  BY <1>1, <1>2, <1>4 DEF Surjection

Adding(c, x) == [c EXCEPT !.op = "addTag", !.arg = x]

LEMMA AddingCall ==
  ASSUME NEW c \in Calls, NEW x \in Tags, NEW d, d = Adding(c, x)
  PROVE  /\ d \in Calls /\ d.op = "addTag" /\ d.form = c.form /\ d.target = c.target
         /\ d.all = c.all /\ d.here = c.here /\ d.arg = x
<1>1. c \in CallShape
  BY DEF Calls
<1>2. "addTag" \in Ops /\ Args["addTag"] = Tags
  BY DEF Ops, Args
<1>3. x \in AnyArg
  BY <1>2 DEF AnyArg
<1>4. /\ d \in CallShape /\ d.op = "addTag" /\ d.form = c.form /\ d.target = c.target
      /\ d.all = c.all /\ d.here = c.here /\ d.arg = x
  BY <1>1, <1>2, <1>3 DEF CallShape, Adding
<1>5. QED
  BY <1>2, <1>4 DEF Calls

LEMMA AddTagsOK ==
  ASSUME NEW t, NEW page, NEW accepted, QueueOK(t, calls[t], page, accepted), calls[t] # <<>>,
         calls[t][1].form = "new", calls[t][1].op = "create",
         \E x \in Texts : <<t, "create", calls[t][1].target, x>> \in accepted
  PROVE  QueueOK(t, Rest(t) \o AddTags(t), page, accepted) /\ Keeps(Rest(t), Rest(t) \o AddTags(t))
<1>0. PICK c : c = calls[t][1]
  OBVIOUS
<1> DEFINE r == Rest(t)
           s == AddTags(t)
           k == Cardinality(c.all)
           q == r \o s
<1>1. calls[t] \in Seq(Calls) /\ c \in Calls
  BY <1>0 DEF QueueOK
<1>2. QueueOK(t, r, page, accepted)
  BY TailOK DEF Rest
<1>3. /\ k \in Nat
      /\ SetToSeq(c.all) \in [1..k -> c.all]
      /\ \A x \in c.all : \E n \in 1..k : SetToSeq(c.all)[n] = x
      /\ c.all \subseteq Tags
  <2>1. c \in CallShape
    BY <1>1 DEF Calls
  <2>2. c.all \in SUBSET Tags
    BY <2>1 DEF CallShape
  <2>3. QED
    BY <2>2, TagsOrdered
<1>4. s = [n \in 1..k |-> [c EXCEPT !.op = "addTag", !.arg = SetToSeq(c.all)[n]]]
  BY <1>0 DEF AddTags
<1>5. ASSUME NEW n \in 1..k
      PROVE  /\ s[n] \in Calls /\ s[n].op = "addTag" /\ s[n].form = "new"
             /\ s[n].target = c.target /\ s[n].all = c.all /\ s[n].here = c.here
             /\ s[n].arg = SetToSeq(c.all)[n]
  <2>1. PICK x \in Tags : x = SetToSeq(c.all)[n]
    BY <1>3
  <2>2. PICK d : d = Adding(c, x)
    OBVIOUS
  <2>3. s[n] = d
    BY <1>4, <2>1, <2>2 DEF Adding
  <2>4. /\ d \in Calls /\ d.op = "addTag" /\ d.form = c.form /\ d.target = c.target
        /\ d.all = c.all /\ d.here = c.here /\ d.arg = x
    BY <1>1, <2>1, <2>2, AddingCall
  <2>5. QED
    BY <1>0, <2>1, <2>3, <2>4
<1>6. s \in Seq(Calls) /\ Len(s) = k /\ DOMAIN s = 1..k
  <2>1. s \in [1..k -> Calls]
    BY <1>4, <1>5
  <2>2. QED
    BY <1>3, <2>1
<1> HIDE DEF s, r
<1>7. /\ q \in Seq(Calls) /\ DOMAIN q = 1..Len(r) + k /\ Len(r) \in Nat
      /\ DOMAIN r = 1..Len(r)
      /\ \A n \in 1..Len(r) : q[n] = r[n]
      /\ \A n \in 1..k : q[Len(r) + n] = s[n]
  BY <1>2, <1>3, <1>6 DEF QueueOK
<1> HIDE DEF q
<1>8. ASSUME NEW n \in DOMAIN q
      PROVE  (n \in DOMAIN r /\ q[n] = r[n]) \/ \E m \in 1..k : q[n] = s[m]
  <2>1. n \in 1..Len(r) \/ (n - Len(r) \in 1..k /\ n = Len(r) + (n - Len(r)))
    BY <1>3, <1>7
  <2>2. QED
    BY <1>7, <2>1
<1>9. c.here => page = "list"
  <2>1. 1 \in DOMAIN calls[t]
    BY <1>1
  <2>2. c.form = "new"
    BY <1>0
  <2>3. QED
    BY <1>0, <2>1, <2>2 DEF QueueOK, OnPage, PageOf
<1>10. CardsDecide(q) /\ OnPage(q, page) /\ EntityFirst(t, q, accepted)
  <2>4. EntityFirst(t, q, accepted)
    <3>1. \E x \in Texts : <<t, "create", c.target, x>> \in accepted
      BY <1>0
    <3>2. EntityFirst(t, r, accepted)
      BY <1>2 DEF QueueOK
    <3>3. ASSUME NEW n \in DOMAIN q, q[n].form = "new", q[n].op = "addTag"
          PROVE  \E x \in Texts : <<t, "create", q[n].target, x>> \in accepted
      <4>1. CASE n \in DOMAIN r /\ q[n] = r[n]
        BY <3>2, <3>3, <4>1 DEF EntityFirst
      <4>2. CASE \E m \in 1..k : q[n] = s[m]
        BY <1>5, <3>1, <4>2
      <4>3. QED
        BY <1>8, <4>1, <4>2
    <3>4. QED
      BY <3>3 DEF EntityFirst
  <2>1. CardsDecide(q)
    BY <1>2, <1>5, <1>8 DEF QueueOK, CardsDecide
  <2>2. OnPage(q, page)
    BY <1>2, <1>5, <1>8, <1>9 DEF QueueOK, OnPage, PageOf
  <2>3. QED
    BY <2>1, <2>2, <2>4
<1>11. TagsComing(t, q, accepted)
  <2> SUFFICES ASSUME NEW n \in DOMAIN q, q[n].form = "new", q[n].op = "addTag", NEW x \in q[n].all
               PROVE  \/ <<t, "addTag", q[n].target, x>> \in accepted
                      \/ \E m \in DOMAIN q : Adds(q[m], q[n].target, x)
    BY DEF TagsComing
  <2>1. CASE n \in DOMAIN r /\ q[n] = r[n]
    <3>1. CASE \E m \in DOMAIN r : Adds(r[m], r[n].target, x)
      BY <1>3, <1>7, <2>1, <3>1
    <3>2. QED
      BY <1>2, <2>1, <3>1 DEF QueueOK, TagsComing
  <2>2. CASE \E m \in 1..k : q[n] = s[m]
    <3>1. x \in c.all /\ q[n].target = c.target
      BY <1>5, <2>2
    <3>2. PICK m \in 1..k : SetToSeq(c.all)[m] = x
      BY <1>3, <3>1
    <3>3. Len(r) + m \in DOMAIN q /\ q[Len(r) + m] = s[m]
      BY <1>3, <1>7
    <3>4. Adds(s[m], q[n].target, x)
      BY <1>5, <3>1, <3>2 DEF Adds
    <3>5. QED
      BY <3>3, <3>4
  <2>3. QED
    BY <1>8, <2>1, <2>2
<1>12. Keeps(r, q)
  BY <1>5, <1>8 DEF Keeps
<1>13. QED
  BY <1>7, <1>10, <1>11, <1>12 DEF QueueOK, q, r, s

(* The calls of a page that is gone. *)
LEMMA UnmountedOK ==
  ASSUME NEW t, NEW page, NEW accepted, NEW cs, QueueOK(t, cs, page, accepted), NEW next
  PROVE  /\ QueueOK(t, Unmounted(cs), next, accepted) /\ Keeps(cs, Unmounted(cs))
         /\ cs # <<>> => Unmounted(cs) # <<>> /\ SameCall(cs[1], Unmounted(cs)[1])
<1> DEFINE r == Unmounted(cs)
<1>1. r = [n \in DOMAIN cs |-> [cs[n] EXCEPT !.here = FALSE, !.waits = FALSE]]
  BY DEF Unmounted
<1>2. cs \in Seq(Calls)
  BY DEF QueueOK
<1>3. ASSUME NEW n \in DOMAIN cs
      PROVE  SameCall(cs[n], r[n]) /\ r[n].form = cs[n].form /\ ~r[n].here
  <2>1. cs[n] \in Calls
    BY <1>2
  <2>2. QED
    BY <1>1, <2>1, CallGone
<1>0. r = [n \in DOMAIN cs |-> r[n]] /\ \A n \in DOMAIN cs : SameCall(cs[n], r[n]) /\ ~r[n].here
  BY <1>1, <1>3
<1> HIDE DEF r
<1>4. QueueOK(t, r, next, accepted) /\ (cs # <<>> => r # <<>>) /\ Keeps(cs, r)
  BY <1>0, <1>3, ChangedOK
<1>5. cs # <<>> => 1 \in DOMAIN cs
  BY <1>2
<1>6. QED
  BY <1>3, <1>4, <1>5 DEF r

(* The calls whose modal is closed. *)
LEMMA UnwaitedOK ==
  ASSUME NEW t, NEW page, NEW accepted, NEW cs, QueueOK(t, cs, page, accepted)
  PROVE  /\ QueueOK(t, Unwaited(cs), page, accepted) /\ Keeps(cs, Unwaited(cs))
         /\ cs # <<>> => Unwaited(cs) # <<>> /\ SameCall(cs[1], Unwaited(cs)[1])
<1> DEFINE r == Unwaited(cs)
<1>1. r = [n \in DOMAIN cs |-> [cs[n] EXCEPT !.waits = cs[n].waits /\ cs[n].form # "new"]]
  BY DEF Unwaited
<1>2. cs \in Seq(Calls)
  BY DEF QueueOK
<1>3. ASSUME NEW n \in DOMAIN cs
      PROVE  SameCall(cs[n], r[n]) /\ r[n].form = cs[n].form /\ (r[n].here => cs[n].here)
  <2>1. cs[n] \in Calls
    BY <1>2
  <2>2. PICK w \in BOOLEAN : w = (cs[n].waits /\ cs[n].form # "new")
    OBVIOUS
  <2>3. r[n] = [cs[n] EXCEPT !.waits = w]
    BY <1>1, <2>2
  <2>4. QED
    BY <2>1, <2>3, CallWaits
<1>4. r = [n \in DOMAIN cs |-> r[n]]
  BY <1>1
<1> HIDE DEF r
<1>5. QueueOK(t, r, page, accepted) /\ (cs # <<>> => r # <<>>) /\ Keeps(cs, r)
  BY <1>3, <1>4, ChangedOK
<1>6. cs # <<>> => 1 \in DOMAIN cs
  BY <1>2
<1>7. QED
  BY <1>3, <1>5, <1>6 DEF r

(* What a navigation leaves: if the call on its way still counts for its     *)
(* submission, no other call of it has been dropped.                       *)
LEMMA FirstOK ==
  ASSUME NEW t, NEW page, NEW accepted, NEW cs, QueueOK(t, cs, page, accepted)
  PROVE  /\ QueueOK(t, First(cs), page, accepted) /\ Keeps(cs, First(cs))
         /\ cs # <<>> => First(cs) # <<>> /\ SameCall(cs[1], First(cs)[1])
<1> DEFINE r == Tail(cs)
           dropped == \E n \in DOMAIN r : SameNew(cs[1], r[n])
<1>1. cs \in Seq(Calls)
  BY DEF QueueOK
<1>2. CASE cs = <<>>
  BY <1>2 DEF First, Keeps
<1>3. CASE cs # <<>>
  <2>1. PICK d : d = IF cs[1].form = "new" /\ dropped THEN [cs[1] EXCEPT !.form = "none"] ELSE cs[1]
    OBVIOUS
  <2>2. First(cs) = <<d>>
    BY <1>3, <2>1 DEF First
  <2>3. cs[1] \in Calls /\ 1 \in DOMAIN cs
    BY <1>1, <1>3
  <2>4. SameCall(cs[1], d) /\ d.here = cs[1].here
    BY <2>1, <2>3, CallFormNone DEF SameCall
  <2>5. <<d>> \in Seq(Calls) /\ DOMAIN <<d>> = {1} /\ <<d>>[1] = d /\ <<d>> # <<>>
    BY <2>4 DEF SameCall
  <2>6. CardsDecide(<<d>>) /\ OnPage(<<d>>, page) /\ EntityFirst(t, <<d>>, accepted)
    BY <2>3, <2>4, <2>5 DEF QueueOK, CardsDecide, OnPage, EntityFirst, SameCall
  <2>7. TagsComing(t, <<d>>, accepted)
    <3> SUFFICES ASSUME d.form = "new", d.op = "addTag", NEW x \in d.all
                 PROVE  <<t, "addTag", d.target, x>> \in accepted \/ Adds(d, d.target, x)
      BY <2>5 DEF TagsComing
    <3>1. d = cs[1] /\ ~dropped
      BY <2>1, <2>3, CallFormNone
    <3>2. ASSUME NEW m \in DOMAIN cs, Adds(cs[m], d.target, x) PROVE m = 1
      <4>1. CASE m # 1
        <5>1. m - 1 \in DOMAIN r /\ r[m - 1] = cs[m]
          BY <1>1, <1>3, <4>1
        <5>2. QED
          BY <3>1, <3>2, <5>1 DEF Adds, SameNew
      <4>2. QED
        BY <4>1
    <3>3. QED
      BY <2>3, <3>1, <3>2 DEF QueueOK, TagsComing
  <2>8. Keeps(cs, <<d>>)
    BY <2>3, <2>4, <2>5 DEF Keeps, SameCall
  <2>9. QED
    BY <2>2, <2>4, <2>5, <2>6, <2>7, <2>8 DEF QueueOK
<1>4. QED
  BY <1>2, <1>3

LEMMA SentOK ==
  ASSUME NEW t, NEW page, NEW accepted, QueueOK(t, calls[t], page, accepted)
  PROVE  /\ QueueOK(t, Sent(t), page, accepted) /\ Keeps(calls[t], Sent(t))
         /\ calls[t] # <<>> => Sent(t) # <<>> /\ SameCall(calls[t][1], Sent(t)[1])
BY FirstOK DEF Sent

-----------------------------------------------------------------------------
(* Steps of one tab.  Those that do not concern the backend. *)
FunctionsOnTabs ==
  ui = [u \in Tabs |-> ui[u]] /\ got = [u \in Tabs |-> got[u]] /\ calls = [u \in Tabs |-> calls[u]]

LEMMA TabStep ==
  ASSUME PInv, NEW t \in Tabs, UNCHANGED <<tour, entity, unsaved, taken>>,
         req' \in [Tabs -> Requests \cup {NoRequest}],
         loc' \in [Tabs -> Locations], going' \in [Tabs -> Locations],
         FunctionsOnTabs', clicks' \in 0..tour.clicks,
         \A u \in Tabs \ {t} : /\ req'[u] = req[u] /\ loc'[u] = loc[u] /\ ui'[u] = ui[u]
                               /\ got'[u] = got[u] /\ calls'[u] = calls[u],
         TabOK(t)'
  PROVE  PInv'
<1>1. \A q \in unsaved' : UnsavedOK(q)'
  BY DEF PInv, UnsavedOK
<1>2. ASSUME NEW u \in Tabs \ {t} PROVE TabOK(u)'
  BY <1>2 DEF PInv, TabOK, HeadSent, DialogOnList, WasDecided
<1>3. DOMAIN ui' = Tabs /\ DOMAIN got' = Tabs /\ DOMAIN calls' = Tabs
  BY DEF FunctionsOnTabs
<1>4. QED
  BY <1>1, <1>2, <1>3 DEF PInv, FunctionsOnTabs

(* The head of the queue stays. *)
LEMMA SameHead ==
  ASSUME NEW t, HeadSent(t), UNCHANGED <<entity, taken>>, req'[t] = req[t],
         calls[t] # <<>> => calls'[t] # <<>> /\ SameCall(calls[t][1], calls'[t][1])
  PROVE  HeadSent(t)'
BY DEF HeadSent, SameCall

(* What a step of a tab leaves of its queue, its page and what it loads; the *)
(* backend and the other tabs do not take part.                            *)
Effect(t) ==
  /\ UNCHANGED <<entity, unsaved, taken>>
  /\ \A u \in Tabs \ {t} : /\ req'[u] = req[u] /\ loc'[u] = loc[u] /\ going'[u] = going[u]
                           /\ ui'[u] = ui[u] /\ got'[u] = got[u] /\ calls'[u] = calls[u]
  /\ (req'[t] = req[t] /\ Keeps(calls[t], calls'[t])) \/ (At(t, "done") /\ Keeps(Rest(t), calls'[t]))
  /\ loc'[t] = loc[t] /\ SameRows(ui'[t], ui[t])
  /\ \/ going'[t] = going[t] /\ got'[t] = got[t]
     \/ Leads(t, going'[t]) /\ got'[t] = Nothing

LEMMA ClickPInv ==
  ASSUME PInv, NEW t \in Tabs, NEW form, NEW op, NEW e \in Entities, NEW arg, NEW all \in SUBSET Tags,
         Call(t, form, op, e, arg, all),
         form \in DOMAIN PageOf, loc[t].page = PageOf[form], op \in Ops, arg \in Args[op],
         form = "card" => op = "update" /\ \E s \in {"active", "archived"} : arg = [status |-> s],
         form = "new" => op = "create",
         UNCHANGED <<serverVars, tour, loc, going, got>>,
         ui' = [u \in Tabs |-> ui'[u]], \A u \in Tabs \ {t} : ui'[u] = ui[u],
         ScreenOK(ui'[t]), ui'[t].dismissed = ui[t].dismissed,
         ui'[t].dialog \in {ui[t].dialog, "none"}, SameRows(ui'[t], ui[t])
  PROVE  PInv' /\ (op # "create" => Effect(t))
<1>1. PICK c : c = Action(form, op, e, arg, all)
  OBVIOUS
<1>2. c \in Calls /\ c.form = form /\ c.op = op /\ c.arg = arg
  <2>1. arg \in AnyArg
    BY DEF AnyArg
  <2>2. c \in CallShape /\ c.form = form /\ c.op = op /\ c.arg = arg
    BY <1>1, <2>1 DEF CallShape, Action
  <2>3. QED
    BY <2>2 DEF Calls
<1>3. calls' = [calls EXCEPT ![t] = Append(@, c)] /\ clicks' = clicks + 1 /\ clicks < tour.clicks
  BY <1>1 DEF Call
<1>4. calls' = [u \in Tabs |-> calls'[u]] /\ calls'[t] = Append(calls[t], c)
  BY <1>3 DEF PInv
<1>5. \A u \in Tabs \ {t} : calls'[u] = calls[u]
  BY <1>3 DEF PInv
<1>6. TabOK(t)
  BY DEF PInv
<1>7. /\ QueueOK(t, calls'[t], loc[t].page, taken)
      /\ calls[t] # <<>> => calls'[t] # <<>> /\ calls'[t][1] = calls[t][1]
      /\ op # "create" => Keeps(calls[t], calls'[t])
  <2>1. QueueOK(t, calls[t], loc[t].page, taken)
    BY <1>6 DEF TabOK
  <2>2. form # "none"
    BY DEF PageOf
  <2>3. QED
    BY <1>2, <1>4, <2>1, <2>2, AppendOK
<1>8. HeadSent(t)'
  BY <1>6, <1>7 DEF TabOK, HeadSent, serverVars
<1>9. TabOK(t)'
  BY <1>6, <1>7, <1>8 DEF TabOK, DialogOnList, WasDecided, serverVars
<1>10. clicks' \in 0..tour.clicks
  BY <1>3, ToursAssumption DEF PInv
<1>11. PInv'
  BY <1>4, <1>5, <1>9, <1>10, TabStep DEF PInv, FunctionsOnTabs, serverVars
<1>12. op # "create" => Effect(t)
  BY <1>5, <1>7 DEF Effect, serverVars
<1>13. QED
  BY <1>11, <1>12

LEMMA ClickedPInv ==
  ASSUME PInv, NEW t \in Tabs, NEW form, NEW op, NEW e \in Entities, NEW arg,
         Clicked(t, form, op, e, arg),
         form \in DOMAIN PageOf, loc[t].page = PageOf[form], op \in Ops, arg \in Args[op],
         form = "card" => op = "update" /\ \E s \in {"active", "archived"} : arg = [status |-> s],
         form = "new" => op = "create"
  PROVE  PInv' /\ (op # "create" => Effect(t))
<1>1. ui' = [u \in Tabs |-> ui'[u]] /\ (\A u \in Tabs \ {t} : ui'[u] = ui[u]) /\ ui'[t] = ui[t]
  BY DEF Clicked, PInv
<1>2. ScreenOK(ui'[t]) /\ SameRows(ui'[t], ui[t])
  BY <1>1 DEF PInv, TabOK, SameRows
<1>3. QED
  BY <1>1, <1>2, ClickPInv DEF Clicked

(* Dialogs that are opened and closed. *)
LEMMA SetPInv ==
  ASSUME PInv, NEW t \in Tabs, NEW new, Set(t, new), ScreenOK(new),
         new.dismissed = ui[t].dismissed, new.dialog = "new" => loc[t].page = "list",
         SameRows(new, ui[t])
  PROVE  PInv' /\ Effect(t)
<1>1. /\ ui' = [u \in Tabs |-> ui'[u]] /\ ui'[t] = new
      /\ \A u \in Tabs \ {t} : ui'[u] = ui[u]
  BY DEF Set, PInv
<1>2. TabOK(t)
  BY DEF PInv
<1>3. TabOK(t)'
  BY <1>1, <1>2 DEF TabOK, HeadSent, DialogOnList, WasDecided, Set, serverVars
<1>4. PInv'
  BY <1>1, <1>3, TabStep DEF PInv, FunctionsOnTabs, Set, serverVars
<1>5. Effect(t)
  BY <1>1 DEF Effect, Keeps, Set, serverVars
<1>6. QED
  BY <1>4, <1>5

(* Navigations. *)
LEMMA NavigatePInv ==
  ASSUME PInv, NEW t \in Tabs, NEW l \in Locations, Navigate(t, l),
         NEW cs, calls' = [calls EXCEPT ![t] = cs], QueueOK(t, cs, loc[t].page, taken),
         calls[t] # <<>> => cs # <<>> /\ SameCall(calls[t][1], cs[1]),
         UNCHANGED <<serverVars, tour, loc, clicks>>,
         NEW new, ui' = [ui EXCEPT ![t] = new], ScreenOK(new),
         new.dismissed = ui[t].dismissed, new.dialog \in {ui[t].dialog, "none"},
         Keeps(calls[t], cs), SameRows(new, ui[t]), Leads(t, l)
  PROVE  PInv' /\ Effect(t)
<1>1. /\ FunctionsOnTabs' /\ ui'[t] = new /\ calls'[t] = cs
      /\ \A u \in Tabs \ {t} : ui'[u] = ui[u] /\ calls'[u] = calls[u] /\ got'[u] = got[u]
      /\ going' \in [Tabs -> Locations] /\ got'[t] = Nothing
      /\ going'[t] = l /\ \A u \in Tabs \ {t} : going'[u] = going[u]
  BY DEF PInv, FunctionsOnTabs, Navigate
<1>2. TabOK(t)
  BY DEF PInv
<1>3. FetchOK(Nothing)
  BY DEF FetchOK, Nothing
<1>4. HeadSent(t)'
  BY <1>1, <1>2, SameHead DEF TabOK, serverVars
<1>5. TabOK(t)'
  BY <1>1, <1>2, <1>3, <1>4 DEF TabOK, DialogOnList, WasDecided, serverVars
<1>6. PInv'
  BY <1>1, <1>5, TabStep DEF PInv, serverVars
<1>7. Effect(t)
  BY <1>1 DEF Effect, serverVars
<1>8. QED
  BY <1>6, <1>7

(* The code after an answer. *)
LEMMA GoOnPInv ==
  ASSUME PInv, NEW t \in Tabs, NEW form, Settles(t, form),
         NEW next, NEW l \in Locations, NEW rest, GoOn(t, next, l, rest),
         QueueOK(t, rest, loc[t].page, taken),
         ScreenOK(next), next.dialog \in {ui[t].dialog, "none"}, SameRows(next, ui[t]),
         \A e \in next.dismissed \ ui[t].dismissed : WasDecided(t, e),
         Keeps(Rest(t), rest), Leads(t, l)
  PROVE  PInv' /\ Effect(t)
<1>2. /\ ui' = [ui EXCEPT ![t] = next] /\ calls' = [calls EXCEPT ![t] = rest]
      /\ req' = [req EXCEPT ![t] = NoRequest]
      /\ UNCHANGED <<entity, unsaved, taken, tour, loc, clicks>>
      /\ (UNCHANGED <<going, got>> \/ Navigate(t, l))
  BY DEF GoOn
<1>3. TabOK(t)
  BY DEF PInv
<1>4. /\ ui' = [u \in Tabs |-> ui'[u]] /\ calls' = [u \in Tabs |-> calls'[u]]
      /\ ui'[t] = next /\ calls'[t] = rest /\ req'[t] = NoRequest
      /\ \A u \in Tabs \ {t} : ui'[u] = ui[u] /\ calls'[u] = calls[u] /\ req'[u] = req[u]
      /\ req' \in [Tabs -> Requests \cup {NoRequest}]
  BY <1>2 DEF PInv
<1>5. /\ going' \in [Tabs -> Locations] /\ got' = [u \in Tabs |-> got'[u]]
      /\ got'[t] \in {got[t], Nothing}
      /\ \A u \in Tabs \ {t} : got'[u] = got[u] /\ going'[u] = going[u]
      /\ (going'[t] = going[t] /\ got'[t] = got[t]) \/ (going'[t] = l /\ got'[t] = Nothing)
  BY <1>2 DEF PInv, Navigate
<1>6. FetchOK(got'[t])
  BY <1>3, <1>5 DEF TabOK, FetchOK, Nothing
<1>7. \A e \in next.dismissed : WasDecided(t, e)
  BY <1>3 DEF TabOK
<1>8. TabOK(t)'
  BY <1>2, <1>3, <1>4, <1>6, <1>7 DEF TabOK, HeadSent, DialogOnList, WasDecided
<1>9. PInv'
  BY <1>2, <1>4, <1>5, <1>8, TabStep DEF PInv, FunctionsOnTabs
<1>10. SameRows(ui'[t], ui[t])
  BY <1>4
<1>11. Effect(t)
  BY <1>2, <1>4, <1>5, <1>10 DEF Effect, Settles
<1>12. QED
  BY <1>9, <1>11

LEMMA ContinuePInv ==
  ASSUME PInv, NEW t \in Tabs, NEW form, Settles(t, form),
         NEW new, NEW l \in Locations, NEW rest, Continue(t, new, l, rest), QueueOK(t, rest, loc[t].page, taken),
         calls[t][1].here => ScreenOK(new) /\ new.dialog \in {ui[t].dialog, "none"}
                               /\ SameRows(new, ui[t])
                               /\ \A e \in new.dismissed \ ui[t].dismissed : WasDecided(t, e),
         Keeps(Rest(t), rest), Leads(t, l)
  PROVE  PInv' /\ Effect(t)
<1>1. PICK next : next = IF calls[t][1].here THEN new ELSE ui[t]
  OBVIOUS
<1>2. GoOn(t, next, l, rest)
  BY <1>1 DEF Continue
<1>3. ScreenOK(ui[t]) /\ SameRows(ui[t], ui[t])
  BY DEF PInv, TabOK, SameRows
<1>4. ScreenOK(next) /\ next.dialog \in {ui[t].dialog, "none"} /\ SameRows(next, ui[t])
      /\ \A e \in next.dismissed \ ui[t].dismissed : WasDecided(t, e)
  BY <1>1, <1>3
<1>5. QED
  BY <1>2, <1>4, GoOnPInv

-----------------------------------------------------------------------------
(* Places and what requests carry. *)
LEMMA PlaceOK ==
  ASSUME NEW p \in Pages \cup {"nowhere"}, NEW e \in Entities \cup {NoEntity},
         p \in {"detail", "edit"} => e # NoEntity
  PROVE  Place(p, e) \in Locations /\ Place(p, e).page = p
BY DEF Place, Locations, Statuses

LEMMA NowhereOK == Nowhere \in Locations
BY PlaceOK DEF Nowhere, Pages

LEMMA UpdateArgs ==
  ASSUME NEW s \in Statuses
  PROVE  /\ [status |-> s] \in Args["update"]
         /\ \A x \in Texts : [status |-> s, text |-> x] \in Args["update"]
BY DEF Args

LEMMA OpsFacts ==
  /\ "create" \in Ops /\ "update" \in Ops /\ "addTag" \in Ops /\ "deleteTag" \in Ops
  /\ "addPart" \in Ops /\ "deactivate" \in Ops /\ "bundle" \in Ops
  /\ Args["create"] = Texts /\ Args["addTag"] = Tags /\ Args["deleteTag"] = Tags
  /\ Args["addPart"] = Parts /\ Args["deactivate"] = Aliases /\ Args["bundle"] = {NoEntity}
BY DEF Ops, Args

(* The entity of the page. *)
LEMMA LocFacts ==
  ASSUME PInv, NEW t \in Tabs
  PROVE  /\ loc[t] \in Locations /\ going[t] \in Locations
         /\ \A p \in {"detail", "edit"} : On(t, p) => loc[t].of \in Entities
         /\ Shown(t) \subseteq Entities /\ ui[t].dismissed \subseteq Entities
         /\ ScreenOK(ui[t]) /\ QueueOK(t, calls[t], loc[t].page, taken)
         /\ Refreshing(t) \in Locations
BY DEF PInv, TabOK, ScreenOK, Locations, On, Shown, Refreshing

(* Clicks that call a server action. *)
LEMMA CallsPInv ==
  ASSUME PInv, NEW t \in Tabs,
         \/ Decide(t) \/ Approve(t) \/ EnterTag(t) \/ CrossTag(t) \/ AddPart(t)
         \/ Deactivate(t) \/ SubmitEdit(t) \/ RunFetch(t)
  PROVE  PInv' /\ Effect(t)
<1>1. CASE Decide(t)
  <2>1. PICK e \in Shown(t) \ ui[t].dismissed, s \in {"archived", "active"} :
          On(t, "review") /\ Clicked(t, "card", "update", e, [status |-> s])
    BY <1>1 DEF Decide
  <2>2. e \in Entities /\ [status |-> s] \in Args["update"]
    BY LocFacts, UpdateArgs DEF Statuses
  <2>3. QED
    BY <2>1, <2>2, OpsFacts, ClickedPInv DEF On, PageOf
<1>2. CASE Approve(t)
  <2>1. Clicked(t, "header", "update", loc[t].of, [status |-> "active"]) /\ On(t, "detail")
    BY <1>2 DEF Approve, Details
  <2>2. loc[t].of \in Entities /\ [status |-> "active"] \in Args["update"]
    BY <2>1, LocFacts, UpdateArgs DEF Statuses
  <2>3. QED
    BY <2>1, <2>2, OpsFacts, ClickedPInv DEF On, PageOf
<1>3. CASE EnterTag(t) \/ CrossTag(t)
  <2>1. PICK x \in Tags, op \in {"addTag", "deleteTag"} :
          Clicked(t, "tags", op, loc[t].of, x) /\ On(t, "detail")
    BY <1>3 DEF EnterTag, CrossTag, Details, Chips
  <2>2. loc[t].of \in Entities
    BY <2>1, LocFacts
  <2>3. QED
    BY <2>1, <2>2, OpsFacts, ClickedPInv DEF On, PageOf
<1>4. CASE AddPart(t)
  <2>1. \A ids : NewPart(ids) \subseteq ids
    BY DEF NewPart
  <2>2. PICK p \in Parts, pane \in {"alias", "context"} :
          Clicked(t, pane, "addPart", loc[t].of, p) /\ On(t, "detail")
    BY <1>4, <2>1 DEF AddPart, Details, Parts
  <2>3. loc[t].of \in Entities
    BY <2>2, LocFacts
  <2>4. QED
    BY <2>2, <2>3, OpsFacts, ClickedPInv DEF On, PageOf
<1>5. CASE Deactivate(t)
  <2>1. PICK p \in Aliases : Clicked(t, "deactivate", "deactivate", loc[t].of, p) /\ On(t, "detail")
    BY <1>5 DEF Deactivate, Details
  <2>2. loc[t].of \in Entities
    BY <2>1, LocFacts
  <2>3. QED
    BY <2>1, <2>2, OpsFacts, ClickedPInv DEF On, PageOf
<1>6. CASE SubmitEdit(t)
  <2>1. PICK s \in Statuses, x \in Texts :
          On(t, "edit") /\ Clicked(t, "edit", "update", loc[t].of, [status |-> s, text |-> x])
    BY <1>6 DEF SubmitEdit
  <2>2. loc[t].of \in Entities /\ [status |-> s, text |-> x] \in Args["update"]
    BY <2>1, LocFacts, UpdateArgs
  <2>3. QED
    BY <2>1, <2>2, OpsFacts, ClickedPInv DEF On, PageOf
<1>7. CASE RunFetch(t)
  <2>1. PICK e \in Entities : On(t, "bundle") /\ Clicked(t, "bundle", "bundle", e, NoEntity)
    BY <1>7 DEF RunFetch
  <2>2. QED
    BY <2>1, OpsFacts, ClickedPInv DEF On, PageOf
<1>8. QED
  BY <1>1, <1>2, <1>3, <1>4, <1>5, <1>6, <1>7

LEMMA SubmitNewPInv ==
  ASSUME PInv, NEW t \in Tabs, SubmitNew(t)
  PROVE  PInv'
<1>1. PICK e \in NewEntity, all \in SUBSET Tags, x \in Texts : Call(t, "new", "create", e, x, all)
  BY DEF SubmitNew
<1>2. e \in Entities
  BY DEF NewEntity, Entities
<1>3. UNCHANGED <<serverVars, tour, loc, going, got, ui>> /\ loc[t].page = "list"
  BY DEF SubmitNew, On
<1>4. ui' = [u \in Tabs |-> ui'[u]] /\ (\A u \in Tabs \ {t} : ui'[u] = ui[u]) /\ ui'[t] = ui[t]
  BY <1>3 DEF PInv
<1>5. ScreenOK(ui'[t]) /\ SameRows(ui'[t], ui[t])
  BY <1>4, LocFacts DEF SameRows
<1>6. QED
  BY <1>1, <1>2, <1>3, <1>4, <1>5, OpsFacts, ClickPInv DEF PageOf

WithDialog(u, d) == [u EXCEPT !.dialog = d]
WithDialogAnd(u, d, failed) == [u EXCEPT !.dialog = d, !.failed = failed]

LEMMA ScreenDialog ==
  ASSUME NEW u, ScreenOK(u), NEW d \in {"none", "new", "deprecate"},
         NEW v, v = WithDialog(u, d) \/ v = WithDialogAnd(u, d, "no") \/ v = WithDialogAnd(u, d, "page")
  PROVE  ScreenOK(v) /\ v.dismissed = u.dismissed /\ v.dialog = d /\ SameRows(v, u)
BY DEF ScreenOK, WithDialog, WithDialogAnd, SameRows

LEMMA DeprecatePInv ==
  ASSUME PInv, NEW t \in Tabs, Deprecate(t)
  PROVE  PInv' /\ Effect(t)
<1>1. PICK v : v = WithDialog(ui[t], "none")
  OBVIOUS
<1>2. /\ Call(t, "header", "update", loc[t].of, [status |-> "deprecated"], {})
      /\ UNCHANGED <<serverVars, tour, loc, going, got>>
      /\ On(t, "detail")
  BY DEF Deprecate
<1>3. ui' = [u \in Tabs |-> ui'[u]] /\ (\A u \in Tabs \ {t} : ui'[u] = ui[u]) /\ ui'[t] = v
  <2>1. ui' = [ui EXCEPT ![t] = v]
    BY <1>1 DEF Deprecate, WithDialog
  <2>2. QED
    BY <2>1 DEF PInv
<1>4. ScreenOK(v) /\ v.dismissed = ui[t].dismissed /\ v.dialog = "none" /\ SameRows(v, ui[t])
  BY <1>1, LocFacts, ScreenDialog
<1>5. loc[t].of \in Entities /\ [status |-> "deprecated"] \in Args["update"]
  BY <1>2, LocFacts, UpdateArgs DEF Statuses
<1>6. loc[t].page = PageOf["header"] /\ "header" \in DOMAIN PageOf
  BY <1>2 DEF On, PageOf
<1>7. QED
  BY <1>2, <1>3, <1>4, <1>5, <1>6, OpsFacts, ClickPInv

LEMMA DialogsPInv ==
  ASSUME PInv, NEW t \in Tabs, OpenNew(t) \/ OpenDeprecate(t) \/ CancelDeprecate(t)
  PROVE  PInv' /\ Effect(t)
<1> DEFINE Sets(d, v) == /\ Set(t, v) /\ (d = "new" => loc[t].page = "list")
                         /\ v = WithDialog(ui[t], d) \/ v = WithDialogAnd(ui[t], d, "no")
<1>1. \E d \in {"none", "new", "deprecate"} : \E v : Sets(d, v)
  <2>1. CASE OpenNew(t)
    <3>1. Set(t, WithDialogAnd(ui[t], "new", "no")) /\ loc[t].page = "list"
      BY <2>1 DEF OpenNew, ListOpen, On, WithDialogAnd
    <3>2. QED
      BY <3>1
  <2>2. CASE OpenDeprecate(t)
    <3>1. Set(t, WithDialog(ui[t], "deprecate"))
      BY <2>2 DEF OpenDeprecate, WithDialog
    <3>2. QED
      BY <3>1
  <2>3. CASE CancelDeprecate(t)
    <3>1. Set(t, WithDialog(ui[t], "none"))
      BY <2>3 DEF CancelDeprecate, WithDialog
    <3>2. QED
      BY <3>1
  <2>4. QED
    BY <2>1, <2>2, <2>3
<1>2. PICK d \in {"none", "new", "deprecate"} : \E v : Sets(d, v)
  BY <1>1
<1>3. PICK v : Sets(d, v)
  BY <1>2
<1>4. ScreenOK(v) /\ v.dismissed = ui[t].dismissed /\ v.dialog = d /\ SameRows(v, ui[t])
  BY <1>3, LocFacts, ScreenDialog
<1>5. QED
  BY <1>3, <1>4, SetPInv

-----------------------------------------------------------------------------
(* Clicks that navigate. *)
WithActive(u, active) == [u EXCEPT !.active = active]

LEMMA ScreenActive ==
  ASSUME NEW u, ScreenOK(u), NEW active \in SUBSET Tags, NEW v, v = WithActive(u, active)
  PROVE  ScreenOK(v) /\ v.dismissed = u.dismissed /\ v.dialog = u.dialog /\ SameRows(v, u)
BY DEF ScreenOK, WithActive, SameRows

(* An address of the list with other filters or another offset. *)
LEMMA SearchedOK ==
  ASSUME NEW l \in Locations, l.page = "list", NEW k,
         \/ \E s \in Statuses \cup {"any"} : k = [l EXCEPT !.status = s]
         \/ \E s \in SUBSET Tags : k = [l EXCEPT !.tags = s]
         \/ \E n \in Nat : k = [l EXCEPT !.offset = n]
  PROVE  k \in Locations /\ k.page = "list"
BY DEF Locations

LEMMA FilterPInv ==
  ASSUME PInv, NEW t \in Tabs, NEW l \in Locations, l.page = "list",
         NEW active \in SUBSET Tags, Filter(t, l, active)
  PROVE  PInv' /\ Effect(t)
<1>1. PICK k : k = [l EXCEPT !.offset = 0]
  OBVIOUS
<1>2. k \in Locations
  BY <1>1, SearchedOK
<1>3. PICK v : v = WithActive(ui[t], active)
  OBVIOUS
<1>4. ui' = [ui EXCEPT ![t] = v]
  BY <1>3 DEF Filter, WithActive
<1>5. Navigate(t, k) /\ calls' = [calls EXCEPT ![t] = Sent(t)] /\ UNCHANGED <<serverVars, tour, loc, clicks>>
  BY <1>1 DEF Filter
<1>6. ScreenOK(v) /\ v.dismissed = ui[t].dismissed /\ v.dialog = ui[t].dialog /\ SameRows(v, ui[t])
  BY <1>3, LocFacts, ScreenActive
<1>7. /\ QueueOK(t, Sent(t), loc[t].page, taken)
      /\ calls[t] # <<>> => Sent(t) # <<>> /\ SameCall(calls[t][1], Sent(t)[1])
      /\ Keeps(calls[t], Sent(t))
  BY LocFacts, SentOK
<1>8. Leads(t, k)
  BY <1>1 DEF Leads, Locations
<1>9. QED
  BY <1>2, <1>4, <1>5, <1>6, <1>7, <1>8, NavigatePInv

LEMMA FiltersPInv ==
  ASSUME PInv, NEW t \in Tabs, SelectStatus(t) \/ AddTagFilter(t) \/ RemoveTagFilter(t)
  PROVE  PInv' /\ Effect(t)
<1>1. loc[t] \in Locations /\ loc[t].page = "list" /\ ui[t].active \in SUBSET Tags
  BY DEF PInv, TabOK, ScreenOK, SelectStatus, AddTagFilter, RemoveTagFilter, ListOpen, On
<1>2. CASE SelectStatus(t)
  <2>1. PICK s \in {"any", "active"} : Filter(t, [loc[t] EXCEPT !.status = s], ui[t].active)
    BY <1>2 DEF SelectStatus
  <2>2. PICK l : l = [loc[t] EXCEPT !.status = s]
    OBVIOUS
  <2>3. l \in Locations /\ l.page = "list"
    BY <1>1, <2>2, SearchedOK DEF Statuses
  <2>4. QED
    BY <1>1, <2>1, <2>2, <2>3, FilterPInv
<1>3. CASE AddTagFilter(t) \/ RemoveTagFilter(t)
  <2>1. PICK next \in SUBSET Tags : Filter(t, [loc[t] EXCEPT !.tags = next], next)
    BY <1>1, <1>3 DEF AddTagFilter, RemoveTagFilter
  <2>2. PICK l : l = [loc[t] EXCEPT !.tags = next]
    OBVIOUS
  <2>3. l \in Locations /\ l.page = "list"
    BY <1>1, <2>2, SearchedOK
  <2>4. QED
    BY <1>1, <2>1, <2>2, <2>3, FilterPInv
<1>4. QED
  BY <1>2, <1>3

(* The numbers on the pager. *)
LEMMA PagerNumbers ==
  ASSUME PInv, NEW t \in Tabs
  PROVE  /\ PageNumber(t) \in Nat /\ TotalPages(t) \in Nat
         /\ \A n \in PagerButtons(t) : n \in Nat /\ n * PageSize \in Nat
<1>1. PageSize \in Nat \ {0}
  BY ToursAssumption
<1>2. loc[t].offset \in Nat /\ ui[t].total \in Nat
  BY DEF PInv, TabOK, ScreenOK, Locations
<1>3. \A a \in Nat : a \div PageSize \in Nat
  BY <1>1
<1>4. PageNumber(t) \in Nat /\ TotalPages(t) \in Nat
  <2>1. ui[t].total + PageSize - 1 \in Nat
    BY <1>1, <1>2
  <2>2. QED
    BY <1>2, <1>3, <2>1 DEF PageNumber, TotalPages
<1>5. \A n \in PagerButtons(t) : n \in Nat
  BY <1>4 DEF PagerButtons
<1>6. QED
  BY <1>1, <1>4, <1>5

(* A button leads to rows that the result has, or back.                     *)
LEMMA Quotient ==
  ASSUME NEW a \in Nat, NEW b \in Nat \ {0}
  PROVE  (a \div b) * b <= a
<1>1. a = b * (a \div b) + (a % b) /\ a % b \in 0..(b - 1) /\ a \div b \in Nat
  OBVIOUS
<1>2. QED
  BY <1>1

LEMMA Fewer ==
  ASSUME NEW a \in Nat, NEW n \in Nat, NEW b \in Nat \ {0}, n < a
  PROVE  n * b <= a * b - b
OBVIOUS

LEMMA PagerRows ==
  ASSUME PInv, NEW t \in Tabs, NEW n \in PagerButtons(t)
  PROVE  n * PageSize < ui[t].total \/ n * PageSize <= loc[t].offset
<1>1. PageSize \in Nat \ {0} /\ loc[t].offset \in Nat /\ ui[t].total \in Nat
  BY ToursAssumption DEF PInv, TabOK, ScreenOK, Locations
<1>2. PageNumber(t) \in Nat /\ TotalPages(t) \in Nat /\ n \in Nat /\ n * PageSize \in Nat
  BY PagerNumbers
<1>3. n < TotalPages(t) \/ (PageNumber(t) > 0 /\ n = PageNumber(t) - 1)
  BY <1>2 DEF PagerButtons
<1>4. CASE n < TotalPages(t)
  <2>1. PICK a \in Nat : a = ui[t].total + PageSize - 1
    BY <1>1
  <2>2. TotalPages(t) * PageSize <= a
    BY <1>1, <2>1, Quotient DEF TotalPages
  <2>3. n * PageSize <= TotalPages(t) * PageSize - PageSize
    BY <1>1, <1>2, <1>4, Fewer
  <2>4. TotalPages(t) * PageSize \in Nat
    BY <1>1, <1>2
  <2>5. QED
    BY <1>1, <1>2, <2>1, <2>2, <2>3, <2>4
<1>5. CASE PageNumber(t) > 0 /\ n = PageNumber(t) - 1
  <2>1. PageNumber(t) * PageSize <= loc[t].offset
    BY <1>1, Quotient DEF PageNumber
  <2>2. n * PageSize <= PageNumber(t) * PageSize - PageSize
    BY <1>1, <1>2, <1>5, Fewer
  <2>3. PageNumber(t) * PageSize \in Nat
    BY <1>1, <1>2
  <2>4. QED
    BY <1>1, <1>2, <2>1, <2>2, <2>3
<1>6. QED
  BY <1>3, <1>4, <1>5

LEMMA SetPagePInv ==
  ASSUME PInv, NEW t \in Tabs, SetPage(t)
  PROVE  PInv' /\ Effect(t)
<1>1. PICK n \in PagerButtons(t) : Navigate(t, [loc[t] EXCEPT !.offset = n * PageSize])
  BY DEF SetPage
<1>2. PICK l : l = [loc[t] EXCEPT !.offset = n * PageSize]
  OBVIOUS
<1>3. l \in Locations
  <2>1. n * PageSize \in Nat /\ loc[t] \in Locations /\ loc[t].page = "list"
    BY PagerNumbers, LocFacts DEF SetPage, ListOpen, On
  <2>2. QED
    BY <1>2, <2>1, SearchedOK
<1>4. calls' = [calls EXCEPT ![t] = Sent(t)] /\ UNCHANGED <<serverVars, tour, loc, ui, clicks>>
  BY DEF SetPage
<1>5. ui' = [ui EXCEPT ![t] = ui[t]]
  BY <1>4 DEF PInv
<1>6. /\ QueueOK(t, Sent(t), loc[t].page, taken)
      /\ calls[t] # <<>> => Sent(t) # <<>> /\ SameCall(calls[t][1], Sent(t)[1])
      /\ Keeps(calls[t], Sent(t))
  BY LocFacts, SentOK
<1>7. Navigate(t, l)
  BY <1>1, <1>2
<1>8. Leads(t, l)
  <2>1. loc[t].page = "list" /\ (n * PageSize < ui[t].total \/ n * PageSize <= loc[t].offset)
    BY PagerRows DEF SetPage, ListOpen, On
  <2>2. QED
    BY <1>2, <2>1, LocFacts DEF Leads, Locations, SetPage, ListOpen, On
<1>9. SameRows(ui[t], ui[t])
  BY DEF SameRows
<1>10. QED
  BY <1>3, <1>4, <1>5, <1>6, <1>7, <1>8, <1>9, LocFacts, NavigatePInv

LEMMA LinksOK ==
  ASSUME PInv, NEW t \in Tabs
  PROVE  Links(t) \subseteq Locations /\ \A l \in Links(t) : Leads(t, l)
<1>1. loc[t] \in Locations /\ Shown(t) \subseteq Entities
  BY LocFacts
<1>2. \A e \in Shown(t), p \in {"detail", "edit"} : Place(p, e) \in Locations
  BY <1>1, RoutesAssumption, PlaceOK DEF Pages
<1>3. \A p \in {"list", "review", "bundle"} : Place(p, NoEntity) \in Locations
  BY PlaceOK DEF Pages
<1>4. loc[t].page = "detail" =>
        Place("edit", loc[t].of) \in Locations /\ Place("bundle", loc[t].of) \in Locations
  BY <1>1, PlaceOK DEF Pages, Locations
<1>5. loc[t].page = "edit" => Place("detail", loc[t].of) \in Locations
  BY <1>1, PlaceOK DEF Pages, Locations
<1>6. Links(t) \subseteq Locations
  BY <1>1, <1>2, <1>3, <1>4, <1>5 DEF Links
<1>7. \A l \in Links(t) : l = loc[t] \/ l.offset = 0
  BY DEF Links, Place
<1>8. QED
  BY <1>6, <1>7 DEF Leads

WithHung(u, h, b) == [u EXCEPT !.hung = h, !.late = b]

LEMMA ScreenHung ==
  ASSUME NEW u, ScreenOK(u), NEW h, NEW b \in BOOLEAN, NEW v, v = WithHung(u, h, b)
  PROVE  /\ ScreenOK(v) /\ v.dismissed = u.dismissed /\ v.dialog = u.dialog /\ SameRows(v, u)
         /\ v.rows = u.rows /\ v.parts = u.parts /\ v.chips = u.chips /\ v.failed = u.failed
BY DEF ScreenOK, WithHung, SameRows

LEMMA FollowPInv ==
  ASSUME PInv, NEW t \in Tabs, Follow(t)
  PROVE  PInv' /\ Effect(t)
<1>1. PICK l \in Links(t) : Navigate(t, l)
  BY DEF Follow
<1>2. calls' = [calls EXCEPT ![t] = Sent(t)] /\ UNCHANGED <<serverVars, tour, loc, clicks>>
  BY DEF Follow
<1>3. PICK v : v = WithHung(ui[t], Hanging(t, 1), ui[t].late)
  OBVIOUS
<1>8. ui' = [ui EXCEPT ![t] = v]
  BY <1>3, LocFacts DEF Follow, WithHung, ScreenOK
<1>4. /\ QueueOK(t, Sent(t), loc[t].page, taken)
      /\ calls[t] # <<>> => Sent(t) # <<>> /\ SameCall(calls[t][1], Sent(t)[1])
      /\ Keeps(calls[t], Sent(t))
  BY LocFacts, SentOK
<1>5. l \in Locations /\ Leads(t, l)
  BY LinksOK
<1>6. ScreenOK(v) /\ v.dismissed = ui[t].dismissed /\ v.dialog = ui[t].dialog /\ SameRows(v, ui[t])
  <2>1. ScreenOK(ui[t])
    BY LocFacts
  <2>2. ui[t].late \in BOOLEAN
    BY <2>1 DEF ScreenOK
  <2>3. QED
    BY <1>3, <2>1, <2>2, ScreenHung
<1>7. QED
  BY <1>1, <1>2, <1>4, <1>5, <1>6, <1>8, NavigatePInv

LEMMA ClosedNew ==
  ASSUME PInv, NEW t \in Tabs
  PROVE  /\ ScreenOK(CloseNew(t)) /\ CloseNew(t).dismissed = ui[t].dismissed
         /\ CloseNew(t).dialog \in {ui[t].dialog, "none"} /\ SameRows(CloseNew(t), ui[t])
<1>1. ScreenOK(ui[t])
  BY LocFacts
<1>2. PICK d \in {"none", "new", "deprecate"} :
        d = (IF ui[t].dialog = "new" THEN "none" ELSE ui[t].dialog)
  BY <1>1 DEF ScreenOK
<1>3. CloseNew(t) = WithDialog(ui[t], d)
  BY <1>2 DEF CloseNew, WithDialog
<1>4. QED
  BY <1>1, <1>2, <1>3, ScreenDialog

LEMMA CancelNewPInv ==
  ASSUME PInv, NEW t \in Tabs, CancelNew(t)
  PROVE  PInv' /\ Effect(t)
<1>1. /\ ui' = [ui EXCEPT ![t] = CloseNew(t)] /\ Navigate(t, Refreshing(t))
      /\ calls' = [calls EXCEPT ![t] = Unwaited(calls[t])]
      /\ UNCHANGED <<serverVars, tour, loc, clicks>>
  BY DEF CancelNew
<1>2. /\ QueueOK(t, Unwaited(calls[t]), loc[t].page, taken)
      /\ calls[t] # <<>> => Unwaited(calls[t]) # <<>> /\ SameCall(calls[t][1], Unwaited(calls[t])[1])
      /\ Keeps(calls[t], Unwaited(calls[t]))
  BY LocFacts, UnwaitedOK
<1>3. Leads(t, Refreshing(t))
  BY DEF Leads, Refreshing
<1>4. QED
  BY <1>1, <1>2, <1>3, LocFacts, ClosedNew, NavigatePInv

LEMMA ClicksPInv ==
  ASSUME PInv, NEW t \in Tabs, Click(t)
  PROVE  PInv' /\ (Effect(t) \/ SubmitNew(t))
BY CallsPInv, SubmitNewPInv, DeprecatePInv, DialogsPInv, FiltersPInv, SetPagePInv, FollowPInv,
   CancelNewPInv DEF Click

-----------------------------------------------------------------------------
(* The code after the answers. *)
LEMMA HeadFacts ==
  ASSUME PInv, NEW t \in Tabs, NEW form, Settles(t, form)
  PROVE  /\ calls[t] # <<>> /\ calls[t][1] \in Calls /\ calls[t][1].form = form
         /\ req[t] \in Requests /\ req[t].target \in Entities
         /\ req[t].op = calls[t][1].op /\ req[t].target = calls[t][1].target
         /\ req[t].arg = calls[t][1].arg /\ req[t].arg \in Args[req[t].op]
         /\ req[t].ok /\ req[t].op # "bundle" =>
              <<t, req[t].op, req[t].target, req[t].arg>> \in taken
         /\ calls[t][1].here /\ form # "none" => loc[t].page = PageOf[form]
         /\ form = "card" =>
              req[t].op = "update" /\ \E s \in {"active", "archived"} : req[t].arg = [status |-> s]
         /\ form = "new" => req[t].op \in {"create", "addTag"}
         /\ QueueOK(t, calls[t], loc[t].page, taken)
<1>1. req[t] # NoRequest /\ calls[t][1].form = form
  BY DEF Settles, At
<1>2. HeadSent(t) /\ QueueOK(t, calls[t], loc[t].page, taken)
  BY DEF PInv, TabOK
<1>3. calls[t] # <<>> /\ calls[t] \in Seq(Calls)
  BY <1>1, <1>2 DEF HeadSent, QueueOK
<1>4. 1 \in DOMAIN calls[t] /\ calls[t][1] \in Calls
  BY <1>3
<1>5. req[t] \in Requests
  BY <1>1 DEF PInv
<1>6. req[t].target \in Entities /\ req[t].arg \in Args[req[t].op]
  BY <1>5 DEF Requests
<1>7. /\ calls[t][1].here /\ form # "none" => loc[t].page = PageOf[form]
      /\ form = "new" => calls[t][1].op \in {"create", "addTag"}
  BY <1>1, <1>2, <1>4 DEF QueueOK, OnPage
<1>8. form = "card" =>
        calls[t][1].op = "update" /\ \E s \in {"active", "archived"} : calls[t][1].arg = [status |-> s]
  BY <1>1, <1>2, <1>4 DEF QueueOK, CardsDecide
<1>9. /\ req[t].op = calls[t][1].op /\ req[t].target = calls[t][1].target
      /\ req[t].arg = calls[t][1].arg
      /\ req[t].ok /\ req[t].op # "bundle" =>
           <<t, req[t].op, req[t].target, req[t].arg>> \in taken
  BY <1>1, <1>2 DEF HeadSent
<1>10. QED
  BY <1>1, <1>2, <1>3, <1>4, <1>5, <1>6, <1>7, <1>8, <1>9

WithFailed(u, f) == [u EXCEPT !.failed = f]
WithDismissed(u, e) == [u EXCEPT !.dismissed = u.dismissed \cup {e}]
WithChips(u, x, n) == [u EXCEPT !.chips[x] = n]
WithResult(u, e) == [u EXCEPT !.result = e]

LEMMA ScreenChanges ==
  ASSUME NEW u, ScreenOK(u)
  PROVE  /\ \A f \in {"no", "message", "page"} :
              ScreenOK(WithFailed(u, f)) /\ SameRows(WithFailed(u, f), u) /\ WithFailed(u, f).dialog = u.dialog
              /\ WithFailed(u, f).dismissed = u.dismissed
         /\ \A e \in Entities :
              ScreenOK(WithDismissed(u, e)) /\ SameRows(WithDismissed(u, e), u) /\ WithDismissed(u, e).dialog = u.dialog
              /\ WithDismissed(u, e).dismissed = u.dismissed \cup {e}
         /\ \A x \in Tags, n \in Nat :
              ScreenOK(WithChips(u, x, n)) /\ SameRows(WithChips(u, x, n), u) /\ WithChips(u, x, n).dialog = u.dialog
              /\ WithChips(u, x, n).dismissed = u.dismissed
         /\ \A e :
              ScreenOK(WithResult(u, e)) /\ SameRows(WithResult(u, e), u) /\ WithResult(u, e).dialog = u.dialog
              /\ WithResult(u, e).dismissed = u.dismissed
<1>1. ASSUME NEW f \in {"no", "message", "page"}
      PROVE  ScreenOK(WithFailed(u, f)) /\ SameRows(WithFailed(u, f), u) /\ WithFailed(u, f).dialog = u.dialog
             /\ WithFailed(u, f).dismissed = u.dismissed
  BY DEF ScreenOK, SameRows, WithFailed
<1>2. ASSUME NEW e \in Entities
      PROVE  ScreenOK(WithDismissed(u, e)) /\ SameRows(WithDismissed(u, e), u) /\ WithDismissed(u, e).dialog = u.dialog
             /\ WithDismissed(u, e).dismissed = u.dismissed \cup {e}
  <2>1. PICK d : d = u.dismissed \cup {e}
    OBVIOUS
  <2>2. WithDismissed(u, e) = [u EXCEPT !.dismissed = d]
    BY <2>1 DEF WithDismissed
  <2>3. d \subseteq Entities
    BY <1>2, <2>1 DEF ScreenOK
  <2>4. QED
    BY <2>1, <2>2, <2>3 DEF ScreenOK, SameRows
<1>3. ASSUME NEW x \in Tags, NEW n \in Nat
      PROVE  ScreenOK(WithChips(u, x, n)) /\ SameRows(WithChips(u, x, n), u) /\ WithChips(u, x, n).dialog = u.dialog
             /\ WithChips(u, x, n).dismissed = u.dismissed
  BY DEF ScreenOK, SameRows, WithChips
<1>4. ASSUME NEW e
      PROVE  ScreenOK(WithResult(u, e)) /\ SameRows(WithResult(u, e), u) /\ WithResult(u, e).dialog = u.dialog
             /\ WithResult(u, e).dismissed = u.dismissed
  BY DEF ScreenOK, SameRows, WithResult
<1>5. QED
  BY <1>1, <1>2, <1>3, <1>4

(* A screen that a call may leave, and a queue it may leave. *)
Leaves(t, new) == ScreenOK(new) /\ SameRows(new, ui[t]) /\ new.dialog \in {ui[t].dialog, "none"}
                  /\ \A e \in new.dismissed \ ui[t].dismissed : WasDecided(t, e)

LEMMA LeavesSame ==
  ASSUME PInv, NEW t \in Tabs
  PROVE  Leaves(t, ui[t]) /\ Leaves(t, Message(t)) /\ Leaves(t, CloseNew(t)) /\ Leaves(t, Broken(t))
<1>1. ScreenOK(ui[t])
  BY LocFacts
<1>2. Leaves(t, Message(t))
  <2>1. PICK f \in {"no", "message", "page"} :
          f = IF calls[t][1].waits THEN "message" ELSE ui[t].failed
    BY <1>1 DEF ScreenOK
  <2>2. Message(t) = WithFailed(ui[t], f)
    BY <2>1 DEF Message, WithFailed
  <2>3. QED
    BY <1>1, <2>2, ScreenChanges DEF Leaves
<1>3. Leaves(t, Broken(t))
  <2>1. Broken(t) = [ui[t] EXCEPT !.failed = "page", !.dialog = "none", !.hung = {}]
    BY DEF Broken
  <2>2. ScreenOK(Broken(t)) /\ Broken(t).dialog = "none" /\ Broken(t).dismissed = ui[t].dismissed
        /\ SameRows(Broken(t), ui[t])
    BY <1>1, <2>1 DEF ScreenOK, SameRows
  <2>3. QED
    BY <2>2 DEF Leaves
<1>4. Leaves(t, ui[t])
  BY <1>1 DEF Leaves, SameRows
<1>5. QED
  BY <1>2, <1>3, <1>4, ClosedNew DEF Leaves

LEMMA RestOK ==
  ASSUME PInv, NEW t \in Tabs, NEW form, Settles(t, form), form # "new" \/ req[t].ok
  PROVE  /\ QueueOK(t, Rest(t), loc[t].page, taken)
         /\ QueueOK(t, Unmounted(Rest(t)), loc[t].page, taken)
         /\ Keeps(Rest(t), Rest(t)) /\ Keeps(Rest(t), Unmounted(Rest(t)))
<1>1. QueueOK(t, Rest(t), loc[t].page, taken)
  <2>1. QueueOK(t, calls[t], loc[t].page, taken) /\ calls[t] # <<>>
    BY HeadFacts
  <2>2. \/ calls[t][1].form # "new" \/ calls[t][1].op # "addTag"
        \/ <<t, "addTag", calls[t][1].target, calls[t][1].arg>> \in taken
    <3>1. /\ calls[t][1].form = form /\ req[t].op = calls[t][1].op
          /\ req[t].target = calls[t][1].target /\ req[t].arg = calls[t][1].arg
          /\ req[t].ok /\ req[t].op # "bundle" =>
               <<t, req[t].op, req[t].target, req[t].arg>> \in taken
      BY HeadFacts
    <3>2. QED
      BY <3>1
  <2>3. QED
    BY <2>1, <2>2, TailOK DEF Rest
<1>2. QED
  BY <1>1, UnmountedOK DEF Keeps

LEMMA AlwaysLeads ==
  ASSUME NEW t
  PROVE  Leads(t, Nowhere) /\ Leads(t, Refreshing(t)) /\ \A p, e : Leads(t, Place(p, e))
BY DEF Leads, Nowhere, Place, Refreshing

LEMMA DecidedPInv ==
  ASSUME PInv, NEW t \in Tabs, Decided(t)
  PROVE  PInv' /\ Effect(t)
<1>1. Settles(t, "card")
  BY DEF Decided
<1>2. PICK e \in Entities : e = req[t].target
  BY <1>1, HeadFacts
<1>3. CASE req[t].ok
  <2>1. Continue(t, WithDismissed(ui[t], e), Refreshing(t), Rest(t))
    BY <1>2, <1>3 DEF Decided, WithDismissed
  <2>2. WasDecided(t, e)
    BY <1>1, <1>2, <1>3, HeadFacts DEF WasDecided
  <2>3. Leaves(t, WithDismissed(ui[t], e))
    BY <2>2, LocFacts, ScreenChanges DEF Leaves
  <2>4. QED
    BY <1>1, <2>1, <2>3, RestOK, LocFacts, AlwaysLeads, ContinuePInv DEF Leaves
<1>4. CASE ~req[t].ok
  <2>1. Continue(t, Message(t), Nowhere, Rest(t))
    BY <1>4 DEF Decided
  <2>2. QED
    BY <1>1, <2>1, LeavesSame, NowhereOK, AlwaysLeads, RestOK, ContinuePInv DEF Leaves
<1>5. QED
  BY <1>3, <1>4

LEMMA NewDonePInv ==
  ASSUME PInv, NEW t \in Tabs, NewDone(t)
  PROVE  PInv' /\ Effect(t)
<1>1. Settles(t, "new")
  BY DEF NewDone
<1>2. QueueOK(t, calls[t], loc[t].page, taken) /\ calls[t] # <<>> /\ calls[t][1].form = "new"
  BY <1>1, HeadFacts
<1>3. CASE ~req[t].ok
  <2>1. Continue(t, Message(t), Nowhere, Rejected(t))
    BY <1>3 DEF NewDone
  <2>2. QueueOK(t, Rejected(t), loc[t].page, taken) /\ Keeps(Rest(t), Rejected(t))
    BY <1>2, RejectedOK
  <2>3. QED
    BY <1>1, <2>1, <2>2, LeavesSame, NowhereOK, AlwaysLeads, ContinuePInv DEF Leaves
<1>4. CASE req[t].ok /\ req[t].op = "create" /\ calls[t][1].all # {}
  <2>1. Continue(t, ui[t], Nowhere, Rest(t) \o AddTags(t))
    BY <1>4 DEF NewDone
  <2>2. /\ calls[t][1].op = "create"
        /\ \E x \in Texts : <<t, "create", calls[t][1].target, x>> \in taken
    BY <1>1, <1>4, HeadFacts, OpsFacts
  <2>3. QueueOK(t, Rest(t) \o AddTags(t), loc[t].page, taken)
        /\ Keeps(Rest(t), Rest(t) \o AddTags(t))
    BY <1>2, <2>2, AddTagsOK
  <2>4. QED
    BY <1>1, <2>1, <2>3, LeavesSame, NowhereOK, AlwaysLeads, ContinuePInv DEF Leaves
<1>5. CASE req[t].ok /\ ~(req[t].op = "create" /\ calls[t][1].all # {})
  <2>1. \/ Continue(t, CloseNew(t), Refreshing(t), Unwaited(Rest(t)))
        \/ Continue(t, ui[t], Nowhere, Rest(t))
    BY <1>5 DEF NewDone
  <2>2. /\ QueueOK(t, Rest(t), loc[t].page, taken) /\ Keeps(Rest(t), Rest(t))
        /\ QueueOK(t, Unwaited(Rest(t)), loc[t].page, taken) /\ Keeps(Rest(t), Unwaited(Rest(t)))
    BY <1>1, <1>5, RestOK, UnwaitedOK
  <2>3. QED
    BY <1>1, <2>1, <2>2, LeavesSame, NowhereOK, AlwaysLeads, LocFacts, ContinuePInv DEF Leaves
<1>6. QED
  BY <1>3, <1>4, <1>5

(* The others: what they leave and where they go. *)
LEMMA PlainPInv ==
  ASSUME PInv, NEW t \in Tabs, NEW form, Settles(t, form), form # "new",
         NEW new, Leaves(t, new), NEW l \in Locations, Leads(t, l), NEW rest \in {Rest(t), Unmounted(Rest(t))},
         Continue(t, new, l, rest)
  PROVE  PInv' /\ Effect(t)
BY RestOK, ContinuePInv DEF Leaves

LEMMA TagsPInv ==
  ASSUME PInv, NEW t \in Tabs, TagAdded(t) \/ TagDeleted(t)
  PROVE  PInv' /\ Effect(t)
<1>1. Settles(t, "tags") /\ req[t].op \in {"addTag", "deleteTag"}
  BY DEF TagAdded, TagDeleted
<1>2. PICK x \in Tags : x = req[t].arg
  BY <1>1, HeadFacts, OpsFacts
<1>3. CASE req[t].ok
  <2>1. \E n \in Nat : Continue(t, WithChips(ui[t], x, n), Refreshing(t), Rest(t))
    <3>1. CASE TagAdded(t)
      <4>1. Continue(t, WithChips(ui[t], x, ui[t].chips[x] + 1), Refreshing(t), Rest(t))
        BY <1>2, <1>3, <3>1 DEF TagAdded, WithChips
      <4>2. ui[t].chips[x] + 1 \in Nat
        <5>1. ui[t].chips \in [Tags -> Nat]
          BY LocFacts DEF ScreenOK
        <5>2. QED
          BY <5>1
      <4>3. QED
        BY <4>1, <4>2
    <3>2. CASE TagDeleted(t)
      <4>1. Continue(t, WithChips(ui[t], x, 0), Refreshing(t), Rest(t))
        BY <1>2, <1>3, <3>2 DEF TagDeleted, WithChips
      <4>2. QED
        BY <4>1
    <3>3. QED
      BY <3>1, <3>2
  <2>2. PICK n \in Nat : Continue(t, WithChips(ui[t], x, n), Refreshing(t), Rest(t))
    BY <2>1
  <2>3. Leaves(t, WithChips(ui[t], x, n))
    BY LocFacts, ScreenChanges DEF Leaves
  <2>4. QED
    BY <1>1, <2>2, <2>3, LocFacts, AlwaysLeads, PlainPInv
<1>4. CASE ~req[t].ok
  <2>1. Continue(t, Broken(t), Nowhere, Unmounted(Rest(t)))
    BY <1>4 DEF TagAdded, TagDeleted
  <2>2. QED
    BY <1>1, <2>1, LeavesSame, NowhereOK, AlwaysLeads, PlainPInv
<1>5. QED
  BY <1>3, <1>4

LEMMA BundleDonePInv ==
  ASSUME PInv, NEW t \in Tabs, BundleDone(t)
  PROVE  PInv' /\ Effect(t)
<1>1. Settles(t, "bundle")
  BY DEF BundleDone
<1>2. CASE req[t].ok
  <2>1. Continue(t, WithResult(ui[t], req[t].target), Nowhere, Rest(t))
    BY <1>2 DEF BundleDone, WithResult
  <2>2. Leaves(t, WithResult(ui[t], req[t].target))
    BY LocFacts, ScreenChanges DEF Leaves
  <2>3. QED
    BY <1>1, <2>1, <2>2, NowhereOK, AlwaysLeads, PlainPInv
<1>3. CASE ~req[t].ok
  <2>1. Continue(t, Message(t), Nowhere, Rest(t))
    BY <1>3 DEF BundleDone
  <2>2. QED
    BY <1>1, <2>1, LeavesSame, NowhereOK, AlwaysLeads, PlainPInv
<1>4. QED
  BY <1>2, <1>3

LEMMA SettlePInv ==
  ASSUME PInv, NEW t \in Tabs, Settle(t)
  PROVE  PInv' /\ Effect(t)
<1>1. CASE Ignored(t)
  BY <1>1, LeavesSame, NowhereOK, AlwaysLeads, PlainPInv DEF Ignored
<1>2. CASE ButtonDone(t)
  <2>1. PICK form \in {"header", "deactivate"} :
          /\ Settles(t, form)
          /\ \/ Continue(t, ui[t], Refreshing(t), Rest(t))
             \/ Continue(t, Broken(t), Nowhere, Unmounted(Rest(t)))
    BY <1>2 DEF ButtonDone
  <2>2. QED
    BY <2>1, LeavesSame, NowhereOK, AlwaysLeads, LocFacts, PlainPInv
<1>3. CASE PartAdded(t)
  <2>1. PICK form \in {"alias", "context"} :
          /\ Settles(t, form)
          /\ \/ Continue(t, ui[t], Refreshing(t), Rest(t))
             \/ Continue(t, Message(t), Nowhere, Rest(t))
    BY <1>3 DEF PartAdded
  <2>2. QED
    BY <2>1, LeavesSame, NowhereOK, AlwaysLeads, LocFacts, PlainPInv
<1>4. CASE EditDone(t)
  <2>1. Settles(t, "edit")
    BY <1>4 DEF EditDone
  <2>2. CASE req[t].ok
    <3>2. req[t].target \in Entities /\ req[t].target # NoEntity
      BY <2>1, HeadFacts, RoutesAssumption
    <3>3. Place("detail", req[t].target) \in Locations
      BY <3>2, PlaceOK DEF Pages
    <3>1. PICK k \in {1, 2} :
            GoOn(t, [ui[t] EXCEPT !.hung = Hanging(t, k), !.late = @ \/ ~calls[t][1].here],
                 Place("detail", req[t].target), IF k = 1 THEN <<>> ELSE First(Rest(t)))
      BY <1>4, <2>2 DEF EditDone
    <3>5. PICK b \in BOOLEAN : b = (ui[t].late \/ ~calls[t][1].here)
      OBVIOUS
    <3>6. PICK v : v = WithHung(ui[t], Hanging(t, k), b)
      OBVIOUS
    <3>7. PICK rest : rest = IF k = 1 THEN <<>> ELSE First(Rest(t))
      OBVIOUS
    <3>8. GoOn(t, v, Place("detail", req[t].target), rest)
      BY <3>1, <3>5, <3>6, <3>7 DEF WithHung
    <3>9. ScreenOK(v) /\ v.dismissed = ui[t].dismissed /\ v.dialog = ui[t].dialog /\ SameRows(v, ui[t])
      BY <3>6, LocFacts, ScreenHung
    <3>10. QueueOK(t, rest, loc[t].page, taken) /\ Keeps(Rest(t), rest)
      <4>1. QueueOK(t, <<>>, loc[t].page, taken) /\ Keeps(Rest(t), <<>>)
        BY DEF QueueOK, CardsDecide, OnPage, TagsComing, EntityFirst, Keeps
      <4>2. QueueOK(t, Rest(t), loc[t].page, taken)
        BY <2>1, RestOK
      <4>3. QED
        BY <3>7, <4>1, <4>2, FirstOK
    <3>4. QED
      BY <2>1, <3>3, <3>8, <3>9, <3>10, AlwaysLeads, GoOnPInv
  <2>3. CASE ~req[t].ok
    <3>1. Continue(t, Message(t), Nowhere, Rest(t))
      BY <1>4, <2>3 DEF EditDone
    <3>2. QED
      BY <2>1, <3>1, LeavesSame, NowhereOK, AlwaysLeads, PlainPInv
  <2>4. QED
    BY <2>2, <2>3
<1>5. QED
  BY <1>1, <1>2, <1>3, <1>4, DecidedPInv, NewDonePInv, TagsPInv, BundleDonePInv DEF Settle

-----------------------------------------------------------------------------
(* Loading a page. *)
LEMMA ListedEntities ==
  ASSUME NEW l \in Locations
  PROVE  Listed(l) \subseteq Entities
BY DEF Listed, Matching, Entities, Locations

LEMMA MatchingFinite ==
  ASSUME NEW l
  PROVE  /\ Matching(l) \subseteq 1..Len(Order) /\ IsFiniteSet(Matching(l))
         /\ Cardinality(Matching(l)) \in Nat
<1>1. Order \in Seq(Entities)
  BY RoutesAssumption
<1>2. DOMAIN Order = 1..Len(Order) /\ Len(Order) \in Nat
  BY <1>1
<1>3. Matching(l) \subseteq 1..Len(Order)
  BY <1>2 DEF Matching
<1>4. IsFiniteSet(1..Len(Order))
  BY <1>2, FS_Interval
<1>5. QED
  BY <1>3, <1>4, FS_Subset, FS_CardinalityType

WithRows(g, rows, total) == [g EXCEPT !.rows = rows, !.total = total]
WithParts(g, parts) == [g EXCEPT !.parts = parts]

LEMMA FetchChanges ==
  ASSUME NEW g, FetchOK(g)
  PROVE  /\ \A rows, total : DOMAIN rows \subseteq Entities /\ total \in Nat =>
              FetchOK(WithRows(g, rows, total))
         /\ \A parts : FetchOK(WithParts(g, parts))
<1>1. ASSUME NEW rows, NEW total \in Nat, DOMAIN rows \subseteq Entities
      PROVE  FetchOK(WithRows(g, rows, total))
  <2>0. PICK r, p, n : g = [rows |-> r, parts |-> p, total |-> n]
    BY DEF FetchOK
  <2>1. WithRows(g, rows, total) = [rows |-> rows, parts |-> p, total |-> total]
    <3>1. WithRows(g, rows, total)
            = [[rows |-> r, parts |-> p, total |-> n] EXCEPT !.rows = rows, !.total = total]
      BY <2>0, Zenon DEF WithRows
    <3>2. QED
      BY <3>1
  <2>2. QED
    BY <1>1, <2>1 DEF FetchOK
<1>2. ASSUME NEW parts PROVE FetchOK(WithParts(g, parts))
  BY DEF FetchOK, WithParts
<1>3. QED
  BY <1>1, <1>2

LEMMA GotPInv ==
  ASSUME PInv, NEW t \in Tabs, NEW g, FetchOK(g), got' = [got EXCEPT ![t] = g],
         UNCHANGED <<serverVars, tour, loc, going, ui, calls, clicks>>
  PROVE  PInv'
<1>1. /\ got' = [u \in Tabs |-> got'[u]] /\ got'[t] = g
      /\ \A u \in Tabs \ {t} : got'[u] = got[u]
  BY DEF PInv
<1>2. TabOK(t)
  BY DEF PInv
<1>3. TabOK(t)'
  BY <1>1, <1>2 DEF TabOK, HeadSent, DialogOnList, WasDecided, serverVars
<1>4. QED
  BY <1>1, <1>3, TabStep DEF PInv, FunctionsOnTabs, serverVars

LEMMA FetchPInv ==
  ASSUME PInv, NEW t \in Tabs, FetchRows(t) \/ FetchParts(t)
  PROVE  PInv'
<1>1. FetchOK(got[t])
  BY DEF PInv, TabOK
<1>2. CASE FetchRows(t)
  <2>1. PICK rows : rows = IF going[t].page = "bundle" THEN <<>>
                           ELSE [e \in Listed(going[t]) |-> Columns(e)]
    OBVIOUS
  <2>2. PICK total \in Nat : total = Cardinality(Matching(going[t]))
    BY MatchingFinite
  <2>3. DOMAIN rows \subseteq Entities
    BY <2>1, ListedEntities, LocFacts
  <2>4. got' = [got EXCEPT ![t] = WithRows(got[t], rows, total)]
    BY <1>2, <2>1, <2>2 DEF FetchRows, WithRows
  <2>5. FetchOK(WithRows(got[t], rows, total))
    BY <1>1, <2>3, FetchChanges
  <2>6. QED
    BY <1>2, <2>4, <2>5, GotPInv DEF FetchRows
<1>3. CASE FetchParts(t)
  <2>1. PICK parts : parts =
          [e \in IF going[t].page = "review" THEN DOMAIN got[t].rows ELSE {going[t].of} |->
             entity[e].parts]
    OBVIOUS
  <2>2. got' = [got EXCEPT ![t] = WithParts(got[t], parts)]
    BY <1>3, <2>1 DEF FetchParts, WithParts
  <2>3. FetchOK(WithParts(got[t], parts))
    BY <1>1, FetchChanges
  <2>4. QED
    BY <1>3, <2>2, <2>3, GotPInv DEF FetchParts
<1>4. QED
  BY <1>2, <1>3

LEMMA FetchedRows ==
  ASSUME PInv, NEW t \in Tabs, Fetched(t)
  PROVE  DOMAIN got[t].rows \subseteq Entities /\ got[t].total \in Nat
BY DEF PInv, TabOK, FetchOK, Fetched

LEMMA OpenedOK ==
  ASSUME PInv, NEW t \in Tabs, Fetched(t), NEW l \in Locations
  PROVE  /\ ScreenOK(Opened(got[t], l)) /\ Opened(got[t], l).dialog = "none"
         /\ Opened(got[t], l).dismissed = {}
<1>1. DOMAIN got[t].rows \subseteq Entities /\ got[t].total \in Nat
  BY FetchedRows
<1>2. l.tags \subseteq Tags
  BY DEF Locations
<1>3. QED
  BY <1>1, <1>2 DEF Opened, ScreenOK

(* The page that asks on arrival appends to a queue that is not on screen. *)
LEMMA FirstCallsOK ==
  ASSUME NEW t, NEW cs, NEW accepted, NEW l \in Locations, QueueOK(t, cs, l.page, accepted)
  PROVE  /\ QueueOK(t, cs \o FirstCalls(l), l.page, accepted) /\ Keeps(cs, cs \o FirstCalls(l))
         /\ cs # <<>> => cs \o FirstCalls(l) # <<>> /\ (cs \o FirstCalls(l))[1] = cs[1]
<1>1. cs \in Seq(Calls)
  BY DEF QueueOK
<1>2. CASE FirstCalls(l) = <<>>
  <2>1. cs \o FirstCalls(l) = cs
    BY <1>1, <1>2
  <2>2. QED
    BY <2>1 DEF Keeps
<1>3. CASE l.page = "bundle" /\ l.of # NoEntity
  <2>1. PICK c : c = Action("bundle", "bundle", l.of, NoEntity, {})
    OBVIOUS
  <2>2. c \in Calls /\ c.form = "bundle" /\ c.op = "bundle"
    <3>1. l.of \in Entities /\ NoEntity \in AnyArg
      BY <1>3, OpsFacts DEF Locations, AnyArg
    <3>2. c \in CallShape /\ c.form = "bundle" /\ c.op = "bundle" /\ c.arg = NoEntity
      BY <2>1, <3>1, OpsFacts DEF CallShape, Action, PageOf
    <3>3. QED
      BY <3>2, OpsFacts DEF Calls
  <2>3. FirstCalls(l) = <<c>>
    BY <1>3, <2>1 DEF FirstCalls
  <2>4. cs \o FirstCalls(l) = Append(cs, c)
    BY <1>1, <2>2, <2>3
  <2>5. l.page = PageOf["bundle"]
    BY <1>3 DEF PageOf
  <2>6. QED
    BY <2>2, <2>4, <2>5, AppendOK
<1>4. QED
  BY <1>2, <1>3 DEF FirstCalls

LEMMA ArrivePInv ==
  ASSUME PInv, NEW t \in Tabs, Arrive(t)
  PROVE  PInv' /\ Keeps(calls[t], calls'[t])
<1>1. PICK l \in Locations : l = going[t]
  BY LocFacts
<1>2. /\ Fetched(t) /\ loc' = [loc EXCEPT ![t] = l] /\ going' = [going EXCEPT ![t] = Nowhere]
      /\ got' = [got EXCEPT ![t] = Nothing] /\ UNCHANGED <<serverVars, tour, clicks>>
  BY <1>1 DEF Arrive
<1>3. /\ loc' \in [Tabs -> Locations] /\ going' \in [Tabs -> Locations]
      /\ got' = [u \in Tabs |-> got'[u]] /\ got'[t] = Nothing /\ loc'[t] = l
      /\ \A u \in Tabs \ {t} : got'[u] = got[u] /\ loc'[u] = loc[u]
  BY <1>1, <1>2, NowhereOK DEF PInv
<1>4. FetchOK(Nothing)
  BY DEF FetchOK, Nothing
<1>5. TabOK(t)
  BY DEF PInv
<1>6. /\ ui' = [u \in Tabs |-> ui'[u]] /\ calls' = [u \in Tabs |-> calls'[u]]
      /\ \A u \in Tabs \ {t} : ui'[u] = ui[u] /\ calls'[u] = calls[u]
      /\ ScreenOK(ui'[t]) /\ ui'[t].dismissed \subseteq ui[t].dismissed
      /\ ui'[t].dialog = "new" => ui[t].dialog = "new" /\ l.page = loc[t].page
      /\ QueueOK(t, calls'[t], l.page, taken)
      /\ calls[t] # <<>> => calls'[t] # <<>> /\ SameCall(calls[t][1], calls'[t][1])
      /\ Keeps(calls[t], calls'[t])
  <2>1. CASE l.page = loc[t].page /\ l.of = loc[t].of /\ ui[t].failed # "page"
    <3>1. PICK v : v = [ui[t] EXCEPT !.rows = got[t].rows, !.parts = got[t].parts,
                                     !.total = got[t].total]
      OBVIOUS
    <3>2. ui' = [ui EXCEPT ![t] = v] /\ calls' = calls
      BY <1>1, <2>1, <3>1 DEF Arrive
    <3>3. ScreenOK(v) /\ v.dismissed = ui[t].dismissed /\ v.dialog = ui[t].dialog
      <4>1. ScreenOK(ui[t])
        BY LocFacts
      <4>2. DOMAIN got[t].rows \subseteq Entities /\ got[t].total \in Nat
        BY <1>2, FetchedRows
      <4>3. QED
        BY <3>1, <4>1, <4>2 DEF ScreenOK
    <3>4. QueueOK(t, calls[t], l.page, taken)
      BY <2>1, <1>5 DEF TabOK
    <3>5. calls[t] # <<>> => calls[t][1] \in Calls
      BY <3>4 DEF QueueOK
    <3>6. QED
      BY <2>1, <3>2, <3>3, <3>4, <3>5 DEF PInv, SameCall, Keeps
  <2>2. CASE ~(l.page = loc[t].page /\ l.of = loc[t].of /\ ui[t].failed # "page")
    <3>1. PICK v : v = Opened(got[t], l)
      OBVIOUS
    <3>2. PICK cs : cs = Unmounted(calls[t]) \o FirstCalls(l)
      OBVIOUS
    <3>3. ui' = [ui EXCEPT ![t] = v] /\ calls' = [calls EXCEPT ![t] = cs]
      BY <1>1, <2>2, <3>1, <3>2 DEF Arrive
    <3>4. ScreenOK(v) /\ v.dialog = "none" /\ v.dismissed = {}
      BY <1>2, <3>1, OpenedOK
    <3>5. /\ QueueOK(t, Unmounted(calls[t]), l.page, taken)
          /\ calls[t] # <<>> => Unmounted(calls[t]) # <<>> /\ SameCall(calls[t][1], Unmounted(calls[t])[1])
          /\ Keeps(calls[t], Unmounted(calls[t]))
      BY LocFacts, UnmountedOK
    <3>6. /\ QueueOK(t, cs, l.page, taken)
          /\ calls[t] # <<>> => cs # <<>> /\ SameCall(calls[t][1], cs[1])
          /\ Keeps(calls[t], cs)
      <4>1. /\ QueueOK(t, cs, l.page, taken)
            /\ Unmounted(calls[t]) # <<>> => cs # <<>> /\ cs[1] = Unmounted(calls[t])[1]
            /\ Keeps(Unmounted(calls[t]), cs)
        BY <3>2, <3>5, FirstCallsOK
      <4>2. Keeps(calls[t], cs)
        BY <3>5, <4>1 DEF Keeps
      <4>3. QED
        BY <3>5, <4>1, <4>2
    <3>7. QED
      BY <3>3, <3>4, <3>6 DEF PInv
  <2>3. QED
    BY <2>1, <2>2
<1>7. HeadSent(t)'
  BY <1>2, <1>5, <1>6, SameHead DEF TabOK, serverVars
<1>8. TabOK(t)'
  BY <1>2, <1>3, <1>4, <1>5, <1>6, <1>7 DEF TabOK, DialogOnList, WasDecided, serverVars
<1>9. PInv'
  BY <1>2, <1>3, <1>6, <1>8, TabStep DEF PInv, FunctionsOnTabs, serverVars
<1>10. QED
  BY <1>6, <1>9

-----------------------------------------------------------------------------
(* The backend.  What tabs have been told stays accepted. *)
LEMMA MoreTaken ==
  ASSUME PInv, NEW u \in Tabs, taken \subseteq taken',
         \A e \in Entities : entity[e] # NoEntity => entity'[e] # NoEntity,
         UNCHANGED <<req[u], loc[u], ui[u], got[u], calls[u]>>
  PROVE  TabOK(u)'
<1>1. TabOK(u)
  BY DEF PInv
<1>2. TagsComing(u, calls[u], taken') /\ EntityFirst(u, calls[u], taken')
  BY <1>1 DEF TabOK, QueueOK, TagsComing, EntityFirst
<1>3. HeadSent(u)'
  <2>1. req[u] # NoRequest => req[u] \in Requests /\ req[u].target \in Entities
    BY DEF PInv, Requests
  <2>2. QED
    BY <1>1, <2>1 DEF TabOK, HeadSent
<1>4. QED
  BY <1>1, <1>2, <1>3 DEF TabOK, QueueOK, DialogOnList, WasDecided

LEMMA ServerPInv ==
  ASSUME PInv, NEW t \in Tabs,
         UNCHANGED <<tour, loc, going, ui, got, calls, clicks>>,
         entity' \in [Entities -> EntityRow \cup {NoEntity}],
         \A e \in Entities : entity[e] # NoEntity => entity'[e] # NoEntity,
         taken \subseteq taken', unsaved' \subseteq Requests, \A q \in unsaved' : UnsavedOK(q)',
         NEW q \in Requests \cup {NoRequest}, req' = [req EXCEPT ![t] = q], HeadSent(t)'
  PROVE  PInv'
<1>1. ASSUME NEW u \in Tabs \ {t} PROVE TabOK(u)'
  <2>1. req'[u] = req[u]
    BY DEF PInv
  <2>2. QED
    BY <2>1, MoreTaken
<1>2. TabOK(t)'
  <2>1. TabOK(t)
    BY DEF PInv
  <2>2. TagsComing(t, calls[t], taken') /\ EntityFirst(t, calls[t], taken')
    BY <2>1 DEF TabOK, QueueOK, TagsComing, EntityFirst
  <2>3. QED
    BY <2>1, <2>2 DEF TabOK, QueueOK, DialogOnList, WasDecided
<1>3. QED
  BY <1>1, <1>2 DEF PInv

(* Steps that only change the request. *)
LEMMA RequestPInv ==
  ASSUME PInv, NEW t \in Tabs, NEW q \in Requests, req' = [req EXCEPT ![t] = q],
         UNCHANGED <<entity, unsaved, taken, tour, loc, going, ui, got, calls, clicks>>,
         HeadSent(t)'
  PROVE  PInv'
<1>1. \A r \in unsaved' : UnsavedOK(r)'
  BY DEF PInv, UnsavedOK
<1>2. QED
  BY <1>1, ServerPInv DEF PInv

LEMMA SendPInv ==
  ASSUME PInv, NEW t \in Tabs, Send(t)
  PROVE  PInv'
<1>1. PICK c : c = calls[t][1]
  OBVIOUS
<1>2. c \in Calls /\ calls[t] # <<>>
  BY <1>1, LocFacts DEF QueueOK, Send
<1>3. PICK q : q = Request(t, c, User(t))
  OBVIOUS
<1>4. q \in Requests /\ q.tab = t /\ q.op = c.op /\ q.target = c.target /\ q.arg = c.arg
      /\ ~q.ok /\ q.at = "sent"
  <2>1. User(t) \in People
    BY ToursAssumption DEF PInv, User
  <2>2. c \in CallShape /\ c.arg \in Args[c.op]
    BY <1>2 DEF Calls
  <2>3. c.op \in Ops /\ c.target \in Entities /\ c.arg \in UNION {Args[o] : o \in Ops}
    BY <2>2 DEF CallShape, AnyArg
  <2>4. QED
    BY <1>3, <2>1, <2>2, <2>3 DEF Request, Requests
<1>5. req' = [req EXCEPT ![t] = q] /\ UNCHANGED <<entity, unsaved, taken, tabVars>>
  BY <1>1, <1>3 DEF Send
<1>6. req'[t] = q
  BY <1>5 DEF PInv
<1>7. HeadSent(t)'
  BY <1>1, <1>2, <1>4, <1>5, <1>6 DEF HeadSent, tabVars
<1>8. QED
  BY <1>4, <1>5, <1>7, RequestPInv DEF tabVars

(* An answer, on whatever. *)
Answered(q, ok) == [q EXCEPT !.at = "done", !.ok = ok]
Loaded(q, seen) == [q EXCEPT !.at = "loaded", !.seen = seen]

LEMMA RequestChanges ==
  ASSUME NEW q \in Requests
  PROVE  /\ \A ok \in BOOLEAN : LET r == Answered(q, ok) IN
              /\ r \in Requests /\ r.at = "done" /\ r.ok = ok
              /\ r.tab = q.tab /\ r.op = q.op /\ r.target = q.target /\ r.arg = q.arg
         /\ \A seen \in EntityRow \cup {NoEntity} : LET r == Loaded(q, seen) IN
              /\ r \in Requests /\ r.at = "loaded" /\ r.ok = q.ok
              /\ r.tab = q.tab /\ r.op = q.op /\ r.target = q.target /\ r.arg = q.arg
<1>1. ASSUME NEW ok \in BOOLEAN, NEW r, r = Answered(q, ok)
      PROVE  /\ r \in Requests /\ r.at = "done" /\ r.ok = ok
             /\ r.tab = q.tab /\ r.op = q.op /\ r.target = q.target /\ r.arg = q.arg
  BY <1>1 DEF Requests, Answered
<1>2. ASSUME NEW seen \in EntityRow \cup {NoEntity}, NEW r, r = Loaded(q, seen)
      PROVE  /\ r \in Requests /\ r.at = "loaded" /\ r.ok = q.ok
             /\ r.tab = q.tab /\ r.op = q.op /\ r.target = q.target /\ r.arg = q.arg
  BY <1>2 DEF Requests, Loaded
<1>3. QED
  BY <1>1, <1>2

LEMMA AnswerFacts ==
  ASSUME PInv, NEW t \in Tabs, req[t] # NoRequest, NEW ok \in BOOLEAN, Answer(t, ok)
  PROVE  \E q \in Requests :
           /\ req' = [req EXCEPT ![t] = q] /\ req'[t] = q /\ q.at = "done" /\ q.ok = ok
           /\ q.tab = t /\ q.op = calls[t][1].op /\ q.target = calls[t][1].target
           /\ q.arg = calls[t][1].arg /\ calls[t] # <<>>
           /\ q.op = req[t].op /\ q.target = req[t].target /\ q.arg = req[t].arg
<1>1. req[t] \in Requests
  BY DEF PInv
<1>2. HeadSent(t)
  BY DEF PInv, TabOK
<1>3. PICK q : q = Answered(req[t], ok)
  OBVIOUS
<1>4. req' = [req EXCEPT ![t] = q]
  BY <1>3 DEF Answer, Answered
<1>5. req'[t] = q
  BY <1>4 DEF PInv
<1>6. q \in Requests /\ q.at = "done" /\ q.ok = ok /\ q.tab = req[t].tab
      /\ q.op = req[t].op /\ q.target = req[t].target /\ q.arg = req[t].arg
  BY <1>1, <1>3, RequestChanges
<1>7. QED
  BY <1>2, <1>4, <1>5, <1>6 DEF HeadSent

LEMMA RefusedPInv ==
  ASSUME PInv, NEW t \in Tabs, req[t] # NoRequest, Answer(t, FALSE),
         UNCHANGED <<entity, unsaved, taken, tour, loc, going, ui, got, calls, clicks>>
  PROVE  PInv'
<1>1. PICK q \in Requests :
           /\ req' = [req EXCEPT ![t] = q] /\ req'[t] = q /\ q.at = "done" /\ ~q.ok
           /\ q.tab = t /\ q.op = calls[t][1].op /\ q.target = calls[t][1].target
           /\ q.arg = calls[t][1].arg /\ calls[t] # <<>>
  BY AnswerFacts
<1>2. HeadSent(t)'
  BY <1>1 DEF HeadSent
<1>3. QED
  BY <1>1, <1>2, RequestPInv

LEMMA LoadPInv ==
  ASSUME PInv, NEW t \in Tabs, Load(t), UNCHANGED tabVars
  PROVE  PInv'
<1>1. req[t] # NoRequest /\ req[t] \in Requests /\ req[t].at = "sent" /\ Accepted(req[t])
  BY DEF PInv, Load, At
<1>2. HeadSent(t)
  BY DEF PInv, TabOK
<1>3. PICK seen \in EntityRow \cup {NoEntity} :
        seen = IF req[t].op = "update" THEN entity[req[t].target] ELSE NoEntity
  BY <1>1 DEF PInv, Requests
<1>4. PICK q : q = Loaded(req[t], seen)
  OBVIOUS
<1>5. req' = [req EXCEPT ![t] = q] /\ UNCHANGED <<entity, unsaved, taken>>
  BY <1>3, <1>4 DEF Load, Loaded
<1>6. req'[t] = q
  BY <1>5 DEF PInv
<1>7. q \in Requests /\ q.at = "loaded" /\ q.ok = req[t].ok /\ q.tab = req[t].tab
      /\ q.op = req[t].op /\ q.target = req[t].target /\ q.arg = req[t].arg
  BY <1>1, <1>4, RequestChanges
<1>8. req[t].op # "create" => entity[req[t].target] # NoEntity
  BY <1>1 DEF Accepted, IsEntity
<1>9. ~req[t].ok
  BY <1>1, <1>2 DEF HeadSent
<1>10. HeadSent(t)'
  BY <1>1, <1>2, <1>5, <1>6, <1>7, <1>8, <1>9 DEF HeadSent, tabVars
<1>11. QED
  BY <1>5, <1>7, <1>10, RequestPInv DEF tabVars

LEMMA FlushPInv ==
  ASSUME PInv, NEW t \in Tabs, Flush(t), UNCHANGED tabVars
  PROVE  PInv'
<1>1. PICK r \in Requests : r = req[t]
  BY DEF PInv, Flush, At
<1>2. req[t] # NoRequest /\ r.at = "loaded"
  BY <1>1 DEF Flush, At
<1>3. UNCHANGED <<entity, tour, loc, going, ui, got, calls, clicks>>
  BY DEF Flush, tabVars
<1>4. CASE Answer(t, FALSE) /\ UNCHANGED <<unsaved, taken>>
  BY <1>2, <1>3, <1>4, RefusedPInv
<1>5. CASE /\ Answer(t, TRUE)
           /\ IF r.op = "bundle" THEN UNCHANGED <<unsaved, taken>>
              ELSE /\ unsaved' = unsaved \cup {r}
                   /\ taken' = taken \cup {<<t, r.op, r.target, r.arg>>}
  <2>1. PICK q \in Requests :
           /\ req' = [req EXCEPT ![t] = q] /\ req'[t] = q /\ q.at = "done" /\ q.ok
           /\ q.tab = t /\ q.op = calls[t][1].op /\ q.target = calls[t][1].target
           /\ q.arg = calls[t][1].arg /\ calls[t] # <<>>
           /\ q.op = r.op /\ q.target = r.target /\ q.arg = r.arg
    <3>1. Answer(t, TRUE)
      BY <1>5
    <3>2. PICK q \in Requests :
           /\ req' = [req EXCEPT ![t] = q] /\ req'[t] = q /\ q.at = "done" /\ q.ok = TRUE
           /\ q.tab = t /\ q.op = calls[t][1].op /\ q.target = calls[t][1].target
           /\ q.arg = calls[t][1].arg /\ calls[t] # <<>>
           /\ q.op = req[t].op /\ q.target = req[t].target /\ q.arg = req[t].arg
      BY <1>2, <3>1, AnswerFacts
    <3>3. QED
      BY <1>1, <3>2
  <2>2. HeadSent(t)'
    BY <1>3, <1>5, <2>1 DEF HeadSent
  <2>3. taken \subseteq taken' /\ unsaved' \subseteq Requests
    BY <1>5 DEF PInv
  <2>4. \A w \in unsaved' : UnsavedOK(w)'
    <3>1. \A w \in unsaved : UnsavedOK(w)'
      BY <1>3, <2>3 DEF PInv, UnsavedOK
    <3>2. r.tab = t /\ (r.op # "create" => entity[r.target] # NoEntity)
      BY <1>1, <1>2 DEF PInv, TabOK, HeadSent
    <3>3. r.op # "bundle" => UnsavedOK(r)'
      BY <1>2, <1>3, <1>5, <3>2 DEF UnsavedOK
    <3>4. QED
      BY <1>5, <3>1, <3>3
  <2>5. QED
    BY <1>3, <2>1, <2>2, <2>3, <2>4, ServerPInv DEF PInv
<1>6. QED
  BY <1>1, <1>4, <1>5 DEF Flush

LEMMA ServePInv ==
  ASSUME PInv, NEW t \in Tabs, Serve(t), UNCHANGED tabVars
  PROVE  PInv'
<1>1. CASE Refuse(t)
  BY <1>1, RefusedPInv DEF Refuse, At, tabVars
<1>2. QED
  BY <1>1, LoadPInv, FlushPInv DEF Serve

LEMMA LostPInv ==
  ASSUME PInv, NEW t \in Tabs, Lost(t)
  PROVE  PInv'
BY RefusedPInv DEF Lost, Lose

(* What a commit makes of the rows. *)
LEMMA AfterRow ==
  ASSUME NEW q \in Requests, q.op # "bundle", NEW now \in EntityRow \cup {NoEntity},
         q.op # "create" => now # NoEntity
  PROVE  After(q, now) \in EntityRow
<1>1. q.arg \in Args[q.op] /\ q.op \in Ops
  BY DEF Requests
<1>2. CASE q.op = "create"
  <2>1. q.arg \in Texts
    BY <1>1, <1>2, OpsFacts
  <2>2. Created(q.arg) \in EntityRow
    BY <2>1 DEF Created, EntityRow, Statuses
  <2>3. QED
    BY <1>2, <2>2 DEF After
<1>3. CASE q.op = "update"
  <2>1. now \in EntityRow
    BY <1>3
  <2>2. DOMAIN now = {"status", "text", "tags", "parts", "gone"}
    BY <2>1 DEF EntityRow
  <2>3. /\ DOMAIN q.arg \subseteq {"status", "text"}
        /\ "status" \in DOMAIN q.arg => q.arg["status"] \in Statuses
        /\ "text" \in DOMAIN q.arg => q.arg["text"] \in Texts
    BY <1>1, <1>3 DEF Args
  <2>4. PICK v : v = [c \in DOMAIN now |-> IF c \in DOMAIN q.arg /\ c \in Changes(q)
                                           THEN q.arg[c] ELSE now[c]]
    OBVIOUS
  <2>5. /\ v["status"] \in Statuses /\ v["text"] \in Texts /\ v["tags"] = now["tags"]
        /\ v["parts"] = now["parts"] /\ v["gone"] = now["gone"]
        /\ now["tags"] \in SUBSET Tags /\ now["parts"] \in SUBSET Parts
        /\ now["gone"] \in SUBSET Aliases
    BY <2>1, <2>2, <2>3, <2>4 DEF EntityRow
  <2>6. v = [status |-> v["status"], text |-> v["text"], tags |-> v["tags"],
             parts |-> v["parts"], gone |-> v["gone"]]
    BY <2>2, <2>4
  <2>7. v \in EntityRow
    BY <2>5, <2>6 DEF EntityRow
  <2>8. After(q, now) = v
    BY <1>3, <2>4 DEF After
  <2>9. QED
    BY <2>7, <2>8
<1>4. CASE q.op \in {"addTag", "deleteTag"}
  <2>1. now \in EntityRow /\ q.arg \in Tags
    BY <1>1, <1>4, OpsFacts
  <2>2. QED
    BY <1>4, <2>1 DEF After, EntityRow
<1>5. CASE q.op = "addPart"
  <2>1. now \in EntityRow /\ q.arg \in Parts
    BY <1>1, <1>5, OpsFacts
  <2>2. QED
    BY <1>5, <2>1 DEF After, EntityRow
<1>6. CASE q.op = "deactivate"
  <2>1. now \in EntityRow /\ q.arg \in Aliases
    BY <1>1, <1>6, OpsFacts
  <2>2. QED
    BY <1>6, <2>1 DEF After, EntityRow
<1>7. q.op \in {"create", "update", "addTag", "deleteTag", "addPart", "deactivate"}
  BY <1>1 DEF Ops, Args
<1>8. QED
  BY <1>2, <1>3, <1>4, <1>5, <1>6, <1>7

LEMMA UnsavedFacts ==
  ASSUME PInv, NEW q \in unsaved
  PROVE  /\ q \in Requests /\ q.target \in Entities /\ q.op # "bundle"
         /\ After(q, entity[q.target]) \in EntityRow
<1>1. q \in Requests /\ UnsavedOK(q)
  BY DEF PInv
<1>2. q.target \in Entities
  BY <1>1 DEF Requests
<1>3. entity[q.target] \in EntityRow \cup {NoEntity}
  BY <1>2 DEF PInv
<1>4. QED
  BY <1>1, <1>2, <1>3, AfterRow DEF UnsavedOK

LEMMA TransactionPInv ==
  ASSUME PInv, NEW q \in unsaved, Saved(q) \/ Died(q)
  PROVE  PInv'
<1>1. UNCHANGED <<taken, req, tour, loc, going, got, ui, calls, clicks>> /\ unsaved' = unsaved \ {q}
  BY DEF Saved, Commit, Died, Die
<1>2. /\ entity' \in [Entities -> EntityRow \cup {NoEntity}]
      /\ \A e \in Entities : entity[e] # NoEntity => entity'[e] # NoEntity
  <2>1. CASE Saved(q)
    <3>1. PICK v \in EntityRow : v = After(q, entity[q.target])
      BY UnsavedFacts
    <3>2. entity' = [entity EXCEPT ![q.target] = v]
      BY <2>1, <3>1 DEF Saved, Commit
    <3>3. v # NoEntity
      BY RoutesAssumption
    <3>4. QED
      BY <3>2, <3>3, UnsavedFacts DEF PInv
  <2>2. CASE Died(q)
    BY <2>2 DEF Died, Die, PInv
  <2>3. QED
    BY <2>1, <2>2
<1>3. \A r \in unsaved' : UnsavedOK(r)'
  <2>1. \A r \in unsaved : r \in Requests /\ UnsavedOK(r)
    BY DEF PInv
  <2>2. \A r \in unsaved : r.target \in Entities
    BY <2>1 DEF Requests
  <2>3. QED
    BY <1>1, <1>2, <2>1, <2>2 DEF UnsavedOK
<1>4. \A u \in Tabs : TabOK(u)'
  BY <1>1, <1>2, MoreTaken
<1>5. QED
  BY <1>1, <1>2, <1>3, <1>4 DEF PInv

-----------------------------------------------------------------------------
LEMMA InitPInv == TabsInit => PInv
<1> SUFFICES ASSUME TabsInit PROVE PInv
  OBVIOUS
<1>1. tour \in Tours /\ tour.entity \in [Entities -> EntityRow \cup {NoEntity}]
      /\ tour.start \in [Tabs -> Locations] /\ tour.clicks \in Nat
  <2>1. tour \in Tours
    BY DEF TabsInit
  <2>2. tour.start \in [Tabs -> {l \in Locations : l.offset = 0}]
    BY <2>1, ToursAssumption
  <2>3. QED
    BY <2>1, <2>2, ToursAssumption
<1>2. /\ entity = tour.entity /\ unsaved = {} /\ taken = {} /\ req = [t \in Tabs |-> NoRequest]
      /\ loc = [t \in Tabs |-> Nowhere] /\ going = tour.start /\ got = [t \in Tabs |-> Nothing]
      /\ ui = [t \in Tabs |-> Blank] /\ calls = [t \in Tabs |-> <<>>] /\ clicks = 0
  BY DEF TabsInit
<1>3. ScreenOK(Blank) /\ Blank.dialog = "none" /\ Blank.dismissed = {}
  <2>1. PICK g : g = [rows |-> <<>>, parts |-> <<>>, total |-> 0]
    OBVIOUS
  <2>2. Blank = Opened(g, Nowhere)
    <3>1. PICK n, r : n = NoEntity /\ r = <<>>
      OBVIOUS
    <3>2. [Nothing EXCEPT !.rows = <<>>, !.parts = <<>>]
            = [[rows |-> n, parts |-> n, total |-> 0] EXCEPT !.rows = r, !.parts = r]
      BY <3>1, Zenon DEF Nothing
    <3>3. g = [rows |-> r, parts |-> r, total |-> 0]
      BY <2>1, <3>1, Zenon
    <3>4. [[rows |-> n, parts |-> n, total |-> 0] EXCEPT !.rows = r]
            = [rows |-> r, parts |-> n, total |-> 0]
      OBVIOUS
    <3>5. [[rows |-> r, parts |-> n, total |-> 0] EXCEPT !.parts = r]
            = [rows |-> r, parts |-> r, total |-> 0]
      OBVIOUS
    <3>6. [[rows |-> n, parts |-> n, total |-> 0] EXCEPT !.rows = r, !.parts = r]
            = [[[rows |-> n, parts |-> n, total |-> 0] EXCEPT !.rows = r] EXCEPT !.parts = r]
      OBVIOUS
    <3>7. QED
      BY <3>2, <3>3, <3>4, <3>5, <3>6, Zenon DEF Blank
  <2>3. DOMAIN g.rows = {} /\ g.total = 0
    BY <2>1
  <2>4. Nowhere.tags = {}
    BY DEF Nowhere, Place
  <2>5. QED
    BY <2>2, <2>3, <2>4 DEF Opened, ScreenOK
<1>4. FetchOK(Nothing)
  BY DEF FetchOK, Nothing
<1>5. \A t \in Tabs : TabOK(t)
  BY <1>2, <1>3, <1>4 DEF TabOK, HeadSent, DialogOnList, QueueOK, CardsDecide, OnPage,
     TagsComing, EntityFirst
<1>6. QED
  BY <1>1, <1>2, <1>5, NowhereOK DEF PInv

LEMMA NextPInv == PInv /\ [Next]_vars => PInv'
<1> SUFFICES ASSUME PInv, [Next]_vars PROVE PInv'
  OBVIOUS
<1>1. CASE UNCHANGED vars
  BY <1>1 DEF PInv, TabOK, HeadSent, DialogOnList, WasDecided, UnsavedOK, vars, serverVars, tabVars
<1>2. ASSUME NEW t \in Tabs, \/ Click(t) \/ Settle(t) \/ Send(t) \/ FetchRows(t) \/ FetchParts(t)
                            \/ Arrive(t) \/ (Serve(t) /\ UNCHANGED tabVars) \/ Lost(t)
      PROVE  PInv'
  BY <1>2, ClicksPInv, SettlePInv, SendPInv, FetchPInv, ArrivePInv, ServePInv, LostPInv
<1>3. ASSUME NEW q \in unsaved, Saved(q) \/ Died(q) PROVE PInv'
  BY <1>3, TransactionPInv
<1>4. CASE Next
  <2>1. CASE \E q \in unsaved : Saved(q) \/ Died(q)
    BY <1>3, <2>1
  <2>2. CASE \E t \in Tabs : \/ Click(t) \/ Settle(t) \/ Send(t) \/ FetchRows(t) \/ FetchParts(t)
                            \/ Arrive(t) \/ (Serve(t) /\ UNCHANGED tabVars) \/ Lost(t)
    BY <1>2, <2>2
  <2>3. QED
    BY <1>4, <2>1, <2>2 DEF Next
<1>5. QED
  BY <1>1, <1>4

LEMMA AlwaysPInv == Spec => []PInv
<1>1. TabsInit => PInv
  BY InitPInv
<1>2. PInv /\ [Next]_vars => PInv'
  BY NextPInv
<1>3. QED
  BY <1>1, <1>2, PTL DEF Spec

(* The rows, the screens, the queues and the requests have their types      *)
(* (EntityPages.tla, EntityTabs.tla, EntityRoutes.tla).                    *)
THEOREM PagesTypeCorrect == Spec => []TypeOK
<1>1. Spec => []PInv
  BY AlwaysPInv
<1>2. PInv => TypeOK
  BY PInvTypeOK
<1>3. QED
  BY <1>1, <1>2, PTL

(* A card that has left the review page was decided, for any number of      *)
(* people deciding and any lost answers (ReviewList.tsx).                  *)
THEOREM CardsWereDecided == Spec => []DismissedWasDecided
<1>1. Spec => []PInv
  BY AlwaysPInv
<1>2. PInv => DismissedWasDecided
  BY PInvDismissed
<1>3. QED
  BY <1>1, <1>2, PTL

(* The screen is changed by the code after an answer, and only by a person  *)
(* otherwise: clicks leave the requests as they are.                       *)
LEMMA ClicksKeepRequests ==
  ASSUME NEW t \in Tabs, Click(t)
  PROVE  req' = req
BY DEF Click, Decide, SelectStatus, AddTagFilter, RemoveTagFilter, SetPage, OpenNew, SubmitNew,
   CancelNew, Approve, OpenDeprecate, CancelDeprecate, Deprecate, EnterTag, CrossTag, AddPart,
   Deactivate, SubmitEdit, RunFetch, Follow, Clicked, Set, Filter, serverVars

(* An answer after which the modal for a new entity closes. *)
Complete(t) ==
  /\ \E x \in Texts : <<t, "create", calls[t][1].target, x>> \in taken
  /\ \A x \in calls[t][1].all : <<t, "addTag", calls[t][1].target, x>> \in taken

LEMMA CloseComplete ==
  ASSUME PInv, NEW t \in Tabs, NewDone(t), ui[t].dialog = "new", ui'[t].dialog = "none"
  PROVE  Complete(t)
<1>1. Settles(t, "new")
  BY DEF NewDone
<1>2. /\ ScreenOK(ui[t]) /\ calls[t] \in Seq(Calls) /\ calls[t] # <<>>
      /\ TagsComing(t, calls[t], taken) /\ EntityFirst(t, calls[t], taken)
  BY <1>1, LocFacts, HeadFacts DEF QueueOK
<1>3. req[t].ok /\ ((req[t].op = "create" /\ calls[t][1].all = {}) \/ (req[t].op = "addTag" /\ LastTag(t)))
  <2>1. ASSUME NEW new, NEW l, NEW rest, Continue(t, new, l, rest), new.dialog = "new" PROVE FALSE
    BY <2>1 DEF Continue, GoOn, PInv
  <2>2. Message(t).dialog = "new"
    BY <1>2 DEF Message, ScreenOK
  <2>3. QED
    BY <1>1, <2>1, <2>2, HeadFacts DEF NewDone
<1>4. /\ calls[t][1].form = "new" /\ calls[t][1].op = req[t].op /\ calls[t][1].arg = req[t].arg
      /\ <<t, req[t].op, calls[t][1].target, req[t].arg>> \in taken
      /\ req[t].op = "create" => req[t].arg \in Texts
  BY <1>1, <1>3, HeadFacts, OpsFacts
<1>5. 1 \in DOMAIN calls[t]
  BY <1>2
<1>6. CASE req[t].op = "create" /\ calls[t][1].all = {}
  BY <1>4, <1>6 DEF Complete
<1>7. CASE req[t].op = "addTag" /\ LastTag(t)
  <2>1. \E x \in Texts : <<t, "create", calls[t][1].target, x>> \in taken
    BY <1>2, <1>4, <1>5, <1>7 DEF EntityFirst
  <2>2. ASSUME NEW x \in calls[t][1].all
        PROVE  <<t, "addTag", calls[t][1].target, x>> \in taken
    <3>1. ASSUME NEW m \in DOMAIN calls[t], Adds(calls[t][m], calls[t][1].target, x) PROVE m = 1
      <4>1. CASE m # 1
        <5>1. m - 1 \in DOMAIN Rest(t) /\ Rest(t)[m - 1] = calls[t][m]
          BY <1>2, <4>1 DEF Rest
        <5>2. QED
          BY <1>7, <3>1, <5>1 DEF Adds, LastTag, SameNew
      <4>2. QED
        BY <4>1
    <3>2. QED
      BY <1>2, <1>4, <1>5, <1>7, <2>2, <3>1 DEF TagsComing, Adds
  <2>3. QED
    BY <2>1, <2>2 DEF Complete
<1>8. QED
  BY <1>3, <1>6, <1>7

LEMMA NextClosedTagged ==
  ASSUME PInv, [Next]_vars, NEW t \in Tabs,
         ui[t].dialog = "new", ui'[t].dialog = "none", req'[t] # req[t]
  PROVE  Complete(t)
<1>1. CASE NewDone(t)
  BY <1>1, CloseComplete
<1>2. ASSUME NEW u \in Tabs, \/ Click(u) \/ Send(u) \/ FetchRows(u) \/ FetchParts(u)
                            \/ Arrive(u) \/ (Serve(u) /\ UNCHANGED tabVars) \/ Lost(u)
      PROVE  FALSE
  <2>1. req' = req \/ ui' = ui
    BY <1>2, ClicksKeepRequests DEF Send, FetchRows, FetchParts, Arrive, Lost, tabVars, serverVars
  <2>2. QED
    BY <2>1
<1>3. ASSUME NEW q \in unsaved, Saved(q) \/ Died(q) PROVE FALSE
  BY <1>3 DEF Saved, Died
<1>4. ASSUME UNCHANGED vars PROVE FALSE
  BY <1>4 DEF vars, tabVars
<1>5. ASSUME NEW u \in Tabs, Settle(u), ~NewDone(t) PROVE FALSE
  <2>1. PICK new, l, rest : GoOn(u, new, l, rest)
    BY <1>5 DEF Settle, Decided, NewDone, Ignored, ButtonDone, TagAdded, TagDeleted, PartAdded,
       EditDone, BundleDone, Continue
  <2>2. u = t
    BY <2>1 DEF GoOn, PInv
  <2>3. loc[t].page = "list"
    BY DEF PInv, TabOK, DialogOnList
  <2>4. ASSUME NEW v, NEW m, NEW r, Continue(t, v, m, r), calls[t][1].here => v.dialog = "new" PROVE FALSE
    BY <2>4 DEF Continue, GoOn, PInv
  <2>5. ScreenOK(ui[t])
    BY LocFacts
  <2>6. Message(t).dialog = "new"
    BY <2>5 DEF Message, ScreenOK
  <2>7. ASSUME NEW form \in {"header", "deactivate", "tags"}, Settles(t, form) PROVE ~calls[t][1].here
    <3>1. PageOf[form] = "detail"
      BY DEF PageOf
    <3>2. OnPage(calls[t], loc[t].page) /\ 1 \in DOMAIN calls[t] /\ calls[t][1].form = form
      <4>1. /\ QueueOK(t, calls[t], loc[t].page, taken)
            /\ calls[t] # <<>> /\ calls[t][1].form = form
        BY <2>7, HeadFacts
      <4>2. calls[t] \in Seq(Calls) /\ OnPage(calls[t], loc[t].page)
        BY <4>1 DEF QueueOK
      <4>3. 1 \in DOMAIN calls[t]
        BY <4>1, <4>2
      <4>4. QED
        BY <4>1, <4>2, <4>3
    <3>3. form # "none"
      OBVIOUS
    <3>4. QED
      BY <2>3, <3>1, <3>2, <3>3 DEF OnPage
  <2>8. CASE ButtonDone(t) \/ TagAdded(t) \/ TagDeleted(t)
    BY <2>4, <2>7, <2>8 DEF ButtonDone, TagAdded, TagDeleted
  <2>9. CASE Decided(t)
    <3>1. ASSUME NEW e PROVE [ui[t] EXCEPT !.dismissed = @ \cup {e}].dialog = "new"
      BY <2>5 DEF ScreenOK
    <3>2. QED
      BY <2>4, <2>6, <2>9, <3>1 DEF Decided
  <2>10. CASE Ignored(t) \/ PartAdded(t)
    BY <2>4, <2>6, <2>10 DEF Ignored, PartAdded
  <2>13. CASE EditDone(t)
    <3>1. ASSUME NEW h, NEW b, NEW m, NEW r, GoOn(t, [ui[t] EXCEPT !.hung = h, !.late = b], m, r)
          PROVE  FALSE
      <4>1. ui'[t] = [ui[t] EXCEPT !.hung = h, !.late = b]
        BY <3>1 DEF GoOn, PInv
      <4>2. QED
        BY <2>5, <4>1 DEF ScreenOK
    <3>2. QED
      BY <2>4, <2>6, <2>13, <3>1 DEF EditDone
  <2>11. CASE BundleDone(t)
    <3>1. ASSUME NEW e PROVE [ui[t] EXCEPT !.result = e].dialog = "new"
      BY <2>5 DEF ScreenOK
    <3>2. QED
      BY <2>4, <2>6, <2>11, <3>1 DEF BundleDone
  <2>12. QED
    BY <1>5, <2>2, <2>8, <2>9, <2>10, <2>11, <2>13 DEF Settle
<1>6. CASE Next
  <2>1. CASE \E q \in unsaved : Saved(q) \/ Died(q)
    BY <1>3, <2>1
  <2>2. CASE \E u \in Tabs : \/ Click(u) \/ Settle(u) \/ Send(u) \/ FetchRows(u) \/ FetchParts(u)
                            \/ Arrive(u) \/ (Serve(u) /\ UNCHANGED tabVars) \/ Lost(u)
    BY <1>1, <1>2, <1>5, <2>2
  <2>3. QED
    BY <1>6, <2>1, <2>2 DEF Next
<1>7. QED
  BY <1>4, <1>6

(* An answer closes the modal for a new entity only when the entity of the  *)
(* submission it belongs to and every tag chosen with it are accepted, for *)
(* any number of tags and submissions, cancelled, dropped and lost ones    *)
(* too (NewEntityModal.tsx).                                               *)
THEOREM ClosedTagged == Spec => ClosedMeansTagged
<1>1. PInv /\ [Next]_vars => [\A t \in Tabs :
        (ui[t].dialog = "new" /\ ui'[t].dialog = "none" /\ req'[t] # req[t]) =>
          LET c == calls[t][1] IN
          /\ \E x \in Texts : <<t, "create", c.target, x>> \in taken
          /\ \A x \in c.all : <<t, "addTag", c.target, x>> \in taken]_vars
  BY NextClosedTagged DEF Complete
<1>2. Spec => []PInv
  BY AlwaysPInv
<1>3. QED
  BY <1>1, <1>2, PTL DEF Spec, ClosedMeansTagged

-----------------------------------------------------------------------------
(* No page of the list is empty.  A new entity is new: nothing is stored    *)
(* for it, nothing is about to be, and it is created once.                 *)
Creates(c, e) == c.op = "create" /\ c.target = e
Fresh(e) == entity[e] = NoEntity /\ \A q \in unsaved : ~Creates(q, e)

CreateFresh(t) ==
  \A n \in DOMAIN calls[t] : calls[t][n].op = "create" =>
    Fresh(calls[t][n].target) \/ (n = 1 /\ At(t, "done"))

CreatesApart ==
  \A t, u \in Tabs : \A n \in DOMAIN calls[t], m \in DOMAIN calls[u] :
    calls[t][n].op = "create" /\ Creates(calls[u][m], calls[t][n].target) => t = u /\ n = m

UnsavedFresh ==
  \A q \in unsaved : q.op = "create" =>
    entity[q.target] = NoEntity /\ \A r \in unsaved : Creates(r, q.target) => r = q

FInv == (\A t \in Tabs : CreateFresh(t)) /\ CreatesApart /\ UnsavedFresh

(* What is stored may match a filter no longer. *)
Shrunk == \E w \in taken : w[2] \in {"update", "deleteTag"}

(* The offset of a page is that of a row of its result; what has been       *)
(* fetched is part of the result and not empty if the result was not.      *)
Count(l) == Cardinality(Matching(l))
Within(l) == l.page = "list" => l.offset = 0 \/ l.offset < Count(l)
Fits(l, rows, total) == l.page = "list" => total <= Count(l) /\ (DOMAIN rows = {} => total = 0)

PagesFit(t) ==
  /\ Within(loc[t]) /\ Within(going[t])
  /\ Fits(loc[t], ui[t].rows, ui[t].total)
  /\ got[t].rows # NoEntity => Fits(going[t], got[t].rows, got[t].total)

NInv == PInv /\ FInv /\ (Shrunk \/ \A t \in Tabs : PagesFit(t))

LEMMA NInvNoEmptyPage == NInv => NoEmptyPage
BY DEF NInv, PagesFit, Fits, Shrunk, NoEmptyPage, Shown, PInv, TabOK, ScreenOK

(* Steps of tabs. *)
LEMMA QueueFInv ==
  ASSUME PInv, PInv', FInv, NEW t \in Tabs, UNCHANGED <<entity, unsaved>>,
         \A u \in Tabs \ {t} : calls'[u] = calls[u] /\ (At(u, "done") => At(u, "done")'),
         \/ (At(t, "done") => At(t, "done")') /\ Keeps(calls[t], calls'[t])
         \/ At(t, "done") /\ Keeps(Rest(t), calls'[t])
  PROVE  FInv'
<1>1. PICK k \in {0, 1} :
        /\ k = 0 => (At(t, "done") => At(t, "done")')
        /\ \A n \in DOMAIN calls'[t] : calls'[t][n].op = "create" =>
             /\ n \in Nat \ {0} /\ n + k \in DOMAIN calls[t]
             /\ calls[t][n + k].op = "create" /\ calls[t][n + k].target = calls'[t][n].target
  <2>1. calls[t] \in Seq(Calls) /\ calls'[t] \in Seq(Calls)
    BY LocFacts DEF PInv, TabOK, QueueOK
  <2>2. \A n \in DOMAIN calls'[t] : n \in Nat \ {0} /\ n + 0 = n
    BY <2>1
  <2>3. CASE (At(t, "done") => At(t, "done")') /\ Keeps(calls[t], calls'[t])
    BY <2>2, <2>3 DEF Keeps
  <2>4. CASE At(t, "done") /\ Keeps(Rest(t), calls'[t])
    <3>1. calls[t] # <<>>
      BY <2>4 DEF PInv, TabOK, HeadSent, At
    <3>2. \A n \in DOMAIN Rest(t) : n + 1 \in DOMAIN calls[t] /\ Rest(t)[n] = calls[t][n + 1]
      BY <2>1, <3>1 DEF Rest
    <3>3. QED
      BY <2>2, <2>4, <3>2 DEF Keeps
  <2>5. QED
    BY <2>3, <2>4
<1>2. \A e : Fresh(e)' <=> Fresh(e)
  BY DEF Fresh
<1>3. CreateFresh(t)'
  <2> SUFFICES ASSUME NEW n \in DOMAIN calls'[t], NEW e, calls'[t][n].op = "create",
                      e = calls'[t][n].target
               PROVE  Fresh(e)' \/ (n = 1 /\ At(t, "done")')
    BY DEF CreateFresh, Fresh
  <2>1. /\ n \in Nat \ {0} /\ n + k \in DOMAIN calls[t]
        /\ calls[t][n + k].op = "create" /\ calls[t][n + k].target = calls'[t][n].target
    BY <1>1
  <2>2. Fresh(calls[t][n + k].target) \/ (n + k = 1 /\ At(t, "done"))
    BY <2>1 DEF FInv, CreateFresh
  <2>3. n + k = 1 => n = 1 /\ k = 0
    BY <2>1
  <2>4. QED
    BY <1>1, <1>2, <2>1, <2>2, <2>3
<1>4. ASSUME NEW u \in Tabs \ {t} PROVE CreateFresh(u)'
  BY <1>2, <1>4 DEF FInv, CreateFresh
<1>5. CreatesApart'
  <2> SUFFICES ASSUME NEW u \in Tabs, NEW v \in Tabs,
                      NEW n \in DOMAIN calls'[u], NEW m \in DOMAIN calls'[v],
                      calls'[u][n].op = "create", Creates(calls'[v][m], calls'[u][n].target)
               PROVE  u = v /\ n = m
    BY DEF CreatesApart
  <2>1. PICK i \in DOMAIN calls[u] :
          /\ calls[u][i].op = "create" /\ calls[u][i].target = calls'[u][n].target
          /\ i = (IF u = t THEN n + k ELSE n) /\ (u = t => n \in Nat)
    BY <1>1
  <2>2. PICK j \in DOMAIN calls[v] :
          /\ calls[v][j].op = "create" /\ calls[v][j].target = calls'[v][m].target
          /\ j = (IF v = t THEN m + k ELSE m) /\ (v = t => m \in Nat)
    BY <1>1 DEF Creates
  <2>3. u = v /\ i = j
    BY <2>1, <2>2 DEF FInv, CreatesApart, Creates
  <2>4. QED
    BY <2>1, <2>2, <2>3
<1>6. QED
  BY <1>2, <1>3, <1>4, <1>5 DEF FInv, UnsavedFresh

LEMMA SubmitFInv ==
  ASSUME PInv, FInv, NEW t \in Tabs, SubmitNew(t)
  PROVE  FInv'
<1>1. PICK e \in NewEntity, all \in SUBSET Tags, x \in Texts : Call(t, "new", "create", e, x, all)
  BY DEF SubmitNew
<1>2. Free(e)
  BY DEF NewEntity
<1>3. /\ Fresh(e)
      /\ \A u \in Tabs : \A n \in DOMAIN calls[u] : calls[u][n].target # e
  BY <1>2 DEF Free, Asked, Fresh, Creates
<1>4. UNCHANGED <<entity, unsaved, req>>
  BY DEF SubmitNew, serverVars
<1>5. \A d : Fresh(d)' <=> Fresh(d)
  BY <1>4 DEF Fresh
<1>6. PICK c : c = Action("new", "create", e, x, all)
  OBVIOUS
<1>7. c.op = "create" /\ c.target = e
  BY <1>6 DEF Action
<1>8. /\ calls'[t] = Append(calls[t], c)
      /\ \A u \in Tabs \ {t} : calls'[u] = calls[u]
  BY <1>1, <1>6 DEF Call, PInv
<1>9. calls[t] \in Seq(Calls)
  BY LocFacts DEF QueueOK
<1>10. ASSUME NEW u \in Tabs, NEW n \in DOMAIN calls'[u]
       PROVE  \/ n \in DOMAIN calls[u] /\ calls'[u][n] = calls[u][n]
              \/ u = t /\ n = Len(calls[t]) + 1 /\ calls'[u][n] = c
  <2>1. CASE u = t
    <3>1. DOMAIN calls'[t] = 1..Len(calls[t]) + 1 /\ DOMAIN calls[t] = 1..Len(calls[t])
          /\ Len(calls[t]) \in Nat
      BY <1>8, <1>9
    <3>2. QED
      BY <1>8, <1>9, <2>1, <3>1
  <2>2. QED
    BY <1>8, <2>1
<1>11. ASSUME NEW u \in Tabs PROVE CreateFresh(u)'
  <2> SUFFICES ASSUME NEW n \in DOMAIN calls'[u], NEW d, calls'[u][n].op = "create",
                      d = calls'[u][n].target
               PROVE  Fresh(d)' \/ (n = 1 /\ At(u, "done")')
    BY DEF CreateFresh, Fresh
  <2>1. At(u, "done")' <=> At(u, "done")
    BY <1>4 DEF At
  <2>2. QED
    BY <1>3, <1>5, <1>7, <1>10, <2>1 DEF FInv, CreateFresh
<1>12. CreatesApart'
  BY <1>3, <1>7, <1>10 DEF FInv, CreatesApart, Creates
<1>13. QED
  BY <1>4, <1>11, <1>12 DEF FInv, UnsavedFresh

(* Steps of the backend that leave the rows and the queues alone. *)
LEMMA RequestFInv ==
  ASSUME PInv, PInv', FInv, NEW t \in Tabs, UNCHANGED <<entity, unsaved, calls>>,
         \A u \in Tabs : At(u, "done") => At(u, "done")'
  PROVE  FInv'
<1>1. Keeps(calls[t], calls'[t])
  BY DEF Keeps
<1>2. QED
  BY <1>1, QueueFInv

LEMMA AnswerDone ==
  ASSUME PInv, NEW t \in Tabs, NEW ok \in BOOLEAN, Answer(t, ok), req[t] # NoRequest
  PROVE  At(t, "done")' /\ \A u \in Tabs : At(u, "done") => At(u, "done")'
<1>1. PICK q \in Requests : req' = [req EXCEPT ![t] = q] /\ q.at = "done"
  BY AnswerFacts
<1>2. q # NoRequest
  BY RoutesAssumption
<1>3. req'[t] = q /\ \A u \in Tabs \ {t} : req'[u] = req[u]
  BY <1>1 DEF PInv
<1>4. QED
  BY <1>1, <1>2, <1>3 DEF At

(* An entity is created: nothing else of it is on its way. *)
LEMMA FlushFInv ==
  ASSUME PInv, PInv', FInv, NEW t \in Tabs, Flush(t), UNCHANGED tabVars
  PROVE  FInv'
<1>1. /\ req[t] # NoRequest /\ req[t] \in Requests /\ At(t, "loaded") /\ ~At(t, "done")
      /\ UNCHANGED <<entity, calls>>
  BY DEF PInv, Flush, At, tabVars
<1>2. PICK q : q = req[t]
  OBVIOUS
<1>3. PICK ok \in BOOLEAN :
        /\ Answer(t, ok)
        /\ unsaved' = unsaved \/ (unsaved' = unsaved \cup {q})
  BY <1>2 DEF Flush
<1>4. At(t, "done")' /\ \A u \in Tabs : At(u, "done") => At(u, "done")'
  BY <1>1, <1>3, AnswerDone
<1>5. CASE unsaved' = unsaved
  BY <1>1, <1>4, <1>5, RequestFInv
<1>6. CASE unsaved' = unsaved \cup {q} /\ q.op # "create"
  <2>1. \A e : Fresh(e)' <=> Fresh(e)
    BY <1>1, <1>6 DEF Fresh, Creates
  <2>2. CreatesApart'
    BY <1>1 DEF FInv, CreatesApart
  <2>3. UnsavedFresh'
    BY <1>1, <1>6 DEF FInv, UnsavedFresh, Creates
  <2>4. ASSUME NEW u \in Tabs PROVE CreateFresh(u)'
    <3>1. CreateFresh(u)
      BY DEF FInv
    <3>2. QED
      BY <1>1, <1>4, <2>1, <3>1 DEF CreateFresh, Fresh
  <2>5. QED
    BY <2>2, <2>3, <2>4 DEF FInv
<1>7. CASE unsaved' = unsaved \cup {q} /\ q.op = "create"
  <2>1. /\ calls[t] # <<>> /\ calls[t][1].op = "create" /\ calls[t][1].target = q.target
        /\ 1 \in DOMAIN calls[t]
    <3>1. HeadSent(t) /\ calls[t] \in Seq(Calls)
      BY DEF PInv, TabOK, QueueOK
    <3>2. QED
      BY <1>1, <1>2, <1>7, <3>1 DEF HeadSent
  <2>2. Fresh(q.target)
    BY <1>1, <2>1 DEF FInv, CreateFresh
  <2>3. \A e : e # q.target => (Fresh(e)' <=> Fresh(e))
    BY <1>1, <1>7 DEF Fresh, Creates
  <2>4. CreatesApart'
    BY <1>1 DEF FInv, CreatesApart
  <2>5. UnsavedFresh'
    BY <1>1, <1>7, <2>2 DEF FInv, UnsavedFresh, Creates, Fresh
  <2>6. ASSUME NEW u \in Tabs PROVE CreateFresh(u)'
    <3> SUFFICES ASSUME NEW n \in DOMAIN calls[u], NEW d, calls[u][n].op = "create",
                        d = calls[u][n].target
                 PROVE  Fresh(d)' \/ (n = 1 /\ At(u, "done")')
      BY <1>1 DEF CreateFresh, Fresh
    <3>1. Fresh(d) \/ (n = 1 /\ At(u, "done"))
      BY DEF FInv, CreateFresh
    <3>2. d = q.target => u = t /\ n = 1
      BY <2>1 DEF FInv, CreatesApart, Creates
    <3>3. QED
      BY <1>4, <2>3, <3>1, <3>2
  <2>7. QED
    BY <2>4, <2>5, <2>6 DEF FInv
<1>8. QED
  BY <1>3, <1>5, <1>6, <1>7

(* A transaction commits, or its worker dies. *)
LEMMA TransactionFInv ==
  ASSUME PInv, FInv, NEW q \in unsaved, Saved(q) \/ Died(q)
  PROVE  FInv'
<1>1. UNCHANGED <<req, calls>> /\ unsaved' = unsaved \ {q}
  BY DEF Saved, Commit, Died, Die
<1>2. \A u \in Tabs : At(u, "done")' <=> At(u, "done")
  BY <1>1 DEF At
<1>3. \A e \in Entities : e # q.target => entity'[e] = entity[e]
  BY DEF Saved, Commit, Died, Die, PInv
<1>4. q.op # "create" => entity[q.target] # NoEntity
  BY DEF PInv, UnsavedOK
<1>5. ASSUME NEW e \in Entities, Fresh(e) PROVE Fresh(e)'
  <2>1. e # q.target
    BY <1>4, <1>5 DEF Fresh, Creates
  <2>2. QED
    BY <1>1, <1>3, <1>5, <2>1 DEF Fresh
<1>6. ASSUME NEW u \in Tabs PROVE CreateFresh(u)'
  <2>1. CreateFresh(u)
    BY DEF FInv
  <2>2. \A n \in DOMAIN calls[u] : calls[u][n].target \in Entities
    <3>1. calls[u] \in Seq(Calls)
      BY LocFacts DEF QueueOK
    <3>2. \A n \in DOMAIN calls[u] : calls[u][n] \in CallShape
      BY <3>1 DEF Calls
    <3>3. QED
      BY <3>2 DEF CallShape
  <2>3. ASSUME NEW n \in DOMAIN calls[u], NEW d, calls[u][n].op = "create", d = calls[u][n].target
        PROVE  Fresh(d)' \/ (n = 1 /\ At(u, "done")')
    BY <1>2, <1>5, <2>1, <2>2, <2>3 DEF CreateFresh
  <2>4. QED
    BY <1>1, <2>3 DEF CreateFresh, Fresh
<1>7. UnsavedFresh'
  <2> SUFFICES ASSUME NEW r \in unsaved, r # q, r.op = "create"
               PROVE  entity'[r.target] = NoEntity
    BY <1>1 DEF FInv, UnsavedFresh
  <2>1. entity[r.target] = NoEntity /\ (Creates(q, r.target) => q = r)
    BY DEF FInv, UnsavedFresh
  <2>2. r.target # q.target /\ r.target \in Entities
    BY <1>4, <2>1, UnsavedFacts DEF Creates
  <2>3. QED
    BY <1>3, <2>1, <2>2
<1>8. QED
  BY <1>1, <1>6, <1>7 DEF FInv, CreatesApart

LEMMA NextFInv == PInv /\ PInv' /\ FInv /\ [Next]_vars => FInv'
<1> SUFFICES ASSUME PInv, PInv', FInv, [Next]_vars PROVE FInv'
  OBVIOUS
<1>1. CASE UNCHANGED vars
  BY <1>1 DEF FInv, CreateFresh, CreatesApart, UnsavedFresh, Fresh, At, vars, serverVars, tabVars
<1>2. ASSUME NEW t \in Tabs, Effect(t) PROVE FInv'
  <2>1. \A u \in Tabs \ {t} : At(u, "done") => At(u, "done")'
    BY <1>2 DEF Effect, At
  <2>2. req'[t] = req[t] => (At(t, "done") => At(t, "done")')
    BY DEF At
  <2>3. QED
    BY <1>2, <2>1, <2>2, QueueFInv DEF Effect
<1>3. ASSUME NEW t \in Tabs, Arrive(t) PROVE FInv'
  <2>1. UNCHANGED <<entity, unsaved, req>> /\ Keeps(calls[t], calls'[t])
    BY <1>3, ArrivePInv DEF Arrive, serverVars
  <2>2. \A u \in Tabs \ {t} : calls'[u] = calls[u]
    BY <1>3 DEF Arrive, PInv
  <2>3. \A u \in Tabs : At(u, "done") => At(u, "done")'
    BY <2>1 DEF At
  <2>4. QED
    BY <2>1, <2>2, <2>3, QueueFInv
<1>4. ASSUME NEW t \in Tabs, FetchRows(t) \/ FetchParts(t) \/ Send(t) PROVE FInv'
  <2>1. UNCHANGED <<entity, unsaved, calls>>
    BY <1>4 DEF FetchRows, FetchParts, Send, serverVars, tabVars
  <2>2. \A u \in Tabs : At(u, "done") => At(u, "done")'
    <3>1. CASE UNCHANGED req
      BY <3>1 DEF At
    <3>2. CASE Send(t)
      <4>1. ~At(t, "done") /\ \A u \in Tabs \ {t} : req'[u] = req[u]
        BY <3>2 DEF Send, At, PInv
      <4>2. QED
        BY <4>1 DEF At
    <3>3. QED
      BY <1>4, <3>1, <3>2 DEF FetchRows, FetchParts, serverVars
  <2>3. QED
    BY <2>1, <2>2, RequestFInv
<1>5. ASSUME NEW t \in Tabs, (Serve(t) /\ UNCHANGED tabVars) \/ Lost(t) PROVE FInv'
  <2>1. CASE Flush(t) /\ UNCHANGED tabVars
    BY <2>1, FlushFInv
  <2>2. CASE Load(t) /\ UNCHANGED tabVars
    <3>1. ~At(t, "done") /\ \A u \in Tabs \ {t} : req'[u] = req[u]
      BY <2>2 DEF Load, At, PInv
    <3>2. \A u \in Tabs : At(u, "done") => At(u, "done")'
      BY <3>1 DEF At
    <3>3. QED
      BY <2>2, <3>2, RequestFInv DEF Load, tabVars
  <2>3. CASE (Refuse(t) /\ UNCHANGED tabVars) \/ Lost(t)
    <3>1. Answer(t, FALSE) /\ req[t] # NoRequest /\ UNCHANGED <<entity, unsaved, calls>>
      BY <2>3 DEF Refuse, Lost, Lose, At, tabVars
    <3>2. QED
      BY <3>1, AnswerDone, RequestFInv
  <2>4. QED
    BY <1>5, <2>1, <2>2, <2>3 DEF Serve
<1>6. ASSUME NEW q \in unsaved, Saved(q) \/ Died(q) PROVE FInv'
  BY <1>6, TransactionFInv
<1>7. CASE Next
  <2>1. CASE \E q \in unsaved : Saved(q) \/ Died(q)
    BY <1>6, <2>1
  <2>2. CASE \E t \in Tabs : \/ Click(t) \/ Settle(t) \/ Send(t) \/ FetchRows(t) \/ FetchParts(t)
                            \/ Arrive(t) \/ (Serve(t) /\ UNCHANGED tabVars) \/ Lost(t)
    BY <1>2, <1>3, <1>4, <1>5, <2>2, ClicksPInv, SettlePInv, SubmitFInv
  <2>3. QED
    BY <1>7, <2>1, <2>2 DEF Next
<1>8. QED
  BY <1>1, <1>7

-----------------------------------------------------------------------------
(* The rows of a result are numbered from 1. *)
LEMMA RankReached ==
  ASSUME NEW l, NEW k \in 1..Count(l)
  PROVE  \E n \in Matching(l) : Rank(l, n) = k
<1> DEFINE M == Matching(l)
           c == Count(l)
           f == [n \in M |-> Rank(l, n)]
<1>1. M \subseteq 1..Len(Order) /\ IsFiniteSet(M) /\ c \in Nat /\ c = Cardinality(M)
  BY MatchingFinite DEF Count
<1>2. M \subseteq Nat
  <2>1. Len(Order) \in Nat
    BY RoutesAssumption
  <2>2. QED
    BY <1>1, <2>1
<1> HIDE DEF M
<1>3. \A n \in M : LET S == {m \in M : m <= n} IN
        IsFiniteSet(S) /\ Cardinality(S) \in Nat /\ Cardinality(S) <= c /\ S # {}
  <2> SUFFICES ASSUME NEW n \in M, NEW S, S = {m \in M : m <= n}
               PROVE  IsFiniteSet(S) /\ Cardinality(S) \in Nat /\ Cardinality(S) <= c /\ S # {}
    OBVIOUS
  <2>1. S \in SUBSET M /\ n \in S
    BY <1>2
  <2>2. QED
    BY <1>1, <2>1, FS_Subset, FS_CardinalityType
<1>4. \A n \in M : Rank(l, n) = Cardinality({m \in M : m <= n})
  BY DEF Rank, M
<1>5. f \in [M -> 1..c]
  <2>1. ASSUME NEW n \in M PROVE Rank(l, n) \in 1..c
    <3>1. PICK S : S = {m \in M : m <= n}
      OBVIOUS
    <3>2. IsFiniteSet(S) /\ Cardinality(S) \in Nat /\ Cardinality(S) <= c /\ S # {}
      BY <1>3, <3>1
    <3>3. Cardinality(S) # 0
      BY <3>2, FS_EmptySet
    <3>4. QED
      BY <1>1, <1>4, <3>1, <3>2, <3>3
  <2>2. QED
    BY <2>1
<1>6. ASSUME NEW a \in M, NEW b \in M, a < b PROVE Rank(l, a) # Rank(l, b)
  <2>1. PICK S, T : S = {m \in M : m <= a} /\ T = {m \in M : m <= b}
    OBVIOUS
  <2>2. S \in SUBSET T /\ b \in T /\ b \notin S
    <3>1. \A m \in M : m \in Nat
      BY <1>2
    <3>2. a \in Nat /\ b \in Nat /\ a < b
      BY <1>6, <3>1
    <3>3. \A m \in S : m \in T
      BY <2>1, <3>1, <3>2
    <3>4. b \in T /\ b \notin S
      BY <2>1, <3>2
    <3>5. QED
      BY <3>3, <3>4
  <2>3. IsFiniteSet(T)
    BY <1>3, <2>1
  <2>4. Cardinality(S) # Cardinality(T)
    BY <2>2, <2>3, FS_Subset
  <2>5. QED
    BY <1>4, <2>1, <2>4
<1>7. f \in Injection(M, 1..c)
  <2>1. ASSUME NEW a \in M, NEW b \in M, f[a] = f[b] PROVE a = b
    <3>1. a \in Nat /\ b \in Nat
      BY <1>2
    <3>2. Rank(l, a) = Rank(l, b)
      BY <2>1
    <3>3. ~(a < b) /\ ~(b < a)
      BY <1>6, <3>2
    <3>4. QED
      BY <3>1, <3>3
  <2>2. QED
    BY <1>5, <2>1 DEF Injection, IsInjective
<1>8. IsFiniteSet(1..c) /\ Cardinality(1..c) = c
  BY <1>1, FS_Interval
<1>9. f \in Surjection(M, 1..c)
  BY <1>1, <1>7, <1>8, FS_Injection
<1>10. PICK n \in M : f[n] = k
  BY <1>9 DEF Surjection
<1>11. QED
  BY <1>10 DEF M

LEMMA PageNotEmpty ==
  ASSUME NEW l \in Locations, l.page = "list", l.offset < Count(l)
  PROVE  Listed(l) # {}
<1>1. l.offset \in Nat /\ PageSize \in Nat \ {0} /\ Count(l) \in Nat
  BY ToursAssumption, MatchingFinite DEF Locations, Count
<1>2. l.offset + 1 \in 1..Count(l)
  BY <1>1
<1>3. PICK n \in Matching(l) : Rank(l, n) = l.offset + 1
  BY <1>2, RankReached
<1>4. Rank(l, n) \in l.offset + 1 .. l.offset + PageSize
  BY <1>1, <1>3
<1>5. Order[n] \in {Order[i] : i \in {m \in Matching(l) :
                      Rank(l, m) \in l.offset + 1 .. l.offset + PageSize}}
  BY <1>3, <1>4
<1>6. QED
  BY <1>5 DEF Listed

(* Where a click leads there are rows, if there are any. *)
LEMMA CountNat ==
  ASSUME NEW l
  PROVE  Count(l) \in Nat
BY MatchingFinite DEF Count

LEMMA LeadsWithin ==
  ASSUME PInv, NEW t \in Tabs, PagesFit(t), NEW l \in Locations, Leads(t, l)
  PROVE  Within(l)
<1>1. Within(loc[t]) /\ Within(going[t]) /\ Fits(loc[t], ui[t].rows, ui[t].total)
  BY DEF PagesFit
<1>2. CASE l \in {loc[t], going[t]} \/ l.offset = 0
  BY <1>1, <1>2 DEF Within
<1>3. CASE /\ loc[t].page = "list" /\ l.page = "list" /\ l.status = loc[t].status /\ l.tags = loc[t].tags
           /\ l.offset < ui[t].total \/ l.offset <= loc[t].offset
  <2>1. PICK k \in Nat : k = Count(loc[t])
    BY CountNat
  <2>2. Count(l) = k
    BY <1>3, <2>1 DEF Count, Matching
  <2>3. l.offset \in Nat /\ loc[t].offset \in Nat /\ ui[t].total \in Nat
    BY LocFacts DEF Locations, ScreenOK
  <2>4. ui[t].total <= k /\ (loc[t].offset = 0 \/ loc[t].offset < k)
    BY <1>1, <1>3, <2>1 DEF Within, Fits
  <2>5. l.offset = 0 \/ l.offset < k
    BY <1>3, <2>3, <2>4
  <2>6. QED
    BY <2>2, <2>5 DEF Within
<1>4. QED
  BY <1>2, <1>3 DEF Leads

(* As long as the rows stay the same. *)

LEMMA SameFit ==
  ASSUME UNCHANGED entity
  PROVE  /\ \A l : Within(l)' <=> Within(l)
         /\ \A l, rows, total : Fits(l, rows, total)' <=> Fits(l, rows, total)
<1>1. \A l : Count(l)' = Count(l)
  BY DEF Count, Matching
<1>2. QED
  BY <1>1 DEF Within, Fits

LEMMA EffectFit ==
  ASSUME PInv, PInv', NEW t \in Tabs, Effect(t), \A u \in Tabs : PagesFit(u)
  PROVE  \A u \in Tabs : PagesFit(u)'
<1>1. /\ \A l : Within(l)' <=> Within(l)
      /\ \A l, rows, total : Fits(l, rows, total)' <=> Fits(l, rows, total)
  BY SameFit DEF Effect
<1>2. ASSUME NEW u \in Tabs \ {t} PROVE PagesFit(u)'
  BY <1>1, <1>2 DEF Effect, PagesFit
<1>3. Within(going'[t])
  BY LocFacts, LeadsWithin DEF Effect, PagesFit, PInv
<1>4. (got'[t] = got[t] /\ going'[t] = going[t]) \/ got'[t].rows = NoEntity
  BY DEF Effect, Nothing
<1>5. loc'[t] = loc[t] /\ ui'[t].rows = ui[t].rows /\ ui'[t].total = ui[t].total
  BY DEF Effect, SameRows
<1>6. PagesFit(t)'
  BY <1>1, <1>3, <1>4, <1>5 DEF PagesFit
<1>7. QED
  BY <1>2, <1>6

(* What is fetched for a page of the list. *)
LEMMA FetchedFit ==
  ASSUME NEW l \in Locations, Within(l), NEW rows, l.page = "list" => DOMAIN rows = Listed(l)
  PROVE  Fits(l, rows, Count(l))
<1> SUFFICES ASSUME l.page = "list", Listed(l) = {} PROVE Count(l) = 0
  BY CountNat DEF Fits
<1>1. Count(l) \in Nat /\ l.offset \in Nat
  BY CountNat DEF Locations
<1>2. ~(l.offset < Count(l))
  BY PageNotEmpty
<1>3. QED
  BY <1>1, <1>2 DEF Within

LEMMA FetchFit ==
  ASSUME PInv, NEW t \in Tabs, FetchRows(t) \/ FetchParts(t), \A u \in Tabs : PagesFit(u)
  PROVE  \A u \in Tabs : PagesFit(u)'
<1>1. /\ \A l : Within(l)' <=> Within(l)
      /\ \A l, rows, total : Fits(l, rows, total)' <=> Fits(l, rows, total)
  BY SameFit DEF FetchRows, FetchParts, serverVars
<1>2. UNCHANGED <<loc, going, ui>> /\ \A u \in Tabs \ {t} : got'[u] = got[u]
  BY DEF FetchRows, FetchParts, PInv
<1>3. ASSUME NEW u \in Tabs \ {t} PROVE PagesFit(u)'
  BY <1>1, <1>2, <1>3 DEF PagesFit
<1>4. Fits(going[t], got'[t].rows, got'[t].total)
  <2>1. CASE FetchRows(t)
    <3>1. PICK rows : rows = IF going[t].page = "bundle" THEN <<>>
                             ELSE [e \in Listed(going[t]) |-> Columns(e)]
      OBVIOUS
    <3>2. PICK total : total = Cardinality(Matching(going[t]))
      OBVIOUS
    <3>3. got' = [got EXCEPT ![t] = WithRows(got[t], rows, total)]
      BY <2>1, <3>1, <3>2 DEF FetchRows, WithRows
    <3>4. FetchOK(got[t])
      BY DEF PInv, TabOK
    <3>5. got'[t].rows = rows /\ got'[t].total = total
      BY <3>3, <3>4 DEF WithRows, FetchOK, PInv
    <3>6. going[t].page = "list" => DOMAIN rows = Listed(going[t])
      BY <3>1
    <3>7. Within(going[t])
      BY DEF PagesFit
    <3>8. QED
      BY <3>2, <3>5, <3>6, <3>7, LocFacts, FetchedFit DEF Count
  <2>2. CASE FetchParts(t)
    <3>1. going[t].page # "list"
      BY <2>2 DEF FetchParts, HasParts
    <3>2. QED
      BY <3>1 DEF Fits
  <2>3. QED
    BY <2>1, <2>2
<1>5. PagesFit(t)'
  BY <1>1, <1>2, <1>4 DEF PagesFit
<1>6. QED
  BY <1>3, <1>5

LEMMA ArriveFit ==
  ASSUME PInv, NEW t \in Tabs, Arrive(t), \A u \in Tabs : PagesFit(u)
  PROVE  \A u \in Tabs : PagesFit(u)'
<1>1. /\ \A l : Within(l)' <=> Within(l)
      /\ \A l, rows, total : Fits(l, rows, total)' <=> Fits(l, rows, total)
  BY SameFit DEF Arrive, serverVars
<1>2. /\ loc'[t] = going[t] /\ going'[t] = Nowhere /\ got'[t] = Nothing
      /\ \A u \in Tabs \ {t} : loc'[u] = loc[u] /\ going'[u] = going[u] /\ got'[u] = got[u]
  BY DEF Arrive, PInv
<1>3. /\ ui'[t].rows = got[t].rows /\ ui'[t].total = got[t].total
      /\ \A u \in Tabs \ {t} : ui'[u] = ui[u]
  <2>1. CASE going[t].page = loc[t].page /\ going[t].of = loc[t].of /\ ui[t].failed # "page"
    <3>1. PICK v : v = [ui[t] EXCEPT !.rows = got[t].rows, !.parts = got[t].parts,
                                     !.total = got[t].total]
      OBVIOUS
    <3>2. ui' = [ui EXCEPT ![t] = v]
      BY <2>1, <3>1 DEF Arrive
    <3>3. v.rows = got[t].rows /\ v.total = got[t].total
      BY <3>1, LocFacts DEF ScreenOK
    <3>4. QED
      BY <3>2, <3>3 DEF PInv
  <2>2. CASE ~(going[t].page = loc[t].page /\ going[t].of = loc[t].of /\ ui[t].failed # "page")
    <3>1. ui' = [ui EXCEPT ![t] = Opened(got[t], going[t])]
      BY <2>2 DEF Arrive
    <3>2. QED
      BY <3>1 DEF PInv, Opened
  <2>3. QED
    BY <2>1, <2>2
<1>4. Fits(going[t], got[t].rows, got[t].total) /\ Within(going[t])
  BY DEF PagesFit, Arrive, Fetched
<1>5. Within(Nowhere) /\ Nothing.rows = NoEntity
  BY DEF Within, Nowhere, Place, Nothing
<1>6. ASSUME NEW u \in Tabs \ {t} PROVE PagesFit(u)'
  BY <1>1, <1>2, <1>3, <1>6 DEF PagesFit
<1>7. PagesFit(t)'
  BY <1>1, <1>2, <1>3, <1>4, <1>5 DEF PagesFit
<1>8. QED
  BY <1>6, <1>7

(* A commit that changes no status and takes no tag away leaves every       *)
(* result as it is, or makes it longer.                                    *)
LEMMA AfterMatches ==
  ASSUME NEW q \in Requests, q.op \in {"addTag", "addPart", "deactivate"}, NEW now \in EntityRow
  PROVE  After(q, now).status = now.status /\ now.tags \subseteq After(q, now).tags
<1>1. CASE q.op = "addTag"
  BY <1>1 DEF After, EntityRow
<1>2. CASE q.op = "addPart"
  BY <1>2 DEF After, EntityRow
<1>3. CASE q.op = "deactivate"
  BY <1>3 DEF After, EntityRow
<1>4. QED
  BY <1>1, <1>2, <1>3

LEMMA CommitMatches ==
  ASSUME PInv, FInv, ~Shrunk, NEW q \in unsaved, Saved(q), NEW l
  PROVE  Matching(l) \subseteq Matching(l)'
<1>1. /\ q \in Requests /\ q.target \in Entities /\ q.op # "bundle"
      /\ After(q, entity[q.target]) \in EntityRow
  BY UnsavedFacts
<1>2. UnsavedOK(q)
  BY DEF PInv
<1>3. q.op \in {"create", "addTag", "addPart", "deactivate"}
  <2>1. q.op \notin {"update", "deleteTag"}
    BY <1>2 DEF UnsavedOK, Shrunk
  <2>2. q.op \in {"create", "update", "addTag", "deleteTag", "addPart", "deactivate", "bundle"}
    BY <1>1 DEF Requests, Ops, Args
  <2>3. QED
    BY <1>1, <2>1, <2>2
<1>4. PICK v \in EntityRow : v = After(q, entity[q.target])
  BY <1>1
<1>5. entity'[q.target] = v /\ \A e \in Entities \ {q.target} : entity'[e] = entity[e]
  BY <1>1, <1>4 DEF Saved, Commit, PInv
<1>6. CASE q.op = "create"
  <2>1. entity[q.target] = NoEntity
    BY <1>6 DEF FInv, UnsavedFresh
  <2>2. QED
    BY <1>5, <2>1 DEF Matching, Entities
<1>7. CASE q.op \in {"addTag", "addPart", "deactivate"}
  <2>1. entity[q.target] \in EntityRow
    BY <1>1, <1>2, <1>7 DEF UnsavedOK, PInv
  <2>2. v.status = entity[q.target].status /\ entity[q.target].tags \subseteq v.tags /\ v # NoEntity
    BY <1>1, <1>4, <1>7, <2>1, AfterMatches, RoutesAssumption
  <2>3. \A e \in Entities : entity[e] # NoEntity =>
          /\ entity'[e] # NoEntity /\ entity'[e].status = entity[e].status
          /\ entity[e].tags \subseteq entity'[e].tags
    BY <1>5, <2>2
  <2>4. QED
    BY <2>3 DEF Matching, Entities
<1>8. QED
  BY <1>3, <1>6, <1>7

LEMMA CommitFit ==
  ASSUME PInv, PInv', FInv, ~Shrunk, NEW q \in unsaved, Saved(q), \A u \in Tabs : PagesFit(u)
  PROVE  \A u \in Tabs : PagesFit(u)'
<1>1. UNCHANGED <<loc, going, got, ui>>
  BY DEF Saved
<1>2. \A l : Count(l) \in Nat /\ Count(l)' \in Nat /\ Count(l) <= Count(l)'
  <2> SUFFICES ASSUME NEW l PROVE Count(l) \in Nat /\ Count(l)' \in Nat /\ Count(l) <= Count(l)'
    OBVIOUS
  <2>1. Matching(l) \subseteq Matching(l)'
    BY CommitMatches
  <2>2. IsFiniteSet(Matching(l)') /\ Cardinality(Matching(l)') \in Nat
    <3>1. DOMAIN Order = 1..Len(Order) /\ Len(Order) \in Nat
      BY RoutesAssumption
    <3>2. Matching(l)' \subseteq 1..Len(Order)
      BY <3>1 DEF Matching
    <3>3. IsFiniteSet(1..Len(Order))
      BY <3>1, FS_Interval
    <3>4. QED
      BY <3>2, <3>3, FS_Subset, FS_CardinalityType
  <2>3. Cardinality(Matching(l)) <= Cardinality(Matching(l)')
    BY <2>1, <2>2, FS_Subset
  <2>4. QED
    BY <2>2, <2>3, CountNat DEF Count
<1>3. \A l : l \in Locations /\ Within(l) => Within(l)'
  BY <1>2 DEF Within, Locations
<1>4. \A l, rows : \A total \in Nat : Fits(l, rows, total) => Fits(l, rows, total)'
  BY <1>2 DEF Fits
<1>5. ASSUME NEW u \in Tabs PROVE PagesFit(u)'
  <2>1. PagesFit(u) /\ loc[u] \in Locations /\ going[u] \in Locations
    BY LocFacts
  <2>2. ui[u].total \in Nat /\ got[u].total \in Nat
    BY DEF PInv, TabOK, ScreenOK, FetchOK
  <2>3. QED
    BY <1>1, <1>3, <1>4, <2>1, <2>2 DEF PagesFit
<1>6. QED
  BY <1>5

LEMMA InitNInv == TabsInit => NInv
<1> SUFFICES ASSUME TabsInit PROVE NInv
  OBVIOUS
<1>1. PInv
  BY InitPInv
<1>2. /\ unsaved = {} /\ calls = [t \in Tabs |-> <<>>] /\ loc = [t \in Tabs |-> Nowhere]
      /\ got = [t \in Tabs |-> Nothing] /\ going = tour.start
  BY DEF TabsInit
<1>3. FInv
  BY <1>2 DEF FInv, CreateFresh, CreatesApart, UnsavedFresh
<1>4. \A t \in Tabs : going[t].offset = 0
  BY <1>1, <1>2, ToursAssumption DEF PInv
<1>5. Nowhere.page # "list" /\ Nothing.rows = NoEntity
  BY DEF Nowhere, Place, Nothing
<1>6. \A t \in Tabs : PagesFit(t)
  BY <1>2, <1>4, <1>5 DEF PagesFit, Within, Fits
<1>7. QED
  BY <1>1, <1>3, <1>6 DEF NInv

LEMMA NextNInv == NInv /\ [Next]_vars => NInv'
<1> SUFFICES ASSUME NInv, [Next]_vars PROVE NInv'
  OBVIOUS
<1>1. PInv /\ PInv' /\ FInv /\ FInv'
  BY NextPInv, NextFInv DEF NInv
<1>2. taken \subseteq taken'
  <2>1. CASE UNCHANGED vars
    BY <2>1 DEF vars, serverVars
  <2>2. ASSUME NEW t \in Tabs, Click(t) \/ Settle(t) PROVE UNCHANGED taken
    BY <1>1, <2>2, ClicksPInv, SettlePInv DEF Effect, SubmitNew, serverVars
  <2>3. ASSUME NEW t \in Tabs, \/ Send(t) \/ FetchRows(t) \/ FetchParts(t)
                              \/ Arrive(t) \/ (Serve(t) /\ UNCHANGED tabVars) \/ Lost(t)
        PROVE  taken \subseteq taken'
    BY <2>3 DEF Send, FetchRows, FetchParts, Arrive, Serve, Load, Refuse, Flush, Lost, Lose, serverVars
  <2>4. ASSUME NEW q \in unsaved, Saved(q) \/ Died(q) PROVE UNCHANGED taken
    BY <2>4 DEF Saved, Commit, Died, Die
  <2>5. QED
    BY <2>1, <2>2, <2>3, <2>4 DEF Next
<1>3. Shrunk => Shrunk'
  BY <1>2 DEF Shrunk
<1>4. ASSUME ~Shrunk, \A t \in Tabs : PagesFit(t) PROVE \A t \in Tabs : PagesFit(t)'
  <2>1. ASSUME UNCHANGED <<entity, loc, going, got, ui>> PROVE \A t \in Tabs : PagesFit(t)'
    BY <1>4, <2>1, SameFit DEF PagesFit
  <2>2. ASSUME NEW t \in Tabs, Click(t) \/ Settle(t) PROVE \A u \in Tabs : PagesFit(u)'
    <3>1. CASE Effect(t)
      BY <1>1, <1>4, <3>1, EffectFit
    <3>2. CASE SubmitNew(t)
      BY <2>1, <3>2 DEF SubmitNew, serverVars
    <3>3. QED
      BY <1>1, <2>2, <3>1, <3>2, ClicksPInv, SettlePInv
  <2>3. ASSUME NEW t \in Tabs, Send(t) \/ (Serve(t) /\ UNCHANGED tabVars) \/ Lost(t)
        PROVE  \A u \in Tabs : PagesFit(u)'
    BY <2>1, <2>3 DEF Send, Serve, Load, Refuse, Flush, Lost, Lose, tabVars
  <2>4. ASSUME NEW q \in unsaved, Saved(q) \/ Died(q) PROVE \A u \in Tabs : PagesFit(u)'
    BY <1>1, <1>4, <2>1, <2>4, CommitFit DEF Died, Die
  <2>5. CASE UNCHANGED vars
    BY <2>1, <2>5 DEF vars, serverVars, tabVars
  <2>6. CASE \E t \in Tabs : \/ Click(t) \/ Settle(t) \/ Send(t) \/ FetchRows(t) \/ FetchParts(t)
                            \/ Arrive(t) \/ (Serve(t) /\ UNCHANGED tabVars) \/ Lost(t)
    BY <1>1, <1>4, <2>2, <2>3, <2>6, FetchFit, ArriveFit
  <2>7. QED
    BY <2>4, <2>5, <2>6 DEF Next
<1>5. QED
  BY <1>1, <1>3, <1>4 DEF NInv

(* The list shows no empty page of a result that is not empty, for any      *)
(* number of rows, page size, filters, new entities and tabs, while no     *)
(* status is changed and no tag is taken away (EntityList.tsx).            *)
THEOREM ListPagesNotEmpty == Spec => []NoEmptyPage
<1>1. TabsInit => NInv
  BY InitNInv
<1>2. NInv /\ [Next]_vars => NInv'
  BY NextNInv
<1>3. NInv => NoEmptyPage
  BY NInvNoEmptyPage
<1>4. QED
  BY <1>1, <1>2, <1>3, PTL DEF Spec
=============================================================================
