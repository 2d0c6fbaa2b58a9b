------------------------- MODULE EntityDetailProofs -------------------------
(***************************************************************************)
(* What the details page shows is what is stored, proved for any tabs,     *)
(* people and tags.  DInv says, for a tab that nothing has happened to     *)
(* behind its back, what is true while an answer is on its way, while the  *)
(* page is read again, and while a transaction that was answered has not   *)
(* committed.                                                              *)
(***************************************************************************)
EXTENDS EntityPagesProofs

-----------------------------------------------------------------------------
(* Queues.  A component of the details makes its own kinds of calls. *)
Shaped(cs) ==
  \A n \in DOMAIN cs :
    /\ cs[n].form = "header" => cs[n].op = "update"
    /\ cs[n].form = "tags" => cs[n].op \in {"addTag", "deleteTag"}
    /\ cs[n].form = "deactivate" => cs[n].op = "deactivate"
    /\ cs[n].form \in {"alias", "context"} => cs[n].op = "addPart"

(* A call nobody listens to comes from the list, and a call that the        *)
(* details on the screen made is about their entity.                       *)
OfPage(cs, l) ==
  \A n \in DOMAIN cs : cs[n].here =>
    /\ cs[n].form = "none" => l.page = "list"
    /\ l.page = "detail" => cs[n].target = l.of

Gone(cs) == \A n \in DOMAIN cs : ~cs[n].here

(* An error page has no components. *)
CallsOK(t) ==
  /\ Shaped(calls[t]) /\ OfPage(calls[t], loc[t])
  /\ ui[t].failed = "page" => Gone(calls[t])

-----------------------------------------------------------------------------
(* Answers.  Only what may be changed by its caller is loaded for it. *)
Allowed(q) ==
  q.at = "loaded" /\ q.op \notin {"create", "bundle"} => MayMutate(q.by, q.target)

(* The tab is about to go on after an answer, on the page that asked. *)
Staying(t) == going[t] \in {Nowhere, loc[t]}
Told(t) == At(t, "done") /\ calls[t][1].here /\ Staying(t)

(* It will refresh, it will show the error page, or it will change a chip. *)
Coming(t) == Told(t) /\ req[t].ok
Breaking(t) == Told(t) /\ ~req[t].ok /\ calls[t][1].form \in {"header", "tags", "deactivate"}
TagTold(t) == Coming(t) /\ req[t].op \in {"addTag", "deleteTag"}

(* The request, but for how far it has come, is q. *)
SameAsk(r, q) == [r EXCEPT !.at = q.at, !.ok = q.ok] = q

(* The commit of q will not be seen on the details. *)
Changeless(q) ==
  LET now == entity[q.target] IN
  \A c \in {"status", "text", "tags", "parts"} : After(q, now)[c] = now[c]

-----------------------------------------------------------------------------
(* The details agree with what is stored.  A request that was refused has   *)
(* no transaction that would change anything.                              *)
RefusedIdle(t) ==
  Told(t) /\ ~req[t].ok /\ loc[t].page = "detail" =>
    \A q \in unsaved : Awaited(t, q) => Changeless(q)

(* What has been fetched, or the refresh to come starts again. *)
FetchAgrees(t) ==
  going[t].page = "detail" =>
    LET e == going[t].of IN
    \/ Coming(t)
    \/ /\ got[t].rows # NoEntity => got[t].rows[e] = Columns(e)
       /\ got[t].parts # NoEntity => got[t].parts[e] = entity[e].parts

(* What is on the screen. *)
OnDetail(t) == loc[t].page = "detail" /\ ui[t].failed # "page"

ScreenAgrees(t) ==
  OnDetail(t) /\ going[t] = Nowhere =>
    LET e == loc[t].of IN
    \/ Coming(t)
    \/ ui[t].rows[e] = Columns(e) /\ ui[t].parts[e] = entity[e].parts

(* A commit to come that makes the tab stale. *)
InFlight(t) == \E q \in unsaved : q.target = loc[t].of /\ Locks(q) /\ ~Awaited(t, q)

(* The chips, which no refresh corrects.  After a tag was accepted, its     *)
(* chip is changed before or after the commit.                             *)
ChipIs(t, x) == ui[t].chips[x] = IF x \in entity[loc[t].of].tags THEN 1 ELSE 0

ChipToChange(t) ==
  /\ TagTold(t)
  /\ \A x \in Tags \ {req[t].arg} : ChipIs(t, x)
  /\ req[t].op = "addTag" => ui[t].chips[req[t].arg] = 0
  /\ \/ \E q \in unsaved : Awaited(t, q)
     \/ req[t].arg \in entity[loc[t].of].tags <=> req[t].op = "addTag"

ChipsAgree(t) ==
  OnDetail(t) /\ Staying(t) =>
    \/ InFlight(t)
    \/ Breaking(t)
    \/ ~TagTold(t) /\ \A x \in Tags : ChipIs(t, x)
    \/ ChipToChange(t)

Agrees(t) == RefusedIdle(t) /\ FetchAgrees(t) /\ ScreenAgrees(t) /\ ChipsAgree(t)

DTab(t) ==
  /\ CallsOK(t)
  /\ req[t] # NoRequest => Allowed(req[t])
  /\ ~stale[t] => Agrees(t)

DInv ==
  /\ PInv
  /\ stale \in [Tabs -> BOOLEAN]
  /\ \A q \in unsaved : Allowed(q) /\ ~q.ok
  /\ \A t \in Tabs : DTab(t)

-----------------------------------------------------------------------------
(* Who awaits what. *)
LEMMA AwaitedIs ==
  ASSUME NEW t, NEW q
  PROVE  /\ Awaited(t, q) <=> (t = q.tab /\ Told(t) /\ SameAsk(req[t], q))
         /\ Awaited(t, q)' <=> (t = q.tab /\ Told(t)' /\ SameAsk(req'[t], q))
BY DEF Awaited, Told, Staying, SameAsk, At

LEMMA SameAskFacts ==
  ASSUME NEW r \in Requests, NEW q \in Requests, SameAsk(r, q)
  PROVE  /\ q.tab = r.tab /\ q.op = r.op /\ q.by = r.by /\ q.target = r.target
         /\ q.arg = r.arg /\ q.seen = r.seen
         /\ \A w : SameAsk(r, w) /\ w.at = q.at /\ w.ok = q.ok => w = q
<1>1. q = [r EXCEPT !.at = q.at, !.ok = q.ok]
  BY DEF SameAsk
<1>2. /\ q.tab = r.tab /\ q.op = r.op /\ q.by = r.by /\ q.target = r.target
      /\ q.arg = r.arg /\ q.seen = r.seen
  BY <1>1 DEF Requests
<1>3. ASSUME NEW w, SameAsk(r, w), w.at = q.at, w.ok = q.ok PROVE w = q
  <2>1. w = [r EXCEPT !.at = w.at, !.ok = w.ok]
    BY <1>3 DEF SameAsk
  <2>2. QED
    BY <1>1, <1>3, <2>1, Zenon
<1>4. QED
  BY <1>2, <1>3

(* The answer to r is that to r. *)
LEMMA AnsweredSame ==
  ASSUME NEW r \in Requests, NEW ok \in BOOLEAN, NEW v, v = Answered(r, ok)
  PROVE  /\ SameAsk(v, r)
         /\ \A q \in Requests : SameAsk(v, q) /\ q.at = r.at /\ q.ok = r.ok => q = r
<1>1. v = [r EXCEPT !.at = "done", !.ok = ok] /\ v \in Requests
  BY RequestChanges DEF Answered
<1>2. PICK a, o : a = r.at /\ o = r.ok
  OBVIOUS
<1>3. [v EXCEPT !.at = a, !.ok = o] = r
  BY <1>1, <1>2 DEF Requests
<1>4. SameAsk(v, r)
  BY <1>2, <1>3 DEF SameAsk
<1>5. QED
  BY <1>1, <1>4, SameAskFacts

-----------------------------------------------------------------------------
(* Queues whose calls all come from calls of another one. *)
From(c, d) ==
  /\ d.target = c.target /\ (d.here => c.here)
  /\ \/ d.form = c.form /\ d.op = c.op
     \/ c.form = "new" /\ d.form \in {"new", "none"}

QueueFrom(cs, ds) == \A n \in DOMAIN ds : \E m \in DOMAIN cs : From(cs[m], ds[n])

LEMMA FromSame ==
  ASSUME NEW c, NEW d, SameCall(c, d), d.here => c.here, d.form = c.form \/ c.form = "new"
  PROVE  From(c, d)
BY DEF From, SameCall

LEMMA FromNone ==
  ASSUME NEW c \in Calls, c.form = "new",
         NEW d, \/ d = [c EXCEPT !.form = "none", !.waits = FALSE]
                \/ d = [c EXCEPT !.form = "none"]
  PROVE  From(c, d)
<1>1. SameCall(c, d) /\ d.here = c.here
  BY CallFormNone
<1>2. QED
  BY <1>1, FromSame

LEMMA FromRest ==
  ASSUME NEW t, calls[t] \in Seq(Calls), calls[t] # <<>>
  PROVE  \A n \in DOMAIN Rest(t) : \E m \in DOMAIN calls[t] :
           Rest(t)[n] = calls[t][m] /\ Rest(t)[n] \in Calls /\ From(calls[t][m], Rest(t)[n])
<1>1. ASSUME NEW n \in DOMAIN Rest(t)
      PROVE  n + 1 \in DOMAIN calls[t] /\ Rest(t)[n] = calls[t][n + 1] /\ calls[t][n + 1] \in Calls
  BY DEF Rest
<1>2. QED
  BY <1>1 DEF From

LEMMA FromUnmounted ==
  ASSUME NEW cs
  PROVE  DOMAIN Unmounted(cs) = DOMAIN cs
         /\ \A n \in DOMAIN cs : cs[n] \in Calls =>
              From(cs[n], Unmounted(cs)[n]) /\ ~Unmounted(cs)[n].here
<1>1. Unmounted(cs) = [n \in DOMAIN cs |-> [cs[n] EXCEPT !.here = FALSE, !.waits = FALSE]]
  BY DEF Unmounted
<1>2. ASSUME NEW n \in DOMAIN cs, cs[n] \in Calls
      PROVE  From(cs[n], Unmounted(cs)[n]) /\ ~Unmounted(cs)[n].here
  BY <1>1, <1>2, CallGone, FromSame
<1>3. QED
  BY <1>1, <1>2

LEMMA FromUnwaited ==
  ASSUME NEW cs \in Seq(Calls)
  PROVE  /\ DOMAIN Unwaited(cs) = DOMAIN cs
         /\ \A n \in DOMAIN cs : From(cs[n], Unwaited(cs)[n])
         /\ QueueFrom(cs, Unwaited(cs))
<1>1. Unwaited(cs) = [n \in DOMAIN cs |-> [cs[n] EXCEPT !.waits = cs[n].waits /\ cs[n].form # "new"]]
  BY DEF Unwaited
<1>2. ASSUME NEW n \in DOMAIN cs PROVE From(cs[n], Unwaited(cs)[n])
  <2>1. cs[n] \in Calls
    OBVIOUS
  <2>2. PICK w \in BOOLEAN : w = (cs[n].waits /\ cs[n].form # "new")
    OBVIOUS
  <2>3. Unwaited(cs)[n] = [cs[n] EXCEPT !.waits = w]
    BY <1>1, <2>2
  <2>4. QED
    BY <2>1, <2>3, CallWaits, FromSame
<1>3. QED
  BY <1>1, <1>2 DEF QueueFrom

LEMMA FromFirst ==
  ASSUME NEW cs \in Seq(Calls)
  PROVE  QueueFrom(cs, First(cs))
<1> DEFINE dropped == \E n \in DOMAIN Tail(cs) : SameNew(cs[1], Tail(cs)[n])
<1>1. CASE cs = <<>>
  BY <1>1 DEF First, QueueFrom
<1>2. CASE cs # <<>>
  <2>1. PICK d : d = IF cs[1].form = "new" /\ dropped THEN [cs[1] EXCEPT !.form = "none"] ELSE cs[1]
    OBVIOUS
  <2>2. First(cs) = <<d>>
    BY <1>2, <2>1 DEF First
  <2>3. cs[1] \in Calls /\ 1 \in DOMAIN cs
    BY <1>2
  <2>4. From(cs[1], d)
    <3>1. CASE cs[1].form = "new" /\ dropped
      <4>1. d = [cs[1] EXCEPT !.form = "none"]
        BY <2>1, <3>1
      <4>2. QED
        BY <2>3, <3>1, <4>1, FromNone
    <3>2. CASE ~(cs[1].form = "new" /\ dropped)
      BY <2>1, <3>2 DEF From
    <3>3. QED
      BY <3>1, <3>2
  <2>5. DOMAIN <<d>> = {1} /\ <<d>>[1] = d
    OBVIOUS
  <2>6. QED
    BY <2>2, <2>3, <2>4, <2>5 DEF QueueFrom
<1>3. QED
  BY <1>1, <1>2

LEMMA FromSent ==
  ASSUME NEW t, calls[t] \in Seq(Calls)
  PROVE  QueueFrom(calls[t], Sent(t))
BY FromFirst DEF Sent

LEMMA FromRejected ==
  ASSUME NEW t, calls[t] \in Seq(Calls), calls[t] # <<>>
  PROVE  QueueFrom(calls[t], Rejected(t))
<1> DEFINE r == Rest(t)
<1>1. Rejected(t) = [n \in DOMAIN r |-> IF SameNew(calls[t][1], r[n])
                            THEN [r[n] EXCEPT !.form = "none", !.waits = FALSE] ELSE r[n]]
  BY DEF Rejected
<1>2. ASSUME NEW n \in DOMAIN r
      PROVE  \E m \in DOMAIN calls[t] : From(calls[t][m], Rejected(t)[n])
  <2>1. PICK m \in DOMAIN calls[t] : r[n] = calls[t][m] /\ r[n] \in Calls
    BY FromRest
  <2>2. PICK c : c = r[n]
    OBVIOUS
  <2>3. PICK d : d = Rejected(t)[n]
    OBVIOUS
  <2>4. d = IF SameNew(calls[t][1], c) THEN [c EXCEPT !.form = "none", !.waits = FALSE] ELSE c
    BY <1>1, <2>2, <2>3
  <2>5. From(c, d)
    <3>1. CASE SameNew(calls[t][1], c)
      <4>1. c \in Calls /\ c.form = "new" /\ d = [c EXCEPT !.form = "none", !.waits = FALSE]
        BY <2>1, <2>2, <2>4, <3>1 DEF SameNew
      <4>2. QED
        BY <4>1, FromNone
    <3>2. CASE ~SameNew(calls[t][1], c)
      BY <2>4, <3>2 DEF From
    <3>3. QED
      BY <3>1, <3>2
  <2>6. QED
    BY <2>1, <2>2, <2>3, <2>5
<1>3. QED
  BY <1>1, <1>2 DEF QueueFrom

LEMMA FromAddTags ==
  ASSUME NEW t, calls[t] \in Seq(Calls), calls[t] # <<>>, calls[t][1].form = "new"
  PROVE  QueueFrom(calls[t], Rest(t) \o AddTags(t))
<1>0. PICK c : c = calls[t][1]
  OBVIOUS
<1> DEFINE r == Rest(t)
           s == AddTags(t)
           k == Cardinality(c.all)
           q == r \o s
<1>1. c \in Calls /\ 1 \in DOMAIN calls[t] /\ r \in Seq(Calls)
  BY <1>0 DEF Rest
<1>2. k \in Nat /\ SetToSeq(c.all) \in [1..k -> c.all] /\ c.all \subseteq Tags
  <2>1. c \in CallShape
    BY <1>1 DEF Calls
  <2>2. c.all \in SUBSET Tags
    BY <2>1 DEF CallShape
  <2>3. QED
    BY <2>2, TagsOrdered
<1>3. s = [n \in 1..k |-> [c EXCEPT !.op = "addTag", !.arg = SetToSeq(c.all)[n]]]
  BY <1>0 DEF AddTags
<1>4. ASSUME NEW n \in 1..k
      PROVE  s[n] \in Calls /\ From(c, s[n])
  <2>1. PICK x \in Tags : x = SetToSeq(c.all)[n]
    BY <1>2
  <2>2. PICK d : d = Adding(c, x)
    OBVIOUS
  <2>3. s[n] = d
    BY <1>3, <2>1, <2>2 DEF Adding
  <2>4. /\ d \in Calls /\ d.form = c.form /\ d.target = c.target /\ d.here = c.here
    BY <1>1, <2>1, <2>2, AddingCall
  <2>5. QED
    BY <1>0, <2>3, <2>4 DEF From
<1>5. s \in Seq(Calls) /\ Len(s) = k /\ DOMAIN s = 1..k
  <2>1. s \in [1..k -> Calls]
    BY <1>3, <1>4
  <2>2. QED
    BY <1>2, <2>1
<1> HIDE DEF s, r
<1>6. /\ DOMAIN q = 1..Len(r) + k /\ Len(r) \in Nat /\ DOMAIN r = 1..Len(r)
      /\ \A n \in 1..Len(r) : q[n] = r[n]
      /\ \A n \in 1..k : q[Len(r) + n] = s[n]
  BY <1>1, <1>2, <1>5
<1> HIDE DEF q
<1>7. ASSUME NEW n \in DOMAIN q PROVE \E m \in DOMAIN calls[t] : From(calls[t][m], q[n])
  <2>1. CASE n \in 1..Len(r)
    <3>1. q[n] = r[n] /\ n \in DOMAIN r
      BY <1>6, <2>1
    <3>2. PICK m \in DOMAIN calls[t] : From(calls[t][m], r[n])
      BY <3>1, FromRest DEF r
    <3>3. QED
      BY <3>1, <3>2
  <2>2. CASE n \notin 1..Len(r)
    <3>1. n - Len(r) \in 1..k /\ q[n] = s[n - Len(r)]
      <4>1. n \in Nat /\ n > Len(r) /\ n <= Len(r) + k
        BY <1>2, <1>6, <2>2
      <4>2. PICK m \in 1..k : n = Len(r) + m
        <5>1. n - Len(r) \in 1..k /\ n = Len(r) + (n - Len(r))
          BY <1>2, <1>6, <4>1
        <5>2. QED
          BY <5>1
      <4>3. n - Len(r) = m
        BY <1>6, <4>2
      <4>4. QED
        BY <1>6, <4>2, <4>3
    <3>2. QED
      BY <1>0, <1>1, <1>4, <3>1
  <2>3. QED
    BY <2>1, <2>2
<1>8. QED
  BY <1>7 DEF QueueFrom, q, r, s

(* What is true of the calls stays so. *)
LEMMA QueueFromOK ==
  ASSUME NEW cs, NEW ds, QueueFrom(cs, ds), NEW page, OnPage(cs, page),
         NEW l, l.page = page, Shaped(cs), OfPage(cs, l)
  PROVE  Shaped(ds) /\ OfPage(ds, l) /\ (Gone(cs) => Gone(ds))
<1>1. ASSUME NEW n \in DOMAIN ds
      PROVE  /\ ds[n].form = "header" => ds[n].op = "update"
             /\ ds[n].form = "tags" => ds[n].op \in {"addTag", "deleteTag"}
             /\ ds[n].form = "deactivate" => ds[n].op = "deactivate"
             /\ ds[n].form \in {"alias", "context"} => ds[n].op = "addPart"
             /\ ds[n].here =>
                  /\ ds[n].form = "none" => l.page = "list"
                  /\ l.page = "detail" => ds[n].target = l.of
             /\ Gone(cs) => ~ds[n].here
  <2>1. PICK m \in DOMAIN cs : From(cs[m], ds[n])
    BY DEF QueueFrom
  <2>2. PICK c, d : c = cs[m] /\ d = ds[n]
    OBVIOUS
  <2>3. /\ c.form = "header" => c.op = "update"
        /\ c.form = "tags" => c.op \in {"addTag", "deleteTag"}
        /\ c.form = "deactivate" => c.op = "deactivate"
        /\ c.form \in {"alias", "context"} => c.op = "addPart"
        /\ c.here =>
             /\ c.form = "none" => l.page = "list"
             /\ l.page = "detail" => c.target = l.of
        /\ Gone(cs) => ~c.here
        /\ c.here /\ c.form = "new" => l.page = "list"
    BY <2>2 DEF Shaped, OfPage, Gone, OnPage, PageOf
  <2>4. From(c, d)
    BY <2>1, <2>2
  <2>5. QED
    BY <2>2, <2>3, <2>4 DEF From
<1>2. QED
  BY <1>1 DEF Shaped, OfPage, Gone

(* The calls of a tab, and the page they are on. *)
LEMMA CallsStep ==
  ASSUME PInv, NEW t \in Tabs, CallsOK(t), QueueFrom(calls[t], calls'[t]),
         loc'[t].page = loc[t].page, loc'[t].of = loc[t].of,
         ui'[t].failed = "page" => ui[t].failed = "page" \/ Gone(calls'[t])
  PROVE  CallsOK(t)'
<1>1. OnPage(calls[t], loc[t].page)
  BY DEF PInv, TabOK, QueueOK
<1>2. Shaped(calls'[t]) /\ OfPage(calls'[t], loc[t]) /\ (Gone(calls[t]) => Gone(calls'[t]))
  BY <1>1, QueueFromOK DEF CallsOK
<1>3. OfPage(calls'[t], loc'[t])
  BY <1>2 DEF OfPage
<1>4. QED
  BY <1>2, <1>3 DEF CallsOK

LEMMA QueueSame ==
  ASSUME NEW cs
  PROVE  QueueFrom(cs, cs)
BY DEF QueueFrom, From

-----------------------------------------------------------------------------
(* A step that leaves what a tab shows, loads and is told. *)
LEMMA ColumnsSame ==
  ASSUME NEW e, entity'[e] = entity[e]
  PROVE  Columns(e)' = Columns(e)
BY DEF Columns

LEMMA Steady ==
  ASSUME NEW t, Agrees(t), UNCHANGED <<entity, unsaved>>,
         loc'[t] = loc[t], going'[t] = going[t], got'[t] = got[t],
         ui'[t].rows = ui[t].rows, ui'[t].parts = ui[t].parts, ui'[t].chips = ui[t].chips,
         ui'[t].failed = ui[t].failed,
         Told(t)' <=> Told(t),
         Told(t) => req'[t] = req[t] /\ calls'[t][1].form = calls[t][1].form
  PROVE  Agrees(t)'
<1>1. \A q : Awaited(t, q)' <=> Awaited(t, q)
  BY AwaitedIs
<1>2. /\ Coming(t)' <=> Coming(t)
      /\ Breaking(t)' <=> Breaking(t)
      /\ TagTold(t)' <=> TagTold(t)
      /\ Staying(t)' <=> Staying(t)
      /\ OnDetail(t)' <=> OnDetail(t)
  BY DEF Coming, Breaking, TagTold, Staying, OnDetail
<1>3. RefusedIdle(t)'
  <2>1. \A q : Changeless(q)' <=> Changeless(q)
    BY DEF Changeless
  <2>2. QED
    BY <1>1, <2>1 DEF Agrees, RefusedIdle
<1>4. \A e : Columns(e)' = Columns(e)
  BY ColumnsSame
<1>5. FetchAgrees(t)'
  BY <1>2, <1>4 DEF Agrees, FetchAgrees
<1>6. ScreenAgrees(t)'
  BY <1>2, <1>4 DEF Agrees, ScreenAgrees
<1>7. ChipsAgree(t)'
  <2>1. InFlight(t)' <=> InFlight(t)
    BY <1>1 DEF InFlight
  <2>2. \A x : ChipIs(t, x)' <=> ChipIs(t, x)
    BY DEF ChipIs
  <2>3. ChipToChange(t) => ChipToChange(t)'
    <3>1. TagTold(t) => req'[t] = req[t]
      BY DEF TagTold, Coming
    <3>2. QED
      BY <1>1, <1>2, <2>2, <3>1 DEF ChipToChange
  <2>4. QED
    BY <1>2, <2>1, <2>2, <2>3 DEF Agrees, ChipsAgree
<1>8. QED
  BY <1>3, <1>5, <1>6, <1>7 DEF Agrees

(* A step in which a tab does not take part. *)
LEMMA OtherTab ==
  ASSUME NEW u, DTab(u), UNCHANGED <<entity, unsaved>>,
         UNCHANGED <<req[u], loc[u], going[u], got[u], ui[u], calls[u], stale[u]>>
  PROVE  DTab(u)'
<1>1. Told(u)' <=> Told(u)
  BY DEF Told, At, Staying
<1>2. Agrees(u) => Agrees(u)'
  BY <1>1, Steady
<1>3. QED
  BY <1>2 DEF DTab, CallsOK, Allowed

(* A step of one tab. *)
LEMMA StepDInv ==
  ASSUME DInv, NEW t \in Tabs, PInv', UNCHANGED <<entity, unsaved>>,
         stale' \in [Tabs -> BOOLEAN],
         \A u \in Tabs \ {t} :
           UNCHANGED <<req[u], loc[u], going[u], got[u], ui[u], calls[u], stale[u]>>,
         DTab(t)'
  PROVE  DInv'
<1>1. ASSUME NEW u \in Tabs \ {t} PROVE DTab(u)'
  BY OtherTab DEF DInv
<1>2. \A q \in unsaved' : Allowed(q)' /\ ~q.ok
  BY DEF DInv, Allowed
<1>3. QED
  BY <1>1, <1>2 DEF DInv

(* A tab that has a request has called. *)
LEMMA HasHead ==
  ASSUME PInv, NEW t \in Tabs, req[t] # NoRequest
  PROVE  /\ calls[t] # <<>> /\ calls[t] \in Seq(Calls) /\ calls[t][1] \in Calls /\ 1 \in DOMAIN calls[t]
         /\ req[t] \in Requests /\ req[t].target \in Entities /\ req[t].tab = t
         /\ req[t].op = calls[t][1].op /\ req[t].target = calls[t][1].target
         /\ req[t].arg = calls[t][1].arg /\ req[t].arg \in Args[req[t].op]
<1>1. HeadSent(t) /\ QueueOK(t, calls[t], loc[t].page, taken)
  BY DEF PInv, TabOK
<1>2. calls[t] # <<>> /\ calls[t] \in Seq(Calls)
  BY <1>1 DEF HeadSent, QueueOK
<1>3. req[t] \in Requests
  BY DEF PInv
<1>4. req[t].target \in Entities /\ req[t].arg \in Args[req[t].op]
  BY <1>3 DEF Requests
<1>5. QED
  BY <1>1, <1>2, <1>3, <1>4 DEF HeadSent

LEMMA QueueSeq ==
  ASSUME PInv, NEW t \in Tabs
  PROVE  calls[t] \in Seq(Calls) /\ OnPage(calls[t], loc[t].page)
BY DEF PInv, TabOK, QueueOK

(* The call that the details on the screen made. *)
LEMMA DetailCall ==
  ASSUME PInv, NEW t \in Tabs, DTab(t), req[t] # NoRequest, calls[t][1].here, loc[t].page = "detail"
  PROVE  /\ calls[t][1].form \in {"header", "tags", "deactivate", "alias", "context"}
         /\ req[t].target = loc[t].of /\ loc[t].of \in Entities
         /\ calls[t][1].form = "header" => req[t].op = "update"
         /\ calls[t][1].form = "tags" => req[t].op \in {"addTag", "deleteTag"}
         /\ calls[t][1].form = "deactivate" => req[t].op = "deactivate"
         /\ calls[t][1].form \in {"alias", "context"} => req[t].op = "addPart"
         /\ ui[t].failed # "page"
<1>1. PICK c : c = calls[t][1]
  OBVIOUS
<1>2. /\ c \in Calls /\ 1 \in DOMAIN calls[t] /\ req[t].op = c.op /\ req[t].target = c.target
      /\ req[t].target \in Entities
  BY <1>1, HasHead
<1>3. /\ c.here => (c.form = "none" => loc[t].page = "list") /\ c.target = loc[t].of
      /\ ui[t].failed # "page"
      /\ c.form = "header" => c.op = "update"
      /\ c.form = "tags" => c.op \in {"addTag", "deleteTag"}
      /\ c.form = "deactivate" => c.op = "deactivate"
      /\ c.form \in {"alias", "context"} => c.op = "addPart"
  BY <1>1, <1>2 DEF DTab, CallsOK, OfPage, Shaped, Gone
<1>4. c.form \in DOMAIN PageOf \cup {"none"}
  BY <1>2 DEF Calls, CallShape
<1>5. c.form # "none" => loc[t].page = PageOf[c.form]
  BY <1>1, <1>2, QueueSeq DEF OnPage
<1>6. c.form \in {"header", "tags", "deactivate", "alias", "context"}
  BY <1>1, <1>3, <1>4, <1>5 DEF PageOf
<1>7. QED
  BY <1>1, <1>2, <1>3, <1>6

-----------------------------------------------------------------------------
(* Clicks.  A component calls a server action. *)
LEMMA CallDInv ==
  ASSUME DInv, PInv', NEW t \in Tabs, NEW form, NEW op, NEW e, NEW arg, NEW all,
         Call(t, form, op, e, arg, all), UNCHANGED <<serverVars, tour, loc, going, got, stale>>,
         \A u \in Tabs \ {t} : ui'[u] = ui[u],
         ui'[t].rows = ui[t].rows, ui'[t].parts = ui[t].parts, ui'[t].chips = ui[t].chips,
         ui'[t].failed = ui[t].failed,
         ui[t].failed # "page", form # "none",
         form = "header" => op = "update",
         form = "tags" => op \in {"addTag", "deleteTag"},
         form = "deactivate" => op = "deactivate",
         form \in {"alias", "context"} => op = "addPart",
         loc[t].page = "detail" => e = loc[t].of
  PROVE  DInv'
<1>1. PICK c : c = Action(form, op, e, arg, all)
  OBVIOUS
<1>2. c.form = form /\ c.op = op /\ c.target = e
  BY <1>1 DEF Action
<1>3. calls' = [calls EXCEPT ![t] = Append(calls[t], c)]
  BY <1>1 DEF Call
<1>4. /\ calls'[t] = Append(calls[t], c)
      /\ \A u \in Tabs \ {t} : calls'[u] = calls[u]
  BY <1>3 DEF DInv, PInv
<1>5. calls[t] \in Seq(Calls) /\ DTab(t)
  BY QueueSeq DEF DInv
<1>6. \A n \in DOMAIN calls'[t] :
        calls'[t][n] = c \/ (n \in DOMAIN calls[t] /\ calls'[t][n] = calls[t][n])
  BY <1>4, <1>5
<1>7. CallsOK(t)'
  <2>1. CallsOK(t) /\ loc'[t] = loc[t]
    BY <1>5 DEF DTab
  <2>2. Shaped(calls'[t])
    BY <1>2, <1>6, <2>1 DEF CallsOK, Shaped
  <2>3. OfPage(calls'[t], loc[t])
    BY <1>2, <1>6, <2>1 DEF CallsOK, OfPage
  <2>4. QED
    BY <2>1, <2>2, <2>3 DEF CallsOK
<1>8. req[t] # NoRequest => calls'[t][1] = calls[t][1]
  <2>1. req[t] # NoRequest => calls[t] # <<>>
    BY HasHead DEF DInv
  <2>2. QED
    BY <1>4, <1>5, <2>1
<1>9. req' = req /\ UNCHANGED <<entity, unsaved, loc, going, got, stale>>
  BY DEF serverVars
<1>10. Told(t)' <=> Told(t)
  BY <1>8, <1>9 DEF Told, At, Staying
<1>11. Agrees(t) => Agrees(t)'
  <2>1. Told(t) => req[t] # NoRequest
    BY DEF Told, At
  <2>2. QED
    BY <1>8, <1>9, <1>10, <2>1, Steady
<1>12. DTab(t)'
  BY <1>5, <1>7, <1>9, <1>11 DEF DTab, Allowed
<1>13. QED
  BY <1>4, <1>9, <1>12, StepDInv DEF DInv

LEMMA ClickedDInv ==
  ASSUME DInv, PInv', NEW t \in Tabs, NEW form, NEW op, NEW e, NEW arg,
         Clicked(t, form, op, e, arg), ui[t].failed # "page", form # "none",
         form = "header" => op = "update",
         form = "tags" => op \in {"addTag", "deleteTag"},
         form = "deactivate" => op = "deactivate",
         form \in {"alias", "context"} => op = "addPart",
         loc[t].page = "detail" => e = loc[t].of
  PROVE  DInv'
<1>1. /\ Call(t, form, op, e, arg, {}) /\ ui' = ui
      /\ UNCHANGED <<serverVars, tour, loc, going, got, stale>>
  BY DEF Clicked
<1>2. QED
  BY <1>1, CallDInv

LEMMA CallsDInv ==
  ASSUME DInv, PInv', NEW t \in Tabs,
         \/ Decide(t) \/ Approve(t) \/ EnterTag(t) \/ CrossTag(t) \/ AddPart(t)
         \/ Deactivate(t) \/ SubmitEdit(t) \/ RunFetch(t)
  PROVE  DInv'
<1>1. CASE Decide(t)
  <2>1. PICK e, s : On(t, "review") /\ Clicked(t, "card", "update", e, [status |-> s])
    BY <1>1 DEF Decide
  <2>2. QED
    BY <2>1, ClickedDInv DEF On
<1>2. CASE Approve(t)
  BY <1>2, ClickedDInv DEF Approve, Details, On
<1>3. CASE EnterTag(t)
  <2>1. PICK x : Clicked(t, "tags", "addTag", loc[t].of, x) /\ On(t, "detail")
    BY <1>3 DEF EnterTag, Details
  <2>2. QED
    BY <2>1, ClickedDInv DEF On
<1>4. CASE CrossTag(t)
  <2>1. PICK x : Clicked(t, "tags", "deleteTag", loc[t].of, x) /\ On(t, "detail")
    BY <1>4 DEF CrossTag, Details
  <2>2. QED
    BY <2>1, ClickedDInv DEF On
<1>5. CASE AddPart(t)
  <2>1. PICK p \in NewPart(Aliases) \cup NewPart(Contexts), pane \in {"alias", "context"} :
          Clicked(t, pane, "addPart", loc[t].of, p) /\ On(t, "detail")
    BY <1>5 DEF AddPart, Details
  <2>2. QED
    BY <2>1, ClickedDInv DEF On
<1>6. CASE Deactivate(t)
  <2>1. PICK p : Clicked(t, "deactivate", "deactivate", loc[t].of, p) /\ On(t, "detail")
    BY <1>6 DEF Deactivate, Details
  <2>2. QED
    BY <2>1, ClickedDInv DEF On
<1>7. CASE SubmitEdit(t)
  <2>1. PICK s, x : On(t, "edit") /\ Clicked(t, "edit", "update", loc[t].of, [status |-> s, text |-> x])
    BY <1>7 DEF SubmitEdit
  <2>2. QED
    BY <2>1, ClickedDInv DEF On
<1>8. CASE RunFetch(t)
  <2>1. PICK e : On(t, "bundle") /\ Clicked(t, "bundle", "bundle", e, NoEntity)
    BY <1>8 DEF RunFetch
  <2>2. QED
    BY <2>1, ClickedDInv DEF On
<1>9. QED
  BY <1>1, <1>2, <1>3, <1>4, <1>5, <1>6, <1>7, <1>8

LEMMA SubmitNewDInv ==
  ASSUME DInv, PInv', NEW t \in Tabs, SubmitNew(t)
  PROVE  DInv'
<1>1. PICK e, all, x : Call(t, "new", "create", e, x, all)
  BY DEF SubmitNew
<1>2. UNCHANGED <<serverVars, tour, loc, going, got, ui, stale>> /\ On(t, "list")
  BY DEF SubmitNew
<1>3. QED
  BY <1>1, <1>2, CallDInv DEF On

LEMMA ScreenDialogKeeps ==
  ASSUME NEW u, ScreenOK(u), NEW d, NEW v, v = WithDialog(u, d)
  PROVE  v.rows = u.rows /\ v.parts = u.parts /\ v.chips = u.chips /\ v.failed = u.failed
BY DEF ScreenOK, WithDialog

LEMMA DeprecateDInv ==
  ASSUME DInv, PInv', NEW t \in Tabs, Deprecate(t)
  PROVE  DInv'
<1>1. PICK v : v = WithDialog(ui[t], "none")
  OBVIOUS
<1>2. ui' = [ui EXCEPT ![t] = v]
  BY <1>1 DEF Deprecate, WithDialog
<1>3. ui'[t] = v /\ \A u \in Tabs \ {t} : ui'[u] = ui[u]
  BY <1>2 DEF DInv, PInv
<1>4. v.rows = ui[t].rows /\ v.parts = ui[t].parts /\ v.chips = ui[t].chips /\ v.failed = ui[t].failed
  BY <1>1, LocFacts, ScreenDialogKeeps DEF DInv
<1>5. /\ Call(t, "header", "update", loc[t].of, [status |-> "deprecated"], {})
      /\ UNCHANGED <<serverVars, tour, loc, going, got, stale>> /\ On(t, "detail")
  BY DEF Deprecate
<1>6. QED
  BY <1>3, <1>4, <1>5, CallDInv DEF On

(* The dialog of the details. *)
LEMMA DialogDInv ==
  ASSUME DInv, PInv', NEW t \in Tabs, OpenDeprecate(t) \/ CancelDeprecate(t)
  PROVE  DInv'
<1>1. PICK d, v : v = WithDialog(ui[t], d) /\ Set(t, v)
  BY DEF OpenDeprecate, CancelDeprecate, WithDialog
<1>2. /\ ui' = [ui EXCEPT ![t] = v]
      /\ UNCHANGED <<entity, unsaved, req, loc, going, got, calls, stale>>
  BY <1>1 DEF Set, serverVars
<1>3. ui'[t] = v /\ \A u \in Tabs \ {t} : ui'[u] = ui[u]
  BY <1>2 DEF DInv, PInv
<1>4. v.rows = ui[t].rows /\ v.parts = ui[t].parts /\ v.chips = ui[t].chips /\ v.failed = ui[t].failed
  BY <1>1, LocFacts, ScreenDialogKeeps DEF DInv
<1>5. Told(t)' <=> Told(t)
  BY <1>2 DEF Told, At, Staying
<1>6. DTab(t)
  BY DEF DInv
<1>7. Agrees(t) => Agrees(t)'
  BY <1>2, <1>3, <1>4, <1>5, Steady
<1>8. DTab(t)'
  BY <1>2, <1>3, <1>4, <1>6, <1>7 DEF DTab, CallsOK, Allowed
<1>9. QED
  BY <1>2, <1>3, <1>8, StepDInv DEF DInv

(* Clicks on the list; the details are neither on the screen nor coming. *)
LEMMA ListDInv ==
  ASSUME DInv, PInv', NEW t \in Tabs, Effect(t), UNCHANGED <<req, stale>>,
         On(t, "list"), going'[t].page # "detail",
         QueueFrom(calls[t], calls'[t]), ui'[t].failed # "page"
  PROVE  DInv'
<1>1. /\ UNCHANGED <<entity, unsaved>> /\ loc'[t] = loc[t] /\ loc[t].page = "list"
      /\ \A u \in Tabs \ {t} :
           UNCHANGED <<req[u], loc[u], going[u], got[u], ui[u], calls[u], stale[u]>>
  BY DEF Effect, On
<1>2. DTab(t)
  BY DEF DInv
<1>3. CallsOK(t)'
  BY <1>1, <1>2, CallsStep DEF DTab, DInv
<1>4. Agrees(t)'
  BY <1>1 DEF Agrees, RefusedIdle, FetchAgrees, ScreenAgrees, ChipsAgree, OnDetail
<1>5. DTab(t)'
  BY <1>2, <1>3, <1>4 DEF DTab, Allowed
<1>6. QED
  BY <1>1, <1>5, StepDInv DEF DInv

LEMMA OpenNewDInv ==
  ASSUME DInv, PInv', NEW t \in Tabs, OpenNew(t)
  PROVE  DInv'
<1>1. PICK v : v = WithDialogAnd(ui[t], "new", "no")
  OBVIOUS
<1>2. /\ ui' = [ui EXCEPT ![t] = v] /\ On(t, "list")
      /\ UNCHANGED <<req, going, calls, stale>>
  BY <1>1 DEF OpenNew, ListOpen, Set, serverVars, WithDialogAnd
<1>3. Effect(t)
  BY DialogsPInv DEF DInv
<1>4. ui'[t] = v
  BY <1>2 DEF DInv, PInv
<1>5. v.failed = "no"
  <2>1. ScreenOK(ui[t])
    BY LocFacts DEF DInv
  <2>2. QED
    BY <1>1, <2>1 DEF WithDialogAnd, ScreenOK
<1>6. going'[t].page # "detail"
  BY <1>2 DEF On
<1>7. QED
  BY <1>2, <1>3, <1>4, <1>5, <1>6, QueueSame, ListDInv

LEMMA FilterDInv ==
  ASSUME DInv, PInv', NEW t \in Tabs, NEW l \in Locations, l.page = "list",
         NEW active, Filter(t, l, active), On(t, "list"), Effect(t)
  PROVE  DInv'
<1>1. PICK v : v = WithActive(ui[t], active)
  OBVIOUS
<1>2. PICK k : k = [l EXCEPT !.offset = 0]
  OBVIOUS
<1>3. /\ ui' = [ui EXCEPT ![t] = v] /\ going' = [going EXCEPT ![t] = k]
      /\ calls' = [calls EXCEPT ![t] = Sent(t)] /\ UNCHANGED <<req, stale>>
  BY <1>1, <1>2 DEF Filter, Navigate, serverVars, WithActive
<1>4. ui'[t] = v /\ going'[t] = k /\ calls'[t] = Sent(t)
  BY <1>3 DEF DInv, PInv
<1>5. k.page = "list"
  BY <1>2, SearchedOK
<1>6. v.failed = ui[t].failed
  <2>1. ScreenOK(ui[t])
    BY LocFacts DEF DInv
  <2>2. QED
    BY <1>1, <2>1 DEF WithActive, ScreenOK
<1>7. QueueFrom(calls[t], calls'[t])
  BY <1>4, QueueSeq, FromSent DEF DInv
<1>8. QED
  BY <1>3, <1>4, <1>5, <1>6, <1>7, ListDInv DEF On

LEMMA FiltersDInv ==
  ASSUME DInv, PInv', NEW t \in Tabs, SelectStatus(t) \/ AddTagFilter(t) \/ RemoveTagFilter(t)
  PROVE  DInv'
<1>1. /\ loc[t] \in Locations /\ loc[t].page = "list" /\ On(t, "list")
      /\ ui[t].active \subseteq Tags /\ Effect(t)
  BY LocFacts, FiltersPInv DEF DInv, ScreenOK, SelectStatus, AddTagFilter, RemoveTagFilter, ListOpen, On
<1>2. CASE SelectStatus(t)
  <2>1. PICK s \in {"any", "active"} : Filter(t, [loc[t] EXCEPT !.status = s], ui[t].active)
    BY <1>2 DEF SelectStatus
  <2>2. PICK l : l = [loc[t] EXCEPT !.status = s]
    OBVIOUS
  <2>3. l \in Locations /\ l.page = "list"
    BY <1>1, <2>2, SearchedOK DEF Statuses
  <2>4. QED
    BY <1>1, <2>1, <2>2, <2>3, FilterDInv
<1>3. CASE AddTagFilter(t) \/ RemoveTagFilter(t)
  <2>1. PICK next \in SUBSET Tags : Filter(t, [loc[t] EXCEPT !.tags = next], next)
    BY <1>1, <1>3 DEF AddTagFilter, RemoveTagFilter
  <2>2. PICK l : l = [loc[t] EXCEPT !.tags = next]
    OBVIOUS
  <2>3. l \in Locations /\ l.page = "list"
    BY <1>1, <2>2, SearchedOK
  <2>4. QED
    BY <1>1, <2>1, <2>2, <2>3, FilterDInv
<1>4. QED
  BY <1>2, <1>3

LEMMA SetPageDInv ==
  ASSUME DInv, PInv', NEW t \in Tabs, SetPage(t)
  PROVE  DInv'
<1>1. PICK n \in PagerButtons(t) : Navigate(t, [loc[t] EXCEPT !.offset = n * PageSize])
  BY DEF SetPage
<1>2. n * PageSize \in Nat /\ loc[t] \in Locations /\ loc[t].page = "list" /\ On(t, "list")
  BY PagerNumbers, LocFacts DEF DInv, SetPage, ListOpen, On
<1>3. PICK k : k = [loc[t] EXCEPT !.offset = n * PageSize]
  OBVIOUS
<1>4. k.page = "list"
  BY <1>2, <1>3, SearchedOK
<1>5. /\ going' = [going EXCEPT ![t] = k] /\ calls' = [calls EXCEPT ![t] = Sent(t)]
      /\ UNCHANGED <<req, stale, ui>>
  BY <1>1, <1>3 DEF SetPage, Navigate, serverVars
<1>6. going'[t] = k /\ calls'[t] = Sent(t)
  BY <1>5 DEF DInv, PInv
<1>7. QueueFrom(calls[t], calls'[t]) /\ Effect(t)
  BY <1>6, QueueSeq, FromSent, SetPagePInv DEF DInv
<1>8. QED
  BY <1>2, <1>4, <1>5, <1>6, <1>7, ListDInv DEF On

LEMMA CancelNewDInv ==
  ASSUME DInv, PInv', NEW t \in Tabs, CancelNew(t)
  PROVE  DInv'
<1>1. /\ ui' = [ui EXCEPT ![t] = CloseNew(t)] /\ going' = [going EXCEPT ![t] = Refreshing(t)]
      /\ calls' = [calls EXCEPT ![t] = Unwaited(calls[t])]
      /\ UNCHANGED <<req, stale>> /\ On(t, "list")
  BY DEF CancelNew, Unwaited, Navigate, serverVars
<1>2. ui'[t] = CloseNew(t) /\ going'[t] = Refreshing(t) /\ calls'[t] = Unwaited(calls[t])
  BY <1>1 DEF DInv, PInv
<1>3. Refreshing(t).page # "detail"
  BY <1>1 DEF On, Refreshing
<1>4. CloseNew(t).failed = ui[t].failed
  <2>1. PICK d : d = (IF ui[t].dialog = "new" THEN "none" ELSE ui[t].dialog)
    OBVIOUS
  <2>2. CloseNew(t) = WithDialog(ui[t], d)
    BY <2>1 DEF CloseNew, WithDialog
  <2>3. QED
    BY <2>2, LocFacts, ScreenDialogKeeps DEF DInv
<1>5. QueueFrom(calls[t], calls'[t]) /\ Effect(t)
  BY <1>2, QueueSeq, FromUnwaited, CancelNewPInv DEF DInv
<1>6. QED
  BY <1>1, <1>2, <1>3, <1>4, <1>5, ListDInv DEF On

(* A link leads away from the details; after an error it leads back to the  *)
(* page, which has no components then.                                     *)
LEMMA LinkLeads ==
  ASSUME NEW t, NEW l \in Links(t)
  PROVE  \/ ui[t].failed = "page" /\ l = loc[t]
         \/ l.page # "nowhere" /\ (loc[t].page = "detail" => l.page # "detail")
BY DEF Links, Place

LEMMA FollowDInv ==
  ASSUME DInv, PInv', NEW t \in Tabs, Follow(t)
  PROVE  DInv'
<1>1. PICK l \in Links(t) : Navigate(t, l)
  BY DEF Follow
<1>2. /\ going' = [going EXCEPT ![t] = l] /\ got' = [got EXCEPT ![t] = Nothing]
      /\ calls' = [calls EXCEPT ![t] = Sent(t)] /\ stale' = [stale EXCEPT ![t] = FALSE]
      /\ UNCHANGED <<entity, unsaved, req, loc>>
  BY <1>1 DEF Follow, Navigate, serverVars
<1>15. /\ ui'[t].failed = ui[t].failed
       /\ \A u \in Tabs \ {t} : ui'[u] = ui[u]
  <2>1. PICK v : v = WithHung(ui[t], Hanging(t, 1), ui[t].late)
    OBVIOUS
  <2>2. ScreenOK(ui[t])
    BY LocFacts DEF DInv
  <2>3. ui' = [ui EXCEPT ![t] = v]
    BY <2>1, <2>2 DEF Follow, WithHung, ScreenOK
  <2>4. v.failed = ui[t].failed
    BY <2>1, <2>2 DEF WithHung, ScreenOK
  <2>5. QED
    BY <2>3, <2>4 DEF DInv, PInv
<1>3. /\ going'[t] = l /\ got'[t] = Nothing /\ calls'[t] = Sent(t)
      /\ stale' \in [Tabs -> BOOLEAN]
      /\ \A u \in Tabs \ {t} :
           UNCHANGED <<req[u], loc[u], going[u], got[u], ui[u], calls[u], stale[u]>>
  BY <1>2, <1>15 DEF DInv, PInv
<1>4. QueueFrom(calls[t], calls'[t]) /\ DTab(t)
  BY <1>3, QueueSeq, FromSent DEF DInv
<1>5. CallsOK(t)'
  BY <1>2, <1>4, <1>15, CallsStep DEF DTab, DInv
<1>6. ASSUME Told(t)' PROVE loc'[t].page # "detail" \/ ui'[t].failed # "page"
  <2>1. req'[t] # NoRequest /\ calls'[t][1].here
    BY <1>6 DEF Told, At
  <2>2. 1 \in DOMAIN calls'[t]
    <3>1. HeadSent(t)' /\ QueueOK(t, calls[t], loc[t].page, taken)'
      BY DEF PInv, TabOK
    <3>2. calls'[t] \in Seq(Calls) /\ calls'[t] # <<>>
      BY <2>1, <3>1 DEF HeadSent, QueueOK
    <3>3. QED
      BY <3>2
  <2>3. QED
    BY <1>5, <2>1, <2>2 DEF CallsOK, Gone
<1>7. \/ ui'[t].failed = "page" /\ going'[t] = loc'[t]
      \/ going'[t].page # "nowhere" /\ (loc'[t].page = "detail" => going'[t].page # "detail")
  BY <1>2, <1>3, <1>15, LinkLeads
<1>8. Nowhere.page = "nowhere"
  BY DEF Nowhere, Place
<1>9. Staying(t)' => going'[t] \in {Nowhere, loc'[t]}
  BY DEF Staying
<1>10. RefusedIdle(t)'
  <2>1. Told(t)' => Staying(t)'
    BY DEF Told
  <2>2. QED
    BY <1>6, <1>7, <1>8, <1>9, <2>1 DEF RefusedIdle
<1>11. FetchAgrees(t)'
  BY <1>3 DEF FetchAgrees, Nothing
<1>12. ScreenAgrees(t)' /\ ChipsAgree(t)'
  BY <1>7, <1>8, <1>9 DEF ScreenAgrees, ChipsAgree, OnDetail
<1>13. DTab(t)'
  BY <1>2, <1>4, <1>5, <1>10, <1>11, <1>12 DEF DTab, Agrees, Allowed
<1>14. QED
  BY <1>2, <1>3, <1>13, StepDInv DEF DInv

LEMMA ClicksDInv ==
  ASSUME DInv, PInv', NEW t \in Tabs, Click(t)
  PROVE  DInv'
BY CallsDInv, SubmitNewDInv, DeprecateDInv, DialogDInv, OpenNewDInv, FiltersDInv, SetPageDInv,
   CancelNewDInv, FollowDInv DEF Click

-----------------------------------------------------------------------------
(* The code after an answer on the details: it does not touch the rows,     *)
(* loads the page again if the answer was good, breaks the page if it was   *)
(* not and nobody catches it, and changes the chip of the tag.             *)
Follows(t, form, new, l) ==
  /\ new.rows = ui[t].rows /\ new.parts = ui[t].parts
  /\ req[t].ok => l # Nowhere
  /\ ~req[t].ok /\ form \in {"header", "tags", "deactivate"} => new.failed = "page"
  /\ IF req[t].ok /\ form = "tags"
     THEN /\ \A x \in Tags \ {req[t].arg} : new.chips[x] = ui[t].chips[x]
          /\ new.chips[req[t].arg] = IF req[t].op = "addTag" THEN ui[t].chips[req[t].arg] + 1 ELSE 0
     ELSE new.chips = ui[t].chips

SameShown(u, v) == u.rows = v.rows /\ u.parts = v.parts /\ u.chips = v.chips /\ u.failed = v.failed

LEMMA GoOnDInv ==
  ASSUME DInv, PInv', NEW t \in Tabs, NEW form, Settles(t, form), Effect(t),
         NEW next, NEW l, NEW rest, GoOn(t, next, l, rest), QueueFrom(calls[t], rest),
         ~calls[t][1].here => SameShown(next, ui[t]),
         calls[t][1].here /\ next.failed = "page" => Gone(rest),
         calls[t][1].here /\ loc[t].page = "detail" => Follows(t, form, next, l)
  PROVE  DInv'
<1>1. ~calls[t][1].here => /\ next.rows = ui[t].rows /\ next.parts = ui[t].parts
                           /\ next.chips = ui[t].chips /\ next.failed = ui[t].failed
  BY DEF SameShown
<1>2. PICK old \in BOOLEAN : old = (stale[t] \/ (l = loc[t] /\ going[t] \notin {Nowhere, l}))
  BY DEF DInv
<1>3. /\ ui' = [ui EXCEPT ![t] = next] /\ calls' = [calls EXCEPT ![t] = rest]
      /\ req' = [req EXCEPT ![t] = NoRequest] /\ stale' = [stale EXCEPT ![t] = old]
      /\ UNCHANGED <<entity, unsaved, loc>>
      /\ IF l = Nowhere THEN UNCHANGED <<going, got>> ELSE Navigate(t, l)
  BY <1>2 DEF GoOn
<1>4. /\ ui'[t] = next /\ calls'[t] = rest /\ req'[t] = NoRequest /\ stale'[t] = old /\ loc'[t] = loc[t]
      /\ stale' \in [Tabs -> BOOLEAN]
      /\ \A u \in Tabs \ {t} : stale'[u] = stale[u]
      /\ IF l = Nowhere THEN going'[t] = going[t] /\ got'[t] = got[t]
         ELSE going'[t] = l /\ got'[t] = Nothing
  BY <1>3 DEF DInv, PInv, Navigate
<1>5. /\ DTab(t) /\ req[t] # NoRequest /\ At(t, "done") /\ calls[t][1].form = form
      /\ 1 \in DOMAIN calls[t] /\ req[t] \in Requests
  BY HasHead DEF DInv, Settles, At
<1>6. /\ calls[t][1].here => ui[t].failed # "page"
      /\ ui'[t].failed # "page" => ui[t].failed # "page"
      /\ CallsOK(t)'
  <2>1. calls[t][1].here => ui[t].failed # "page"
    BY <1>5 DEF DTab, CallsOK, Gone
  <2>2. CallsOK(t)'
    BY <1>1, <1>4, <1>5, CallsStep DEF DTab, DInv
  <2>3. QED
    BY <1>1, <1>4, <2>1, <2>2
<1>7. ~Told(t)' /\ ~Coming(t)' /\ ~Breaking(t)' /\ ~TagTold(t)' /\ \A q : ~Awaited(t, q)'
  <2>1. ~Told(t)'
    BY <1>4 DEF Told, At
  <2>2. QED
    BY <2>1, AwaitedIs DEF Coming, Breaking, TagTold
<1>8. calls[t][1].here /\ loc[t].page = "detail" =>
        /\ Follows(t, form, next, l)
        /\ form \in {"header", "tags", "deactivate", "alias", "context"}
        /\ form = "tags" <=> req[t].op \in {"addTag", "deleteTag"}
        /\ req[t].target = loc[t].of
  BY <1>5, DetailCall DEF DInv
<1>9. ASSUME Agrees(t), ~old PROVE Agrees(t)'
  <2>1. RefusedIdle(t)'
    BY <1>7 DEF RefusedIdle
  <2>2. FetchAgrees(t)'
    <3>1. CASE l = Nowhere
      <4>1. going[t].page = "detail" => ~Coming(t)
        <5> SUFFICES ASSUME going[t].page = "detail", Coming(t) PROVE FALSE
          OBVIOUS
        <5>1. calls[t][1].here /\ req[t].ok /\ going[t] = loc[t]
          BY DEF Coming, Told, Staying, Nowhere, Place
        <5>2. QED
          BY <1>8, <3>1, <5>1 DEF Follows
      <4>2. \A e : Columns(e)' = Columns(e)
        BY <1>3, ColumnsSame
      <4>3. QED
        BY <1>3, <1>4, <1>9, <3>1, <4>1, <4>2 DEF Agrees, FetchAgrees
    <3>2. CASE l # Nowhere
      BY <1>4, <3>2 DEF FetchAgrees, Nothing
    <3>3. QED
      BY <3>1, <3>2
  <2>3. ScreenAgrees(t)'
    <3> SUFFICES ASSUME OnDetail(t)', going'[t] = Nowhere
                 PROVE  ui'[t].rows[loc[t].of] = Columns(loc[t].of)'
                        /\ ui'[t].parts[loc[t].of] = entity'[loc[t].of].parts
      BY <1>4 DEF ScreenAgrees
    <3>1. l = Nowhere /\ going[t] = Nowhere
      BY <1>4
    <3>2. OnDetail(t)
      BY <1>4, <1>6 DEF OnDetail
    <3>3. ~Coming(t)
      BY <1>8, <3>1, <3>2 DEF Coming, Told, OnDetail, Follows
    <3>4. ui'[t].rows = ui[t].rows /\ ui'[t].parts = ui[t].parts
      BY <1>1, <1>4, <1>8, <3>2 DEF OnDetail, Follows
    <3>5. Columns(loc[t].of)' = Columns(loc[t].of)
      BY <1>3, <1>4 DEF Columns
    <3>6. QED
      BY <1>3, <1>9, <3>1, <3>2, <3>3, <3>4, <3>5 DEF Agrees, ScreenAgrees
  <2>4. ChipsAgree(t)'
    <3> SUFFICES ASSUME OnDetail(t)', Staying(t)'
                 PROVE  InFlight(t)' \/ \A x \in Tags : ChipIs(t, x)'
      BY <1>7 DEF ChipsAgree
    <3>1. OnDetail(t)
      BY <1>4, <1>6 DEF OnDetail
    <3>2. Staying(t)
      BY <1>2, <1>4, <1>9 DEF Staying
    <3>3. CASE \E q \in unsaved : q.target = loc[t].of /\ Locks(q)
      BY <1>3, <1>4, <1>7, <3>3 DEF InFlight
    <3>4. CASE Breaking(t)
      <4>1. ui'[t].failed = "page"
        BY <1>1, <1>4, <1>5, <1>8, <3>1, <3>4 DEF Breaking, Told, OnDetail, Follows
      <4>2. QED
        BY <4>1 DEF OnDetail
    <3>5. CASE ~TagTold(t) /\ \A x \in Tags : ChipIs(t, x)
      <4>1. ui'[t].chips = ui[t].chips
        <5>1. CASE calls[t][1].here
          <6>1. ~(req[t].ok /\ form = "tags")
            BY <1>5, <1>8, <3>1, <3>2, <3>5, <5>1 DEF TagTold, Coming, Told, OnDetail
          <6>2. QED
            BY <1>1, <1>4, <1>8, <3>1, <5>1, <6>1 DEF OnDetail, Follows
        <5>2. CASE ~calls[t][1].here
          BY <1>1, <1>4, <5>2
        <5>3. QED
          BY <5>1, <5>2
      <4>2. QED
        BY <1>3, <1>4, <3>5, <4>1 DEF ChipIs
    <3>6. CASE ChipToChange(t) /\ ~\E q \in unsaved : q.target = loc[t].of /\ Locks(q)
      <4>1. /\ calls[t][1].here /\ req[t].ok /\ form = "tags" /\ req[t].op \in {"addTag", "deleteTag"}
            /\ Follows(t, form, next, l)
        BY <1>8, <3>1, <3>6 DEF ChipToChange, TagTold, Coming, Told, OnDetail
      <4>2. ~\E q \in unsaved : Awaited(t, q)
        <5> SUFFICES ASSUME NEW q \in unsaved, Awaited(t, q) PROVE FALSE
          OBVIOUS
        <5>1. q \in Requests /\ SameAsk(req[t], q)
          BY AwaitedIs DEF DInv, PInv
        <5>2. q.op = req[t].op /\ q.target = req[t].target
          BY <1>5, <5>1, SameAskFacts
        <5>3. Locks(q) /\ q.target = loc[t].of
          BY <1>8, <3>1, <4>1, <5>2 DEF Locks, OnDetail
        <5>4. QED
          BY <3>6, <5>3
      <4>3. PICK x : x = req[t].arg
        OBVIOUS
      <4>4. /\ \A y \in Tags \ {x} : ui[t].chips[y] = IF y \in entity[loc[t].of].tags THEN 1 ELSE 0
            /\ req[t].op = "addTag" => ui[t].chips[x] = 0
            /\ x \in entity[loc[t].of].tags <=> req[t].op = "addTag"
        BY <3>6, <4>2, <4>3 DEF ChipToChange, ChipIs
      <4>5. /\ \A y \in Tags \ {x} : ui'[t].chips[y] = ui[t].chips[y]
            /\ ui'[t].chips[x] = IF req[t].op = "addTag" THEN ui[t].chips[x] + 1 ELSE 0
        BY <1>1, <1>4, <4>1, <4>3 DEF Follows
      <4>6. ui'[t].chips[x] = IF x \in entity[loc[t].of].tags THEN 1 ELSE 0
        BY <4>4, <4>5
      <4>7. ASSUME NEW y \in Tags PROVE ChipIs(t, y)'
        BY <1>3, <1>4, <4>4, <4>5, <4>6 DEF ChipIs
      <4>8. QED
        BY <4>7
    <3>7. QED
      BY <1>9, <3>1, <3>2, <3>3, <3>4, <3>5, <3>6 DEF Agrees, ChipsAgree, InFlight
  <2>5. QED
    BY <2>1, <2>2, <2>3, <2>4 DEF Agrees
<1>10. DTab(t)'
  BY <1>2, <1>4, <1>5, <1>6, <1>9 DEF DTab
<1>11. \A u \in Tabs \ {t} :
           UNCHANGED <<req[u], loc[u], going[u], got[u], ui[u], calls[u], stale[u]>>
  BY <1>4 DEF Effect
<1>12. QED
  BY <1>3, <1>4, <1>10, <1>11, StepDInv DEF DInv

LEMMA ContinueDInv ==
  ASSUME DInv, PInv', NEW t \in Tabs, NEW form, Settles(t, form), Effect(t),
         NEW new, NEW l, NEW rest, Continue(t, new, l, rest), QueueFrom(calls[t], rest),
         calls[t][1].here /\ new.failed = "page" => Gone(rest),
         calls[t][1].here /\ loc[t].page = "detail" => Follows(t, form, new, l)
  PROVE  DInv'
<1>1. PICK next : next = IF calls[t][1].here THEN new ELSE ui[t]
  OBVIOUS
<1>2. GoOn(t, next, l, rest)
  BY <1>1 DEF Continue
<1>3. ~calls[t][1].here => SameShown(next, ui[t])
  BY <1>1 DEF SameShown
<1>4. /\ calls[t][1].here /\ next.failed = "page" => Gone(rest)
      /\ calls[t][1].here /\ loc[t].page = "detail" => Follows(t, form, next, l)
  BY <1>1
<1>5. QED
  BY <1>2, <1>3, <1>4, GoOnDInv

(* The queues that answers leave. *)
LEMMA FromAnswer ==
  ASSUME NEW t, calls[t] \in Seq(Calls), calls[t] # <<>>
  PROVE  /\ QueueFrom(calls[t], Rest(t))
         /\ QueueFrom(calls[t], Unmounted(Rest(t))) /\ Gone(Unmounted(Rest(t)))
         /\ QueueFrom(calls[t], Unwaited(Rest(t))) /\ QueueFrom(calls[t], First(Rest(t)))
         /\ QueueFrom(calls[t], <<>>)
<1>1. QueueFrom(calls[t], Rest(t)) /\ QueueFrom(calls[t], <<>>)
  BY FromRest DEF QueueFrom
<1>4. Rest(t) \in Seq(Calls)
  BY DEF Rest
<1>5. ASSUME NEW ds, QueueFrom(Rest(t), ds) PROVE QueueFrom(calls[t], ds)
  <2>1. ASSUME NEW n \in DOMAIN ds PROVE \E m \in DOMAIN calls[t] : From(calls[t][m], ds[n])
    <3>1. PICK k \in DOMAIN Rest(t) : From(Rest(t)[k], ds[n])
      BY <1>5 DEF QueueFrom
    <3>2. PICK m \in DOMAIN calls[t] : Rest(t)[k] = calls[t][m]
      BY FromRest
    <3>3. QED
      BY <3>1, <3>2
  <2>2. QED
    BY <2>1 DEF QueueFrom
<1>6. QueueFrom(calls[t], Unwaited(Rest(t))) /\ QueueFrom(calls[t], First(Rest(t)))
  BY <1>4, <1>5, FromUnwaited, FromFirst
<1>2. ASSUME NEW n \in DOMAIN Unmounted(Rest(t))
      PROVE  /\ \E m \in DOMAIN calls[t] : From(calls[t][m], Unmounted(Rest(t))[n])
             /\ ~Unmounted(Rest(t))[n].here
  <2>1. n \in DOMAIN Rest(t)
    BY FromUnmounted
  <2>2. PICK m \in DOMAIN calls[t] : Rest(t)[n] = calls[t][m] /\ Rest(t)[n] \in Calls
    BY <2>1, FromRest
  <2>3. From(calls[t][m], Unmounted(Rest(t))[n]) /\ ~Unmounted(Rest(t))[n].here
    BY <2>1, <2>2, FromUnmounted
  <2>4. QED
    BY <2>3
<1>3. QED
  BY <1>1, <1>2, <1>6 DEF QueueFrom, Gone

(* The screens that they leave. *)
LEMMA AnswerScreens ==
  ASSUME NEW t, ScreenOK(ui[t])
  PROVE  /\ Broken(t).rows = ui[t].rows /\ Broken(t).parts = ui[t].parts
         /\ Broken(t).chips = ui[t].chips /\ Broken(t).failed = "page"
         /\ Message(t).rows = ui[t].rows /\ Message(t).parts = ui[t].parts
         /\ Message(t).chips = ui[t].chips /\ Message(t).failed \in {ui[t].failed, "message"}
         /\ CloseNew(t).failed = ui[t].failed
         /\ \A e : WithDismissed(ui[t], e).failed = ui[t].failed
         /\ \A e : WithResult(ui[t], e).failed = ui[t].failed
<1>1. Broken(t) = [ui[t] EXCEPT !.failed = "page", !.dialog = "none", !.hung = {}]
  BY DEF Broken
<1>2. /\ Broken(t).rows = ui[t].rows /\ Broken(t).parts = ui[t].parts
      /\ Broken(t).chips = ui[t].chips /\ Broken(t).failed = "page"
  BY <1>1 DEF ScreenOK
<1>3. PICK f : f = IF calls[t][1].waits THEN "message" ELSE ui[t].failed
  OBVIOUS
<1>4. Message(t) = [ui[t] EXCEPT !.failed = f]
  BY <1>3 DEF Message
<1>5. /\ Message(t).rows = ui[t].rows /\ Message(t).parts = ui[t].parts
      /\ Message(t).chips = ui[t].chips /\ Message(t).failed = f
  BY <1>4 DEF ScreenOK
<1>6. CloseNew(t).failed = ui[t].failed
  <2>1. PICK d : d = (IF ui[t].dialog = "new" THEN "none" ELSE ui[t].dialog)
    OBVIOUS
  <2>2. CloseNew(t) = WithDialog(ui[t], d)
    BY <2>1 DEF CloseNew, WithDialog
  <2>3. QED
    BY <2>2, ScreenDialogKeeps
<1>7. ASSUME NEW e PROVE WithDismissed(ui[t], e).failed = ui[t].failed
  BY DEF ScreenOK, WithDismissed
<1>8. ASSUME NEW e PROVE WithResult(ui[t], e).failed = ui[t].failed
  BY DEF ScreenOK, WithResult
<1>9. QED
  BY <1>2, <1>3, <1>5, <1>6, <1>7, <1>8

(* Answers to components of other pages, or to none. *)
LEMMA PlainDInv ==
  ASSUME DInv, PInv', NEW t \in Tabs, Effect(t),
         NEW form \in {"card", "new", "none", "edit", "bundle"}, Settles(t, form),
         NEW new, NEW l, NEW rest, Continue(t, new, l, rest), QueueFrom(calls[t], rest),
         new.failed \in {ui[t].failed, "message"}
  PROVE  DInv'
<1>1. /\ DTab(t) /\ req[t] # NoRequest /\ calls[t][1].form = form /\ 1 \in DOMAIN calls[t]
  BY HasHead DEF DInv, Settles, At
<1>2. calls[t][1].here => ui[t].failed # "page"
  BY <1>1 DEF DTab, CallsOK, Gone
<1>3. calls[t][1].here => loc[t].page # "detail"
  BY <1>1, DetailCall DEF DInv
<1>4. QED
  BY <1>2, <1>3, ContinueDInv

LEMMA PlainsDInv ==
  ASSUME DInv, PInv', NEW t \in Tabs,
         Decided(t) \/ NewDone(t) \/ Ignored(t) \/ EditDone(t) \/ BundleDone(t)
  PROVE  DInv'
<1>1. PInv /\ ScreenOK(ui[t]) /\ calls[t] \in Seq(Calls)
  BY LocFacts, QueueSeq DEF DInv
<1>2. Effect(t)
  BY <1>1, SettlePInv DEF Settle
<1>3. /\ Message(t).failed \in {ui[t].failed, "message"}
      /\ CloseNew(t).failed = ui[t].failed
      /\ \A e : WithDismissed(ui[t], e).failed = ui[t].failed
      /\ \A e : WithResult(ui[t], e).failed = ui[t].failed
  BY <1>1, AnswerScreens
<1>4. \A form : Settles(t, form) => calls[t] # <<>> /\ calls[t][1].form = form
  BY <1>1, HeadFacts
<1>5. calls[t] # <<>> => /\ QueueFrom(calls[t], Rest(t)) /\ QueueFrom(calls[t], Rejected(t))
                        /\ QueueFrom(calls[t], Unwaited(Rest(t))) /\ QueueFrom(calls[t], First(Rest(t)))
                        /\ QueueFrom(calls[t], <<>>)
  BY <1>1, FromAnswer, FromRejected
<1>6. CASE Decided(t)
  <2>1. /\ Settles(t, "card")
        /\ \/ Continue(t, WithDismissed(ui[t], req[t].target), Refreshing(t), Rest(t))
           \/ Continue(t, Message(t), Nowhere, Rest(t))
    BY <1>6 DEF Decided, WithDismissed
  <2>2. QED
    BY <1>2, <1>3, <1>4, <1>5, <2>1, PlainDInv
<1>7. CASE NewDone(t)
  <2>1. /\ Settles(t, "new")
        /\ \/ Continue(t, Message(t), Nowhere, Rejected(t))
           \/ Continue(t, ui[t], Nowhere, Rest(t) \o AddTags(t))
           \/ Continue(t, CloseNew(t), Refreshing(t), Unwaited(Rest(t)))
           \/ Continue(t, ui[t], Nowhere, Rest(t))
    BY <1>7 DEF NewDone
  <2>2. QueueFrom(calls[t], Rest(t) \o AddTags(t))
    BY <1>1, <1>4, <2>1, FromAddTags
  <2>3. QED
    BY <1>2, <1>3, <1>4, <1>5, <2>1, <2>2, PlainDInv
<1>8. CASE Ignored(t)
  BY <1>2, <1>4, <1>5, <1>8, PlainDInv DEF Ignored
<1>9. CASE EditDone(t)
  <2>1. Settles(t, "edit")
    BY <1>9 DEF EditDone
  <2>2. CASE ~req[t].ok
    BY <1>2, <1>3, <1>4, <1>5, <1>9, <2>1, <2>2, PlainDInv DEF EditDone
  <2>3. CASE req[t].ok
    <3>1. PICK k \in {1, 2} :
            GoOn(t, [ui[t] EXCEPT !.hung = Hanging(t, k), !.late = @ \/ ~calls[t][1].here],
                 Place("detail", req[t].target), IF k = 1 THEN <<>> ELSE First(Rest(t)))
      BY <1>9, <2>3 DEF EditDone
    <3>2. PICK h, b : h = Hanging(t, k) /\ b = (ui[t].late \/ ~calls[t][1].here)
      OBVIOUS
    <3>3. PICK v : v = [ui[t] EXCEPT !.hung = h, !.late = b]
      OBVIOUS
    <3>4. PICK l, rest : l = Place("detail", req[t].target)
                         /\ rest = IF k = 1 THEN <<>> ELSE First(Rest(t))
      OBVIOUS
    <3>5. GoOn(t, v, l, rest)
      BY <3>1, <3>2, <3>3, <3>4
    <3>6. v.rows = ui[t].rows /\ v.parts = ui[t].parts /\ v.chips = ui[t].chips /\ v.failed = ui[t].failed
      BY <1>1, <3>3 DEF ScreenOK
    <3>7. QueueFrom(calls[t], rest)
      BY <1>4, <1>5, <2>1, <3>4
    <3>8. DTab(t) /\ req[t] # NoRequest /\ calls[t][1].form = "edit" /\ 1 \in DOMAIN calls[t]
      BY <2>1, HasHead DEF DInv, Settles, At
    <3>9. calls[t][1].here => ui[t].failed # "page" /\ loc[t].page # "detail"
      BY <3>8, DetailCall DEF DInv, DTab, CallsOK, Gone
    <3>10. QED
      BY <1>2, <2>1, <3>5, <3>6, <3>7, <3>9, GoOnDInv DEF SameShown
  <2>4. QED
    BY <2>2, <2>3
<1>10. CASE BundleDone(t)
  <2>1. /\ Settles(t, "bundle")
        /\ \/ Continue(t, WithResult(ui[t], req[t].target), Nowhere, Rest(t))
           \/ Continue(t, Message(t), Nowhere, Rest(t))
    BY <1>10 DEF BundleDone, WithResult
  <2>2. QED
    BY <1>2, <1>3, <1>4, <1>5, <2>1, PlainDInv
<1>11. QED
  BY <1>6, <1>7, <1>8, <1>9, <1>10

LEMMA ChipsChanged ==
  ASSUME NEW u, ScreenOK(u), NEW x \in Tags, NEW n \in Nat, NEW v, v = WithChips(u, x, n)
  PROVE  /\ v.rows = u.rows /\ v.parts = u.parts /\ v.failed = u.failed
         /\ v.chips[x] = n /\ \A y \in Tags \ {x} : v.chips[y] = u.chips[y]
<1>1. PICK c : c = [u.chips EXCEPT ![x] = n]
  OBVIOUS
<1>2. v = [u EXCEPT !.chips = c]
  BY <1>1 DEF WithChips
<1>3. v.rows = u.rows /\ v.parts = u.parts /\ v.failed = u.failed /\ v.chips = c
  BY <1>2 DEF ScreenOK
<1>4. u.chips \in [Tags -> Nat]
  BY DEF ScreenOK
<1>5. c[x] = n /\ \A y \in Tags \ {x} : c[y] = u.chips[y]
  BY <1>1, <1>4
<1>6. QED
  BY <1>3, <1>5

LEMMA TagsDInv ==
  ASSUME DInv, PInv', NEW t \in Tabs, TagAdded(t) \/ TagDeleted(t)
  PROVE  DInv'
<1>1. PInv /\ ScreenOK(ui[t]) /\ calls[t] \in Seq(Calls) /\ Effect(t)
  BY LocFacts, QueueSeq, TagsPInv DEF DInv
<1>2. Settles(t, "tags") /\ req[t].op \in {"addTag", "deleteTag"}
  BY DEF TagAdded, TagDeleted
<1>3. calls[t] # <<>> /\ req[t].arg \in Tags /\ calls[t][1].form = "tags"
  BY <1>1, <1>2, HeadFacts, OpsFacts
<1>4. QueueFrom(calls[t], Rest(t)) /\ QueueFrom(calls[t], Unmounted(Rest(t))) /\ Gone(Unmounted(Rest(t)))
  BY <1>1, <1>3, FromAnswer
<1>5. /\ calls[t][1].here => ui[t].failed # "page"
      /\ loc[t].page = "detail" => Refreshing(t) # Nowhere
  <2>1. 1 \in DOMAIN calls[t] /\ DTab(t)
    BY <1>1, <1>3 DEF DInv
  <2>2. Nowhere.page = "nowhere"
    BY DEF Nowhere, Place
  <2>3. QED
    BY <2>1, <2>2 DEF DTab, CallsOK, Gone, Refreshing
<1>6. CASE req[t].ok
  <2>1. PICK n \in Nat : /\ Continue(t, WithChips(ui[t], req[t].arg, n), Refreshing(t), Rest(t))
                         /\ n = IF req[t].op = "addTag" THEN ui[t].chips[req[t].arg] + 1 ELSE 0
    <3>1. CASE TagAdded(t)
      <4>1. Continue(t, WithChips(ui[t], req[t].arg, ui[t].chips[req[t].arg] + 1), Refreshing(t), Rest(t))
        BY <1>6, <3>1 DEF TagAdded, WithChips
      <4>2. ui[t].chips[req[t].arg] + 1 \in Nat
        <5>1. ui[t].chips \in [Tags -> Nat]
          BY <1>1 DEF ScreenOK
        <5>2. QED
          BY <1>3, <5>1
      <4>3. QED
        BY <3>1, <4>1, <4>2 DEF TagAdded
    <3>2. CASE TagDeleted(t)
      <4>1. Continue(t, WithChips(ui[t], req[t].arg, 0), Refreshing(t), Rest(t))
        BY <1>6, <3>2 DEF TagDeleted, WithChips
      <4>2. req[t].op = "deleteTag"
        BY <3>2 DEF TagDeleted
      <4>3. QED
        BY <4>1, <4>2
    <3>3. QED
      BY <3>1, <3>2
  <2>2. PICK v : v = WithChips(ui[t], req[t].arg, n)
    OBVIOUS
  <2>3. /\ v.rows = ui[t].rows /\ v.parts = ui[t].parts /\ v.failed = ui[t].failed
        /\ v.chips[req[t].arg] = n /\ \A y \in Tags \ {req[t].arg} : v.chips[y] = ui[t].chips[y]
    BY <1>1, <1>3, <2>2, ChipsChanged
  <2>4. loc[t].page = "detail" => Follows(t, "tags", v, Refreshing(t))
    BY <1>5, <1>6, <2>1, <2>3 DEF Follows
  <2>5. QED
    BY <1>1, <1>2, <1>4, <1>5, <2>1, <2>2, <2>3, <2>4, ContinueDInv
<1>7. CASE ~req[t].ok
  <2>1. Continue(t, Broken(t), Nowhere, Unmounted(Rest(t)))
    BY <1>7 DEF TagAdded, TagDeleted
  <2>2. Follows(t, "tags", Broken(t), Nowhere)
    BY <1>1, <1>7, AnswerScreens DEF Follows
  <2>3. QED
    BY <1>1, <1>2, <1>4, <2>1, <2>2, ContinueDInv
<1>8. QED
  BY <1>6, <1>7

(* The other answers on the details. *)
LEMMA ButtonsDInv ==
  ASSUME DInv, PInv', NEW t \in Tabs, ButtonDone(t) \/ PartAdded(t)
  PROVE  DInv'
<1>1. PInv /\ ScreenOK(ui[t]) /\ calls[t] \in Seq(Calls) /\ Effect(t)
  BY LocFacts, QueueSeq, SettlePInv DEF DInv, Settle
<1>2. PICK form \in {"header", "deactivate", "alias", "context"} :
        /\ Settles(t, form)
        /\ IF req[t].ok THEN Continue(t, ui[t], Refreshing(t), Rest(t))
           ELSE IF form \in {"header", "deactivate"}
           THEN Continue(t, Broken(t), Nowhere, Unmounted(Rest(t)))
           ELSE Continue(t, Message(t), Nowhere, Rest(t))
  BY DEF ButtonDone, PartAdded
<1>3. calls[t] # <<>>
  BY <1>1, <1>2, HeadFacts
<1>4. QueueFrom(calls[t], Rest(t)) /\ QueueFrom(calls[t], Unmounted(Rest(t))) /\ Gone(Unmounted(Rest(t)))
  BY <1>1, <1>3, FromAnswer
<1>5. /\ calls[t][1].here => ui[t].failed # "page"
      /\ loc[t].page = "detail" => Refreshing(t) # Nowhere
  <2>1. 1 \in DOMAIN calls[t] /\ DTab(t)
    BY <1>1, <1>3 DEF DInv
  <2>2. Nowhere.page = "nowhere"
    BY DEF Nowhere, Place
  <2>3. QED
    BY <2>1, <2>2 DEF DTab, CallsOK, Gone, Refreshing
<1>6. CASE req[t].ok
  <2>1. Continue(t, ui[t], Refreshing(t), Rest(t))
    BY <1>2, <1>6
  <2>2. loc[t].page = "detail" => Follows(t, form, ui[t], Refreshing(t))
    BY <1>2, <1>5, <1>6 DEF Follows
  <2>3. QED
    BY <1>1, <1>2, <1>4, <1>5, <2>1, <2>2, ContinueDInv
<1>7. CASE ~req[t].ok /\ form \in {"header", "deactivate"}
  <2>1. Continue(t, Broken(t), Nowhere, Unmounted(Rest(t)))
    BY <1>2, <1>7
  <2>2. Follows(t, form, Broken(t), Nowhere)
    BY <1>1, <1>7, AnswerScreens DEF Follows
  <2>3. QED
    BY <1>1, <1>2, <1>4, <2>1, <2>2, ContinueDInv
<1>8. CASE ~req[t].ok /\ form \in {"alias", "context"}
  <2>1. Continue(t, Message(t), Nowhere, Rest(t))
    BY <1>2, <1>8
  <2>2. Follows(t, form, Message(t), Nowhere)
    BY <1>1, <1>8, AnswerScreens DEF Follows
  <2>3. calls[t][1].here => Message(t).failed # "page"
    BY <1>1, <1>5, AnswerScreens
  <2>4. QED
    BY <1>1, <1>2, <1>4, <2>1, <2>2, <2>3, ContinueDInv
<1>9. QED
  BY <1>2, <1>6, <1>7, <1>8

LEMMA SettleDInv ==
  ASSUME DInv, PInv', NEW t \in Tabs, Settle(t)
  PROVE  DInv'
BY PlainsDInv, TagsDInv, ButtonsDInv DEF Settle

-----------------------------------------------------------------------------
(* Sending, and reading the backend. *)
LEMMA SendDInv ==
  ASSUME DInv, PInv', NEW t \in Tabs, Send(t)
  PROVE  DInv'
<1>1. /\ UNCHANGED <<entity, unsaved, loc, going, got, ui, calls, stale>>
      /\ req[t] = NoRequest /\ req' = [req EXCEPT ![t] = Request(t, calls[t][1], User(t))]
  BY DEF Send, tabVars
<1>2. /\ req'[t] = Request(t, calls[t][1], User(t))
      /\ \A u \in Tabs \ {t} : req'[u] = req[u]
  BY <1>1 DEF DInv, PInv
<1>3. req'[t].at = "sent"
  BY <1>2 DEF Request
<1>4. ~Told(t) /\ ~Told(t)'
  BY <1>1, <1>3 DEF Told, At
<1>5. DTab(t)
  BY DEF DInv
<1>6. Agrees(t) => Agrees(t)'
  BY <1>1, <1>4, Steady
<1>7. DTab(t)'
  BY <1>1, <1>3, <1>5, <1>6 DEF DTab, CallsOK, Allowed
<1>8. QED
  BY <1>1, <1>2, <1>7, StepDInv DEF DInv

(* Reading changes what has been fetched only. *)
LEMMA GotDInv ==
  ASSUME DInv, PInv', NEW t \in Tabs, NEW g, got' = [got EXCEPT ![t] = g],
         UNCHANGED <<serverVars, tour, loc, going, ui, calls, stale>>,
         LET e == going[t].of IN
           /\ going[t].page = "detail" /\ g.rows # NoEntity =>
                g.rows[e] = Columns(e) \/ g.rows = got[t].rows
           /\ going[t].page = "detail" /\ g.parts # NoEntity =>
                g.parts[e] = entity[e].parts \/ g.parts = got[t].parts
  PROVE  DInv'
<1>1. /\ got'[t] = g /\ UNCHANGED <<entity, unsaved, req>>
      /\ \A u \in Tabs \ {t} : got'[u] = got[u]
  BY DEF DInv, PInv, serverVars
<1>2. \A q : Awaited(t, q)' <=> Awaited(t, q)
  BY <1>1 DEF Awaited, At
<1>3. \A e : Columns(e)' = Columns(e)
  BY <1>1, ColumnsSame
<1>4. ASSUME Agrees(t) PROVE Agrees(t)'
  <2>1. Told(t)' <=> Told(t)
    BY <1>1 DEF Told, At, Staying
  <2>2. Coming(t)' <=> Coming(t)
    BY <1>1, <2>1 DEF Coming
  <2>3. RefusedIdle(t)'
    BY <1>1, <1>2, <1>4, <2>1 DEF Agrees, RefusedIdle, Changeless
  <2>4. FetchAgrees(t)'
    BY <1>1, <1>3, <1>4, <2>2 DEF Agrees, FetchAgrees
  <2>5. ScreenAgrees(t)'
    BY <1>1, <1>3, <1>4, <2>2 DEF Agrees, ScreenAgrees, OnDetail
  <2>6. ChipsAgree(t)'
    <3>1. TagTold(t)' <=> TagTold(t)
      BY <1>1, <2>2 DEF TagTold
    <3>2. Breaking(t)' <=> Breaking(t)
      BY <1>1, <2>1 DEF Breaking
    <3>3. InFlight(t)' <=> InFlight(t)
      BY <1>1, <1>2 DEF InFlight
    <3>4. \A x : ChipIs(t, x)' <=> ChipIs(t, x)
      BY <1>1 DEF ChipIs
    <3>5. ChipToChange(t)' <=> ChipToChange(t)
      BY <1>1, <1>2, <3>1, <3>4 DEF ChipToChange
    <3>6. QED
      BY <1>1, <1>4, <3>1, <3>2, <3>3, <3>4, <3>5 DEF Agrees, ChipsAgree, OnDetail, Staying
  <2>7. QED
    BY <2>3, <2>4, <2>5, <2>6 DEF Agrees
<1>5. DTab(t)'
  BY <1>1, <1>4 DEF DInv, DTab, CallsOK, Allowed
<1>6. QED
  BY <1>1, <1>5, StepDInv DEF DInv

LEMMA FetchedKeeps ==
  ASSUME NEW g, FetchOK(g), NEW rows, NEW total, NEW parts
  PROVE  /\ WithRows(g, rows, total).rows = rows /\ WithRows(g, rows, total).parts = g.parts
         /\ WithParts(g, parts).rows = g.rows /\ WithParts(g, parts).parts = parts
<1>1. PICK r, p, n : g = [rows |-> r, parts |-> p, total |-> n]
  BY DEF FetchOK
<1>2. WithRows(g, rows, total) = [rows |-> rows, parts |-> p, total |-> total]
  <2>1. WithRows(g, rows, total)
          = [[rows |-> r, parts |-> p, total |-> n] EXCEPT !.rows = rows, !.total = total]
    BY <1>1, Zenon DEF WithRows
  <2>2. QED
    BY <2>1
<1>3. WithParts(g, parts) = [rows |-> r, parts |-> parts, total |-> n]
  <2>1. WithParts(g, parts) = [[rows |-> r, parts |-> p, total |-> n] EXCEPT !.parts = parts]
    BY <1>1, Zenon DEF WithParts
  <2>2. QED
    BY <2>1
<1>4. QED
  BY <1>1, <1>2, <1>3

LEMMA FetchDInv ==
  ASSUME DInv, PInv', NEW t \in Tabs, FetchRows(t) \/ FetchParts(t)
  PROVE  DInv'
<1>1. FetchOK(got[t]) /\ going[t] \in Locations
  BY DEF DInv, PInv, TabOK
<1>2. CASE FetchRows(t)
  <2>1. PICK rows : rows = IF going[t].page = "bundle" THEN <<>>
                           ELSE [e \in Listed(going[t]) |-> Columns(e)]
    OBVIOUS
  <2>2. PICK g : g = WithRows(got[t], rows, Cardinality(Matching(going[t])))
    OBVIOUS
  <2>3. got' = [got EXCEPT ![t] = g]
    BY <1>2, <2>1, <2>2 DEF FetchRows, WithRows
  <2>4. g.rows = rows /\ g.parts = got[t].parts
    BY <1>1, <2>2, FetchedKeeps
  <2>5. going[t].page = "detail" => rows[going[t].of] = Columns(going[t].of)
    <3>1. going[t].page = "detail" => going[t].of \in Listed(going[t])
      BY <1>1 DEF Locations, Listed
    <3>2. QED
      BY <2>1, <3>1
  <2>6. UNCHANGED <<serverVars, tour, loc, going, ui, calls, stale>>
    BY <1>2 DEF FetchRows
  <2>7. QED
    BY <2>3, <2>4, <2>5, <2>6, GotDInv
<1>3. CASE FetchParts(t)
  <2>1. PICK parts : parts =
          [e \in IF going[t].page = "review" THEN DOMAIN got[t].rows ELSE {going[t].of} |->
             entity[e].parts]
    OBVIOUS
  <2>2. PICK g : g = WithParts(got[t], parts)
    OBVIOUS
  <2>3. got' = [got EXCEPT ![t] = g]
    BY <1>3, <2>1, <2>2 DEF FetchParts, WithParts
  <2>4. g.rows = got[t].rows /\ g.parts = parts
    BY <1>1, <2>2, FetchedKeeps
  <2>5. going[t].page = "detail" => parts[going[t].of] = entity[going[t].of].parts
    BY <2>1
  <2>6. UNCHANGED <<serverVars, tour, loc, going, ui, calls, stale>>
    BY <1>3 DEF FetchParts
  <2>7. QED
    BY <2>3, <2>4, <2>5, <2>6, GotDInv
<1>4. QED
  BY <1>2, <1>3

(* The page arrives: the same page with new props, or another one. *)
LEMMA ReloadDInv ==
  ASSUME DInv, PInv', NEW t \in Tabs, Arrive(t),
         going[t].page = loc[t].page, going[t].of = loc[t].of, ui[t].failed # "page"
  PROVE  DInv'
<1>1. PICK v : v = [ui[t] EXCEPT !.rows = got[t].rows, !.parts = got[t].parts, !.total = got[t].total]
  OBVIOUS
<1>2. /\ loc' = [loc EXCEPT ![t] = going[t]] /\ going' = [going EXCEPT ![t] = Nowhere]
      /\ got' = [got EXCEPT ![t] = Nothing] /\ ui' = [ui EXCEPT ![t] = v]
      /\ UNCHANGED <<entity, unsaved, req, calls, stale>>
      /\ going[t] # Nowhere /\ Fetched(t)
  BY <1>1 DEF Arrive, serverVars
<1>3. /\ loc'[t] = going[t] /\ going'[t] = Nowhere /\ got'[t] = Nothing /\ ui'[t] = v
      /\ \A u \in Tabs \ {t} :
           UNCHANGED <<req[u], loc[u], going[u], got[u], ui[u], calls[u], stale[u]>>
  BY <1>2 DEF DInv, PInv
<1>4. v.rows = got[t].rows /\ v.parts = got[t].parts /\ v.chips = ui[t].chips /\ v.failed = ui[t].failed
  <2>1. ScreenOK(ui[t])
    BY LocFacts DEF DInv
  <2>2. QED
    BY <1>1, <2>1 DEF ScreenOK
<1>5. DTab(t)
  BY DEF DInv
<1>6. CallsOK(t)'
  <2>1. QueueFrom(calls[t], calls'[t])
    BY <1>2, QueueSame
  <2>2. QED
    BY <1>3, <1>4, <1>5, <2>1, CallsStep DEF DTab, DInv
<1>7. ASSUME Agrees(t) PROVE Agrees(t)'
  <2>1. CASE loc[t].page # "detail"
    BY <1>3, <2>1 DEF RefusedIdle, FetchAgrees, ScreenAgrees, ChipsAgree, OnDetail, Agrees, Nowhere, Place
  <2>2. CASE loc[t].page = "detail"
    <3>1. going[t] = loc[t]
      <4>1. going[t] = Place(going[t].page, going[t].of) /\ loc[t] = Place(loc[t].page, loc[t].of)
        BY <2>2 DEF DInv, PInv, Locations
      <4>2. QED
        BY <4>1
    <3>2. Staying(t) /\ Staying(t)' /\ (Told(t)' <=> Told(t)) /\ loc'[t] = loc[t]
      BY <1>2, <1>3, <3>1 DEF Told, At, Staying
    <3>3. \A q : Awaited(t, q)' <=> Awaited(t, q)
      BY <1>2, <3>2, AwaitedIs
    <3>4. Coming(t)' <=> Coming(t)
      BY <1>2, <3>2 DEF Coming
    <3>5. RefusedIdle(t)'
      BY <1>2, <1>7, <3>2, <3>3 DEF Agrees, RefusedIdle, Changeless
    <3>6. FetchAgrees(t)'
      BY <1>3 DEF FetchAgrees, Nothing
    <3>7. ScreenAgrees(t)'
      <4>1. got[t].rows # NoEntity /\ got[t].parts # NoEntity
        BY <1>2, <2>2 DEF Fetched, HasParts
      <4>2. \/ Coming(t)
            \/ /\ got[t].rows[loc[t].of] = Columns(loc[t].of)
               /\ got[t].parts[loc[t].of] = entity[loc[t].of].parts
        BY <1>7, <2>2, <3>1, <4>1 DEF Agrees, FetchAgrees
      <4>3. Columns(loc[t].of)' = Columns(loc[t].of)
        BY <1>2, <3>2 DEF Columns
      <4>4. QED
        BY <1>2, <1>3, <1>4, <3>2, <3>4, <4>2, <4>3 DEF ScreenAgrees
    <3>8. ChipsAgree(t)'
      <4>1. TagTold(t)' <=> TagTold(t)
        BY <1>2, <3>4 DEF TagTold
      <4>2. Breaking(t)' <=> Breaking(t)
        BY <1>2, <3>2 DEF Breaking
      <4>3. InFlight(t)' <=> InFlight(t)
        BY <1>2, <3>2, <3>3 DEF InFlight
      <4>4. \A x : ChipIs(t, x)' <=> ChipIs(t, x)
        BY <1>2, <1>3, <1>4, <3>2 DEF ChipIs
      <4>5. ChipToChange(t)' <=> ChipToChange(t)
        BY <1>2, <1>3, <1>4, <3>2, <3>3, <4>1, <4>4 DEF ChipToChange
      <4>6. QED
        BY <1>3, <1>4, <1>7, <3>2, <4>1, <4>2, <4>3, <4>4, <4>5 DEF Agrees, ChipsAgree, OnDetail
    <3>9. QED
      BY <3>5, <3>6, <3>7, <3>8 DEF Agrees
  <2>3. QED
    BY <2>1, <2>2
<1>8. DTab(t)'
  BY <1>2, <1>5, <1>6, <1>7 DEF DTab, Allowed
<1>9. QED
  BY <1>2, <1>3, <1>8, StepDInv DEF DInv

LEMMA OpenDInv ==
  ASSUME DInv, PInv', NEW t \in Tabs, Arrive(t),
         ~(going[t].page = loc[t].page /\ going[t].of = loc[t].of /\ ui[t].failed # "page")
  PROVE  DInv'
<1>1. PICK l : l = going[t]
  OBVIOUS
<1>2. PICK v : v = Opened(got[t], l)
  OBVIOUS
<1>3. PICK cs : cs = Unmounted(calls[t]) \o FirstCalls(l)
  OBVIOUS
<1>4. /\ loc' = [loc EXCEPT ![t] = l] /\ going' = [going EXCEPT ![t] = Nowhere]
      /\ got' = [got EXCEPT ![t] = Nothing] /\ ui' = [ui EXCEPT ![t] = v]
      /\ calls' = [calls EXCEPT ![t] = cs]
      /\ UNCHANGED <<entity, unsaved, req, stale>>
      /\ l # Nowhere /\ Fetched(t)
  BY <1>1, <1>2, <1>3 DEF Arrive, serverVars
<1>5. /\ loc'[t] = l /\ going'[t] = Nowhere /\ got'[t] = Nothing /\ ui'[t] = v /\ calls'[t] = cs
      /\ l \in Locations
      /\ \A u \in Tabs \ {t} :
           UNCHANGED <<req[u], loc[u], going[u], got[u], ui[u], calls[u], stale[u]>>
  BY <1>1, <1>4 DEF DInv, PInv
<1>6. v.rows = got[t].rows /\ v.parts = got[t].parts /\ v.failed = "no"
      /\ v.chips = [x \in Tags |-> IF l.page = "detail" /\ x \in got[t].rows[l.of].tags THEN 1 ELSE 0]
  BY <1>2 DEF Opened
<1>7. DTab(t) /\ calls[t] \in Seq(Calls) /\ QueueOK(t, calls[t], loc[t].page, taken)
  BY LocFacts, QueueSeq DEF DInv
<1>8. PICK us : us = Unmounted(calls[t])
  OBVIOUS
<1>9. /\ us \in Seq(Calls) /\ DOMAIN us = DOMAIN calls[t]
      /\ \A n \in DOMAIN us : From(calls[t][n], us[n]) /\ ~us[n].here
  <2>1. QueueOK(t, Unmounted(calls[t]), l.page, taken)
    BY <1>7, UnmountedOK
  <2>2. us \in Seq(Calls)
    BY <1>8, <2>1 DEF QueueOK
  <2>3. DOMAIN us = DOMAIN calls[t] /\ \A n \in DOMAIN calls[t] : calls[t][n] \in Calls
    BY <1>7, <1>8, FromUnmounted
  <2>4. QED
    BY <1>8, <2>2, <2>3, FromUnmounted
<1>10. \/ FirstCalls(l) = <<>>
       \/ /\ l.page = "bundle"
          /\ FirstCalls(l) = <<Action("bundle", "bundle", l.of, NoEntity, {})>>
  BY DEF FirstCalls
<1>11. \A n \in DOMAIN cs : \/ n \in DOMAIN us /\ cs[n] = us[n]
                            \/ l.page = "bundle" /\ cs[n].form = "bundle"
  <2>1. CASE FirstCalls(l) = <<>>
    <3>1. cs = us
      BY <1>3, <1>8, <1>9, <2>1
    <3>2. QED
      BY <3>1
  <2>2. CASE l.page = "bundle" /\ FirstCalls(l) = <<Action("bundle", "bundle", l.of, NoEntity, {})>>
    <3>1. PICK c : c = Action("bundle", "bundle", l.of, NoEntity, {})
      OBVIOUS
    <3>2. c.form = "bundle" /\ cs = us \o <<c>>
      BY <1>3, <1>8, <2>2, <3>1 DEF Action
    <3>3. \A n \in DOMAIN cs : (n \in DOMAIN us /\ cs[n] = us[n]) \/ cs[n] = c
      BY <1>9, <3>2
    <3>4. QED
      BY <2>2, <3>2, <3>3
  <2>3. QED
    BY <1>10, <2>1, <2>2
<1>12. CallsOK(t)'
  <2>1. Shaped(us)
    <3>1. QueueFrom(calls[t], us)
      BY <1>9 DEF QueueFrom
    <3>2. QED
      BY <1>7, <3>1, QueueSeq, QueueFromOK DEF DTab, CallsOK, DInv
  <2>2. Shaped(cs)
    BY <1>11, <2>1 DEF Shaped
  <2>3. OfPage(cs, l)
    BY <1>9, <1>11 DEF OfPage
  <2>4. QED
    BY <1>5, <1>6, <2>2, <2>3 DEF CallsOK
<1>13. req[t] # NoRequest => 1 \in DOMAIN calls[t] /\ 1 \in DOMAIN cs /\ cs[1] = us[1]
  <2> SUFFICES ASSUME req[t] # NoRequest
               PROVE  1 \in DOMAIN calls[t] /\ 1 \in DOMAIN cs /\ cs[1] = us[1]
    OBVIOUS
  <2>1. 1 \in DOMAIN calls[t]
    BY HasHead DEF DInv
  <2>2. 1 \in DOMAIN us /\ us # <<>>
    BY <1>9, <2>1
  <2>3. FirstCalls(l) = <<>> \/ \E c : FirstCalls(l) = <<c>>
    BY <1>10
  <2>4. 1 \in DOMAIN cs /\ cs[1] = us[1]
    <3>1. us \in Seq(Calls) /\ 1 \in DOMAIN us /\ cs = us \o FirstCalls(l)
      BY <1>3, <1>8, <1>9, <2>2
    <3>2. CASE FirstCalls(l) = <<>>
      <4>1. cs = us
        BY <3>1, <3>2
      <4>2. QED
        BY <3>1, <4>1
    <3>3. ASSUME NEW c, FirstCalls(l) = <<c>> PROVE 1 \in DOMAIN cs /\ cs[1] = us[1]
      <4>1. cs = us \o <<c>>
        BY <3>1, <3>3
      <4>2. QED
        BY <3>1, <4>1
    <3>4. QED
      BY <2>3, <3>2, <3>3
  <2>5. QED
    BY <2>1, <2>4
<1>14. ~Told(t)' /\ ~Coming(t)' /\ ~TagTold(t)'
  <2>1. ~Told(t)'
    BY <1>4, <1>5, <1>9, <1>13 DEF Told, At
  <2>2. QED
    BY <2>1 DEF Coming, TagTold
<1>15. ~Coming(t)
  <2> SUFFICES ASSUME Coming(t) PROVE FALSE
    OBVIOUS
  <2>1. req[t] # NoRequest /\ calls[t][1].here /\ Staying(t)
    BY DEF Coming, Told, At
  <2>2. ui[t].failed = "page"
    BY <1>1, <1>4, <2>1 DEF Staying
  <2>3. QED
    BY <1>7, <1>13, <2>1, <2>2 DEF DTab, CallsOK, Gone
<1>16. ASSUME Agrees(t) PROVE Agrees(t)'
  <2>1. RefusedIdle(t)' /\ FetchAgrees(t)'
    BY <1>5, <1>14 DEF RefusedIdle, FetchAgrees, Nowhere, Place
  <2>2. l.page = "detail" =>
          /\ got[t].rows[l.of] = Columns(l.of)
          /\ got[t].parts[l.of] = entity[l.of].parts
    <3>1. l.page = "detail" => got[t].rows # NoEntity /\ got[t].parts # NoEntity
      BY <1>1, <1>4 DEF Fetched, HasParts
    <3>2. QED
      BY <1>1, <1>15, <1>16, <3>1 DEF Agrees, FetchAgrees
  <2>3. ScreenAgrees(t)'
    <3>1. Columns(l.of)' = Columns(l.of)
      BY <1>4, <1>5, ColumnsSame
    <3>2. Columns(loc[t].of)' = Columns(l.of)'
      BY <1>5 DEF Columns
    <3>3. QED
      BY <1>4, <1>5, <1>6, <2>2, <3>1, <3>2 DEF ScreenAgrees, OnDetail
  <2>4. ChipsAgree(t)'
    <3>1. Columns(l.of).tags = entity[l.of].tags
      BY DEF Columns
    <3>2. ASSUME l.page = "detail", NEW x \in Tags PROVE ChipIs(t, x)'
      BY <1>4, <1>5, <1>6, <2>2, <3>1, <3>2 DEF ChipIs
    <3>3. QED
      BY <1>5, <1>14, <3>2 DEF ChipsAgree, OnDetail
  <2>5. QED
    BY <2>1, <2>3, <2>4 DEF Agrees
<1>17. DTab(t)'
  BY <1>4, <1>7, <1>12, <1>16 DEF DTab, Allowed
<1>18. QED
  BY <1>4, <1>5, <1>17, StepDInv DEF DInv

-----------------------------------------------------------------------------
(* The backend loads, refuses and answers. *)
LEMMA LoadDInv ==
  ASSUME DInv, PInv', NEW t \in Tabs, Load(t), UNCHANGED tabVars
  PROVE  DInv'
<1>1. req[t] # NoRequest /\ req[t] \in Requests /\ req[t].at = "sent" /\ Accepted(req[t])
  BY DEF DInv, PInv, Load, At
<1>2. PICK seen \in EntityRow \cup {NoEntity} :
        seen = IF req[t].op = "update" THEN entity[req[t].target] ELSE NoEntity
  BY <1>1 DEF DInv, PInv, Requests
<1>3. PICK q : q = Loaded(req[t], seen)
  OBVIOUS
<1>4. /\ req' = [req EXCEPT ![t] = q]
      /\ UNCHANGED <<entity, unsaved, loc, going, got, ui, calls, stale>>
  BY <1>2, <1>3 DEF Load, Loaded, tabVars
<1>5. req'[t] = q /\ \A u \in Tabs \ {t} : req'[u] = req[u]
  BY <1>4 DEF DInv, PInv
<1>6. q.at = "loaded" /\ q.op = req[t].op /\ q.target = req[t].target /\ q.by = req[t].by
  BY <1>1, <1>3 DEF Loaded, Requests
<1>7. ~Told(t) /\ ~Told(t)'
  BY <1>1, <1>5, <1>6 DEF Told, At
<1>8. DTab(t)
  BY DEF DInv
<1>9. Agrees(t) => Agrees(t)'
  BY <1>4, <1>7, Steady
<1>10. Allowed(q)
  BY <1>1, <1>6 DEF Allowed, Accepted
<1>11. DTab(t)'
  BY <1>4, <1>5, <1>8, <1>9, <1>10 DEF DTab, CallsOK, Allowed
<1>12. QED
  BY <1>4, <1>5, <1>11, StepDInv DEF DInv
LEMMA ArriveDInv ==
  ASSUME DInv, PInv', NEW t \in Tabs, Arrive(t)
  PROVE  DInv'
BY ReloadDInv, OpenDInv

(* A tab of another page that is about to go on has no details to agree.    *)
LEMMA Elsewhere ==
  ASSUME NEW t, Staying(t), loc[t].page # "detail"
  PROVE  Agrees(t)
BY DEF Staying, Agrees, RefusedIdle, FetchAgrees, ScreenAgrees, ChipsAgree, OnDetail, Nowhere, Place

(* A transaction more that nobody awaits here. *)
LEMMA SteadyMore ==
  ASSUME NEW t, Agrees(t), UNCHANGED <<entity, loc, going, got, ui, calls>>,
         unsaved \subseteq unsaved', \A q \in unsaved' : q \in unsaved \/ ~Awaited(t, q)',
         Told(t)' <=> Told(t), Told(t) => req'[t] = req[t]
  PROVE  Agrees(t)'
<1>1. \A q : Awaited(t, q)' <=> Awaited(t, q)
  BY AwaitedIs
<1>2. /\ Coming(t)' <=> Coming(t)
      /\ Breaking(t)' <=> Breaking(t)
      /\ TagTold(t)' <=> TagTold(t)
  BY DEF Coming, Breaking, TagTold
<1>3. RefusedIdle(t)'
  BY <1>1 DEF Agrees, RefusedIdle, Changeless
<1>4. FetchAgrees(t)'
  BY <1>2 DEF Agrees, FetchAgrees, Columns
<1>5. ScreenAgrees(t)'
  BY <1>2 DEF Agrees, ScreenAgrees, Columns, OnDetail
<1>6. ChipsAgree(t)'
  <2>1. InFlight(t) => InFlight(t)'
    BY <1>1 DEF InFlight
  <2>2. \A x : ChipIs(t, x)' <=> ChipIs(t, x)
    BY DEF ChipIs
  <2>3. ChipToChange(t) => ChipToChange(t)'
    <3>1. TagTold(t) => req'[t] = req[t]
      BY DEF TagTold, Coming
    <3>2. QED
      BY <1>1, <1>2, <2>2, <3>1 DEF ChipToChange
  <2>4. QED
    BY <1>2, <2>1, <2>2, <2>3 DEF Agrees, ChipsAgree, OnDetail, Staying
<1>7. QED
  BY <1>3, <1>4, <1>5, <1>6 DEF Agrees

(* The answer to a request. *)
LEMMA AnswerIs ==
  ASSUME DInv, NEW t \in Tabs, req[t] # NoRequest, NEW ok \in BOOLEAN, Answer(t, ok)
  PROVE  \E w \in Requests :
           /\ req' = [req EXCEPT ![t] = w] /\ req'[t] = w /\ w # NoRequest
           /\ \A u \in Tabs \ {t} : req'[u] = req[u]
           /\ w.at = "done" /\ w.ok = ok /\ SameAsk(w, req[t])
           /\ w.op = req[t].op /\ w.target = req[t].target /\ w.arg = req[t].arg
           /\ \A q \in Requests : SameAsk(w, q) =>
                /\ q.tab = req[t].tab /\ q.op = req[t].op /\ q.by = req[t].by
                /\ q.target = req[t].target /\ q.arg = req[t].arg
           /\ \A q \in Requests : SameAsk(w, q) /\ q.at = req[t].at /\ q.ok = req[t].ok => q = req[t]
<1>1. PICK r \in Requests : r = req[t]
  BY DEF DInv, PInv
<1>2. PICK w : w = Answered(r, ok)
  OBVIOUS
<1>3. req' = [req EXCEPT ![t] = w]
  BY <1>1, <1>2 DEF Answer, Answered
<1>4. req'[t] = w /\ \A u \in Tabs \ {t} : req'[u] = req[u]
  BY <1>3 DEF DInv, PInv
<1>5. /\ w \in Requests /\ w.at = "done" /\ w.ok = ok
      /\ w.op = r.op /\ w.target = r.target /\ w.arg = r.arg
  BY <1>2, RequestChanges
<1>6. /\ SameAsk(w, r)
      /\ \A q \in Requests : SameAsk(w, q) /\ q.at = r.at /\ q.ok = r.ok => q = r
  BY <1>2, AnsweredSame
<1>7. ASSUME NEW q \in Requests, SameAsk(w, q)
      PROVE  /\ q.tab = r.tab /\ q.op = r.op /\ q.by = r.by /\ q.target = r.target /\ q.arg = r.arg
  <2>1. /\ q.tab = w.tab /\ q.op = w.op /\ q.by = w.by /\ q.target = w.target /\ q.arg = w.arg
    BY <1>5, <1>7, SameAskFacts
  <2>2. /\ r.tab = w.tab /\ r.op = w.op /\ r.by = w.by /\ r.target = w.target /\ r.arg = w.arg
    BY <1>5, <1>6, SameAskFacts
  <2>3. QED
    BY <2>1, <2>2
<1>8. w # NoRequest
  BY <1>5, RoutesAssumption
<1>9. QED
  BY <1>1, <1>3, <1>4, <1>5, <1>6, <1>7, <1>8

(* A tab that is answered had nothing on its way but commits. *)
LEMMA BeforeAnswer ==
  ASSUME NEW t, Agrees(t), ~Told(t)
  PROVE  /\ going[t].page = "detail" =>
              LET e == going[t].of IN
              /\ got[t].rows # NoEntity => got[t].rows[e] = Columns(e)
              /\ got[t].parts # NoEntity => got[t].parts[e] = entity[e].parts
         /\ OnDetail(t) /\ going[t] = Nowhere =>
              LET e == loc[t].of IN
              ui[t].rows[e] = Columns(e) /\ ui[t].parts[e] = entity[e].parts
         /\ OnDetail(t) /\ Staying(t) => InFlight(t) \/ \A x \in Tags : ChipIs(t, x)
BY DEF Agrees, FetchAgrees, ScreenAgrees, ChipsAgree, Coming, Breaking, TagTold, ChipToChange

(* A transaction that sets what is already set. *)
LEMMA IdleChange ==
  ASSUME PInv, NEW q \in unsaved,
         \/ q.op = "addTag" /\ q.arg \in entity[q.target].tags
         \/ q.op = "deleteTag" /\ q.arg \notin entity[q.target].tags
         \/ q.op = "deactivate" /\ q.arg \notin entity[q.target].parts
  PROVE  Changeless(q)
<1>1. q \in Requests /\ UnsavedOK(q) /\ q.target \in Entities
  BY UnsavedFacts DEF PInv
<1>2. PICK now \in EntityRow : now = entity[q.target]
  BY <1>1 DEF PInv, UnsavedOK
<1>3. now.tags \subseteq Tags /\ now.parts \subseteq Parts
  BY DEF EntityRow
<1>4. CASE q.op = "addTag" /\ q.arg \in now.tags
  <2>1. After(q, now) = [now EXCEPT !.tags = now.tags \cup {q.arg}]
    BY <1>4 DEF After
  <2>2. now.tags \cup {q.arg} = now.tags
    BY <1>4
  <2>3. After(q, now) = [now EXCEPT !.tags = now.tags]
    BY <2>1, <2>2
  <2>4. QED
    BY <1>2, <2>3 DEF Changeless, EntityRow
<1>5. CASE q.op = "deleteTag" /\ q.arg \notin now.tags
  <2>1. After(q, now) = [now EXCEPT !.tags = now.tags \ {q.arg}]
    BY <1>5 DEF After
  <2>2. now.tags \ {q.arg} = now.tags
    BY <1>5
  <2>3. After(q, now) = [now EXCEPT !.tags = now.tags]
    BY <2>1, <2>2
  <2>4. QED
    BY <1>2, <2>3 DEF Changeless, EntityRow
<1>6. CASE q.op = "deactivate" /\ q.arg \notin now.parts
  <2>1. After(q, now) = [now EXCEPT !.parts = now.parts \ {q.arg}, !.gone = now.gone \cup {q.arg}]
    BY <1>6 DEF After
  <2>2. now.parts \ {q.arg} = now.parts
    BY <1>6
  <2>3. PICK g : g = now.gone \cup {q.arg}
    OBVIOUS
  <2>4. After(q, now) = [now EXCEPT !.parts = now.parts, !.gone = g]
    BY <2>1, <2>2, <2>3
  <2>5. QED
    BY <1>2, <2>4 DEF Changeless, EntityRow
<1>7. QED
  BY <1>2, <1>4, <1>5, <1>6
(* A refusal: what was asked is so already, or was not to be asked. *)
LEMMA RefusedDInv ==
  ASSUME DInv, PInv', NEW t \in Tabs, req[t] # NoRequest, req[t].at # "done",
         Answer(t, FALSE), UNCHANGED <<entity, unsaved, tabVars>>,
         calls[t][1].here /\ loc[t].page = "detail" =>
           \A q \in unsaved :
             q.op = req[t].op /\ q.by = req[t].by /\ q.target = req[t].target /\ q.arg = req[t].arg =>
               q.op # "addPart" /\ Changeless(q)
  PROVE  DInv'
<1>1. PICK w \in Requests :
           /\ req' = [req EXCEPT ![t] = w] /\ req'[t] = w /\ w # NoRequest
           /\ \A u \in Tabs \ {t} : req'[u] = req[u]
           /\ w.at = "done" /\ ~w.ok /\ SameAsk(w, req[t])
           /\ w.op = req[t].op /\ w.target = req[t].target /\ w.arg = req[t].arg
           /\ \A q \in Requests : SameAsk(w, q) =>
                /\ q.tab = req[t].tab /\ q.op = req[t].op /\ q.by = req[t].by
                /\ q.target = req[t].target /\ q.arg = req[t].arg
  BY AnswerIs
<1>2. UNCHANGED <<loc, going, got, ui, calls, stale>> /\ DTab(t) /\ ~Told(t) /\ unsaved \subseteq Requests
  BY DEF tabVars, DInv, PInv, Told, At
<1>3. ASSUME Agrees(t) PROVE Agrees(t)'
  <2>1. CASE ~Told(t)'
    BY <1>2, <1>3, <2>1, SteadyMore
  <2>2. CASE Told(t)' /\ loc[t].page # "detail"
    <3>1. Staying(t)' /\ loc'[t].page # "detail"
      BY <1>2, <2>2 DEF Told
    <3>2. QED
      BY <3>1, Elsewhere DEF Staying, Agrees, RefusedIdle, FetchAgrees, ScreenAgrees,
                             ChipsAgree, OnDetail, Nowhere, Place
  <2>3. CASE Told(t)' /\ loc[t].page = "detail"
    <3>1. calls[t][1].here /\ Staying(t)
      BY <1>2, <2>3 DEF Told, Staying
    <3>2. ASSUME NEW q \in unsaved, Awaited(t, q)' PROVE q.op = req[t].op /\ q.op # "addPart" /\ Changeless(q)
      <4>1. SameAsk(w, q) /\ q \in Requests
        BY <1>1, <1>2, <3>2, AwaitedIs
      <4>2. QED
        BY <1>1, <2>3, <3>1, <4>1
    <3>3. RefusedIdle(t)'
      BY <1>2, <3>2 DEF RefusedIdle, Changeless
    <3>4. FetchAgrees(t)' /\ ScreenAgrees(t)'
      BY <1>2, <1>3, BeforeAnswer DEF FetchAgrees, ScreenAgrees, OnDetail, Columns
    <3>5. ChipsAgree(t)'
      <4>1. /\ calls[t][1].form \in {"header", "tags", "deactivate", "alias", "context"}
            /\ calls[t][1].form \in {"alias", "context"} => req[t].op = "addPart"
        BY <1>2, <2>3, <3>1, DetailCall DEF DInv
      <4>2. CASE calls[t][1].form \in {"header", "tags", "deactivate"}
        <5>1. Breaking(t)'
          BY <1>1, <1>2, <2>3, <4>2 DEF Breaking
        <5>2. QED
          BY <5>1 DEF ChipsAgree
      <4>3. CASE req[t].op = "addPart"
        <5>1. \A q \in unsaved : ~Awaited(t, q)'
          BY <3>2, <4>3
        <5>2. InFlight(t) => InFlight(t)'
          BY <1>2, <5>1 DEF InFlight
        <5>3. ~TagTold(t)'
          BY <1>1 DEF TagTold, Coming
        <5>4. (\A x \in Tags : ChipIs(t, x)) => (\A x \in Tags : ChipIs(t, x)')
          BY <1>2 DEF ChipIs
        <5>5. OnDetail(t) /\ Staying(t) => InFlight(t) \/ \A x \in Tags : ChipIs(t, x)
          BY <1>2, <1>3, BeforeAnswer
        <5>6. QED
          BY <1>2, <5>2, <5>3, <5>4, <5>5 DEF ChipsAgree, OnDetail, Staying
      <4>4. QED
        BY <4>1, <4>2, <4>3
    <3>6. QED
      BY <3>3, <3>4, <3>5 DEF Agrees
  <2>4. QED
    BY <2>1, <2>2, <2>3
<1>4. DTab(t)'
  BY <1>1, <1>2, <1>3 DEF DTab, CallsOK, Allowed
<1>5. QED
  BY <1>1, <1>2, <1>4, StepDInv DEF DInv

LEMMA RefuseDInv ==
  ASSUME DInv, PInv', NEW t \in Tabs, Refuse(t), UNCHANGED tabVars
  PROVE  DInv'
<1>1. req[t] # NoRequest /\ req[t].at = "sent" /\ ~Accepted(req[t]) /\ Answer(t, FALSE)
      /\ UNCHANGED <<entity, unsaved, tabVars>> /\ req[t] \in Requests
  BY DEF Refuse, At, DInv, PInv
<1>2. ASSUME calls[t][1].here, loc[t].page = "detail", NEW q \in unsaved,
             q.op = req[t].op, q.by = req[t].by, q.target = req[t].target, q.arg = req[t].arg
      PROVE  q.op # "addPart" /\ Changeless(q)
  <2>1. PICK r : r = req[t]
    OBVIOUS
  <2>2. r.op \in {"update", "addTag", "deleteTag", "addPart", "deactivate"}
    <3>1. DTab(t)
      BY DEF DInv
    <3>2. QED
      BY <1>1, <1>2, <2>1, <3>1, DetailCall DEF DInv
  <2>3. IsEntity(r.target) /\ MayMutate(r.by, r.target)
    <3>1. q \in Requests /\ UnsavedOK(q) /\ Allowed(q) /\ q.target \in Entities
      BY UnsavedFacts DEF DInv, PInv
    <3>2. q.target # NoEntity
      BY <3>1, RoutesAssumption
    <3>3. QED
      BY <1>2, <2>1, <2>2, <3>1, <3>2 DEF IsEntity, UnsavedOK, Allowed
  <2>4. \/ r.op = "addTag" /\ r.arg \in entity[r.target].tags
        \/ r.op = "deleteTag" /\ r.arg \notin entity[r.target].tags
        \/ r.op = "deactivate" /\ r.arg \notin entity[r.target].parts
    BY <1>1, <2>1, <2>2, <2>3 DEF Accepted
  <2>5. QED
    BY <1>2, <2>1, <2>4, IdleChange DEF DInv
<1>3. QED
  BY <1>1, <1>2, RefusedDInv

(* An answer or a commit that is lost. *)
LEMMA LostDInv ==
  ASSUME DInv, PInv', NEW t \in Tabs, Lost(t)
  PROVE  DInv'
<1>1. /\ req[t] # NoRequest /\ Answer(t, FALSE) /\ stale' = [stale EXCEPT ![t] = TRUE]
      /\ UNCHANGED <<entity, unsaved, loc, going, got, ui, calls>>
  BY DEF Lost, Lose
<1>2. PICK w \in Requests :
           /\ req'[t] = w /\ w.at = "done"
           /\ \A u \in Tabs \ {t} : req'[u] = req[u]
  BY <1>1, AnswerIs
<1>3. stale'[t] /\ stale' \in [Tabs -> BOOLEAN] /\ \A u \in Tabs \ {t} : stale'[u] = stale[u]
  BY <1>1 DEF DInv
<1>4. DTab(t)'
  BY <1>1, <1>2, <1>3 DEF DTab, CallsOK, Allowed, DInv
<1>5. QED
  BY <1>1, <1>2, <1>3, <1>4, StepDInv
(* The statement that writes, answered; the commit is to come. *)
LEMMA FlushedAgrees ==
  ASSUME DInv, NEW t \in Tabs, req[t] # NoRequest, req[t].at = "loaded", ~Blocked(req[t]),
         Answer(t, TRUE), UNCHANGED <<entity, loc, going, got, ui, calls>>,
         req[t].op = "addTag" => req[t].arg \notin entity[req[t].target].tags,
         IF req[t].op = "bundle" THEN UNCHANGED unsaved ELSE unsaved' = unsaved \cup {req[t]},
         Agrees(t)
  PROVE  Agrees(t)'
<1>1. PICK w \in Requests :
           /\ req' = [req EXCEPT ![t] = w] /\ req'[t] = w /\ w # NoRequest
           /\ \A u \in Tabs \ {t} : req'[u] = req[u]
           /\ w.at = "done" /\ w.ok = TRUE /\ SameAsk(w, req[t])
           /\ w.op = req[t].op /\ w.target = req[t].target /\ w.arg = req[t].arg
           /\ \A q \in Requests : SameAsk(w, q) =>
                /\ q.tab = req[t].tab /\ q.op = req[t].op /\ q.by = req[t].by
                /\ q.target = req[t].target /\ q.arg = req[t].arg
           /\ \A q \in Requests : SameAsk(w, q) /\ q.at = req[t].at /\ q.ok = req[t].ok => q = req[t]
  BY AnswerIs
<1>2. DTab(t) /\ ~Told(t) /\ unsaved \subseteq unsaved' /\ req[t].tab = t /\ ~req[t].ok
      /\ req[t] \in Requests
  <2>1. PInv /\ DTab(t)
    BY DEF DInv
  <2>2. HeadSent(t)
    BY <2>1 DEF PInv, TabOK
  <2>3. ~req[t].ok
    BY <2>2 DEF HeadSent
  <2>4. req[t].tab = t /\ req[t] \in Requests
    BY <2>1, HasHead
  <2>5. ~Told(t) /\ unsaved \subseteq unsaved'
    BY DEF Told, At
  <2>6. QED
    BY <2>1, <2>3, <2>4, <2>5
<1>3. CASE ~Told(t)'
  <2>1. \A q : ~Awaited(t, q)'
    BY <1>3, AwaitedIs
  <2>2. QED
    BY <1>2, <1>3, <2>1, SteadyMore
<1>4. CASE Told(t)' /\ loc[t].page # "detail"
  <2>1. Staying(t)' /\ loc'[t].page # "detail"
    BY <1>4 DEF Told
  <2>2. QED
    BY <2>1 DEF Staying, Agrees, RefusedIdle, FetchAgrees, ScreenAgrees,
                ChipsAgree, OnDetail, Nowhere, Place
<1>5. CASE Told(t)' /\ loc[t].page = "detail"
  <2>1. calls[t][1].here /\ Staying(t)
    BY <1>5 DEF Told, Staying
  <2>2. req[t].target = loc[t].of /\ req[t].op # "bundle"
    <3>1. /\ calls[t][1].form \in {"header", "tags", "deactivate", "alias", "context"}
          /\ req[t].target = loc[t].of
          /\ calls[t][1].form = "header" => req[t].op = "update"
          /\ calls[t][1].form = "tags" => req[t].op \in {"addTag", "deleteTag"}
          /\ calls[t][1].form = "deactivate" => req[t].op = "deactivate"
          /\ calls[t][1].form \in {"alias", "context"} => req[t].op = "addPart"
      BY <1>2, <1>5, <2>1, DetailCall DEF DInv
    <3>2. QED
      BY <3>1
  <2>3. unsaved' = unsaved \cup {req[t]}
    BY <2>2
  <2>4. Coming(t)' /\ (TagTold(t)' <=> req[t].op \in {"addTag", "deleteTag"})
    BY <1>1, <1>5 DEF Coming, TagTold
  <2>5. RefusedIdle(t)' /\ FetchAgrees(t)' /\ ScreenAgrees(t)'
    BY <1>1, <2>4 DEF RefusedIdle, FetchAgrees, ScreenAgrees
  <2>6. InFlight(t) => InFlight(t)'
    <3> SUFFICES ASSUME InFlight(t) PROVE InFlight(t)'
      OBVIOUS
    <3>1. PICK q \in unsaved : q.target = loc[t].of /\ Locks(q)
      BY DEF InFlight
    <3>2. ~Awaited(t, q)'
      <4> SUFFICES ASSUME Awaited(t, q)' PROVE FALSE
        OBVIOUS
      <4>1. SameAsk(w, q) /\ q \in Requests /\ UnsavedOK(q) /\ ~q.ok
        BY <1>1, <3>1, AwaitedIs DEF DInv, PInv
      <4>2. q = req[t]
        <5>1. q.at = req[t].at
          BY <4>1 DEF UnsavedOK
        <5>2. q.ok \in BOOLEAN /\ req[t].ok \in BOOLEAN
          BY <1>2, <4>1 DEF Requests
        <5>3. q.ok = req[t].ok
          BY <1>2, <4>1, <5>2
        <5>4. QED
          BY <1>1, <4>1, <5>1, <5>3
      <4>3. Locks(req[t])
        BY <3>1, <4>2
      <4>4. QED
        BY <3>1, <4>2, <4>3 DEF Blocked
    <3>3. QED
      BY <2>3, <3>1, <3>2 DEF InFlight
  <2>7. \A x : ChipIs(t, x)' <=> ChipIs(t, x)
    BY DEF ChipIs
  <2>8. ASSUME TagTold(t)', \A x \in Tags : ChipIs(t, x) PROVE ChipToChange(t)'
    <3>1. req[t].arg \in Tags
      BY <1>2, <2>4, <2>8, OpsFacts DEF Requests
    <3>2. req[t].op = "addTag" => ui[t].chips[req[t].arg] = 0
      BY <2>2, <2>8, <3>1 DEF ChipIs
    <3>3. PICK r : r = req[t]
      OBVIOUS
    <3>4. Awaited(t, r)'
      BY <1>1, <1>2, <1>5, <3>3, AwaitedIs
    <3>5. r \in unsaved'
      BY <2>3, <3>3
    <3>6. QED
      BY <1>1, <2>7, <2>8, <3>2, <3>4, <3>5 DEF ChipToChange
  <2>9. ChipsAgree(t)'
    <3>1. OnDetail(t) /\ Staying(t) => InFlight(t) \/ \A x \in Tags : ChipIs(t, x)
      BY <1>2, BeforeAnswer
    <3>2. (OnDetail(t)' <=> OnDetail(t)) /\ (Staying(t)' <=> Staying(t))
      BY DEF OnDetail, Staying
    <3>3. QED
      BY <2>6, <2>7, <2>8, <3>1, <3>2 DEF ChipsAgree
  <2>10. QED
    BY <2>5, <2>9 DEF Agrees
<1>6. QED
  BY <1>3, <1>4, <1>5

LEMMA FlushDInv ==
  ASSUME DInv, PInv', NEW t \in Tabs, Flush(t), UNCHANGED tabVars
  PROVE  DInv'
<1>1. PICK r \in Requests : r = req[t]
  BY DEF DInv, PInv, Flush, At
<1>2. /\ req[t] # NoRequest /\ r.at = "loaded" /\ ~Blocked(r)
      /\ UNCHANGED <<entity, loc, going, got, ui, calls, stale>> /\ ~r.ok
  BY <1>1 DEF Flush, At, tabVars, DInv, PInv, TabOK, HeadSent
<1>3. CASE r.op = "addTag" /\ r.arg \in entity[r.target].tags
  <2>1. Answer(t, FALSE) /\ UNCHANGED unsaved
    BY <1>1, <1>3 DEF Flush
  <2>2. ASSUME NEW q \in unsaved, q.op = r.op, q.target = r.target, q.arg = r.arg
        PROVE  q.op # "addPart" /\ Changeless(q)
    BY <1>3, <2>2, IdleChange DEF DInv
  <2>3. QED
    BY <1>1, <1>2, <2>1, <2>2, RefusedDInv
<1>4. CASE ~(r.op = "addTag" /\ r.arg \in entity[r.target].tags)
  <2>1. /\ Answer(t, TRUE)
        /\ IF r.op = "bundle" THEN UNCHANGED unsaved ELSE unsaved' = unsaved \cup {r}
    BY <1>1, <1>4 DEF Flush
  <2>2. PICK w \in Requests :
           /\ req'[t] = w /\ w.at = "done"
           /\ \A u \in Tabs \ {t} : req'[u] = req[u]
    BY <1>2, <2>1, AnswerIs
  <2>3. \A q \in unsaved' : q \in unsaved \/ q = r
    BY <2>1
  <2>4. r.tab = t /\ Allowed(r)
    BY <1>1, <1>2, HasHead DEF DInv, DTab
  <2>5. \A q \in unsaved' : Allowed(q)' /\ ~q.ok
    BY <1>2, <2>3, <2>4 DEF DInv, Allowed
  <2>6. DTab(t)'
    <3>1. DTab(t)
      BY DEF DInv
    <3>2. Agrees(t) => Agrees(t)'
      BY <1>1, <1>2, <1>4, <2>1, FlushedAgrees
    <3>3. QED
      BY <1>2, <2>2, <3>1, <3>2 DEF DTab, CallsOK, Allowed
  <2>7. ASSUME NEW u \in Tabs \ {t} PROVE DTab(u)'
    <3>1. DTab(u) /\ req'[u] = req[u]
      BY <2>2 DEF DInv
    <3>2. Told(u)' <=> Told(u)
      BY <1>2, <3>1 DEF Told, At, Staying
    <3>3. \A q \in unsaved' : q \in unsaved \/ ~Awaited(u, q)'
      BY <2>3, <2>4, AwaitedIs
    <3>4. unsaved \subseteq unsaved'
      BY <2>1
    <3>5. Agrees(u) => Agrees(u)'
      BY <1>2, <3>1, <3>2, <3>3, <3>4, SteadyMore
    <3>6. QED
      BY <1>2, <3>1, <3>5 DEF DTab, CallsOK, Allowed
  <2>8. QED
    BY <1>2, <2>5, <2>6, <2>7 DEF DInv
<1>5. QED
  BY <1>3, <1>4

LEMMA ServeDInv ==
  ASSUME DInv, PInv', NEW t \in Tabs, Serve(t), UNCHANGED tabVars
  PROVE  DInv'
BY LoadDInv, RefuseDInv, FlushDInv DEF Serve
-----------------------------------------------------------------------------
(* Transactions end. *)
LEMMA AfterTags ==
  ASSUME NEW q \in Requests, NEW now \in EntityRow
  PROVE  /\ q.op = "addTag" => After(q, now).tags = now.tags \cup {q.arg}
         /\ q.op = "deleteTag" => After(q, now).tags = now.tags \ {q.arg}
         /\ q.op \in {"update", "addPart", "deactivate"} => After(q, now).tags = now.tags
<1>1. CASE q.op = "update"
  <2>1. q.arg \in Args["update"]
    BY <1>1 DEF Requests
  <2>2. "tags" \notin DOMAIN q.arg
    BY <2>1 DEF Args
  <2>3. "tags" \in DOMAIN now
    BY DEF EntityRow
  <2>4. QED
    BY <1>1, <2>2, <2>3 DEF After
<1>2. CASE q.op = "addTag"
  BY <1>2 DEF After, EntityRow
<1>3. CASE q.op = "deleteTag"
  BY <1>3 DEF After, EntityRow
<1>4. CASE q.op = "addPart"
  BY <1>4 DEF After, EntityRow
<1>5. CASE q.op = "deactivate"
  BY <1>5 DEF After, EntityRow
<1>6. QED
  BY <1>1, <1>2, <1>3, <1>4, <1>5

(* Whoever awaits a transaction on the details asked for it about what they *)
(* show.                                                                   *)
LEMMA AwaitedHere ==
  ASSUME DInv, NEW t \in Tabs, loc[t].page = "detail", NEW q \in unsaved, Awaited(t, q)
  PROVE  /\ q.target = loc[t].of /\ q.op = req[t].op /\ q.arg = req[t].arg
         /\ q.op \in {"update", "addTag", "deleteTag", "addPart", "deactivate"}
         /\ Told(t) /\ ui[t].failed # "page" /\ q \in Requests /\ SameAsk(req[t], q)
         /\ loc[t].of \in Entities
<1>1. Told(t) /\ SameAsk(req[t], q) /\ q \in Requests
  BY AwaitedIs DEF DInv, PInv
<1>2. req[t] # NoRequest /\ calls[t][1].here /\ req[t] \in Requests /\ DTab(t)
  BY <1>1 DEF Told, At, DInv, PInv
<1>3. /\ calls[t][1].form \in {"header", "tags", "deactivate", "alias", "context"}
      /\ req[t].target = loc[t].of /\ loc[t].of \in Entities
      /\ calls[t][1].form = "header" => req[t].op = "update"
      /\ calls[t][1].form = "tags" => req[t].op \in {"addTag", "deleteTag"}
      /\ calls[t][1].form = "deactivate" => req[t].op = "deactivate"
      /\ calls[t][1].form \in {"alias", "context"} => req[t].op = "addPart"
      /\ ui[t].failed # "page"
  BY <1>2, DetailCall DEF DInv
<1>4. q.op = req[t].op /\ q.target = req[t].target /\ q.arg = req[t].arg
  BY <1>1, <1>2, SameAskFacts
<1>5. QED
  BY <1>1, <1>3, <1>4

(* A transaction about another entity. *)
LEMMA AwayAgrees ==
  ASSUME DInv, NEW q \in unsaved, NEW t \in Tabs, Agrees(t),
         unsaved' = unsaved \ {q}, UNCHANGED <<req, loc, going, got, ui, calls>>,
         \A e \in Entities \ {q.target} : entity'[e] = entity[e],
         q.target \notin {loc[t].of, going[t].of}
  PROVE  Agrees(t)'
<1>1. /\ loc[t].page = "detail" => loc[t].of \in Entities \ {q.target}
      /\ going[t].page = "detail" => going[t].of \in Entities \ {q.target}
  BY DEF DInv, PInv, Locations
<1>2. Told(t)' <=> Told(t)
  BY DEF Told, At, Staying
<1>3. /\ Coming(t)' <=> Coming(t)
      /\ Breaking(t)' <=> Breaking(t)
      /\ TagTold(t)' <=> TagTold(t)
      /\ \A w : Awaited(t, w)' <=> Awaited(t, w)
  BY <1>2, AwaitedIs DEF Coming, Breaking, TagTold
<1>4. ASSUME NEW w \in unsaved, w.target = loc[t].of PROVE w \in unsaved'
  BY <1>4
<1>5. RefusedIdle(t)'
  <2> SUFFICES ASSUME Told(t), ~req[t].ok, loc[t].page = "detail", NEW w \in unsaved', Awaited(t, w)
               PROVE  Changeless(w)'
    BY <1>2, <1>3 DEF RefusedIdle
  <2>1. w \in unsaved /\ w.target = loc[t].of
    BY AwaitedHere
  <2>2. Changeless(w)
    BY <2>1 DEF Agrees, RefusedIdle
  <2>3. entity'[w.target] = entity[w.target]
    BY <1>1, <2>1
  <2>4. QED
    BY <2>2, <2>3 DEF Changeless
<1>6. FetchAgrees(t)'
  <2>1. going[t].page = "detail" =>
          Columns(going[t].of)' = Columns(going[t].of) /\ entity'[going[t].of] = entity[going[t].of]
    BY <1>1 DEF Columns
  <2>2. QED
    BY <1>3, <2>1 DEF Agrees, FetchAgrees
<1>7. ScreenAgrees(t)'
  <2>1. loc[t].page = "detail" =>
          Columns(loc[t].of)' = Columns(loc[t].of) /\ entity'[loc[t].of] = entity[loc[t].of]
    BY <1>1 DEF Columns
  <2>2. QED
    BY <1>3, <2>1 DEF Agrees, ScreenAgrees, OnDetail
<1>8. ChipsAgree(t)'
  <2> SUFFICES ASSUME OnDetail(t), Staying(t) PROVE ChipsAgree(t)'
    BY DEF ChipsAgree, OnDetail, Staying
  <2>1. loc[t].page = "detail" /\ entity'[loc[t].of] = entity[loc[t].of]
    BY <1>1 DEF OnDetail
  <2>2. \A x : ChipIs(t, x)' <=> ChipIs(t, x)
    BY <2>1 DEF ChipIs
  <2>3. InFlight(t) => InFlight(t)'
    BY <1>3, <1>4 DEF InFlight
  <2>4. (\E w \in unsaved : Awaited(t, w)) => (\E w \in unsaved' : Awaited(t, w)')
    BY <1>3, <1>4, <2>1, AwaitedHere
  <2>5. ChipToChange(t) => ChipToChange(t)'
    BY <1>3, <2>1, <2>2, <2>4 DEF ChipToChange
  <2>6. QED
    BY <1>3, <2>2, <2>3, <2>5 DEF Agrees, ChipsAgree
<1>9. QED
  BY <1>5, <1>6, <1>7, <1>8 DEF Agrees

(* The commit that the tab is about to go on after. *)
LEMMA AwaitedAgrees ==
  ASSUME DInv, NEW q \in unsaved, NEW t \in Tabs, Agrees(t), Awaited(t, q),
         unsaved' = unsaved \ {q}, UNCHANGED <<req, loc, going, got, ui, calls>>,
         entity'[q.target] = After(q, entity[q.target])
  PROVE  Agrees(t)'
<1>1. Told(t) /\ Staying(t) /\ Staying(t)'
  BY AwaitedIs DEF Told, Staying
<1>2. CASE loc[t].page # "detail"
  <2>1. loc'[t].page # "detail"
    BY <1>2
  <2>2. QED
    BY <1>1, <2>1 DEF Staying, Agrees, RefusedIdle, FetchAgrees, ScreenAgrees,
                ChipsAgree, OnDetail, Nowhere, Place
<1>3. CASE loc[t].page = "detail"
  <2>1. /\ q.target = loc[t].of /\ q.op = req[t].op /\ q.arg = req[t].arg
        /\ q.op \in {"update", "addTag", "deleteTag", "addPart", "deactivate"}
        /\ ui[t].failed # "page" /\ q \in Requests /\ SameAsk(req[t], q) /\ loc[t].of \in Entities
    BY <1>3, AwaitedHere
  <2>2. OnDetail(t)
    BY <1>3, <2>1 DEF OnDetail
  <2>3. Told(t)' <=> Told(t)
    BY DEF Told, At, Staying
  <2>4. /\ Coming(t)' <=> Coming(t)
        /\ Breaking(t)' <=> Breaking(t)
        /\ TagTold(t)' <=> TagTold(t)
        /\ \A w : Awaited(t, w)' <=> Awaited(t, w)
    BY <2>3, AwaitedIs DEF Coming, Breaking, TagTold
  <2>5. InFlight(t) => InFlight(t)'
    BY <2>4 DEF InFlight
  <2>6. PICK now \in EntityRow : now = entity[q.target]
    BY <2>1 DEF DInv, PInv, UnsavedOK
  <2>7. PICK e : e = loc[t].of
    OBVIOUS
  <2>8. entity[e] = now /\ entity'[e] = After(q, now) /\ loc[t].of = e /\ loc'[t].of = e
    BY <2>1, <2>6, <2>7
  <2>9. CASE req[t].ok
    <3>1. Coming(t)'
      BY <1>1, <2>4, <2>9 DEF Coming
    <3>2. RefusedIdle(t)' /\ FetchAgrees(t)' /\ ScreenAgrees(t)'
      BY <2>9, <3>1 DEF RefusedIdle, FetchAgrees, ScreenAgrees
    <3>3. ~Breaking(t)
      BY <2>9 DEF Breaking
    <3>4. ASSUME ~TagTold(t), \A x \in Tags : ChipIs(t, x) PROVE \A x \in Tags : ChipIs(t, x)'
      <4>1. q.op \in {"update", "addPart", "deactivate"}
        BY <2>1, <2>4, <3>1, <3>4 DEF TagTold
      <4>2. After(q, now).tags = now.tags
        BY <2>1, <4>1, AfterTags
      <4>3. QED
        BY <2>8, <3>4, <4>2 DEF ChipIs
    <3>5. ASSUME ChipToChange(t) PROVE ChipToChange(t)'
      <4>1. q.op \in {"addTag", "deleteTag"} /\ TagTold(t)
        BY <2>1, <3>5 DEF ChipToChange, TagTold
      <4>2. After(q, now).tags = IF q.op = "addTag" THEN now.tags \cup {q.arg} ELSE now.tags \ {q.arg}
        BY <2>1, <4>1, AfterTags
      <4>3. ASSUME NEW x \in Tags \ {q.arg} PROVE ChipIs(t, x)'
        <5>1. ChipIs(t, x)
          BY <2>1, <3>5, <4>3 DEF ChipToChange
        <5>2. x \in After(q, now).tags <=> x \in now.tags
          BY <4>2, <4>3
        <5>3. QED
          BY <2>8, <5>1, <5>2 DEF ChipIs
      <4>4. q.arg \in After(q, now).tags <=> q.op = "addTag"
        BY <4>2
      <4>5. QED
        BY <2>1, <2>4, <2>8, <3>5, <4>1, <4>3, <4>4 DEF ChipToChange
    <3>6. ChipsAgree(t)'
      BY <1>1, <2>2, <2>4, <2>5, <3>3, <3>4, <3>5 DEF Agrees, ChipsAgree
    <3>7. QED
      BY <3>2, <3>6 DEF Agrees
  <2>10. CASE ~req[t].ok
    <3>1. Changeless(q)
      BY <1>1, <1>3, <2>10 DEF Agrees, RefusedIdle
    <3>2. \A c \in {"status", "text", "tags", "parts"} : entity'[e][c] = entity[e][c]
      BY <2>1, <2>7, <2>8, <3>1 DEF Changeless
    <3>3. Columns(e)' = Columns(e)
      BY <3>2 DEF Columns
    <3>4. RefusedIdle(t)'
      <4> SUFFICES ASSUME NEW w \in unsaved', Awaited(t, w) PROVE FALSE
        BY <2>4 DEF RefusedIdle
      <4>1. w \in Requests /\ q \in Requests /\ SameAsk(req[t], w) /\ UnsavedOK(w) /\ UnsavedOK(q)
            /\ ~w.ok /\ ~q.ok /\ w # q /\ req[t] \in Requests
        <5>1. w \in unsaved /\ w # q
          OBVIOUS
        <5>2. w \in Requests /\ q \in Requests /\ UnsavedOK(w) /\ UnsavedOK(q) /\ ~w.ok /\ ~q.ok
          BY <5>1 DEF DInv, PInv
        <5>3. SameAsk(req[t], w)
          BY AwaitedIs
        <5>4. req[t] \in Requests
          BY <1>1 DEF DInv, PInv, Told, At
        <5>5. QED
          BY <5>1, <5>2, <5>3, <5>4
      <4>2. w.at = q.at /\ w.ok \in BOOLEAN /\ q.ok \in BOOLEAN
        BY <4>1 DEF UnsavedOK, Requests
      <4>3. w.ok = q.ok
        BY <4>1, <4>2
      <4>4. QED
        BY <2>1, <4>1, <4>2, <4>3, SameAskFacts
    <3>5. FetchAgrees(t)'
      <4>1. going[t].page = "detail" => going[t].of = e
        BY <1>1, <2>8 DEF Staying, Nowhere, Place
      <4>2. QED
        BY <2>4, <2>8, <3>2, <3>3, <4>1 DEF Agrees, FetchAgrees
    <3>6. ScreenAgrees(t)'
      BY <2>4, <2>8, <3>2, <3>3 DEF Agrees, ScreenAgrees, OnDetail
    <3>7. ChipsAgree(t)'
      <4>1. ~TagTold(t) /\ ~ChipToChange(t)
        BY <2>10 DEF TagTold, Coming, ChipToChange
      <4>2. \A x : ChipIs(t, x)' <=> ChipIs(t, x)
        BY <2>8, <3>2 DEF ChipIs
      <4>3. QED
        BY <1>1, <2>2, <2>4, <2>5, <4>1, <4>2 DEF Agrees, ChipsAgree
    <3>8. QED
      BY <3>4, <3>5, <3>6, <3>7 DEF Agrees
  <2>11. QED
    BY <2>9, <2>10
<1>4. QED
  BY <1>2, <1>3
LEMMA TransactionDInv ==
  ASSUME DInv, PInv', NEW q \in unsaved, Saved(q) \/ Died(q)
  PROVE  DInv'
<1>1. UNCHANGED <<req, loc, going, got, ui, calls>> /\ unsaved' = unsaved \ {q}
  BY DEF Saved, Commit, Died, Die
<1>2. q.target \in Entities
  BY UnsavedFacts DEF DInv
<1>3. \A e \in Entities \ {q.target} : entity'[e] = entity[e]
  BY DEF DInv, PInv, Saved, Commit, Died, Die
<1>4. Saved(q) => entity'[q.target] = After(q, entity[q.target])
  BY <1>2 DEF DInv, PInv, Saved, Commit
<1>5. /\ stale' \in [Tabs -> BOOLEAN]
      /\ \A t \in Tabs : ~stale'[t] =>
           /\ ~stale[t]
           /\ q.target \notin {loc[t].of, going[t].of} \/ (Saved(q) /\ Awaited(t, q))
  <2>1. CASE Saved(q)
    <3>1. stale' = [t \in Tabs |-> stale[t] \/ (q.target \in {loc[t].of, going[t].of} /\ ~Awaited(t, q))]
      BY <2>1 DEF Saved
    <3>2. \A t \in Tabs :
            (stale[t] \/ (q.target \in {loc[t].of, going[t].of} /\ ~Awaited(t, q))) \in BOOLEAN
      OBVIOUS
    <3>3. QED
      BY <2>1, <3>1, <3>2
  <2>2. CASE Died(q)
    <3>1. stale' = [t \in Tabs |-> stale[t] \/ q.target \in {loc[t].of, going[t].of}]
      BY <2>2 DEF Died
    <3>2. \A t \in Tabs : (stale[t] \/ q.target \in {loc[t].of, going[t].of}) \in BOOLEAN
      OBVIOUS
    <3>3. QED
      BY <3>1, <3>2
  <2>3. QED
    BY <2>1, <2>2
<1>6. ASSUME NEW t \in Tabs PROVE DTab(t)'
  <2>1. DTab(t)
    BY DEF DInv
  <2>2. CASE stale'[t]
    BY <1>1, <2>1, <2>2 DEF DTab, CallsOK, Allowed
  <2>3. CASE ~stale'[t]
    <3>1. Agrees(t)
      BY <1>5, <2>1, <2>3 DEF DTab
    <3>2. Agrees(t)'
      <4>1. CASE q.target \notin {loc[t].of, going[t].of}
        BY <1>1, <1>3, <3>1, <4>1, AwayAgrees
      <4>2. CASE Saved(q) /\ Awaited(t, q)
        BY <1>1, <1>4, <3>1, <4>2, AwaitedAgrees
      <4>3. QED
        BY <1>5, <2>3, <4>1, <4>2
    <3>3. QED
      BY <1>1, <2>1, <3>2 DEF DTab, CallsOK, Allowed
  <2>4. QED
    BY <2>2, <2>3
<1>7. \A w \in unsaved' : Allowed(w)' /\ ~w.ok
  BY <1>1 DEF DInv, Allowed
<1>8. QED
  BY <1>5, <1>6, <1>7 DEF DInv

-----------------------------------------------------------------------------
LEMMA InitDInv == TabsInit => DInv
<1> SUFFICES ASSUME TabsInit PROVE DInv
  OBVIOUS
<1>1. PInv
  BY InitPInv
<1>2. /\ unsaved = {} /\ stale = [t \in Tabs |-> FALSE] /\ loc = [t \in Tabs |-> Nowhere]
      /\ req = [t \in Tabs |-> NoRequest] /\ got = [t \in Tabs |-> Nothing]
      /\ calls = [t \in Tabs |-> <<>>]
  BY DEF TabsInit
<1>3. ASSUME NEW t \in Tabs PROVE DTab(t)
  <2>1. /\ loc[t].page # "detail" /\ got[t].rows = NoEntity /\ got[t].parts = NoEntity
        /\ calls[t] = <<>> /\ req[t] = NoRequest
    BY <1>2 DEF Nowhere, Place, Nothing
  <2>2. CallsOK(t)
    BY <2>1 DEF CallsOK, Shaped, OfPage, Gone
  <2>3. Agrees(t)
    BY <2>1 DEF Agrees, RefusedIdle, FetchAgrees, ScreenAgrees, ChipsAgree, OnDetail
  <2>4. QED
    BY <2>1, <2>2, <2>3 DEF DTab
<1>4. QED
  BY <1>1, <1>2, <1>3 DEF DInv

LEMMA NextDInv == DInv /\ [Next]_vars => DInv'
<1> SUFFICES ASSUME DInv, [Next]_vars PROVE DInv'
  OBVIOUS
<1>1. PInv'
  BY NextPInv DEF DInv
<1>2. CASE UNCHANGED vars
  <2>1. UNCHANGED <<entity, unsaved, req, loc, going, got, ui, calls, stale>>
    BY <1>2 DEF vars, serverVars, tabVars
  <2>2. \A t \in Tabs : DTab(t)'
    BY <2>1, OtherTab DEF DInv
  <2>3. QED
    BY <1>1, <2>1, <2>2 DEF DInv, Allowed
<1>3. ASSUME NEW t \in Tabs, \/ Click(t) \/ Settle(t) \/ Send(t) \/ FetchRows(t) \/ FetchParts(t)
                            \/ Arrive(t) \/ (Serve(t) /\ UNCHANGED tabVars) \/ Lost(t)
      PROVE  DInv'
  BY <1>1, <1>3, ClicksDInv, SettleDInv, SendDInv, FetchDInv, ArriveDInv, ServeDInv, LostDInv
<1>4. ASSUME NEW q \in unsaved, Saved(q) \/ Died(q) PROVE DInv'
  BY <1>1, <1>4, TransactionDInv
<1>5. CASE Next
  <2>1. CASE \E q \in unsaved : Saved(q) \/ Died(q)
    BY <1>4, <2>1
  <2>2. CASE \E t \in Tabs : \/ Click(t) \/ Settle(t) \/ Send(t) \/ FetchRows(t) \/ FetchParts(t)
                            \/ Arrive(t) \/ (Serve(t) /\ UNCHANGED tabVars) \/ Lost(t)
    BY <1>3, <2>2
  <2>3. QED
    BY <1>5, <2>1, <2>2 DEF Next
<1>6. QED
  BY <1>2, <1>5

(* A tab that has nothing left to do has no answer to come. *)
LEMMA DInvDetailAgrees == DInv => DetailAgrees
<1> SUFFICES ASSUME DInv, NEW t \in Tabs, On(t, "detail"), Quiet(t), ~stale[t], unsaved = {}
             PROVE  LET e == loc[t].of IN
                    /\ ui[t].rows[e] = Columns(e)
                    /\ ui[t].parts[e] = entity[e].parts
                    /\ \A x \in Tags : ui[t].chips[x] = IF x \in entity[e].tags THEN 1 ELSE 0
  BY DEF DetailAgrees
<1>1. OnDetail(t) /\ going[t] = Nowhere /\ Agrees(t)
  BY DEF OnDetail, On, Quiet, DInv, DTab
<1>2. req[t] = NoRequest
  BY HasHead DEF DInv, Quiet
<1>3. ~Told(t) /\ ~InFlight(t) /\ Staying(t)
  BY <1>1, <1>2 DEF Told, At, InFlight, Staying
<1>4. QED
  BY <1>1, <1>3, BeforeAnswer DEF ChipIs

(* What the details show is what is stored as soon as the tab has nothing   *)
(* left to do, whatever was clicked, refused and answered before, however  *)
(* many tabs there are (EntityDetail.tsx:43-60, 206-229, 276-295,          *)
(* 417-429), unless the entity was changed behind the back of the tab.     *)
THEOREM DetailsAgree == Spec => []DetailAgrees
<1>1. TabsInit => DInv
  BY InitDInv
<1>2. DInv /\ [Next]_vars => DInv'
  BY NextDInv
<1>3. DInv => DetailAgrees
  BY DInvDetailAgrees
<1>4. QED
  BY <1>1, <1>2, <1>3, PTL DEF Spec
=============================================================================
