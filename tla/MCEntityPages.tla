--------------------------- MODULE MCEntityPages ---------------------------
EXTENDS EntityPages

CONSTANTS t1, t2, adm, usr, e1, e2, n1, n2, x, y, a1, a2, c1, w

MCOrder == <<n2, n1, e2, e1>>

Stored(status, tags, parts) ==
  [status |-> status, text |-> w, tags |-> tags, parts |-> parts, gone |-> {}]
Two(first, second) == [e \in {e1, e2, n1, n2} |->
  IF e = e1 THEN first ELSE IF e = e2 THEN second ELSE NoEntity]

Tour(who1, start1, pages1, who2, start2, pages2, n, f, filters, table) ==
  [who |-> t1 :> who1 @@ t2 :> who2,
   start |-> t1 :> start1 @@ t2 :> start2,
   pages |-> t1 :> pages1 @@ t2 :> pages2,
   clicks |-> n, faults |-> f, filters |-> filters, entity |-> table]

One(who, start, pages, n, f, filters, table) ==
  Tour(who, start, pages, usr, Nowhere, {}, n, f, filters, table)

Review == Place("review", NoEntity)
List == Place("list", NoEntity)
Detail == Place("detail", e1)
Edit == Place("edit", e1)

(* A member and an administrator decide on the same candidates. *)
ReviewTours ==
  {Tour(usr, Review, {"review"}, adm, Review, {"review"}, 2, 1, {},
        Two(Stored("candidate", {}, {}), Stored("candidate", {}, {})))}

(* The list: filters and pages, and new entities with tags. *)
ListTours ==
  {One(adm, List, {"list"}, 0, 0, {"status", "page", x},
       Two(Stored("active", {}, {}), Stored("active", {x}, {}))),
   One(adm, List, {"list"}, 2, 0, {}, Two(Stored("active", {}, {}), NoEntity)),
   One(adm, List, {"list"}, 1, 0, {"status"}, Two(Stored("active", {}, {}), NoEntity)),
   One(usr, List, {"list", "detail"}, 1, 1, {}, Two(Stored("active", {}, {}), NoEntity))}

(* Details, also while somebody decides on the entity elsewhere. *)
DetailTours ==
  {One(usr, Detail, {"detail", "list"}, 2, 0, {}, Two(Stored("candidate", {}, {a1}), NoEntity)),
   Tour(usr, Detail, {"detail"}, adm, Review, {"review"}, 2, 0, {},
        Two(Stored("candidate", {x}, {a1}), NoEntity))}

(* The edit form and the details, and the bundle page. *)
EditTours ==
  {One(usr, Edit, {"edit", "detail"}, 2, 0, {}, Two(Stored("candidate", {x}, {}), NoEntity)),
   One(usr, Detail, {"detail", "bundle"}, 2, 1, {}, Two(Stored("candidate", {}, {}), NoEntity))}

MCTours == ReviewTours \cup ListTours \cup DetailTours \cup EditTours
=============================================================================
