----------------------------- MODULE MCConsole -----------------------------
EXTENDS Console

CONSTANTS t1, t2, bu, ba, bc, adm, usr, guest, p1, p2, mem, k1, k2

MCPerson == [b \in Browsers |-> IF b = bu THEN usr ELSE adm]
MCMemberUser == [m \in Members |-> usr]
MCHomeProject == p1

User(role, must) == [role |-> role, active |-> TRUE, must |-> must]
Table(role, must, m, k) == [i \in Ids |->
  CASE i = adm -> User("admin", FALSE)
    [] i = usr -> User(role, must)
    [] i = p1 -> [text |-> 1, active |-> TRUE]
    [] i = mem -> m
    [] i = k1 -> k
    [] OTHER -> NoRow]
Membership(active) == [role |-> "member", active |-> active]
LiveKey == [owner |-> usr, revoked |-> FALSE]

TourWith(posts, b1, pages1, b2, pages2, in, start1, start2, n, f, table) ==
  [browser |-> t1 :> b1 @@ t2 :> b2,
   pages |-> t1 :> pages1 @@ t2 :> pages2,
   cookie |-> [b \in Browsers |-> IF b \in in THEN MCPerson[b] ELSE NoUser],
   start |-> t1 :> start1 @@ t2 :> start2,
   clicks |-> n, faults |-> f, posts |-> posts,
   searched |-> (Ids \ {adm, guest, p2}) \cup posts,
   row |-> table]

Tour(b1, pages1, b2, pages2, in, start1, start2, n, f, table) ==
  TourWith({}, b1, pages1, b2, pages2, in, start1, start2, n, f, table)

(* Two tabs of one person, keys and password. *)
OwnTours ==
  LET Own(must, in, p, k, n) ==
        Tour(bu, {"keys"}, bu, {"keys"}, in, "keys", p, n, 1,
             Table("user", must, Membership(TRUE), k))
  IN  {Own(must, {}, "keys", LiveKey, 3) : must \in BOOLEAN}
      \cup {Own(FALSE, {bu}, p, LiveKey, 3) : p \in {"keys", "password"}}
      \cup {Own(FALSE, {bu}, "keys", NoRow, 2)}

(* A person with keys, and an administrator who resets and revokes. *)
KeyTours ==
  {Tour(bu, {"keys"}, ba, {p}, {bu, ba}, "keys", p, 2, 1,
        Table("user", FALSE, Membership(TRUE), LiveKey)) :
     p \in {"users", "adminkeys"}}

(* Two administrators at the same page. *)
AdminTours ==
  {Tour(bc, {p}, ba, {p}, {bc, ba}, p, p, 2, 0,
        Table("user", FALSE, Membership(TRUE), NoRow)) : p \in {"users", "projects"}}
  \cup {Tour(bc, {"members"}, ba, {"members"}, {bc, ba}, "members", "members", 2, 1,
             Table("user", FALSE, Membership(m), NoRow)) : m \in BOOLEAN}

(* Two administrators at the same page, and a script that creates rows. *)
PostTours ==
  LET Posts(p, i) == TourWith({i}, bc, {p}, ba, {p}, {bc, ba}, p, p, 1, 1,
                              Table("user", FALSE, Membership(TRUE), NoRow))
  IN  {Posts("users", guest), Posts("projects", p2)}

(* A project administrator, who sees some pages with fewer buttons, and an  *)
(* administrator who may take the membership away.                         *)
ProjectTours ==
  {Tour(bu, {"projects", "members"}, ba, {"members"}, {bu, ba}, p, "members", 2, 1,
        Table("project_admin", FALSE, Membership(TRUE), NoRow)) :
     p \in {"projects", "members"}}

(* The tabs are interchangeable, and so are the browsers of administrators. *)
MCSymmetry == Permutations(Tabs) \cup Permutations({ba, bc})

MCTours == OwnTours \cup KeyTours \cup AdminTours \cup PostTours \cup ProjectTours
=============================================================================
