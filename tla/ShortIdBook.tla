----------------------------- MODULE ShortIdBook -----------------------------
(***************************************************************************)
(* What the registry promises about short identifiers, with no locks and   *)
(* no transactions: a book of series, one for each project and type, in    *)
(* which a series has the numbers 1, 2, 3, ... without a gap, each for one *)
(* entity (docs/02-domain-model.md, the section on PROJECT_ID-TYPE-N).     *)
(* One step enters a batch of any size, so a request that numbers several  *)
(* entities does so all at once or not at all.                             *)
(*                                                                         *)
(* That document also promises that an entry never changes.  The registry  *)
(* does not keep that (see ShortIdsPermanent in ShortIds), so the book     *)
(* says what is left of the promise: a changed entry spoils the series it  *)
(* leaves and the one it comes to, all other series stay as promised, and  *)
(* an entity in the book stays there.                                      *)
(***************************************************************************)
EXTENDS Naturals

CONSTANTS Entities, Projects, Types, NoId

Id == [project : Projects, type : Types, seq : Nat \ {0}]

VARIABLES
  issued,   \* issued[e]: the short id of e, NoId before it has one
  spoiled   \* the series in which an entry has been changed

vars == <<issued, spoiled>>

SeriesOf(id) == <<id.project, id.type>>

(* The entry of e in the book is number n of the project and type. *)
Holds(book, e, p, ty, n) ==
  book[e] # NoId /\ book[e].project = p /\ book[e].type = ty /\ book[e].seq = n

(* Every entry has its number alone, and the lower numbers of its series are *)
(* entered too; of the series in `bad' nothing is said.                      *)
WellNumbered(book, bad) ==
  \A e \in {x \in Entities : book[x] # NoId} :
    LET id == book[e] IN
      SeriesOf(id) \notin bad =>
        /\ \A f \in Entities : Holds(book, f, id.project, id.type, id.seq) => f = e
        /\ \A n \in 1 .. id.seq :
             \E f \in Entities : Holds(book, f, id.project, id.type, n)

Init ==
  /\ issued = [e \in Entities |-> NoId]
  /\ spoiled = {}

Enter ==
  LET changed == {e \in Entities : issued[e] # NoId /\ issued'[e] # issued[e]}
  IN /\ issued' \in [Entities -> Id \cup {NoId}]
     /\ \A e \in changed : issued'[e] # NoId
     /\ spoiled' = spoiled \cup {SeriesOf(issued[e]) : e \in changed}
                            \cup {SeriesOf(issued'[e]) : e \in changed}
     /\ WellNumbered(issued', spoiled')

Spec == Init /\ [][Enter]_vars

=============================================================================
