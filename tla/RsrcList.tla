------------------------------ MODULE RsrcList ------------------------------
(***************************************************************************)
(* The resource list of a request (Zend/zend_list.c): entries with a       *)
(* pointer, a type and a reference count, under ids that count up.  What   *)
(* the destructors of the types do is up to the extensions; they apply     *)
(* these operators.                                                        *)
(***************************************************************************)
EXTENDS Integers, FiniteSets, Functions

\* nNextFreeElement starts at 1: no resource has id 0.
EmptyList == [ent |-> <<>>, next |-> 1]

Ids(l) == DOMAIN l.ent

Put(l, id, e) == [i \in Ids(l) \cup {id} |-> IF i = id THEN e ELSE l.ent[i]]

\* A mutant: the place of a deleted entry is used again.
Insert_reuses(l, e) ==
  LET id == CHOOSE i \in 1 .. l.next : i \notin Ids(l) /\ \A j \in 1 .. i - 1 : j \in Ids(l)
  IN  [ent |-> Put(l, id, e), next |-> IF id < l.next THEN l.next ELSE id + 1]

\* zend_list_insert().
Insert(l, e) == [ent |-> Put(l, l.next, e), next |-> l.next + 1]

Find(l, id, types) == id \in Ids(l) /\ l.ent[id].type \in types

AddRef(l, id) == IF id \in Ids(l) THEN [l EXCEPT !.ent[id].refcount = @ + 1] ELSE l

\* zend_list_delete() of an id that is not there fails, and changes nothing.
LastReference(l, id) == id \in Ids(l) /\ l.ent[id].refcount <= 1
DropRef(l, id)       == IF id \in Ids(l) THEN [l EXCEPT !.ent[id].refcount = @ - 1] ELSE l
Remove(l, id)        == [l EXCEPT !.ent = Restrict(l.ent, Ids(l) \ {id})]

\* A mutant: it takes the oldest first.
Newest_oldest(l, id) == id \in Ids(l) /\ \A other \in Ids(l) : id <= other

\* zend_destroy_rsrc_list() takes the newest entry first.
Newest(l, id) == id \in Ids(l) /\ \A other \in Ids(l) : other <= id
=============================================================================
