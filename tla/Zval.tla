-------------------------------- MODULE Zval --------------------------------
(***************************************************************************)
(* The engine's values: reference-counted zvals, the symbol table that     *)
(* points to them, copy-on-write, and the resource list that their         *)
(* destructors keep (Zend/zend.h, zend_variables.c, zend_execute_locks.h,  *)
(* zend_list.c).  Everything here is an operator from a memory to a        *)
(* memory, as the C functions and macros are; Execute.tla makes opcodes    *)
(* out of them.                                                            *)
(*                                                                         *)
(* A memory is [z, sym, arg, gar, list, err]:                              *)
(*   z     the zvals: contents c = [type, n, el], rc and is_ref            *)
(*   sym   the symbol tables: what each variable points to                 *)
(*   arg   the zval on the argument stack of the call under way            *)
(*   gar   EG(garbage)                                                     *)
(*   list  EG(regular_list): the reference count of each open resource     *)
(*   err   "" while all is well; "oom" when the bounded heap is full (a    *)
(*         bound of the model), "uaf" when a zval that was freed, or a     *)
(*         slot of a table that was destroyed, has been used, "overflow"   *)
(*         when EG(garbage) has run over its two elements                  *)
(***************************************************************************)
EXTENDS Naturals, SequencesExt

CONSTANTS
  Vars,       \* names of variables
  Keys,       \* keys of arrays
  MaxZvals,   \* zvals 1 and 2 are EG(uninitialized_zval) and EG(error_zval)
  Resources   \* ids of resources

ASSUME ZvalAssumption == MaxZvals \in Nat /\ MaxZvals > 2

None == 0
UninitZval == 1
ErrorZval == 2
Heap == 3 .. MaxZvals
Zvals == 1 .. MaxZvals

NoEl == [k \in Keys |-> None]
Content(type, n) == [type |-> type, n |-> n, el |-> NoEl]
Null == Content("null", 0)
Free == [c |-> Content("free", 0), rc |-> 0, is_ref |-> FALSE]
InitZval == [c |-> Null, rc |-> 1, is_ref |-> FALSE]

InitMemory ==
  [z    |-> [p \in Zvals |-> IF p \in Heap THEN Free ELSE InitZval],
   sym  |-> [v \in Vars |-> None],
   arg  |-> None,
   gar  |-> <<>>,
   list |-> [r \in Resources |-> 0],
   err  |-> ""]

Allocated(m, p) == m.z[p].c.type # "free"
Bad(m, why) == IF m.err = "" THEN [m EXCEPT !.err = why] ELSE m

Full(m) == \A p \in Heap : Allocated(m, p)
Fresh(m) == IF Full(m) THEN None ELSE CHOOSE p \in Heap : ~Allocated(m, p)

Elements(c) == {k \in Keys : c.el[k] # None}
-----------------------------------------------------------------------------
(* Reference counts.                                                       *)

AddRef(m, p) ==
  IF Allocated(m, p) THEN [m EXCEPT !.z[p].rc = @ + 1] ELSE Bad(m, "uaf")

\* The zvals with one more reference from each element of contents c.
Counted(z, c) ==
  [p \in Zvals |-> [z[p] EXCEPT !.rc = @ + Cardinality({k \in Keys : c.el[k] = p})]]

\* zval_copy_ctor of contents c: the elements of an array are shared, not
\* copied; a resource is counted in the list unless it is closed already.
CopyCtor(m, c) ==
  CASE c.type = "array" -> [m EXCEPT !.z = Counted(@, c)]
    [] c.type = "res" /\ m.list[c.n] > 0 -> [m EXCEPT !.list[c.n] = @ + 1]
    [] OTHER -> m

\* The destructor of a resource zval: the last one closes the resource.
ListDelete(m, c) ==
  IF c.type = "res" /\ m.list[c.n] > 0
    THEN [m EXCEPT !.list[c.n] = @ - 1] ELSE m

\* What the elements of an array point to.
KeySeq == SetToSeq(Keys)
Pointees(c) ==
  SelectSeq([i \in DOMAIN KeySeq |-> c.el[KeySeq[i]]], LAMBDA p : p # None)

\* zval_ptr_dtor of each pointer of todo; what a destroyed array points to
\* is added to it, which is the recursion of zend_hash_destroy.
RECURSIVE PtrDtor(_, _)
PtrDtor(m, todo) ==
  IF todo = <<>> THEN m
  ELSE LET p == Head(todo)
           z == m.z[p]
       IN  IF ~Allocated(m, p) THEN Bad(m, "uaf")
           ELSE IF z.rc > 1
           THEN PtrDtor([m EXCEPT !.z[p].rc = @ - 1,
                                  !.z[p].is_ref = @ /\ z.rc # 2],
                        Tail(todo))
           ELSE PtrDtor(ListDelete([m EXCEPT !.z[p] = Free], z.c),
                        Pointees(z.c) \o Tail(todo))

\* zval_dtor: what a zval holds is destroyed, the zval itself is not.
Dtor(m, c) == PtrDtor(ListDelete(m, c), Pointees(c))

\* A zval is allocated and made a copy of contents c, with one reference.
AllocCopy(m, c) ==
  IF Full(m) THEN Bad(m, "oom")
  ELSE CopyCtor([m EXCEPT !.z[Fresh(m)] =
                   [c |-> c, rc |-> 1, is_ref |-> FALSE]], c)

\* As AllocCopy, for contents that belong to nobody yet.
AllocTmp(m, c) ==
  IF Full(m) THEN Bad(m, "oom")
  ELSE [m EXCEPT !.z[Fresh(m)] = [c |-> c, rc |-> 1, is_ref |-> FALSE]]
-----------------------------------------------------------------------------
(* PZVAL_LOCK, PZVAL_UNLOCK: an opcode's temporary holds a reference to    *)
(* what it fetched until the opcode that uses it.                          *)

Lock(m, p) == AddRef(m, p)

Unlock(m, p) ==
  IF ~Allocated(m, p) THEN Bad(m, "uaf")
  ELSE IF m.z[p].rc > 1 THEN [m EXCEPT !.z[p].rc = @ - 1]
  ELSE IF Len(m.gar) = 2 THEN Bad(m, "overflow")
  ELSE [m EXCEPT !.z[p].is_ref = FALSE, !.gar = Append(@, p)]

\* zend_clean_garbage, at the start of every opcode.
CleanGarbage(m) ==
  PtrDtor([m EXCEPT !.gar = <<>>], Reverse(m.gar))
-----------------------------------------------------------------------------
(* Slots: a zval ** of the C code.                                         *)

Slot(kind, p, k) == [kind |-> kind, p |-> p, k |-> k]
VarSlot(v) == Slot("var", None, v)
ElSlot(p, k) == Slot("el", p, k)
ArgSlot == Slot("arg", None, None)
UninitSlot == Slot("uninit", None, None)
ErrorSlot == Slot("error", None, None)

\* The zval * in a slot.
Deref(m, s) ==
  CASE s.kind = "var" -> m.sym[s.k]
    [] s.kind = "el" -> m.z[s.p].c.el[s.k]
    [] s.kind = "arg" -> m.arg
    [] s.kind = "uninit" -> UninitZval
    [] s.kind = "error" -> ErrorZval

\* The table of an element's slot has been destroyed, or the element deleted.
Stale(m, s) == Deref(m, s) = None

Put(m, s, p) ==
  CASE s.kind = "var" -> [m EXCEPT !.sym[s.k] = p]
    [] s.kind = "el" -> [m EXCEPT !.z[s.p].c.el[s.k] = p]
    [] s.kind = "arg" -> [m EXCEPT !.arg = p]

\* Wrong: the zval that the slot leaves keeps its count.
SeparateUncounted(m, s) ==
  LET p == Deref(m, s) IN
  IF m.z[p].rc = 1 THEN m
  ELSE IF Full(m) THEN Bad(m, "oom")
  ELSE Put(AllocCopy(m, m.z[p].c), s, Fresh(m))

\* SEPARATE_ZVAL: the slot gets a copy of its own if others point to its zval.
Separate(m, s) ==
  LET p == Deref(m, s) IN
  IF m.z[p].rc = 1 THEN m
  ELSE IF Full(m) THEN Bad(m, "oom")
  ELSE Put(AllocCopy([m EXCEPT !.z[p].rc = @ - 1], m.z[p].c), s, Fresh(m))

\* Wrong: what is shared is written in place.
SeparateNever(m, s) == m

SeparateIfNotRef(m, s) ==
  IF m.z[Deref(m, s)].is_ref THEN m ELSE Separate(m, s)

SetRef(m, s) ==
  IF m.err = "" THEN [m EXCEPT !.z[Deref(m, s)].is_ref = TRUE] ELSE m

\* SEPARATE_ZVAL_TO_MAKE_IS_REF
MakeRef(m, s) == SetRef(SeparateIfNotRef(m, s), s)
=============================================================================
