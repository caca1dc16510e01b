------------------------------ MODULE Execute ------------------------------
(***************************************************************************)
(* The executor's opcodes on variables, arrays and references              *)
(* (Zend/zend_execute.c).  A statement of a script is the opcodes that the *)
(* compiler makes of it, in its order (zend_language_parser.y,             *)
(* zend_compile.c): the right side is fetched and locked, then the left    *)
(* side, then the assignment is made; EG(garbage) is cleaned when the next *)
(* opcode starts.  Nothing comes between the opcodes of a statement but a  *)
(* call, whose statements run between its Call and its Return here.        *)
(*                                                                         *)
(* A path is the left or the right side of a statement: $v is <<v>>,       *)
(* $v[k] is <<v, k>>.  Inside the function $Param is its parameter; the    *)
(* other variables are the caller's, reached through $GLOBALS.             *)
(***************************************************************************)
EXTENDS Zval

CONSTANTS
  Param,      \* the variable that is the parameter of the called function
  MaxInt,     \* integers are 0 .. MaxInt, and wrap
  Overlaps    \* TRUE: statements $x = &$y where one side is part of the other

ASSUME ExecuteAssumption == MaxInt \in Nat /\ Overlaps \in BOOLEAN

VARIABLE mem    \* the memory, see Zval

Paths(m) ==
  {q \in {<<v>> : v \in Vars} \union {<<v, k>> : v \in Vars, k \in Keys} :
     q[1] = Param => m.arg # None}
VariablePaths(m) == {q \in Paths(m) : Len(q) = 1}
-----------------------------------------------------------------------------
(* Fetching.  For reading, a fetch gives the zval; for writing, the slot,  *)
(* which it creates when there is none.  Both leave it locked.             *)

FetchR(m, q) ==
  LET var == IF m.sym[q[1]] = None THEN UninitZval ELSE m.sym[q[1]]
      p == IF Len(q) = 1 THEN var
           ELSE IF m.z[var].c.el[q[2]] = None THEN UninitZval
           ELSE m.z[var].c.el[q[2]]
  IN  [m |-> Lock(m, p), p |-> p]

FetchVarW(m, v) ==
  LET n == IF m.sym[v] = None
             THEN Put(AddRef(m, UninitZval), VarSlot(v), UninitZval) ELSE m
  IN  [m |-> Lock(n, n.sym[v]), s |-> VarSlot(v)]

\* zend_fetch_dimension_address_inner: a missing element is made, with NULL.
ElementW(m, a, k) ==
  IF m.z[a].c.type # "array" THEN [m |-> Lock(m, ErrorZval), s |-> ErrorSlot]
  ELSE IF m.z[a].c.el[k] # None
    THEN [m |-> Lock(m, m.z[a].c.el[k]), s |-> ElSlot(a, k)]
    ELSE [m |-> Lock(Put(AddRef(m, UninitZval), ElSlot(a, k), UninitZval), UninitZval),
          s |-> ElSlot(a, k)]

ArrayInit(m, a) ==
  IF m.z[a].c.type = "null" THEN [m EXCEPT !.z[a].c = Content("array", 0)] ELSE m

SeparateArray(m, s) ==
  IF m.z[Deref(m, s)].c.type \in {"null", "array"} THEN SeparateIfNotRef(m, s) ELSE m

SeparatedW(m, s, k) ==
  IF m.err # "" THEN [m |-> m, s |-> ErrorSlot]
  ELSE ElementW(ArrayInit(m, Deref(m, s)), Deref(m, s), k)

ContainerW(m, s, k) ==
  IF Deref(m, s) = ErrorZval THEN [m |-> Lock(m, ErrorZval), s |-> ErrorSlot]
  ELSE SeparatedW(SeparateArray(m, s), s, k)

\* zend_fetch_dimension_address, BP_VAR_W: NULL becomes an array, an array
\* that others share is separated, and other types have no elements.
FetchDimW(f, k) == ContainerW(Unlock(f.m, Deref(f.m, f.s)), f.s, k)

FetchW(m, q) ==
  IF Len(q) = 1 THEN FetchVarW(m, q[1])
                ELSE FetchDimW(FetchVarW(m, q[1]), q[2])
-----------------------------------------------------------------------------
(* zend_assign_to_variable                                                 *)

\* The zval in slot s takes contents c, which are its own to keep.
\* (IS_TMP_VAR.  A constant of the script has is_ref = 1 and is copied, which
\* comes to the same.)
AssignTmp(m, s, c) ==
  LET var == Deref(m, s)
      z == m.z[var]
  IN  CASE m.err # "" -> m
        [] var = ErrorZval -> Dtor(m, c)
        [] OTHER ->
             IF z.is_ref \/ z.rc = 1
               THEN Dtor([m EXCEPT !.z[var].c = c], z.c)
               ELSE IF Full(m) THEN Bad(m, "oom")
               ELSE Put(AllocTmp([m EXCEPT !.z[var].rc = @ - 1], c), s, Fresh(m))

\* The slot takes the value of the zval val (IS_VAR): by sharing it, unless
\* one of the two is a reference.
AssignVar(m, s, val) ==
  LET var == Deref(m, s)
      z == m.z[var]
      v == m.z[val]
      copied == Dtor(CopyCtor([m EXCEPT !.z[var].c = v.c], v.c), z.c)
  IN  CASE m.err # "" -> m
        [] var = ErrorZval -> m
        [] z.is_ref -> IF var = val THEN m ELSE copied
        [] ~z.is_ref /\ z.rc = 1 ->
             IF var = val THEN m
             ELSE IF v.is_ref THEN copied
             ELSE Put([Dtor(AddRef(m, val), z.c) EXCEPT !.z[var] = Free], s, val)
        [] ~z.is_ref /\ z.rc > 1 ->
             LET n == [m EXCEPT !.z[var].rc = @ - 1]
             IN  IF ~v.is_ref THEN Put(AddRef(n, val), s, val)
                 ELSE IF Full(m) THEN Bad(m, "oom")
                 ELSE Put(AllocCopy(n, v.c), s, Fresh(m))

\* Wrong: the copy is not marked as a reference.
OwnRefUnmarked(m, t, val) ==
  LET q == Fresh(m) IN
  IF m.z[val].is_ref THEN [m |-> m, p |-> val]
  ELSE IF m.z[val].rc = 1 THEN [m |-> [m EXCEPT !.z[val].is_ref = TRUE], p |-> val]
  ELSE IF Stale(m, t) THEN [m |-> Bad(m, "uaf"), p |-> val]
  ELSE IF q = None THEN [m |-> Bad(m, "oom"), p |-> val]
  ELSE [m |-> Put(AllocCopy([m EXCEPT !.z[val].rc = @ - 1], m.z[val].c), t, q),
        p |-> q]

\* "break it away": the zval val in slot t becomes a reference; if others
\* point to it, the slot gets a copy first.  p is the zval in the slot then.
OwnRef(m, t, val) ==
  LET q == Fresh(m) IN
  IF m.z[val].is_ref THEN [m |-> m, p |-> val]
  ELSE IF m.z[val].rc = 1 THEN [m |-> [m EXCEPT !.z[val].is_ref = TRUE], p |-> val]
  ELSE IF Stale(m, t) THEN [m |-> Bad(m, "uaf"), p |-> val]
  ELSE IF q = None THEN [m |-> Bad(m, "oom"), p |-> val]
  ELSE [m |-> [Put(AllocCopy([m EXCEPT !.z[val].rc = @ - 1], m.z[val].c), t, q)
                 EXCEPT !.z[q].is_ref = TRUE],
        p |-> q]

\* zend_assign_to_variable_reference: slot s becomes a name of the variable
\* in slot t.  What s pointed to is released before t is looked at.
AssignRef(m, s, t) ==
  LET var == Deref(m, s)
      val == Deref(m, t)
      released ==
        IF m.z[var].rc > 1 THEN [m EXCEPT !.z[var].rc = @ - 1]
        ELSE [Dtor(m, m.z[var].c) EXCEPT !.z[var] = Free]
      own == OwnRef(released, t, val)
  IN  CASE m.err # "" -> m
        [] var = ErrorZval \/ val = ErrorZval -> m
        [] s # t ->
             IF ~Allocated(released, val) THEN Bad(released, "uaf")
             ELSE IF own.m.err # "" THEN own.m
             ELSE Put(AddRef(own.m, own.p), s, own.p)
        [] s = t ->
             SetRef(Separate(m, s), s)
-----------------------------------------------------------------------------
(* Statements.                                                             *)

UnlockSlot(f) ==
  IF Stale(f.m, f.s) THEN Bad(f.m, "uaf") ELSE Unlock(f.m, Deref(f.m, f.s))

\* $l = constant;  and  $l = expression that makes a temporary;
AssignTmpStmt(m, l, c) ==
  LET f == FetchW(m, l) IN CleanGarbage(AssignTmp(UnlockSlot(f), f.s, c))

\* $l = $r;
AssignStmt(m, l, r) ==
  LET v == FetchR(m, r)
      f == FetchW(v.m, l)
      n == UnlockSlot([f EXCEPT !.m = Unlock(f.m, v.p)])
  IN  CleanGarbage(AssignVar(n, f.s, v.p))

\* $l = &$r;  The right side's slot is fetched before the left side's.
AssignRefStmt(m, l, r) ==
  LET t == FetchW(m, r)
      f == FetchW(t.m, l)
      n == UnlockSlot([f EXCEPT !.m = UnlockSlot([f EXCEPT !.s = t.s])])
  IN  CleanGarbage(AssignRef(n, f.s, t.s))

\* array(k => $r): a copy of what is a reference, else the zval itself.
InitArray(m, k, r) ==
  LET v == FetchR(m, r)
      n == Unlock(v.m, v.p)
      o == IF n.z[v.p].is_ref THEN AllocCopy(n, n.z[v.p].c) ELSE AddRef(n, v.p)
      p == IF n.z[v.p].is_ref THEN Fresh(n) ELSE v.p
  IN  [m |-> o, c |-> [Content("array", 0) EXCEPT !.el[k] = p]]

\* array(k => &$r)
InitArrayRef(m, k, r) ==
  LET f == FetchW(m, r)
      n == MakeRef(UnlockSlot(f), f.s)
      p == Deref(n, f.s)
  IN  [m |-> IF n.err = "" THEN AddRef(n, p) ELSE n,
       c |-> [Content("array", 0) EXCEPT !.el[k] = p]]

ArrayStmt(m, l, t) == IF t.m.err = "" THEN AssignTmpStmt(t.m, l, t.c) ELSE t.m

\* $l++;  Arrays and resources stay as they are.
Incremented(c) ==
  CASE c.type = "null" -> Content("int", 1)
    [] c.type = "int" -> Content("int", (c.n + 1) % (MaxInt + 1))
    [] OTHER -> c

IncStmt(m, l) ==
  LET f == FetchW(m, l)
      n == UnlockSlot(f)
      o == SeparateIfNotRef(n, f.s)
  IN  IF n.err # "" \/ Deref(n, f.s) = ErrorZval THEN n
      ELSE IF o.err # "" THEN o
      ELSE CleanGarbage([o EXCEPT !.z[Deref(o, f.s)].c = Incremented(@)])

\* $l = fopen();  The function returns a zval of its own.
OpenStmt(m, l, r) ==
  LET n == AllocTmp([m EXCEPT !.list[r] = 1], Content("res", r))
      f == FetchW(n, l)
      T == Fresh(m)
  IN  IF n.err # "" THEN n
      ELSE CleanGarbage(AssignVar(UnlockSlot([f EXCEPT !.m = Unlock(f.m, T)]), f.s, T))

\* unset($v);
UnsetVarStmt(m, v) == PtrDtor(Put(m, VarSlot(v), None), <<m.sym[v]>>)

\* unset($v[k]);  The array is separated first.
UnsetDimStmt(m, v, k) ==
  LET n == SeparateIfNotRef(m, VarSlot(v))
      p == n.z[n.sym[v]].c.el[k]
  IN  IF n.err # "" \/ p = None THEN n
      ELSE PtrDtor(Put(n, ElSlot(n.sym[v], k), None), <<p>>)

\* ZEND_SEND_VAR, then ZEND_RECV in the function: by value, a reference is
\* copied and anything else is shared.
CallByValue(m, r) ==
  LET v == FetchR(m, r)
      n == Unlock(v.m, v.p)
      copy == v.p = UninitZval \/ n.z[v.p].is_ref
      o == IF copy THEN AllocCopy(n, n.z[v.p].c) ELSE AddRef(n, v.p)
      arg == IF copy THEN Fresh(n) ELSE v.p
      f == FetchVarW([o EXCEPT !.arg = arg], Param)
  IN  IF o.err # "" THEN o ELSE AssignVar(UnlockSlot(f), f.s, arg)

\* ZEND_SEND_REF, then ZEND_RECV.
CallByRef(m, r) ==
  LET s == FetchW(m, r)
      n == MakeRef(UnlockSlot(s), s.s)
      arg == Deref(n, s.s)
      f == FetchVarW([AddRef(n, arg) EXCEPT !.arg = arg], Param)
  IN  IF n.err # "" THEN n ELSE CleanGarbage(AssignRef(UnlockSlot(f), f.s, ArgSlot))

\* ZEND_RETURN of $Param, and what ZEND_DO_FCALL does after it: the symbol
\* table and the arguments go.  T is the result, with a reference of its own.
Return(m) ==
  LET v == FetchR(m, <<Param>>)
      n == Unlock(v.m, v.p)
      copy == n.z[v.p].is_ref
      o == IF copy THEN AllocCopy(n, n.z[v.p].c) ELSE AddRef(n, v.p)
      T == IF copy THEN Fresh(n) ELSE v.p
      gone == (IF o.sym[Param] = None THEN <<>> ELSE <<o.sym[Param]>>) \o <<o.arg>>
  IN  [m |-> IF o.err # "" THEN o
             ELSE PtrDtor([o EXCEPT !.sym[Param] = None, !.arg = None], gone),
       p |-> T]

\* $l = f(...);
ReturnStmt(m, l) ==
  LET v == Return(m)
      f == FetchW(v.m, l)
  IN  IF v.m.err # "" THEN v.m
      ELSE CleanGarbage(AssignVar(UnlockSlot([f EXCEPT !.m = Unlock(f.m, v.p)]),
                                  f.s, v.p))

\* f(...);  The result is destroyed.
ReturnUnusedStmt(m) ==
  LET v == Return(m) IN IF v.m.err # "" THEN v.m ELSE PtrDtor(v.m, <<v.p>>)
-----------------------------------------------------------------------------
\* One side is an element of the other.
Overlap(l, r) == l[1] = r[1] /\ Len(l) # Len(r)

VarSeq == SetToSeq(Vars)
Roots(m) == [i \in DOMAIN VarSeq |-> m.sym[VarSeq[i]]] \o <<m.arg>>

\* The heap's zvals in the order in which a walk from the variables meets
\* them, then those that no variable leads to.
RECURSIVE Walk(_, _, _)
Walk(m, todo, seen) ==
  IF todo = <<>> THEN seen
  ELSE IF Head(todo) \notin Heap \/ Contains(seen, Head(todo))
    THEN Walk(m, Tail(todo), seen)
    ELSE Walk(m, Pointees(m.z[Head(todo)].c) \o Tail(todo), Append(seen, Head(todo)))

\* Addresses mean nothing to a script: renumbering the zvals after every
\* statement makes memories equal that differ in nothing else.
Renumbered(m) ==
  LET met == Walk(m, Roots(m), <<>>)
      lost == SetToSeq({p \in Heap : Allocated(m, p)} \ Range(met))
      order == <<UninitZval, ErrorZval>> \o met \o lost
      new == [p \in {None} \union Range(order) |->
                IF p = None THEN None ELSE CHOOSE i \in DOMAIN order : order[i] = p]
  IN  [m EXCEPT
         !.z = [i \in Zvals |->
                  IF i \in DOMAIN order
                    THEN [m.z[order[i]] EXCEPT
                            !.c.el = [k \in Keys |-> new[m.z[order[i]].c.el[k]]]]
                    ELSE Free],
         !.sym = [v \in Vars |-> new[m.sym[v]]],
         !.arg = new[m.arg]]

\* A statement runs when the bounded heap has room for it.
Exec(statement) ==
  \E m \in {statement} : /\ mem.err = ""
                         /\ m.err # "oom"
                         /\ mem' = IF m.err = "" THEN Renumbered(m) ELSE m

Init == mem = InitMemory

Assign == \E l, r \in Paths(mem) : Exec(AssignStmt(mem, l, r))
AssignConst == \E l \in Paths(mem) : Exec(AssignTmpStmt(mem, l, Content("int", 0)))
AssignEmptyArray == \E l \in Paths(mem) :
                      Exec(AssignTmpStmt(mem, l, Content("array", 0)))
AssignArray == \E l \in VariablePaths(mem), r \in Paths(mem), k \in Keys :
                 Exec(ArrayStmt(mem, l, InitArray(mem, k, r)))
AssignArrayRef == \E l \in VariablePaths(mem), r \in Paths(mem), k \in Keys :
                    /\ Overlaps \/ ~Overlap(l, r)
                    /\ Exec(ArrayStmt(mem, l, InitArrayRef(mem, k, r)))
AssignReference == \E l, r \in Paths(mem) :
                     /\ Overlaps \/ ~Overlap(l, r)
                     /\ Exec(AssignRefStmt(mem, l, r))
Increment == \E l \in Paths(mem) : Exec(IncStmt(mem, l))
Open == \E l \in Paths(mem), r \in Resources :
          /\ mem.list[r] = 0
          /\ \A p \in Heap : mem.z[p].c # Content("res", r)
          /\ Exec(OpenStmt(mem, l, r))
UnsetVar == \E v \in Vars : /\ mem.sym[v] # None
                            /\ Exec(UnsetVarStmt(mem, v))
UnsetDim == \E v \in Vars, k \in Keys :
              /\ mem.sym[v] # None
              /\ mem.z[mem.sym[v]].c.type = "array"
              /\ Exec(UnsetDimStmt(mem, v, k))
Call == /\ mem.arg = None
        /\ \E r \in Paths(mem) : \/ Exec(CallByValue(mem, r))
                                 \/ Exec(CallByRef(mem, r))
EndCall == /\ mem.arg # None
           /\ \/ \E l \in VariablePaths(mem) : l[1] # Param /\ Exec(ReturnStmt(mem, l))
              \/ Exec(ReturnUnusedStmt(mem))

Next == \/ Assign \/ AssignConst \/ AssignEmptyArray \/ AssignArray
        \/ AssignArrayRef \/ AssignReference \/ Increment \/ Open
        \/ UnsetVar \/ UnsetDim \/ Call \/ EndCall

Spec == Init /\ [][Next]_mem
-----------------------------------------------------------------------------
(* Properties.                                                             *)

SlotsTo(p) ==
  Cardinality({v \in Vars : mem.sym[v] = p})
  + Cardinality({x \in Zvals \X Keys : mem.z[x[1]].c.el[x[2]] = p})
  + (IF mem.arg = p THEN 1 ELSE 0)

\* Between statements EG(garbage) is empty, and a zval's reference count is the number of variables,
\* elements and arguments that point to it: none is freed too early, and none
\* that nothing points to is left.  The shared null and error zvals are never
\* modified.
RefcountExact ==
  /\ mem.gar = <<>>
  /\ \A p \in Heap : /\ mem.z[p].rc = SlotsTo(p)
                    /\ Allocated(mem, p) <=> SlotsTo(p) > 0
  /\ \A p \in {UninitZval, ErrorZval} :
       mem.z[p].c = Null /\ mem.z[p].rc = 1 + SlotsTo(p)

\* A resource is open as long as there is a zval for it: its count in the list
\* is the number of zvals that hold its id.
ResourceExact ==
  \A r \in Resources :
    mem.list[r] = Cardinality({p \in Heap : mem.z[p].c = Content("res", r)})

\* Over any sequence of copies, separations and releases no statement uses a zval
\* that was freed or a table that was destroyed, EG(garbage), which has room for
\* two, never runs over, and nothing is counted once too often or too rarely.
CountsExact == mem.err = "" /\ RefcountExact /\ ResourceExact

\* Values as a script sees them, to a depth.
Depth == 2
ValueOf(m) ==
  LET val[d \in 0 .. Depth, p \in Zvals] ==
        LET c == m.z[p].c IN
        IF c.type # "array" \/ d = 0 THEN <<c.type, c.n>>
        ELSE <<"array", [k \in Elements(c) |-> val[d - 1, c.el[k]]]>>
  IN  [p \in Zvals |-> val[Depth, p]]

ZvalAt(m, q) ==
  LET var == IF m.sym[q[1]] = None THEN UninitZval ELSE m.sym[q[1]] IN
  IF Len(q) = 1 THEN var
  ELSE IF m.z[var].c.el[q[2]] = None THEN UninitZval ELSE m.z[var].c.el[q[2]]

ValueAt(m, q) == ValueOf(m)[ZvalAt(m, q)]

\* The references that a path leads to or through.
Refs(m, q) ==
  LET next(P) == P \union ({m.z[p].c.el[k] : p \in P, k \in Keys} \ {None})
      var == m.sym[q[1]]
      reach == IF var = None THEN {} ELSE next(next(next({var})))
  IN  {p \in reach : m.z[p].is_ref}

\* The paths of which an assignment takes notice: an element of a number or of
\* a resource is an error.
WritablePaths(m) ==
  {q \in Paths(m) : LET f == FetchW(m, q) IN Deref(f.m, f.s) # ErrorZval}

\* The element that the path names is the array itself, by reference.
Itself(m, q) == Len(q) = 2 /\ ZvalAt(m, q) = ZvalAt(m, <<q[1]>>)

\* After $l = $r the left side has the value that the right side had, also
\* when one is part of the other.  (Not when the left side's fetch itself
\* makes an array of a reference that the right side reads.)
AssignCopies ==
  mem.err = "" =>
  \A l \in WritablePaths(mem), r \in Paths(mem) :
    ~Itself(mem, l) /\ Refs(mem, l) \intersect Refs(mem, r) = {} =>
      LET m == AssignStmt(mem, l, r) IN
      m.err # "oom" => m.err = "" /\ ValueAt(m, l) = ValueAt(mem, r)

\* After $l = &$r the two are names of one variable, with the value that the
\* right side had.
RefBinds ==
  mem.err = "" =>
  LET paths == WritablePaths(mem) IN
  \A l, r \in paths :
    Overlaps \/ ~Overlap(l, r) =>
      LET m == AssignRefStmt(mem, l, r) IN
      m.err # "oom" =>
        /\ m.err = ""
        /\ ZvalAt(m, l) = ZvalAt(m, r) /\ m.z[ZvalAt(m, l)].is_ref
        /\ \/ ValueAt(m, l) = ValueAt(mem, r)
           \/ Refs(mem, l) \intersect Refs(mem, r) # {}

\* A statement changes the values of two variables only when they share a
\* reference, or it makes them share one: assignment and argument passing copy,
\* although the code lets them point to one zval.
Isolated ==
  [][\A v, w \in Vars :
       /\ v # w
       /\ \A x \in {v, w} : /\ mem.sym[x] # None
                            /\ mem'.sym[x] # None
                            /\ ValueAt(mem, <<x>>) # ValueAt(mem', <<x>>)
       => \/ Refs(mem, <<v>>) \intersect Refs(mem, <<w>>) # {}
          \/ Refs(mem', <<v>>) \intersect Refs(mem', <<w>>) # {}]_mem
=============================================================================
