------------------------------ MODULE HashTable ------------------------------
(***************************************************************************)
(* Zend/zend_hash.c: the ordered hash table behind every PHP array, symbol *)
(* table and registry.  Buckets are in two doubly linked lists, the chain  *)
(* of their slot of arBuckets and the global list that keeps the order.    *)
(*                                                                         *)
(* Destructors, apply functions and comparison functions are callbacks     *)
(* that may call back into the table while the operation that called them  *)
(* keeps bucket pointers in its local variables: the running operations    *)
(* form a stack, and the model keeps the pointers as addresses into memory *)
(* that may have been freed.                                               *)
(*                                                                         *)
(* Memory allocation never fails; the debug checks of IS_CONSISTENT are    *)
(* not modelled; numeric strings are indices already (HANDLE_NUMERIC).     *)
(***************************************************************************)
EXTENDS Integers, FiniteSets, Sequences, SequencesExt, FiniteSetsExt

CONSTANTS
  Indices,     \* integer keys in use
  Names,       \* string keys in use: positive numbers
  Values,      \* element data
  HashOffset,  \* where the hash values of strings start
  HashRange,   \* how many different ones there are
  MinTableSize,\* the smallest table, 8 in the code
  MaxCells,    \* bound on the buckets in memory
  MaxIndex,    \* the largest unsigned long
  Outer,       \* operations the engine calls
  Inner,       \* operations callbacks call
  MaxDepth,    \* bound on the nesting of operations
  Bailouts     \* may a callback end in zend_bailout()?

ASSUME TableAssumption ==
  /\ Indices \subseteq 0..MaxIndex /\ Names \subseteq Nat \ {0}
  /\ HashOffset \in Nat /\ MaxIndex \in Nat
  /\ MaxCells \in Nat /\ HashRange \in Nat \ {0} /\ MinTableSize \in Nat \ {0}

NULL  == 0
Cells == 1..MaxCells

\* A string's zend_inline_hash_func().
HashFunc(n) == HashOffset + (n % HashRange)
\* nKeyLength = 0, here name = 0, marks an integer key.
Key(h, n) == [h |-> h, name |-> n]
Keys == {Key(i, 0) : i \in Indices} \cup {Key(HashFunc(n), n) : n \in Names}

VARIABLES
  t,      \* the HashTable with its buckets
  stack,  \* operations in progress, each waiting for a callback to return
  fault   \* has freed memory been used?

vars == <<t, stack, fault>>

NoBucket == [key |-> Key(0, 0), data |-> 0, pNext |-> NULL, pLast |-> NULL,
             pListNext |-> NULL, pListLast |-> NULL]
Empty ==
  [mem |-> [c \in Cells |-> NoBucket], alive |-> {},
   arBuckets |-> [i \in 0..MinTableSize - 1 |-> NULL],
   pListHead |-> NULL, pListTail |-> NULL, pInternalPointer |-> NULL,
   nNumOfElements |-> 0, nNextFreeElement |-> 0, nApplyCount |-> 0]

Init == t = Empty /\ stack = <<>> /\ fault = FALSE

-----------------------------------------------------------------------------
(***************************************************************************)
(* Pointers.                                                               *)
(***************************************************************************)
Set(s, c, field, v) == IF c = NULL THEN s ELSE [s EXCEPT !.mem[c][field] = v]

\* The buckets met from c on along a link, at most MaxCells + 1.
Walk(s, c, field) ==
  LET at[i \in 1..MaxCells + 1] ==
        IF i = 1 THEN c
        ELSE IF at[i - 1] = NULL THEN NULL ELSE s.mem[at[i - 1]][field]
      n == Cardinality({i \in 1..MaxCells + 1 : at[i] # NULL})
  IN [i \in 1..n |-> at[i]]

List(s)     == Walk(s, s.pListHead, "pListNext")
TableSize(s) == Cardinality(DOMAIN s.arBuckets)
Slot(s, h)  == h % TableSize(s)
Chain(s, h) == Walk(s, s.arBuckets[Slot(s, h)], "pNext")

First(s, seq, Test(_)) ==
  LET hits == {i \in DOMAIN seq : Test(s.mem[seq[i]].key)}
  IN IF hits = {} THEN NULL ELSE seq[Min(hits)]

Find(s, k) == First(s, Chain(s, k.h), LAMBDA j : j = k)

\* zend_hash_del_key_or_index() takes an integer key of the same hash value for
\* the one it looks for.
FindDel(s, k) ==
  First(s, Chain(s, k.h), LAMBDA j : j.h = k.h /\ (j.name = 0 \/ j.name = k.name))

\* CONNECT_TO_BUCKET_DLLIST and the new head of the chain
ConnectChain(s, p) ==
  LET i    == Slot(s, s.mem[p].key.h)
      head == s.arBuckets[i]
      s1   == Set(Set(Set(s, p, "pNext", head), p, "pLast", NULL), head, "pLast", p)
  IN [s1 EXCEPT !.arBuckets[i] = p]

\* CONNECT_TO_GLOBAL_DLLIST
ConnectList(s, p) ==
  LET tail == s.pListTail
      s1   == Set(Set(Set(s, p, "pListLast", tail), p, "pListNext", NULL),
                  tail, "pListNext", p)
      Or(q) == IF q = NULL THEN p ELSE q
  IN [s1 EXCEPT !.pListTail = p, !.pListHead = Or(@), !.pInternalPointer = Or(@)]

\* zend_hash_rehash()
Rehash(s) ==
  LET l == List(s)
      at[i \in 0..Len(l)] ==
        IF i = 0 THEN [s EXCEPT !.arBuckets = [j \in DOMAIN @ |-> NULL]]
        ELSE ConnectChain(at[i - 1], l[i])
  IN at[Len(l)]

\* Mutant: the buckets stay in the chains of the smaller table.
Resize_norehash(s) ==
  IF s.nNumOfElements <= TableSize(s) THEN s
  ELSE [s EXCEPT !.arBuckets = [i \in 0..2 * TableSize(s) - 1 |->
                                  IF i < TableSize(s) THEN @[i] ELSE NULL]]

\* ZEND_HASH_IF_FULL_DO_RESIZE
Resize(s) ==
  IF s.nNumOfElements <= TableSize(s) THEN s
  ELSE Rehash([s EXCEPT !.arBuckets = [i \in 0..2 * TableSize(s) - 1 |-> NULL]])

\* Mutants: the tail pointer, the internal pointer are left on the dead bucket.
Unlink_tail(s, p) ==
  LET b  == s.mem[p]
      s1 == IF b.pLast = NULL THEN [s EXCEPT !.arBuckets[Slot(s, b.key.h)] = b.pNext]
            ELSE Set(s, b.pLast, "pNext", b.pNext)
      s2 == Set(s1, b.pNext, "pLast", b.pLast)
      s3 == IF b.pListLast = NULL THEN [s2 EXCEPT !.pListHead = b.pListNext]
            ELSE Set(s2, b.pListLast, "pListNext", b.pListNext)
      s4 == Set(s3, b.pListNext, "pListLast", b.pListLast)
  IN [s4 EXCEPT !.pInternalPointer = IF @ = p THEN b.pListNext ELSE @]

Unlink_pointer(s, p) ==
  LET b  == s.mem[p]
      s1 == IF b.pLast = NULL THEN [s EXCEPT !.arBuckets[Slot(s, b.key.h)] = b.pNext]
            ELSE Set(s, b.pLast, "pNext", b.pNext)
      s2 == Set(s1, b.pNext, "pLast", b.pLast)
      s3 == IF b.pListLast = NULL THEN [s2 EXCEPT !.pListHead = b.pListNext]
            ELSE Set(s2, b.pListLast, "pListNext", b.pListNext)
  IN IF b.pListNext = NULL THEN [s3 EXCEPT !.pListTail = b.pListLast]
     ELSE Set(s3, b.pListNext, "pListLast", b.pListLast)

\* Take a bucket out of its chain and out of the global list.
Unlink(s, p) ==
  LET b  == s.mem[p]
      s1 == IF b.pLast = NULL THEN [s EXCEPT !.arBuckets[Slot(s, b.key.h)] = b.pNext]
            ELSE Set(s, b.pLast, "pNext", b.pNext)
      s2 == Set(s1, b.pNext, "pLast", b.pLast)
      s3 == IF b.pListLast = NULL THEN [s2 EXCEPT !.pListHead = b.pListNext]
            ELSE Set(s2, b.pListLast, "pListNext", b.pListNext)
      s4 == IF b.pListNext = NULL THEN [s3 EXCEPT !.pListTail = b.pListLast]
            ELSE Set(s3, b.pListNext, "pListLast", b.pListLast)
  IN [s4 EXCEPT !.pInternalPointer = IF @ = p THEN b.pListNext ELSE @]

\* Mutant: the element is not uncounted.
Release_counted(s, p) == [s EXCEPT !.alive = @ \ {p}, !.mem[p] = NoBucket]

\* pefree() of a bucket that is no longer counted
Release(s, p) ==
  [s EXCEPT !.alive = @ \ {p}, !.nNumOfElements = @ - 1, !.mem[p] = NoBucket]

\* The memory Unlink touches.
Around(p) == LET b == t.mem[p]
             IN {p, b.pNext, b.pLast, b.pListNext, b.pListLast} \ {NULL}

Touch(cells) == fault' = ~ (cells \subseteq t.alive)

-----------------------------------------------------------------------------
(***************************************************************************)
(* Operations in progress.  phase: "func", "dtor" and "compare" while the  *)
(* callback of that kind runs; "saved" when the next element is known but  *)
(* its callback has not been called; "end" when the loop is over.          *)
(***************************************************************************)
Frame(op, phase, p) ==
  [op |-> op, phase |-> phase, p |-> p, q |-> NULL, data |-> 0, arr |-> <<>>,
   owed |-> {}, seen |-> {}]

Top       == Last(stack)
Push(f)   == stack' = Append(stack, f)
Retop(f)  == stack' = [stack EXCEPT ![Len(stack)] = f]
Pop       == stack' = Front(stack)
Running(ops, phase) ==
  ~fault /\ stack # <<>> /\ Top.op \in ops /\ Top.phase = phase

\* The elements a callback has been given.
Given(f) ==
  CASE f.op = "sort"                          -> Range(f.arr)
    [] f.op = "del" \/ f.phase = "saved"      -> {}
    [] OTHER                                  -> {f.p}

\* An operation is called by the engine or by the callback that runs now.
May(op) ==
  /\ ~fault
  /\ IF stack = <<>> THEN op \in Outer
     ELSE op \in Inner /\ Len(stack) < MaxDepth
          /\ Top.phase \in {"func", "dtor", "compare"}

\* "The hash *may* be altered" while a destructor runs (585), but not by deleting
\* the element in its hands, which would be freed twice: callbacks leave alone
\* the elements they were given.  frames: the operations whose callbacks run.
Lawful(p, frames) == \A i \in DOMAIN frames : p \notin Given(frames[i])

Referenced == UNION {{stack[i].p, stack[i].q} \cup Range(stack[i].arr) :
                       i \in DOMAIN stack}
\* A freed address that something still holds is not handed out again, so that
\* its use can be told.
FreeCells == Cells \ (t.alive \cup Referenced)

Bump(s, k) == [s EXCEPT !.nNextFreeElement =
                 IF k.name = 0 /\ k.h >= @ THEN (k.h + 1) % (MaxIndex + 1) ELSE @]

\* zend_hash_add_or_update() and zend_hash_index_update_or_next_insert() of a key
\* that is not there; the next free index is one of the keys.
Insert(k, v) ==
  LET p  == Min(FreeCells)
      s1 == [t EXCEPT !.mem[p] = [NoBucket EXCEPT !.key = k, !.data = v],
                      !.alive = @ \cup {p}]
      s2 == Bump(ConnectList(ConnectChain(s1, p), p), k)
  IN /\ May("add") /\ FreeCells # {} /\ Find(t, k) = NULL
     /\ t' = Resize([s2 EXCEPT !.nNumOfElements = @ + 1])
     /\ Touch(Range(Chain(t, k.h)) \cup ({t.pListTail} \ {NULL}))
     /\ stack' = [i \in DOMAIN stack |->
                   [stack[i] EXCEPT !.owed = @ \ {p}, !.seen = @ \ {p}]]

\* The same of a key that is there: first the destructor of the old data,
Update(k, v) ==
  /\ May("update") /\ Find(t, k) # NULL /\ Lawful(Find(t, k), stack)
  /\ Push([Frame("update", "dtor", Find(t, k)) EXCEPT !.data = v])
  /\ Touch(Range(Chain(t, k.h)))
  /\ UNCHANGED t

\* then the new data.
UpdateReturn ==
  /\ Running({"update"}, "dtor")
  /\ t' = Bump(Set(t, Top.p, "data", Top.data), t.mem[Top.p].key)
  /\ Touch({Top.p}) /\ Pop

\* zend_hash_del_key_or_index(): out of both lists, then the destructor,
Delete(k) ==
  LET p == FindDel(t, k) IN
  /\ May("del") /\ p # NULL /\ Lawful(p, stack)
  /\ t' = Unlink(t, p)
  /\ Push(Frame("del", "dtor", p))
  /\ Touch(Range(Chain(t, k.h)) \cup Around(p))

\* then the memory.
DeleteReturn ==
  /\ Running({"del"}, "dtor")
  /\ t' = Release(t, Top.p) /\ Touch({Top.p}) /\ Pop

-----------------------------------------------------------------------------
(***************************************************************************)
(* zend_hash_apply() and its variants, zend_hash_reverse_apply().          *)
(***************************************************************************)
Advance(f, p, phase) ==
  [f EXCEPT !.p = p, !.phase = IF p = NULL THEN "end" ELSE phase]

ApplyStart(op) ==
  LET p == IF op = "apply" THEN t.pListHead ELSE t.pListTail IN
  /\ May(op) /\ t.nApplyCount < 3
  /\ t' = [t EXCEPT !.nApplyCount = @ + 1]
  /\ Push(Advance([Frame(op, "func", p) EXCEPT !.owed = Range(List(t))], p, "func"))
  /\ UNCHANGED fault

\* "Nesting level too deep": E_ERROR, which ends in zend_bailout().
ApplyRefused(op) ==
  /\ May(op) /\ t.nApplyCount >= 3
  /\ stack' = <<>> /\ UNCHANGED <<t, fault>>

\* A nested apply removes only if callbacks delete, and only lawfully.
MayRemove == /\ Len(stack) = 1 \/ "del" \in Inner
             /\ Lawful(Top.p, Front(stack))

Seen(f) == [f EXCEPT !.seen = @ \cup {f.p}]

ApplyKeep ==
  /\ Running({"apply"}, "func")
  /\ Retop(Advance(Seen(Top), t.mem[Top.p].pListNext, "func"))
  /\ Touch({Top.p}) /\ UNCHANGED t

ApplyRemove ==
  /\ Running({"apply"}, "func") /\ MayRemove
  /\ Retop([Seen(Top) EXCEPT !.phase = "dtor"])
  /\ Touch({Top.p}) /\ UNCHANGED t

\* Mutant: goes on with the next bucket of the chain.
ApplyDeleted_chain ==
  LET p == Top.p IN
  /\ Running({"apply", "graceful"}, "dtor")
  /\ t' = Release(Unlink(t, p), p)
  /\ Retop(Advance(Top, t.mem[p].pNext, IF Top.op = "apply" THEN "func" ELSE "dtor"))
  /\ Touch(Around(p))

\* zend_hash_apply_deleter() after the destructor: unlink, free, go on; also the
\* loop of zend_hash_graceful_destroy()
ApplyDeleted ==
  LET p == Top.p IN
  /\ Running({"apply", "graceful"}, "dtor")
  /\ t' = Release(Unlink(t, p), p)
  /\ Retop(Advance(Top, t.mem[p].pListNext, IF Top.op = "apply" THEN "func" ELSE "dtor"))
  /\ Touch(Around(p))

\* The previous element is read before the deletion; the function may say stop.
ReverseKeep ==
  /\ Running({"reverse"}, "func")
  /\ \E p \in {t.mem[Top.p].pListLast, NULL} : Retop(Advance(Seen(Top), p, "func"))
  /\ Touch({Top.p}) /\ UNCHANGED t

ReverseRemove ==
  LET k == t.mem[Top.p].key
      d == FindDel(t, k)
  IN /\ Running({"reverse"}, "func") /\ MayRemove
     /\ IF d = NULL THEN Retop(Advance(Seen(Top), t.mem[Top.p].pListLast, "func"))
                         /\ UNCHANGED t
        ELSE /\ \E p \in {t.mem[Top.p].pListLast, NULL} :
                  stack' = Append([stack EXCEPT ![Len(stack)] =
                                     Advance(Seen(Top), p, "saved")],
                                  Frame("del", "dtor", d))
             /\ t' = Unlink(t, d)
     /\ Touch({Top.p} \cup Range(Chain(t, k.h)) \cup Around(IF d = NULL THEN Top.p ELSE d))

ReverseNext ==
  /\ Running({"reverse"}, "saved")
  /\ Retop([Top EXCEPT !.phase = "func"]) /\ UNCHANGED <<t, fault>>

ApplyEnd ==
  /\ Running({"apply", "reverse"}, "end")
  /\ t' = [t EXCEPT !.nApplyCount = @ - 1]
  /\ Pop /\ UNCHANGED fault

-----------------------------------------------------------------------------
(***************************************************************************)
(* zend_hash_clean(), zend_hash_destroy(), zend_hash_graceful_destroy().   *)
(***************************************************************************)
\* p is the element to destroy, q the next one, read before its destructor runs.
CleanAt(f, p) ==
  Advance([f EXCEPT !.q = IF p = NULL THEN NULL ELSE t.mem[p].pListNext], p, "dtor")

CleanStart(op) ==
  /\ May(op)
  /\ Push(CleanAt(Frame(op, "dtor", NULL), t.pListHead))
  /\ UNCHANGED <<t, fault>>

CleanNext ==
  /\ Running({"clean", "destroy"}, "dtor")
  /\ t' = [t EXCEPT !.alive = @ \ {Top.p}]
  /\ Retop(CleanAt(Top, Top.q))
  /\ Touch({Top.p, Top.q} \ {NULL})

\* A destroyed table is used again only after zend_hash_init().
CleanEnd ==
  /\ Running({"clean", "destroy", "graceful"}, "end")
  /\ t' = IF Top.op = "clean"
            THEN [t EXCEPT !.mem = Empty.mem,
                           !.arBuckets = [i \in DOMAIN @ |-> NULL],
                           !.pListHead = NULL, !.pListTail = NULL,
                           !.pInternalPointer = NULL, !.nNumOfElements = 0,
                           !.nNextFreeElement = 0]
            ELSE [Empty EXCEPT !.alive = t.alive]
  /\ Pop /\ UNCHANGED fault

-----------------------------------------------------------------------------
(***************************************************************************)
(* zend_hash_sort(): the buckets are copied, compared, and linked anew.    *)
(***************************************************************************)
SortStart(op) ==
  /\ May(op) /\ t.nNumOfElements > 1
  /\ Push([Frame(op, "compare", NULL) EXCEPT !.arr = List(t)])
  /\ UNCHANGED <<t, fault>>

Relink(s, arr) ==
  LET s1 == [s EXCEPT !.mem = [c \in Cells |->
               IF c \notin Range(arr) THEN @[c]
               ELSE LET j == CHOOSE i \in DOMAIN arr : arr[i] = c
                    IN [@[c] EXCEPT
                          !.pListLast = IF j = 1 THEN NULL ELSE arr[j - 1],
                          !.pListNext = IF j = Len(arr) THEN NULL ELSE arr[j + 1]]]]
  IN [s1 EXCEPT !.pListHead = arr[1], !.pListTail = Last(arr),
                !.pInternalPointer = arr[1]]

Renumber(s) ==
  LET l == List(s)
  IN Rehash([s EXCEPT
       !.mem = [c \in Cells |->
                  IF c \notin Range(l) THEN @[c]
                  ELSE [@[c] EXCEPT !.key = Key((CHOOSE i \in DOMAIN l : l[i] = c) - 1, 0)]],
       !.nNextFreeElement = Len(l)])

SortEnd ==
  /\ Running({"sort", "sortnew"}, "compare")
  /\ \E arr \in SetToSeqs(Range(Top.arr)) :
       t' = IF Top.op = "sort" THEN Relink(t, arr) ELSE Renumber(Relink(t, arr))
  /\ Touch(Range(Top.arr)) /\ Pop

\* The internal pointer: reset, end, next, prev.
MovePointer ==
  LET ip == t.pInternalPointer IN
  /\ May("point")
  /\ \E p \in {t.pListHead, t.pListTail}
              \cup (IF ip = NULL THEN {}
                    ELSE {t.mem[ip].pListNext, t.mem[ip].pListLast}) :
       t' = [t EXCEPT !.pInternalPointer = p]
  /\ Touch({ip} \ {NULL}) /\ UNCHANGED stack

\* exit(), a fatal error or a timeout in a callback: zend_bailout() longjmps to
\* the request's zend_try and the operations in progress never return.
Bailout ==
  /\ Bailouts /\ ~fault /\ stack # <<>> /\ Top.phase \in {"func", "dtor", "compare"}
  /\ stack' = <<>> /\ UNCHANGED <<t, fault>>

Call ==
  \/ \E k \in Keys, v \in Values : Insert(k, v) \/ Update(k, v)
  \/ \E k \in Keys : Delete(k)
  \/ \E op \in {"apply", "reverse"} : ApplyStart(op) \/ ApplyRefused(op)
  \/ \E op \in {"clean", "destroy", "graceful"} : CleanStart(op)
  \/ \E op \in {"sort", "sortnew"} : SortStart(op)
  \/ MovePointer

Return ==
  \/ UpdateReturn \/ DeleteReturn \/ ApplyKeep \/ ApplyRemove \/ ApplyDeleted
  \/ ReverseKeep \/ ReverseRemove \/ ReverseNext \/ ApplyEnd
  \/ CleanNext \/ CleanEnd \/ SortEnd

Next == Call \/ Return \/ Bailout
Spec == Init /\ [][Next]_vars
FairSpec == Spec /\ WF_vars(Return)

-----------------------------------------------------------------------------
\* No operation touches a bucket after it has been freed, whatever its callbacks
\* do to the table within their contract.
NoUseAfterFree == ~fault

Cleaning == \E i \in DOMAIN stack : stack[i].op \in {"clean", "destroy"}

Linked(s, seq, last) ==
  /\ IsInjective(seq)
  /\ \A i \in DOMAIN seq :
       s.mem[seq[i]][last] = IF i = 1 THEN NULL ELSE seq[i - 1]

\* Both kinds of lists agree, forwards and backwards, on the same set of
\* elements, whenever a callback or the caller can look at the table, and a lookup of
\* a key finds the one element that has it, or there is none: also after a resize.
WellFormed ==
  LET l == List(t) IN
  ~fault /\ ~Cleaning =>
    /\ Linked(t, l, "pListLast") /\ Range(l) \subseteq t.alive
    /\ t.pListTail = IF l = <<>> THEN NULL ELSE Last(l)
    /\ t.pInternalPointer \in Range(l) \cup {NULL}
    /\ \A i \in DOMAIN t.arBuckets :
         LET c == Walk(t, t.arBuckets[i], "pNext") IN
         /\ Linked(t, c, "pLast")
         /\ Range(c) = {p \in Range(l) : Slot(t, t.mem[p].key.h) = i}
    /\ \A k \in Keys : {p \in Range(l) : t.mem[p].key = k} = {Find(t, k)} \ {NULL}

\* nNumOfElements is the number of elements, those in the hands of their
\* destructor included, and no bucket is lost.
CountExact ==
  ~fault /\ ~Cleaning =>
    LET dying == {i \in DOMAIN stack : stack[i].op = "del"} IN
    /\ t.nNumOfElements = Len(List(t)) + Cardinality(dying)
    /\ t.alive = Range(List(t)) \cup {stack[i].p : i \in dying}

\* An apply calls its function once, and not twice, for every element that is
\* there from its beginning to its end, whatever is added and removed meanwhile.
ApplyComplete ==
  \A i \in DOMAIN stack :
    LET f == stack[i] IN
    f.op \in {"apply", "reverse"} /\ ~fault =>
      /\ f.phase \in {"func", "saved"} => f.p \notin f.seen
      /\ f.phase = "end" /\ f.op = "apply" => f.owed \cap Range(List(t)) \subseteq f.seen
=============================================================================
