-------------------------- MODULE HashTable_proofs --------------------------
(***************************************************************************)
(* Proofs about HashTable, for tables, keys and nestings of any size: the  *)
(* four invariants of its runs, and that it implements OrderedMap.         *)
(*                                                                         *)
(* The invariant says that one set L of buckets is, at every moment,       *)
(*   - the global list, and cut into one chain for each slot, all of them  *)
(*     doubly linked and without rings (Sound);                            *)
(*   - where the operations in progress have their pointers: a bucket that *)
(*     an operation holds is in L, or its deletion is under way (Frames);  *)
(*   - what is allocated, with those buckets, and what is counted, when    *)
(*     all operations return (Counted).                                    *)
(* An operation on the pointers of a few cells is shown to insert a cell   *)
(* into a doubly linked list or to take one out of it, whatever the lists  *)
(* look like elsewhere; the walks of the model then follow the list.       *)
(*                                                                         *)
(* A backward apply, the cleaning of a table, during which the list holds  *)
(* freed buckets, and a sort have invariants of their own (Reversing,      *)
(* CleaningUp, Sorting).  The theorems are about the executions in which   *)
(* these run while callbacks leave the table alone (Alone), and about      *)
(* those without them in which callbacks use the table at will             *)
(* (Callbacks); Uses allows both kinds.                                    *)
(***************************************************************************)
EXTENDS HashTableMap, FiniteSetTheorems, SequenceTheorems, WellFoundedInduction, TLAPS

\* Two sequences are the same that have the same elements.
LEMMA SeqSame ==
  ASSUME NEW S, NEW a \in Seq(S), NEW b \in Seq(S), Len(a) = Len(b),
         \A i \in 1..Len(a) : a[i] = b[i]
  PROVE  a = b
<1>1. a \in [1..Len(a) -> S] /\ b \in [1..Len(a) -> S]
  BY LenProperties
<1>2. a = [i \in 1..Len(a) |-> a[i]] /\ b = [i \in 1..Len(a) |-> b[i]]
  BY <1>1
<1> QED
  BY <1>2

\* A set of naturals has a least member.
LEMMA Least ==
  ASSUME NEW T, T \subseteq Nat, T # {}
  PROVE  \E x \in T : \A y \in T : x <= y
<1> DEFINE R == OpToRel(<, Nat)
<1>1. IsWellFoundedOn(R, Nat)
  BY NatLessThanWellFounded
<1>2. \A x, y \in Nat : <<x, y>> \in R <=> x < y
  BY DEF OpToRel
<1> HIDE DEF R
<1>3. PICK x \in T : \A y \in T : ~ (<<y, x>> \in R)
  BY <1>1, WFMin
<1>4. ASSUME NEW y \in T PROVE x <= y
  <2>1. x \in Nat /\ y \in Nat /\ <<y, x>> \notin R
    BY <1>3
  <2>2. ~ (y < x)
    BY <2>1, <1>2
  <2> QED
    BY <2>1, <2>2
<1> QED
  BY <1>4

(***************************************************************************)
(* Lists: the cells L with the links f forwards and g backwards.  No cells *)
(* are in a ring: among some of them there is always one whose predecessor *)
(* is none of them.                                                        *)
(***************************************************************************)
Acyclic(m, L, g) == \A D \in SUBSET L : D # {} => \E d \in D : m[d][g] \notin D

ListOf(m, L, head, f, g) ==
  /\ L \subseteq Cells /\ head \in L \cup {NULL}
  /\ \A c \in L : /\ m[c][f] \in L \cup {NULL} /\ m[c][g] \in L \cup {NULL}
                  /\ m[c][f] # NULL => m[m[c][f]][g] = c
                  /\ m[c][g] # NULL => m[m[c][g]][f] = c
                  /\ m[c][g] = NULL <=> c = head
  /\ Acyclic(m, L, g)

\* tail is the last one.
Ends(m, L, tail, f) ==
  /\ tail \in L \cup {NULL} /\ (L # {} => tail # NULL)
  /\ \A c \in L : m[c][f] = NULL <=> c = tail

LEMMA NotNull == NULL \notin Cells /\ \A c \in Cells : c # NULL
  BY TableAssumption DEF NULL, Cells

LEMMA HeadIs ==
  ASSUME NEW m, NEW L, NEW head, NEW f, NEW g, ListOf(m, L, head, f, g), L # {}
  PROVE  head \in L
<1>1. PICK d \in L : m[d][g] \notin L
  BY DEF ListOf, Acyclic
<1> QED
  BY <1>1 DEF ListOf

\* Other cells may change, and other links.
LEMMA ListSame ==
  ASSUME NEW m, NEW L, NEW head, NEW f, NEW g, ListOf(m, L, head, f, g),
         NEW m2, \A c \in L : m2[c][f] = m[c][f] /\ m2[c][g] = m[c][g]
  PROVE  ListOf(m2, L, head, f, g)
<1>1. \A c \in L : m[c][f] \in L \cup {NULL} /\ m[c][g] \in L \cup {NULL}
  BY DEF ListOf
<1>2. \A c \in L : /\ m2[c][f] # NULL => m2[m2[c][f]][g] = c
                   /\ m2[c][g] # NULL => m2[m2[c][g]][f] = c
  BY <1>1 DEF ListOf
<1>3. Acyclic(m2, L, g)
  BY DEF ListOf, Acyclic
<1> QED
  BY <1>1, <1>2, <1>3 DEF ListOf

\* A cell more at the head.
LEMMA ListPush ==
  ASSUME NEW m, NEW L, NEW head, NEW f, NEW g, ListOf(m, L, head, f, g),
         NEW p \in Cells, p \notin L, NEW m2, m2[p][f] = head, m2[p][g] = NULL,
         \A c \in L : m2[c][f] = m[c][f] /\ m2[c][g] = IF c = head THEN p ELSE m[c][g]
  PROVE  ListOf(m2, L \cup {p}, p, f, g)
<1> DEFINE K == L \cup {p}
<1>1. /\ L \subseteq Cells /\ head \in L \cup {NULL} /\ p # NULL /\ NULL \notin L
      /\ \A c \in L : /\ m[c][f] \in L \cup {NULL} /\ m[c][g] \in L \cup {NULL}
                      /\ m[c][f] # NULL => m[m[c][f]][g] = c
                      /\ m[c][g] # NULL => m[m[c][g]][f] = c
                      /\ m[c][g] = NULL <=> c = head
  BY NotNull DEF ListOf
<1>2. ASSUME NEW c \in L
      PROVE  /\ m2[c][f] \in K \cup {NULL} /\ m2[c][g] \in K \cup {NULL}
             /\ m2[c][f] # NULL => m2[m2[c][f]][g] = c
             /\ m2[c][g] # NULL => m2[m2[c][g]][f] = c
             /\ m2[c][g] # NULL
  <2>1. m2[c][f] \in L \cup {NULL} /\ m2[c][g] \in K /\ m2[c][g] # NULL
    BY <1>1
  <2>2. ASSUME m2[c][f] # NULL PROVE m2[m2[c][f]][g] = c
    <3>1. m[c][f] \in L /\ m2[c][f] = m[c][f] /\ m[m[c][f]][g] = c
      BY <1>1, <2>2
    <3>2. m[c][f] # head
      BY <1>1, <3>1
    <3> QED
      BY <3>1, <3>2
  <2>3. m2[m2[c][g]][f] = c
    <3>1. CASE c = head
      BY <3>1
    <3>2. CASE c # head
      BY <3>2, <1>1
    <3> QED
      BY <3>1, <3>2
  <2> QED
    BY <2>1, <2>2, <2>3
<1>3. /\ m2[p][f] \in K \cup {NULL} /\ m2[p][g] = NULL
      /\ m2[p][f] # NULL => m2[m2[p][f]][g] = p
  BY <1>1
<1>4. ASSUME NEW D \in SUBSET K, D # {} PROVE \E d \in D : m2[d][g] \notin D
  <2>1. CASE p \in D
    BY <2>1, <1>1
  <2>2. CASE p \notin D
    <3>1. PICK d \in D : m[d][g] \notin D
      BY <2>2, <1>4 DEF ListOf, Acyclic
    <3>2. m2[d][g] \in {p, m[d][g]}
      BY <2>2, <3>1
    <3> QED
      BY <3>1, <3>2, <2>2
  <2> QED
    BY <2>1, <2>2
<1> QED
  BY <1>1, <1>2, <1>3, <1>4 DEF ListOf, Acyclic

\* A cell more at the tail.
LEMMA ListAppend ==
  ASSUME NEW m, NEW L, NEW head, NEW f, NEW g, ListOf(m, L, head, f, g),
         NEW tail, Ends(m, L, tail, f),
         NEW p \in Cells, p \notin L, NEW m2, m2[p][f] = NULL, m2[p][g] = tail,
         \A c \in L : m2[c][g] = m[c][g] /\ m2[c][f] = IF c = tail THEN p ELSE m[c][f]
  PROVE  /\ ListOf(m2, L \cup {p}, IF head = NULL THEN p ELSE head, f, g)
         /\ Ends(m2, L \cup {p}, p, f)
<1> DEFINE K == L \cup {p}
           new == IF head = NULL THEN p ELSE head
<1>1. /\ L \subseteq Cells /\ head \in L \cup {NULL} /\ p # NULL /\ NULL \notin L
      /\ \A c \in L : /\ m[c][f] \in L \cup {NULL} /\ m[c][g] \in L \cup {NULL}
                      /\ m[c][f] # NULL => m[m[c][f]][g] = c
                      /\ m[c][g] # NULL => m[m[c][g]][f] = c
                      /\ m[c][g] = NULL <=> c = head
  BY NotNull DEF ListOf
<1>2. /\ tail \in L \cup {NULL} /\ (L # {} => tail # NULL)
      /\ \A c \in L : m[c][f] = NULL <=> c = tail
  BY DEF Ends
<1>3. head = NULL <=> tail = NULL
  <2>1. L # {} => head \in L
    BY HeadIs
  <2> QED
    BY <2>1, <1>1, <1>2
<1>4. ASSUME NEW c \in L
      PROVE  /\ m2[c][f] \in K /\ m2[c][g] \in K \cup {NULL}
             /\ m2[m2[c][f]][g] = c
             /\ m2[c][g] # NULL => m2[m2[c][g]][f] = c
             /\ m2[c][g] = NULL <=> c = new
  <2>1. m2[c][f] \in K /\ m2[c][g] \in L \cup {NULL}
    BY <1>1, <1>2
  <2>2. m2[m2[c][f]][g] = c
    <3>1. CASE c = tail
      BY <3>1
    <3>2. CASE c # tail
      BY <3>2, <1>1, <1>2
    <3> QED
      BY <3>1, <3>2
  <2>3. ASSUME m2[c][g] # NULL PROVE m2[m2[c][g]][f] = c
    <3>1. m[c][g] \in L /\ m[m[c][g]][f] = c /\ c # NULL /\ m2[c][g] = m[c][g]
      BY <2>3, <1>1
    <3>2. m[c][g] # tail
      BY <3>1, <1>2
    <3> QED
      BY <3>1, <3>2
  <2>4. m2[c][g] = NULL <=> c = new
    BY <1>1
  <2> QED
    BY <2>1, <2>2, <2>3, <2>4
<1>5. /\ m2[p][g] \in K \cup {NULL}
      /\ m2[p][g] # NULL => m2[m2[p][g]][f] = p
      /\ m2[p][g] = NULL <=> p = new
  BY <1>1, <1>2, <1>3
<1>6. ASSUME NEW D \in SUBSET K, D # {} PROVE \E d \in D : m2[d][g] \notin D
  <2>1. CASE D \ {p} = {}
    <3>1. D = {p} /\ m2[p][g] # p
      BY <2>1, <1>6, <1>1, <1>2
    <3> QED
      BY <3>1
  <2>2. CASE D \ {p} # {}
    <3>1. PICK d \in D \ {p} : m[d][g] \notin D \ {p}
      <4>1. D \ {p} \in SUBSET L
        OBVIOUS
      <4> QED
        BY <4>1, <2>2 DEF ListOf, Acyclic
    <3>2. d \in L /\ m2[d][g] = m[d][g] /\ m[d][g] # p
      BY <3>1, <1>1
    <3> QED
      BY <3>1, <3>2
  <2> QED
    BY <2>1, <2>2
<1>7. new \in K
  BY <1>1
<1>8. ListOf(m2, K, new, f, g)
  <2> HIDE DEF new
  <2>1. ASSUME NEW c \in K
        PROVE  /\ m2[c][f] \in K \cup {NULL} /\ m2[c][g] \in K \cup {NULL}
               /\ m2[c][f] # NULL => m2[m2[c][f]][g] = c
               /\ m2[c][g] # NULL => m2[m2[c][g]][f] = c
               /\ m2[c][g] = NULL <=> c = new
    <3>1. CASE c \in L
      BY <3>1, <1>4
    <3>2. CASE c = p
      BY <3>2, <1>5
    <3> QED
      BY <3>1, <3>2
  <2>2. Acyclic(m2, K, g)
    BY <1>6 DEF Acyclic
  <2> QED
    BY <2>1, <2>2, <1>1, <1>7 DEF ListOf
<1>9. Ends(m2, K, p, f)
  BY <1>1, <1>4 DEF Ends
<1> QED
  BY <1>8, <1>9

\* A cell less: the links to it go past it.
LEMMA ListRemove ==
  ASSUME NEW m, NEW L, NEW head, NEW f, NEW g, ListOf(m, L, head, f, g),
         NEW p \in L, NEW m2,
         \A c \in L \ {p} : /\ m2[c][f] = IF c = m[p][g] THEN m[p][f] ELSE m[c][f]
                            /\ m2[c][g] = IF c = m[p][f] THEN m[p][g] ELSE m[c][g]
  PROVE  ListOf(m2, L \ {p}, IF m[p][g] = NULL THEN m[p][f] ELSE head, f, g)
<1> DEFINE K == L \ {p}
           new == IF m[p][g] = NULL THEN m[p][f] ELSE head
<1>1. /\ L \subseteq Cells /\ head \in L \cup {NULL} /\ p # NULL /\ NULL \notin L
      /\ \A c \in L : /\ m[c][f] \in L \cup {NULL} /\ m[c][g] \in L \cup {NULL}
                      /\ m[c][f] # NULL => m[m[c][f]][g] = c
                      /\ m[c][g] # NULL => m[m[c][g]][f] = c
                      /\ m[c][g] = NULL <=> c = head
  BY NotNull DEF ListOf
<1>2. m[p][g] # p /\ m[p][f] # p
  <2>1. m[p][g] # p
    <3>1. \E d \in {p} : m[d][g] \notin {p}
      BY DEF ListOf, Acyclic
    <3> QED
      BY <3>1
  <2> QED
    BY <2>1, <1>1
<1>3. new \in K \cup {NULL}
  BY <1>1, <1>2
<1>4. ASSUME NEW c \in K
      PROVE  /\ m2[c][f] \in K \cup {NULL} /\ m2[c][g] \in K \cup {NULL}
             /\ m2[c][f] # NULL => m2[m2[c][f]][g] = c
             /\ m2[c][g] # NULL => m2[m2[c][g]][f] = c
             /\ m2[c][g] = NULL <=> c = new
  <2>1. m2[c][f] \in K \cup {NULL} /\ m2[c][g] \in K \cup {NULL}
    BY <1>1, <1>2
  <2>2. ASSUME m2[c][f] # NULL PROVE m2[m2[c][f]][g] = c
    <3>1. CASE c = m[p][g]
      BY <3>1, <2>2, <2>1, <1>1, <1>2
    <3>2. CASE c # m[p][g]
      <4>1. m2[c][f] = m[c][f] /\ m[m[c][f]][g] = c /\ m[c][f] \in K
        BY <3>2, <2>2, <2>1, <1>1
      <4>2. m[c][f] # m[p][f]
        BY <4>1, <1>1
      <4> QED
        BY <4>1, <4>2
    <3> QED
      BY <3>1, <3>2
  <2>3. ASSUME m2[c][g] # NULL PROVE m2[m2[c][g]][f] = c
    <3>1. CASE c = m[p][f]
      BY <3>1, <2>3, <2>1, <1>1, <1>2
    <3>2. CASE c # m[p][f]
      <4>1. m2[c][g] = m[c][g] /\ m[m[c][g]][f] = c /\ m[c][g] \in K
        BY <3>2, <2>3, <2>1, <1>1
      <4>2. m[c][g] # m[p][g]
        BY <4>1, <1>1
      <4> QED
        BY <4>1, <4>2
    <3> QED
      BY <3>1, <3>2
  <2>4. m2[c][g] = NULL <=> c = new
    <3>1. CASE c = m[p][f]
      BY <3>1, <1>1, <1>2
    <3>2. CASE c # m[p][f]
      BY <3>2, <1>1, <1>2
    <3> QED
      BY <3>1, <3>2
  <2> QED
    BY <2>1, <2>2, <2>3, <2>4
<1>5. ASSUME NEW D \in SUBSET K, D # {} PROVE \E d \in D : m2[d][g] \notin D
  <2>1. D \in SUBSET L /\ D \cup {p} \in SUBSET L
    OBVIOUS
  <2>2. PICK d \in D \cup {p} : m[d][g] \notin D \cup {p}
    BY <2>1, <1>5 DEF ListOf, Acyclic
  <2>3. CASE d # p
    BY <2>3, <2>2, <1>1
  <2>4. CASE d = p
    <3>1. PICK e \in D : m[e][g] \notin D
      BY <2>1, <1>5 DEF ListOf, Acyclic
    <3>2. m2[e][g] \in {m[e][g], m[p][g]}
      BY <3>1
    <3>3. m[p][g] \notin D
      BY <2>2, <2>4
    <3> QED
      BY <3>1, <3>2, <3>3
  <2> QED
    BY <2>3, <2>4
<1>6. Acyclic(m2, K, g)
  BY <1>5 DEF Acyclic
<1> QED
  <2> HIDE DEF new
  <2>1. ListOf(m2, K, new, f, g)
    BY <1>1, <1>3, <1>4, <1>6 DEF ListOf
  <2> QED
    BY <2>1 DEF new

LEMMA EndsRemove ==
  ASSUME NEW m, NEW L, NEW head, NEW f, NEW g, ListOf(m, L, head, f, g),
         NEW p \in L, NEW m2,
         \A c \in L \ {p} : /\ m2[c][f] = IF c = m[p][g] THEN m[p][f] ELSE m[c][f]
                            /\ m2[c][g] = IF c = m[p][f] THEN m[p][g] ELSE m[c][g],
         NEW tail, Ends(m, L, tail, f)
  PROVE  Ends(m2, L \ {p}, IF m[p][f] = NULL THEN m[p][g] ELSE tail, f)
<1>1. /\ L \subseteq Cells /\ p # NULL /\ NULL \notin L
      /\ \A c \in L : /\ m[c][f] \in L \cup {NULL} /\ m[c][g] \in L \cup {NULL}
                      /\ m[c][f] # NULL => m[m[c][f]][g] = c
                      /\ m[c][g] # NULL => m[m[c][g]][f] = c
  BY NotNull DEF ListOf
<1>2. /\ tail \in L \cup {NULL} /\ (L # {} => tail # NULL)
      /\ \A c \in L : m[c][f] = NULL <=> c = tail
  BY DEF Ends
<1>3. m[p][g] # p /\ m[p][f] # p
  <2>1. \E d \in {p} : m[d][g] \notin {p}
    BY DEF ListOf, Acyclic
  <2> QED
    BY <2>1, <1>1
<1>4. CASE m[p][f] = NULL
  <2>1. p = tail
    BY <1>4, <1>2
  <2>2. m[p][g] \in (L \ {p}) \cup {NULL}
    BY <1>1, <1>3
  <2>3. L \ {p} # {} => m[p][g] # NULL
    <3>1. SUFFICES ASSUME NEW d \in L \ {p}, m[p][g] = NULL PROVE FALSE
      OBVIOUS
    <3>2. PICK e \in L \ {p} : m[e][g] \notin L \ {p}
      BY DEF ListOf, Acyclic
    <3>3. m[e][g] = p \/ m[e][g] = NULL
      BY <3>2, <1>1
    <3>4. m[e][g] # p
      BY <3>2, <1>1, <1>4
    <3>5. e = head /\ p = head
      BY <3>1, <3>2, <3>3, <3>4 DEF ListOf
    <3> QED
      BY <3>5, <3>2
  <2>4. \A c \in L \ {p} : m2[c][f] = NULL <=> c = m[p][g]
    BY <1>4, <2>1, <1>2, <1>1
  <2> QED
    BY <2>2, <2>3, <2>4, <1>4 DEF Ends
<1>5. CASE m[p][f] # NULL
  <2>1. p # tail /\ tail \in L \ {p}
    BY <1>5, <1>2
  <2>2. \A c \in L \ {p} : m2[c][f] = NULL <=> c = tail
    BY <1>5, <1>2, <1>1
  <2>3. tail # NULL
    BY <2>1, <1>1
  <2> QED
    BY <2>1, <2>2, <2>3, <1>5 DEF Ends
<1> QED
  BY <1>4, <1>5

(***************************************************************************)
(* Walk follows the links of a list from its head to its end.              *)
(***************************************************************************)
Steps == 1..MaxCells + 1

WalkStep(s, c, field, g, i) ==
  IF i = 1 THEN c ELSE IF g[i - 1] = NULL THEN NULL ELSE s.mem[g[i - 1]][field]

WalkAt(s, c, field) == CHOOSE g : g = [i \in Steps |-> WalkStep(s, c, field, g, i)]

LEMMA WalkIsAt ==
  ASSUME NEW s, NEW c, NEW field
  PROVE  Walk(s, c, field) =
           [i \in 1..Cardinality({j \in Steps : WalkAt(s, c, field)[j] # NULL})
              |-> WalkAt(s, c, field)[i]]
  BY DEF Walk, WalkAt, WalkStep, Steps

LEMMA WalkAtStep ==
  ASSUME NEW s, NEW c, NEW field, NEW i \in Steps
  PROVE  WalkAt(s, c, field)[i] = WalkStep(s, c, field, WalkAt(s, c, field), i)
<1> DEFINE Upto(n) == \E g : \A j \in 1..n : g[j] = WalkStep(s, c, field, g, j)
           Wrong == {n \in Nat : ~ Upto(n)}
<1>1. Upto(0)
  <2>1. \A g : \A j \in 1..0 : g[j] = WalkStep(s, c, field, g, j)
    OBVIOUS
  <2> QED
    BY <2>1
<1>2. ASSUME NEW n \in Nat, Upto(n) PROVE Upto(n + 1)
  <2>1. PICK g : \A j \in 1..n : g[j] = WalkStep(s, c, field, g, j)
    BY <1>2
  <2> DEFINE h == [j \in 1..n + 1 |->
                     IF j \in 1..n THEN g[j] ELSE WalkStep(s, c, field, g, j)]
  <2>2. ASSUME NEW j \in 1..n + 1 PROVE h[j] = WalkStep(s, c, field, h, j)
    <3>1. h[j] = WalkStep(s, c, field, g, j)
      BY <2>1
    <3>2. j # 1 => h[j - 1] = g[j - 1]
      OBVIOUS
    <3> QED
      BY <3>1, <3>2 DEF WalkStep
  <2> QED
    BY <2>2
<1>3. Wrong = {}
  <2> SUFFICES ASSUME Wrong # {} PROVE FALSE
    OBVIOUS
  <2>1. PICK n \in Wrong : \A k \in Wrong : n <= k
    <3> HIDE DEF Upto
    <3> QED
      BY Least
  <2>2. n # 0 /\ n \in Nat /\ ~ Upto(n)
    BY <1>1, <2>1
  <2>3. n - 1 \in Nat /\ (n - 1) + 1 = n /\ n - 1 \notin Wrong
    BY <2>1, <2>2
  <2> HIDE DEF Upto
  <2> QED
    BY <1>2, <2>2, <2>3
<1>4. MaxCells + 1 \in Nat
  BY TableAssumption
<1>5. PICK g : \A j \in Steps : g[j] = WalkStep(s, c, field, g, j)
  BY <1>3, <1>4 DEF Steps
<1> DEFINE h == [j \in Steps |-> g[j]]
<1>6. h = [j \in Steps |-> WalkStep(s, c, field, h, j)]
  <2>1. ASSUME NEW j \in Steps PROVE h[j] = WalkStep(s, c, field, h, j)
    <3>1. h[j] = WalkStep(s, c, field, g, j)
      BY <1>5
    <3>2. j # 1 => h[j - 1] = g[j - 1]
      BY <1>4 DEF Steps
    <3> QED
      BY <3>1, <3>2 DEF WalkStep
  <2> QED
    BY <2>1
<1>7. WalkAt(s, c, field) = [j \in Steps |-> WalkStep(s, c, field, WalkAt(s, c, field), j)]
  <2> HIDE DEF h
  <2> QED
    BY <1>6 DEF WalkAt
<1> QED
  BY <1>7

Walks(s, w, L, head, f, g) ==
  /\ w \in Seq(L) /\ Range(w) = L /\ IsInjective(w)
  /\ IsFiniteSet(L) /\ Len(w) = Cardinality(L)
  /\ L # {} => 1 \in DOMAIN w /\ w[1] = head
  /\ \A i \in DOMAIN w :
       /\ s.mem[w[i]][g] = IF i = 1 THEN NULL ELSE w[i - 1]
       /\ s.mem[w[i]][f] = IF i = Len(w) THEN NULL ELSE w[i + 1]

LEMMA WalkIs ==
  ASSUME NEW s, NEW L, NEW head, NEW f, NEW g, ListOf(s.mem, L, head, f, g)
  PROVE  Walks(s, Walk(s, head, f), L, head, f, g)
<1> DEFINE m == s.mem
           at == WalkAt(s, head, f)
           N  == MaxCells + 1
           w  == Walk(s, head, f)
<1>0. N \in Nat /\ N >= 1 /\ MaxCells \in Nat /\ Steps = 1..N
  BY TableAssumption DEF Steps
<1>1. /\ L \subseteq Cells /\ head \in L \cup {NULL} /\ NULL \notin L
      /\ \A c \in L : /\ m[c][f] \in L \cup {NULL} /\ m[c][g] \in L \cup {NULL}
                      /\ m[c][f] # NULL => m[m[c][f]][g] = c
                      /\ m[c][g] # NULL => m[m[c][g]][f] = c
                      /\ m[c][g] = NULL <=> c = head
  BY NotNull DEF ListOf
<1>2. \A i \in 1..N : at[i] = WalkStep(s, head, f, at, i)
  BY WalkAtStep, <1>0
<1> HIDE DEF at
<1>3. at[1] = head
  BY <1>2, <1>0 DEF WalkStep
<1>4. \A i \in 2..N : at[i] = IF at[i - 1] = NULL THEN NULL ELSE m[at[i - 1]][f]
  BY <1>2, <1>0 DEF WalkStep
<1>5. \A i \in 1..N : at[i] \in L \cup {NULL}
  <2> DEFINE Bad == {i \in 1..N : at[i] \notin L \cup {NULL}}
  <2> SUFFICES ASSUME Bad # {} PROVE FALSE
    OBVIOUS
  <2>1. PICK i \in Bad : \A j \in Bad : i <= j
    <3>1. Bad \subseteq Nat
      BY <1>0
    <3> HIDE DEF Bad
    <3> QED
      BY <3>1, Least
  <2>2. i # 1
    BY <2>1, <1>1, <1>3
  <2>3. i \in 2..N /\ i - 1 \in 1..N /\ i - 1 \notin Bad
    BY <2>1, <2>2, <1>0
  <2> QED
    BY <2>1, <2>3, <1>1, <1>4
<1>6. PICK n \in 0..N : \A i \in 1..N : at[i] # NULL <=> i <= n
  <2> DEFINE Nulls == {i \in 1..N : at[i] = NULL}
  <2>1. CASE Nulls = {}
    <3>1. N \in 0..N /\ \A i \in 1..N : at[i] # NULL <=> i <= N
      BY <2>1, <1>0
    <3> QED
      BY <3>1
  <2>2. CASE Nulls # {}
    <3>1. PICK e \in Nulls : \A j \in Nulls : e <= j
      <4>1. Nulls \subseteq Nat
        BY <1>0
      <4> HIDE DEF Nulls
      <4> QED
        BY <4>1, <2>2, Least
    <3> DEFINE Late == {i \in 1..N : e <= i /\ at[i] # NULL}
    <3>2. Late = {}
      <4> SUFFICES ASSUME Late # {} PROVE FALSE
        OBVIOUS
      <4>1. PICK i \in Late : \A j \in Late : i <= j
        <5>1. Late \subseteq Nat
          BY <1>0
        <5> HIDE DEF Late
        <5> QED
          BY <5>1, Least
      <4>2. i # e
        BY <4>1, <3>1
      <4>3. i \in 2..N /\ i - 1 \in 1..N /\ i - 1 \notin Late /\ e <= i - 1
        BY <4>1, <4>2, <3>1, <1>0
      <4> QED
        BY <4>1, <4>3, <1>4
    <3>3. e - 1 \in 0..N /\ \A i \in 1..N : at[i] # NULL <=> i <= e - 1
      BY <3>1, <3>2, <1>0
    <3> QED
      BY <3>3
  <2> QED
    BY <2>1, <2>2
<1>7. /\ n \in Nat /\ n <= N
      /\ \A i \in 1..n : at[i] \in L /\ at[i] # NULL /\ i \in 1..N
  BY <1>0, <1>1, <1>5, <1>6
<1>8. ASSUME NEW i \in 1..n, NEW j \in 1..n, i < j, at[i] = at[j] PROVE FALSE
  <2> DEFINE Bad == {x \in 1..n : \E y \in 1..n : x < y /\ at[x] = at[y]}
  <2>1. PICK x \in Bad : \A z \in Bad : x <= z
    <3>1. Bad \subseteq Nat /\ i \in Bad
      BY <1>7, <1>8
    <3> HIDE DEF Bad
    <3> QED
      BY <3>1, Least
  <2>2. PICK y \in 1..n : x < y /\ at[x] = at[y]
    BY <2>1
  <2>3. x \in 1..n /\ y \in 2..N /\ y - 1 \in 1..n
    BY <2>1, <2>2, <1>7
  <2>4. at[y] = m[at[y - 1]][f] /\ at[y - 1] \in L /\ at[y] # NULL
    BY <2>3, <1>4, <1>7
  <2>5. m[at[y]][g] = at[y - 1]
    BY <2>4, <1>1
  <2>6. x # 1
    <3> SUFFICES ASSUME x = 1 PROVE FALSE
      OBVIOUS
    <3>1. at[y] = head /\ at[y] \in L
      BY <2>2, <1>3, <2>3, <1>7
    <3>2. m[at[y]][g] = NULL
      BY <3>1, <1>1
    <3> QED
      BY <3>2, <2>5, <2>4, <1>1
  <2>7. x \in 2..N /\ x - 1 \in 1..n
    BY <2>3, <2>6, <1>7
  <2>8. at[x] = m[at[x - 1]][f] /\ at[x - 1] \in L /\ at[x] # NULL
    BY <2>7, <2>3, <1>4, <1>7
  <2>9. m[at[x]][g] = at[x - 1]
    BY <2>8, <1>1
  <2>10. at[x - 1] = at[y - 1] /\ x - 1 < y - 1
    BY <2>2, <2>3, <2>7, <2>5, <2>9
  <2> QED
    BY <2>10, <2>3, <2>7, <2>1
<1>9. n <= MaxCells
  <2> SUFFICES ASSUME n = N PROVE FALSE
    BY <1>7, <1>0
  <2> DEFINE h == [i \in 1..N |-> at[i]]
  <2>1. h \in [1..N -> Cells]
    BY <1>7, <1>1
  <2>2. /\ IsFiniteSet(1..N) /\ Cardinality(1..N) = N
        /\ IsFiniteSet(Cells) /\ Cardinality(Cells) = MaxCells
    <3>1. 1 \in Int /\ N \in Int /\ MaxCells \in Int /\ ~ (1 > N)
      BY <1>0
    <3>2. IsFiniteSet(1..N) /\ Cardinality(1..N) = N - 1 + 1
      BY <3>1, FS_Interval
    <3>3. /\ IsFiniteSet(1..MaxCells)
          /\ Cardinality(1..MaxCells) = IF 1 > MaxCells THEN 0 ELSE MaxCells - 1 + 1
      BY <3>1, FS_Interval
    <3> QED
      BY <3>2, <3>3, <1>0 DEF Cells
  <2>3. Cardinality(Cells) < Cardinality(1..N)
    BY <2>2, <1>0
  <2>4. \E i, j \in 1..N : i # j /\ h[i] = h[j]
    <3> HIDE DEF h, N
    <3> QED
      BY <2>1, <2>2, <2>3, FS_PigeonHole
  <2>5. PICK i \in 1..N, j \in 1..N : i # j /\ at[i] = at[j]
    BY <2>4
  <2>6. i < j \/ j < i
    BY <2>5, <1>0
  <2> QED
    BY <2>5, <2>6, <1>8
<1>10. w = [i \in 1..n |-> at[i]]
  <2>1. {j \in Steps : at[j] # NULL} = 1..n
    BY <1>0, <1>6, <1>7
  <2>2. Cardinality(1..n) = n
    <3>1. Cardinality(1..n) = IF 1 > n THEN 0 ELSE n - 1 + 1
      BY <1>7, FS_Interval
    <3> QED
      BY <3>1, <1>7
  <2> QED
    BY <2>1, <2>2, WalkIsAt DEF at
<1> HIDE DEF w
<1>11. w \in Seq(L) /\ Len(w) = n /\ DOMAIN w = 1..n
  BY <1>7, <1>10
<1>12. IsInjective(w)
  <2>1. ASSUME NEW i \in 1..n, NEW j \in 1..n, w[i] = w[j] PROVE i = j
    <3>1. at[i] = at[j]
      BY <2>1, <1>10
    <3>2. i < j \/ j < i \/ i = j
      BY <1>7
    <3> QED
      BY <3>1, <3>2, <1>8
  <2> QED
    BY <2>1, <1>11 DEF IsInjective
<1>13. \A i \in 1..n : /\ m[at[i]][g] = IF i = 1 THEN NULL ELSE at[i - 1]
                       /\ m[at[i]][f] = IF i = n THEN NULL ELSE at[i + 1]
  <2> SUFFICES ASSUME NEW i \in 1..n
               PROVE  /\ m[at[i]][g] = IF i = 1 THEN NULL ELSE at[i - 1]
                      /\ m[at[i]][f] = IF i = n THEN NULL ELSE at[i + 1]
    OBVIOUS
  <2>1. at[i + 1] = m[at[i]][f]
    <3>1. i + 1 \in 2..N /\ (i + 1) - 1 = i
      BY <1>0, <1>7, <1>9
    <3> QED
      BY <3>1, <1>4, <1>7
  <2>2. i = n => at[i + 1] = NULL
    <3>1. n + 1 \in 1..N /\ ~ (n + 1 <= n)
      BY <1>0, <1>7, <1>9
    <3> QED
      BY <3>1, <1>6
  <2>3. i # 1 => m[at[i]][g] = at[i - 1]
    <3>1. SUFFICES ASSUME i # 1 PROVE m[at[i]][g] = at[i - 1]
      OBVIOUS
    <3>2. i \in 2..N /\ i - 1 \in 1..n
      BY <3>1, <1>7
    <3>3. at[i] = m[at[i - 1]][f] /\ at[i - 1] \in L /\ at[i] # NULL
      BY <3>2, <1>4, <1>7
    <3> QED
      BY <3>3, <1>1
  <2>4. i = 1 => m[at[i]][g] = NULL
    BY <1>3, <1>7, <1>1
  <2> QED
    BY <2>1, <2>2, <2>3, <2>4
<1>14. \A i \in DOMAIN w :
          /\ m[w[i]][g] = IF i = 1 THEN NULL ELSE w[i - 1]
          /\ m[w[i]][f] = IF i = Len(w) THEN NULL ELSE w[i + 1]
  <2> SUFFICES ASSUME NEW i \in 1..n
               PROVE  /\ m[w[i]][g] = IF i = 1 THEN NULL ELSE w[i - 1]
                      /\ m[w[i]][f] = IF i = n THEN NULL ELSE w[i + 1]
    BY <1>11
  <2>1. w[i] = at[i]
    BY <1>10
  <2>2. i # 1 => w[i - 1] = at[i - 1]
    BY <1>10, <1>7
  <2>3. i # n => w[i + 1] = at[i + 1]
    BY <1>10, <1>7
  <2> QED
    BY <2>1, <2>2, <2>3, <1>13
<1>15. L # {} => 1 \in 1..n /\ at[1] = head
  <2>1. L # {} => head \in L
    BY HeadIs
  <2> QED
    BY <2>1, <1>1, <1>3, <1>6, <1>7, <1>0
<1>16. Range(w) = L
  <2> DEFINE R == {at[i] : i \in 1..n}
  <2>1. Range(w) = R
    BY <1>10 DEF Range
  <2>2. R \subseteq L
    BY <1>7
  <2>3. L \ R = {}
    <3> SUFFICES ASSUME L \ R # {} PROVE FALSE
      OBVIOUS
    <3>1. PICK d \in L \ R : m[d][g] \notin L \ R
      BY DEF ListOf, Acyclic
    <3>2. CASE m[d][g] = NULL
      BY <3>1, <3>2, <1>1, <1>15
    <3>3. CASE m[d][g] # NULL
      <4>1. PICK i \in 1..n : m[d][g] = at[i]
        BY <3>1, <3>3, <1>1
      <4>2. m[at[i]][f] = d
        BY <4>1, <3>1, <3>3, <1>1
      <4>3. i # n /\ d = at[i + 1]
        BY <4>2, <1>13, <1>1, <3>1
      <4>4. i + 1 \in 1..n
        BY <4>3, <1>7
      <4> QED
        BY <4>3, <4>4, <3>1
    <3> QED
      BY <3>2, <3>3
  <2> QED
    BY <2>1, <2>2, <2>3
<1>17. IsFiniteSet(L) /\ Cardinality(L) = n
  <2>1. IsFiniteSet(1..n) /\ Cardinality(1..n) = n
    <3>1. IsFiniteSet(1..n) /\ Cardinality(1..n) = IF 1 > n THEN 0 ELSE n - 1 + 1
      BY <1>7, FS_Interval
    <3> QED
      BY <3>1, <1>7
  <2>2. w \in Bijection(1..n, L)
    <3>1. w \in [1..n -> L]
      BY <1>7, <1>10
    <3>2. \A x \in L : \E i \in 1..n : w[i] = x
      BY <1>16, <1>11 DEF Range
    <3> QED
      BY <3>1, <3>2, <1>12, <1>11 DEF Bijection, Injection, Surjection, IsInjective
  <2>3. ExistsBijection(1..n, L)
    BY <2>2 DEF ExistsBijection
  <2> QED
    BY <2>1, <2>3, FS_Bijection
<1> QED
  BY <1>11, <1>12, <1>14, <1>15, <1>16, <1>17, <1>10 DEF w, Walks

(***************************************************************************)
(* The table as a record, and what a write to a link changes.              *)
(***************************************************************************)
Ptr    == Cells \cup {NULL}
Links  == {"pNext", "pLast", "pListNext", "pListLast"}
Bucket == [key : [h : Nat, name : Nat], data : Values \cup {0},
           pNext : Ptr, pLast : Ptr, pListNext : Ptr, pListLast : Ptr]
Slots  == UNION {[0..n - 1 -> Ptr] : n \in Nat \ {0}}
Table  == [mem : [Cells -> Bucket], alive : SUBSET Cells, arBuckets : Slots,
           pListHead : Ptr, pListTail : Ptr, pInternalPointer : Ptr,
           nNumOfElements : Int, nNextFreeElement : Nat, nApplyCount : Int]

Fields == {"alive", "arBuckets", "pListHead", "pListTail", "pInternalPointer",
           "nNumOfElements", "nNextFreeElement", "nApplyCount"}

\* All fields of the table but those of X are the same in s and s2, all fields of
\* the buckets but those of Y.
Keeps(s, s2, X, Y) ==
  /\ \A x \in Fields \ X : s2[x] = s[x]
  /\ \A c \in Cells : \A y \in (Links \cup {"key", "data"}) \ Y : s2.mem[c][y] = s.mem[c][y]

\* v has been written to the link f of the bucket c.
Wrote(s, s2, c, f, v) ==
  /\ s2 \in Table /\ Keeps(s, s2, {}, {f})
  /\ \A d \in Cells : s2.mem[d][f] = IF d = c THEN v ELSE s.mem[d][f]

LEMMA SetIs ==
  ASSUME NEW s \in Table, NEW c \in Ptr, NEW f \in Links, NEW v \in Ptr
  PROVE  Wrote(s, Set(s, c, f, v), c, f, v)
<1> DEFINE s2 == Set(s, c, f, v)
<1>1. CASE c = NULL
  <2>1. s2 = s
    BY <1>1 DEF Set
  <2> QED
    BY <2>1, <1>1, NotNull DEF Keeps, Wrote
<1>2. CASE c # NULL
  <2>1. c \in Cells /\ s2 = [s EXCEPT !.mem[c][f] = v]
    BY <1>2 DEF Set, Ptr
  <2>2. s2 = [s EXCEPT !.mem = [s.mem EXCEPT ![c] = [s.mem[c] EXCEPT ![f] = v]]]
    BY <2>1
  <2>3. s.mem \in [Cells -> Bucket] /\ s.mem[c] \in Bucket
    BY <2>1 DEF Table
  <2> DEFINE b == [s.mem[c] EXCEPT ![f] = v]
             m == [s.mem EXCEPT ![c] = b]
  <2>4. b \in Bucket /\ \A y \in (Links \cup {"key", "data"}) : b[y] = IF y = f THEN v ELSE s.mem[c][y]
    <3>1. CASE f = "pNext"
      BY <3>1, <2>3 DEF Bucket, Links
    <3>2. CASE f = "pLast"
      BY <3>2, <2>3 DEF Bucket, Links
    <3>3. CASE f = "pListNext"
      BY <3>3, <2>3 DEF Bucket, Links
    <3>4. CASE f = "pListLast"
      BY <3>4, <2>3 DEF Bucket, Links
    <3> QED
      BY <3>1, <3>2, <3>3, <3>4 DEF Links
  <2> HIDE DEF b
  <2>5. m \in [Cells -> Bucket] /\ \A d \in Cells : m[d] = IF d = c THEN b ELSE s.mem[d]
    BY <2>1, <2>3, <2>4
  <2> HIDE DEF m
  <2>6. s2 \in Table /\ s2.mem = m /\ \A x \in Fields : s2[x] = s[x]
    <3>1. s2 = [s EXCEPT !.mem = m]
      BY <2>2 DEF m, b
    <3> QED
      BY <3>1, <2>5 DEF Table, Fields
  <2>7. ASSUME NEW d \in Cells, NEW y \in (Links \cup {"key", "data"})
        PROVE  s2.mem[d][y] = IF d = c /\ y = f THEN v ELSE s.mem[d][y]
    BY <2>4, <2>5, <2>6
  <2>8. s2 \in Table /\ Keeps(s, s2, {}, {f})
    BY <2>6, <2>7 DEF Keeps
  <2>9. \A d \in Cells : s2.mem[d][f] = IF d = c THEN v ELSE s.mem[d][f]
    BY <2>7
  <2> QED
    BY <2>8, <2>9 DEF Wrote
<1> QED
  BY <1>1, <1>2

LEMMA KeepsTrans ==
  ASSUME NEW s, NEW s2, NEW s3, NEW X, NEW Y, NEW X2, NEW Y2,
         Keeps(s, s2, X, Y), Keeps(s2, s3, X2, Y2)
  PROVE  Keeps(s, s3, X \cup X2, Y \cup Y2)
<1>1. \A x \in Fields \ (X \cup X2) : s3[x] = s[x]
  BY DEF Keeps
<1>2. \A c \in Cells : \A y \in (Links \cup {"key", "data"}) \ (Y \cup Y2) :
        s3.mem[c][y] = s.mem[c][y]
  BY DEF Keeps
<1> QED
  BY <1>1, <1>2 DEF Keeps

LEMMA SlotIn ==
  ASSUME NEW s \in Table, NEW h \in Nat
  PROVE  /\ TableSize(s) \in Nat \ {0} /\ DOMAIN s.arBuckets = 0..TableSize(s) - 1
         /\ Slot(s, h) \in DOMAIN s.arBuckets
         /\ \A i \in DOMAIN s.arBuckets : s.arBuckets[i] \in Ptr
<1>1. PICK n \in Nat \ {0} : s.arBuckets \in [0..n - 1 -> Ptr]
  BY DEF Table, Slots
<1>2. DOMAIN s.arBuckets = 0..n - 1
  BY <1>1
<1>3. Cardinality(0..n - 1) = n
  <2>1. Cardinality(0..n - 1) = IF 0 > n - 1 THEN 0 ELSE (n - 1) - 0 + 1
    BY FS_Interval
  <2> QED
    BY <2>1
<1>4. TableSize(s) = n
  BY <1>2, <1>3 DEF TableSize
<1>5. h % n \in 0..n - 1
  OBVIOUS
<1> QED
  BY <1>1, <1>2, <1>4, <1>5 DEF Slot

(***************************************************************************)
(* The chains: the cells S, each in the list of its slot.                  *)
(***************************************************************************)
Of(s, S, i) == {c \in S : Slot(s, s.mem[c].key.h) = i}

Chained(s, S) ==
  \A i \in DOMAIN s.arBuckets : ListOf(s.mem, Of(s, S, i), s.arBuckets[i], "pNext", "pLast")

LEMMA SlotSame ==
  ASSUME NEW s, NEW s2, DOMAIN s2.arBuckets = DOMAIN s.arBuckets
  PROVE  \A h : Slot(s2, h) = Slot(s, h)
  BY DEF Slot, TableSize

LEMMA HashNat ==
  ASSUME NEW s \in Table, NEW c \in Cells
  PROVE  s.mem[c].key.h \in Nat
  BY DEF Table, Bucket

\* Nothing of the chains changes.
LEMMA ChainedIf ==
  ASSUME NEW s, NEW s2, NEW S, Chained(s, S), s2.arBuckets = s.arBuckets,
         \A c \in S : /\ s2.mem[c]["pNext"] = s.mem[c]["pNext"]
                      /\ s2.mem[c]["pLast"] = s.mem[c]["pLast"]
                      /\ s2.mem[c].key = s.mem[c].key
  PROVE  Chained(s2, S)
<1>1. ASSUME NEW i \in DOMAIN s.arBuckets
      PROVE  ListOf(s2.mem, Of(s2, S, i), s.arBuckets[i], "pNext", "pLast")
  <2>1. Of(s2, S, i) = Of(s, S, i) /\ Of(s, S, i) \subseteq S
    BY SlotSame DEF Of
  <2>2. ListOf(s.mem, Of(s, S, i), s.arBuckets[i], "pNext", "pLast")
    BY <1>1 DEF Chained
  <2>3. \A c \in Of(s, S, i) : /\ s2.mem[c]["pNext"] = s.mem[c]["pNext"]
                               /\ s2.mem[c]["pLast"] = s.mem[c]["pLast"]
    BY <2>1
  <2> QED
    BY <2>1, <2>2, <2>3, ListSame
<1> QED
  BY <1>1 DEF Chained

LEMMA ChainedSame ==
  ASSUME NEW s, NEW s2, NEW S \in SUBSET Cells, NEW X, NEW Y, Chained(s, S), Keeps(s, s2, X, Y),
         "arBuckets" \notin X, Y \cap {"pNext", "pLast", "key"} = {}
  PROVE  Chained(s2, S)
<1>1. s2.arBuckets = s.arBuckets
  BY DEF Keeps, Fields
<1>2. \A c \in S : /\ s2.mem[c]["pNext"] = s.mem[c]["pNext"]
                   /\ s2.mem[c]["pLast"] = s.mem[c]["pLast"]
                   /\ s2.mem[c].key = s.mem[c].key
  BY DEF Keeps, Links
<1> QED
  BY <1>1, <1>2, ChainedIf

\* A write to arBuckets.
LEMMA SlotSet ==
  ASSUME NEW s \in Table, NEW i \in DOMAIN s.arBuckets, NEW v \in Ptr
  PROVE  LET s2 == [s EXCEPT !.arBuckets[i] = v] IN
         /\ s2 \in Table /\ s2.mem = s.mem /\ Keeps(s, s2, {"arBuckets"}, {})
         /\ DOMAIN s2.arBuckets = DOMAIN s.arBuckets
         /\ s2.arBuckets[i] = v
         /\ \A j \in DOMAIN s.arBuckets : j # i => s2.arBuckets[j] = s.arBuckets[j]
<1> DEFINE ar == [s.arBuckets EXCEPT ![i] = v]
           s2 == [s EXCEPT !.arBuckets[i] = v]
<1>1. s2 = [s EXCEPT !.arBuckets = ar]
  OBVIOUS
<1>2. ar \in Slots
  <2>1. PICK n \in Nat \ {0} : s.arBuckets \in [0..n - 1 -> Ptr]
    BY DEF Table, Slots
  <2>2. ar \in [0..n - 1 -> Ptr]
    BY <2>1
  <2> QED
    BY <2>2 DEF Slots
<1>3. /\ DOMAIN ar = DOMAIN s.arBuckets /\ ar[i] = v
      /\ \A j \in DOMAIN s.arBuckets : j # i => ar[j] = s.arBuckets[j]
  <2>1. PICK n \in Nat \ {0} : s.arBuckets \in [0..n - 1 -> Ptr]
    BY DEF Table, Slots
  <2> QED
    BY <2>1
<1> HIDE DEF ar, s2
<1>4. /\ s2 \in Table /\ s2.mem = s.mem /\ s2.arBuckets = ar
      /\ \A x \in Fields \ {"arBuckets"} : s2[x] = s[x]
  BY <1>1, <1>2 DEF Table, Fields
<1> QED
  BY <1>3, <1>4 DEF Keeps, s2

\* A bucket more in its chain.
LEMMA ConnectChainIs ==
  ASSUME NEW s \in Table, NEW S \in SUBSET Cells, Chained(s, S), NEW p \in Cells, p \notin S
  PROVE  /\ ConnectChain(s, p) \in Table /\ Chained(ConnectChain(s, p), S \cup {p})
         /\ Keeps(s, ConnectChain(s, p), {"arBuckets"}, {"pNext", "pLast"})
         /\ DOMAIN ConnectChain(s, p).arBuckets = DOMAIN s.arBuckets
<1> DEFINE i    == Slot(s, s.mem[p].key.h)
           head == s.arBuckets[i]
           a1   == Set(s, p, "pNext", head)
           a2   == Set(a1, p, "pLast", NULL)
           a3   == Set(a2, head, "pLast", p)
           s2   == ConnectChain(s, p)
<1>1. i \in DOMAIN s.arBuckets /\ head \in Ptr /\ p \in Ptr /\ NULL \in Ptr
  BY HashNat, SlotIn DEF Ptr
<1>2. s2 = [a3 EXCEPT !.arBuckets[i] = p]
  BY DEF ConnectChain
<1> HIDE DEF i
<1>3. /\ a1 \in Table /\ Keeps(s, a1, {}, {"pNext"})
      /\ \A d \in Cells : a1.mem[d]["pNext"] = IF d = p THEN head ELSE s.mem[d]["pNext"]
  <2>1. "pNext" \in Links
    BY DEF Links
  <2> QED
    BY ONLY <2>1, <1>1, s \in Table, SetIs DEF Wrote
<1> HIDE DEF a1
<1>4. /\ a2 \in Table /\ Keeps(a1, a2, {}, {"pLast"})
      /\ \A d \in Cells : a2.mem[d]["pLast"] = IF d = p THEN NULL ELSE a1.mem[d]["pLast"]
  <2>1. "pLast" \in Links
    BY DEF Links
  <2>2. a1 \in Table
    BY <1>3
  <2> QED
    BY ONLY <2>1, <2>2, <1>1, SetIs DEF Wrote
<1> HIDE DEF a2
<1>5. /\ a3 \in Table /\ Keeps(a2, a3, {}, {"pLast"})
      /\ \A d \in Cells : a3.mem[d]["pLast"] = IF d = head THEN p ELSE a2.mem[d]["pLast"]
  <2>1. "pLast" \in Links
    BY DEF Links
  <2>2. a2 \in Table
    BY <1>4
  <2>3. head \in Ptr /\ p \in Ptr
    BY <1>1
  <2> HIDE DEF head, a3
  <2>4. /\ Set(a2, head, "pLast", p) \in Table
        /\ Keeps(a2, Set(a2, head, "pLast", p), {}, {"pLast"})
        /\ \A d \in Cells : Set(a2, head, "pLast", p).mem[d]["pLast"]
                            = IF d = head THEN p ELSE a2.mem[d]["pLast"]
    BY ONLY <2>1, <2>2, <2>3, SetIs DEF Wrote
  <2> QED
    BY <2>4 DEF a3
<1> HIDE DEF a3
<1>6. a3.arBuckets = s.arBuckets
  BY <1>3, <1>4, <1>5 DEF Keeps, Fields
<1>7. /\ s2 \in Table /\ s2.mem = a3.mem /\ Keeps(a3, s2, {"arBuckets"}, {})
      /\ DOMAIN s2.arBuckets = DOMAIN s.arBuckets
      /\ s2.arBuckets[i] = p
      /\ \A j \in DOMAIN s.arBuckets : j # i => s2.arBuckets[j] = s.arBuckets[j]
  <2>1. a3 \in Table /\ i \in DOMAIN a3.arBuckets /\ p \in Ptr
    BY <1>1, <1>5, <1>6
  <2> HIDE DEF s2
  <2> QED
    BY <2>1, <1>2, <1>6, SlotSet
<1> HIDE DEF s2
<1>8. Keeps(s, s2, {"arBuckets"}, {"pNext", "pLast"})
  <2>1. \A x \in Fields \ {"arBuckets"} : s2[x] = s[x]
    BY <1>3, <1>4, <1>5, <1>7 DEF Keeps
  <2>2. \A c \in Cells : \A y \in (Links \cup {"key", "data"}) \ {"pNext", "pLast"} :
          s2.mem[c][y] = s.mem[c][y]
    BY <1>3, <1>4, <1>5, <1>7 DEF Keeps
  <2> QED
    BY <2>1, <2>2 DEF Keeps
<1>9. \A d \in Cells :
        /\ s2.mem[d]["pNext"] = IF d = p THEN head ELSE s.mem[d]["pNext"]
        /\ s2.mem[d]["pLast"] = IF d = head THEN p
                                ELSE IF d = p THEN NULL ELSE s.mem[d]["pLast"]
        /\ s2.mem[d].key = s.mem[d].key
  BY <1>3, <1>4, <1>5, <1>7 DEF Keeps, Links
<1>10. ASSUME NEW j \in DOMAIN s.arBuckets
       PROVE  ListOf(s2.mem, Of(s2, S \cup {p}, j), s2.arBuckets[j], "pNext", "pLast")
  <2>1. /\ ListOf(s.mem, Of(s, S, j), s.arBuckets[j], "pNext", "pLast")
        /\ ListOf(s.mem, Of(s, S, i), head, "pNext", "pLast")
    BY <1>1 DEF Chained
  <2>2. head \in Of(s, S, i) \cup {NULL} /\ Of(s, S, j) \subseteq S /\ Of(s, S, i) \subseteq S
    BY <2>1 DEF ListOf, Of
  <2>3. \A h : Slot(s2, h) = Slot(s, h)
    BY <1>7, SlotSame
  <2>4. CASE j = i
    <3>1. Of(s2, S \cup {p}, i) = Of(s, S, i) \cup {p}
      BY <1>9, <2>3 DEF Of, i
    <3>2. p \notin Of(s, S, i) /\ head # p
      BY <2>2, NotNull
    <3>3. s2.mem[p]["pNext"] = head /\ s2.mem[p]["pLast"] = NULL
      BY <1>9, <3>2
    <3>4. \A c \in Of(s, S, i) :
            /\ s2.mem[c]["pNext"] = s.mem[c]["pNext"]
            /\ s2.mem[c]["pLast"] = IF c = head THEN p ELSE s.mem[c]["pLast"]
      BY <1>9, <2>2
    <3>5. ListOf(s2.mem, Of(s, S, i) \cup {p}, p, "pNext", "pLast")
      BY <2>1, <3>2, <3>3, <3>4, ListPush
    <3> QED
      BY <3>1, <3>5, <2>4, <1>7
  <2>5. CASE j # i
    <3>1. Of(s2, S \cup {p}, j) = Of(s, S, j)
      BY <1>9, <2>3, <2>5 DEF Of, i
    <3>2. \A c \in Of(s, S, j) : c \in Cells /\ c # p /\ c # head
      BY <2>2, <2>5, NotNull DEF Of
    <3>3. \A c \in Of(s, S, j) : /\ s2.mem[c]["pNext"] = s.mem[c]["pNext"]
                                 /\ s2.mem[c]["pLast"] = s.mem[c]["pLast"]
      BY <1>9, <3>2
    <3>4. ListOf(s2.mem, Of(s, S, j), s.arBuckets[j], "pNext", "pLast")
      BY <2>1, <3>3, ListSame
    <3> QED
      BY <3>1, <3>4, <2>5, <1>7
  <2> QED
    BY <2>4, <2>5
<1>11. Chained(s2, S \cup {p})
  BY <1>7, <1>10 DEF Chained
<1> QED
  BY <1>7, <1>8, <1>11 DEF s2

(***************************************************************************)
(* The global list: the cells L in order, and the pointers into it.        *)
(***************************************************************************)
Line(s, L) ==
  /\ ListOf(s.mem, L, s.pListHead, "pListNext", "pListLast")
  /\ Ends(s.mem, L, s.pListTail, "pListNext")
  /\ s.pInternalPointer \in L \cup {NULL}

LEMMA LineIf ==
  ASSUME NEW s, NEW s2, NEW L, Line(s, L),
         s2.pListHead = s.pListHead, s2.pListTail = s.pListTail,
         s2.pInternalPointer \in L \cup {NULL},
         \A c \in L : /\ s2.mem[c]["pListNext"] = s.mem[c]["pListNext"]
                      /\ s2.mem[c]["pListLast"] = s.mem[c]["pListLast"]
  PROVE  Line(s2, L)
<1>1. ListOf(s2.mem, L, s.pListHead, "pListNext", "pListLast")
  BY ListSame DEF Line
<1>2. Ends(s2.mem, L, s.pListTail, "pListNext")
  BY DEF Line, Ends
<1> QED
  BY <1>1, <1>2 DEF Line

LEMMA LineSame ==
  ASSUME NEW s, NEW s2, NEW L \in SUBSET Cells, NEW X, NEW Y, Line(s, L), Keeps(s, s2, X, Y),
         X \cap {"pListHead", "pListTail", "pInternalPointer"} = {},
         Y \cap {"pListNext", "pListLast"} = {}
  PROVE  Line(s2, L)
<1>1. /\ s2.pListHead = s.pListHead /\ s2.pListTail = s.pListTail
      /\ s2.pInternalPointer = s.pInternalPointer
  BY DEF Keeps, Fields
<1>2. \A c \in L : /\ s2.mem[c]["pListNext"] = s.mem[c]["pListNext"]
                   /\ s2.mem[c]["pListLast"] = s.mem[c]["pListLast"]
  BY DEF Keeps, Links
<1>3. s2.pInternalPointer \in L \cup {NULL}
  BY <1>1 DEF Line
<1> QED
  BY <1>1, <1>2, <1>3, LineIf

\* A bucket more at the tail of the global list.
LEMMA ConnectListIs ==
  ASSUME NEW s \in Table, NEW L \in SUBSET Cells, Line(s, L), NEW p \in Cells, p \notin L
  PROVE  LET s2 == ConnectList(s, p) IN
         /\ s2 \in Table /\ Line(s2, L \cup {p})
         /\ Keeps(s, s2, {"pListHead", "pListTail", "pInternalPointer"},
                  {"pListNext", "pListLast"})
         /\ s2.pListHead = IF s.pListHead = NULL THEN p ELSE s.pListHead
         /\ s2.pInternalPointer = IF s.pInternalPointer = NULL THEN p ELSE s.pInternalPointer
         /\ \A c \in L : /\ s2.mem[c]["pListLast"] = s.mem[c]["pListLast"]
                         /\ s.mem[c]["pListNext"] # NULL =>
                              s2.mem[c]["pListNext"] = s.mem[c]["pListNext"]
<1> DEFINE tail == s.pListTail
           a1   == Set(s, p, "pListLast", tail)
           a2   == Set(a1, p, "pListNext", NULL)
           a3   == Set(a2, tail, "pListNext", p)
           Or(q) == IF q = NULL THEN p ELSE q
           s2   == ConnectList(s, p)
<1>1. tail \in Ptr /\ p \in Ptr /\ NULL \in Ptr
  BY DEF Ptr, Table
<1>2. s2 = [a3 EXCEPT !.pListTail = p, !.pListHead = Or(@), !.pInternalPointer = Or(@)]
  BY DEF ConnectList
<1> HIDE DEF tail
<1>3. /\ a1 \in Table /\ Keeps(s, a1, {}, {"pListLast"})
      /\ \A d \in Cells : a1.mem[d]["pListLast"] = IF d = p THEN tail ELSE s.mem[d]["pListLast"]
  <2>1. "pListLast" \in Links /\ tail \in Ptr /\ p \in Ptr
    BY <1>1 DEF Links
  <2> QED
    BY ONLY <2>1, s \in Table, SetIs DEF Wrote
<1> HIDE DEF a1
<1>4. /\ a2 \in Table /\ Keeps(a1, a2, {}, {"pListNext"})
      /\ \A d \in Cells : a2.mem[d]["pListNext"] = IF d = p THEN NULL ELSE a1.mem[d]["pListNext"]
  <2>1. "pListNext" \in Links
    BY DEF Links
  <2>2. a1 \in Table
    BY <1>3
  <2> QED
    BY ONLY <2>1, <2>2, <1>1, SetIs DEF Wrote
<1> HIDE DEF a2
<1>5. /\ a3 \in Table /\ Keeps(a2, a3, {}, {"pListNext"})
      /\ \A d \in Cells : a3.mem[d]["pListNext"] = IF d = tail THEN p ELSE a2.mem[d]["pListNext"]
  <2>1. "pListNext" \in Links
    BY DEF Links
  <2>2. a2 \in Table
    BY <1>4
  <2> QED
    BY ONLY <2>1, <2>2, <1>1, SetIs DEF Wrote
<1> HIDE DEF a3
<1>6. \A x \in Fields : a3[x] = s[x]
  BY <1>3, <1>4, <1>5 DEF Keeps
<1>7. /\ s2 \in Table /\ s2.mem = a3.mem
      /\ s2.pListTail = p /\ s2.pListHead = Or(s.pListHead)
      /\ s2.pInternalPointer = Or(s.pInternalPointer)
      /\ \A x \in Fields \ {"pListHead", "pListTail", "pInternalPointer"} : s2[x] = s[x]
  <2>1. a3.pListHead = s.pListHead /\ a3.pInternalPointer = s.pInternalPointer
    BY <1>6 DEF Fields
  <2>2. Or(s.pListHead) \in Ptr /\ Or(s.pInternalPointer) \in Ptr
    BY <1>1 DEF Table
  <2>3. s2 = [a3 EXCEPT !.pListTail = p, !.pListHead = Or(s.pListHead),
                        !.pInternalPointer = Or(s.pInternalPointer)]
    BY <1>2, <2>1, <1>5 DEF Table
  <2> HIDE DEF s2, Or
  <2>4. /\ s2 \in Table /\ s2.mem = a3.mem
        /\ s2.pListTail = p /\ s2.pListHead = Or(s.pListHead)
        /\ s2.pInternalPointer = Or(s.pInternalPointer)
        /\ \A x \in Fields \ {"pListHead", "pListTail", "pInternalPointer"} : s2[x] = a3[x]
    BY <2>2, <2>3, <1>1, <1>5 DEF Table, Fields
  <2> QED
    BY <2>4, <1>6
<1> HIDE DEF s2
<1>8. \A d \in Cells :
        /\ s2.mem[d]["pListNext"] = IF d = tail THEN p
                                    ELSE IF d = p THEN NULL ELSE s.mem[d]["pListNext"]
        /\ s2.mem[d]["pListLast"] = IF d = p THEN tail ELSE s.mem[d]["pListLast"]
        /\ \A y \in (Links \cup {"key", "data"}) \ {"pListNext", "pListLast"} :
             s2.mem[d][y] = s.mem[d][y]
  BY <1>3, <1>4, <1>5, <1>7 DEF Keeps, Links
<1>9. tail \in L \cup {NULL} /\ tail # p
  BY NotNull DEF Line, Ends, tail
<1>10. /\ ListOf(s2.mem, L \cup {p}, Or(s.pListHead), "pListNext", "pListLast")
       /\ Ends(s2.mem, L \cup {p}, p, "pListNext")
  <2>1. s2.mem[p]["pListNext"] = NULL /\ s2.mem[p]["pListLast"] = tail
    BY <1>8, <1>9
  <2>2. \A c \in L : /\ s2.mem[c]["pListLast"] = s.mem[c]["pListLast"]
                     /\ s2.mem[c]["pListNext"] = IF c = tail THEN p ELSE s.mem[c]["pListNext"]
    BY <1>8
  <2>3. /\ ListOf(s.mem, L, s.pListHead, "pListNext", "pListLast")
        /\ Ends(s.mem, L, tail, "pListNext")
    BY DEF Line, tail
  <2> DEFINE m    == s.mem
             m2   == s2.mem
             head == s.pListHead
             new  == IF head = NULL THEN p ELSE head
  <2>4. /\ ListOf(m, L, head, "pListNext", "pListLast") /\ Ends(m, L, tail, "pListNext")
        /\ m2[p]["pListNext"] = NULL /\ m2[p]["pListLast"] = tail
        /\ \A c \in L : /\ m2[c]["pListLast"] = m[c]["pListLast"]
                        /\ m2[c]["pListNext"] = IF c = tail THEN p ELSE m[c]["pListNext"]
    BY <2>1, <2>2, <2>3
  <2>5. ListOf(m2, L \cup {p}, new, "pListNext", "pListLast") /\ Ends(m2, L \cup {p}, p, "pListNext")
    <3> HIDE DEF m, m2, head
    <3> QED
      BY ONLY <2>4, p \in Cells, p \notin L, ListAppend DEF new
  <2> QED
    BY <2>5
<1>11. Line(s2, L \cup {p})
  BY <1>7, <1>10 DEF Line
<1>12. Keeps(s, s2, {"pListHead", "pListTail", "pInternalPointer"}, {"pListNext", "pListLast"})
  BY <1>7, <1>8 DEF Keeps
<1>13. \A c \in L : /\ s2.mem[c]["pListLast"] = s.mem[c]["pListLast"]
                    /\ s.mem[c]["pListNext"] # NULL =>
                         s2.mem[c]["pListNext"] = s.mem[c]["pListNext"]
  BY <1>8 DEF Line, Ends, tail
<1> QED
  BY <1>7, <1>11, <1>12, <1>13 DEF s2

(***************************************************************************)
(* Unlink in two parts: out of the chain, out of the global list.          *)
(***************************************************************************)
Unchain(s, p) ==
  LET b  == s.mem[p]
      s1 == IF b.pLast = NULL THEN [s EXCEPT !.arBuckets[Slot(s, b.key.h)] = b.pNext]
            ELSE Set(s, b.pLast, "pNext", b.pNext)
  IN Set(s1, b.pNext, "pLast", b.pLast)

Detach(s2, b, p) ==
  LET s3 == IF b.pListLast = NULL THEN [s2 EXCEPT !.pListHead = b.pListNext]
            ELSE Set(s2, b.pListLast, "pListNext", b.pListNext)
      s4 == IF b.pListNext = NULL THEN [s3 EXCEPT !.pListTail = b.pListLast]
            ELSE Set(s3, b.pListNext, "pListLast", b.pListLast)
  IN [s4 EXCEPT !.pInternalPointer = IF @ = p THEN b.pListNext ELSE @]

LEMMA UnlinkParts ==
  ASSUME NEW s, NEW p
  PROVE  Unlink(s, p) = Detach(Unchain(s, p), s.mem[p], p)
  BY DEF Unlink, Unchain, Detach

LEMMA UnchainIs ==
  ASSUME NEW s \in Table, NEW S \in SUBSET Cells, Chained(s, S), NEW p \in S
  PROVE  LET s2 == Unchain(s, p) IN
         /\ s2 \in Table /\ Chained(s2, S \ {p})
         /\ Keeps(s, s2, {"arBuckets"}, {"pNext", "pLast"})
<1> DEFINE i    == Slot(s, s.mem[p].key.h)
           m    == s.mem
           next == m[p]["pNext"]
           last == m[p]["pLast"]
           s1   == IF last = NULL THEN [s EXCEPT !.arBuckets[i] = next]
                   ELSE Set(s, last, "pNext", next)
           s2   == Unchain(s, p)
<1>1. /\ i \in DOMAIN s.arBuckets /\ p \in Cells /\ next \in Ptr /\ last \in Ptr
      /\ "pNext" \in Links /\ "pLast" \in Links
  BY HashNat, SlotIn DEF Ptr, Table, Bucket, Links
<1>2. s2 = Set(s1, next, "pLast", last)
  BY DEF Unchain
<1> HIDE DEF i
<1>3. /\ ListOf(m, Of(s, S, i), s.arBuckets[i], "pNext", "pLast")
      /\ p \in Of(s, S, i)
  BY <1>1 DEF Chained, Of, i
<1>4. last = NULL <=> p = s.arBuckets[i]
  BY <1>3 DEF ListOf
<1>5. /\ last \in Of(s, S, i) \cup {NULL} /\ next \in Of(s, S, i) \cup {NULL}
      /\ next # p /\ last # p
  <2>1. \E d \in {p} : m[d]["pLast"] \notin {p}
    BY <1>3 DEF ListOf, Acyclic
  <2> QED
    BY <2>1, <1>3, NotNull, <1>1 DEF ListOf
<1> HIDE DEF next, last, m
<1>6. /\ s1 \in Table /\ Keeps(s, s1, {"arBuckets"}, {"pNext"})
      /\ \A d \in Cells : s1.mem[d]["pNext"] = IF d = last THEN next ELSE m[d]["pNext"]
      /\ DOMAIN s1.arBuckets = DOMAIN s.arBuckets
      /\ s1.arBuckets[i] = IF last = NULL THEN next ELSE s.arBuckets[i]
      /\ \A j \in DOMAIN s.arBuckets : j # i => s1.arBuckets[j] = s.arBuckets[j]
  <2>1. CASE last = NULL
    <3>1. /\ s1 = [s EXCEPT !.arBuckets[i] = next]
          /\ i \in DOMAIN s.arBuckets /\ next \in Ptr
      BY <2>1, <1>1
    <3> HIDE DEF s1
    <3>2. /\ s1 \in Table /\ s1.mem = s.mem /\ Keeps(s, s1, {"arBuckets"}, {})
          /\ DOMAIN s1.arBuckets = DOMAIN s.arBuckets
          /\ s1.arBuckets[i] = next
          /\ \A j \in DOMAIN s.arBuckets : j # i => s1.arBuckets[j] = s.arBuckets[j]
      BY ONLY <3>1, s \in Table, SlotSet
    <3> QED
      BY <3>2, <2>1, NotNull DEF Keeps, m
  <2>2. CASE last # NULL
    <3>0. last \in Ptr /\ next \in Ptr /\ "pNext" \in Links
      BY <1>1
    <3>1. s1 = Set(s, last, "pNext", next)
      BY <2>2
    <3> HIDE DEF s1
    <3>w. Wrote(s, s1, last, "pNext", next)
      BY ONLY <3>0, <3>1, s \in Table, SetIs
    <3>2. /\ s1 \in Table /\ Keeps(s, s1, {}, {"pNext"})
          /\ \A d \in Cells : s1.mem[d]["pNext"] = IF d = last THEN next ELSE s.mem[d]["pNext"]
      BY ONLY <3>w DEF Wrote
    <3>3. s1.arBuckets = s.arBuckets
      BY <3>2 DEF Keeps, Fields
    <3> QED
      BY <3>2, <3>3, <2>2 DEF Keeps, m
  <2> QED
    BY <2>1, <2>2
<1> HIDE DEF s1
<1>7. /\ s2 \in Table /\ Keeps(s1, s2, {}, {"pLast"})
      /\ \A d \in Cells : s2.mem[d]["pLast"] = IF d = next THEN last ELSE s1.mem[d]["pLast"]
  <2>1. /\ s1 \in Table /\ last \in Ptr /\ next \in Ptr /\ "pLast" \in Links
    BY <1>1, <1>6
  <2> HIDE DEF s2
  <2>2. Wrote(s1, s2, next, "pLast", last)
    BY ONLY <2>1, <1>2, SetIs
  <2> QED
    BY ONLY <2>2 DEF Wrote
<1> HIDE DEF s2
<1>8. Keeps(s, s2, {"arBuckets"}, {"pNext", "pLast"})
  <2>1. \A x \in Fields \ {"arBuckets"} : s2[x] = s[x]
    BY <1>6, <1>7 DEF Keeps
  <2>2. \A c \in Cells : \A y \in (Links \cup {"key", "data"}) \ {"pNext", "pLast"} :
          s2.mem[c][y] = s.mem[c][y]
    BY <1>6, <1>7 DEF Keeps
  <2> QED
    BY <2>1, <2>2 DEF Keeps
<1>9. /\ s2.arBuckets = s1.arBuckets
      /\ \A d \in Cells :
        /\ s2.mem[d]["pNext"] = IF d = last THEN next ELSE m[d]["pNext"]
        /\ s2.mem[d]["pLast"] = IF d = next THEN last ELSE m[d]["pLast"]
        /\ s2.mem[d].key = m[d].key
  BY <1>6, <1>7 DEF Keeps, Links, Fields, m
<1>10. ASSUME NEW j \in DOMAIN s.arBuckets
       PROVE  ListOf(s2.mem, Of(s2, S \ {p}, j), s2.arBuckets[j], "pNext", "pLast")
  <2>1. \A h : Slot(s2, h) = Slot(s, h)
    BY <1>6, <1>9, SlotSame
  <2>2. ListOf(m, Of(s, S, j), s.arBuckets[j], "pNext", "pLast")
    BY DEF Chained, m
  <2>3. Of(s, S, i) \subseteq S /\ Of(s, S, j) \subseteq S
    BY DEF Of
  <2>4. CASE j = i
    <3>1. Of(s2, S \ {p}, i) = Of(s, S, i) \ {p}
      BY <1>9, <2>1 DEF Of, m
    <3> DEFINE m2 == s2.mem
               head == s.arBuckets[i]
               K == Of(s, S, i)
    <3>2. /\ ListOf(m, K, head, "pNext", "pLast") /\ p \in K
          /\ \A c \in K \ {p} :
               /\ m2[c]["pNext"] = IF c = m[p]["pLast"] THEN m[p]["pNext"] ELSE m[c]["pNext"]
               /\ m2[c]["pLast"] = IF c = m[p]["pNext"] THEN m[p]["pLast"] ELSE m[c]["pLast"]
      BY <1>3, <1>9, <2>3 DEF next, last
    <3>3. ListOf(m2, K \ {p}, IF m[p]["pLast"] = NULL THEN m[p]["pNext"] ELSE head,
                 "pNext", "pLast")
      <4> HIDE DEF m2, head, K
      <4> QED
        BY ONLY <3>2, ListRemove
    <3>4. s2.arBuckets[i] = IF m[p]["pLast"] = NULL THEN m[p]["pNext"] ELSE head
      BY <1>6, <1>9 DEF next, last
    <3> HIDE DEF m2, head
    <3>5. ListOf(m2, K \ {p}, s2.arBuckets[i], "pNext", "pLast")
      BY <3>3, <3>4
    <3> QED
      BY <3>1, <3>5, <2>4 DEF m2
  <2>5. CASE j # i
    <3>1. Of(s2, S \ {p}, j) = Of(s, S, j)
      BY <1>9, <2>1, <2>5 DEF Of, m, i
    <3>2. \A c \in Of(s, S, j) : c \in Cells /\ c # last /\ c # next
      BY <2>3, <2>5, <1>5, NotNull DEF Of
    <3>3. \A c \in Of(s, S, j) : /\ s2.mem[c]["pNext"] = m[c]["pNext"]
                                 /\ s2.mem[c]["pLast"] = m[c]["pLast"]
      BY <1>9, <3>2
    <3>4. ListOf(s2.mem, Of(s, S, j), s.arBuckets[j], "pNext", "pLast")
      BY <2>2, <3>3, ListSame
    <3> QED
      BY <3>1, <3>4, <2>5, <1>6, <1>9
  <2> QED
    BY <2>4, <2>5
<1>11. Chained(s2, S \ {p})
  BY <1>6, <1>9, <1>10 DEF Chained
<1> QED
  BY <1>7, <1>8, <1>11 DEF s2

\* The links of the global list go past p.
Past(s, s2, L, p) ==
  /\ s2.pListHead = IF s.mem[p]["pListLast"] = NULL THEN s.mem[p]["pListNext"] ELSE s.pListHead
  /\ s2.pInternalPointer = IF s.pInternalPointer = p THEN s.mem[p]["pListNext"]
                           ELSE s.pInternalPointer
  /\ \A c \in L \ {p} :
       /\ s2.mem[c]["pListNext"] = IF c = s.mem[p]["pListLast"] THEN s.mem[p]["pListNext"]
                                   ELSE s.mem[c]["pListNext"]
       /\ s2.mem[c]["pListLast"] = IF c = s.mem[p]["pListNext"] THEN s.mem[p]["pListLast"]
                                   ELSE s.mem[c]["pListLast"]

LEMMA DetachIs ==
  ASSUME NEW s \in Table, NEW L \in SUBSET Cells, Line(s, L), NEW p \in L,
         NEW b, b.pListNext = s.mem[p].pListNext, b.pListLast = s.mem[p].pListLast
  PROVE  LET s2 == Detach(s, b, p) IN
         /\ s2 \in Table /\ Line(s2, L \ {p}) /\ Past(s, s2, L, p)
         /\ Keeps(s, s2, {"pListHead", "pListTail", "pInternalPointer"},
                  {"pListNext", "pListLast"})
<1> DEFINE m    == s.mem
           next == m[p]["pListNext"]
           last == m[p]["pListLast"]
           s3   == IF last = NULL THEN [s EXCEPT !.pListHead = next]
                   ELSE Set(s, last, "pListNext", next)
           s4   == IF next = NULL THEN [s3 EXCEPT !.pListTail = last]
                   ELSE Set(s3, next, "pListLast", last)
           s2   == Detach(s, b, p)
<1>1. /\ p \in Cells /\ next \in Ptr /\ last \in Ptr
      /\ "pListNext" \in Links /\ "pListLast" \in Links
  BY DEF Ptr, Table, Bucket, Links
<1>2. s2 = [s4 EXCEPT !.pInternalPointer = IF @ = p THEN next ELSE @]
  BY DEF Detach
<1>3. /\ ListOf(m, L, s.pListHead, "pListNext", "pListLast")
      /\ Ends(m, L, s.pListTail, "pListNext")
  BY DEF Line
<1>4. last \in L \cup {NULL} /\ next \in L \cup {NULL} /\ next # p /\ last # p
  <2>1. \E d \in {p} : m[d]["pListLast"] \notin {p}
    BY <1>3 DEF ListOf, Acyclic
  <2> QED
    BY <2>1, <1>3, NotNull, <1>1 DEF ListOf
<1> HIDE DEF next, last, m
<1>5. /\ s3 \in Table /\ Keeps(s, s3, {"pListHead"}, {"pListNext"})
      /\ \A d \in Cells : s3.mem[d]["pListNext"] = IF d = last THEN next ELSE m[d]["pListNext"]
      /\ s3.pListHead = IF last = NULL THEN next ELSE s.pListHead
  <2>1. CASE last = NULL
    <3>1. s3 = [s EXCEPT !.pListHead = next]
      BY <2>1
    <3> HIDE DEF s3
    <3>2. /\ s3 \in Table /\ s3.mem = s.mem /\ s3.pListHead = next
          /\ \A x \in Fields \ {"pListHead"} : s3[x] = s[x]
      BY <3>1, <1>1 DEF Table, Fields
    <3> QED
      BY <3>2, <2>1, NotNull DEF Keeps, m
  <2>2. CASE last # NULL
    <3>1. s3 = Set(s, last, "pListNext", next)
      BY <2>2
    <3> HIDE DEF s3
    <3>2. Wrote(s, s3, last, "pListNext", next)
      BY ONLY <3>1, <1>1, s \in Table, SetIs
    <3>3. /\ s3 \in Table /\ Keeps(s, s3, {}, {"pListNext"})
          /\ \A d \in Cells : s3.mem[d]["pListNext"] = IF d = last THEN next ELSE s.mem[d]["pListNext"]
      BY ONLY <3>2 DEF Wrote
    <3>4. s3.pListHead = s.pListHead
      BY <3>3 DEF Keeps, Fields
    <3> QED
      BY <3>3, <3>4, <2>2 DEF Keeps, m
  <2> QED
    BY <2>1, <2>2
<1> HIDE DEF s3
<1>6. /\ s4 \in Table /\ Keeps(s3, s4, {"pListTail"}, {"pListLast"})
      /\ \A d \in Cells : s4.mem[d]["pListLast"] = IF d = next THEN last ELSE s3.mem[d]["pListLast"]
      /\ s4.pListTail = IF next = NULL THEN last ELSE s3.pListTail
  <2>0. s3 \in Table
    BY <1>5
  <2>1. CASE next = NULL
    <3>1. s4 = [s3 EXCEPT !.pListTail = last]
      BY <2>1
    <3> HIDE DEF s4
    <3>2. /\ s4 \in Table /\ s4.mem = s3.mem /\ s4.pListTail = last
          /\ \A x \in Fields \ {"pListTail"} : s4[x] = s3[x]
      BY <3>1, <2>0, <1>1 DEF Table, Fields
    <3> QED
      BY <3>2, <2>1, NotNull DEF Keeps
  <2>2. CASE next # NULL
    <3>1. s4 = Set(s3, next, "pListLast", last)
      BY <2>2
    <3> HIDE DEF s4
    <3>2. Wrote(s3, s4, next, "pListLast", last)
      BY ONLY <3>1, <1>1, <2>0, SetIs
    <3>3. /\ s4 \in Table /\ Keeps(s3, s4, {}, {"pListLast"})
          /\ \A d \in Cells : s4.mem[d]["pListLast"] = IF d = next THEN last ELSE s3.mem[d]["pListLast"]
      BY ONLY <3>2 DEF Wrote
    <3>4. s4.pListTail = s3.pListTail
      BY <3>3 DEF Keeps, Fields
    <3> QED
      BY <3>3, <3>4, <2>2 DEF Keeps
  <2> QED
    BY <2>1, <2>2
<1> HIDE DEF s4
<1>7. /\ s2 \in Table /\ s2.mem = s4.mem
      /\ s2.pInternalPointer = IF s4.pInternalPointer = p THEN next ELSE s4.pInternalPointer
      /\ \A x \in Fields \ {"pInternalPointer"} : s2[x] = s4[x]
  <2> HIDE DEF s2
  <2> QED
    BY <1>1, <1>2, <1>6 DEF Table, Fields
<1> HIDE DEF s2
<1>8. Keeps(s, s2, {"pListHead", "pListTail", "pInternalPointer"}, {"pListNext", "pListLast"})
  <2>1. \A x \in Fields \ {"pListHead", "pListTail", "pInternalPointer"} : s2[x] = s[x]
    BY <1>5, <1>6, <1>7 DEF Keeps
  <2>2. \A c \in Cells : \A y \in (Links \cup {"key", "data"}) \ {"pListNext", "pListLast"} :
          s2.mem[c][y] = s.mem[c][y]
    BY <1>5, <1>6, <1>7 DEF Keeps
  <2> QED
    BY <2>1, <2>2 DEF Keeps
<1>9. /\ s2.pListHead = IF last = NULL THEN next ELSE s.pListHead
      /\ s2.pListTail = IF next = NULL THEN last ELSE s.pListTail
      /\ s2.pInternalPointer = IF s.pInternalPointer = p THEN next ELSE s.pInternalPointer
      /\ \A d \in Cells :
           /\ s2.mem[d]["pListNext"] = IF d = last THEN next ELSE m[d]["pListNext"]
           /\ s2.mem[d]["pListLast"] = IF d = next THEN last ELSE m[d]["pListLast"]
  BY <1>5, <1>6, <1>7 DEF Keeps, Fields, Links, m
<1>10. Past(s, s2, L, p)
  BY <1>9 DEF Past, next, last, m
<1> DEFINE m2 == s2.mem
           head == s.pListHead
           tail == s.pListTail
<1>11. /\ ListOf(m, L, head, "pListNext", "pListLast") /\ Ends(m, L, tail, "pListNext")
       /\ p \in L
       /\ \A c \in L \ {p} :
            /\ m2[c]["pListNext"] = IF c = m[p]["pListLast"] THEN m[p]["pListNext"] ELSE m[c]["pListNext"]
            /\ m2[c]["pListLast"] = IF c = m[p]["pListNext"] THEN m[p]["pListLast"] ELSE m[c]["pListLast"]
  BY <1>3, <1>9 DEF next, last
<1>12. ListOf(m2, L \ {p}, IF m[p]["pListLast"] = NULL THEN m[p]["pListNext"] ELSE head,
              "pListNext", "pListLast")
  <2> HIDE DEF m2, head, tail
  <2> QED
    BY ONLY <1>11, ListRemove
<1>13. Ends(m2, L \ {p}, IF m[p]["pListNext"] = NULL THEN m[p]["pListLast"] ELSE tail, "pListNext")
  <2> HIDE DEF m2, head, tail
  <2> QED
    BY ONLY <1>11, EndsRemove
<1>14. s2.pInternalPointer \in (L \ {p}) \cup {NULL}
  BY <1>9, <1>4 DEF Line
<1>15. Line(s2, L \ {p})
  <2>1. s2.pListHead = IF m[p]["pListLast"] = NULL THEN m[p]["pListNext"] ELSE head
    BY <1>9 DEF next, last
  <2>2. s2.pListTail = IF m[p]["pListNext"] = NULL THEN m[p]["pListLast"] ELSE tail
    BY <1>9 DEF next, last
  <2> HIDE DEF head, tail
  <2> QED
    BY <2>1, <2>2, <1>12, <1>13, <1>14 DEF Line
<1> QED
  BY <1>7, <1>8, <1>10, <1>15 DEF s2

(***************************************************************************)
(* A table that can be used, with the elements L.                          *)
(***************************************************************************)
Keyed(s, L) ==
  /\ \A c \in L : s.mem[c].key \in AllKeys
  /\ \A c, d \in L : s.mem[c].key = s.mem[d].key => c = d

Sound(s, L) ==
  /\ s \in Table /\ L \subseteq s.alive
  /\ Line(s, L) /\ Chained(s, L) /\ Keyed(s, L)

LEMMA SoundIf ==
  ASSUME NEW s, NEW s2, NEW L, Sound(s, L), s2 \in Table, L \subseteq s2.alive,
         s2.arBuckets = s.arBuckets, s2.pListHead = s.pListHead, s2.pListTail = s.pListTail,
         s2.pInternalPointer \in L \cup {NULL},
         \A c \in L : \A y \in Links \cup {"key"} : s2.mem[c][y] = s.mem[c][y]
  PROVE  Sound(s2, L)
<1>1. \A c \in L : /\ s2.mem[c]["pListNext"] = s.mem[c]["pListNext"]
                   /\ s2.mem[c]["pListLast"] = s.mem[c]["pListLast"]
                   /\ s2.mem[c]["pNext"] = s.mem[c]["pNext"]
                   /\ s2.mem[c]["pLast"] = s.mem[c]["pLast"]
                   /\ s2.mem[c].key = s.mem[c].key
  BY DEF Links
<1>2. Line(s2, L)
  <2>1. Line(s, L)
    BY DEF Sound
  <2> QED
    BY <2>1, <1>1, LineIf
<1>3. Chained(s2, L)
  <2>1. Chained(s, L)
    BY DEF Sound
  <2> QED
    BY <2>1, <1>1, ChainedIf
<1>4. Keyed(s2, L)
  BY <1>1 DEF Sound, Keyed
<1> QED
  BY <1>2, <1>3, <1>4 DEF Sound

LEMMA SoundCells ==
  ASSUME NEW s, NEW L, Sound(s, L)
  PROVE  s \in Table /\ L \in SUBSET Cells /\ s.alive \in SUBSET Cells
  BY DEF Sound, Table

LEMMA UnlinkIs ==
  ASSUME NEW s, NEW L, Sound(s, L), NEW p \in L
  PROVE  LET s2 == Unlink(s, p) IN
         /\ Sound(s2, L \ {p}) /\ Past(s, s2, L, p)
         /\ Keeps(s, s2, {"arBuckets", "pListHead", "pListTail", "pInternalPointer"}, Links)
<1> DEFINE s1 == Unchain(s, p)
           b  == s.mem[p]
           s2 == Unlink(s, p)
<1>1. /\ s \in Table /\ L \in SUBSET Cells /\ L \subseteq s.alive
      /\ Line(s, L) /\ Chained(s, L) /\ Keyed(s, L) /\ p \in Cells
  BY SoundCells DEF Sound
<1>2. /\ s1 \in Table /\ Chained(s1, L \ {p})
      /\ Keeps(s, s1, {"arBuckets"}, {"pNext", "pLast"})
  BY <1>1, UnchainIs
<1> HIDE DEF s1
<1>3. Line(s1, L)
  BY <1>1, <1>2, LineSame
<1>4. /\ b.pListNext = s1.mem[p].pListNext /\ b.pListLast = s1.mem[p].pListLast
      /\ \A c \in Cells : /\ s1.mem[c]["pListNext"] = s.mem[c]["pListNext"]
                          /\ s1.mem[c]["pListLast"] = s.mem[c]["pListLast"]
      /\ s1.pListHead = s.pListHead /\ s1.pInternalPointer = s.pInternalPointer
  BY <1>1, <1>2 DEF Keeps, Links, Fields
<1>5. s2 = Detach(s1, b, p)
  BY UnlinkParts DEF s1
<1> HIDE DEF s2, b
<1>6. /\ s2 \in Table /\ Line(s2, L \ {p}) /\ Past(s1, s2, L, p)
      /\ Keeps(s1, s2, {"pListHead", "pListTail", "pInternalPointer"}, {"pListNext", "pListLast"})
  BY <1>1, <1>2, <1>3, <1>4, <1>5, DetachIs
<1>7. Chained(s2, L \ {p})
  <2>1. L \ {p} \in SUBSET Cells
    BY <1>1
  <2> QED
    BY <2>1, <1>2, <1>6, ChainedSame
<1>8. Past(s, s2, L, p)
  <2>1. \A c \in L : c \in Cells
    BY <1>1
  <2> QED
    BY <2>1, <1>1, <1>4, <1>6 DEF Past
<1>9. Keeps(s, s2, {"arBuckets", "pListHead", "pListTail", "pInternalPointer"}, Links)
  BY <1>2, <1>6 DEF Keeps, Links
<1>10. s2.alive = s.alive /\ \A c \in Cells : s2.mem[c].key = s.mem[c].key
  BY <1>9 DEF Keeps, Fields, Links
<1>11. Keyed(s2, L \ {p})
  <2>1. \A c \in L : s2.mem[c].key = s.mem[c].key
    BY <1>1, <1>10
  <2> QED
    BY <2>1, <1>1 DEF Keyed
<1>12. Sound(s2, L \ {p})
  BY <1>1, <1>6, <1>7, <1>10, <1>11 DEF Sound
<1> QED
  BY <1>8, <1>9, <1>12 DEF s2

LEMMA NoBucketIs == NoBucket \in Bucket
  BY DEF NoBucket, Bucket, Key, Ptr

LEMMA ReleaseIs ==
  ASSUME NEW s, NEW L, Sound(s, L), NEW p \in Cells, p \notin L
  PROVE  LET s2 == Release(s, p) IN
         /\ Sound(s2, L) /\ s2.alive = s.alive \ {p}
         /\ s2.nNumOfElements = s.nNumOfElements - 1
         /\ s2.pListHead = s.pListHead /\ s2.pInternalPointer = s.pInternalPointer
         /\ s2.nNextFreeElement = s.nNextFreeElement
         /\ \A c \in L : s2.mem[c] = s.mem[c]
<1> DEFINE m  == [s.mem EXCEPT ![p] = NoBucket]
           s2 == Release(s, p)
<1>1. s \in Table /\ L \in SUBSET Cells /\ L \subseteq s.alive
  BY SoundCells DEF Sound
<1>2. m \in [Cells -> Bucket] /\ \A c \in L : m[c] = s.mem[c]
  BY <1>1, NoBucketIs DEF Table
<1>3. s2 = [s EXCEPT !.alive = s.alive \ {p}, !.nNumOfElements = s.nNumOfElements - 1,
                     !.mem = m]
  BY <1>1 DEF Release, Table
<1> HIDE DEF m, s2
<1>4. /\ s2 \in Table /\ s2.alive = s.alive \ {p} /\ s2.mem = m
      /\ s2.nNumOfElements = s.nNumOfElements - 1
      /\ s2.nNextFreeElement = s.nNextFreeElement
      /\ s2.arBuckets = s.arBuckets /\ s2.pListHead = s.pListHead
      /\ s2.pListTail = s.pListTail /\ s2.pInternalPointer = s.pInternalPointer
  <2>1. s.alive \ {p} \in SUBSET Cells /\ s.nNumOfElements - 1 \in Int
    BY <1>1 DEF Table
  <2> DEFINE al == s.alive \ {p}
             nn == s.nNumOfElements - 1
  <2>2. s2 = [s EXCEPT !.alive = al, !.nNumOfElements = nn, !.mem = m]
    BY <1>3
  <2> HIDE DEF al, nn
  <2>3. s2 \in Table
    BY <1>1, <1>2, <2>1, <2>2 DEF Table, al, nn
  <2>4. /\ s2.alive = al /\ s2.mem = m /\ s2.nNumOfElements = nn
        /\ s2.nNextFreeElement = s.nNextFreeElement
        /\ s2.arBuckets = s.arBuckets /\ s2.pListHead = s.pListHead
        /\ s2.pListTail = s.pListTail /\ s2.pInternalPointer = s.pInternalPointer
    BY <1>1, <2>2 DEF Table
  <2> QED
    BY <2>3, <2>4 DEF al, nn
<1>5. /\ L \subseteq s2.alive /\ \A c \in L : s2.mem[c] = s.mem[c]
      /\ s2.pInternalPointer \in L \cup {NULL}
  BY <1>1, <1>2, <1>4 DEF Sound, Line
<1>6. Sound(s2, L)
  BY <1>4, <1>5, SoundIf
<1> QED
  BY <1>4, <1>5, <1>6 DEF s2

\* The key of the next append.
NextFree(s, k) == IF k.name = 0 /\ k.h >= s.nNextFreeElement THEN (k.h + 1) % (MaxIndex + 1)
                  ELSE s.nNextFreeElement

LEMMA BumpIs ==
  ASSUME NEW s \in Table, NEW k, k.h \in Nat
  PROVE  /\ Bump(s, k) \in Table /\ Keeps(s, Bump(s, k), {"nNextFreeElement"}, {})
         /\ Bump(s, k).nNextFreeElement = NextFree(s, k)
<1> DEFINE n == NextFree(s, k)
           s2 == Bump(s, k)
<1>1. s2 = [s EXCEPT !.nNextFreeElement = n]
  BY DEF Bump, Table, NextFree
<1>2. n \in Nat
  <2>1. s.nNextFreeElement \in Nat
    BY DEF Table
  <2>2. MaxIndex + 1 \in Nat \ {0} /\ k.h + 1 \in Nat
    BY TableAssumption
  <2>3. (k.h + 1) % (MaxIndex + 1) \in Nat
    BY <2>2
  <2> QED
    BY <2>1, <2>3 DEF NextFree
<1> HIDE DEF n, s2
<1>3. /\ s2 \in Table /\ s2.mem = s.mem /\ \A x \in Fields \ {"nNextFreeElement"} : s2[x] = s[x]
      /\ s2.nNextFreeElement = n
  BY <1>1, <1>2 DEF Table, Fields
<1> QED
  BY <1>3 DEF Keeps, s2, n

(***************************************************************************)
(* zend_hash_rehash() puts every element in the chain of its slot.         *)
(***************************************************************************)
Bare(s) == [s EXCEPT !.arBuckets = [j \in DOMAIN @ |-> NULL]]

RehashStep(s, l, g, i) == IF i = 0 THEN Bare(s) ELSE ConnectChain(g[i - 1], l[i])

RehashAt(s, l) == CHOOSE g : g = [i \in 0..Len(l) |-> RehashStep(s, l, g, i)]

LEMMA RehashIsAt ==
  ASSUME NEW s
  PROVE  Rehash(s) = RehashAt(s, List(s))[Len(List(s))]
  BY DEF Rehash, RehashAt, RehashStep, Bare

LEMMA RehashAtStep ==
  ASSUME NEW s, NEW l, Len(l) \in Nat, NEW i \in 0..Len(l)
  PROVE  RehashAt(s, l)[i] = RehashStep(s, l, RehashAt(s, l), i)
<1> DEFINE Upto(n) == \E g : \A j \in 0..n : g[j] = RehashStep(s, l, g, j)
           Wrong == {n \in Nat : ~ Upto(n)}
<1>1. Upto(0)
  <2> DEFINE g == [j \in 0..0 |-> Bare(s)]
  <2>1. \A j \in 0..0 : g[j] = RehashStep(s, l, g, j)
    BY DEF RehashStep
  <2> QED
    BY <2>1
<1>2. ASSUME NEW n \in Nat, Upto(n) PROVE Upto(n + 1)
  <2>1. PICK g : \A j \in 0..n : g[j] = RehashStep(s, l, g, j)
    BY <1>2
  <2> DEFINE h == [j \in 0..n + 1 |->
                     IF j \in 0..n THEN g[j] ELSE RehashStep(s, l, g, j)]
  <2>2. ASSUME NEW j \in 0..n + 1 PROVE h[j] = RehashStep(s, l, h, j)
    <3>1. h[j] = RehashStep(s, l, g, j)
      BY <2>1
    <3>2. j # 0 => h[j - 1] = g[j - 1]
      OBVIOUS
    <3> QED
      BY <3>1, <3>2 DEF RehashStep
  <2> QED
    BY <2>2
<1>3. Wrong = {}
  <2> SUFFICES ASSUME Wrong # {} PROVE FALSE
    OBVIOUS
  <2>1. PICK n \in Wrong : \A k \in Wrong : n <= k
    <3> HIDE DEF Upto
    <3> QED
      BY Least
  <2>2. n # 0 /\ n \in Nat /\ ~ Upto(n)
    BY <1>1, <2>1
  <2> HIDE DEF Upto
  <2>3. n - 1 \in Nat /\ (n - 1) + 1 = n /\ n - 1 \notin Wrong
    BY <2>1, <2>2
  <2> QED
    BY <1>2, <2>2, <2>3
<1>4. PICK g : \A j \in 0..Len(l) : g[j] = RehashStep(s, l, g, j)
  BY <1>3
<1> DEFINE h == [j \in 0..Len(l) |-> g[j]]
<1>5. h = [j \in 0..Len(l) |-> RehashStep(s, l, h, j)]
  <2>1. ASSUME NEW j \in 0..Len(l) PROVE h[j] = RehashStep(s, l, h, j)
    <3>1. h[j] = RehashStep(s, l, g, j)
      BY <1>4
    <3>2. j # 0 => h[j - 1] = g[j - 1]
      OBVIOUS
    <3> QED
      BY <3>1, <3>2 DEF RehashStep
  <2> QED
    BY <2>1
<1>6. RehashAt(s, l) = [j \in 0..Len(l) |-> RehashStep(s, l, RehashAt(s, l), j)]
  <2> HIDE DEF h
  <2> QED
    BY <1>5 DEF RehashAt
<1> QED
  BY <1>6

LEMMA BareIs ==
  ASSUME NEW s \in Table
  PROVE  /\ Bare(s) \in Table /\ Chained(Bare(s), {}) /\ Keeps(s, Bare(s), {"arBuckets"}, {})
         /\ DOMAIN Bare(s).arBuckets = DOMAIN s.arBuckets
<1> DEFINE ar == [j \in DOMAIN s.arBuckets |-> NULL]
           s2 == Bare(s)
<1>1. s2 = [s EXCEPT !.arBuckets = ar]
  BY DEF Bare, Table
<1>2. ar \in Slots
  <2>1. PICK n \in Nat \ {0} : s.arBuckets \in [0..n - 1 -> Ptr]
    BY DEF Table, Slots
  <2>2. ar \in [0..n - 1 -> Ptr]
    BY <2>1 DEF Ptr
  <2> QED
    BY <2>2 DEF Slots
<1>3. DOMAIN ar = DOMAIN s.arBuckets /\ \A j \in DOMAIN s.arBuckets : ar[j] = NULL
  OBVIOUS
<1> HIDE DEF ar, s2
<1>4. s2 \in Table /\ s2.mem = s.mem /\ s2.arBuckets = ar
      /\ \A x \in Fields \ {"arBuckets"} : s2[x] = s[x]
  BY <1>1, <1>2 DEF Table, Fields
<1>5. Chained(s2, {})
  <2>1. \A i : Of(s2, {}, i) = {}
    BY DEF Of
  <2>2. ListOf(s2.mem, {}, NULL, "pNext", "pLast")
    BY DEF ListOf, Acyclic
  <2> QED
    BY <2>1, <2>2, <1>3, <1>4 DEF Chained
<1> QED
  BY <1>3, <1>4, <1>5 DEF Keeps, s2

LEMMA RehashIs ==
  ASSUME NEW s \in Table, NEW L \in SUBSET Cells, Line(s, L)
  PROVE  /\ Rehash(s) \in Table /\ Chained(Rehash(s), L)
         /\ Keeps(s, Rehash(s), {"arBuckets"}, {"pNext", "pLast"})
<1> DEFINE l  == List(s)
           at == RehashAt(s, l)
           S(i) == {l[k] : k \in 1..i}
           Right(i) == /\ at[i] \in Table /\ Chained(at[i], S(i))
                       /\ Keeps(s, at[i], {"arBuckets"}, {"pNext", "pLast"})
           Wrong == {i \in 0..Len(l) : ~ Right(i)}
<1>1. l \in Seq(L) /\ Range(l) = L /\ IsInjective(l)
  <2>1. ListOf(s.mem, L, s.pListHead, "pListNext", "pListLast")
    BY DEF Line
  <2>2. Walks(s, l, L, s.pListHead, "pListNext", "pListLast")
    BY <2>1, WalkIs DEF List
  <2> QED
    BY ONLY <2>2 DEF Walks
<1> HIDE DEF l
<1>2. /\ Len(l) \in Nat /\ DOMAIN l = 1..Len(l)
      /\ \A i \in 1..Len(l) : l[i] \in L /\ l[i] \in Cells
      /\ \A i \in 1..Len(l), j \in 1..Len(l) : l[i] = l[j] => i = j
  BY <1>1 DEF IsInjective
<1>3. \A i \in 0..Len(l) : at[i] = RehashStep(s, l, at, i)
  BY <1>2, RehashAtStep
<1> HIDE DEF at
<1>4. Right(0)
  <2>1. at[0] = Bare(s)
    BY <1>2, <1>3 DEF RehashStep
  <2>2. S(0) = {}
    OBVIOUS
  <2>3. Keeps(s, Bare(s), {"arBuckets"}, {}) => Keeps(s, Bare(s), {"arBuckets"}, {"pNext", "pLast"})
    BY DEF Keeps
  <2> QED
    BY <2>1, <2>2, <2>3, BareIs
<1>5. ASSUME NEW i \in 1..Len(l), Right(i - 1) PROVE Right(i)
  <2> DEFINE a == at[i - 1]
  <2>1. at[i] = ConnectChain(a, l[i])
    <3>1. i \in 0..Len(l) /\ i # 0
      BY <1>2
    <3> QED
      BY <3>1, <1>3 DEF RehashStep
  <2>2. /\ a \in Table /\ Chained(a, S(i - 1)) /\ S(i - 1) \in SUBSET Cells
        /\ l[i] \in Cells /\ l[i] \notin S(i - 1)
        /\ Keeps(s, a, {"arBuckets"}, {"pNext", "pLast"})
    BY <1>5, <1>2
  <2>3. S(i) = S(i - 1) \cup {l[i]}
    BY <1>2
  <2> HIDE DEF a, S
  <2>4. /\ at[i] \in Table /\ Chained(at[i], S(i - 1) \cup {l[i]})
        /\ Keeps(a, at[i], {"arBuckets"}, {"pNext", "pLast"})
    BY <2>1, <2>2, ConnectChainIs
  <2>5. Keeps(s, at[i], {"arBuckets"}, {"pNext", "pLast"})
    BY <2>2, <2>4 DEF Keeps
  <2> QED
    BY <2>3, <2>4, <2>5
<1>6. Wrong = {}
  <2> SUFFICES ASSUME Wrong # {} PROVE FALSE
    OBVIOUS
  <2>1. Wrong \subseteq Nat
    BY <1>2
  <2>2. PICK i \in Wrong : \A k \in Wrong : i <= k
    <3> HIDE DEF Wrong
    <3> QED
      BY <2>1, Least
  <2> HIDE DEF Right
  <2>3. i # 0 /\ i \in 0..Len(l) /\ ~ Right(i)
    BY <1>4, <2>2
  <2>4. i \in 1..Len(l) /\ i - 1 \in 0..Len(l) /\ i - 1 \notin Wrong
    BY <2>2, <2>3, <1>2
  <2> QED
    BY <2>3, <2>4, <1>5
<1>7. Right(Len(l))
  <2>1. Len(l) \in 0..Len(l)
    BY <1>2
  <2> HIDE DEF Right
  <2> QED
    BY <2>1, <1>6
<1>8. S(Len(l)) = L
  BY <1>1, <1>2 DEF Range
<1>9. Rehash(s) = at[Len(l)]
  BY RehashIsAt DEF at, l
<1> QED
  BY <1>7, <1>8, <1>9

LEMMA ResizeIs ==
  ASSUME NEW s, NEW L, Sound(s, L)
  PROVE  /\ Sound(Resize(s), L) /\ Keeps(s, Resize(s), {"arBuckets"}, {"pNext", "pLast"})
<1>1. s \in Table /\ L \in SUBSET Cells /\ L \subseteq s.alive
  BY SoundCells DEF Sound
<1>2. CASE s.nNumOfElements <= TableSize(s)
  <2>1. Resize(s) = s
    BY <1>2 DEF Resize
  <2> QED
    BY <2>1 DEF Keeps
<1>3. CASE ~ (s.nNumOfElements <= TableSize(s))
  <2> DEFINE ar == [i \in 0..2 * TableSize(s) - 1 |-> NULL]
             s1 == [s EXCEPT !.arBuckets = ar]
             s2 == Resize(s)
  <2>1. s2 = Rehash(s1)
    BY <1>3 DEF Resize
  <2>2. ar \in Slots
    <3>1. TableSize(s) \in Nat \ {0}
      <4>1. 0 \in Nat
        OBVIOUS
      <4> QED
        BY ONLY <4>1, <1>1, SlotIn
    <3>2. 2 * TableSize(s) \in Nat \ {0}
      BY <3>1
    <3>3. ar \in [0..2 * TableSize(s) - 1 -> Ptr]
      BY DEF Ptr
    <3> QED
      BY <3>2, <3>3 DEF Slots
  <2> HIDE DEF ar, s2
  <2>3. s1 \in Table /\ s1.mem = s.mem /\ \A x \in Fields \ {"arBuckets"} : s1[x] = s[x]
    BY <1>1, <2>2 DEF Table, Fields
  <2> HIDE DEF s1
  <2>4. Keeps(s, s1, {"arBuckets"}, {})
    BY <2>3 DEF Keeps
  <2>5. Line(s1, L)
    BY <1>1, <2>4, LineSame DEF Sound
  <2>6. /\ s2 \in Table /\ Chained(s2, L)
        /\ Keeps(s1, s2, {"arBuckets"}, {"pNext", "pLast"})
    BY <1>1, <2>1, <2>3, <2>5, RehashIs
  <2>7. Keeps(s, s2, {"arBuckets"}, {"pNext", "pLast"})
    BY <2>4, <2>6 DEF Keeps
  <2>8. Line(s2, L)
    BY <1>1, <2>7, LineSame DEF Sound
  <2>9. s2.alive = s.alive /\ \A c \in L : s2.mem[c].key = s.mem[c].key
    BY <1>1, <2>7 DEF Keeps, Fields, Links
  <2>10. Keyed(s2, L)
    BY <2>9 DEF Sound, Keyed
  <2>11. Sound(s2, L)
    BY <1>1, <2>6, <2>8, <2>9, <2>10 DEF Sound
  <2> QED
    BY <2>7, <2>11 DEF s2
<1> QED
  BY <1>2, <1>3

(***************************************************************************)
(* Lookups.                                                                *)
(***************************************************************************)
LEMMA MinIn ==
  ASSUME NEW S, S \subseteq Nat, S # {}
  PROVE  Min(S) \in S
<1>1. \E x \in S : \A y \in S : x <= y
  BY Least
<1> QED
  BY <1>1 DEF Min

LEMMA KeyIs == \A k \in AllKeys : k \in [h : Nat, name : Nat]
<1>1. \A i \in Indices : Key(i, 0) \in [h : Nat, name : Nat]
  BY TableAssumption DEF Key
<1>2. \A n \in Names : Key(HashFunc(n), n) \in [h : Nat, name : Nat]
  <2>1. SUFFICES ASSUME NEW n \in Names PROVE Key(HashFunc(n), n) \in [h : Nat, name : Nat]
    OBVIOUS
  <2>2. n \in Nat /\ HashRange \in Nat \ {0} /\ HashOffset \in Nat
    BY TableAssumption
  <2>3. n % HashRange \in Nat
    BY <2>2
  <2>4. HashFunc(n) \in Nat
    BY <2>2, <2>3 DEF HashFunc
  <2> QED
    BY <2>2, <2>4 DEF Key
<1>3. \A i \in 0..MaxCells - 1 : Key(i, 0) \in [h : Nat, name : Nat]
  BY TableAssumption DEF Key
<1> QED
  BY <1>1, <1>2, <1>3 DEF Keys, AllKeys

LEMMA KeysAll == Keys \subseteq AllKeys
  BY DEF AllKeys

LEMMA ChainIs ==
  ASSUME NEW s, NEW L, Sound(s, L), NEW h \in Nat
  PROVE  LET w == Chain(s, h) IN
         /\ w \in Seq(L) /\ Range(w) = Of(s, L, Slot(s, h)) /\ Range(w) \subseteq L
<1> DEFINE i == Slot(s, h)
           w == Chain(s, h)
<1>1. s \in Table /\ L \in SUBSET Cells
  BY SoundCells
<1>2. i \in DOMAIN s.arBuckets
  BY <1>1, SlotIn
<1>3. ListOf(s.mem, Of(s, L, i), s.arBuckets[i], "pNext", "pLast")
  BY <1>2 DEF Sound, Chained
<1>4. Walks(s, w, Of(s, L, i), s.arBuckets[i], "pNext", "pLast")
  BY <1>3, WalkIs DEF Chain
<1> HIDE DEF w, i
<1>5. w \in Seq(Of(s, L, i)) /\ Range(w) = Of(s, L, i)
  BY ONLY <1>4 DEF Walks
<1>6. Of(s, L, i) \subseteq L
  BY DEF Of
<1>7. w \in Seq(L)
  BY <1>5, <1>6
<1> QED
  BY <1>5, <1>6, <1>7 DEF w, i

\* A lookup finds the element that has the key, or there is none.
LEMMA FindIs ==
  ASSUME NEW s, NEW L, Sound(s, L), NEW k, k.h \in Nat
  PROVE  \/ Find(s, k) = NULL /\ \A c \in L : s.mem[c].key # k
         \/ Find(s, k) \in L /\ s.mem[Find(s, k)].key = k
<1> DEFINE w == Chain(s, k.h)
           hits == {i \in DOMAIN w : s.mem[w[i]].key = k}
<1>1. w \in Seq(L) /\ Range(w) = Of(s, L, Slot(s, k.h))
  BY ChainIs
<1>2. Find(s, k) = IF hits = {} THEN NULL ELSE w[Min(hits)]
  BY DEF Find, First
<1> HIDE DEF w
<1>3. CASE hits = {}
  <2>1. ASSUME NEW c \in L, s.mem[c].key = k PROVE FALSE
    <3>1. c \in Range(w)
      BY <2>1, <1>1 DEF Of
    <3>2. PICK i \in DOMAIN w : w[i] = c
      BY <3>1 DEF Range
    <3> QED
      BY <3>2, <2>1, <1>3
  <2> QED
    BY <2>1, <1>2, <1>3
<1>4. CASE hits # {}
  <2>1. hits \subseteq Nat
    BY <1>1
  <2>2. Min(hits) \in hits
    <3> HIDE DEF hits
    <3> QED
      BY <2>1, <1>4, MinIn
  <2>3. w[Min(hits)] \in L /\ s.mem[w[Min(hits)]].key = k
    <3> DEFINE i == Min(hits)
    <3> HIDE DEF i
    <3>1. i \in DOMAIN w /\ s.mem[w[i]].key = k
      BY <2>2 DEF i
    <3>2. w[i] \in L
      BY <3>1, <1>1
    <3> QED
      BY <3>1, <3>2 DEF i
  <2> QED
    BY <2>3, <1>2, <1>4
<1> QED
  BY <1>3, <1>4

LEMMA FindDelIs ==
  ASSUME NEW s, NEW L, Sound(s, L), NEW k, k.h \in Nat, FindDel(s, k) # NULL
  PROVE  FindDel(s, k) \in L
<1> DEFINE w == Chain(s, k.h)
           hits == {i \in DOMAIN w : /\ s.mem[w[i]].key.h = k.h
                                     /\ s.mem[w[i]].key.name = 0 \/ s.mem[w[i]].key.name = k.name}
<1>1. w \in Seq(L)
  BY ChainIs
<1>2. FindDel(s, k) = IF hits = {} THEN NULL ELSE w[Min(hits)]
  BY DEF FindDel, First
<1> HIDE DEF w
<1>3. hits # {} /\ hits \subseteq Nat /\ hits \subseteq DOMAIN w
  <2>1. hits \subseteq DOMAIN w
    OBVIOUS
  <2>2. DOMAIN w \subseteq Nat
    BY <1>1
  <2> HIDE DEF hits
  <2>3. hits # {}
    BY <1>2
  <2> QED
    BY <2>1, <2>2, <2>3
<1> HIDE DEF hits
<1>4. Min(hits) \in DOMAIN w
  BY <1>3, MinIn
<1> QED
  BY <1>1, <1>2, <1>3, <1>4

(***************************************************************************)
(* The other changes of the table.                                         *)
(***************************************************************************)
\* The bucket p, not linked yet.
Fresh(s, p, k, v) ==
  [s EXCEPT !.mem[p] = [NoBucket EXCEPT !.key = k, !.data = v], !.alive = @ \cup {p}]

LEMMA FreshIs ==
  ASSUME NEW s, NEW L, Sound(s, L), NEW p \in Cells, p \notin L, NEW k \in Keys, NEW v \in Values
  PROVE  LET s2 == Fresh(s, p, k, v) IN
         /\ Sound(s2, L) /\ s2.alive = s.alive \cup {p}
         /\ s2.mem[p].key = k /\ s2.mem[p].data = v
         /\ \A x \in Fields \ {"alive"} : s2[x] = s[x]
         /\ \A c \in L : s2.mem[c] = s.mem[c]
<1> DEFINE b  == [NoBucket EXCEPT !.key = k, !.data = v]
           m  == [s.mem EXCEPT ![p] = b]
           al == s.alive \cup {p}
           s2 == Fresh(s, p, k, v)
<1>1. s \in Table /\ L \in SUBSET Cells /\ L \subseteq s.alive
  BY SoundCells DEF Sound
<1>2. b \in Bucket /\ b.key = k /\ b.data = v
  BY KeyIs, KeysAll, NoBucketIs DEF Bucket
<1> HIDE DEF b
<1>3. m \in [Cells -> Bucket] /\ m[p] = b /\ \A c \in L : m[c] = s.mem[c]
  BY <1>1, <1>2 DEF Table
<1>4. al \in SUBSET Cells
  BY <1>1 DEF Table
<1>5. s2 = [s EXCEPT !.mem = m, !.alive = al]
  BY <1>1 DEF Fresh, Table, b
<1> HIDE DEF m, al, s2
<1>6. /\ s2 \in Table /\ s2.alive = al /\ s2.mem = m
      /\ \A x \in Fields \ {"alive"} : s2[x] = s[x]
  BY <1>1, <1>3, <1>4, <1>5 DEF Table, Fields
<1>7. /\ s2.arBuckets = s.arBuckets /\ s2.pListHead = s.pListHead
      /\ s2.pListTail = s.pListTail /\ s2.pInternalPointer = s.pInternalPointer
  BY <1>6 DEF Fields
<1>8. L \subseteq s2.alive /\ s2.pInternalPointer \in L \cup {NULL}
  BY <1>1, <1>6, <1>7 DEF Sound, Line, al
<1>9. \A c \in L : s2.mem[c] = s.mem[c]
  BY <1>3, <1>6
<1>10. Sound(s2, L)
  BY <1>6, <1>7, <1>8, <1>9, SoundIf
<1> QED
  BY <1>2, <1>3, <1>6, <1>9, <1>10 DEF s2, al

\* What Insert makes of the table.
Inserted(s, p, k, v) ==
  LET s2 == Bump(ConnectList(ConnectChain(Fresh(s, p, k, v), p), p), k)
  IN Resize([s2 EXCEPT !.nNumOfElements = @ + 1])

\* A new element is at the end of the global list.
Joined(s, s2, L, p) ==
  /\ s2.pListHead = IF s.pListHead = NULL THEN p ELSE s.pListHead
  /\ s2.pInternalPointer = IF s.pInternalPointer = NULL THEN p ELSE s.pInternalPointer
  /\ \A c \in L : /\ s2.mem[c]["pListLast"] = s.mem[c]["pListLast"]
                  /\ s.mem[c]["pListNext"] # NULL =>
                       s2.mem[c]["pListNext"] = s.mem[c]["pListNext"]

\* The data of the elements.
Holds(s, s2, L, p, k, v) ==
  /\ s2.mem[p].key = k /\ s2.mem[p].data = v
  /\ \A c \in L : s2.mem[c].key = s.mem[c].key /\ s2.mem[c].data = s.mem[c].data
  /\ s2.nNextFreeElement = NextFree(s, k)

InsertOK(s, s2, L, p, k, v) ==
  /\ Sound(s2, L \cup {p}) /\ Joined(s, s2, L, p) /\ Holds(s, s2, L, p, k, v)
  /\ s2.alive = s.alive \cup {p} /\ s2.nNumOfElements = s.nNumOfElements + 1

LEMMA InsertIs ==
  ASSUME NEW s, NEW L, Sound(s, L), NEW p \in Cells, p \notin L,
         NEW k \in Keys, NEW v \in Values, \A c \in L : s.mem[c].key # k
  PROVE  InsertOK(s, Inserted(s, p, k, v), L, p, k, v)
<1> DEFINE a1 == Fresh(s, p, k, v)
           a2 == ConnectChain(a1, p)
           a3 == ConnectList(a2, p)
           a4 == Bump(a3, k)
           a5 == [a4 EXCEPT !.nNumOfElements = @ + 1]
           s2 == Inserted(s, p, k, v)
           K  == L \cup {p}
<1>1. /\ Sound(a1, L) /\ a1.alive = s.alive \cup {p}
      /\ a1.mem[p].key = k /\ a1.mem[p].data = v
      /\ \A x \in Fields \ {"alive"} : a1[x] = s[x]
      /\ \A c \in L : a1.mem[c] = s.mem[c]
  BY FreshIs
<1>2. s2 = Resize(a5)
  BY DEF Inserted
<1> HIDE DEF a1, s2
<1>3. a1 \in Table /\ L \in SUBSET Cells /\ Chained(a1, L) /\ Line(a1, L) /\ K \in SUBSET Cells
  BY <1>1, SoundCells DEF Sound
<1>4. /\ a2 \in Table /\ Chained(a2, K)
      /\ Keeps(a1, a2, {"arBuckets"}, {"pNext", "pLast"})
  BY <1>3, ConnectChainIs
<1> HIDE DEF a2
<1>5. Line(a2, L)
  BY <1>3, <1>4, LineSame
<1>6. /\ a3 \in Table /\ Line(a3, K)
      /\ Keeps(a2, a3, {"pListHead", "pListTail", "pInternalPointer"}, {"pListNext", "pListLast"})
      /\ a3.pListHead = IF a2.pListHead = NULL THEN p ELSE a2.pListHead
      /\ a3.pInternalPointer = IF a2.pInternalPointer = NULL THEN p ELSE a2.pInternalPointer
      /\ \A c \in L : /\ a3.mem[c]["pListLast"] = a2.mem[c]["pListLast"]
                      /\ a2.mem[c]["pListNext"] # NULL =>
                           a3.mem[c]["pListNext"] = a2.mem[c]["pListNext"]
  BY <1>3, <1>4, <1>5, ConnectListIs
<1> HIDE DEF a3
<1>7. Chained(a3, K)
  BY <1>3, <1>4, <1>6, ChainedSame
<1>8. k.h \in Nat
  BY KeyIs, KeysAll
<1>9. /\ a4 \in Table /\ Keeps(a3, a4, {"nNextFreeElement"}, {})
      /\ a4.nNextFreeElement = NextFree(a3, k)
  BY <1>6, <1>8, BumpIs
<1> HIDE DEF a4
<1>10. /\ a5 \in Table /\ a5.nNumOfElements = a4.nNumOfElements + 1 /\ a5.mem = a4.mem
       /\ \A x \in Fields \ {"nNumOfElements"} : a5[x] = a4[x]
  <2> DEFINE n == a4.nNumOfElements + 1
  <2>1. n \in Int /\ a5 = [a4 EXCEPT !.nNumOfElements = n]
    BY <1>9 DEF Table
  <2> HIDE DEF n, a5
  <2>2. /\ a5 \in Table /\ a5.nNumOfElements = n /\ a5.mem = a4.mem
        /\ \A x \in Fields \ {"nNumOfElements"} : a5[x] = a4[x]
    BY <1>9, <2>1 DEF Table, Fields
  <2> QED
    BY <2>2 DEF n
<1> HIDE DEF a5
<1>11. Keeps(a4, a5, {"nNumOfElements"}, {})
  BY <1>10 DEF Keeps
<1>12. Keeps(a3, a5, {"nNumOfElements", "nNextFreeElement"}, {})
  BY <1>9, <1>11 DEF Keeps
<1>13. Line(a5, K) /\ Chained(a5, K)
  BY <1>3, <1>6, <1>7, <1>12, LineSame, ChainedSame
<1>14. /\ \A c \in Cells : a5.mem[c].key = a1.mem[c].key /\ a5.mem[c].data = a1.mem[c].data
       /\ a5.alive = a1.alive
       /\ a5.nNumOfElements = a1.nNumOfElements + 1
       /\ a5.pListHead = a3.pListHead /\ a2.pListHead = a1.pListHead
       /\ a5.pInternalPointer = a3.pInternalPointer /\ a2.pInternalPointer = a1.pInternalPointer
       /\ a5.nNextFreeElement = NextFree(a1, k)
       /\ \A c \in Cells : /\ a5.mem[c]["pListLast"] = a3.mem[c]["pListLast"]
                           /\ a5.mem[c]["pListNext"] = a3.mem[c]["pListNext"]
                           /\ a2.mem[c]["pListLast"] = a1.mem[c]["pListLast"]
                           /\ a2.mem[c]["pListNext"] = a1.mem[c]["pListNext"]
  <2>1. a5.nNumOfElements = a1.nNumOfElements + 1
    <3>1. a4.nNumOfElements = a1.nNumOfElements
      BY <1>4, <1>6, <1>9 DEF Keeps, Fields
    <3> QED
      BY <3>1, <1>10
  <2>2. a5.alive = a1.alive
    BY <1>4, <1>6, <1>12 DEF Keeps, Fields
  <2>3. /\ a5.pListHead = a3.pListHead /\ a2.pListHead = a1.pListHead
        /\ a5.pInternalPointer = a3.pInternalPointer /\ a2.pInternalPointer = a1.pInternalPointer
    BY <1>4, <1>12 DEF Keeps, Fields
  <2>7. a5.nNextFreeElement = NextFree(a1, k)
    <3>1. a5.nNextFreeElement = a4.nNextFreeElement
      BY <1>10 DEF Fields
    <3>2. a3.nNextFreeElement = a1.nNextFreeElement
      BY <1>4, <1>6 DEF Keeps, Fields
    <3> QED
      BY <3>1, <3>2, <1>9 DEF NextFree
  <2>4. \A c \in Cells : a5.mem[c].key = a1.mem[c].key /\ a5.mem[c].data = a1.mem[c].data
    BY <1>4, <1>6, <1>12 DEF Keeps, Links
  <2>5. \A c \in Cells : /\ a5.mem[c]["pListLast"] = a3.mem[c]["pListLast"]
                         /\ a5.mem[c]["pListNext"] = a3.mem[c]["pListNext"]
    BY <1>12 DEF Keeps, Links
  <2>6. \A c \in Cells : /\ a2.mem[c]["pListLast"] = a1.mem[c]["pListLast"]
                         /\ a2.mem[c]["pListNext"] = a1.mem[c]["pListNext"]
    BY <1>4 DEF Keeps, Links
  <2> QED
    BY <2>1, <2>2, <2>3, <2>4, <2>5, <2>6, <2>7
<1>15. a5.mem[p].key = k /\ \A c \in L : a5.mem[c].key = s.mem[c].key
  BY <1>1, <1>3, <1>14
<1>16. Keyed(a5, K)
  <2>1. Keyed(s, L)
    BY DEF Sound
  <2>2. ASSUME NEW c \in K PROVE a5.mem[c].key \in AllKeys
    BY <1>15, <2>1, <2>2, KeysAll DEF Keyed
  <2>3. ASSUME NEW c \in K, NEW d \in K, a5.mem[c].key = a5.mem[d].key PROVE c = d
    <3>1. CASE c \in L /\ d \in L
      BY <3>1, <1>15, <2>1, <2>3 DEF Keyed
    <3>2. CASE c \in L /\ d = p
      BY <3>2, <1>15, <2>3
    <3>3. CASE c = p /\ d \in L
      BY <3>3, <1>15, <2>3
    <3> QED
      BY <3>1, <3>2, <3>3
  <2> QED
    BY <2>2, <2>3 DEF Keyed
<1>17. Sound(a5, K)
  <2>1. K \subseteq a5.alive
    BY <1>1, <1>14 DEF Sound
  <2> QED
    BY <2>1, <1>10, <1>13, <1>16 DEF Sound
<1>18. Sound(s2, K) /\ Keeps(a5, s2, {"arBuckets"}, {"pNext", "pLast"})
  BY <1>2, <1>17, ResizeIs
<1>19. /\ s2.alive = a5.alive /\ s2.nNumOfElements = a5.nNumOfElements
       /\ s2.pListHead = a5.pListHead /\ s2.pInternalPointer = a5.pInternalPointer
       /\ s2.nNextFreeElement = a5.nNextFreeElement
       /\ \A c \in Cells : /\ s2.mem[c]["pListLast"] = a5.mem[c]["pListLast"]
                           /\ s2.mem[c]["pListNext"] = a5.mem[c]["pListNext"]
                           /\ s2.mem[c]["key"] = a5.mem[c]["key"]
                           /\ s2.mem[c]["data"] = a5.mem[c]["data"]
  BY <1>18 DEF Keeps, Fields, Links
<1>20. /\ a1.pListHead = s.pListHead /\ a1.nNumOfElements = s.nNumOfElements
       /\ a1.pInternalPointer = s.pInternalPointer /\ a1.nNextFreeElement = s.nNextFreeElement
  BY <1>1 DEF Fields
<1>21. Joined(s, s2, L, p)
  <2>1. \A c \in L : c \in Cells
    BY <1>3
  <2>2. /\ s2.pListHead = IF s.pListHead = NULL THEN p ELSE s.pListHead
        /\ s2.pInternalPointer = IF s.pInternalPointer = NULL THEN p ELSE s.pInternalPointer
    BY <1>6, <1>14, <1>19, <1>20
  <2>3. ASSUME NEW c \in L
        PROVE  /\ s2.mem[c]["pListLast"] = s.mem[c]["pListLast"]
               /\ s.mem[c]["pListNext"] # NULL =>
                    s2.mem[c]["pListNext"] = s.mem[c]["pListNext"]
    BY <2>1, <1>1, <1>6, <1>14, <1>19
  <2> QED
    BY <2>2, <2>3 DEF Joined
<1>22. s2.alive = s.alive \cup {p} /\ s2.nNumOfElements = s.nNumOfElements + 1
  BY <1>1, <1>14, <1>19, <1>20
<1>23. Holds(s, s2, L, p, k, v)
  <2>1. \A c \in L : c \in Cells
    BY <1>3
  <2>2. s2.nNextFreeElement = NextFree(s, k)
    BY <1>14, <1>19, <1>20 DEF NextFree
  <2> QED
    BY <2>1, <2>2, <1>1, <1>14, <1>19 DEF Holds
<1> QED
  BY <1>18, <1>21, <1>22, <1>23 DEF s2, InsertOK

\* The links and the keys of the elements stay: only the data, the counters or the
\* internal pointer change.
Stays(s, s2, L) ==
  /\ s2.alive = s.alive /\ s2.nNumOfElements = s.nNumOfElements
  /\ s2.pListHead = s.pListHead
  /\ \A c \in L : \A y \in Links \cup {"key"} : s2.mem[c][y] = s.mem[c][y]

LEMMA DataIs ==
  ASSUME NEW s, NEW L, Sound(s, L), NEW p \in L, NEW v \in Values \cup {0}
  PROVE  LET s2 == Bump(Set(s, p, "data", v), s.mem[p].key)
         IN /\ Sound(s2, L) /\ Stays(s, s2, L)
            /\ s2.pInternalPointer = s.pInternalPointer
            /\ s2.nNextFreeElement = NextFree(s, s.mem[p].key)
            /\ \A c \in L : s2.mem[c].data = IF c = p THEN v ELSE s.mem[c].data
<1> DEFINE b  == [s.mem[p] EXCEPT !.data = v]
           m  == [s.mem EXCEPT ![p] = b]
           s1 == Set(s, p, "data", v)
           s2 == Bump(s1, s.mem[p].key)
<1>1. /\ s \in Table /\ L \in SUBSET Cells /\ L \subseteq s.alive /\ p \in Cells
      /\ s.mem[p].key.h \in Nat
  BY SoundCells, HashNat DEF Sound
<1>2. s1 = [s EXCEPT !.mem = m]
  <2>1. p # NULL
    BY <1>1, NotNull
  <2> QED
    BY <2>1 DEF Set
<1>3. s.mem[p] \in Bucket
  BY <1>1 DEF Table
<1>4. b \in Bucket /\ b.data = v /\ \A y \in Links \cup {"key"} : b[y] = s.mem[p][y]
  BY <1>3 DEF Bucket, Links
<1> HIDE DEF b
<1>5. /\ m \in [Cells -> Bucket]
      /\ \A c \in Cells : \A y \in Links \cup {"key"} : m[c][y] = s.mem[c][y]
      /\ \A c \in Cells : m[c].data = IF c = p THEN v ELSE s.mem[c].data
  BY <1>1, <1>4 DEF Table
<1> HIDE DEF m, s1
<1>6. s1 \in Table /\ s1.mem = m /\ \A x \in Fields : s1[x] = s[x]
  BY <1>1, <1>2, <1>5 DEF Table, Fields
<1>7. /\ s2 \in Table /\ Keeps(s1, s2, {"nNextFreeElement"}, {})
      /\ s2.nNextFreeElement = NextFree(s1, s.mem[p].key)
  BY <1>1, <1>6, BumpIs
<1> HIDE DEF s2
<1>8. /\ s2.arBuckets = s.arBuckets /\ s2.pListHead = s.pListHead
      /\ s2.pListTail = s.pListTail /\ s2.pInternalPointer = s.pInternalPointer
      /\ s2.alive = s.alive /\ s2.nNumOfElements = s.nNumOfElements
  BY <1>6, <1>7 DEF Keeps, Fields
<1>9. \A c \in L : \A y \in Links \cup {"key"} : s2.mem[c][y] = s.mem[c][y]
  BY <1>1, <1>5, <1>6, <1>7 DEF Keeps
<1>10. s2.pInternalPointer \in L \cup {NULL}
  BY <1>8 DEF Sound, Line
<1>11. Sound(s2, L)
  BY <1>1, <1>7, <1>8, <1>9, <1>10, SoundIf
<1>12. s2.nNextFreeElement = NextFree(s, s.mem[p].key)
  BY <1>6, <1>7 DEF NextFree, Fields
<1>13. \A c \in L : s2.mem[c].data = IF c = p THEN v ELSE s.mem[c].data
  BY <1>1, <1>5, <1>6, <1>7 DEF Keeps
<1> QED
  BY <1>8, <1>9, <1>11, <1>12, <1>13 DEF Stays, s1, s2

LEMMA ApplyCountIs ==
  ASSUME NEW s, NEW L, Sound(s, L), NEW n \in Int
  PROVE  LET s2 == [s EXCEPT !.nApplyCount = n] IN Sound(s2, L) /\ Stays(s, s2, L)
<1> DEFINE s2 == [s EXCEPT !.nApplyCount = n]
<1>1. s \in Table /\ L \subseteq s.alive
  BY SoundCells DEF Sound
<1>2. s2 \in Table /\ s2.mem = s.mem /\ \A x \in Fields \ {"nApplyCount"} : s2[x] = s[x]
  BY <1>1 DEF Table, Fields
<1> HIDE DEF s2
<1>3. /\ s2.arBuckets = s.arBuckets /\ s2.pListHead = s.pListHead
      /\ s2.pListTail = s.pListTail /\ s2.pInternalPointer = s.pInternalPointer
      /\ s2.alive = s.alive /\ s2.nNumOfElements = s.nNumOfElements
  BY <1>2 DEF Fields
<1>4. s2.pInternalPointer \in L \cup {NULL}
  BY <1>3 DEF Sound, Line
<1>5. Sound(s2, L)
  BY <1>1, <1>2, <1>3, <1>4, SoundIf
<1> QED
  BY <1>2, <1>3, <1>5 DEF Stays, s2

LEMMA PointerIs ==
  ASSUME NEW s, NEW L, Sound(s, L), NEW p \in L \cup {NULL}
  PROVE  LET s2 == [s EXCEPT !.pInternalPointer = p] IN Sound(s2, L) /\ Stays(s, s2, L)
<1> DEFINE s2 == [s EXCEPT !.pInternalPointer = p]
<1>1. s \in Table /\ L \subseteq s.alive /\ p \in Ptr
  BY SoundCells DEF Sound, Ptr
<1>2. /\ s2 \in Table /\ s2.mem = s.mem /\ s2.pInternalPointer = p
      /\ \A x \in Fields \ {"pInternalPointer"} : s2[x] = s[x]
  BY <1>1 DEF Table, Fields
<1> HIDE DEF s2
<1>3. /\ s2.arBuckets = s.arBuckets /\ s2.pListHead = s.pListHead
      /\ s2.pListTail = s.pListTail
      /\ s2.alive = s.alive /\ s2.nNumOfElements = s.nNumOfElements
  BY <1>2 DEF Fields
<1>5. Sound(s2, L)
  BY <1>1, <1>2, <1>3, SoundIf
<1> QED
  BY <1>2, <1>3, <1>5 DEF Stays, s2

LEMMA EmptyIs ==
  ASSUME NEW al \in SUBSET Cells
  PROVE  /\ Sound([Empty EXCEPT !.alive = al], {}) /\ [Empty EXCEPT !.alive = al].alive = al
         /\ [Empty EXCEPT !.alive = al].nNumOfElements = 0
<1> DEFINE ar == [i \in 0..MinTableSize - 1 |-> NULL]
           s  == [Empty EXCEPT !.alive = al]
<1>1. ar \in Slots
  <2>1. MinTableSize \in Nat \ {0} /\ ar \in [0..MinTableSize - 1 -> Ptr]
    BY TableAssumption DEF Ptr
  <2> QED
    BY <2>1 DEF Slots
<1>2. /\ s.arBuckets = ar /\ s.alive = al /\ s.pListHead = NULL /\ s.pListTail = NULL
      /\ s.pInternalPointer = NULL /\ s.nNumOfElements = 0
  BY DEF Empty
<1>3. s \in Table
  <2>1. [c \in Cells |-> NoBucket] \in [Cells -> Bucket]
    BY NoBucketIs
  <2> DEFINE mm == [c \in Cells |-> NoBucket]
  <2>0. Empty = [mem |-> mm, alive |-> {}, arBuckets |-> ar,
                 pListHead |-> NULL, pListTail |-> NULL, pInternalPointer |-> NULL,
                 nNumOfElements |-> 0, nNextFreeElement |-> 0, nApplyCount |-> 0]
    BY DEF Empty
  <2> HIDE DEF mm, ar
  <2>2. s = [mem |-> mm, alive |-> al, arBuckets |-> ar,
             pListHead |-> NULL, pListTail |-> NULL, pInternalPointer |-> NULL,
             nNumOfElements |-> 0, nNextFreeElement |-> 0, nApplyCount |-> 0]
    BY <2>0
  <2> HIDE DEF s
  <2> QED
    BY <2>1, <2>2, <1>1 DEF Table, Ptr, mm
<1> HIDE DEF s
<1>4. ListOf(s.mem, {}, NULL, "pListNext", "pListLast") /\ Ends(s.mem, {}, NULL, "pListNext")
  BY DEF ListOf, Acyclic, Ends
<1>5. Line(s, {})
  BY <1>2, <1>4 DEF Line
<1>6. Chained(s, {})
  <2>1. ListOf(s.mem, {}, NULL, "pNext", "pLast")
    BY DEF ListOf, Acyclic
  <2>2. \A i : Of(s, {}, i) = {}
    BY DEF Of
  <2>3. \A i \in DOMAIN s.arBuckets : s.arBuckets[i] = NULL
    BY <1>2
  <2> QED
    BY <2>1, <2>2, <2>3 DEF Chained
<1>7. Sound(s, {})
  BY <1>3, <1>5, <1>6 DEF Sound, Keyed
<1> QED
  BY <1>2, <1>7 DEF s

(***************************************************************************)
(* The operations in progress, when callbacks do not clean, destroy or     *)
(* sort the table, and nobody walks it backwards.                          *)
(***************************************************************************)
FrameType ==
  [op : {"update", "del", "apply", "graceful"}, phase : {"func", "dtor", "end"},
   p : Ptr, q : Ptr, data : Values \cup {0}, arr : {<<>>},
   owed : SUBSET Cells, seen : SUBSET Cells]

\* B are the elements before the one the apply is at: those of them it owes a call
\* have had it.
Before(s, L, f, B) ==
  /\ B \subseteq L /\ f.p \notin B
  /\ s.pListHead \in B \cup {f.p} /\ s.mem[f.p]["pListLast"] \in B \cup {NULL}
  /\ \A c \in B : /\ s.mem[c]["pListNext"] \in B \cup {f.p}
                  /\ s.mem[c]["pListLast"] \in B \cup {NULL}
  /\ f.owed \cap B \subseteq f.seen
  /\ f.phase = "func" => f.seen \cap L \subseteq B
  /\ f.phase = "dtor" => f.seen \cap L \subseteq B \cup {f.p} /\ f.p \in f.seen

UpdateOK(L, f)    == f.phase = "dtor" /\ f.p \in L /\ f.data \in Values
DelOK(s, L, f)    == f.phase = "dtor" /\ f.p \in s.alive \ L
GracefulOK(s, L, f) ==
  /\ f.phase # "func"
  /\ f.phase = "dtor" => f.p \in L /\ f.p = s.pListHead
  /\ f.phase = "end" => L = {}
ApplyOK(s, L, f) ==
  /\ f.phase # "end" => f.p \in L /\ \E B \in SUBSET L : Before(s, L, f, B)
  /\ f.phase = "end" => f.p = NULL /\ f.owed \cap L \subseteq f.seen

FrameOK(s, L, f) ==
  /\ f.op = "update" => UpdateOK(L, f)
  /\ f.op = "del" => DelOK(s, L, f)
  /\ f.op = "graceful" => GracefulOK(s, L, f)
  /\ f.op = "apply" => ApplyOK(s, L, f)

Frames(s, L, st) ==
  /\ st \in Seq(FrameType)
  /\ \A i \in DOMAIN st : FrameOK(s, L, st[i])
  \* no two deletions of the same bucket
  /\ \A i, j \in DOMAIN st : st[i].op = "del" /\ st[j].op = "del" /\ st[i].p = st[j].p => i = j
  \* only the last operation can be at its end
  /\ \A i \in DOMAIN st : st[i].phase = "end" \/ st[i].op = "graceful" =>
       (st[i].op = "graceful" => i = 1) /\ (st[i].phase = "end" => i = Len(st))
  \* an element that an apply deletes is in no other hands
  /\ \A i, j \in DOMAIN st :
       st[i].op = "apply" /\ st[i].phase = "dtor" /\ j < i => st[i].p \notin Given(st[j])

LEMMA GivenIs ==
  ASSUME NEW f \in FrameType
  PROVE  Given(f) = IF f.op = "del" THEN {} ELSE {f.p}
<1>1. f.op # "sort" /\ f.phase # "saved"
  BY DEF FrameType
<1>2. CASE f.op = "del"
  BY <1>1, <1>2 DEF Given
<1>3. CASE f.op # "del"
  BY <1>1, <1>3 DEF Given
<1> QED
  BY <1>2, <1>3

\* The table changes, but not its links.
LEMMA FrameStays ==
  ASSUME NEW s, NEW s2, NEW L, Sound(s, L), Stays(s, s2, L), NEW f \in FrameType, FrameOK(s, L, f)
  PROVE  FrameOK(s2, L, f)
<1>1. \A c \in L : /\ s2.mem[c]["pListNext"] = s.mem[c]["pListNext"]
                   /\ s2.mem[c]["pListLast"] = s.mem[c]["pListLast"]
  BY DEF Stays, Links
<1>2. s2.alive = s.alive /\ s2.pListHead = s.pListHead
  BY DEF Stays
<1>3. ASSUME NEW B \in SUBSET L, f.p \in L, Before(s, L, f, B) PROVE Before(s2, L, f, B)
  BY <1>1, <1>2, <1>3 DEF Before
<1>4. ASSUME ApplyOK(s, L, f) PROVE ApplyOK(s2, L, f)
  BY <1>3, <1>4 DEF ApplyOK
<1> QED
  BY <1>2, <1>4 DEF FrameOK, DelOK, GracefulOK

\* An element leaves that is not in the frame's hands.
LEMMA FrameGone ==
  ASSUME NEW s, NEW s2, NEW L, Sound(s, L), NEW x \in L, Past(s, s2, L, x),
         s.alive \ {x} \subseteq s2.alive,
         NEW f \in FrameType, FrameOK(s, L, f), x \notin Given(f)
  PROVE  FrameOK(s2, L \ {x}, f)
<1> DEFINE m    == s.mem
           next == m[x]["pListNext"]
           last == m[x]["pListLast"]
           K    == L \ {x}
<1>0. f.op # "del" => x # f.p
  BY GivenIs
<1>1. /\ L \subseteq Cells /\ NULL \notin L /\ s.pListHead \in L \cup {NULL}
      /\ \A c \in L : /\ m[c]["pListNext"] \in L \cup {NULL} /\ m[c]["pListLast"] \in L \cup {NULL}
                      /\ m[c]["pListNext"] # NULL => m[m[c]["pListNext"]]["pListLast"] = c
                      /\ m[c]["pListLast"] # NULL => m[m[c]["pListLast"]]["pListNext"] = c
                      /\ m[c]["pListLast"] = NULL <=> c = s.pListHead
  BY NotNull DEF Sound, Line, ListOf
<1>2. next # x /\ last # x
  <2>1. \E d \in {x} : m[d]["pListLast"] \notin {x}
    <3>1. ListOf(s.mem, L, s.pListHead, "pListNext", "pListLast")
      BY DEF Sound, Line
    <3> QED
      BY ONLY <3>1, x \in L DEF ListOf, Acyclic
  <2> QED
    BY <2>1, <1>1
<1>3. /\ s2.pListHead = IF last = NULL THEN next ELSE s.pListHead
      /\ \A c \in K : /\ s2.mem[c]["pListNext"] = IF c = last THEN next ELSE m[c]["pListNext"]
                      /\ s2.mem[c]["pListLast"] = IF c = next THEN last ELSE m[c]["pListLast"]
  BY DEF Past
<1>4. f.op = "update" => UpdateOK(K, f)
  BY <1>0 DEF FrameOK, UpdateOK
<1>5. f.op = "del" => DelOK(s2, K, f)
  BY DEF FrameOK, DelOK
<1>6. f.op = "graceful" => GracefulOK(s2, K, f)
  BY <1>0, <1>1, <1>3 DEF FrameOK, GracefulOK
<1>7. ASSUME NEW B \in SUBSET L, f.op = "apply", f.phase # "end", f.p \in L, Before(s, L, f, B)
      PROVE  Before(s2, K, f, B \ {x})
  <2> DEFINE C == B \ {x}
  <2>1. x # f.p /\ f.p \in K
    BY <1>0, <1>7
  <2>2. /\ f.p \notin B /\ s.pListHead \in B \cup {f.p} /\ m[f.p]["pListLast"] \in B \cup {NULL}
        /\ \A c \in B : /\ m[c]["pListNext"] \in B \cup {f.p}
                        /\ m[c]["pListLast"] \in B \cup {NULL}
    BY <1>7 DEF Before
  <2>3. s2.pListHead \in C \cup {f.p}
    <3>1. CASE last = NULL
      <4>1. x = s.pListHead /\ x \in B
        BY <3>1, <1>1, <2>1, <2>2
      <4> QED
        BY <4>1, <3>1, <1>2, <1>3, <2>2
    <3>2. CASE last # NULL
      <4>1. x # s.pListHead
        BY <3>2, <1>1
      <4> QED
        BY <4>1, <3>2, <1>3, <2>2
    <3> QED
      BY <3>1, <3>2
  <2>4. next = f.p => x \in B
    BY <1>1, <2>1, <2>2, <1>7
  <2>5. s2.mem[f.p]["pListLast"] \in C \cup {NULL}
    <3>1. CASE f.p = next
      BY <3>1, <2>1, <2>2, <2>4, <1>2, <1>3
    <3>2. CASE f.p # next
      <4>1. m[f.p]["pListLast"] # x
        BY <3>2, <1>1, <1>7
      <4> QED
        BY <4>1, <3>2, <2>1, <2>2, <1>3
    <3> QED
      BY <3>1, <3>2
  <2>6. ASSUME NEW c \in C
        PROVE  /\ s2.mem[c]["pListNext"] \in C \cup {f.p}
               /\ s2.mem[c]["pListLast"] \in C \cup {NULL}
    <3>1. c \in K /\ c \in B /\ c # NULL
      BY <1>1
    <3>2. s2.mem[c]["pListNext"] \in C \cup {f.p}
      <4>1. CASE c = last
        <5>1. m[c]["pListNext"] = x
          BY <4>1, <3>1, <1>1
        <5>2. x \in B
          BY <5>1, <3>1, <2>1, <2>2
        <5> QED
          BY <4>1, <5>2, <3>1, <1>2, <1>3, <2>2
      <4>2. CASE c # last
        <5>1. m[c]["pListNext"] # x
          BY <4>2, <3>1, <1>1, <1>7
        <5> QED
          BY <4>2, <5>1, <3>1, <1>3, <2>2
      <4> QED
        BY <4>1, <4>2
    <3>3. s2.mem[c]["pListLast"] \in C \cup {NULL}
      <4>1. CASE c = next
        <5>1. m[c]["pListLast"] = x
          BY <4>1, <3>1, <1>1
        <5>2. x \in B
          BY <5>1, <3>1, <2>2, <1>1
        <5> QED
          BY <4>1, <5>2, <3>1, <1>2, <1>3, <2>2
      <4>2. CASE c # next
        <5>1. m[c]["pListLast"] # x
          BY <4>2, <3>1, <1>1, <1>7
        <5> QED
          BY <4>2, <5>1, <3>1, <1>3, <2>2
      <4> QED
        BY <4>1, <4>2
    <3> QED
      BY <3>2, <3>3
  <2>7. /\ C \subseteq K /\ f.p \notin C /\ f.owed \cap C \subseteq f.seen
        /\ f.phase = "func" => f.seen \cap K \subseteq C
        /\ f.phase = "dtor" => f.seen \cap K \subseteq C \cup {f.p} /\ f.p \in f.seen
    BY <1>7 DEF Before
  <2> QED
    BY <2>3, <2>5, <2>6, <2>7 DEF Before
<1>8. f.op = "apply" => ApplyOK(s2, K, f)
  <2> SUFFICES ASSUME f.op = "apply" PROVE ApplyOK(s2, K, f)
    OBVIOUS
  <2>1. ApplyOK(s, L, f)
    BY DEF FrameOK
  <2>2. CASE f.phase = "end"
    BY <2>1, <2>2 DEF ApplyOK
  <2>3. CASE f.phase # "end"
    <3>1. PICK B \in SUBSET L : f.p \in L /\ Before(s, L, f, B)
      BY <2>1, <2>3 DEF ApplyOK
    <3>2. Before(s2, K, f, B \ {x}) /\ B \ {x} \in SUBSET K /\ f.p \in K
      BY <3>1, <2>3, <1>0, <1>7
    <3> QED
      BY <3>2, <2>3 DEF ApplyOK
  <2> QED
    BY <2>2, <2>3
<1> QED
  BY <1>4, <1>5, <1>6, <1>8 DEF FrameOK

\* An element joins at the end of the global list; p has not been seen.
LEMMA FrameJoined ==
  ASSUME NEW s, NEW s2, NEW L, Sound(s, L), NEW p \in Cells, p \notin s.alive,
         Joined(s, s2, L, p), s.alive \subseteq s2.alive,
         NEW f \in FrameType, f.phase # "end", FrameOK(s, L, f)
  PROVE  LET f2 == [f EXCEPT !.owed = @ \ {p}, !.seen = @ \ {p}]
         IN f2 \in FrameType /\ FrameOK(s2, L \cup {p}, f2)
<1> DEFINE ow == f.owed \ {p}
           se == f.seen \ {p}
           f2 == [f EXCEPT !.owed = @ \ {p}, !.seen = @ \ {p}]
           K  == L \cup {p}
           m  == s.mem
<1>1. /\ f2 \in FrameType /\ f2.op = f.op /\ f2.phase = f.phase /\ f2.p = f.p
      /\ f2.owed = ow /\ f2.seen = se /\ f2.data = f.data
  <2>1. ow \in SUBSET Cells /\ se \in SUBSET Cells
    BY DEF FrameType
  <2>2. f2 = [f EXCEPT !.owed = ow, !.seen = se]
    BY DEF FrameType
  <2> HIDE DEF ow, se, f2
  <2> QED
    BY <2>1, <2>2 DEF FrameType
<1> HIDE DEF f2
<1>2. /\ L \subseteq Cells /\ NULL \notin L /\ p \notin L /\ L \subseteq s.alive
      /\ s.pListHead \in L \cup {NULL}
  BY NotNull DEF Sound, Line, ListOf
<1>3. /\ s2.pListHead = IF s.pListHead = NULL THEN p ELSE s.pListHead
      /\ \A c \in L : /\ s2.mem[c]["pListLast"] = m[c]["pListLast"]
                      /\ m[c]["pListNext"] # NULL => s2.mem[c]["pListNext"] = m[c]["pListNext"]
  BY DEF Joined
<1>4. f.op = "update" => UpdateOK(K, f2)
  BY <1>1 DEF FrameOK, UpdateOK
<1>5. f.op = "del" => DelOK(s2, K, f2)
  BY <1>1 DEF FrameOK, DelOK
<1>6. f.op = "graceful" => GracefulOK(s2, K, f2)
  BY <1>1, <1>2, <1>3 DEF FrameOK, GracefulOK
<1>7. ASSUME NEW B \in SUBSET L, f.p \in L, Before(s, L, f, B)
      PROVE  Before(s2, K, f2, B)
  <2>1. /\ f.p \notin B /\ s.pListHead \in B \cup {f.p} /\ m[f.p]["pListLast"] \in B \cup {NULL}
        /\ \A c \in B : /\ m[c]["pListNext"] \in B \cup {f.p}
                        /\ m[c]["pListLast"] \in B \cup {NULL}
    BY <1>7 DEF Before
  <2>2. s2.pListHead \in B \cup {f.p} /\ s2.mem[f.p]["pListLast"] \in B \cup {NULL}
    BY <2>1, <1>2, <1>3, <1>7
  <2>3. \A c \in B : /\ s2.mem[c]["pListNext"] \in B \cup {f.p}
                     /\ s2.mem[c]["pListLast"] \in B \cup {NULL}
    BY <2>1, <1>2, <1>3, <1>7
  <2>4. /\ f.owed \cap B \subseteq f.seen
        /\ f.phase = "func" => f.seen \cap L \subseteq B
        /\ f.phase = "dtor" => f.seen \cap L \subseteq B \cup {f.p} /\ f.p \in f.seen
    BY <1>7 DEF Before
  <2>5. /\ B \subseteq K /\ ow \cap B \subseteq se
        /\ f.phase = "func" => se \cap K \subseteq B
        /\ f.phase = "dtor" => se \cap K \subseteq B \cup {f.p} /\ f.p \in se
    BY <2>4, <1>2, <1>7
  <2> QED
    BY <2>1, <2>2, <2>3, <2>5, <1>1 DEF Before
<1>8. f.op = "apply" => ApplyOK(s2, K, f2)
  <2> SUFFICES ASSUME f.op = "apply" PROVE ApplyOK(s2, K, f2)
    OBVIOUS
  <2>1. PICK B \in SUBSET L : f.p \in L /\ Before(s, L, f, B)
    BY DEF FrameOK, ApplyOK
  <2>2. Before(s2, K, f2, B) /\ B \in SUBSET K /\ f2.p \in K
    BY <2>1, <1>1, <1>7
  <2> QED
    BY <2>2, <1>1 DEF ApplyOK
<1> QED
  BY <1>1, <1>4, <1>5, <1>6, <1>8 DEF FrameOK, f2

\* The stack without its last operation, and with one more.
LEMMA FramesPop ==
  ASSUME NEW s, NEW L, NEW st, Frames(s, L, st), st # <<>>
  PROVE  Frames(s, L, Front(st))
<1> DEFINE st2 == Front(st)
<1>1. st \in Seq(FrameType) /\ Len(st) \in Nat \ {0} /\ DOMAIN st = 1..Len(st)
  BY DEF Frames
<1>2. /\ st2 \in Seq(FrameType) /\ Len(st2) = Len(st) - 1 /\ DOMAIN st2 = 1..Len(st) - 1
      /\ \A i \in DOMAIN st2 : st2[i] = st[i] /\ i \in DOMAIN st /\ i # Len(st)
  BY <1>1 DEF Front
<1> HIDE DEF st2
<1>3. \A i \in DOMAIN st2 : FrameOK(s, L, st2[i])
  BY <1>2 DEF Frames
<1>4. \A i, j \in DOMAIN st2 :
        st2[i].op = "del" /\ st2[j].op = "del" /\ st2[i].p = st2[j].p => i = j
  BY <1>2 DEF Frames
<1>5. \A i \in DOMAIN st2 : st2[i].phase = "end" \/ st2[i].op = "graceful" =>
        (st2[i].op = "graceful" => i = 1) /\ (st2[i].phase = "end" => i = Len(st2))
  BY <1>2 DEF Frames
<1>6. \A i, j \in DOMAIN st2 :
        st2[i].op = "apply" /\ st2[i].phase = "dtor" /\ j < i => st2[i].p \notin Given(st2[j])
  BY <1>2 DEF Frames
<1> QED
  BY <1>2, <1>3, <1>4, <1>5, <1>6 DEF Frames, st2

LEMMA FramesPush ==
  ASSUME NEW s, NEW L, NEW st, Frames(s, L, st), NEW f \in FrameType, FrameOK(s, L, f),
         st # <<>> => st[Len(st)].phase # "end" /\ f.op # "graceful",
         \A i \in DOMAIN st : f.op = "del" /\ st[i].op = "del" => st[i].p # f.p,
         f.op = "apply" => f.phase # "dtor"
  PROVE  Frames(s, L, Append(st, f))
<1> DEFINE st2 == Append(st, f)
           n   == Len(st) + 1
<1>1. st \in Seq(FrameType) /\ Len(st) \in Nat /\ DOMAIN st = 1..Len(st)
  BY DEF Frames
<1>2. /\ st2 \in Seq(FrameType) /\ Len(st2) = n /\ DOMAIN st2 = DOMAIN st \cup {n}
      /\ n \notin DOMAIN st /\ st2[n] = f
      /\ \A i \in DOMAIN st : st2[i] = st[i]
      /\ \A i \in DOMAIN st : ~ (n < i)
  BY <1>1
<1>3. st = <<>> \/ (st # <<>> /\ Len(st) \in DOMAIN st)
  BY <1>1
<1> HIDE DEF st2
<1>4. \A i \in DOMAIN st2 : FrameOK(s, L, st2[i])
  BY <1>2 DEF Frames
<1>5. \A i, j \in DOMAIN st2 :
        st2[i].op = "del" /\ st2[j].op = "del" /\ st2[i].p = st2[j].p => i = j
  <2> HIDE DEF n
  <2> QED
    BY <1>2 DEF Frames
<1>6. \A i \in DOMAIN st : st[i].phase # "end"
  BY <1>1, <1>3 DEF Frames
<1>7. f.op = "graceful" => n = 1
  BY <1>1, <1>3
<1>8. \A i \in DOMAIN st2 : st2[i].phase = "end" \/ st2[i].op = "graceful" =>
        (st2[i].op = "graceful" => i = 1) /\ (st2[i].phase = "end" => i = Len(st2))
  <2> HIDE DEF n
  <2> QED
    BY <1>2, <1>6, <1>7 DEF Frames
<1>9. \A i, j \in DOMAIN st2 :
        st2[i].op = "apply" /\ st2[i].phase = "dtor" /\ j < i => st2[i].p \notin Given(st2[j])
  <2> HIDE DEF n
  <2> QED
    BY <1>2 DEF Frames
<1> QED
  BY <1>2, <1>4, <1>5, <1>8, <1>9 DEF Frames, st2

\* The last operation goes on.
LEMMA FramesRetop ==
  ASSUME NEW s, NEW L, NEW st, Frames(s, L, st), st # <<>>,
         NEW f \in FrameType, FrameOK(s, L, f), f.op = st[Len(st)].op, f.op # "del",
         f.op = "apply" /\ f.phase = "dtor" =>
           \A j \in DOMAIN st : j < Len(st) => f.p \notin Given(st[j])
  PROVE  Frames(s, L, [st EXCEPT ![Len(st)] = f])
<1> DEFINE n   == Len(st)
           st2 == [st EXCEPT ![n] = f]
<1>1. st \in Seq(FrameType) /\ n \in Nat \ {0} /\ DOMAIN st = 1..n
  BY DEF Frames
<1>2. /\ st2 \in Seq(FrameType) /\ Len(st2) = n /\ DOMAIN st2 = DOMAIN st
      /\ n \in DOMAIN st /\ st2[n] = f
      /\ \A i \in DOMAIN st : i # n => st2[i] = st[i] /\ i < n
      /\ \A i \in DOMAIN st : ~ (n < i)
  BY <1>1
<1> HIDE DEF st2
<1>3. \A i \in DOMAIN st2 : FrameOK(s, L, st2[i])
  BY <1>2 DEF Frames
<1>4. \A i, j \in DOMAIN st2 :
        st2[i].op = "del" /\ st2[j].op = "del" /\ st2[i].p = st2[j].p => i = j
  BY <1>2 DEF Frames
<1>5. \A i \in DOMAIN st2 : st2[i].phase = "end" \/ st2[i].op = "graceful" =>
        (st2[i].op = "graceful" => i = 1) /\ (st2[i].phase = "end" => i = Len(st2))
  BY <1>2 DEF Frames
<1>6. \A i, j \in DOMAIN st2 :
        st2[i].op = "apply" /\ st2[i].phase = "dtor" /\ j < i => st2[i].p \notin Given(st2[j])
  BY <1>2 DEF Frames
<1> QED
  BY <1>2, <1>3, <1>4, <1>5, <1>6 DEF Frames, st2

LEMMA FramesStay ==
  ASSUME NEW s, NEW s2, NEW L, Sound(s, L), Stays(s, s2, L), NEW st, Frames(s, L, st)
  PROVE  Frames(s2, L, st)
<1>1. ASSUME NEW i \in DOMAIN st PROVE FrameOK(s2, L, st[i])
  <2>1. st[i] \in FrameType /\ FrameOK(s, L, st[i])
    BY DEF Frames
  <2> QED
    BY <2>1, FrameStays
<1> QED
  BY <1>1 DEF Frames

LEMMA FramesGone ==
  ASSUME NEW s, NEW s2, NEW L, Sound(s, L), NEW x \in L, Past(s, s2, L, x),
         s.alive \ {x} \subseteq s2.alive, NEW st, Frames(s, L, st), Lawful(x, st)
  PROVE  Frames(s2, L \ {x}, st)
<1>1. ASSUME NEW i \in DOMAIN st PROVE FrameOK(s2, L \ {x}, st[i])
  <2>1. st[i] \in FrameType /\ FrameOK(s, L, st[i]) /\ x \notin Given(st[i])
    BY DEF Frames, Lawful
  <2> QED
    BY <2>1, FrameGone
<1> QED
  BY <1>1 DEF Frames

\* A new element at the address of an old one has not been seen.
Forget(st, p) == [i \in DOMAIN st |-> [st[i] EXCEPT !.owed = @ \ {p}, !.seen = @ \ {p}]]

LEMMA FramesJoined ==
  ASSUME NEW s, NEW s2, NEW L, Sound(s, L), NEW p \in Cells, p \notin s.alive,
         Joined(s, s2, L, p), s.alive \subseteq s2.alive, NEW st, Frames(s, L, st),
         st # <<>> => st[Len(st)].phase # "end"
  PROVE  Frames(s2, L \cup {p}, Forget(st, p))
<1> DEFINE st2 == [i \in DOMAIN st |-> [st[i] EXCEPT !.owed = @ \ {p}, !.seen = @ \ {p}]]
<1>1. st \in Seq(FrameType) /\ Len(st) \in Nat /\ DOMAIN st = 1..Len(st)
  BY DEF Frames
<1>2. \A i \in DOMAIN st : st[i].phase # "end"
  <2>1. SUFFICES ASSUME NEW i \in DOMAIN st, st[i].phase = "end" PROVE FALSE
    OBVIOUS
  <2>2. i = Len(st) /\ st # <<>>
    BY <2>1, <1>1 DEF Frames
  <2> QED
    BY <2>1, <2>2
<1>3. ASSUME NEW i \in DOMAIN st
      PROVE  /\ st2[i] \in FrameType /\ FrameOK(s2, L \cup {p}, st2[i])
             /\ st2[i].op = st[i].op /\ st2[i].phase = st[i].phase /\ st2[i].p = st[i].p
             /\ Given(st2[i]) = Given(st[i])
  <2> DEFINE f  == st[i]
             f2 == [f EXCEPT !.owed = @ \ {p}, !.seen = @ \ {p}]
  <2>1. f \in FrameType /\ FrameOK(s, L, f) /\ f.phase # "end" /\ st2[i] = f2
    BY <1>2 DEF Frames
  <2> HIDE DEF f
  <2>2. f2 \in FrameType /\ FrameOK(s2, L \cup {p}, f2)
    BY <2>1, FrameJoined
  <2>3. f2.op = f.op /\ f2.phase = f.phase /\ f2.p = f.p
    BY <2>1 DEF FrameType
  <2> HIDE DEF f2
  <2>4. Given(f2) = Given(f)
    BY <2>1, <2>2, <2>3, GivenIs
  <2>5. st[i] = f
    BY DEF f
  <2> HIDE DEF st2
  <2> QED
    BY <2>1, <2>2, <2>3, <2>4, <2>5
<1>4. DOMAIN st2 = DOMAIN st
  OBVIOUS
<1> HIDE DEF st2
<1>5. st2 \in Seq(FrameType) /\ Len(st2) = Len(st)
  <2>1. st2 = [i \in 1..Len(st) |-> st2[i]]
    BY <1>1, <1>4 DEF st2
  <2>2. \A i \in 1..Len(st) : st2[i] \in FrameType
    BY <1>1, <1>3
  <2> QED
    BY <1>1, <2>1, <2>2
<1>6. \A i \in DOMAIN st2 : FrameOK(s2, L \cup {p}, st2[i])
  BY <1>3, <1>4
<1>7. \A i, j \in DOMAIN st2 :
        st2[i].op = "del" /\ st2[j].op = "del" /\ st2[i].p = st2[j].p => i = j
  BY <1>3, <1>4 DEF Frames
<1>8. \A i \in DOMAIN st2 : st2[i].phase = "end" \/ st2[i].op = "graceful" =>
        (st2[i].op = "graceful" => i = 1) /\ (st2[i].phase = "end" => i = Len(st2))
  BY <1>2, <1>3, <1>4 DEF Frames
<1>9. \A i, j \in DOMAIN st2 :
        st2[i].op = "apply" /\ st2[i].phase = "dtor" /\ j < i => st2[i].p \notin Given(st2[j])
  BY <1>3, <1>4 DEF Frames
<1> QED
  BY <1>5, <1>6, <1>7, <1>8, <1>9 DEF Frames, st2, Forget

\* A bucket that only the last operation holds is freed.
LEMMA FramesReleased ==
  ASSUME NEW s, NEW s2, NEW L, Sound(s, L), NEW p \in Cells, p \notin L,
         s2.alive = s.alive \ {p}, s2.pListHead = s.pListHead,
         \A c \in L : s2.mem[c] = s.mem[c], NEW st, Frames(s, L, st),
         \A i \in DOMAIN st : st[i].op = "del" => st[i].p # p
  PROVE  Frames(s2, L, st)
<1>1. ASSUME NEW i \in DOMAIN st PROVE FrameOK(s2, L, st[i])
  <2> DEFINE f == st[i]
  <2>1. f \in FrameType /\ FrameOK(s, L, f) /\ (f.op = "del" => f.p # p)
    BY DEF Frames
  <2> HIDE DEF f
  <2>2. ASSUME NEW B \in SUBSET L, f.p \in L, Before(s, L, f, B) PROVE Before(s2, L, f, B)
    BY <2>2 DEF Before
  <2>3. ASSUME ApplyOK(s, L, f) PROVE ApplyOK(s2, L, f)
    BY <2>2, <2>3 DEF ApplyOK
  <2>4. f.op = "del" => DelOK(s2, L, f)
    BY <2>1 DEF FrameOK, DelOK
  <2>5. f.op = "graceful" => GracefulOK(s2, L, f)
    BY <2>1 DEF FrameOK, GracefulOK
  <2>6. FrameOK(s2, L, f)
    BY <2>1, <2>3, <2>4, <2>5 DEF FrameOK
  <2> QED
    BY <2>6 DEF f
<1> QED
  BY <1>1 DEF Frames

(***************************************************************************)
(* The count.  Nothing is lost while every operation returns: no callback  *)
(* ends in zend_bailout(), and none starts an apply that is refused.       *)
(***************************************************************************)
Returns == ~Bailouts /\ "apply" \notin Inner

\* The buckets in the hands of their destructors.
Dying(st) == {i \in DOMAIN st : st[i].op = "del"}
Dead(st)  == {st[i].p : i \in Dying(st)}

Counted(s, L, st) == s.alive = L \cup Dead(st) /\ s.nNumOfElements = Cardinality(s.alive)

LEMMA DeadPush ==
  ASSUME NEW st \in Seq(FrameType), NEW f \in FrameType
  PROVE  Dead(Append(st, f)) = IF f.op = "del" THEN Dead(st) \cup {f.p} ELSE Dead(st)
<1> DEFINE n   == Len(st) + 1
           st2 == Append(st, f)
<1>1. /\ DOMAIN st2 = DOMAIN st \cup {n} /\ n \notin DOMAIN st /\ st2[n] = f
      /\ \A i \in DOMAIN st : st2[i] = st[i]
  OBVIOUS
<1> HIDE DEF n, st2
<1>2. Dead(st2) = IF f.op = "del" THEN Dead(st) \cup {f.p} ELSE Dead(st)
  BY <1>1 DEF Dead, Dying
<1> QED
  BY <1>2 DEF st2

LEMMA DeadPop ==
  ASSUME NEW s, NEW L, NEW st, Frames(s, L, st), st # <<>>
  PROVE  /\ st[Len(st)].op = "del" => /\ Dead(Front(st)) = Dead(st) \ {st[Len(st)].p}
                                      /\ st[Len(st)].p \in Dead(st)
         /\ st[Len(st)].op # "del" => Dead(Front(st)) = Dead(st)
<1> DEFINE n   == Len(st)
           st2 == Front(st)
<1>1. st \in Seq(FrameType) /\ n \in DOMAIN st
  BY DEF Frames
<1>2. /\ DOMAIN st2 = DOMAIN st \ {n} /\ \A i \in DOMAIN st2 : st2[i] = st[i]
  BY <1>1 DEF Front
<1>3. \A i, j \in DOMAIN st : st[i].op = "del" /\ st[j].op = "del" /\ st[i].p = st[j].p => i = j
  BY DEF Frames
<1> HIDE DEF n, st2
<1>4. CASE st[n].op = "del"
  <2>1. n \in Dying(st) /\ Dying(st2) = Dying(st) \ {n}
    BY <1>1, <1>2, <1>4 DEF Dying
  <2>2. \A i \in Dying(st) : i # n => st[i].p # st[n].p
    BY <2>1, <1>3 DEF Dying
  <2>3. \A i \in Dying(st2) : st2[i].p = st[i].p
    BY <1>2 DEF Dying
  <2>4. Dead(st2) = Dead(st) \ {st[n].p} /\ st[n].p \in Dead(st)
    BY <2>1, <2>2, <2>3 DEF Dead
  <2> QED
    BY <2>4, <1>4 DEF n, st2
<1>5. CASE st[n].op # "del"
  <2>1. Dying(st2) = Dying(st) /\ \A i \in Dying(st2) : st2[i].p = st[i].p
    BY <1>1, <1>2, <1>5 DEF Dying
  <2>2. Dead(st2) = Dead(st)
    BY <2>1 DEF Dead
  <2> QED
    BY <2>2, <1>5 DEF n, st2
<1> QED
  BY <1>4, <1>5

LEMMA DeadRetop ==
  ASSUME NEW st \in Seq(FrameType), st # <<>>, NEW f, f.op # "del", st[Len(st)].op # "del"
  PROVE  Dead([st EXCEPT ![Len(st)] = f]) = Dead(st)
<1> DEFINE n   == Len(st)
           st2 == [st EXCEPT ![n] = f]
<1>1. /\ n \in DOMAIN st /\ DOMAIN st2 = DOMAIN st /\ st2[n] = f
      /\ \A i \in DOMAIN st : i # n => st2[i] = st[i]
  OBVIOUS
<1> HIDE DEF n, st2
<1>2. Dying(st2) = Dying(st) /\ \A i \in Dying(st2) : st2[i].p = st[i].p
  BY <1>1 DEF Dying, n
<1>3. Dead(st2) = Dead(st)
  BY <1>2 DEF Dead
<1> QED
  BY <1>3 DEF n, st2

LEMMA DeadForget ==
  ASSUME NEW st \in Seq(FrameType), NEW p
  PROVE  Dead(Forget(st, p)) = Dead(st)
<1> DEFINE st2 == Forget(st, p)
<1>1. DOMAIN st2 = DOMAIN st
  BY DEF Forget
<1>2. ASSUME NEW i \in DOMAIN st PROVE st2[i].op = st[i].op /\ st2[i].p = st[i].p
  <2>1. st2[i] = [st[i] EXCEPT !.owed = @ \ {p}, !.seen = @ \ {p}] /\ st[i] \in FrameType
    BY DEF Forget
  <2> HIDE DEF st2
  <2> QED
    BY <2>1 DEF FrameType
<1> HIDE DEF st2
<1>3. Dying(st2) = Dying(st) /\ \A i \in Dying(st2) : st2[i].p = st[i].p
  BY <1>1, <1>2 DEF Dying
<1>4. Dead(st2) = Dead(st)
  BY <1>3 DEF Dead
<1> QED
  BY <1>4 DEF st2

LEMMA CountAdd ==
  ASSUME NEW S \in SUBSET Cells, NEW p, p \in Cells
  PROVE  /\ IsFiniteSet(S) /\ Cardinality(S) \in Nat
         /\ p \notin S => Cardinality(S \cup {p}) = Cardinality(S) + 1
         /\ p \in S => Cardinality(S \ {p}) = Cardinality(S) - 1
<1>1. IsFiniteSet(Cells)
  BY TableAssumption, FS_Interval DEF Cells
<1>2. IsFiniteSet(S)
  BY <1>1, FS_Subset
<1> QED
  BY <1>2, FS_CardinalityType, FS_AddElement, FS_RemoveElement

(***************************************************************************)
(* What the invariant is about.                                            *)
(***************************************************************************)
\* The operations that callbacks may call while the table is walked or changed, and
\* the engine calls of them: no cleaning, sorting or walking backwards.
Callbacks ==
  /\ Outer \subseteq {"add", "del", "update", "apply", "graceful", "point"}
  /\ Inner \subseteq {"add", "del", "update", "apply", "point"}

\* No string has the hash value of an index: zend_hash_del_key_or_index() would take
\* the one for the other.
NoClash == \A i, n \in AllKeys : i.name = 0 /\ n.name # 0 => i.h # n.h

\* Every operation, of callbacks that leave the table alone.
Alone == Inner = {} /\ ~Bailouts /\ ("reverse" \in Outer => NoClash)

Uses == Callbacks \/ Alone

Good(s, L, st) == Sound(s, L) /\ Frames(s, L, st) /\ (Returns => Counted(s, L, st))

IInv == fault = FALSE /\ \E L \in SUBSET Cells : Good(t, L, stack)

\* No bucket comes or goes.
LEMMA CountSame ==
  ASSUME NEW L, Good(t, L, stack), NEW s2, s2.alive = t.alive,
         s2.nNumOfElements = t.nNumOfElements, NEW st2, Dead(st2) = Dead(stack)
  PROVE  Returns => Counted(s2, L, st2)
  BY DEF Good, Counted

LEMMA EmptyForm == Empty = [Empty EXCEPT !.alive = {}]
<1> DEFINE mm == [c \in Cells |-> NoBucket]
           ar == [i \in 0..MinTableSize - 1 |-> NULL]
<1>1. Empty = [mem |-> mm, alive |-> {}, arBuckets |-> ar,
               pListHead |-> NULL, pListTail |-> NULL, pInternalPointer |-> NULL,
               nNumOfElements |-> 0, nNextFreeElement |-> 0, nApplyCount |-> 0]
  BY DEF Empty
<1> HIDE DEF mm, ar
<1>2. [Empty EXCEPT !.alive = {}]
        = [mem |-> mm, alive |-> {}, arBuckets |-> ar,
           pListHead |-> NULL, pListTail |-> NULL, pInternalPointer |-> NULL,
           nNumOfElements |-> 0, nNextFreeElement |-> 0, nApplyCount |-> 0]
  BY <1>1
<1> QED
  BY <1>1, <1>2

LEMMA InitInv == Init => IInv
<1> SUFFICES ASSUME Init PROVE IInv
  OBVIOUS
<1>1. t = [Empty EXCEPT !.alive = {}]
  BY EmptyForm DEF Init
<1>2. Sound(t, {})
  BY <1>1, EmptyIs
<1>3. Frames(t, {}, stack)
  BY DEF Init, Frames
<1>4. Counted(t, {}, stack)
  <2>1. Dead(stack) = {}
    BY DEF Init, Dead, Dying
  <2> QED
    BY <1>1, <2>1, EmptyIs, FS_EmptySet DEF Counted
<1> QED
  BY <1>2, <1>3, <1>4 DEF Init, IInv, Good

\* The operation that may call another is waiting for its callback.
LEMMA MayIs ==
  ASSUME NEW op, May(op), NEW L, Good(t, L, stack)
  PROVE  /\ stack \in Seq(FrameType) /\ (stack = <<>> => op \in Outer)
         /\ stack # <<>> => stack[Len(stack)].phase # "end" /\ op \in Inner
<1>1. stack \in Seq(FrameType)
  BY DEF Good, Frames
<1> QED
  BY <1>1 DEF May, Top, Last

LEMMA RunningIs ==
  ASSUME NEW ops, NEW ph, Running(ops, ph), NEW L, Good(t, L, stack)
  PROVE  /\ stack \in Seq(FrameType) /\ stack # <<>> /\ Len(stack) \in DOMAIN stack
         /\ Top = stack[Len(stack)] /\ Top \in FrameType /\ FrameOK(t, L, Top)
         /\ Top.op \in ops /\ Top.phase = ph
<1>1. stack \in Seq(FrameType) /\ stack # <<>> /\ Top.op \in ops /\ Top.phase = ph
  BY DEF Good, Frames, Running
<1>2. Len(stack) \in DOMAIN stack
  BY <1>1
<1>3. Top = stack[Len(stack)]
  BY DEF Top, Last
<1> QED
  BY <1>1, <1>2, <1>3 DEF Good, Frames

\* Unlinking an element touches elements.
LEMMA AroundIn ==
  ASSUME NEW L, Sound(t, L), NEW p \in L
  PROVE  Around(p) \subseteq t.alive
<1>1. /\ t.mem[p]["pListNext"] \in L \cup {NULL} /\ t.mem[p]["pListLast"] \in L \cup {NULL}
      /\ L \subseteq t.alive
  BY DEF Sound, Line, ListOf
<1>2. t.mem[p]["pNext"] \in L \cup {NULL} /\ t.mem[p]["pLast"] \in L \cup {NULL}
  <2> DEFINE i == Slot(t, t.mem[p].key.h)
  <2>1. t \in Table /\ p \in Cells
    BY SoundCells
  <2>2. i \in DOMAIN t.arBuckets
    BY <2>1, HashNat, SlotIn
  <2>3. ListOf(t.mem, Of(t, L, i), t.arBuckets[i], "pNext", "pLast")
    BY <2>2 DEF Sound, Chained
  <2>4. p \in Of(t, L, i) /\ Of(t, L, i) \subseteq L
    BY DEF Of
  <2> QED
    BY <2>3, <2>4 DEF ListOf
<1> QED
  BY <1>1, <1>2 DEF Around

LEMMA ChainIn ==
  ASSUME NEW L, Sound(t, L), NEW k, k.h \in Nat
  PROVE  Range(Chain(t, k.h)) \subseteq t.alive
<1>1. Range(Chain(t, k.h)) \subseteq L
  BY ChainIs
<1> QED
  BY <1>1 DEF Sound

(***************************************************************************)
(* Every step preserves the invariant.                                     *)
(***************************************************************************)
LEMMA InsertStep ==
  ASSUME NEW L, Good(t, L, stack), NEW k \in Keys, NEW v \in Values, Insert(k, v)
  PROVE  /\ Min(FreeCells) \in Cells \ t.alive /\ Min(FreeCells) \notin L
         /\ InsertOK(t, t', L, Min(FreeCells), k, v) /\ \A c \in L : t.mem[c].key # k
<1> DEFINE p == Min(FreeCells)
<1>1. p \in Cells /\ p \notin t.alive
  <2>1. FreeCells \subseteq Cells \ t.alive /\ FreeCells # {}
    BY DEF Insert, FreeCells
  <2>2. FreeCells \subseteq Nat
    BY <2>1 DEF Cells
  <2>3. p \in FreeCells
    BY <2>1, <2>2, MinIn
  <2> QED
    BY <2>1, <2>3
<1>2. Find(t, k) = NULL /\ t' = Inserted(t, p, k, v)
  BY DEF Insert, Inserted, Fresh
<1> HIDE DEF p
<1>3. Sound(t, L) /\ L \subseteq t.alive /\ k.h \in Nat
  BY KeyIs, KeysAll DEF Good, Sound
<1>4. \A c \in L : t.mem[c].key # k
  <2>1. NULL \notin L
    BY NotNull, SoundCells, <1>3
  <2> QED
    BY <2>1, <1>2, <1>3, FindIs
<1>5. p \notin L
  BY <1>1, <1>3
<1> DEFINE s  == t
           s2 == Inserted(s, p, k, v)
<1>6. p \in Cells /\ p \notin L /\ Sound(s, L) /\ \A c \in L : s.mem[c].key # k
  BY <1>1, <1>3, <1>4, <1>5
<1> HIDE DEF s
<1>7. InsertOK(s, s2, L, p, k, v)
  BY ONLY <1>6, k \in Keys, v \in Values, InsertIs
<1> HIDE DEF s2
<1>8. InsertOK(t, t', L, p, k, v)
  BY <1>7, <1>2 DEF s, s2
<1> QED
  BY <1>1, <1>4, <1>5, <1>8 DEF p

LEMMA InsertInv ==
  ASSUME IInv, NEW k \in Keys, NEW v \in Values, Insert(k, v)
  PROVE  IInv'
<1>1. PICK L \in SUBSET Cells : Good(t, L, stack)
  BY DEF IInv
<1> DEFINE p   == Min(FreeCells)
           s   == t
           s2  == t'
           st2 == Forget(stack, p)
<1>3. /\ May("add") /\ stack' = st2 /\ t' = s2 /\ s = t
      /\ fault' = ~ (Range(Chain(t, k.h)) \cup ({t.pListTail} \ {NULL}) \subseteq t.alive)
  BY DEF Insert, Touch, Forget
<1>4. Sound(t, L) /\ Frames(t, L, stack) /\ L \subseteq t.alive /\ k.h \in Nat
  BY <1>1, KeyIs, KeysAll DEF Good, Sound
<1>2. p \in Cells /\ p \notin t.alive /\ p \notin L /\ InsertOK(t, t', L, p, k, v)
  BY <1>1, InsertStep
<1> HIDE DEF p
<1>7. /\ Sound(s2, L \cup {p}) /\ Joined(t, s2, L, p)
      /\ s2.alive = t.alive \cup {p} /\ s2.nNumOfElements = t.nNumOfElements + 1
  BY <1>2 DEF InsertOK
<1> HIDE DEF s2
<1>8. stack # <<>> => stack[Len(stack)].phase # "end"
  BY <1>1, <1>3, MayIs
<1>9. Frames(t', L \cup {p}, st2)
  <2> DEFINE st == stack
  <2>1. /\ Sound(s, L) /\ Joined(s, s2, L, p) /\ s.alive \subseteq s2.alive
        /\ Frames(s, L, st) /\ p \in Cells /\ p \notin s.alive
        /\ st # <<>> => st[Len(st)].phase # "end"
    BY <1>2, <1>4, <1>7, <1>8
  <2> HIDE DEF s, st
  <2>2. Frames(s2, L \cup {p}, Forget(st, p))
    BY ONLY <2>1, FramesJoined
  <2> QED
    BY <2>2, <1>3 DEF st
<1>10. fault' = FALSE
  <2>1. Range(Chain(t, k.h)) \subseteq t.alive
    BY <1>4, ChainIn
  <2>2. t.pListTail \in L \cup {NULL}
    BY <1>4 DEF Sound, Line, Ends
  <2> QED
    BY <2>1, <2>2, <1>3, <1>4
<1>12. Returns => Counted(t', L \cup {p}, stack')
  <2>1. t.alive \in SUBSET Cells
    BY <1>4, SoundCells
  <2>2. Dead(st2) = Dead(stack)
    BY <1>4, DeadForget DEF Frames
  <2>3. Cardinality(t.alive \cup {p}) = Cardinality(t.alive) + 1
    BY <2>1, <1>2, CountAdd
  <2> HIDE DEF st2
  <2> QED
    BY <2>2, <2>3, <1>1, <1>3, <1>7 DEF Good, Counted
<1>11. Good(t', L \cup {p}, stack') /\ L \cup {p} \in SUBSET Cells
  BY <1>2, <1>3, <1>7, <1>9, <1>12 DEF Good
<1> QED
  BY <1>10, <1>11 DEF IInv

LEMMA FrameIs ==
  ASSUME NEW op \in {"update", "del", "apply", "graceful"},
         NEW ph \in {"func", "dtor", "end"}, NEW p \in Ptr
  PROVE  /\ Frame(op, ph, p) \in FrameType
         /\ Frame(op, ph, p).op = op /\ Frame(op, ph, p).phase = ph /\ Frame(op, ph, p).p = p
         /\ Frame(op, ph, p).owed = {} /\ Frame(op, ph, p).seen = {}
  BY DEF Frame, FrameType, Ptr

LEMMA UpdateInv ==
  ASSUME IInv, NEW k \in Keys, NEW v \in Values, Update(k, v)
  PROVE  IInv'
<1>1. PICK L \in SUBSET Cells : Good(t, L, stack)
  BY DEF IInv
<1> DEFINE p == Find(t, k)
           f == [Frame("update", "dtor", p) EXCEPT !.data = v]
<1>2. /\ May("update") /\ p # NULL /\ stack' = Append(stack, f) /\ t' = t
      /\ fault' = ~ (Range(Chain(t, k.h)) \subseteq t.alive)
  BY DEF Update, Push, Touch
<1>3. Sound(t, L) /\ Frames(t, L, stack) /\ k.h \in Nat
  BY <1>1, KeyIs, KeysAll DEF Good
<1>4. p \in L /\ p \in Ptr
  BY <1>2, <1>3, FindIs DEF Ptr
<1> HIDE DEF p
<1>5. f \in FrameType /\ f.op = "update" /\ f.phase = "dtor" /\ f.p = p /\ f.data = v
  <2> DEFINE g == Frame("update", "dtor", p)
  <2>1. g \in FrameType /\ g.op = "update" /\ g.phase = "dtor" /\ g.p = p
    BY <1>4, FrameIs
  <2> HIDE DEF g
  <2>2. f = [g EXCEPT !.data = v]
    BY DEF g
  <2> HIDE DEF f
  <2> QED
    BY <2>1, <2>2 DEF FrameType
<1> HIDE DEF f
<1>6. FrameOK(t, L, f)
  BY <1>4, <1>5 DEF FrameOK, UpdateOK
<1>7. stack # <<>> => stack[Len(stack)].phase # "end"
  BY <1>1, <1>2, MayIs
<1>8. Frames(t, L, Append(stack, f))
  BY <1>3, <1>5, <1>6, <1>7, FramesPush
<1>9. fault' = FALSE
  BY <1>2, <1>3, ChainIn
<1>11. Returns => Counted(t', L, stack')
  <2>1. Dead(Append(stack, f)) = Dead(stack)
    BY <1>3, <1>5, DeadPush DEF Frames
  <2> QED
    BY <2>1, <1>1, <1>2, CountSame
<1>10. Good(t', L, stack')
  BY <1>2, <1>3, <1>8, <1>11 DEF Good
<1> QED
  BY <1>9, <1>10 DEF IInv

LEMMA UpdateReturnInv ==
  ASSUME IInv, UpdateReturn
  PROVE  IInv'
<1>1. PICK L \in SUBSET Cells : Good(t, L, stack)
  BY DEF IInv
<1> DEFINE f  == Top
           s2 == Bump(Set(t, f.p, "data", f.data), t.mem[f.p].key)
<1>2. /\ Running({"update"}, "dtor") /\ t' = s2 /\ stack' = Front(stack)
      /\ fault' = ~ ({f.p} \subseteq t.alive)
  BY DEF UpdateReturn, Pop, Touch
<1>3. /\ Sound(t, L) /\ Frames(t, L, stack) /\ stack # <<>>
      /\ f \in FrameType /\ FrameOK(t, L, f) /\ f.op = "update" /\ f = stack[Len(stack)]
  BY <1>1, <1>2, RunningIs DEF Good
<1> HIDE DEF f
<1>4. f.p \in L /\ f.data \in Values \cup {0} /\ L \subseteq t.alive
  BY <1>3 DEF FrameOK, UpdateOK, FrameType, Sound
<1>5. Sound(s2, L) /\ Stays(t, s2, L)
  BY <1>3, <1>4, DataIs
<1> HIDE DEF s2
<1>6. Frames(s2, L, stack)
  BY <1>3, <1>5, FramesStay
<1>7. Frames(s2, L, Front(stack))
  BY <1>3, <1>6, FramesPop
<1>9. Returns => Counted(t', L, stack')
  <2>1. Dead(Front(stack)) = Dead(stack)
    BY <1>3, DeadPop
  <2> QED
    BY <2>1, <1>1, <1>2, <1>5, CountSame DEF Stays
<1>8. Good(t', L, stack') /\ fault' = FALSE
  BY <1>2, <1>4, <1>5, <1>7, <1>9 DEF Good
<1> QED
  BY <1>8 DEF IInv

LEMMA DeleteInv ==
  ASSUME IInv, NEW k \in Keys, Delete(k)
  PROVE  IInv'
<1>1. PICK L \in SUBSET Cells : Good(t, L, stack)
  BY DEF IInv
<1> DEFINE p  == FindDel(t, k)
           s2 == Unlink(t, p)
           f  == Frame("del", "dtor", p)
           K  == L \ {p}
<1>2. /\ May("del") /\ p # NULL /\ Lawful(p, stack)
      /\ t' = s2 /\ stack' = Append(stack, f)
      /\ fault' = ~ (Range(Chain(t, k.h)) \cup Around(p) \subseteq t.alive)
  BY DEF Delete, Push, Touch
<1>3. Sound(t, L) /\ Frames(t, L, stack) /\ k.h \in Nat /\ L \subseteq t.alive
  BY <1>1, KeyIs, KeysAll DEF Good, Sound
<1>4. p \in L /\ p \in Ptr
  BY <1>2, <1>3, FindDelIs DEF Ptr
<1> HIDE DEF p
<1>5. /\ Sound(s2, K) /\ Past(t, s2, L, p) /\ s2.alive = t.alive
      /\ s2.nNumOfElements = t.nNumOfElements
  <2>1. /\ Sound(s2, K) /\ Past(t, s2, L, p)
        /\ Keeps(t, s2, {"arBuckets", "pListHead", "pListTail", "pInternalPointer"}, Links)
    BY <1>3, <1>4, UnlinkIs
  <2> HIDE DEF s2
  <2> QED
    BY <2>1 DEF Keeps, Fields
<1> HIDE DEF s2
<1>6. Frames(s2, K, stack)
  <2>1. t.alive \ {p} \subseteq s2.alive
    BY <1>5
  <2> QED
    BY <2>1, <1>2, <1>3, <1>4, <1>5, FramesGone
<1>7. /\ f \in FrameType /\ f.op = "del" /\ f.phase = "dtor" /\ f.p = p
  BY <1>4, FrameIs
<1> HIDE DEF f
<1>8. FrameOK(s2, K, f)
  BY <1>3, <1>4, <1>5, <1>7 DEF FrameOK, DelOK
<1>9. stack # <<>> => stack[Len(stack)].phase # "end"
  BY <1>1, <1>2, MayIs
<1>10. \A i \in DOMAIN stack : stack[i].op = "del" => stack[i].p # f.p
  <2>1. SUFFICES ASSUME NEW i \in DOMAIN stack, stack[i].op = "del" PROVE stack[i].p # f.p
    OBVIOUS
  <2>2. FrameOK(t, L, stack[i])
    BY <1>3 DEF Frames
  <2>3. stack[i].p \notin L
    BY <2>1, <2>2 DEF FrameOK, DelOK
  <2> QED
    BY <2>3, <1>4, <1>7
<1>11. Frames(s2, K, Append(stack, f))
  BY <1>6, <1>7, <1>8, <1>9, <1>10, FramesPush
<1>12. fault' = FALSE
  BY <1>2, <1>3, <1>4, ChainIn, AroundIn
<1>14. Returns => Counted(t', K, stack')
  <2>1. Dead(Append(stack, f)) = Dead(stack) \cup {p}
    BY <1>3, <1>7, DeadPush DEF Frames
  <2> QED
    BY <2>1, <1>1, <1>2, <1>4, <1>5 DEF Good, Counted
<1>13. Good(t', K, stack') /\ K \in SUBSET Cells
  BY <1>2, <1>5, <1>11, <1>14 DEF Good
<1> QED
  BY <1>12, <1>13 DEF IInv

LEMMA DeleteReturnInv ==
  ASSUME IInv, DeleteReturn
  PROVE  IInv'
<1>1. PICK L \in SUBSET Cells : Good(t, L, stack)
  BY DEF IInv
<1> DEFINE f  == Top
           s2 == Release(t, f.p)
<1>2. /\ Running({"del"}, "dtor") /\ t' = s2 /\ stack' = Front(stack)
      /\ fault' = ~ ({f.p} \subseteq t.alive)
  BY DEF DeleteReturn, Pop, Touch
<1>3. /\ Sound(t, L) /\ Frames(t, L, stack) /\ stack # <<>> /\ Len(stack) \in DOMAIN stack
      /\ f \in FrameType /\ FrameOK(t, L, f) /\ f.op = "del" /\ f = stack[Len(stack)]
  BY <1>1, <1>2, RunningIs DEF Good
<1> HIDE DEF f
<1>4. f.p \in t.alive /\ f.p \notin L /\ f.p \in Cells
  BY <1>3, SoundCells DEF FrameOK, DelOK
<1>5. /\ Sound(s2, L) /\ s2.alive = t.alive \ {f.p} /\ s2.pListHead = t.pListHead
      /\ \A c \in L : s2.mem[c] = t.mem[c]
      /\ s2.nNumOfElements = t.nNumOfElements - 1
  BY <1>3, <1>4, ReleaseIs
<1> HIDE DEF s2
<1>6. Frames(t, L, Front(stack))
  BY <1>3, FramesPop
<1>7. \A i \in DOMAIN Front(stack) : Front(stack)[i].op = "del" => Front(stack)[i].p # f.p
  <2>1. stack \in Seq(FrameType)
    BY <1>3 DEF Frames
  <2>2. \A i \in DOMAIN Front(stack) :
          Front(stack)[i] = stack[i] /\ i \in DOMAIN stack /\ i # Len(stack)
    BY <2>1, <1>3 DEF Front
  <2> QED
    BY <2>2, <1>3 DEF Frames
<1>8. Frames(s2, L, Front(stack))
  <2> DEFINE st == Front(stack)
  <2>1. Frames(t, L, st) /\ \A i \in DOMAIN st : st[i].op = "del" => st[i].p # f.p
    BY <1>6, <1>7
  <2> HIDE DEF st
  <2>2. Frames(s2, L, st)
    BY <2>1, <1>3, <1>4, <1>5, FramesReleased
  <2> QED
    BY <2>2 DEF st
<1>10. Returns => Counted(t', L, stack')
  <2>1. Dead(Front(stack)) = Dead(stack) \ {f.p}
    BY <1>3, DeadPop
  <2>2. Cardinality(t.alive \ {f.p}) = Cardinality(t.alive) - 1
    BY <1>3, <1>4, SoundCells, CountAdd
  <2> QED
    BY <2>1, <2>2, <1>1, <1>2, <1>4, <1>5 DEF Good, Counted
<1>9. Good(t', L, stack') /\ fault' = FALSE
  BY <1>2, <1>4, <1>5, <1>8, <1>10 DEF Good
<1> QED
  BY <1>9 DEF IInv

(***************************************************************************)
(* An apply going on.                                                      *)
(***************************************************************************)
LEMMA AdvanceIs ==
  ASSUME NEW f \in FrameType, NEW p \in Ptr, NEW ph \in {"func", "dtor"}
  PROVE  LET f2 == Advance(f, p, ph) IN
         /\ f2 \in FrameType /\ f2.p = p /\ f2.phase = IF p = NULL THEN "end" ELSE ph
         /\ f2.op = f.op /\ f2.owed = f.owed /\ f2.seen = f.seen
<1> DEFINE e  == IF p = NULL THEN "end" ELSE ph
           f2 == Advance(f, p, ph)
<1>1. e \in {"func", "dtor", "end"}
  OBVIOUS
<1>2. f2 = [f EXCEPT !.p = p, !.phase = e]
  BY DEF Advance
<1> HIDE DEF e, f2
<1>3. /\ f2 \in FrameType /\ f2.p = p /\ f2.phase = e
      /\ f2.op = f.op /\ f2.owed = f.owed /\ f2.seen = f.seen
  BY <1>1, <1>2 DEF FrameType
<1> QED
  BY <1>3 DEF e, f2

LEMMA SeenIs ==
  ASSUME NEW f \in FrameType, f.p \in Cells
  PROVE  /\ Seen(f) \in FrameType /\ Seen(f).seen = f.seen \cup {f.p}
         /\ Seen(f).op = f.op /\ Seen(f).phase = f.phase /\ Seen(f).p = f.p
         /\ Seen(f).owed = f.owed
<1> DEFINE se == f.seen \cup {f.p}
           f2 == Seen(f)
<1>1. se \in SUBSET Cells
  BY DEF FrameType
<1>2. f2 = [f EXCEPT !.seen = se]
  BY DEF Seen, FrameType
<1> HIDE DEF se, f2
<1>3. /\ f2 \in FrameType /\ f2.seen = se /\ f2.op = f.op /\ f2.phase = f.phase /\ f2.p = f.p
      /\ f2.owed = f.owed
  BY <1>1, <1>2 DEF FrameType
<1> QED
  BY <1>3 DEF se, f2

\* All elements are before the last one.
LEMMA AllBefore ==
  ASSUME NEW s, NEW L, Sound(s, L), NEW f, f.p \in L, NEW B \in SUBSET L, Before(s, L, f, B),
         s.mem[f.p]["pListNext"] = NULL
  PROVE  L = B \cup {f.p}
<1> DEFINE m == s.mem
           D == L \ (B \cup {f.p})
<1>1. /\ L \subseteq Cells /\ NULL \notin L
      /\ \A c \in L : /\ m[c]["pListLast"] \in L \cup {NULL}
                      /\ m[c]["pListLast"] # NULL => m[m[c]["pListLast"]]["pListNext"] = c
                      /\ m[c]["pListLast"] = NULL <=> c = s.pListHead
  BY NotNull DEF Sound, Line, ListOf
<1>2. SUFFICES ASSUME D # {} PROVE FALSE
  OBVIOUS
<1>3. PICK d \in D : m[d]["pListLast"] \notin D
  <2>1. ListOf(s.mem, L, s.pListHead, "pListNext", "pListLast") /\ D \in SUBSET L
    BY DEF Sound, Line
  <2> HIDE DEF D
  <2> QED
    BY ONLY <2>1, <1>2 DEF ListOf, Acyclic
<1>4. /\ s.pListHead \in B \cup {f.p}
      /\ \A c \in B : m[c]["pListNext"] \in B \cup {f.p}
  BY DEF Before
<1>5. m[d]["pListLast"] # NULL
  BY <1>1, <1>3, <1>4
<1>6. m[d]["pListLast"] \in B \cup {f.p} /\ m[m[d]["pListLast"]]["pListNext"] = d
  BY <1>1, <1>3, <1>5
<1> QED
  BY <1>1, <1>3, <1>4, <1>6

LEMMA ApplyOn ==
  ASSUME NEW s, NEW L, Sound(s, L), NEW f, f.phase = "func", f.p \in L, f.p \in Cells,
         NEW B \in SUBSET L, Before(s, L, f, B),
         NEW f2, f2.p = s.mem[f.p]["pListNext"], f2.owed = f.owed,
         f2.seen = f.seen \cup {f.p}, f2.phase = IF f2.p = NULL THEN "end" ELSE "func"
  PROVE  ApplyOK(s, L, f2)
<1> DEFINE m == s.mem
           C == B \cup {f.p}
<1>1. /\ L \subseteq Cells /\ NULL \notin L
      /\ \A c \in L : /\ m[c]["pListNext"] \in L \cup {NULL} /\ m[c]["pListLast"] \in L \cup {NULL}
                      /\ m[c]["pListNext"] # NULL => m[m[c]["pListNext"]]["pListLast"] = c
  BY NotNull DEF Sound, Line, ListOf
<1>2. f.owed \cap C \subseteq f2.seen /\ f2.seen \cap L \subseteq C
  BY DEF Before
<1>3. CASE f2.p = NULL
  <2>1. L = C
    BY <1>3, AllBefore
  <2> QED
    BY <2>1, <1>2, <1>3 DEF ApplyOK
<1>4. CASE f2.p # NULL
  <2>1. f2.p \in L /\ m[f2.p]["pListLast"] = f.p
    BY <1>1, <1>4
  <2>2. f2.p \notin B
    <3>1. SUFFICES ASSUME f2.p \in B PROVE FALSE
      OBVIOUS
    <3>2. f.p \in B \cup {NULL} /\ f.p \notin B
      BY <2>1, <3>1 DEF Before
    <3> QED
      BY <3>2, <1>1
  <2>3. f2.p # f.p
    <3>1. SUFFICES ASSUME f2.p = f.p PROVE FALSE
      OBVIOUS
    <3>2. m[f.p]["pListLast"] \in B \cup {NULL} /\ f.p \notin B
      BY DEF Before
    <3> QED
      BY <3>1, <3>2, <2>1, <1>1
  <2>4. /\ C \subseteq L /\ f2.p \notin C /\ s.pListHead \in C \cup {f2.p}
        /\ s.mem[f2.p]["pListLast"] \in C \cup {NULL}
    BY <2>1, <2>2, <2>3 DEF Before
  <2>5. \A c \in C : /\ s.mem[c]["pListNext"] \in C \cup {f2.p}
                     /\ s.mem[c]["pListLast"] \in C \cup {NULL}
    BY DEF Before
  <2>6. Before(s, L, f2, C)
    BY <2>4, <2>5, <1>2, <1>4 DEF Before
  <2> QED
    BY <2>1, <2>4, <2>6, <1>4 DEF ApplyOK
<1> QED
  BY <1>3, <1>4

LEMMA ApplyOver ==
  ASSUME NEW s, NEW L, Sound(s, L), NEW f, f.phase = "dtor", f.p \in L,
         NEW B \in SUBSET L, Before(s, L, f, B), NEW s2, Past(s, s2, L, f.p),
         NEW f2, f2.p = s.mem[f.p]["pListNext"], f2.owed = f.owed, f2.seen = f.seen,
         f2.phase = IF f2.p = NULL THEN "end" ELSE "func"
  PROVE  ApplyOK(s2, L \ {f.p}, f2)
<1> DEFINE m == s.mem
           p == f.p
           n == f2.p
           K == L \ {p}
           last == m[p]["pListLast"]
<1>1. /\ L \subseteq Cells /\ NULL \notin L
      /\ \A c \in L : /\ m[c]["pListNext"] \in L \cup {NULL} /\ m[c]["pListLast"] \in L \cup {NULL}
                      /\ m[c]["pListNext"] # NULL => m[m[c]["pListNext"]]["pListLast"] = c
                      /\ m[c]["pListLast"] # NULL => m[m[c]["pListLast"]]["pListNext"] = c
                      /\ m[c]["pListLast"] = NULL <=> c = s.pListHead
  BY NotNull DEF Sound, Line, ListOf
<1>2. /\ p \notin B /\ s.pListHead \in B \cup {p} /\ last \in B \cup {NULL}
      /\ \A c \in B : /\ m[c]["pListNext"] \in B \cup {p}
                      /\ m[c]["pListLast"] \in B \cup {NULL}
      /\ f.owed \cap B \subseteq f.seen
      /\ f.seen \cap L \subseteq B \cup {p}
  BY DEF Before
<1>3. /\ s2.pListHead = IF last = NULL THEN n ELSE s.pListHead
      /\ \A c \in K : /\ s2.mem[c]["pListNext"] = IF c = last THEN n ELSE m[c]["pListNext"]
                      /\ s2.mem[c]["pListLast"] = IF c = n THEN last ELSE m[c]["pListLast"]
  BY DEF Past
<1>4. CASE n = NULL
  <2>1. L = B \cup {p}
    BY <1>4, AllBefore
  <2>2. f2.owed \cap K \subseteq f2.seen
    BY <2>1, <1>2
  <2> QED
    BY <2>2, <1>4 DEF ApplyOK
<1>5. CASE n # NULL
  <2>1. n \in L /\ m[n]["pListLast"] = p
    BY <1>1, <1>5
  <2>2. n \notin B
    <3>1. SUFFICES ASSUME n \in B PROVE FALSE
      OBVIOUS
    <3>2. p \in B \cup {NULL}
      BY <2>1, <3>1, <1>2
    <3> QED
      BY <3>2, <1>1, <1>2
  <2>3. n # p
    BY <2>1, <1>1, <1>2
  <2>4. n \in K /\ B \subseteq K
    BY <2>1, <2>3, <1>2
  <2>5. s2.pListHead \in B \cup {n}
    BY <1>1, <1>2, <1>3
  <2>6. s2.mem[n]["pListLast"] \in B \cup {NULL}
    BY <2>4, <1>2, <1>3
  <2>7. ASSUME NEW c \in B
        PROVE  /\ s2.mem[c]["pListNext"] \in B \cup {n}
               /\ s2.mem[c]["pListLast"] \in B \cup {NULL}
    <3>1. c \in K /\ c \in L /\ c # n
      BY <2>2, <2>4
    <3>2. c # last => m[c]["pListNext"] # p
      BY <3>1, <1>1
    <3> QED
      BY <3>1, <3>2, <1>2, <1>3
  <2>8. f2.owed \cap B \subseteq f2.seen /\ f2.seen \cap K \subseteq B
    BY <1>2
  <2>9. Before(s2, K, f2, B)
    BY <2>2, <2>4, <2>5, <2>6, <2>7, <2>8, <1>5 DEF Before
  <2> QED
    BY <2>4, <2>9, <1>5 DEF ApplyOK
<1> QED
  BY <1>4, <1>5

\* The elements, in order, are the list.
LEMMA ListIs ==
  ASSUME NEW s, NEW L, Sound(s, L)
  PROVE  Walks(s, List(s), L, s.pListHead, "pListNext", "pListLast")
<1>1. ListOf(s.mem, L, s.pListHead, "pListNext", "pListLast")
  BY DEF Sound, Line
<1>2. Walks(s, Walk(s, s.pListHead, "pListNext"), L, s.pListHead, "pListNext", "pListLast")
  BY <1>1, WalkIs
<1> QED
  BY <1>2 DEF List

LEMMA ApplyStartInv ==
  ASSUME IInv, ApplyStart("apply")
  PROVE  IInv'
<1>1. PICK L \in SUBSET Cells : Good(t, L, stack)
  BY DEF IInv
<1> DEFINE p  == t.pListHead
           n  == t.nApplyCount + 1
           s2 == [t EXCEPT !.nApplyCount = n]
           g  == Frame("apply", "func", p)
           e  == [g EXCEPT !.owed = L]
           f  == Advance(e, p, "func")
<1>2. May("apply")
  BY DEF ApplyStart
<1>4. Sound(t, L) /\ Frames(t, L, stack) /\ t \in Table
  BY <1>1, SoundCells DEF Good
<1>5. Range(List(t)) = L
  BY <1>4, ListIs DEF Walks
<1>6. /\ t' = [t EXCEPT !.nApplyCount = @ + 1] /\ fault' = fault
      /\ stack' = Append(stack, f)
  BY <1>5 DEF ApplyStart, Push
<1>7. t' = s2 /\ n \in Int
  BY <1>4, <1>6 DEF Table
<1> HIDE DEF n
<1>8. Sound(s2, L) /\ Stays(t, s2, L)
  BY <1>4, <1>7, ApplyCountIs
<1> HIDE DEF s2
<1>9. p \in Ptr /\ p \in L \cup {NULL} /\ (L # {} => p \in L)
  <2>1. ListOf(t.mem, L, p, "pListNext", "pListLast")
    BY <1>4 DEF Sound, Line
  <2>2. p \in Ptr
    BY <1>4 DEF Table
  <2> HIDE DEF p
  <2>3. L # {} => p \in L
    BY <2>1, HeadIs
  <2> QED
    BY <2>1, <2>2, <2>3 DEF ListOf
<1>10. /\ g \in FrameType /\ g.op = "apply" /\ g.seen = {}
  BY <1>9, FrameIs
<1> HIDE DEF g, p
<1>11. e \in FrameType /\ e.op = "apply" /\ e.seen = {} /\ e.owed = L
  BY <1>10 DEF FrameType
<1> HIDE DEF e
<1>12. /\ f \in FrameType /\ f.p = p /\ f.phase = IF p = NULL THEN "end" ELSE "func"
       /\ f.op = "apply" /\ f.owed = L /\ f.seen = {}
  BY <1>9, <1>11, AdvanceIs
<1> HIDE DEF f
<1>13. FrameOK(s2, L, f)
  <2>1. CASE p = NULL
    BY <2>1, <1>9, <1>12, NotNull DEF FrameOK, ApplyOK
  <2>2. CASE p # NULL
    <3>1. s2.pListHead = p /\ p \in L
      BY <2>2, <1>8, <1>9 DEF Stays, p
    <3>2. s2.mem[p]["pListLast"] = NULL
      BY <3>1, <1>8 DEF Sound, Line, ListOf
    <3>3. Before(s2, L, f, {})
      BY <3>1, <3>2, <2>2, <1>12 DEF Before
    <3>4. ApplyOK(s2, L, f)
      BY <3>1, <3>3, <2>2, <1>12 DEF ApplyOK
    <3> QED
      BY <3>4, <1>12 DEF FrameOK
  <2> QED
    BY <2>1, <2>2
<1>14. Frames(s2, L, stack)
  BY <1>4, <1>8, FramesStay
<1>15. stack # <<>> => stack[Len(stack)].phase # "end"
  BY <1>1, <1>2, MayIs
<1>16. f.phase # "dtor"
  BY <1>12
<1>17. Frames(s2, L, Append(stack, f))
  BY <1>12, <1>13, <1>14, <1>15, <1>16, FramesPush
<1>19. Returns => Counted(t', L, stack')
  <2>1. Dead(Append(stack, f)) = Dead(stack)
    BY <1>4, <1>12, DeadPush DEF Frames
  <2> QED
    BY <2>1, <1>1, <1>6, <1>7, <1>8, CountSame DEF Stays
<1>18. Good(t', L, stack') /\ fault' = FALSE
  BY <1>6, <1>7, <1>8, <1>17, <1>19 DEF Good, IInv
<1> QED
  BY <1>18 DEF IInv

\* The operations in progress are left.
LEMMA LeaveInv ==
  ASSUME IInv, stack' = <<>>, UNCHANGED <<t, fault>>, Returns => stack = <<>>
  PROVE  IInv'
<1>1. PICK L \in SUBSET Cells : Good(t, L, stack)
  BY DEF IInv
<1>2. Frames(t, L, <<>>)
  BY DEF Frames
<1>3. Good(t', L, stack')
  <2>1. Returns => Counted(t, L, stack')
    BY <1>1 DEF Good
  <2> QED
    BY <2>1, <1>1, <1>2 DEF Good
<1> QED
  BY <1>3 DEF IInv

\* The element an apply is at, and the elements before it.
LEMMA ApplyAt ==
  ASSUME NEW s, NEW L, NEW f, FrameOK(s, L, f), f.op = "apply", f.phase # "end"
  PROVE  f.p \in L /\ \E B \in SUBSET L : Before(s, L, f, B)
<1>1. ApplyOK(s, L, f)
  BY DEF FrameOK
<1> QED
  BY <1>1 DEF ApplyOK

LEMMA ApplyKeepInv ==
  ASSUME IInv, ApplyKeep
  PROVE  IInv'
<1>1. PICK L \in SUBSET Cells : Good(t, L, stack)
  BY DEF IInv
<1> DEFINE f    == Top
           next == t.mem[f.p].pListNext
           e    == Seen(f)
           f2   == Advance(e, next, "func")
<1>2. /\ Running({"apply"}, "func") /\ t' = t
      /\ stack' = [stack EXCEPT ![Len(stack)] = f2]
      /\ fault' = ~ ({f.p} \subseteq t.alive)
  BY DEF ApplyKeep, Retop, Touch
<1>3. /\ Sound(t, L) /\ Frames(t, L, stack) /\ stack # <<>>
      /\ f \in FrameType /\ FrameOK(t, L, f) /\ f.op = "apply" /\ f.phase = "func"
      /\ f = stack[Len(stack)]
  BY <1>1, <1>2, RunningIs DEF Good
<1> HIDE DEF f
<1>4. PICK B \in SUBSET L : f.p \in L /\ Before(t, L, f, B)
  BY <1>3, ApplyAt
<1>5. f.p \in Cells /\ next \in Ptr /\ f.p \in t.alive
  BY <1>3, <1>4 DEF Sound, Line, ListOf, Ptr
<1> HIDE DEF next
<1>6. /\ e \in FrameType /\ e.seen = f.seen \cup {f.p} /\ e.op = "apply" /\ e.owed = f.owed
  BY <1>3, <1>5, SeenIs
<1> HIDE DEF e
<1>7. /\ f2 \in FrameType /\ f2.p = next /\ f2.phase = IF next = NULL THEN "end" ELSE "func"
      /\ f2.op = "apply" /\ f2.owed = f.owed /\ f2.seen = f.seen \cup {f.p}
  BY <1>5, <1>6, AdvanceIs
<1> HIDE DEF f2
<1>8. ApplyOK(t, L, f2)
  BY <1>3, <1>4, <1>5, <1>7, ApplyOn DEF next
<1>9. FrameOK(t, L, f2)
  BY <1>7, <1>8 DEF FrameOK
<1>10. f2.phase # "dtor"
  BY <1>7
<1>11. Frames(t, L, [stack EXCEPT ![Len(stack)] = f2])
  BY <1>3, <1>7, <1>9, <1>10, FramesRetop
<1>13. Returns => Counted(t', L, stack')
  <2>1. Dead([stack EXCEPT ![Len(stack)] = f2]) = Dead(stack)
    BY <1>3, <1>7, DeadRetop DEF Frames
  <2> QED
    BY <2>1, <1>1, <1>2, CountSame
<1>12. Good(t', L, stack') /\ fault' = FALSE
  BY <1>2, <1>3, <1>5, <1>11, <1>13 DEF Good
<1> QED
  BY <1>12 DEF IInv

LEMMA ApplyRemoveInv ==
  ASSUME IInv, ApplyRemove
  PROVE  IInv'
<1>1. PICK L \in SUBSET Cells : Good(t, L, stack)
  BY DEF IInv
<1> DEFINE f    == Top
           e    == Seen(f)
           f2   == [e EXCEPT !.phase = "dtor"]
<1>2. /\ Running({"apply"}, "func") /\ t' = t /\ Lawful(f.p, Front(stack))
      /\ stack' = [stack EXCEPT ![Len(stack)] = f2]
      /\ fault' = ~ ({f.p} \subseteq t.alive)
  BY DEF ApplyRemove, MayRemove, Retop, Touch
<1>3. /\ Sound(t, L) /\ Frames(t, L, stack) /\ stack # <<>>
      /\ f \in FrameType /\ FrameOK(t, L, f) /\ f.op = "apply" /\ f.phase = "func"
      /\ f = stack[Len(stack)] /\ stack \in Seq(FrameType)
  BY <1>1, <1>2, RunningIs DEF Good
<1> HIDE DEF f
<1>4. PICK B \in SUBSET L : f.p \in L /\ Before(t, L, f, B)
  BY <1>3, ApplyAt
<1>5. f.p \in Cells /\ f.p \in t.alive
  BY <1>3, <1>4 DEF Sound
<1>6. /\ e \in FrameType /\ e.seen = f.seen \cup {f.p} /\ e.op = "apply" /\ e.owed = f.owed
      /\ e.p = f.p
  BY <1>3, <1>5, SeenIs
<1> HIDE DEF e
<1>7. /\ f2 \in FrameType /\ f2.p = f.p /\ f2.phase = "dtor"
      /\ f2.op = "apply" /\ f2.owed = f.owed /\ f2.seen = f.seen \cup {f.p}
  BY <1>6 DEF FrameType
<1> HIDE DEF f2
<1>8. Before(t, L, f2, B)
  BY <1>3, <1>4, <1>7 DEF Before
<1>9. FrameOK(t, L, f2)
  BY <1>4, <1>7, <1>8 DEF FrameOK, ApplyOK
<1>10. \A j \in DOMAIN stack : j < Len(stack) => f2.p \notin Given(stack[j])
  <2>1. \A j \in DOMAIN stack : j < Len(stack) =>
          j \in DOMAIN Front(stack) /\ Front(stack)[j] = stack[j]
    BY <1>3 DEF Front
  <2> QED
    BY <2>1, <1>2, <1>7 DEF Lawful
<1>11. Frames(t, L, [stack EXCEPT ![Len(stack)] = f2])
  BY <1>3, <1>7, <1>9, <1>10, FramesRetop
<1>13. Returns => Counted(t', L, stack')
  <2>1. Dead([stack EXCEPT ![Len(stack)] = f2]) = Dead(stack)
    BY <1>3, <1>7, DeadRetop DEF Frames
  <2> QED
    BY <2>1, <1>1, <1>2, CountSame
<1>12. Good(t', L, stack') /\ fault' = FALSE
  BY <1>2, <1>3, <1>5, <1>11, <1>13 DEF Good
<1> QED
  BY <1>12 DEF IInv

\* The operations below the last one.
LEMMA Below ==
  ASSUME NEW L, Frames(t, L, stack), stack # <<>>
  PROVE  /\ \A i \in DOMAIN Front(stack) :
              /\ Front(stack)[i] = stack[i] /\ i \in DOMAIN stack /\ i < Len(stack)
              /\ stack[i].phase # "end"
         /\ Front(stack) # <<>> => Len(Front(stack)) \in DOMAIN Front(stack)
         /\ stack[Len(stack)].op = "graceful" => Front(stack) = <<>>
         /\ \A f \in FrameType : [stack EXCEPT ![Len(stack)] = f] = Append(Front(stack), f)
<1> DEFINE n  == Len(stack)
           st == Front(stack)
<1>1. stack \in Seq(FrameType) /\ n \in Nat \ {0} /\ DOMAIN stack = 1..n
  BY DEF Frames
<1>2. st = [i \in 1..n - 1 |-> stack[i]]
  BY <1>1 DEF Front
<1>3. st \in Seq(FrameType) /\ DOMAIN st = 1..n - 1 /\ Len(st) = n - 1
  BY <1>1, <1>2
<1> HIDE DEF st, n
<1>4. ASSUME NEW i \in DOMAIN st
      PROVE  st[i] = stack[i] /\ i \in DOMAIN stack /\ i < n /\ stack[i].phase # "end"
  <2>1. st[i] = stack[i] /\ i \in DOMAIN stack /\ i < n
    BY <1>1, <1>2, <1>3
  <2> QED
    BY <2>1, <1>1 DEF Frames, n
<1>5. st # <<>> => Len(st) \in DOMAIN st
  <2>1. n - 1 = 0 => st = <<>>
    BY <1>3
  <2> QED
    BY <2>1, <1>1, <1>3
<1>6. stack[n].op = "graceful" => st = <<>>
  <2>1. SUFFICES ASSUME stack[n].op = "graceful" PROVE st = <<>>
    OBVIOUS
  <2>2. n = 1
    BY <2>1, <1>1 DEF Frames, n
  <2> QED
    BY <2>2, <1>3
<1>7. ASSUME NEW f \in FrameType PROVE [stack EXCEPT ![n] = f] = Append(st, f)
  <2>1. stack = [i \in 1..n |-> stack[i]]
    BY <1>1
  <2>2. [stack EXCEPT ![n] = f] = [i \in 1..n |-> IF i = n THEN f ELSE stack[i]]
    BY <2>1, <1>1
  <2>3. \A i \in DOMAIN st : st[i] = stack[i]
    BY <1>2, <1>3
  <2>4. Append(st, f) = [i \in 1..n |-> IF i = n THEN f ELSE stack[i]]
    <3>1. Append(st, f) \in Seq(FrameType) /\ Len(Append(st, f)) = n
      BY <1>1, <1>3
    <3>2. \A i \in 1..n : Append(st, f)[i] = IF i = n THEN f ELSE stack[i]
      BY <2>3, <1>1, <1>3
    <3> DEFINE a == Append(st, f)
    <3> HIDE DEF a
    <3>3. a \in [1..n -> FrameType]
      <4>1. a \in Seq(FrameType) /\ Len(a) = n
        BY <3>1 DEF a
      <4> QED
        BY <4>1, LenProperties
    <3>4. a = [i \in 1..n |-> a[i]]
      BY <3>3
    <3> QED
      BY <3>2, <3>4 DEF a
  <2> QED
    BY <2>2, <2>4
<1> QED
  BY <1>4, <1>5, <1>6, <1>7 DEF st, n

\* The keys and the data of the elements L, and the key of the next append.
SameData(s, s2, L) ==
  /\ \A c \in L : s2.mem[c].key = s.mem[c].key /\ s2.mem[c].data = s.mem[c].data
  /\ s2.nNextFreeElement = s.nNextFreeElement

\* What zend_hash_apply_deleter() leaves of the table.
Deleted(s, p) == Release(Unlink(s, p), p)

LEMMA DeletedIs ==
  ASSUME NEW s, NEW L, Sound(s, L), NEW p \in L
  PROVE  /\ Sound(Deleted(s, p), L \ {p}) /\ Past(s, Deleted(s, p), L, p)
         /\ Deleted(s, p).alive = s.alive \ {p}
         /\ Deleted(s, p).nNumOfElements = s.nNumOfElements - 1
         /\ SameData(s, Deleted(s, p), L \ {p})
<1> DEFINE s1 == Unlink(s, p)
           s2 == Release(s1, p)
           K  == L \ {p}
<1>1. /\ Sound(s1, K) /\ Past(s, s1, L, p)
      /\ Keeps(s, s1, {"arBuckets", "pListHead", "pListTail", "pInternalPointer"}, Links)
  BY UnlinkIs
<1>2. p \in Cells /\ p \notin K
  BY SoundCells
<1> HIDE DEF s1
<1>3. s1.alive = s.alive /\ s1.nNumOfElements = s.nNumOfElements
  BY <1>1 DEF Keeps, Fields
<1>7. SameData(s, s1, K)
  <2>1. K \subseteq Cells
    BY SoundCells
  <2> QED
    BY <2>1, <1>1 DEF Keeps, Fields, Links, SameData
<1> HIDE DEF K
<1>4. /\ Sound(s2, K) /\ s2.alive = s1.alive \ {p}
      /\ s2.nNumOfElements = s1.nNumOfElements - 1 /\ s2.pListHead = s1.pListHead
      /\ s2.pInternalPointer = s1.pInternalPointer
      /\ s2.nNextFreeElement = s1.nNextFreeElement
      /\ \A c \in K : s2.mem[c] = s1.mem[c]
  BY <1>1, <1>2, ReleaseIs
<1> HIDE DEF s2
<1>5. Past(s, s2, L, p)
  BY <1>1, <1>4 DEF Past, K
<1>6. s2 = Deleted(s, p)
  BY DEF s1, s2, Deleted
<1>8. SameData(s, s2, K)
  BY <1>4, <1>7 DEF SameData
<1> QED
  BY <1>3, <1>4, <1>5, <1>6, <1>8 DEF K

LEMMA ApplyDeletedInv ==
  ASSUME IInv, ApplyDeleted
  PROVE  IInv'
<1>1. PICK L \in SUBSET Cells : Good(t, L, stack)
  BY DEF IInv
<1> DEFINE f    == Top
           p    == f.p
           next == t.mem[p].pListNext
           ph   == IF f.op = "apply" THEN "func" ELSE "dtor"
           f2   == Advance(f, next, ph)
           s2   == Deleted(t, p)
           K    == L \ {p}
           st   == Front(stack)
<1>2. /\ Running({"apply", "graceful"}, "dtor") /\ t' = s2
      /\ stack' = [stack EXCEPT ![Len(stack)] = f2]
      /\ fault' = ~ (Around(p) \subseteq t.alive)
  BY DEF ApplyDeleted, Deleted, Retop, Touch
<1>3. /\ Sound(t, L) /\ Frames(t, L, stack) /\ stack # <<>> /\ Len(stack) \in DOMAIN stack
      /\ f \in FrameType /\ FrameOK(t, L, f) /\ f.op \in {"apply", "graceful"}
      /\ f.phase = "dtor" /\ f = stack[Len(stack)]
  BY <1>1, <1>2, RunningIs DEF Good
<1> HIDE DEF f
<1>4. p \in L
  BY <1>3 DEF FrameOK, ApplyOK, GracefulOK
<1>5. next \in Ptr /\ next \in L \cup {NULL}
  BY <1>3, <1>4 DEF Sound, Line, ListOf, Ptr
<1>6. /\ Sound(s2, K) /\ Past(t, s2, L, p) /\ s2.alive = t.alive \ {p}
      /\ s2.nNumOfElements = t.nNumOfElements - 1
  <2> HIDE DEF p
  <2> QED
    BY <1>3, <1>4, DeletedIs
<1> HIDE DEF s2
<1>7. Frames(t, L, st)
  BY <1>3, FramesPop
<1>8. /\ \A i \in DOMAIN st : st[i] = stack[i] /\ i \in DOMAIN stack /\ i < Len(stack)
                              /\ stack[i].phase # "end"
      /\ st # <<>> => Len(st) \in DOMAIN st
      /\ f.op = "graceful" => st = <<>>
      /\ \A g \in FrameType : [stack EXCEPT ![Len(stack)] = g] = Append(st, g)
  BY <1>3, Below
<1> HIDE DEF st
<1>9. Lawful(p, st)
  <2>1. CASE f.op = "graceful"
    <3>1. DOMAIN st = {}
      BY <2>1, <1>8
    <3> QED
      BY <3>1 DEF Lawful
  <2>2. CASE f.op = "apply"
    <3>1. \A j \in DOMAIN stack : j < Len(stack) => p \notin Given(stack[j])
      BY <2>2, <1>3 DEF Frames
    <3> QED
      BY <3>1, <1>8 DEF Lawful
  <2> QED
    BY <2>1, <2>2, <1>3
<1>10. Frames(s2, K, st)
  <2> HIDE DEF p
  <2>1. t.alive \ {p} \subseteq s2.alive
    BY <1>6
  <2> QED
    BY <2>1, <1>3, <1>4, <1>6, <1>7, <1>9, FramesGone
<1>11. /\ f2 \in FrameType /\ f2.p = next /\ f2.phase = IF next = NULL THEN "end" ELSE ph
       /\ f2.op = f.op /\ f2.owed = f.owed /\ f2.seen = f.seen
  <2>1. ph \in {"func", "dtor"}
    OBVIOUS
  <2> HIDE DEF next, ph
  <2> QED
    BY <2>1, <1>3, <1>5, AdvanceIs
<1> HIDE DEF f2
<1>14. stack' = Append(st, f2)
  BY <1>2, <1>8, <1>11
<1>15. Returns => Counted(t', K, stack')
  <2>1. SUFFICES ASSUME Returns PROVE Counted(t', K, stack')
    OBVIOUS
  <2>2. Dead(stack') = Dead(stack)
    <3>1. f2.op # "del" /\ stack[Len(stack)].op # "del" /\ stack \in Seq(FrameType)
      BY <1>3, <1>11 DEF Frames
    <3> QED
      BY <3>1, <1>2, <1>3, DeadRetop
  <2>3. p \notin Dead(stack)
    <3>1. \A i \in DOMAIN stack : stack[i].op = "del" => stack[i].p \notin L
      BY <1>3 DEF Frames, FrameOK, DelOK
    <3> QED
      BY <3>1, <1>4 DEF Dead, Dying
  <2>4. Cardinality(t.alive \ {p}) = Cardinality(t.alive) - 1
    <3>1. p \in t.alive /\ t.alive \in SUBSET Cells
      BY <1>3, <1>4, SoundCells DEF Sound
    <3> HIDE DEF p
    <3> QED
      BY <3>1, CountAdd
  <2>5. t.alive = L \cup Dead(stack) /\ t.nNumOfElements = Cardinality(t.alive)
    BY <2>1, <1>1 DEF Good, Counted
  <2> QED
    BY <2>2, <2>3, <2>4, <2>5, <1>2, <1>6 DEF Counted
<1>12. CASE f.op = "apply"
  <2>1. PICK B \in SUBSET L : Before(t, L, f, B)
    BY <1>3, <1>12, ApplyAt
  <2>2. ApplyOK(s2, K, f2)
    BY <2>1, <1>3, <1>4, <1>6, <1>11, <1>12, ApplyOver
  <2>3. FrameOK(s2, K, f2)
    BY <2>2, <1>11, <1>12 DEF FrameOK
  <2>4. f2.op # "graceful" /\ f2.op # "del" /\ f2.phase # "dtor"
    BY <1>11, <1>12
  <2>5. st # <<>> => st[Len(st)].phase # "end"
    BY <1>8
  <2> QED
    <3>1. Frames(s2, K, Append(st, f2))
      BY <2>3, <2>4, <2>5, <1>10, <1>11, FramesPush
    <3>2. Good(t', K, stack') /\ fault' = FALSE /\ K \in SUBSET Cells
      BY <3>1, <1>2, <1>3, <1>4, <1>6, <1>14, <1>15, AroundIn DEF Good
    <3> QED
      BY <3>2 DEF IInv
<1>13. CASE f.op = "graceful"
  <2>1. p = t.pListHead
    BY <1>3, <1>13 DEF FrameOK, GracefulOK
  <2>2. t.mem[p]["pListLast"] = NULL
    BY <2>1, <1>3, <1>4 DEF Sound, Line, ListOf
  <2>3. s2.pListHead = next
    BY <2>2, <1>6 DEF Past
  <2>4. ListOf(s2.mem, K, next, "pListNext", "pListLast")
    BY <2>3, <1>6 DEF Sound, Line
  <2>5. next \in K \cup {NULL} /\ (K # {} => next \in K) /\ NULL \notin K
    <3> HIDE DEF K, next
    <3>1. K # {} => next \in K
      BY <2>4, HeadIs
    <3>2. next \in K \cup {NULL} /\ K \subseteq Cells
      BY <2>4 DEF ListOf
    <3> QED
      BY <3>1, <3>2, NotNull
  <2>6. GracefulOK(s2, K, f2)
    <3> HIDE DEF K, next
    <3> QED
      BY <2>3, <2>5, <1>11, <1>13 DEF GracefulOK
  <2>7. FrameOK(s2, K, f2)
    BY <2>6, <1>11, <1>13 DEF FrameOK
  <2>8. st = <<>> /\ f2.op = "graceful"
    BY <1>8, <1>11, <1>13
  <2>9. \A i \in DOMAIN st : f2.op = "del" /\ st[i].op = "del" => st[i].p # f2.p
    BY <2>8
  <2> QED
    <3>1. Frames(s2, K, Append(st, f2))
      BY <2>7, <2>8, <2>9, <1>10, <1>11, FramesPush
    <3>2. Good(t', K, stack') /\ fault' = FALSE /\ K \in SUBSET Cells
      BY <3>1, <1>2, <1>3, <1>4, <1>6, <1>14, <1>15, AroundIn DEF Good
    <3> QED
      BY <3>2 DEF IInv
<1> QED
  BY <1>3, <1>12, <1>13

LEMMA ApplyEndInv ==
  ASSUME IInv, ApplyEnd
  PROVE  IInv'
<1>1. PICK L \in SUBSET Cells : Good(t, L, stack)
  BY DEF IInv
<1> DEFINE n  == t.nApplyCount - 1
           s2 == [t EXCEPT !.nApplyCount = n]
<1>2. /\ Running({"apply", "reverse"}, "end") /\ stack' = Front(stack) /\ fault' = fault
      /\ t' = [t EXCEPT !.nApplyCount = @ - 1]
  BY DEF ApplyEnd, Pop
<1>3. Sound(t, L) /\ Frames(t, L, stack) /\ stack # <<>> /\ t \in Table
  BY <1>1, <1>2, RunningIs, SoundCells DEF Good
<1>4. t' = s2 /\ n \in Int
  BY <1>2, <1>3 DEF Table
<1> HIDE DEF n
<1>5. Sound(s2, L) /\ Stays(t, s2, L)
  BY <1>3, <1>4, ApplyCountIs
<1> HIDE DEF s2
<1>6. Frames(s2, L, stack)
  BY <1>3, <1>5, FramesStay
<1>7. Frames(s2, L, Front(stack))
  BY <1>3, <1>6, FramesPop
<1>9. Returns => Counted(t', L, stack')
  <2>1. Dead(Front(stack)) = Dead(stack)
    BY <1>1, <1>2, <1>3, RunningIs, DeadPop
  <2> QED
    BY <2>1, <1>1, <1>2, <1>4, <1>5, CountSame DEF Stays
<1>8. Good(t', L, stack') /\ fault' = FALSE
  BY <1>2, <1>4, <1>5, <1>7, <1>9 DEF Good, IInv
<1> QED
  BY <1>8 DEF IInv

LEMMA CleanStartInv ==
  ASSUME IInv, stack = <<>>, CleanStart("graceful")
  PROVE  IInv'
<1>1. PICK L \in SUBSET Cells : Good(t, L, stack)
  BY DEF IInv
<1> DEFINE p == t.pListHead
           r == IF p = NULL THEN NULL ELSE t.mem[p].pListNext
           g == Frame("graceful", "dtor", NULL)
           e == [g EXCEPT !.q = r]
           f == Advance(e, p, "dtor")
<1>3. Sound(t, L) /\ Frames(t, L, stack) /\ t \in Table
  BY <1>1, SoundCells DEF Good
<1>4. t' = t /\ fault' = fault /\ stack' = Append(stack, f)
  BY DEF CleanStart, CleanAt, Push
<1>5. p \in Ptr /\ p \in L \cup {NULL} /\ (L # {} => p \in L) /\ NULL \notin L
  <2>1. ListOf(t.mem, L, p, "pListNext", "pListLast")
    BY <1>3 DEF Sound, Line
  <2>2. p \in Ptr
    BY <1>3 DEF Table
  <2> HIDE DEF p
  <2>3. L # {} => p \in L
    BY <2>1, HeadIs
  <2> QED
    BY <2>1, <2>2, <2>3, NotNull DEF ListOf
<1>6. r \in Ptr
  <2>1. CASE p = NULL
    BY <2>1 DEF Ptr
  <2>2. CASE p # NULL
    BY <2>2, <1>3, <1>5 DEF Sound, Line, ListOf, Ptr
  <2> QED
    BY <2>1, <2>2
<1>7. g \in FrameType /\ g.op = "graceful"
  BY FrameIs DEF Ptr
<1> HIDE DEF g, r, p
<1>8. e \in FrameType /\ e.op = "graceful"
  BY <1>6, <1>7 DEF FrameType
<1> HIDE DEF e
<1>9. /\ f \in FrameType /\ f.p = p /\ f.phase = IF p = NULL THEN "end" ELSE "dtor"
      /\ f.op = "graceful"
  BY <1>5, <1>8, AdvanceIs
<1> HIDE DEF f
<1>10. GracefulOK(t, L, f)
  BY <1>5, <1>9 DEF GracefulOK, p
<1>11. FrameOK(t, L, f)
  BY <1>9, <1>10 DEF FrameOK
<1>12. \A i \in DOMAIN stack : f.op = "del" /\ stack[i].op = "del" => stack[i].p # f.p
  BY <1>9
<1>13. Frames(t, L, Append(stack, f))
  BY <1>3, <1>9, <1>11, <1>12, FramesPush
<1>15. Returns => Counted(t', L, stack')
  <2>1. Dead(Append(stack, f)) = Dead(stack)
    BY <1>3, <1>9, DeadPush DEF Frames
  <2> QED
    BY <2>1, <1>1, <1>4, CountSame
<1>14. Good(t', L, stack') /\ fault' = FALSE
  BY <1>3, <1>4, <1>13, <1>15 DEF Good, IInv
<1> QED
  BY <1>14 DEF IInv

LEMMA CleanEndInv ==
  ASSUME IInv, CleanEnd
  PROVE  IInv'
<1>1. PICK L \in SUBSET Cells : Good(t, L, stack)
  BY DEF IInv
<1> DEFINE s2 == [Empty EXCEPT !.alive = t.alive]
<1>2. /\ Running({"clean", "destroy", "graceful"}, "end") /\ stack' = Front(stack)
      /\ fault' = fault
      /\ Top.op # "clean" => t' = s2
  BY DEF CleanEnd, Pop
<1>3. /\ Sound(t, L) /\ Frames(t, L, stack) /\ stack # <<>>
      /\ Top \in FrameType /\ Top.op \in {"clean", "destroy", "graceful"}
      /\ Top = stack[Len(stack)]
  BY <1>1, <1>2, RunningIs DEF Good
<1>4. Top.op = "graceful"
  BY <1>3 DEF FrameType
<1>5. Front(stack) = <<>> /\ t' = s2 /\ t.alive \in SUBSET Cells
  BY <1>2, <1>3, <1>4, Below, SoundCells
<1>6. Sound(s2, {})
  BY <1>5, EmptyIs
<1> HIDE DEF s2
<1>7. Frames(s2, {}, <<>>)
  BY DEF Frames
<1>9. Returns => Counted(t', {}, stack')
  <2>1. SUFFICES ASSUME Returns PROVE Counted(t', {}, stack')
    OBVIOUS
  <2>2. L = {}
    <3>1. Running({"clean", "destroy", "graceful"}, "end")
      BY <1>2
    <3>2. Top.phase = "end" /\ FrameOK(t, L, Top)
      BY <3>1, <1>1, RunningIs
    <3> QED
      BY <3>2, <1>4 DEF FrameOK, GracefulOK
  <2>3. Dead(<<>>) = {}
    BY DEF Dead, Dying
  <2>4. Dead(stack) = {}
    BY <2>3, <1>3, <1>4, <1>5, DeadPop
  <2>5. t.alive = {}
    BY <2>1, <2>2, <2>4, <1>1 DEF Good, Counted
  <2>6. s2.alive = {} /\ s2.nNumOfElements = 0
    BY <2>5, <1>5, EmptyIs DEF s2
  <2> QED
    BY <2>3, <2>6, <1>2, <1>5, FS_EmptySet DEF Counted
<1>8. Good(t', {}, stack') /\ fault' = FALSE
  BY <1>2, <1>5, <1>6, <1>7, <1>9 DEF Good, IInv
<1> QED
  BY <1>8 DEF IInv

LEMMA MovePointerInv ==
  ASSUME IInv, MovePointer
  PROVE  IInv'
<1>1. PICK L \in SUBSET Cells : Good(t, L, stack)
  BY DEF IInv
<1> DEFINE ip == t.pInternalPointer
<1>2. Sound(t, L) /\ Frames(t, L, stack) /\ L \subseteq t.alive
  BY <1>1 DEF Good, Sound
<1>3. /\ ip \in L \cup {NULL} /\ t.pListHead \in L \cup {NULL} /\ t.pListTail \in L \cup {NULL}
      /\ \A c \in L : t.mem[c].pListNext \in L \cup {NULL} /\ t.mem[c].pListLast \in L \cup {NULL}
  BY <1>2 DEF Sound, Line, ListOf, Ends
<1>4. PICK p \in {t.pListHead, t.pListTail}
                 \cup (IF ip = NULL THEN {} ELSE {t.mem[ip].pListNext, t.mem[ip].pListLast}) :
        t' = [t EXCEPT !.pInternalPointer = p]
  BY DEF MovePointer
<1>5. p \in L \cup {NULL}
  BY <1>3, <1>4
<1> DEFINE s2 == [t EXCEPT !.pInternalPointer = p]
<1>6. Sound(s2, L) /\ Stays(t, s2, L)
  BY <1>2, <1>5, PointerIs
<1>7. t' = s2 /\ stack' = stack /\ fault' = ~ ({ip} \ {NULL} \subseteq t.alive)
  BY <1>4 DEF MovePointer, Touch
<1> HIDE DEF s2
<1>8. Frames(s2, L, stack)
  BY <1>2, <1>6, FramesStay
<1>10. Returns => Counted(t', L, stack')
  BY <1>1, <1>6, <1>7, CountSame DEF Stays
<1>9. Good(t', L, stack') /\ fault' = FALSE
  BY <1>2, <1>3, <1>6, <1>7, <1>8, <1>10 DEF Good
<1> QED
  BY <1>9 DEF IInv

\* Steps of operations that nobody has called.
LEMMA NotCalled ==
  ASSUME IInv, NEW ops, NEW ph, Running(ops, ph)
  PROVE  ops \cap {"update", "del", "apply", "graceful"} # {}
<1>1. PICK L \in SUBSET Cells : Good(t, L, stack)
  BY DEF IInv
<1>2. Top \in FrameType /\ Top.op \in ops
  BY <1>1, RunningIs
<1> QED
  BY <1>2 DEF FrameType

\* Walking backwards, cleaning and sorting start only when callbacks leave the table
\* alone.
SpecialOps == {"reverse", "clean", "destroy", "sort", "sortnew"}

LEMMA SpecialIs ==
  ASSUME IInv, Uses, NEW op \in SpecialOps, May(op)
  PROVE  Alone /\ stack = <<>> /\ op \in Outer
<1>1. PICK L \in SUBSET Cells : Good(t, L, stack)
  BY DEF IInv
<1>2. (stack = <<>> => op \in Outer) /\ (stack # <<>> => op \in Inner)
  BY <1>1, MayIs
<1> QED
  BY <1>2 DEF SpecialOps, Uses, Callbacks, Alone

SpecialStart ==
  \/ ApplyStart("reverse")
  \/ \E op \in {"clean", "destroy"} : CleanStart(op)
  \/ \E op \in {"sort", "sortnew"} : SortStart(op)

LEMMA StepInv ==
  ASSUME IInv, Uses, [Next]_vars
  PROVE  IInv' \/ SpecialStart
<1>1. ASSUME NEW k \in Keys, NEW v \in Values, Insert(k, v) \/ Update(k, v) PROVE IInv'
  BY <1>1, InsertInv, UpdateInv
<1>2. ASSUME NEW k \in Keys, Delete(k) PROVE IInv'
  BY <1>2, DeleteInv
<1>3. ASSUME NEW op \in {"apply", "reverse"}, ApplyStart(op) \/ ApplyRefused(op)
      PROVE  IInv' \/ SpecialStart
  <2>1. CASE ApplyStart(op)
    BY <2>1, ApplyStartInv DEF SpecialStart
  <2>2. CASE ApplyRefused(op)
    <3>1. PICK L \in SUBSET Cells : Good(t, L, stack)
      BY DEF IInv
    <3>2. May(op)
      BY <2>2 DEF ApplyRefused
    <3>3. stack # <<>> => op \in Inner
      BY <3>1, <3>2, MayIs
    <3>4. Returns => stack = <<>>
      BY <3>3 DEF Returns, Uses, Callbacks, Alone
    <3> QED
      BY <2>2, <3>4, LeaveInv DEF ApplyRefused
  <2> QED
    BY <1>3, <2>1, <2>2
<1>4. ASSUME NEW op \in {"clean", "destroy", "graceful"}, CleanStart(op)
      PROVE  IInv' \/ SpecialStart
  <2>1. CASE op = "graceful"
    <3>1. PICK L \in SUBSET Cells : Good(t, L, stack)
      BY DEF IInv
    <3>2. May(op)
      BY <1>4 DEF CleanStart
    <3>3. stack = <<>>
      BY <3>1, <3>2, <2>1, MayIs DEF Uses, Callbacks, Alone
    <3> QED
      BY <1>4, <2>1, <3>3, CleanStartInv
  <2> QED
    BY <1>4, <2>1 DEF SpecialStart
<1>5. ASSUME NEW op \in {"sort", "sortnew"}, SortStart(op) PROVE SpecialStart
  BY <1>5 DEF SpecialStart
<1>6. CASE MovePointer
  BY <1>6, MovePointerInv
<1>7. CASE UpdateReturn
  BY <1>7, UpdateReturnInv
<1>8. CASE DeleteReturn
  BY <1>8, DeleteReturnInv
<1>9. CASE ApplyKeep
  BY <1>9, ApplyKeepInv
<1>10. CASE ApplyRemove
  BY <1>10, ApplyRemoveInv
<1>11. CASE ApplyDeleted
  BY <1>11, ApplyDeletedInv
<1>12. CASE ApplyEnd
  BY <1>12, ApplyEndInv
<1>13. CASE CleanEnd
  BY <1>13, CleanEndInv
<1>14. CASE ReverseKeep
  BY <1>14, NotCalled DEF ReverseKeep
<1>15. CASE ReverseRemove
  BY <1>15, NotCalled DEF ReverseRemove
<1>16. CASE ReverseNext
  BY <1>16, NotCalled DEF ReverseNext
<1>17. CASE CleanNext
  BY <1>17, NotCalled DEF CleanNext
<1>18. CASE SortEnd
  BY <1>18, NotCalled DEF SortEnd
<1>19. CASE Bailout
  BY <1>19, LeaveInv DEF Bailout, Returns
<1>20. CASE UNCHANGED vars
  BY <1>20 DEF vars, IInv
<1> QED
  BY <1>1, <1>2, <1>3, <1>4, <1>5, <1>6, <1>7, <1>8, <1>9, <1>10, <1>11, <1>12, <1>13, <1>14,
     <1>15, <1>16, <1>17, <1>18, <1>19, <1>20 DEF Next, Call, Return

(***************************************************************************)
(* Walking backwards, cleaning and sorting, by operations whose callbacks  *)
(* leave the table alone.                                                  *)
(***************************************************************************)
Base(s, L) == Sound(s, L) /\ s.alive = L /\ s.nNumOfElements = Cardinality(L)

SpecialType ==
  [op : SpecialOps \cup {"del"}, phase : {"func", "dtor", "compare", "saved", "end"},
   p : Ptr, q : Ptr, data : {0}, arr : Seq(Cells), owed : SUBSET Cells, seen : SUBSET Cells]

\* The elements B from f.p back to the first have not been seen.
Behind(s, f, B) ==
  /\ f.p \in B /\ B \cap f.seen = {} /\ s.mem[f.p]["pListNext"] \notin B
  /\ \A c \in B : s.mem[c]["pListLast"] \in B \cup {NULL}

ReverseOK(s, L, f) ==
  /\ f.op = "reverse" /\ f.phase \in {"func", "saved", "end"}
  /\ f.phase # "end" => \E B \in SUBSET L : Behind(s, f, B)

\* A function has been called, or an element is being deleted.
Reversing ==
  /\ fault = FALSE /\ NoClash
  /\ \E L \in SUBSET Cells, f \in SpecialType :
       /\ ReverseOK(t, L, f)
       /\ \/ stack = <<f>> /\ Base(t, L)
          \/ \E g \in SpecialType :
               /\ stack = <<f, g>> /\ f.phase # "func" /\ g.op = "del" /\ g.phase = "dtor"
               /\ g.p \notin L /\ Sound(t, L) /\ t.alive = L \cup {g.p}
               /\ t.nNumOfElements = Cardinality(L) + 1

\* The elements still alive are those from f.p to the end of the list.
CleanOK(s, L, f) ==
  /\ f.op \in {"clean", "destroy"} /\ f.phase = IF f.p = NULL THEN "end" ELSE "dtor"
  /\ s \in Table /\ s.alive \subseteq L /\ Sound([s EXCEPT !.alive = L], L)
  /\ f.p \in s.alive \cup {NULL}
  /\ f.p # NULL => /\ f.q = s.mem[f.p]["pListNext"]
                   /\ s.mem[f.p]["pListLast"] \notin s.alive
  /\ \A c \in s.alive : /\ s.mem[c]["pListNext"] \in s.alive \cup {NULL}
                        /\ s.mem[c]["pListLast"] \in s.alive \/ c = f.p

CleaningUp ==
  /\ fault = FALSE
  /\ \E L \in SUBSET Cells, f \in SpecialType : stack = <<f>> /\ CleanOK(t, L, f)

Sorting ==
  /\ fault = FALSE
  /\ \E L \in SUBSET Cells, f \in SpecialType :
       /\ stack = <<f>> /\ f.op \in {"sort", "sortnew"} /\ f.phase = "compare"
       /\ Base(t, L) /\ f.arr = List(t) /\ Len(f.arr) > 1

Whole == IInv \/ (Alone /\ (Reversing \/ CleaningUp \/ Sorting))

\* Nothing is called while callbacks leave the table alone.
LEMMA OnlyReturns ==
  ASSUME Alone, stack # <<>>, Next
  PROVE  Return
  BY DEF Alone, Next, Call, Bailout, May, Insert, Update, Delete, ApplyStart, ApplyRefused,
         CleanStart, SortStart, MovePointer

LEMMA BaseIs ==
  ASSUME IInv, Alone, stack = <<>>
  PROVE  \E L \in SUBSET Cells : Base(t, L)
<1>1. PICK L \in SUBSET Cells : Good(t, L, stack)
  BY DEF IInv
<1>2. Returns
  BY DEF Alone, Returns
<1>3. Dead(stack) = {}
  BY DEF Dead, Dying
<1>4. t.alive = L
  BY <1>1, <1>2, <1>3 DEF Good, Counted
<1> QED
  BY <1>1, <1>2, <1>4 DEF Good, Counted, Base

LEMMA BaseInv ==
  ASSUME NEW L \in SUBSET Cells, Base(t', L), stack' = <<>>, fault' = FALSE
  PROVE  IInv'
<1>1. Dead(<<>>) = {} /\ Frames(t', L, <<>>)
  BY DEF Dead, Dying, Frames
<1>2. Counted(t', L, stack')
  BY <1>1 DEF Base, Counted
<1>3. Good(t', L, stack')
  BY <1>1, <1>2 DEF Base, Good
<1> QED
  BY <1>3 DEF IInv

\* One operation, or two.
LEMMA OneIs ==
  ASSUME NEW f \in SpecialType, stack = <<f>>
  PROVE  /\ stack # <<>> /\ Top = f /\ Front(stack) = <<>>
         /\ \A g : [stack EXCEPT ![Len(stack)] = g] = <<g>>
         /\ \A g, h \in SpecialType :
              Append([stack EXCEPT ![Len(stack)] = g], h) = <<g, h>>
<1>1. Len(stack) = 1 /\ stack[1] = f /\ stack \in Seq(SpecialType)
  OBVIOUS
<1>2. Front(stack) = <<>>
  BY <1>1 DEF Front
<1>3. ASSUME NEW g PROVE [stack EXCEPT ![Len(stack)] = g] = <<g>>
  BY <1>1
<1>4. ASSUME NEW g \in SpecialType, NEW h \in SpecialType PROVE Append(<<g>>, h) = <<g, h>>
  <2> DEFINE a == Append(<<g>>, h)
             b == <<g, h>>
  <2>1. <<g>> \in Seq(SpecialType)
    OBVIOUS
  <2>2. a \in Seq(SpecialType) /\ Len(a) = 2 /\ a[1] = g /\ a[2] = h
    BY <2>1
  <2>3. b \in Seq(SpecialType) /\ Len(b) = 2 /\ b[1] = g /\ b[2] = h
    OBVIOUS
  <2> HIDE DEF a, b
  <2>4. \A i \in 1..2 : a[i] = b[i]
    BY <2>2, <2>3
  <2>5. a = b
    BY <2>2, <2>3, <2>4, SeqSame
  <2> QED
    BY <2>5 DEF a, b
<1> QED
  BY <1>1, <1>2, <1>3, <1>4 DEF Top, Last

LEMMA TwoIs ==
  ASSUME NEW f \in SpecialType, NEW g \in SpecialType, stack = <<f, g>>
  PROVE  stack # <<>> /\ Top = g /\ Front(stack) = <<f>>
<1>1. Len(stack) = 2 /\ stack[2] = g /\ stack[1] = f
  OBVIOUS
<1>2. Front(stack) = <<f>>
  <2>1. stack \in Seq(SpecialType) /\ <<f>> \in Seq(SpecialType)
    OBVIOUS
  <2>2. Front(stack) = SubSeq(stack, 1, 1)
    BY <1>1 DEF Front
  <2>3. /\ SubSeq(stack, 1, 1) \in Seq(SpecialType) /\ Len(SubSeq(stack, 1, 1)) = 1
        /\ SubSeq(stack, 1, 1)[1] = f
    BY <2>1, <1>1
  <2>4. \A i \in 1..1 : i = 1
    OBVIOUS
  <2> QED
    BY <2>1, <2>2, <2>3, <2>4, SeqSame
<1> QED
  BY <1>1, <1>2 DEF Top, Last

LEMMA SpecialFrame ==
  ASSUME NEW op \in SpecialOps \cup {"del"}, NEW ph \in {"func", "dtor", "compare"}, NEW p \in Ptr
  PROVE  /\ Frame(op, ph, p) \in SpecialType
         /\ Frame(op, ph, p).op = op /\ Frame(op, ph, p).phase = ph /\ Frame(op, ph, p).p = p
         /\ Frame(op, ph, p).owed = {} /\ Frame(op, ph, p).seen = {}
  BY DEF Frame, SpecialType, Ptr

LEMMA SpecialAdvance ==
  ASSUME NEW f \in SpecialType, NEW p \in Ptr, NEW ph \in {"func", "dtor", "saved"}
  PROVE  LET f2 == Advance(f, p, ph) IN
         /\ f2 \in SpecialType /\ f2.p = p /\ f2.phase = IF p = NULL THEN "end" ELSE ph
         /\ f2.op = f.op /\ f2.seen = f.seen /\ f2.q = f.q
<1> DEFINE x  == IF p = NULL THEN "end" ELSE ph
           f2 == [f EXCEPT !.p = p, !.phase = x]
<1>1. x \in {"func", "dtor", "compare", "saved", "end"}
  OBVIOUS
<1>2. Advance(f, p, ph) = f2
  BY DEF Advance
<1> HIDE DEF x
<1>3. f2 \in SpecialType /\ f2.p = p /\ f2.phase = x
      /\ f2.op = f.op /\ f2.seen = f.seen /\ f2.q = f.q
  BY <1>1 DEF SpecialType
<1> HIDE DEF f2
<1> QED
  BY <1>2, <1>3 DEF x

LEMMA SpecialSeen ==
  ASSUME NEW f \in SpecialType, f.p \in Cells
  PROVE  /\ Seen(f) \in SpecialType /\ Seen(f).seen = f.seen \cup {f.p}
         /\ Seen(f).op = f.op /\ Seen(f).p = f.p
<1> DEFINE se == f.seen \cup {f.p}
<1>1. se \in SUBSET Cells
  BY DEF SpecialType
<1>2. Seen(f) = [f EXCEPT !.seen = se]
  BY DEF Seen, SpecialType
<1> HIDE DEF se
<1>3. Seen(f) \in SpecialType /\ Seen(f).seen = se /\ Seen(f).op = f.op /\ Seen(f).p = f.p
  BY <1>1, <1>2 DEF SpecialType
<1> QED
  BY <1>3 DEF se

(***************************************************************************)
(* Backwards.                                                              *)
(***************************************************************************)
LEMMA FindDelOwn ==
  ASSUME NEW s, NEW L, Sound(s, L), NEW p \in L, NoClash
  PROVE  FindDel(s, s.mem[p].key) = p
<1> DEFINE k == s.mem[p].key
           w == Chain(s, k.h)
           hits == {i \in DOMAIN w : /\ s.mem[w[i]].key.h = k.h
                                     /\ s.mem[w[i]].key.name = 0 \/ s.mem[w[i]].key.name = k.name}
<1>1. /\ k \in AllKeys /\ k.h \in Nat
      /\ \A c \in L : s.mem[c].key \in AllKeys /\ (s.mem[c].key = k => c = p)
  BY KeyIs DEF Sound, Keyed
<1>2. FindDel(s, k) = IF hits = {} THEN NULL ELSE w[Min(hits)]
  BY DEF FindDel, First
<1> HIDE DEF k
<1>3. w \in Seq(L) /\ p \in Range(w)
  <2>1. w \in Seq(L) /\ Range(w) = Of(s, L, Slot(s, k.h))
    BY <1>1, ChainIs
  <2>2. p \in Of(s, L, Slot(s, k.h))
    BY DEF Of, k
  <2> QED
    BY <2>1, <2>2
<1>4. hits \subseteq Nat
  BY <1>3
<1>5. ASSUME NEW i \in hits PROVE w[i] = p
  <2> DEFINE j == s.mem[w[i]].key
  <2>1. /\ w[i] \in L /\ j.h = k.h /\ (j.name = 0 \/ j.name = k.name)
    BY <1>3
  <2>2. j \in AllKeys /\ (j = k => w[i] = p)
    BY <2>1, <1>1
  <2>3. j \in [h : Nat, name : Nat] /\ k \in [h : Nat, name : Nat]
    BY <2>2, <1>1, KeyIs
  <2> HIDE DEF j
  <2>4. j.name = k.name
    BY <2>1, <2>2, <1>1 DEF NoClash
  <2>5. j = k
    BY <2>1, <2>3, <2>4
  <2> QED
    BY <2>2, <2>5
<1>6. hits # {}
  <2>1. PICK i \in DOMAIN w : w[i] = p
    BY <1>3 DEF Range
  <2>2. s.mem[w[i]].key = k
    BY <2>1 DEF k
  <2> QED
    BY <2>2
<1>7. Min(hits) \in hits
  BY <1>4, <1>6, MinIn
<1> HIDE DEF hits
<1> QED
  BY <1>2, <1>5, <1>6, <1>7 DEF k

\* The previous element, or none: the function may say stop.
LEMMA BackIs ==
  ASSUME NEW s, NEW s2, NEW L, NEW K \in SUBSET L, Sound(s, L), NEW f \in SpecialType,
         f.op = "reverse", f.p \in L, NEW B \in SUBSET L, Behind(s, f, B), B \ {f.p} \subseteq K,
         \A c \in B \ {f.p} : s2.mem[c]["pListLast"] = s.mem[c]["pListLast"],
         s2 = s \/ Past(s, s2, L, f.p),
         NEW q \in {s.mem[f.p]["pListLast"], NULL}, NEW ph \in {"func", "saved"}
  PROVE  LET f2 == Advance(Seen(f), q, ph) IN
         /\ f2 \in SpecialType /\ ReverseOK(s2, K, f2) /\ f2.phase \in {ph, "end"}
<1> DEFINE f2 == Advance(Seen(f), q, ph)
           p  == f.p
           C  == B \ {p}
<1>1. /\ L \subseteq Cells /\ NULL \notin L /\ p \in L
      /\ \A c \in L : /\ s.mem[c]["pListNext"] \in L \cup {NULL}
                      /\ s.mem[c]["pListLast"] \in L \cup {NULL}
                      /\ s.mem[c]["pListNext"] # NULL => s.mem[s.mem[c]["pListNext"]]["pListLast"] = c
                      /\ s.mem[c]["pListLast"] # NULL => s.mem[s.mem[c]["pListLast"]]["pListNext"] = c
  BY NotNull DEF Sound, Line, ListOf
<1>2. /\ p \in B /\ B \cap f.seen = {} /\ s.mem[p]["pListNext"] \notin B
      /\ \A c \in B : s.mem[c]["pListLast"] \in B \cup {NULL}
  BY DEF Behind
<1>3. q \in Ptr
  BY <1>1 DEF Ptr
<1>4. Seen(f) \in SpecialType /\ Seen(f).seen = f.seen \cup {p} /\ Seen(f).op = f.op
  BY <1>1, SpecialSeen
<1>5. /\ f2 \in SpecialType /\ f2.p = q /\ f2.phase = IF q = NULL THEN "end" ELSE ph
      /\ f2.op = "reverse" /\ f2.seen = f.seen \cup {p}
  BY <1>3, <1>4, SpecialAdvance
<1> HIDE DEF f2
<1>6. q = NULL => ReverseOK(s2, K, f2)
  BY <1>5 DEF ReverseOK
<1>7. ASSUME q # NULL PROVE ReverseOK(s2, K, f2)
  <2>1. q = s.mem[p]["pListLast"] /\ q \in L /\ s.mem[q]["pListNext"] = p /\ q \in B
    BY <1>1, <1>2, <1>7
  <2>2. q # p
    BY <2>1, <1>2
  <2>3. q \in C /\ C \cap f2.seen = {} /\ C \in SUBSET K
    BY <2>1, <2>2, <1>2, <1>5
  <2>4. \A c \in C : s.mem[c]["pListLast"] \in C \cup {NULL}
    <3> SUFFICES ASSUME NEW c \in C PROVE s.mem[c]["pListLast"] # p
      BY <1>2
    <3>1. s.mem[c]["pListLast"] = p => s.mem[p]["pListNext"] = c
      BY <1>1
    <3> QED
      BY <3>1, <1>2
  <2>5. s2.mem[q]["pListNext"] \notin C
    <3>1. CASE s2 = s
      BY <3>1, <2>1
    <3>2. CASE Past(s, s2, L, p)
      <4>1. s2.mem[q]["pListNext"] = s.mem[p]["pListNext"]
        BY <3>2, <2>1, <2>2 DEF Past
      <4> QED
        BY <4>1, <1>2
    <3> QED
      BY <3>1, <3>2
  <2>6. Behind(s2, f2, C)
    BY <2>3, <2>4, <2>5, <1>5 DEF Behind
  <2> QED
    BY <2>3, <2>6, <1>5, <1>7 DEF ReverseOK
<1> QED
  BY <1>6, <1>7, <1>5 DEF f2

LEMMA ReverseStartInv ==
  ASSUME IInv, Alone, stack = <<>>, ApplyStart("reverse")
  PROVE  Reversing'
<1>1. PICK L \in SUBSET Cells : Base(t, L)
  BY BaseIs
<1> DEFINE p  == t.pListTail
           n  == t.nApplyCount + 1
           s2 == [t EXCEPT !.nApplyCount = n]
           g  == Frame("reverse", "func", p)
           e  == [g EXCEPT !.owed = L]
           f  == Advance(e, p, "func")
<1>2. Sound(t, L) /\ t \in Table
  BY <1>1, SoundCells DEF Base
<1>3. Range(List(t)) = L
  BY <1>2, ListIs DEF Walks
<1>4. /\ t' = [t EXCEPT !.nApplyCount = @ + 1] /\ fault' = fault
      /\ stack' = Append(stack, f)
  BY <1>3 DEF ApplyStart, Push
<1>5. t' = s2 /\ n \in Int /\ stack' = <<f>>
  BY <1>2, <1>4 DEF Table
<1>6. NoClash /\ fault' = FALSE
  BY <1>4 DEF IInv, ApplyStart, May, Alone
<1> HIDE DEF n
<1>7. Sound(s2, L) /\ Stays(t, s2, L)
  BY <1>2, <1>5, ApplyCountIs
<1> HIDE DEF s2
<1>8. Base(s2, L)
  BY <1>1, <1>7 DEF Base, Stays
<1>9. /\ p \in Ptr /\ p \in L \cup {NULL} /\ (p # NULL => t.mem[p]["pListNext"] = NULL)
      /\ NULL \notin L
      /\ \A c \in L : s2.mem[c]["pListLast"] \in L \cup {NULL}
  BY <1>2, <1>7, NotNull DEF Table, Sound, Line, Ends, ListOf
<1>10. g \in SpecialType /\ g.op = "reverse" /\ g.seen = {}
  BY <1>9, SpecialFrame DEF SpecialOps
<1> HIDE DEF g, p
<1>11. e \in SpecialType /\ e.op = "reverse" /\ e.seen = {}
  BY <1>10 DEF SpecialType
<1> HIDE DEF e
<1>12. /\ f \in SpecialType /\ f.p = p /\ f.phase = IF p = NULL THEN "end" ELSE "func"
       /\ f.op = "reverse" /\ f.seen = {}
  BY <1>9, <1>11, SpecialAdvance
<1> HIDE DEF f
<1>13. p # NULL => Behind(s2, f, L)
  BY <1>7, <1>9, <1>12 DEF Behind, Stays, Links
<1>14. ReverseOK(s2, L, f)
  BY <1>12, <1>13 DEF ReverseOK
<1> QED
  BY <1>5, <1>6, <1>8, <1>12, <1>14 DEF Reversing

LEMMA ReverseKeepInv ==
  ASSUME Reversing, ReverseKeep
  PROVE  Reversing'
<1>1. Top.op = "reverse" /\ Top.phase = "func"
  BY DEF ReverseKeep, Running
<1>2. PICK L \in SUBSET Cells, f \in SpecialType :
        ReverseOK(t, L, f) /\ stack = <<f>> /\ Base(t, L)
  BY <1>1, TwoIs DEF Reversing
<1>3. Top = f /\ \A g : [stack EXCEPT ![Len(stack)] = g] = <<g>>
  BY <1>2, OneIs
<1>4. PICK p \in {t.mem[f.p]["pListLast"], NULL} :
        stack' = <<Advance(Seen(f), p, "func")>> /\ t' = t /\ fault' = ~ ({f.p} \subseteq t.alive)
  BY <1>3 DEF ReverseKeep, Retop, Touch
<1> DEFINE f2 == Advance(Seen(f), p, "func")
<1>5. PICK B \in SUBSET L : Behind(t, f, B)
  BY <1>1, <1>2, <1>3 DEF ReverseOK
<1>6. Sound(t, L) /\ f.p \in L /\ f.op = "reverse" /\ L = t.alive
  BY <1>2, <1>5 DEF Base, ReverseOK, Behind
<1>7. f2 \in SpecialType /\ ReverseOK(t, L, f2)
  BY <1>5, <1>6, BackIs
<1> HIDE DEF f2
<1>8. stack' = <<f2>> /\ fault' = FALSE
  BY <1>4, <1>6 DEF f2
<1>9. NoClash
  BY DEF Reversing
<1> QED
  BY <1>2, <1>4, <1>7, <1>8, <1>9 DEF Reversing

LEMMA ReverseRemoveInv ==
  ASSUME Reversing, ReverseRemove
  PROVE  Reversing'
<1>1. Top.op = "reverse" /\ Top.phase = "func"
  BY DEF ReverseRemove, Running
<1>2. PICK L \in SUBSET Cells, f \in SpecialType :
        ReverseOK(t, L, f) /\ stack = <<f>> /\ Base(t, L)
  BY <1>1, TwoIs DEF Reversing
<1>3. /\ Top = f
      /\ \A g, h \in SpecialType : Append([stack EXCEPT ![Len(stack)] = g], h) = <<g, h>>
  BY <1>2, OneIs
<1>4. PICK B \in SUBSET L : Behind(t, f, B)
  BY <1>1, <1>2, <1>3 DEF ReverseOK
<1>5. /\ Sound(t, L) /\ f.p \in L /\ f.op = "reverse" /\ L = t.alive /\ L \subseteq Cells
      /\ f.p # NULL
  BY <1>2, <1>4, NotNull DEF Base, ReverseOK, Behind
<1> DEFINE p  == f.p
           k  == t.mem[p].key
           s2 == Unlink(t, p)
           K  == L \ {p}
           g  == Frame("del", "dtor", p)
<1>6. NoClash
  BY DEF Reversing
<1>7. FindDel(t, k) = p
  BY <1>5, <1>6, FindDelOwn
<1>8. PICK q \in {t.mem[p]["pListLast"], NULL} :
        /\ stack' = Append([stack EXCEPT ![Len(stack)] = Advance(Seen(f), q, "saved")], g)
        /\ t' = s2
        /\ fault' = ~ ({p} \cup Range(Chain(t, k.h)) \cup Around(p) \subseteq t.alive)
  BY <1>3, <1>5, <1>7 DEF ReverseRemove, Touch
<1> DEFINE f2 == Advance(Seen(f), q, "saved")
<1>9. k.h \in Nat
  BY <1>5, SoundCells, HashNat
<1> HIDE DEF p
<1>10. /\ Sound(s2, K) /\ Past(t, s2, L, p)
       /\ Keeps(t, s2, {"arBuckets", "pListHead", "pListTail", "pInternalPointer"}, Links)
  BY <1>5, UnlinkIs DEF p
<1> HIDE DEF s2
<1>11. s2.alive = t.alive /\ s2.nNumOfElements = t.nNumOfElements
  BY <1>10 DEF Keeps, Fields
<1>12. \A c \in B \ {p} : s2.mem[c]["pListLast"] = t.mem[c]["pListLast"]
  <2> SUFFICES ASSUME NEW c \in B \ {p} PROVE c # t.mem[p]["pListNext"]
    BY <1>10 DEF Past
  <2> QED
    BY <1>4 DEF Behind, p
<1>13. /\ f2 \in SpecialType /\ ReverseOK(s2, K, f2) /\ f2.phase \in {"saved", "end"}
  <2>1. B \ {p} \subseteq K /\ K \in SUBSET L
    OBVIOUS
  <2> HIDE DEF K
  <2>2. /\ Sound(t, L) /\ f.op = "reverse" /\ f.p \in L /\ Behind(t, f, B)
        /\ B \ {f.p} \subseteq K /\ Past(t, s2, L, f.p)
        /\ \A c \in B \ {f.p} : s2.mem[c]["pListLast"] = t.mem[c]["pListLast"]
        /\ q \in {t.mem[f.p]["pListLast"], NULL}
    BY <2>1, <1>4, <1>5, <1>8, <1>10, <1>12 DEF p
  <2>3. /\ f \in SpecialType /\ B \in SUBSET L /\ K \in SUBSET L
        /\ s2 = t \/ Past(t, s2, L, f.p)
    BY <1>2, <1>4, <2>1, <2>2
  <2>5. LET f3 == Advance(Seen(f), q, "saved") IN
        f3 \in SpecialType /\ ReverseOK(s2, K, f3) /\ f3.phase \in {"saved", "end"}
    <3>1. "saved" \in {"func", "saved"}
      OBVIOUS
    <3> HIDE DEF f2
    <3> DEFINE pp == t.mem[f.p]["pListLast"]
               mm == s2.mem
    <3> QED
      BY ONLY <2>2, <2>3, <3>1, BackIs
  <2>4. /\ f2 \in SpecialType /\ ReverseOK(s2, K, f2)
        /\ f2.phase = "saved" \/ f2.phase = "end"
    BY <2>5
  <2> QED
    BY <2>4
<1> HIDE DEF f2
<1>14. g \in SpecialType /\ g.op = "del" /\ g.phase = "dtor" /\ g.p = p
  BY <1>5, SpecialFrame DEF Ptr, p
<1> HIDE DEF g
<1>15. stack' = <<f2, g>>
  BY <1>3, <1>8, <1>13, <1>14 DEF f2
<1>16. fault' = FALSE
  <2>1. Range(Chain(t, k.h)) \subseteq t.alive /\ Around(p) \subseteq t.alive
    BY <1>5, <1>9, ChainIn, AroundIn DEF p
  <2> QED
    BY <2>1, <1>5, <1>8 DEF p
<1>17. t'.alive = K \cup {p} /\ p \notin K /\ t'.nNumOfElements = Cardinality(K) + 1
  <2>1. IsFiniteSet(L) /\ Cardinality(L) \in Nat /\ Cardinality(K) = Cardinality(L) - 1
    <3>1. p \in L /\ p \in Cells
      BY <1>5 DEF p
    <3> QED
      BY <3>1, CountAdd
  <2> QED
    BY <2>1, <1>2, <1>5, <1>8, <1>11 DEF Base, p
<1>18. K \in SUBSET Cells /\ f2.phase # "func"
  BY <1>13
<1> HIDE DEF K, k
<1> QED
  BY <1>6, <1>8, <1>10, <1>13, <1>14, <1>15, <1>16, <1>17, <1>18 DEF Reversing

LEMMA ReverseNextInv ==
  ASSUME Reversing, ReverseNext
  PROVE  Reversing'
<1>1. Top.op = "reverse" /\ Top.phase = "saved"
  BY DEF ReverseNext, Running
<1>2. PICK L \in SUBSET Cells, f \in SpecialType :
        ReverseOK(t, L, f) /\ stack = <<f>> /\ Base(t, L)
  BY <1>1, TwoIs DEF Reversing
<1>3. Top = f /\ \A g : [stack EXCEPT ![Len(stack)] = g] = <<g>>
  BY <1>2, OneIs
<1> DEFINE f2 == [f EXCEPT !.phase = "func"]
<1>4. stack' = <<f2>> /\ t' = t /\ fault' = fault
  BY <1>3 DEF ReverseNext, Retop
<1>5. /\ f2 \in SpecialType /\ f2.op = f.op /\ f2.p = f.p /\ f2.seen = f.seen
      /\ f2.phase = "func"
  BY DEF SpecialType
<1> HIDE DEF f2
<1>6. ReverseOK(t, L, f2)
  BY <1>1, <1>2, <1>3, <1>5 DEF ReverseOK, Behind
<1>7. NoClash /\ fault = FALSE
  BY DEF Reversing
<1> QED
  BY <1>2, <1>4, <1>5, <1>6, <1>7 DEF Reversing

LEMMA ReverseReturnInv ==
  ASSUME Reversing, DeleteReturn
  PROVE  Reversing'
<1>1. Top.op = "del"
  BY DEF DeleteReturn, Running
<1>2. PICK L \in SUBSET Cells, f \in SpecialType, g \in SpecialType :
        /\ ReverseOK(t, L, f) /\ stack = <<f, g>> /\ f.phase # "func"
        /\ g.p \notin L /\ Sound(t, L) /\ t.alive = L \cup {g.p}
        /\ t.nNumOfElements = Cardinality(L) + 1
  BY <1>1, OneIs DEF Reversing, ReverseOK
<1>3. Top = g /\ Front(stack) = <<f>>
  BY <1>2, TwoIs
<1> DEFINE s2 == Release(t, g.p)
<1>4. t' = s2 /\ stack' = <<f>> /\ fault' = ~ ({g.p} \subseteq t.alive)
  BY <1>3 DEF DeleteReturn, Touch, Pop
<1>5. g.p \in Cells
  BY <1>2, SoundCells
<1>6. /\ Sound(s2, L) /\ s2.alive = t.alive \ {g.p}
      /\ s2.nNumOfElements = t.nNumOfElements - 1
      /\ \A c \in L : s2.mem[c] = t.mem[c]
  BY <1>2, <1>5, ReleaseIs
<1> HIDE DEF s2
<1>7. Base(s2, L)
  <2>1. Cardinality(L) \in Nat
    BY <1>5, CountAdd
  <2> QED
    BY <2>1, <1>2, <1>6 DEF Base
<1>8. ReverseOK(s2, L, f)
  BY <1>2, <1>6 DEF ReverseOK, Behind
<1>9. NoClash /\ fault' = FALSE
  BY <1>2, <1>4 DEF Reversing
<1> QED
  BY <1>2, <1>4, <1>7, <1>8, <1>9 DEF Reversing

LEMMA ReverseEndInv ==
  ASSUME Reversing, ApplyEnd
  PROVE  IInv'
<1>1. Top.op \in {"apply", "reverse"} /\ Top.phase = "end"
  BY DEF ApplyEnd, Running
<1>2. PICK L \in SUBSET Cells, f \in SpecialType : stack = <<f>> /\ Base(t, L)
  BY <1>1, TwoIs DEF Reversing
<1>3. Front(stack) = <<>>
  BY <1>2, OneIs
<1> DEFINE n  == t.nApplyCount - 1
           s2 == [t EXCEPT !.nApplyCount = n]
<1>4. Sound(t, L) /\ t \in Table
  BY <1>2, SoundCells DEF Base
<1>5. t' = s2 /\ n \in Int /\ stack' = <<>> /\ fault' = FALSE
  BY <1>3, <1>4 DEF ApplyEnd, Pop, Table, Reversing
<1> HIDE DEF n
<1>6. Sound(s2, L) /\ Stays(t, s2, L)
  BY <1>4, <1>5, ApplyCountIs
<1> HIDE DEF s2
<1>7. Base(t', L)
  BY <1>2, <1>5, <1>6 DEF Base, Stays
<1> QED
  BY <1>5, <1>7, BaseInv

LEMMA ReversingStep ==
  ASSUME Alone, Reversing, Next
  PROVE  IInv' \/ Reversing'
<1>1. stack # <<>> /\ Top.op \in {"reverse", "del"}
  BY OneIs, TwoIs DEF Reversing, ReverseOK
<1>2. Return
  BY <1>1, OnlyReturns
<1>3. ~ (UpdateReturn \/ ApplyKeep \/ ApplyRemove \/ ApplyDeleted \/ CleanNext \/ CleanEnd
         \/ SortEnd)
  BY <1>1 DEF UpdateReturn, ApplyKeep, ApplyRemove, ApplyDeleted, CleanNext, CleanEnd,
              SortEnd, Running
<1> QED
  BY <1>2, <1>3, ReverseKeepInv, ReverseRemoveInv, ReverseNextInv, ReverseReturnInv,
     ReverseEndInv DEF Return

(***************************************************************************)
(* Cleaning and destroying.                                                *)
(***************************************************************************)
LEMMA CleanAtIs ==
  ASSUME t \in Table, NEW f \in SpecialType, NEW p \in Ptr,
         p # NULL => t.mem[p]["pListNext"] \in Ptr
  PROVE  LET f2 == CleanAt(f, p) IN
         /\ f2 \in SpecialType /\ f2.p = p /\ f2.phase = IF p = NULL THEN "end" ELSE "dtor"
         /\ f2.op = f.op /\ (p # NULL => f2.q = t.mem[p]["pListNext"])
<1> DEFINE r  == IF p = NULL THEN NULL ELSE t.mem[p].pListNext
           e  == [f EXCEPT !.q = r]
           f2 == CleanAt(f, p)
<1>1. f2 = Advance(e, p, "dtor")
  BY DEF CleanAt
<1>2. r \in Ptr /\ (p # NULL => r = t.mem[p]["pListNext"])
  BY DEF Ptr
<1> HIDE DEF r
<1>3. e \in SpecialType /\ e.op = f.op /\ e.q = r
  BY <1>2 DEF SpecialType
<1> HIDE DEF e
<1>4. LET f3 == Advance(e, p, "dtor") IN
      /\ f3 \in SpecialType /\ f3.p = p /\ f3.phase = IF p = NULL THEN "end" ELSE "dtor"
      /\ f3.op = e.op /\ f3.seen = e.seen /\ f3.q = e.q
  <2>1. "dtor" \in {"func", "dtor", "saved"}
    OBVIOUS
  <2> QED
    BY <2>1, <1>3, SpecialAdvance
<1> HIDE DEF f2
<1> QED
  BY <1>1, <1>2, <1>3, <1>4 DEF f2

LEMMA CleanUpStart ==
  ASSUME IInv, Alone, stack = <<>>, NEW op \in {"clean", "destroy"}, CleanStart(op)
  PROVE  CleaningUp'
<1>1. PICK L \in SUBSET Cells : Base(t, L)
  BY BaseIs
<1> DEFINE p  == t.pListHead
           g  == Frame(op, "dtor", NULL)
           f  == CleanAt(g, p)
<1>2. Sound(t, L) /\ t \in Table /\ t.alive = L
  BY <1>1, SoundCells DEF Base
<1>3. t' = t /\ fault' = FALSE /\ stack' = <<f>>
  BY DEF CleanStart, Push, IInv
<1>4. g \in SpecialType /\ g.op = op
  BY SpecialFrame DEF SpecialOps, Ptr
<1>5. /\ p \in Ptr /\ p \in L \cup {NULL} /\ NULL \notin L
      /\ \A c \in L : /\ t.mem[c]["pListNext"] \in L \cup {NULL}
                      /\ t.mem[c]["pListLast"] \in L \cup {NULL}
                      /\ t.mem[c]["pListLast"] = NULL <=> c = p
  BY <1>2, NotNull DEF Table, Sound, Line, ListOf
<1>6. p # NULL => t.mem[p]["pListNext"] \in Ptr
  BY <1>5 DEF Ptr
<1> HIDE DEF g, p
<1>7. /\ f \in SpecialType /\ f.p = p /\ f.phase = IF p = NULL THEN "end" ELSE "dtor"
      /\ f.op = op /\ (p # NULL => f.q = t.mem[p]["pListNext"])
  BY <1>2, <1>4, <1>5, <1>6, CleanAtIs
<1> HIDE DEF f
<1>8. [t EXCEPT !.alive = L] = t
  BY <1>2 DEF Table
<1>9. CleanOK(t, L, f)
  BY <1>2, <1>5, <1>7, <1>8 DEF CleanOK
<1> QED
  BY <1>3, <1>7, <1>9 DEF CleaningUp

LEMMA CleanNextInv ==
  ASSUME CleaningUp, CleanNext
  PROVE  CleaningUp'
<1>1. PICK L \in SUBSET Cells, f \in SpecialType : stack = <<f>> /\ CleanOK(t, L, f)
  BY DEF CleaningUp
<1>2. Top = f /\ \A g : [stack EXCEPT ![Len(stack)] = g] = <<g>>
  BY <1>1, OneIs
<1> DEFINE p  == f.p
           q  == f.q
           al == t.alive \ {p}
           s2 == [t EXCEPT !.alive = al]
           f2 == CleanAt(f, q)
<1>3. /\ f.phase = "dtor" /\ t' = s2 /\ stack' = <<f2>>
      /\ fault' = ~ ({p, q} \ {NULL} \subseteq t.alive)
  BY <1>2 DEF CleanNext, Running, Retop, Touch
<1>4. /\ t \in Table /\ t.alive \subseteq L /\ Sound([t EXCEPT !.alive = L], L)
      /\ p \in t.alive /\ p # NULL /\ q = t.mem[p]["pListNext"]
      /\ t.mem[p]["pListLast"] \notin t.alive
      /\ \A c \in t.alive : /\ t.mem[c]["pListNext"] \in t.alive \cup {NULL}
                            /\ t.mem[c]["pListLast"] \in t.alive \/ c = p
  BY <1>1, <1>3 DEF CleanOK
<1>5. /\ NULL \notin t.alive /\ t.alive \subseteq Cells
      /\ \A c \in t.alive :
           /\ t.mem[c]["pListNext"] # NULL => t.mem[t.mem[c]["pListNext"]]["pListLast"] = c
           /\ t.mem[c]["pListLast"] # NULL => t.mem[t.mem[c]["pListLast"]]["pListNext"] = c
  <2> DEFINE s3 == [t EXCEPT !.alive = L]
  <2>1. s3.mem = t.mem
    BY <1>4 DEF Table
  <2> HIDE DEF s3
  <2>2. ListOf(s3.mem, L, s3.pListHead, "pListNext", "pListLast")
    BY <1>4 DEF s3, Sound, Line
  <2> QED
    BY <2>1, <2>2, <1>4, NotNull DEF ListOf
<1>6. q \in al \cup {NULL}
  BY <1>4, <1>5
<1>7. \A c \in al : /\ t.mem[c]["pListNext"] \in al \cup {NULL}
                    /\ t.mem[c]["pListLast"] \in al \/ c = q
  <2> SUFFICES ASSUME NEW c \in al
               PROVE  /\ t.mem[c]["pListNext"] \in al \cup {NULL}
                      /\ t.mem[c]["pListLast"] \in al \/ c = q
    OBVIOUS
  <2>1. t.mem[c]["pListNext"] # p
    BY <1>4, <1>5
  <2>2. t.mem[c]["pListLast"] \in t.alive
    BY <1>4
  <2>3. t.mem[c]["pListLast"] = p => c = q
    BY <1>4, <1>5
  <2> QED
    BY <2>1, <2>2, <2>3, <1>4
<1>8. q # NULL => t.mem[q]["pListLast"] = p /\ t.mem[q]["pListNext"] \in al \cup {NULL}
  BY <1>4, <1>5, <1>6, <1>7
<1>9. /\ s2 \in Table /\ s2.mem = t.mem /\ s2.alive = al /\ al \subseteq L
      /\ [s2 EXCEPT !.alive = L] = [t EXCEPT !.alive = L]
  BY <1>4 DEF Table
<1>10. q \in Ptr /\ (q # NULL => t.mem[q]["pListNext"] \in Ptr)
  BY <1>5, <1>6, <1>8 DEF Ptr
<1> HIDE DEF al, q, s2
<1>11. /\ f2 \in SpecialType /\ f2.p = q /\ f2.phase = IF q = NULL THEN "end" ELSE "dtor"
       /\ f2.op = f.op /\ (q # NULL => f2.q = t.mem[q]["pListNext"])
  <2> HIDE DEF f2
  <2>1. LET f3 == CleanAt(f, q) IN
        /\ f3 \in SpecialType /\ f3.p = q /\ f3.phase = IF q = NULL THEN "end" ELSE "dtor"
        /\ f3.op = f.op /\ (q # NULL => f3.q = t.mem[q]["pListNext"])
    BY <1>4, <1>10, CleanAtIs
  <2> QED
    BY <2>1 DEF f2
<1> HIDE DEF f2
<1>12. CleanOK(s2, L, f2)
  <2>1. f2.op \in {"clean", "destroy"}
    BY <1>1, <1>11 DEF CleanOK
  <2>2. q # NULL => t.mem[q]["pListLast"] \notin al
    BY <1>8 DEF al
  <2> QED
    BY <2>1, <2>2, <1>4, <1>6, <1>7, <1>9, <1>11 DEF CleanOK
<1>13. fault' = FALSE
  BY <1>3, <1>4, <1>6 DEF al
<1> QED
  BY <1>3, <1>11, <1>12, <1>13 DEF CleaningUp

\* The table that zend_hash_clean() leaves.
Reset(s) ==
  [s EXCEPT !.mem = Empty.mem, !.arBuckets = [i \in DOMAIN @ |-> NULL],
            !.pListHead = NULL, !.pListTail = NULL, !.pInternalPointer = NULL,
            !.nNumOfElements = 0, !.nNextFreeElement = 0]

LEMMA ResetIs ==
  ASSUME NEW s \in Table, s.alive = {}
  PROVE  Base(Reset(s), {}) /\ Reset(s).nNextFreeElement = 0
<1> DEFINE mm == [c \in Cells |-> NoBucket]
           b  == Bare(s)
           s2 == [b EXCEPT !.mem = mm, !.pListHead = NULL, !.pListTail = NULL,
                           !.pInternalPointer = NULL, !.nNumOfElements = 0,
                           !.nNextFreeElement = 0]
<1>1. mm \in [Cells -> Bucket] /\ Empty.mem = mm
  BY NoBucketIs DEF Empty
<1>2. b \in Table /\ Chained(b, {}) /\ b.alive = {}
  BY BareIs DEF Keeps, Fields
<1> DEFINE ar == [i \in DOMAIN s.arBuckets |-> NULL]
<1>3. Reset(s) = s2
  <2>1. b = [s EXCEPT !.arBuckets = ar]
    BY DEF Bare, Table
  <2>2. Reset(s) = [s EXCEPT !.mem = mm, !.arBuckets = ar, !.pListHead = NULL,
                             !.pListTail = NULL, !.pInternalPointer = NULL,
                             !.nNumOfElements = 0, !.nNextFreeElement = 0]
    BY <1>1 DEF Reset
  <2> HIDE DEF mm, ar, b
  <2> QED
    BY <2>1, <2>2 DEF Table
<1> HIDE DEF mm, b
<1>4. /\ s2 \in Table /\ s2.arBuckets = b.arBuckets /\ s2.alive = {} /\ s2.pListHead = NULL
      /\ s2.pListTail = NULL /\ s2.pInternalPointer = NULL /\ s2.nNumOfElements = 0
      /\ s2.nNextFreeElement = 0
  <2>1. NULL \in Ptr /\ 0 \in Int /\ 0 \in Nat
    BY DEF Ptr
  <2>2. s2 = [mem |-> mm, alive |-> b.alive, arBuckets |-> b.arBuckets, pListHead |-> NULL,
              pListTail |-> NULL, pInternalPointer |-> NULL, nNumOfElements |-> 0,
              nNextFreeElement |-> 0, nApplyCount |-> b.nApplyCount]
    <3>1. PICK x1 \in [Cells -> Bucket], x2 \in SUBSET Cells, x3 \in Slots, x4 \in Ptr,
               x5 \in Ptr, x6 \in Ptr, x7 \in Int, x8 \in Nat, x9 \in Int :
            b = [mem |-> x1, alive |-> x2, arBuckets |-> x3, pListHead |-> x4,
                 pListTail |-> x5, pInternalPointer |-> x6, nNumOfElements |-> x7,
                 nNextFreeElement |-> x8, nApplyCount |-> x9]
      BY <1>2 DEF Table
    <3>2. s2 = [[mem |-> x1, alive |-> x2, arBuckets |-> x3, pListHead |-> x4,
                 pListTail |-> x5, pInternalPointer |-> x6, nNumOfElements |-> x7,
                 nNextFreeElement |-> x8, nApplyCount |-> x9]
                 EXCEPT !.mem = mm, !.pListHead = NULL, !.pListTail = NULL,
                        !.pInternalPointer = NULL, !.nNumOfElements = 0,
                        !.nNextFreeElement = 0]
      BY <3>1
    <3>3. s2 = [mem |-> mm, alive |-> x2, arBuckets |-> x3, pListHead |-> NULL,
              pListTail |-> NULL, pInternalPointer |-> NULL, nNumOfElements |-> 0,
              nNextFreeElement |-> 0, nApplyCount |-> x9]
      <4> HIDE DEF s2
      <4> QED
        BY ONLY <3>2
    <3>4. b.alive = x2 /\ b.arBuckets = x3 /\ b.nApplyCount = x9
      BY ONLY <3>1
    <3> QED
      BY <3>3, <3>4
  <2>3. b.arBuckets \in Slots /\ b.nApplyCount \in Int /\ b.alive \in SUBSET Cells
    BY <1>2 DEF Table
  <2> HIDE DEF s2
  <2> QED
    BY <1>1, <1>2, <2>1, <2>2, <2>3 DEF Table
<1> HIDE DEF s2
<1>5. ListOf(s2.mem, {}, NULL, "pListNext", "pListLast") /\ Ends(s2.mem, {}, NULL, "pListNext")
  BY DEF ListOf, Acyclic, Ends
<1>6. Line(s2, {})
  BY <1>4, <1>5 DEF Line
<1>7. Chained(s2, {})
  BY <1>2, <1>4, ChainedIf
<1>8. Sound(s2, {})
  BY <1>4, <1>6, <1>7 DEF Sound, Keyed
<1> QED
  BY <1>3, <1>4, <1>8, FS_EmptySet DEF Base

LEMMA CleanedIs ==
  ASSUME CleaningUp, CleanEnd
  PROVE  Base(t', {}) /\ t'.nNextFreeElement = 0 /\ stack' = <<>> /\ fault' = FALSE
<1>1. PICK L \in SUBSET Cells, f \in SpecialType : stack = <<f>> /\ CleanOK(t, L, f)
  BY DEF CleaningUp
<1>2. Top = f /\ Front(stack) = <<>>
  BY <1>1, OneIs
<1> DEFINE s2 == IF f.op = "clean" THEN Reset(t) ELSE [Empty EXCEPT !.alive = t.alive]
<1>3. f.phase = "end" /\ t' = s2 /\ stack' = <<>> /\ fault' = FALSE
  BY <1>2 DEF CleanEnd, Running, Pop, CleaningUp, Reset
<1>4. f.p = NULL /\ t \in Table /\ t.alive \subseteq L
  BY <1>1, <1>3 DEF CleanOK
<1>5. t.alive = {}
  <2> SUFFICES ASSUME t.alive # {} PROVE FALSE
    OBVIOUS
  <2> DEFINE s3 == [t EXCEPT !.alive = L]
  <2>1. s3.mem = t.mem
    BY <1>4 DEF Table
  <2>2. Sound(s3, L)
    BY <1>1 DEF CleanOK
  <2> HIDE DEF s3
  <2>3. Acyclic(t.mem, L, "pListLast") /\ NULL \notin L
    BY <2>1, <2>2, NotNull DEF Sound, Line, ListOf
  <2>4. PICK d \in t.alive : t.mem[d]["pListLast"] \notin t.alive
    BY <2>3, <1>4 DEF Acyclic
  <2> QED
    BY <2>3, <2>4, <1>1, <1>4 DEF CleanOK
<1>6. Base(s2, {}) /\ s2.nNextFreeElement = 0
  <2>1. CASE f.op = "clean"
    BY <2>1, <1>4, <1>5, ResetIs
  <2>2. CASE f.op # "clean"
    <3> DEFINE e == [Empty EXCEPT !.alive = t.alive]
    <3>1. Sound(e, {}) /\ e.alive = {} /\ e.nNumOfElements = 0
      BY <1>5, EmptyIs
    <3>3. e.nNextFreeElement = 0
      BY DEF Empty
    <3> HIDE DEF e
    <3>2. Base(e, {})
      BY <3>1, FS_EmptySet DEF Base
    <3> QED
      BY <2>2, <3>2, <3>3 DEF e
  <2> QED
    BY <2>1, <2>2
<1> HIDE DEF s2
<1> QED
  BY <1>3, <1>6

LEMMA CleanUpEnd ==
  ASSUME CleaningUp, CleanEnd
  PROVE  IInv'
<1>1. {} \in SUBSET Cells
  OBVIOUS
<1> QED
  BY <1>1, CleanedIs, BaseInv

LEMMA CleaningStep ==
  ASSUME Alone, CleaningUp, Next
  PROVE  IInv' \/ CleaningUp'
<1>1. stack # <<>> /\ Top.op \in {"clean", "destroy"}
  BY OneIs DEF CleaningUp, CleanOK
<1>2. Return
  BY <1>1, OnlyReturns
<1>3. CleanNext \/ CleanEnd
  BY <1>1, <1>2 DEF Return, UpdateReturn, DeleteReturn, ApplyKeep, ApplyRemove, ApplyDeleted,
     ReverseKeep, ReverseRemove, ReverseNext, ApplyEnd, SortEnd, Running
<1> QED
  BY <1>3, CleanNextInv, CleanUpEnd

(***************************************************************************)
(* The order of the elements.                                              *)
(***************************************************************************)
\* There is only one way along a list.
LEMMA WalksOne ==
  ASSUME NEW s, NEW L, NEW head, NEW f, NEW g, NEW w, NEW w2,
         Walks(s, w, L, head, f, g), Walks(s, w2, L, head, f, g)
  PROVE  w2 = w
<1> DEFINE n == Cardinality(L)
           D == {i \in 1..n : w2[i] # w[i]}
<1>1. /\ w \in Seq(L) /\ w2 \in Seq(L) /\ Len(w) = n /\ Len(w2) = n /\ n \in Nat
      /\ Range(w) = L /\ Range(w2) = L
      /\ L # {} => 1 \in DOMAIN w /\ w[1] = head /\ 1 \in DOMAIN w2 /\ w2[1] = head
  BY FS_CardinalityType DEF Walks
<1>2. /\ DOMAIN w = 1..n /\ DOMAIN w2 = 1..n
      /\ \A i \in 1..n : /\ s.mem[w[i]][f] = IF i = n THEN NULL ELSE w[i + 1]
                         /\ s.mem[w2[i]][f] = IF i = n THEN NULL ELSE w2[i + 1]
  <2>1. DOMAIN w = 1..n /\ DOMAIN w2 = 1..n
    BY <1>1
  <2> QED
    BY <2>1, <1>1 DEF Walks
<1>3. D = {}
  <2> SUFFICES ASSUME D # {} PROVE FALSE
    OBVIOUS
  <2> HIDE DEF n
  <2>1. D \subseteq Nat
    OBVIOUS
  <2>2. PICK i \in D : \A j \in D : i <= j
    <3> HIDE DEF D
    <3> QED
      BY <2>1, Least
  <2>3. i \in 1..n /\ w2[i] # w[i]
    BY <2>2
  <2>4. L # {}
    BY <2>3, <1>1, <1>2 DEF Range
  <2>5. i # 1
    BY <2>3, <2>4, <1>1
  <2>6. i - 1 \in 1..n /\ i - 1 # n /\ i - 1 \notin D
    BY <2>2, <2>3, <2>5, <1>1
  <2>7. w2[i - 1] = w[i - 1]
    BY <2>6
  <2>8. s.mem[w[i - 1]][f] = w[i] /\ s.mem[w2[i - 1]][f] = w2[i]
    BY <2>3, <2>6, <1>1, <1>2
  <2> QED
    BY <2>3, <2>7, <2>8
<1>4. \A i \in 1..n : w2[i] = w[i]
  BY <1>3
<1> HIDE DEF n
<1>5. w \in [1..n -> L] /\ w2 \in [1..n -> L]
  BY <1>1, LenProperties
<1>6. w = [i \in 1..n |-> w[i]] /\ w2 = [i \in 1..n |-> w2[i]]
  BY <1>5
<1> QED
  BY <1>4, <1>6

\* The order of the elements L of s.
Order(s, L, w) == Walks(s, w, L, s.pListHead, "pListNext", "pListLast")

LEMMA OrderIs ==
  ASSUME NEW s, NEW L, Sound(s, L), NEW w, Order(s, L, w)
  PROVE  List(s) = w
<1>1. Walks(s, List(s), L, s.pListHead, "pListNext", "pListLast")
  BY ListIs
<1>2. Walks(s, w, L, s.pListHead, "pListNext", "pListLast")
  BY DEF Order
<1> HIDE DEF List
<1> QED
  BY <1>1, <1>2, WalksOne

LEMMA ListSound ==
  ASSUME NEW s, NEW L, Sound(s, L)
  PROVE  Order(s, L, List(s))
  BY ListIs DEF Order

(***************************************************************************)
(* Sorting.                                                                *)
(***************************************************************************)
\* The orders that a comparison function can give.
LEMMA OrdersAre ==
  ASSUME NEW L, IsFiniteSet(L), NEW w \in SetToSeqs(L)
  PROVE  /\ w \in Seq(L) /\ Len(w) = Cardinality(L) /\ Range(w) = L /\ IsInjective(w)
         /\ Cardinality(L) \in Nat /\ DOMAIN w = 1..Cardinality(L)
<1> DEFINE n == Cardinality(L)
<1>1. n \in Nat
  BY FS_CardinalityType
<1>2. w \in [1..n -> L] /\ \A i, j \in 1..n : i # j => w[i] # w[j]
  BY DEF SetToSeqs
<1>3. IsFiniteSet(1..n) /\ Cardinality(1..n) = n
  BY <1>1, FS_Interval
<1> HIDE DEF n
<1>4. w \in Injection(1..n, L)
  BY <1>2 DEF Injection, IsInjective
<1>5. w \in Surjection(1..n, L)
  BY <1>3, <1>4, FS_Injection DEF n
<1>6. Range(w) = L
  BY <1>2, <1>5 DEF Surjection, Range
<1>7. w \in Seq(L) /\ Len(w) = n
  BY <1>1, <1>2
<1>8. IsInjective(w)
  BY <1>2 DEF IsInjective
<1> QED
  BY <1>1, <1>2, <1>6, <1>7, <1>8 DEF n

\* Links in the order of a sequence make a list.
LEMMA InOrder ==
  ASSUME NEW s, NEW L \in SUBSET Cells, L # {}, NEW w,
         Walks(s, w, L, s.pListHead, "pListNext", "pListLast"),
         s.pListTail = w[Cardinality(L)], s.pInternalPointer \in L
  PROVE  Line(s, L)
<1> DEFINE n == Len(w)
           m == s.mem
<1>1. /\ w \in Seq(L) /\ Range(w) = L /\ IsInjective(w) /\ n = Cardinality(L)
      /\ n \in Nat /\ DOMAIN w = 1..n /\ w[1] = s.pListHead /\ 1 \in 1..n
  BY DEF Walks
<1>2. \A i \in 1..n : /\ w[i] \in L
                      /\ m[w[i]]["pListLast"] = IF i = 1 THEN NULL ELSE w[i - 1]
                      /\ m[w[i]]["pListNext"] = IF i = n THEN NULL ELSE w[i + 1]
  BY <1>1 DEF Walks
<1>3. \A c \in L : \E i \in 1..n : w[i] = c
  BY <1>1 DEF Range
<1>4. \A i, j \in 1..n : w[i] = w[j] => i = j
  BY <1>1 DEF IsInjective
<1>5. NULL \notin L
  BY NotNull
<1> HIDE DEF n, m
<1>6. ASSUME NEW c \in L
      PROVE  /\ m[c]["pListNext"] \in L \cup {NULL} /\ m[c]["pListLast"] \in L \cup {NULL}
             /\ m[c]["pListNext"] # NULL => m[m[c]["pListNext"]]["pListLast"] = c
             /\ m[c]["pListLast"] # NULL => m[m[c]["pListLast"]]["pListNext"] = c
             /\ m[c]["pListLast"] = NULL <=> c = s.pListHead
             /\ m[c]["pListNext"] = NULL <=> c = w[n]
  <2>1. PICK i \in 1..n : w[i] = c
    BY <1>3
  <2>2. /\ m[c]["pListLast"] = IF i = 1 THEN NULL ELSE w[i - 1]
        /\ m[c]["pListNext"] = IF i = n THEN NULL ELSE w[i + 1]
    BY <1>2, <2>1
  <2>3. i # 1 => i - 1 \in 1..n /\ i - 1 # n /\ (i - 1) + 1 = i
    BY <1>1, <2>1
  <2>4. i # n => i + 1 \in 1..n /\ i + 1 # 1 /\ (i + 1) - 1 = i
    BY <1>1, <2>1
  <2>5. m[c]["pListNext"] # NULL => i # n /\ m[m[c]["pListNext"]]["pListLast"] = c
    BY <1>2, <2>1, <2>2, <2>4
  <2>6. m[c]["pListLast"] # NULL => i # 1 /\ m[m[c]["pListLast"]]["pListNext"] = c
    BY <1>2, <2>1, <2>2, <2>3
  <2>7. m[c]["pListLast"] = NULL <=> c = s.pListHead
    BY <1>1, <1>2, <1>4, <1>5, <2>1, <2>2, <2>3
  <2>8. n \in 1..n /\ (m[c]["pListNext"] = NULL <=> c = w[n])
    BY <1>1, <1>2, <1>4, <1>5, <2>1, <2>2, <2>4
  <2> QED
    BY <1>2, <2>2, <2>3, <2>4, <2>5, <2>6, <2>7, <2>8
<1>7. Acyclic(m, L, "pListLast")
  <2> SUFFICES ASSUME NEW D \in SUBSET L, D # {} PROVE \E d \in D : m[d]["pListLast"] \notin D
    BY DEF Acyclic
  <2> DEFINE I == {i \in 1..n : w[i] \in D}
  <2>1. I # {} /\ I \subseteq Nat
    BY <1>3
  <2>2. PICK i \in I : \A j \in I : i <= j
    <3> HIDE DEF I
    <3> QED
      BY <2>1, Least
  <2>3. i # 1 => i - 1 \in 1..n /\ i - 1 \notin I
    BY <1>1, <2>2
  <2>4. NULL \notin D
    BY <1>5
  <2> QED
    BY <1>2, <2>2, <2>3, <2>4
<1>8. s.pListHead \in L /\ s.pListTail = w[n] /\ w[n] \in L
  BY <1>1, <1>2 DEF n
<1>9. ListOf(m, L, s.pListHead, "pListNext", "pListLast")
  BY <1>6, <1>7, <1>8 DEF ListOf
<1>10. Ends(m, L, s.pListTail, "pListNext")
  BY <1>5, <1>6, <1>8 DEF Ends
<1> QED
  BY <1>9, <1>10 DEF Line, m

LEMMA RelinkIs ==
  ASSUME NEW s, NEW L, Sound(s, L), L # {}, NEW w \in SetToSeqs(L)
  PROVE  LET s2 == Relink(s, w) IN
         /\ Sound(s2, L) /\ Order(s2, L, w) /\ s2.pInternalPointer = w[1]
         /\ Keeps(s, s2, {"pListHead", "pListTail", "pInternalPointer"},
                  {"pListNext", "pListLast"})
         /\ Len(w) = Cardinality(L) /\ DOMAIN w = 1..Cardinality(L)
<1> DEFINE n  == Cardinality(L)
           J(c)  == CHOOSE i \in DOMAIN w : w[i] = c
           b(c) == [s.mem[c] EXCEPT
                      !.pListLast = IF J(c) = 1 THEN NULL ELSE w[J(c) - 1],
                      !.pListNext = IF J(c) = Len(w) THEN NULL ELSE w[J(c) + 1]]
           mm == [c \in Cells |-> IF c \notin Range(w) THEN s.mem[c] ELSE b(c)]
           s2 == Relink(s, w)
<1>1. s \in Table /\ L \in SUBSET Cells /\ L \subseteq s.alive
  BY SoundCells DEF Sound
<1>2. IsFiniteSet(L)
  <2>1. IsFiniteSet(Cells)
    BY TableAssumption, FS_Interval DEF Cells
  <2> QED
    BY <2>1, <1>1, FS_Subset
<1>3. /\ w \in Seq(L) /\ Len(w) = n /\ Range(w) = L /\ IsInjective(w)
      /\ n \in Nat /\ DOMAIN w = 1..n
  BY <1>2, OrdersAre
<1>4. n # 0 /\ 1 \in 1..n /\ n \in 1..n
  BY <1>2, <1>3, FS_EmptySet
<1>5. s2 = [s EXCEPT !.mem = mm, !.pListHead = w[1], !.pListTail = w[n],
                     !.pInternalPointer = w[1]]
  BY <1>1, <1>3 DEF Relink, Last, Table
<1> HIDE DEF n
<1>6. ASSUME NEW i \in 1..n PROVE J(w[i]) = i /\ w[i] \in L
  BY <1>3 DEF IsInjective
<1>7. \A c \in L : \E i \in 1..n : w[i] = c
  BY <1>3 DEF Range
<1>8. ASSUME NEW c \in L
      PROVE  /\ b(c) \in Bucket /\ \A y \in {"key", "data", "pNext", "pLast"} : b(c)[y] = s.mem[c][y]
             /\ b(c).pListLast = IF J(c) = 1 THEN NULL ELSE w[J(c) - 1]
             /\ b(c).pListNext = IF J(c) = n THEN NULL ELSE w[J(c) + 1]
  <2>1. PICK i \in 1..n : w[i] = c
    BY <1>7
  <2>2. J(c) = i
    BY <1>6, <2>1
  <2> DEFINE x == IF J(c) = 1 THEN NULL ELSE w[J(c) - 1]
             y == IF J(c) = n THEN NULL ELSE w[J(c) + 1]
  <2>3. x \in Ptr
    <3>1. i # 1 => i - 1 \in 1..n
      BY <1>3
    <3> QED
      BY <1>1, <1>6, <2>2, <3>1 DEF Ptr
  <2>4. y \in Ptr
    <3>1. i # n => i + 1 \in 1..n
      BY <1>3
    <3> QED
      BY <1>1, <1>6, <2>2, <3>1 DEF Ptr
  <2>5. b(c) = [s.mem[c] EXCEPT !.pListLast = x, !.pListNext = y] /\ s.mem[c] \in Bucket
    BY <1>1, <1>3 DEF Table
  <2> HIDE DEF x, y, b
  <2>6. /\ b(c) \in Bucket /\ \A z \in {"key", "data", "pNext", "pLast"} : b(c)[z] = s.mem[c][z]
        /\ b(c).pListLast = x /\ b(c).pListNext = y
    BY <2>3, <2>4, <2>5 DEF Bucket
  <2> QED
    BY <2>6 DEF x, y
<1> HIDE DEF b, J
<1>9. /\ mm \in [Cells -> Bucket] /\ \A c \in L : mm[c] = b(c)
      /\ \A c \in Cells \ L : mm[c] = s.mem[c]
  BY <1>1, <1>3, <1>8 DEF Table
<1> HIDE DEF mm, s2
<1>10. w[1] \in L /\ w[n] \in L /\ w[1] \in Ptr /\ w[n] \in Ptr
  BY <1>1, <1>4, <1>6 DEF Ptr
<1>11. /\ s2 \in Table /\ s2.mem = mm /\ s2.pListHead = w[1] /\ s2.pListTail = w[n]
       /\ s2.pInternalPointer = w[1]
       /\ \A x \in Fields \ {"pListHead", "pListTail", "pInternalPointer"} : s2[x] = s[x]
  BY <1>1, <1>5, <1>9, <1>10 DEF Table, Fields
<1>12. \A c \in Cells : \A y \in {"key", "data", "pNext", "pLast"} : s2.mem[c][y] = s.mem[c][y]
  BY <1>8, <1>9, <1>11
<1>13. Keeps(s, s2, {"pListHead", "pListTail", "pInternalPointer"}, {"pListNext", "pListLast"})
  BY <1>11, <1>12 DEF Keeps, Links
<1>14. \A i \in DOMAIN w : /\ s2.mem[w[i]]["pListLast"] = IF i = 1 THEN NULL ELSE w[i - 1]
                           /\ s2.mem[w[i]]["pListNext"] = IF i = Len(w) THEN NULL ELSE w[i + 1]
  BY <1>3, <1>6, <1>8, <1>9, <1>11
<1>15. Order(s2, L, w)
  <2>1. L # {} => 1 \in DOMAIN w /\ w[1] = s2.pListHead
    BY <1>3, <1>4, <1>11
  <2>2. Len(w) = Cardinality(L)
    BY <1>3 DEF n
  <2> QED
    BY <1>2, <1>3, <1>14, <2>1, <2>2 DEF Order, Walks
<1>16. Line(s2, L)
  <2>1. Walks(s2, w, L, s2.pListHead, "pListNext", "pListLast") /\ s2.pListTail = w[Cardinality(L)]
        /\ s2.pInternalPointer \in L
    BY <1>10, <1>11, <1>15 DEF Order, n
  <2> QED
    BY <2>1, <1>1, InOrder
<1>17. Chained(s2, L)
  BY <1>1, <1>13, ChainedSame DEF Sound
<1>18. Keyed(s2, L) /\ L \subseteq s2.alive
  BY <1>1, <1>11, <1>12 DEF Sound, Keyed, Fields
<1>19. Sound(s2, L)
  BY <1>11, <1>16, <1>17, <1>18 DEF Sound
<1> QED
  BY <1>3, <1>11, <1>13, <1>15, <1>19 DEF s2, n

\* The keys become 0, 1, 2...
LEMMA RenumberIs ==
  ASSUME NEW s, NEW L, Sound(s, L), NEW l, Order(s, L, l)
  PROVE  LET s2 == Renumber(s) IN
         /\ Sound(s2, L) /\ Order(s2, L, l) /\ s2.nNextFreeElement = Len(l)
         /\ s2.pInternalPointer = s.pInternalPointer /\ s2.alive = s.alive
         /\ s2.nNumOfElements = s.nNumOfElements
         /\ \A i \in DOMAIN l : s2.mem[l[i]].key = Key(i - 1, 0)
         /\ \A c \in L : s2.mem[c].data = s.mem[c].data
<1> DEFINE n    == Len(l)
           J(c) == CHOOSE i \in DOMAIN l : l[i] = c
           b(c) == [s.mem[c] EXCEPT !.key = Key(J(c) - 1, 0)]
           mm   == [c \in Cells |-> IF c \notin Range(l) THEN s.mem[c] ELSE b(c)]
           s1   == [s EXCEPT !.mem = mm, !.nNextFreeElement = n]
           s2   == Renumber(s)
<1>1. s \in Table /\ L \in SUBSET Cells /\ L \subseteq s.alive
  BY SoundCells DEF Sound
<1>2. /\ l \in Seq(L) /\ Range(l) = L /\ IsInjective(l) /\ n \in Nat /\ DOMAIN l = 1..n
      /\ IsFiniteSet(L) /\ n = Cardinality(L)
  BY DEF Order, Walks
<1>3. s2 = Rehash(s1)
  <2>1. List(s) = l
    BY OrderIs
  <2> QED
    BY <2>1, <1>1 DEF Renumber, Table
<1>4. n <= MaxCells
  <2>1. IsFiniteSet(Cells) /\ Cardinality(Cells) = MaxCells
    BY TableAssumption, FS_Interval DEF Cells
  <2> QED
    BY <2>1, <1>1, <1>2, FS_Subset
<1> HIDE DEF n
<1>5. ASSUME NEW i \in 1..n PROVE J(l[i]) = i /\ l[i] \in L
  BY <1>2 DEF IsInjective
<1>6. \A c \in L : \E i \in 1..n : l[i] = c
  BY <1>2 DEF Range
<1>7. ASSUME NEW i \in 1..n
      PROVE  Key(i - 1, 0) \in AllKeys /\ Key(i - 1, 0) \in [h : Nat, name : Nat]
  <2>1. i - 1 \in 0..MaxCells - 1
    BY <1>2, <1>4, TableAssumption
  <2> QED
    BY <2>1, KeyIs DEF AllKeys
<1>8. ASSUME NEW i \in 1..n
      PROVE  /\ b(l[i]) \in Bucket /\ b(l[i]).key = Key(i - 1, 0)
             /\ \A y \in Links \cup {"data"} : b(l[i])[y] = s.mem[l[i]][y]
  <2> DEFINE c == l[i]
             k == Key(i - 1, 0)
  <2>1. b(c) = [s.mem[c] EXCEPT !.key = k] /\ s.mem[c] \in Bucket
    BY <1>1, <1>5 DEF Table
  <2>2. k \in [h : Nat, name : Nat]
    BY <1>7
  <2> HIDE DEF b, k, c
  <2>3. b(c) \in Bucket /\ b(c).key = k /\ \A y \in Links \cup {"data"} : b(c)[y] = s.mem[c][y]
    BY <2>1, <2>2 DEF Bucket, Links
  <2> QED
    BY <2>3 DEF k, c
<1> HIDE DEF b, J
<1>9. \A c \in L : /\ b(c) \in Bucket /\ b(c).key \in AllKeys
                   /\ \A y \in Links \cup {"data"} : b(c)[y] = s.mem[c][y]
  BY <1>6, <1>7, <1>8
<1>10. /\ mm \in [Cells -> Bucket] /\ \A c \in L : mm[c] = b(c)
       /\ \A c \in Cells : \A y \in Links \cup {"data"} : mm[c][y] = s.mem[c][y]
  BY <1>1, <1>2, <1>9 DEF Table
<1> HIDE DEF mm
<1>11. /\ s1 \in Table /\ s1.mem = mm /\ s1.nNextFreeElement = n
       /\ \A x \in Fields \ {"nNextFreeElement"} : s1[x] = s[x]
  BY <1>1, <1>2, <1>10 DEF Table, Fields
<1> HIDE DEF s1
<1>12. Keeps(s, s1, {"nNextFreeElement"}, {"key"})
  BY <1>10, <1>11 DEF Keeps
<1>13. Line(s1, L)
  BY <1>1, <1>12, LineSame DEF Sound
<1>14. /\ s2 \in Table /\ Chained(s2, L) /\ Keeps(s1, s2, {"arBuckets"}, {"pNext", "pLast"})
  BY <1>1, <1>3, <1>11, <1>13, RehashIs
<1> HIDE DEF s2
<1>15. Keeps(s, s2, {"nNextFreeElement", "arBuckets"}, {"key", "pNext", "pLast"})
  BY <1>12, <1>14 DEF Keeps
<1>16. Line(s2, L)
  BY <1>1, <1>15, LineSame DEF Sound
<1>17. /\ \A i \in 1..n : s2.mem[l[i]].key = Key(i - 1, 0)
       /\ \A c \in L : s2.mem[c].key \in AllKeys
  <2>1. \A c \in L : s2.mem[c].key = b(c).key
    BY <1>1, <1>10, <1>11, <1>14 DEF Keeps
  <2> QED
    BY <2>1, <1>5, <1>8, <1>9
<1>18. Keyed(s2, L)
  <2> SUFFICES ASSUME NEW c \in L, NEW d \in L, s2.mem[c].key = s2.mem[d].key PROVE c = d
    BY <1>17 DEF Keyed
  <2>1. PICK i \in 1..n : l[i] = c
    BY <1>6
  <2>2. PICK j \in 1..n : l[j] = d
    BY <1>6
  <2>3. Key(i - 1, 0) = Key(j - 1, 0)
    BY <1>17, <2>1, <2>2
  <2>4. i - 1 = j - 1
    BY <2>3 DEF Key
  <2> QED
    BY <2>1, <2>2, <2>4, <1>2
<1>19. /\ s2.nNextFreeElement = n /\ s2.pInternalPointer = s.pInternalPointer
       /\ s2.alive = s.alive /\ s2.nNumOfElements = s.nNumOfElements
       /\ s2.pListHead = s.pListHead
       /\ \A c \in L : s2.mem[c].data = s.mem[c].data
  BY <1>1, <1>11, <1>14, <1>15 DEF Keeps, Fields
<1>20. Sound(s2, L)
  BY <1>1, <1>14, <1>16, <1>18, <1>19 DEF Sound
<1>21. Order(s2, L, l)
  <2>1. \A c \in L : /\ s2.mem[c]["pListLast"] = s.mem[c]["pListLast"]
                     /\ s2.mem[c]["pListNext"] = s.mem[c]["pListNext"]
    BY <1>1, <1>15 DEF Keeps, Links
  <2>2. \A i \in DOMAIN l : l[i] \in L
    BY <1>2
  <2> QED
    BY <2>1, <2>2, <1>19 DEF Order, Walks
<1> QED
  BY <1>2, <1>17, <1>19, <1>20, <1>21 DEF s2, n

LEMMA SortStartInv ==
  ASSUME IInv, Alone, stack = <<>>, NEW op \in {"sort", "sortnew"}, SortStart(op)
  PROVE  Sorting'
<1>1. PICK L \in SUBSET Cells : Base(t, L)
  BY BaseIs
<1> DEFINE l == List(t)
           g == Frame(op, "compare", NULL)
           f == [g EXCEPT !.arr = l]
<1>2. t' = t /\ fault' = FALSE /\ stack' = <<f>> /\ t.nNumOfElements > 1
  BY DEF SortStart, Push, IInv
<1>3. Order(t, L, l)
  BY <1>1, ListSound DEF Base
<1> HIDE DEF l
<1>4. l \in Seq(L) /\ Len(l) = Cardinality(L)
  BY <1>3 DEF Order, Walks
<1>5. l \in Seq(Cells) /\ Len(l) > 1
  BY <1>1, <1>2, <1>4 DEF Base
<1>6. g \in SpecialType /\ g.op = op /\ g.phase = "compare"
  BY SpecialFrame DEF SpecialOps, Ptr
<1> HIDE DEF g
<1>7. f \in SpecialType /\ f.op = op /\ f.phase = "compare" /\ f.arr = l
  BY <1>5, <1>6 DEF SpecialType
<1> HIDE DEF f
<1>8. f.arr = List(t')
  BY <1>2, <1>7 DEF l
<1> QED
  BY <1>1, <1>2, <1>5, <1>7, <1>8 DEF Sorting

\* The table when the sort returns.
LEMMA SortedIs ==
  ASSUME Sorting, SortEnd
  PROVE  \E L \in SUBSET Cells : \E w \in SetToSeqs(L) :
           /\ stack' = <<>> /\ fault' = FALSE /\ Base(t, L) /\ Cardinality(L) > 1
           /\ t' = Relink(t, w) \/ t' = Renumber(Relink(t, w))
<1>1. PICK L \in SUBSET Cells, f \in SpecialType :
        stack = <<f>> /\ Base(t, L) /\ f.arr = List(t) /\ Len(f.arr) > 1
  BY DEF Sorting
<1>2. Top = f /\ Front(stack) = <<>>
  BY <1>1, OneIs
<1>3. Walks(t, f.arr, L, t.pListHead, "pListNext", "pListLast")
  BY <1>1, ListIs DEF Base
<1>4. Range(f.arr) = L /\ Len(f.arr) = Cardinality(L)
  BY ONLY <1>3 DEF Walks
<1>5. \E w \in SetToSeqs(L) : t' = Relink(t, w) \/ t' = Renumber(Relink(t, w))
  BY <1>2, <1>4 DEF SortEnd
<1>6. stack' = <<>> /\ fault' = FALSE
  BY <1>1, <1>2, <1>4 DEF SortEnd, Touch, Pop, Base, Sound
<1> QED
  BY <1>1, <1>4, <1>5, <1>6

LEMMA SortEndInv ==
  ASSUME Sorting, SortEnd
  PROVE  IInv'
<1>0. PICK L \in SUBSET Cells : \E w \in SetToSeqs(L) :
        /\ stack' = <<>> /\ fault' = FALSE /\ Base(t, L) /\ Cardinality(L) > 1
        /\ t' = Relink(t, w) \/ t' = Renumber(Relink(t, w))
  BY SortedIs
<1>1. PICK w \in SetToSeqs(L) :
        /\ stack' = <<>> /\ fault' = FALSE /\ Base(t, L) /\ Cardinality(L) > 1
        /\ t' = Relink(t, w) \/ t' = Renumber(Relink(t, w))
  BY <1>0
<1> DEFINE s2 == Relink(t, w)
           s3 == Renumber(s2)
<1>2. Sound(t, L) /\ L # {}
  <2>1. Cardinality({}) = 0
    BY FS_EmptySet
  <2> QED
    BY <2>1, <1>1 DEF Base
<1>3. /\ Sound(s2, L) /\ Order(s2, L, w)
      /\ Keeps(t, s2, {"pListHead", "pListTail", "pInternalPointer"}, {"pListNext", "pListLast"})
  BY <1>2, RelinkIs
<1> HIDE DEF s2
<1>4. Base(s2, L)
  BY <1>1, <1>3 DEF Base, Keeps, Fields
<1>5. Sound(s3, L) /\ s3.alive = s2.alive /\ s3.nNumOfElements = s2.nNumOfElements
  BY <1>3, RenumberIs
<1> HIDE DEF s3
<1>6. Base(s3, L)
  BY <1>4, <1>5 DEF Base
<1>7. Base(t', L)
  BY <1>1, <1>4, <1>6 DEF s2, s3
<1> QED
  BY <1>1, <1>7, BaseInv

LEMMA SortingStep ==
  ASSUME Alone, Sorting, Next
  PROVE  IInv'
<1>1. stack # <<>> /\ Top.op \in {"sort", "sortnew"} /\ Top.phase = "compare"
  BY OneIs DEF Sorting
<1>2. Return
  BY <1>1, OnlyReturns
<1>3. SortEnd
  BY <1>1, <1>2 DEF Return, UpdateReturn, DeleteReturn, ApplyKeep, ApplyRemove, ApplyDeleted,
     ReverseKeep, ReverseRemove, ReverseNext, ApplyEnd, CleanNext, CleanEnd, Running
<1> QED
  BY <1>3, SortEndInv

(***************************************************************************)
(* The invariant of every execution.                                       *)
(***************************************************************************)
LEMMA WholeStep ==
  ASSUME Uses, Whole, [Next]_vars
  PROVE  Whole'
<1>1. CASE IInv
  <2>1. CASE IInv'
    BY <2>1 DEF Whole
  <2>2. CASE SpecialStart
    <3>1. \E op \in SpecialOps : May(op)
      BY <2>2 DEF SpecialStart, ApplyStart, CleanStart, SortStart, SpecialOps
    <3>2. Alone /\ stack = <<>>
      BY <3>1, <1>1, SpecialIs
    <3>3. ASSUME ApplyStart("reverse") PROVE Reversing'
      BY <3>2, <3>3, <1>1, ReverseStartInv
    <3>4. ASSUME NEW op \in {"clean", "destroy"}, CleanStart(op) PROVE CleaningUp'
      BY <3>2, <3>4, <1>1, CleanUpStart
    <3>5. ASSUME NEW op \in {"sort", "sortnew"}, SortStart(op) PROVE Sorting'
      BY <3>2, <3>5, <1>1, SortStartInv
    <3> QED
      BY <2>2, <3>2, <3>3, <3>4, <3>5 DEF SpecialStart, Whole
  <2> QED
    BY <2>1, <2>2, <1>1, StepInv
<1>2. CASE Alone /\ Next
  BY <1>1, <1>2, ReversingStep, CleaningStep, SortingStep DEF Whole
<1>3. CASE UNCHANGED vars
  <2>1. t' = t /\ stack' = stack /\ fault' = fault
    BY <1>3 DEF vars
  <2>2. Reversing => Reversing'
    BY <2>1 DEF Reversing
  <2>3. CleaningUp => CleaningUp'
    BY <2>1 DEF CleaningUp
  <2>4. Sorting => Sorting'
    BY <2>1 DEF Sorting
  <2>5. IInv => IInv'
    BY <2>1 DEF IInv
  <2> QED
    BY <2>2, <2>3, <2>4, <2>5 DEF Whole
<1> QED
  BY <1>1, <1>2, <1>3 DEF Whole

\* The invariant: of every execution in which callbacks use only the operations of
\* Callbacks, and of every execution of all operations when callbacks leave the
\* table alone.
THEOREM InvHolds == Uses => (Spec => []Whole)
<1> SUFFICES ASSUME Uses PROVE Spec => []Whole
  OBVIOUS
<1>1. Init => Whole
  BY InitInv DEF Whole
<1>2. Whole /\ [Next]_vars => Whole'
  BY WholeStep
<1> QED
  BY <1>1, <1>2, PTL DEF Spec

\* The table can be used, unless it is being cleaned.
LEMMA WholeSound ==
  ASSUME Whole
  PROVE  /\ fault = FALSE
         /\ CleaningUp \/ \E L \in SUBSET Cells : Sound(t, L)
<1>1. CASE IInv
  BY <1>1 DEF IInv, Good
<1>2. CASE Reversing
  BY <1>2 DEF Reversing, Base
<1>3. CASE CleaningUp
  BY <1>3 DEF CleaningUp
<1>4. CASE Sorting
  BY <1>4 DEF Sorting, Base
<1> QED
  BY <1>1, <1>2, <1>3, <1>4 DEF Whole

LEMMA CleaningIs ==
  ASSUME CleaningUp
  PROVE  Cleaning
<1>1. PICK f \in SpecialType : stack = <<f>> /\ f.op \in {"clean", "destroy"}
  BY DEF CleaningUp, CleanOK
<1>2. 1 \in DOMAIN stack /\ stack[1] = f
  BY <1>1
<1> QED
  BY <1>1, <1>2 DEF Cleaning

(***************************************************************************)
(* What the runs check.                                                    *)
(***************************************************************************)
\* A walk along a list meets every element once and finds the way back.
LEMMA LinkedIs ==
  ASSUME NEW s, NEW w, NEW L, NEW head, NEW f, NEW g, Walks(s, w, L, head, f, g)
  PROVE  Linked(s, w, g) /\ Range(w) = L
  BY DEF Walks, Linked

LEMMA TailIs ==
  ASSUME NEW s, NEW L, Sound(s, L)
  PROVE  s.pListTail = IF List(s) = <<>> THEN NULL ELSE Last(List(s))
<1> DEFINE l == List(s)
<1>1. Walks(s, l, L, s.pListHead, "pListNext", "pListLast")
  BY ListIs
<1>2. Ends(s.mem, L, s.pListTail, "pListNext")
  BY DEF Sound, Line
<1> HIDE DEF l
<1>3. l \in Seq(L) /\ Range(l) = L
  BY <1>1 DEF Walks
<1>4. CASE l = <<>>
  <2>1. L = {}
    BY <1>3, <1>4 DEF Range
  <2> QED
    BY <2>1, <1>2, <1>4 DEF Ends, l
<1>5. CASE l # <<>>
  <2>1. Len(l) \in DOMAIN l
    BY <1>3, <1>5
  <2>2. l[Len(l)] \in L /\ s.mem[l[Len(l)]]["pListNext"] = NULL
    BY <2>1, <1>1, <1>3 DEF Walks
  <2>3. s.pListTail = l[Len(l)]
    BY <2>2, <1>2 DEF Ends
  <2> QED
    BY <2>3, <1>5 DEF Last, l
<1> QED
  BY <1>4, <1>5

LEMMA WellFormedIs ==
  ASSUME NEW L, Sound(t, L)
  PROVE  WellFormed
<1>2. Sound(t, L)
  OBVIOUS
<1> DEFINE l == List(t)
<1>3. Linked(t, l, "pListLast") /\ Range(l) = L
  BY <1>2, ListIs, LinkedIs
<1>4. t.pListTail = IF l = <<>> THEN NULL ELSE Last(l)
  BY <1>2, TailIs
<1> HIDE DEF l
<1>5. Range(l) \subseteq t.alive /\ t.pInternalPointer \in Range(l) \cup {NULL}
  BY <1>2, <1>3 DEF Sound, Line
<1>6. ASSUME NEW i \in DOMAIN t.arBuckets
      PROVE  /\ Linked(t, Walk(t, t.arBuckets[i], "pNext"), "pLast")
             /\ Range(Walk(t, t.arBuckets[i], "pNext"))
                  = {p \in Range(l) : Slot(t, t.mem[p].key.h) = i}
  <2>1. ListOf(t.mem, Of(t, L, i), t.arBuckets[i], "pNext", "pLast")
    BY <1>2 DEF Sound, Chained
  <2> DEFINE O == Of(t, L, i)
             c == Walk(t, t.arBuckets[i], "pNext")
  <2>2. Walks(t, c, O, t.arBuckets[i], "pNext", "pLast")
    <3> HIDE DEF O
    <3> QED
      BY <2>1, WalkIs DEF O
  <2> HIDE DEF c, O
  <2>3. Linked(t, c, "pLast") /\ Range(c) = O
    BY <2>2, LinkedIs
  <2> QED
    BY <2>3, <1>3 DEF c, O, Of
<1>7. ASSUME NEW k \in Keys
      PROVE  {p \in Range(l) : t.mem[p].key = k} = {Find(t, k)} \ {NULL}
  <2>1. \/ Find(t, k) = NULL /\ \A c \in L : t.mem[c].key # k
        \/ Find(t, k) \in L /\ t.mem[Find(t, k)].key = k
    BY <1>2, KeyIs, KeysAll, FindIs
  <2>2. \A c, d \in L : t.mem[c].key = k /\ t.mem[d].key = k => c = d
    BY <1>2 DEF Sound, Keyed
  <2>3. NULL \notin L
    BY <1>2, SoundCells, NotNull
  <2> DEFINE q == Find(t, k)
  <2> HIDE DEF q
  <2>4. \/ q = NULL /\ \A c \in L : t.mem[c].key # k
        \/ q \in L /\ t.mem[q].key = k
    BY <2>1 DEF q
  <2>5. {p \in Range(l) : t.mem[p].key = k} = {q} \ {NULL}
    BY <2>2, <2>3, <2>4, <1>3
  <2> QED
    BY <2>5 DEF q
<1> QED
  BY <1>3, <1>4, <1>5, <1>6, <1>7 DEF WellFormed, l

LEMMA ApplyCompleteIs ==
  ASSUME IInv
  PROVE  ApplyComplete
<1>1. PICK L \in SUBSET Cells : Good(t, L, stack)
  BY DEF IInv
<1>2. Sound(t, L) /\ Frames(t, L, stack)
  BY <1>1 DEF Good
<1>3. Range(List(t)) = L
  BY <1>2, ListIs, LinkedIs
<1> SUFFICES ASSUME NEW i \in DOMAIN stack, stack[i].op \in {"apply", "reverse"}
             PROVE  /\ stack[i].phase \in {"func", "saved"} => stack[i].p \notin stack[i].seen
                    /\ stack[i].phase = "end" /\ stack[i].op = "apply" =>
                         stack[i].owed \cap L \subseteq stack[i].seen
  BY <1>3 DEF ApplyComplete
<1> DEFINE f == stack[i]
<1>4. f \in FrameType /\ FrameOK(t, L, f) /\ f.op \in {"apply", "reverse"}
  BY <1>2 DEF Frames
<1> HIDE DEF f
<1>5. f.op = "apply" /\ f.phase # "saved" /\ ApplyOK(t, L, f)
  BY <1>4 DEF FrameType, FrameOK
<1>6. f.phase = "func" => f.p \notin f.seen
  BY <1>5 DEF ApplyOK, Before
<1>7. f.phase = "end" => f.owed \cap L \subseteq f.seen
  BY <1>5 DEF ApplyOK
<1> QED
  BY <1>5, <1>6, <1>7 DEF f

\* Of an operation whose callbacks leave the table alone.
LEMMA ApplyCompleteAlone ==
  ASSUME Reversing \/ CleaningUp \/ Sorting
  PROVE  ApplyComplete
<1> SUFFICES ASSUME NEW i \in DOMAIN stack, stack[i].op \in {"apply", "reverse"}
             PROVE  /\ stack[i].op = "reverse"
                    /\ stack[i].phase \in {"func", "saved"} => stack[i].p \notin stack[i].seen
  BY DEF ApplyComplete
<1>1. ASSUME NEW f \in SpecialType, stack = <<f>> PROVE stack[i] = f
  BY <1>1
<1>2. ASSUME NEW f \in SpecialType, NEW g \in SpecialType, stack = <<f, g>>
      PROVE  stack[i] \in {f, g}
  BY <1>2
<1>3. CASE Reversing
  <2>1. PICK L \in SUBSET Cells, f \in SpecialType :
          /\ ReverseOK(t, L, f)
          /\ stack = <<f>> \/ \E g \in SpecialType : stack = <<f, g>> /\ g.op = "del"
    BY <1>3 DEF Reversing
  <2>2. stack[i] = f
    BY <2>1, <1>1, <1>2
  <2> QED
    BY <2>1, <2>2 DEF ReverseOK, Behind
<1>4. CASE CleaningUp \/ Sorting
  BY <1>4, <1>1 DEF CleaningUp, CleanOK, Sorting
<1> QED
  BY <1>3, <1>4

\* No operation touches a bucket after it has been freed, though callbacks insert,
\* delete and replace elements, apply functions to the table, and bail out; nor does
\* a backward apply, a sort, zend_hash_clean() or zend_hash_destroy() when callbacks
\* leave the table alone.
THEOREM NoUseAfterFreeTheorem == Uses => (Spec => []NoUseAfterFree)
<1>1. Whole => NoUseAfterFree
  BY WholeSound DEF NoUseAfterFree
<1> QED
  BY <1>1, InvHolds, PTL

\* The chains and the global list agree in both directions on one set of elements,
\* the tail and the internal pointer are theirs, and a lookup finds the one element
\* of a key: also while callbacks run, and after CONNECT_TO_BUCKET_DLLIST, the
\* unlinking of zend_hash_del_key_or_index(), a zend_hash_rehash() and a sort.
THEOREM WellFormedTheorem == Uses => (Spec => []WellFormed)
<1>1. Whole => WellFormed
  <2>1. CleaningUp => WellFormed
    BY CleaningIs DEF WellFormed
  <2> QED
    BY <2>1, WholeSound, WellFormedIs
<1> QED
  BY <1>1, InvHolds, PTL

\* zend_hash_apply() calls its function once for every element that is there from
\* its beginning to its end, and never twice, whatever the callbacks do meanwhile;
\* zend_hash_reverse_apply() never twice.
THEOREM ApplyCompleteTheorem == Uses => (Spec => []ApplyComplete)
<1>1. Whole => ApplyComplete
  BY ApplyCompleteIs, ApplyCompleteAlone DEF Whole
<1> QED
  BY <1>1, InvHolds, PTL

LEMMA CountExactIs ==
  ASSUME IInv, Returns
  PROVE  CountExact
<1>1. PICK L \in SUBSET Cells : Good(t, L, stack)
  BY DEF IInv
<1>2. Sound(t, L) /\ Frames(t, L, stack) /\ Counted(t, L, stack)
  BY <1>1 DEF Good
<1>3. Walks(t, List(t), L, t.pListHead, "pListNext", "pListLast")
  BY <1>2, ListIs
<1>4. Range(List(t)) = L /\ Len(List(t)) = Cardinality(L)
  BY <1>3 DEF Walks
<1> DEFINE D == Dying(stack)
           E == Dead(stack)
           h == [i \in D |-> stack[i].p]
<1>5. IsFiniteSet(L) /\ IsFiniteSet(E)
  <2> HIDE DEF E
  <2>1. L \in SUBSET Cells /\ t.alive \in SUBSET Cells
    BY <1>2, SoundCells
  <2>2. E \in SUBSET Cells
    BY <2>1, <1>2 DEF Counted, E
  <2>3. IsFiniteSet(Cells)
    BY TableAssumption, FS_Interval DEF Cells
  <2> QED
    BY <2>1, <2>2, <2>3, FS_Subset
<1>6. L \cap E = {}
  BY <1>2 DEF Frames, FrameOK, DelOK, Dead, Dying
<1>7. Cardinality(L \cup E) = Cardinality(L) + Cardinality(E)
  <2> HIDE DEF E
  <2>1. Cardinality(L \cup E) = Cardinality(L) + Cardinality(E) - Cardinality(L \cap E)
    BY <1>5, FS_Union
  <2>2. Cardinality(L \cap E) = 0
    BY <1>6, FS_EmptySet
  <2> QED
    BY <2>1, <2>2, <1>5, FS_CardinalityType
<1>8. Cardinality(E) = Cardinality(D)
  <2>1. h \in Bijection(D, E)
    <3>1. h \in [D -> E] /\ \A x \in E : \E i \in D : h[i] = x
      BY DEF Dead
    <3>2. \A i, j \in D : h[i] = h[j] => i = j
      BY <1>2 DEF Frames, Dying
    <3> QED
      BY <3>1, <3>2 DEF Bijection, Injection, Surjection, IsInjective
  <2>2. IsFiniteSet(D)
    <3>1. IsFiniteSet(DOMAIN stack)
      <4>1. stack \in Seq(FrameType)
        BY <1>2 DEF Frames
      <4>2. DOMAIN stack = 1..Len(stack) /\ Len(stack) \in Nat
        BY <4>1
      <4> QED
        BY <4>2, FS_Interval
    <3> QED
      BY <3>1, FS_Subset DEF Dying
  <2>3. ExistsBijection(D, E)
    BY <2>1 DEF ExistsBijection
  <2> QED
    BY <2>2, <2>3, FS_Bijection
<1>9. t.alive = L \cup E /\ t.nNumOfElements = Cardinality(L) + Cardinality(D)
  BY <1>2, <1>7, <1>8 DEF Counted
<1> QED
  BY <1>4, <1>9 DEF CountExact, Dead, Dying

LEMMA CountExactReversing ==
  ASSUME Reversing
  PROVE  CountExact
<1> DEFINE dying == {i \in DOMAIN stack : stack[i].op = "del"}
<1>1. PICK L \in SUBSET Cells, f \in SpecialType :
        /\ ReverseOK(t, L, f)
        /\ \/ stack = <<f>> /\ Base(t, L)
           \/ \E g \in SpecialType :
                /\ stack = <<f, g>> /\ g.op = "del"
                /\ Sound(t, L) /\ t.alive = L \cup {g.p}
                /\ t.nNumOfElements = Cardinality(L) + 1
  BY DEF Reversing
<1>2. f.op # "del"
  BY <1>1 DEF ReverseOK
<1>3. Sound(t, L)
  BY <1>1 DEF Base
<1>4. Walks(t, List(t), L, t.pListHead, "pListNext", "pListLast")
  BY <1>3, ListIs
<1>5. Range(List(t)) = L /\ Len(List(t)) = Cardinality(L) /\ Cardinality(L) \in Nat
  BY <1>4, FS_CardinalityType DEF Walks
<1>6. CASE stack = <<f>> /\ Base(t, L)
  <2>1. dying = {}
    BY <1>6, <1>2
  <2>2. Cardinality(dying) = 0
    BY <2>1, FS_EmptySet
  <2> QED
    BY <2>1, <2>2, <1>5, <1>6 DEF CountExact, Base
<1>7. ASSUME NEW g \in SpecialType, stack = <<f, g>>, g.op = "del",
             t.alive = L \cup {g.p}, t.nNumOfElements = Cardinality(L) + 1
      PROVE  CountExact
  <2>1. dying = {2} /\ stack[2] = g
    BY <1>7, <1>2
  <2>2. Cardinality(dying) = 1
    BY <2>1, FS_Singleton
  <2>3. {stack[i].p : i \in dying} = {g.p}
    BY <2>1
  <2> QED
    BY <2>2, <2>3, <1>5, <1>7 DEF CountExact
<1> QED
  BY <1>1, <1>6, <1>7

LEMMA CountExactSorting ==
  ASSUME Sorting
  PROVE  CountExact
<1>1. PICK L \in SUBSET Cells, f \in SpecialType :
        stack = <<f>> /\ f.op \in {"sort", "sortnew"} /\ Base(t, L)
  BY DEF Sorting
<1>2. Walks(t, List(t), L, t.pListHead, "pListNext", "pListLast")
  BY <1>1, ListIs DEF Base
<1>3. Range(List(t)) = L /\ Len(List(t)) = Cardinality(L) /\ Cardinality(L) \in Nat
  BY <1>2, FS_CardinalityType DEF Walks
<1> DEFINE dying == {i \in DOMAIN stack : stack[i].op = "del"}
<1>4. dying = {}
  BY <1>1
<1>5. Cardinality(dying) = 0
  BY <1>4, FS_EmptySet
<1>6. t.alive = L /\ t.nNumOfElements = Cardinality(L)
  BY <1>1 DEF Base
<1> QED
  BY <1>3, <1>4, <1>5, <1>6 DEF CountExact

\* nNumOfElements counts the elements in the list and those in the hands of their
\* destructors, and no bucket is lost: every operation that returns has put the
\* count right, whatever callbacks did while it ran.  Returns says that operations
\* return: a zend_bailout() leaves a deleted element counted, and so does one that
\* an apply in a callback makes at its fourth level of nesting.
THEOREM CountExactTheorem == Uses /\ Returns => (Spec => []CountExact)
<1> SUFFICES ASSUME Uses, Returns PROVE Spec => []CountExact
  OBVIOUS
<1>1. Whole => CountExact
  <2>1. CleaningUp => CountExact
    BY CleaningIs DEF CountExact
  <2> QED
    BY <2>1, CountExactIs, CountExactReversing, CountExactSorting DEF Whole
<1> QED
  BY <1>1, InvHolds, PTL

(***************************************************************************)
(* The table as an ordered map.                                            *)
(***************************************************************************)
\* AbstractElems and AbstractCursor, of any table.
Elems(s) == [i \in DOMAIN List(s) |->
               [key |-> s.mem[List(s)[i]].key, data |-> s.mem[List(s)[i]].data]]

Cursor(s) == LET here == {i \in DOMAIN List(s) : List(s)[i] = s.pInternalPointer}
             IN IF here = {} THEN 0 ELSE Min(here)

LEMMA AbstractIs == AbstractElems = Elems(t) /\ AbstractCursor = Cursor(t)
  BY DEF AbstractElems, AbstractCursor, Elems, Cursor

\* The cursor is where the internal pointer is.
LEMMA CursorIs ==
  ASSUME NEW s, NEW L, Sound(s, L)
  PROVE  /\ s.pInternalPointer = NULL => Cursor(s) = 0
         /\ \A i \in DOMAIN List(s) : s.pInternalPointer = List(s)[i] => Cursor(s) = i
         /\ s.pInternalPointer # NULL =>
              \E i \in DOMAIN List(s) : s.pInternalPointer = List(s)[i]
         /\ Len(List(s)) \in Nat /\ DOMAIN List(s) = 1..Len(List(s))
<1> DEFINE l    == List(s)
           ip   == s.pInternalPointer
           here == {i \in DOMAIN l : l[i] = ip}
<1>1. Order(s, L, l)
  BY ListSound
<1>2. ip \in L \cup {NULL} /\ NULL \notin L
  BY NotNull DEF Sound, Line, ListOf
<1>3. Cursor(s) = IF here = {} THEN 0 ELSE Min(here)
  BY DEF Cursor
<1> HIDE DEF l, ip
<1>4. l \in Seq(L) /\ Range(l) = L /\ IsInjective(l)
  BY <1>1 DEF Order, Walks
<1>5. Len(l) \in Nat /\ DOMAIN l = 1..Len(l)
  BY <1>4
<1>6. ip = NULL => Cursor(s) = 0
  <2>1. \A i \in DOMAIN l : l[i] \in L
    BY <1>4
  <2> QED
    BY <2>1, <1>2, <1>3
<1>7. ASSUME NEW i \in DOMAIN l, ip = l[i] PROVE Cursor(s) = i
  <2>1. \A j \in DOMAIN l : l[j] = l[i] => j = i
    BY <1>4, <1>7 DEF IsInjective
  <2>2. here = {i}
    BY <2>1, <1>7
  <2>3. here \subseteq Nat /\ here # {}
    BY <2>2, <1>5, <1>7
  <2>4. Min(here) \in here
    <3> HIDE DEF here
    <3> QED
      BY <2>3, MinIn
  <2> QED
    BY <2>2, <2>4, <1>3
<1>8. ip # NULL => \E i \in DOMAIN l : ip = l[i]
  BY <1>2, <1>4 DEF Range
<1> QED
  BY <1>5, <1>6, <1>7, <1>8 DEF l, ip

\* A new element comes last.
LEMMA OrderJoined ==
  ASSUME NEW s, NEW L, Sound(s, L), NEW p \in Cells, p \notin L, NEW s2,
         Sound(s2, L \cup {p}), Joined(s, s2, L, p), NEW w, Order(s, L, w)
  PROVE  Order(s2, L \cup {p}, Append(w, p))
<1> DEFINE m  == s.mem
           m2 == s2.mem
           K  == L \cup {p}
           n  == Len(w)
           a  == Append(w, p)
<1>1. /\ w \in Seq(L) /\ Range(w) = L /\ IsInjective(w) /\ IsFiniteSet(L)
      /\ n = Cardinality(L) /\ n \in Nat /\ DOMAIN w = 1..n
      /\ L # {} => 1 \in 1..n /\ w[1] = s.pListHead
      /\ \A i \in 1..n : /\ m[w[i]]["pListLast"] = IF i = 1 THEN NULL ELSE w[i - 1]
                         /\ m[w[i]]["pListNext"] = IF i = n THEN NULL ELSE w[i + 1]
  <2>1. Walks(s, w, L, s.pListHead, "pListNext", "pListLast")
    BY DEF Order
  <2>2. w \in Seq(L)
    BY <2>1 DEF Walks
  <2>3. n \in Nat /\ DOMAIN w = 1..n
    BY <2>2
  <2> QED
    BY <2>1, <2>2, <2>3 DEF Walks
<1>2. /\ L \subseteq Cells /\ NULL \notin K /\ s.pListHead \in L \cup {NULL}
      /\ \A c \in L : m[c]["pListNext"] \in L \cup {NULL} /\ m[c]["pListLast"] \in L \cup {NULL}
  BY NotNull DEF Sound, Line, ListOf
<1>3. /\ \A c \in K : /\ m2[c]["pListNext"] \in K \cup {NULL} /\ m2[c]["pListLast"] \in K \cup {NULL}
                      /\ m2[c]["pListNext"] # NULL => m2[m2[c]["pListNext"]]["pListLast"] = c
                      /\ m2[c]["pListLast"] # NULL => m2[m2[c]["pListLast"]]["pListNext"] = c
                      /\ m2[c]["pListLast"] = NULL <=> c = s2.pListHead
  BY DEF Sound, Line, ListOf
<1>4. m2[p]["pListLast"] # p
  <2>1. Acyclic(m2, K, "pListLast")
    BY DEF Sound, Line, ListOf
  <2>2. \E d \in {p} : m2[d]["pListLast"] \notin {p}
    BY <2>1 DEF Acyclic
  <2> QED
    BY <2>2
<1>5. /\ s2.pListHead = IF s.pListHead = NULL THEN p ELSE s.pListHead
      /\ \A c \in L : /\ m2[c]["pListLast"] = m[c]["pListLast"]
                      /\ m[c]["pListNext"] # NULL => m2[c]["pListNext"] = m[c]["pListNext"]
  BY DEF Joined
<1> HIDE DEF m, m2
<1>6. m2[p]["pListNext"] = NULL
  <2> SUFFICES ASSUME m2[p]["pListNext"] # NULL PROVE FALSE
    OBVIOUS
  <2> DEFINE d == m2[p]["pListNext"]
  <2>1. d \in K /\ m2[d]["pListLast"] = p
    BY <1>3
  <2> QED
    BY <2>1, <1>2, <1>4, <1>5
<1>7. ASSUME L # {}
      PROVE  n \in 1..n /\ m2[p]["pListLast"] = w[n] /\ m2[w[n]]["pListNext"] = p
  <2>1. n \in 1..n /\ w[n] \in L
    BY <1>1, <1>7
  <2>2. s2.pListHead # p
    <3>1. 1 \in 1..n /\ w[1] \in L /\ w[1] = s.pListHead
      BY <1>1, <1>7
    <3> QED
      BY <3>1, <1>2, <1>5
  <2> DEFINE c == m2[p]["pListLast"]
  <2>3. c \in L /\ m2[c]["pListNext"] = p
    BY <2>2, <1>3, <1>4
  <2>4. m[c]["pListNext"] = NULL
    BY <2>3, <1>2, <1>5
  <2>5. PICK i \in 1..n : w[i] = c
    BY <2>3, <1>1 DEF Range
  <2>6. i = n
    <3> SUFFICES ASSUME i # n PROVE FALSE
      OBVIOUS
    <3>1. i + 1 \in 1..n /\ m[w[i]]["pListNext"] = w[i + 1]
      BY <1>1
    <3>2. w[i + 1] \in L
      BY <3>1, <1>1
    <3> QED
      BY <3>1, <3>2, <2>4, <2>5, <1>2
  <2> QED
    BY <2>1, <2>3, <2>5, <2>6
<1>8. /\ a \in Seq(K) /\ Len(a) = n + 1 /\ DOMAIN a = 1..n + 1 /\ a[n + 1] = p
      /\ \A i \in 1..n : a[i] = w[i] /\ w[i] \in L
  <2>1. w \in Seq(K)
    BY <1>1
  <2> QED
    BY <2>1, <1>1
<1> HIDE DEF a, n, K
<1>9. Range(a) = K
  <2>1. \A x \in L : \E i \in 1..n : a[i] = x
    BY <1>1, <1>8 DEF Range
  <2>2. \A x \in K : \E i \in DOMAIN a : a[i] = x
    <3>1. \A i \in 1..n : i \in DOMAIN a
      BY <1>1, <1>8
    <3>2. n + 1 \in DOMAIN a
      BY <1>1, <1>8
    <3> QED
      BY <2>1, <3>1, <3>2, <1>8 DEF K
  <2>3. \A i \in DOMAIN a : a[i] \in K
    BY <1>8
  <2> QED
    BY <2>2, <2>3 DEF Range
<1>10. IsInjective(a)
  <2>1. ASSUME NEW i \in DOMAIN a, NEW j \in DOMAIN a, a[i] = a[j] PROVE i = j
    <3>1. CASE i \in 1..n /\ j \in 1..n
      BY <3>1, <2>1, <1>1, <1>8 DEF IsInjective
    <3>2. CASE i = n + 1 /\ j = n + 1
      BY <3>2
    <3>3. CASE i \in 1..n /\ j = n + 1
      BY <3>3, <2>1, <1>8
    <3>4. CASE i = n + 1 /\ j \in 1..n
      BY <3>4, <2>1, <1>8
    <3> QED
      BY <3>1, <3>2, <3>3, <3>4, <1>1, <1>8
  <2> QED
    BY <2>1 DEF IsInjective
<1>11. IsFiniteSet(K) /\ Cardinality(K) = n + 1
  BY <1>1, FS_AddElement DEF K
<1>12. 1 \in DOMAIN a /\ a[1] = s2.pListHead
  <2>1. CASE L = {}
    <3>1. n = 0
      BY <2>1, <1>1, FS_EmptySet
    <3> QED
      BY <3>1, <2>1, <1>2, <1>5, <1>8
  <2>2. CASE L # {}
    <3>1. 1 \in 1..n /\ w[1] = s.pListHead /\ w[1] \in L
      BY <2>2, <1>1
    <3> QED
      BY <3>1, <1>1, <1>2, <1>5, <1>8 DEF K
  <2> QED
    BY <2>1, <2>2
<1>13. ASSUME NEW i \in DOMAIN a
       PROVE  /\ m2[a[i]]["pListLast"] = IF i = 1 THEN NULL ELSE a[i - 1]
              /\ m2[a[i]]["pListNext"] = IF i = n + 1 THEN NULL ELSE a[i + 1]
  <2>1. CASE i \in 1..n
    <3>1. a[i] = w[i] /\ w[i] \in L /\ i # n + 1
      BY <2>1, <1>1, <1>8
    <3>2. m2[w[i]]["pListLast"] = IF i = 1 THEN NULL ELSE w[i - 1]
      BY <2>1, <3>1, <1>1, <1>5
    <3>3. i # 1 => a[i - 1] = w[i - 1]
      BY <2>1, <1>1, <1>8
    <3>4. m2[w[i]]["pListNext"] = a[i + 1]
      <4>1. CASE i = n
        BY <4>1, <3>1, <1>7, <1>8
      <4>2. CASE i # n
        <5>1. i + 1 \in 1..n
          BY <2>1, <4>2, <1>1
        <5>2. m[w[i]]["pListNext"] = w[i + 1] /\ w[i + 1] \in L /\ a[i + 1] = w[i + 1]
          BY <2>1, <4>2, <5>1, <1>1, <1>8
        <5>3. w[i + 1] # NULL
          BY <5>2, <1>2 DEF K
        <5> QED
          BY <5>2, <5>3, <3>1, <1>5
      <4> QED
        BY <4>1, <4>2
    <3> QED
      BY <3>1, <3>2, <3>3, <3>4
  <2>2. CASE i = n + 1
    <3>1. CASE L = {}
      <4>1. n = 0
        BY <3>1, <1>1, FS_EmptySet
      <4>2. p = s2.pListHead /\ p \in K
        BY <3>1, <1>2, <1>5 DEF K
      <4> QED
        BY <4>1, <4>2, <2>2, <1>3, <1>6, <1>8
    <3>2. CASE L # {}
      <4>1. n \in 1..n /\ a[n] = w[n]
        BY <3>2, <1>7, <1>8
      <4> QED
        BY <4>1, <3>2, <2>2, <1>1, <1>6, <1>7, <1>8
    <3> QED
      BY <3>1, <3>2
  <2> QED
    BY <2>1, <2>2, <1>1, <1>8
<1>14. Order(s2, K, a)
  BY <1>8, <1>9, <1>10, <1>11, <1>12, <1>13 DEF Order, Walks, m2
<1> QED
  BY <1>14 DEF K, a

LEMMA RemoveAtIs ==
  ASSUME NEW S, NEW w \in Seq(S), NEW i \in 1..Len(w)
  PROVE  /\ RemoveAt(w, i) \in Seq(S) /\ Len(RemoveAt(w, i)) = Len(w) - 1
         /\ DOMAIN RemoveAt(w, i) = 1..Len(w) - 1
         /\ \A j \in 1..Len(w) - 1 : RemoveAt(w, i)[j] = IF j < i THEN w[j] ELSE w[j + 1]
<1> DEFINE a == SubSeq(w, 1, i - 1)
           b == SubSeq(w, i + 1, Len(w))
           n == Len(w)
           r == a \o b
<1>1. n \in Nat /\ i \in 1..n
  OBVIOUS
<1>2. /\ a \in Seq(S) /\ Len(a) = i - 1
      /\ \A j \in 1..i - 1 : a[j] = w[j]
  OBVIOUS
<1>3. /\ b \in Seq(S) /\ Len(b) = n - i
      /\ \A j \in 1..n - i : b[j] = w[j + i]
  OBVIOUS
<1> HIDE DEF a, b, n
<1>4. /\ r \in Seq(S) /\ Len(r) = n - 1
      /\ \A j \in 1..n - 1 : r[j] = IF j <= i - 1 THEN a[j] ELSE b[j - (i - 1)]
  <2>1. /\ r \in Seq(S) /\ Len(r) = Len(a) + Len(b)
        /\ \A j \in 1..Len(a) + Len(b) : r[j] = IF j <= Len(a) THEN a[j] ELSE b[j - Len(a)]
    BY <1>2, <1>3, ConcatProperties
  <2>2. Len(a) + Len(b) = n - 1
    BY <1>1, <1>2, <1>3
  <2> HIDE DEF r
  <2> QED
    BY <2>1, <2>2, <1>2
<1>5. DOMAIN r = 1..n - 1
  BY <1>1, <1>4
<1>6. RemoveAt(w, i) = r
  BY DEF RemoveAt, a, b, n
<1> HIDE DEF r
<1>7. ASSUME NEW j \in 1..n - 1 PROVE r[j] = IF j < i THEN w[j] ELSE w[j + 1]
  <2>1. CASE j < i
    BY <2>1, <1>1, <1>2, <1>4
  <2>2. CASE ~ (j < i)
    <3>1. j - (i - 1) \in 1..n - i /\ (j - (i - 1)) + i = j + 1
      BY <2>2, <1>1
    <3> QED
      BY <3>1, <2>2, <1>1, <1>3, <1>4
  <2> QED
    BY <2>1, <2>2
<1> QED
  BY <1>4, <1>5, <1>6, <1>7 DEF n

LEMMA OrderRemoved ==
  ASSUME NEW s, NEW L, Sound(s, L), NEW w, Order(s, L, w), NEW i \in DOMAIN w,
         NEW s2, Past(s, s2, L, w[i])
  PROVE  Order(s2, L \ {w[i]}, RemoveAt(w, i))
<1> DEFINE m    == s.mem
           m2   == s2.mem
           p    == w[i]
           K    == L \ {p}
           n    == Len(w)
           r    == RemoveAt(w, i)
           k(j) == IF j < i THEN j ELSE j + 1
           next == m[p]["pListNext"]
           last == m[p]["pListLast"]
<1>1. /\ w \in Seq(L) /\ Range(w) = L /\ IsFiniteSet(L)
      /\ n = Cardinality(L) /\ n \in Nat /\ DOMAIN w = 1..n /\ i \in 1..n
      /\ L # {} => 1 \in 1..n /\ w[1] = s.pListHead
      /\ \A j \in 1..n : /\ w[j] \in L
                         /\ m[w[j]]["pListLast"] = IF j = 1 THEN NULL ELSE w[j - 1]
                         /\ m[w[j]]["pListNext"] = IF j = n THEN NULL ELSE w[j + 1]
      /\ \A x, y \in 1..n : w[x] = w[y] => x = y
  <2>1. Walks(s, w, L, s.pListHead, "pListNext", "pListLast")
    BY DEF Order
  <2>2. w \in Seq(L)
    BY <2>1 DEF Walks
  <2>3. n \in Nat /\ DOMAIN w = 1..n
    BY <2>2
  <2>4. \A x, y \in 1..n : w[x] = w[y] => x = y
    BY <2>1, <2>3 DEF Walks, IsInjective
  <2> QED
    BY <2>1, <2>2, <2>3, <2>4 DEF Walks
<1>2. L \subseteq Cells /\ NULL \notin L
  BY NotNull DEF Sound, Line, ListOf
<1>3. /\ s2.pListHead = IF last = NULL THEN next ELSE s.pListHead
      /\ \A c \in K : /\ m2[c]["pListNext"] = IF c = last THEN next ELSE m[c]["pListNext"]
                      /\ m2[c]["pListLast"] = IF c = next THEN last ELSE m[c]["pListLast"]
  BY DEF Past
<1>4. /\ r \in Seq(L) /\ Len(r) = n - 1 /\ DOMAIN r = 1..n - 1
      /\ \A j \in 1..n - 1 : r[j] = w[k(j)]
  <2> HIDE DEF r
  <2>1. w \in Seq(L) /\ i \in 1..Len(w)
    BY <1>1
  <2>2. /\ r \in Seq(L) /\ Len(r) = Len(w) - 1 /\ DOMAIN r = 1..Len(w) - 1
        /\ \A j \in 1..Len(w) - 1 : r[j] = IF j < i THEN w[j] ELSE w[j + 1]
    BY <2>1, RemoveAtIs DEF r
  <2> QED
    BY <2>2
<1>5. p \in L /\ last = (IF i = 1 THEN NULL ELSE w[i - 1]) /\ next = (IF i = n THEN NULL ELSE w[i + 1])
  BY <1>1
<1> HIDE DEF m, m2, n, r, p, next, last
<1>6. ASSUME NEW j \in 1..n - 1
      PROVE  k(j) \in 1..n /\ k(j) # i /\ w[k(j)] \in K
  <2>1. k(j) \in 1..n /\ k(j) # i
    BY <1>1
  <2>2. w[k(j)] # p
    BY <2>1, <1>1 DEF p
  <2> QED
    BY <2>1, <2>2, <1>1
<1>7. r \in Seq(K)
  <2>1. \A j \in 1..n - 1 : r[j] \in K
    BY <1>4, <1>6
  <2>2. n - 1 \in Nat
    BY <1>1
  <2> HIDE DEF K, k
  <2>3. r = [j \in 1..n - 1 |-> r[j]]
    <3>1. r \in [1..n - 1 -> L]
      BY <1>4, LenProperties
    <3> QED
      BY <3>1
  <2>4. r \in [1..n - 1 -> K]
    BY <2>1, <2>3
  <2> QED
    BY <2>2, <2>4
<1>8. Range(r) = K
  <2>1. ASSUME NEW x \in K PROVE \E j \in DOMAIN r : r[j] = x
    <3>1. PICK y \in 1..n : w[y] = x
      BY <1>1 DEF Range
    <3>2. y # i
      BY <3>1 DEF p
    <3>3. CASE y < i
      <4>1. y \in 1..n - 1 /\ k(y) = y
        BY <3>3, <1>1
      <4> QED
        BY <4>1, <3>1, <1>4
    <3>4. CASE y > i
      <4>1. y - 1 \in 1..n - 1 /\ k(y - 1) = y
        BY <3>4, <1>1
      <4> QED
        BY <4>1, <3>1, <1>4
    <3> QED
      BY <3>2, <3>3, <3>4, <1>1
  <2>2. \A j \in DOMAIN r : r[j] \in K
    BY <1>4, <1>6
  <2> HIDE DEF K
  <2> QED
    BY <2>1, <2>2 DEF Range
<1>9. IsInjective(r)
  <2>1. ASSUME NEW x \in DOMAIN r, NEW y \in DOMAIN r, r[x] = r[y] PROVE x = y
    <3>1. k(x) \in 1..n /\ k(y) \in 1..n /\ w[k(x)] = w[k(y)]
      BY <2>1, <1>4, <1>6
    <3>2. k(x) = k(y)
      <4> HIDE DEF k
      <4> QED
        BY <3>1, <1>1
    <3> QED
      BY <3>2, <1>1, <1>4
  <2> QED
    BY <2>1 DEF IsInjective
<1>10. IsFiniteSet(K) /\ Cardinality(K) = n - 1
  BY <1>1, <1>5, FS_RemoveElement
<1>11. K # {} => 1 \in DOMAIN r /\ r[1] = s2.pListHead
  <2> SUFFICES ASSUME K # {} PROVE 1 \in DOMAIN r /\ r[1] = s2.pListHead
    OBVIOUS
  <2>1. 1 \in 1..n - 1
    <3>1. DOMAIN r # {}
      BY <1>8 DEF Range
    <3> QED
      BY <3>1, <1>1, <1>4
  <2>2. w[1] = s.pListHead /\ r[1] = w[k(1)]
    BY <2>1, <1>1, <1>4, <1>5
  <2>3. CASE i = 1
    <3>1. i # n /\ r[1] = w[2] /\ last = NULL /\ next = w[2]
      BY <2>1, <2>2, <2>3, <1>1, <1>5
    <3> QED
      BY <3>1, <2>1, <1>3, <1>4
  <2>4. CASE i # 1
    <3>1. i - 1 \in 1..n /\ last = w[i - 1] /\ k(1) = 1
      BY <2>4, <1>1, <1>5
    <3>2. last # NULL
      BY <3>1, <1>1, <1>2
    <3> QED
      BY <3>1, <3>2, <2>1, <2>2, <1>3, <1>4
  <2> QED
    BY <2>3, <2>4
<1>12. ASSUME NEW j \in 1..n - 1
       PROVE  m2[r[j]]["pListLast"] = IF j = 1 THEN NULL ELSE r[j - 1]
  <2> DEFINE c == r[j]
  <2>1. c \in K /\ c = w[k(j)] /\ k(j) \in 1..n
    BY <1>4, <1>6
  <2>2. m2[c]["pListLast"] = IF c = next THEN last ELSE m[c]["pListLast"]
    BY <2>1, <1>3
  <2>3. m[c]["pListLast"] = IF k(j) = 1 THEN NULL ELSE w[k(j) - 1]
    <3> HIDE DEF k
    <3> QED
      BY <2>1, <1>1
  <2>4. j # 1 => r[j - 1] = w[k(j - 1)]
    BY <1>1, <1>4
  <2>5. c = next <=> j = i
    <3>1. CASE j = i
      BY <3>1, <2>1, <1>1, <1>5
    <3>2. CASE j # i
      <4>1. k(j) # i + 1
        BY <3>2, <1>1
      <4>2. i # n => i + 1 \in 1..n
        BY <1>1
      <4>3. c \in L /\ c # NULL
        BY <2>1, <1>2
      <4>4. i # n => w[i + 1] # w[k(j)]
        <5> HIDE DEF k
        <5> QED
          BY <4>1, <4>2, <2>1, <1>1
      <4> QED
        BY <4>3, <4>4, <3>2, <2>1, <1>5
    <3> QED
      BY <3>1, <3>2
  <2> HIDE DEF c
  <2>6. CASE j = i
    <3>1. m2[c]["pListLast"] = last
      BY <2>2, <2>5, <2>6
    <3>2. j # 1 => r[j - 1] = w[i - 1]
      BY <2>4, <2>6, <1>1
    <3> QED
      BY <3>1, <3>2, <2>6, <1>5 DEF c
  <2>7. CASE j < i
    <3>1. m2[c]["pListLast"] = IF j = 1 THEN NULL ELSE w[j - 1]
      BY <2>2, <2>3, <2>5, <2>7, <1>1
    <3>2. j # 1 => r[j - 1] = w[j - 1]
      BY <2>4, <2>7, <1>1
    <3> QED
      BY <3>1, <3>2 DEF c
  <2>8. CASE j > i
    <3>1. m2[c]["pListLast"] = w[j] /\ j # 1
      BY <2>2, <2>3, <2>5, <2>8, <1>1
    <3>2. r[j - 1] = w[j]
      BY <2>4, <2>8, <1>1
    <3> QED
      BY <3>1, <3>2 DEF c
  <2> QED
    BY <2>6, <2>7, <2>8, <1>1
<1>13. ASSUME NEW j \in 1..n - 1
       PROVE  m2[r[j]]["pListNext"] = IF j = n - 1 THEN NULL ELSE r[j + 1]
  <2> DEFINE c == r[j]
  <2>1. c \in K /\ c = w[k(j)] /\ k(j) \in 1..n
    BY <1>4, <1>6
  <2>2. m2[c]["pListNext"] = IF c = last THEN next ELSE m[c]["pListNext"]
    BY <2>1, <1>3
  <2>3. m[c]["pListNext"] = IF k(j) = n THEN NULL ELSE w[k(j) + 1]
    <3> HIDE DEF k
    <3> QED
      BY <2>1, <1>1
  <2>4. j # n - 1 => r[j + 1] = w[k(j + 1)]
    BY <1>1, <1>4
  <2>5. c = last <=> j = i - 1
    <3>1. CASE j = i - 1
      BY <3>1, <2>1, <1>1, <1>5
    <3>2. CASE j # i - 1
      <4>1. k(j) # i - 1
        BY <3>2, <1>1
      <4>2. i # 1 => i - 1 \in 1..n
        BY <1>1
      <4>3. c \in L /\ c # NULL
        BY <2>1, <1>2
      <4>4. i # 1 => w[i - 1] # w[k(j)]
        <5> HIDE DEF k
        <5> QED
          BY <4>1, <4>2, <2>1, <1>1
      <4> QED
        BY <4>3, <4>4, <3>2, <2>1, <1>5
    <3> QED
      BY <3>1, <3>2
  <2> HIDE DEF c
  <2>6. CASE j = i - 1
    <3>1. m2[c]["pListNext"] = next
      BY <2>2, <2>5, <2>6
    <3>2. j # n - 1 => r[j + 1] = w[i + 1]
      BY <2>4, <2>6, <1>1
    <3> QED
      BY <3>1, <3>2, <2>6, <1>1, <1>5 DEF c
  <2>7. CASE j < i - 1
    <3>1. m2[c]["pListNext"] = w[j + 1] /\ j # n - 1
      BY <2>2, <2>3, <2>5, <2>7, <1>1
    <3>2. r[j + 1] = w[j + 1]
      BY <3>1, <2>4, <2>7, <1>1
    <3> QED
      BY <3>1, <3>2 DEF c
  <2>8. CASE j > i - 1
    <3>1. m2[c]["pListNext"] = IF j = n - 1 THEN NULL ELSE w[j + 2]
      BY <2>2, <2>3, <2>5, <2>8, <1>1
    <3>2. j # n - 1 => r[j + 1] = w[j + 2]
      BY <2>4, <2>8, <1>1
    <3> QED
      BY <3>1, <3>2 DEF c
  <2> QED
    BY <2>6, <2>7, <2>8, <1>1
<1>14. Len(r) = Cardinality(K) /\ DOMAIN r = 1..n - 1 /\ Len(r) = n - 1
  BY <1>4, <1>10
<1> HIDE DEF K
<1>15. Order(s2, K, r)
  BY <1>7, <1>8, <1>9, <1>10, <1>11, <1>12, <1>13, <1>14 DEF Order, Walks, m2
<1> QED
  BY <1>15 DEF K, r, p

\* What an element is to the map.
Elem == [key : [h : Nat, name : Nat], data : Values \cup {0}]

ElemOf(s, c) == [key |-> s.mem[c].key, data |-> s.mem[c].data]

LEMMA ElemsIs ==
  ASSUME NEW s, NEW L, Sound(s, L)
  PROVE  /\ Elems(s) \in Seq(Elem) /\ Len(Elems(s)) = Len(List(s))
         /\ DOMAIN Elems(s) = DOMAIN List(s) /\ DOMAIN Elems(s) = 1..Len(List(s))
         /\ \A i \in DOMAIN List(s) : /\ Elems(s)[i] = ElemOf(s, List(s)[i])
                                      /\ List(s)[i] \in L
         /\ List(s) \in Seq(L)
<1> DEFINE l == List(s)
           e == Elems(s)
<1>1. l \in Seq(L)
  BY ListSound DEF Order, Walks
<1>2. e = [i \in DOMAIN l |-> ElemOf(s, l[i])]
  BY DEF Elems, ElemOf
<1> HIDE DEF l, e
<1>3. DOMAIN l = 1..Len(l) /\ Len(l) \in Nat /\ \A i \in DOMAIN l : l[i] \in L
  BY <1>1
<1>4. ASSUME NEW c \in L PROVE ElemOf(s, c) \in Elem
  <2>1. s.mem[c] \in Bucket
    BY SoundCells DEF Table
  <2> QED
    BY <2>1 DEF Bucket, Elem, ElemOf
<1>5. e \in [1..Len(l) -> Elem]
  BY <1>2, <1>3, <1>4
<1>6. e \in Seq(Elem) /\ Len(e) = Len(l)
  BY <1>3, <1>5
<1> QED
  BY <1>1, <1>2, <1>3, <1>5, <1>6 DEF l, e

\* The order does not change.
LEMMA OrderStays ==
  ASSUME NEW s, NEW s2, NEW L, Sound(s, L), Sound(s2, L), s2.pListHead = s.pListHead,
         \A c \in L : /\ s2.mem[c]["pListNext"] = s.mem[c]["pListNext"]
                      /\ s2.mem[c]["pListLast"] = s.mem[c]["pListLast"]
  PROVE  /\ List(s2) = List(s)
         /\ s2.pInternalPointer = s.pInternalPointer => Cursor(s2) = Cursor(s)
<1> DEFINE w == List(s)
<1>1. Order(s, L, w)
  BY ListSound
<1> HIDE DEF w
<1>2. Order(s2, L, w)
  <2>1. Walks(s, w, L, s.pListHead, "pListNext", "pListLast")
    BY <1>1 DEF Order
  <2>2. \A i \in DOMAIN w : w[i] \in L
    BY <2>1 DEF Walks
  <2>3. Walks(s2, w, L, s2.pListHead, "pListNext", "pListLast")
    BY <2>1, <2>2 DEF Walks
  <2> QED
    BY <2>3 DEF Order
<1>3. List(s2) = w
  BY <1>2, OrderIs
<1>4. List(s2) = List(s)
  BY <1>3 DEF w
<1> QED
  BY <1>4 DEF Cursor

\* The map does not change.
LEMMA SameIs ==
  ASSUME NEW s, NEW s2, NEW L, Sound(s, L), Sound(s2, L), s2.pListHead = s.pListHead,
         s2.pInternalPointer = s.pInternalPointer, SameData(s, s2, L),
         \A c \in L : /\ s2.mem[c]["pListNext"] = s.mem[c]["pListNext"]
                      /\ s2.mem[c]["pListLast"] = s.mem[c]["pListLast"]
  PROVE  Elems(s2) = Elems(s) /\ Cursor(s2) = Cursor(s)
<1>4. List(s2) = List(s) /\ Cursor(s2) = Cursor(s)
  BY OrderStays
<1>5. Elems(s2) = Elems(s)
  <2>1. \A i \in DOMAIN List(s) : List(s)[i] \in L
    BY ElemsIs
  <2> HIDE DEF List
  <2> QED
    BY <2>1, <1>4 DEF Elems, SameData
<1> QED
  BY <1>4, <1>5

\* The data of one element changes.
LEMMA DataOf ==
  ASSUME NEW s, NEW s2, NEW L, Sound(s, L), Sound(s2, L), List(s2) = List(s), NEW v,
         NEW i \in DOMAIN List(s),
         \A c \in L : /\ s2.mem[c].key = s.mem[c].key
                      /\ s2.mem[c].data = IF c = List(s)[i] THEN v ELSE s.mem[c].data
  PROVE  Elems(s2) = [Elems(s) EXCEPT ![i].data = v]
<1> DEFINE w == List(s)
<1>1. \A x, y \in DOMAIN w : w[x] = w[y] => x = y
  BY ListIs DEF Walks, IsInjective
<1>2. \A j \in DOMAIN w : w[j] \in L
  BY ElemsIs
<1> HIDE DEF w
<1>3. /\ Elems(s) = [j \in DOMAIN w |-> ElemOf(s, w[j])]
      /\ Elems(s2) = [j \in DOMAIN w |-> ElemOf(s2, w[j])] /\ i \in DOMAIN w
  BY DEF Elems, ElemOf, w
<1>4. ASSUME NEW j \in DOMAIN w
      PROVE  ElemOf(s2, w[j]) = IF j = i THEN [ElemOf(s, w[j]) EXCEPT !.data = v]
                                ELSE ElemOf(s, w[j])
  <2>1. /\ w[j] \in L /\ (w[j] = w[i] <=> j = i)
        /\ s2.mem[w[j]].key = s.mem[w[j]].key
        /\ s2.mem[w[j]].data = IF j = i THEN v ELSE s.mem[w[j]].data
    BY <1>1, <1>2, <1>3 DEF w
  <2> QED
    BY <2>1 DEF ElemOf
<1> QED
  BY <1>3, <1>4

LEMMA AddIs ==
  ASSUME NEW s, NEW L, Sound(s, L), NEW p \in Cells, p \notin L, NEW k, NEW v, NEW s2,
         InsertOK(s, s2, L, p, k, v)
  PROVE  /\ Elems(s2) = Append(Elems(s), [key |-> k, data |-> v])
         /\ Cursor(s2) = IF Cursor(s) = 0 THEN Len(Elems(s)) + 1 ELSE Cursor(s)
<1> DEFINE K  == L \cup {p}
           w  == List(s)
           w2 == List(s2)
           n  == Len(w)
           E  == Elems(s)
           E2 == Elems(s2)
           x  == [key |-> k, data |-> v]
<1>1. Sound(s2, K) /\ Joined(s, s2, L, p) /\ Holds(s, s2, L, p, k, v)
  BY DEF InsertOK
<1>2. w2 = Append(w, p)
  <2>1. Order(s, L, w)
    BY ListSound
  <2> HIDE DEF w
  <2>2. Order(s2, K, Append(w, p))
    BY <2>1, <1>1, OrderJoined
  <2> HIDE DEF K
  <2> QED
    BY <2>2, <1>1, OrderIs
<1>3. /\ E \in Seq(Elem) /\ Len(E) = n /\ w \in Seq(L) /\ DOMAIN w = 1..n
      /\ \A i \in 1..n : E[i] = ElemOf(s, w[i]) /\ w[i] \in L
  BY ElemsIs
<1>4. /\ E2 \in Seq(Elem) /\ Len(E2) = Len(w2) /\ DOMAIN w2 = 1..Len(w2)
      /\ \A i \in 1..Len(w2) : E2[i] = ElemOf(s2, w2[i]) /\ w2[i] \in K
  <2> HIDE DEF K
  <2> QED
    BY <1>1, ElemsIs
<1>5. /\ s.pInternalPointer = NULL => Cursor(s) = 0
      /\ \A i \in DOMAIN w : s.pInternalPointer = w[i] => Cursor(s) = i
      /\ s.pInternalPointer # NULL => \E i \in DOMAIN w : s.pInternalPointer = w[i]
  BY CursorIs
<1>6. \A i \in DOMAIN w2 : s2.pInternalPointer = w2[i] => Cursor(s2) = i
  <2> HIDE DEF K
  <2> QED
    BY <1>1, CursorIs
<1> HIDE DEF w, w2, E, E2
<1>7. /\ Len(w2) = n + 1 /\ n \in Nat /\ w2[n + 1] = p
      /\ \A i \in 1..n : w2[i] = w[i]
  BY <1>2, <1>3
<1> HIDE DEF n
<1>8. x \in Elem /\ x = E2[n + 1]
  <2>1. n + 1 \in 1..Len(w2)
    BY <1>7
  <2>2. E2[n + 1] = ElemOf(s2, p)
    BY <2>1, <1>4, <1>7
  <2>3. ElemOf(s2, p) = x
    BY <1>1 DEF Holds, ElemOf
  <2>4. E2[n + 1] \in Elem
    BY <2>1, <1>4
  <2> QED
    BY <2>2, <2>3, <2>4
<1> HIDE DEF x
<1>9. \A i \in 1..n : E2[i] = E[i]
  <2> SUFFICES ASSUME NEW i \in 1..n PROVE E2[i] = E[i]
    OBVIOUS
  <2>1. i \in 1..Len(w2) /\ w2[i] = w[i] /\ w[i] \in L
    BY <1>3, <1>7
  <2>2. ElemOf(s2, w[i]) = ElemOf(s, w[i])
    BY <2>1, <1>1 DEF Holds, ElemOf
  <2> QED
    BY <2>1, <2>2, <1>3, <1>4
<1>10. E2 = Append(E, x)
  <2>1. Append(E, x) \in Seq(Elem) /\ Len(Append(E, x)) = n + 1
    BY <1>3, <1>8
  <2>2. \A i \in 1..n + 1 : Append(E, x)[i] = IF i = n + 1 THEN x ELSE E[i]
    BY <1>3, <1>7, <1>8
  <2>3. E2 \in Seq(Elem) /\ Len(E2) = n + 1
    BY <1>4, <1>7
  <2>4. ASSUME NEW i \in 1..n + 1 PROVE E2[i] = Append(E, x)[i]
    <3>1. Append(E, x)[i] = IF i = n + 1 THEN x ELSE E[i]
      BY <2>2
    <3>2. i = n + 1 \/ i \in 1..n
      BY <1>7
    <3> QED
      BY <3>1, <3>2, <1>8, <1>9
  <2> QED
    BY <2>1, <2>3, <2>4, SeqSame
<1>11. Cursor(s2) = IF Cursor(s) = 0 THEN n + 1 ELSE Cursor(s)
  <2>1. s2.pInternalPointer = IF s.pInternalPointer = NULL THEN p ELSE s.pInternalPointer
    BY <1>1 DEF Joined
  <2>2. DOMAIN w = 1..n /\ DOMAIN w2 = 1..n + 1
    BY <1>3, <1>4, <1>7
  <2>3. CASE s.pInternalPointer = NULL
    <3>1. n + 1 \in DOMAIN w2 /\ s2.pInternalPointer = w2[n + 1]
      BY <2>1, <2>2, <2>3, <1>7
    <3> QED
      BY <3>1, <2>3, <1>5, <1>6
  <2>4. CASE s.pInternalPointer # NULL
    <3>1. PICK i \in 1..n : s.pInternalPointer = w[i]
      BY <2>2, <2>4, <1>5
    <3>2. i \in DOMAIN w2 /\ s2.pInternalPointer = w2[i] /\ i \in DOMAIN w /\ i # 0
      BY <3>1, <2>1, <2>2, <2>4, <1>7
    <3> QED
      BY <3>1, <3>2, <1>5, <1>6
  <2> QED
    BY <2>3, <2>4
<1> QED
  BY <1>3, <1>10, <1>11 DEF E, E2, x

LEMMA RemoveIs ==
  ASSUME NEW s, NEW L, Sound(s, L), NEW i \in DOMAIN List(s), NEW s2,
         Sound(s2, L \ {List(s)[i]}), Past(s, s2, L, List(s)[i]),
         SameData(s, s2, L \ {List(s)[i]})
  PROVE  /\ Elems(s2) = RemoveAt(Elems(s), i)
         /\ Cursor(s2) = IF Cursor(s) = i /\ i = Len(Elems(s)) THEN 0
                         ELSE IF Cursor(s) > i THEN Cursor(s) - 1 ELSE Cursor(s)
<1> DEFINE w  == List(s)
           w2 == List(s2)
           p  == w[i]
           K  == L \ {p}
           n  == Len(w)
           E  == Elems(s)
           E2 == Elems(s2)
           R  == RemoveAt(E, i)
<1>1. Order(s, L, w)
  BY ListSound
<1>2. w2 = RemoveAt(w, i)
  <2>1. i \in DOMAIN w /\ Past(s, s2, L, w[i]) /\ Sound(s2, L \ {w[i]})
    OBVIOUS
  <2> HIDE DEF w
  <2>2. Order(s2, L \ {w[i]}, RemoveAt(w, i))
    BY <2>1, <1>1, OrderRemoved
  <2> DEFINE M == L \ {w[i]}
             a == RemoveAt(w, i)
  <2>3. Order(s2, M, a) /\ Sound(s2, M)
    BY <2>1, <2>2
  <2> HIDE DEF M, a
  <2>4. List(s2) = a
    BY <2>3, OrderIs
  <2> QED
    BY <2>4 DEF a
<1>3. /\ E \in Seq(Elem) /\ Len(E) = n /\ w \in Seq(L) /\ DOMAIN w = 1..n
      /\ \A j \in 1..n : E[j] = ElemOf(s, w[j]) /\ w[j] \in L
  BY ElemsIs
<1>4. Sound(s2, K) /\ SameData(s, s2, K) /\ p \in L
  BY <1>3
<1>5. /\ E2 \in Seq(Elem) /\ Len(E2) = Len(w2) /\ DOMAIN w2 = 1..Len(w2)
      /\ \A j \in 1..Len(w2) : E2[j] = ElemOf(s2, w2[j]) /\ w2[j] \in K
  <2> HIDE DEF K
  <2> QED
    BY <1>4, ElemsIs
<1>6. /\ s.pInternalPointer = NULL => Cursor(s) = 0
      /\ \A j \in DOMAIN w : s.pInternalPointer = w[j] => Cursor(s) = j
      /\ s.pInternalPointer # NULL => \E j \in DOMAIN w : s.pInternalPointer = w[j]
  BY CursorIs
<1>7. /\ s2.pInternalPointer = NULL => Cursor(s2) = 0
      /\ \A j \in DOMAIN w2 : s2.pInternalPointer = w2[j] => Cursor(s2) = j
  <2> HIDE DEF K
  <2> QED
    BY <1>4, CursorIs
<1>8. s2.pInternalPointer = IF s.pInternalPointer = p THEN s.mem[p]["pListNext"]
                            ELSE s.pInternalPointer
  BY DEF Past
<1>9. s.mem[p]["pListNext"] = IF i = n THEN NULL ELSE w[i + 1]
  BY <1>1 DEF Order, Walks
<1>10. \A x, y \in DOMAIN w : w[x] = w[y] => x = y
  BY <1>1 DEF Order, Walks, IsInjective
<1>16. NULL \notin L
  BY NotNull, SoundCells
<1>11. i \in 1..n
  BY <1>3
<1> HIDE DEF w, w2, E, E2
<1>12. /\ Len(w2) = n - 1 /\ n \in Nat
       /\ \A j \in 1..n - 1 : w2[j] = IF j < i THEN w[j] ELSE w[j + 1]
  <2>1. w \in Seq(L) /\ i \in 1..Len(w)
    BY <1>3, <1>11
  <2> QED
    BY <2>1, <1>2, RemoveAtIs
<1>13. /\ R \in Seq(Elem) /\ Len(R) = n - 1
       /\ \A j \in 1..n - 1 : R[j] = IF j < i THEN E[j] ELSE E[j + 1]
  <2>1. E \in Seq(Elem) /\ i \in 1..Len(E)
    BY <1>3, <1>11
  <2> QED
    BY <2>1, <1>3, RemoveAtIs
<1> HIDE DEF n, R, p, K
<1>14. E2 = R
  <2>1. ASSUME NEW j \in 1..n - 1 PROVE E2[j] = R[j]
    <3> DEFINE y == IF j < i THEN j ELSE j + 1
    <3>1. y \in 1..n /\ w2[j] = w[y] /\ R[j] = E[y]
      BY <1>11, <1>12, <1>13
    <3>2. E2[j] = ElemOf(s2, w2[j]) /\ w2[j] \in K
      BY <1>5, <1>12
    <3>3. ElemOf(s2, w2[j]) = ElemOf(s, w2[j])
      BY <3>2, <1>4 DEF SameData, ElemOf
    <3>4. E[y] = ElemOf(s, w[y])
      BY <3>1, <1>3
    <3> QED
      BY <3>1, <3>2, <3>3, <3>4
  <2>2. E2 \in Seq(Elem) /\ Len(E2) = n - 1
    BY <1>5, <1>12
  <2> QED
    BY <2>1, <2>2, <1>13, SeqSame
<1>15. Cursor(s2) = IF Cursor(s) = i /\ i = n THEN 0
                    ELSE IF Cursor(s) > i THEN Cursor(s) - 1 ELSE Cursor(s)
  <2>1. DOMAIN w = 1..n /\ DOMAIN w2 = 1..n - 1
    BY <1>3, <1>5, <1>12
  <2>2. CASE s.pInternalPointer = NULL
    <3>1. s2.pInternalPointer = NULL
      BY <2>2, <1>4, <1>8, <1>16
    <3> QED
      BY <3>1, <2>2, <1>6, <1>7, <1>11
  <2>3. CASE s.pInternalPointer # NULL
    <3>1. PICK j \in 1..n : s.pInternalPointer = w[j]
      BY <2>1, <2>3, <1>6
    <3>2. Cursor(s) = j
      BY <3>1, <2>1, <1>6
    <3>3. CASE j = i /\ i = n
      <4>1. s2.pInternalPointer = NULL
        BY <3>1, <3>3, <1>8, <1>9 DEF p
      <4> QED
        BY <4>1, <3>2, <3>3, <1>7
    <3>4. CASE j = i /\ i # n
      <4>1. s2.pInternalPointer = w[i + 1]
        BY <3>1, <3>4, <1>8, <1>9 DEF p
      <4>2. i \in 1..n - 1 /\ w2[i] = w[i + 1]
        BY <3>4, <1>11, <1>12
      <4>3. Cursor(s2) = i
        BY <4>1, <4>2, <2>1, <1>7
      <4> QED
        BY <4>3, <3>2, <3>4, <1>11
    <3>5. CASE j < i
      <4>1. w[j] # p
        BY <3>5, <2>1, <1>10, <1>11 DEF p
      <4>2. j \in 1..n - 1 /\ w2[j] = w[j] /\ s2.pInternalPointer = w[j]
        BY <4>1, <3>1, <3>5, <1>8, <1>11, <1>12
      <4>3. Cursor(s2) = j
        BY <4>2, <2>1, <1>7
      <4> QED
        BY <4>3, <3>2, <3>5, <1>11
    <3>6. CASE j > i
      <4>1. w[j] # p
        BY <3>6, <2>1, <1>10, <1>11 DEF p
      <4>2. j - 1 \in 1..n - 1 /\ w2[j - 1] = w[j] /\ s2.pInternalPointer = w[j]
        BY <4>1, <3>1, <3>6, <1>8, <1>11, <1>12
      <4>3. Cursor(s2) = j - 1
        BY <4>2, <2>1, <1>7
      <4> QED
        BY <4>3, <3>2, <3>6, <1>11
    <3> QED
      BY <3>3, <3>4, <3>5, <3>6, <1>11
  <2> QED
    BY <2>2, <2>3
<1> QED
  BY <1>3, <1>14, <1>15 DEF E, E2, R

(***************************************************************************)
(* The table implements the ordered map.                                   *)
(***************************************************************************)
\* The abstract state of the next state.
LEMMA AbstractNext == AbstractElems' = Elems(t') /\ AbstractCursor' = Cursor(t')
  BY DEF AbstractElems, AbstractCursor, Elems, Cursor

\* Every element is one of the map, with its key.
LEMMA KeyOf ==
  ASSUME NEW s, NEW L, Sound(s, L)
  PROVE  /\ \A i \in DOMAIN Elems(s) : Elems(s)[i].key = s.mem[List(s)[i]].key
         /\ \A p \in L : \E i \in DOMAIN List(s) : List(s)[i] = p
         /\ \A i \in DOMAIN List(s) : List(s)[i] \in L
         /\ DOMAIN Elems(s) = DOMAIN List(s) /\ DOMAIN List(s) = 1..Len(List(s))
         /\ Len(Elems(s)) = Len(List(s)) /\ Len(List(s)) \in Nat
         /\ Elems(s) \in Seq(Elem)
<1>1. Range(List(s)) = L
  BY ListIs DEF Walks
<1>2. \A p \in L : \E i \in DOMAIN List(s) : List(s)[i] = p
  <2> DEFINE w == List(s)
  <2>1. Range(w) = L
    BY <1>1
  <2> HIDE DEF w
  <2>2. \A p \in L : \E i \in DOMAIN w : w[i] = p
    BY <2>1 DEF Range
  <2> QED
    BY <2>2 DEF w
<1>3. Len(List(s)) \in Nat
  BY CursorIs
<1>4. /\ Elems(s) \in Seq(Elem) /\ Len(Elems(s)) = Len(List(s))
      /\ DOMAIN Elems(s) = DOMAIN List(s) /\ DOMAIN Elems(s) = 1..Len(List(s))
      /\ \A i \in DOMAIN List(s) : Elems(s)[i] = ElemOf(s, List(s)[i]) /\ List(s)[i] \in L
  BY ElemsIs
<1>5. \A i \in DOMAIN Elems(s) : Elems(s)[i].key = s.mem[List(s)[i]].key
  BY <1>4 DEF ElemOf
<1> QED
  BY <1>2, <1>3, <1>4, <1>5

\* A step that leaves the elements, the cursor and the next index alone.
LEMMA MapStutter ==
  ASSUME Elems(t') = Elems(t), Cursor(t') = Cursor(t),
         t'.nNextFreeElement = t.nNextFreeElement
  PROVE  UNCHANGED Map!mapvars
  BY AbstractIs, AbstractNext DEF Map!mapvars

LEMMA InsertMap ==
  ASSUME IInv, NEW k \in Keys, NEW v \in Values, Insert(k, v)
  PROVE  Map!Add(k, v)
<1>1. PICK L \in SUBSET Cells : Good(t, L, stack)
  BY DEF IInv
<1> DEFINE p  == Min(FreeCells)
           s  == t
           s2 == t'
<1>2. /\ Sound(t, L) /\ p \in Cells /\ p \notin L /\ InsertOK(s, s2, L, p, k, v)
      /\ \A c \in L : t.mem[c].key # k
  BY <1>1, InsertStep DEF Good
<1> HIDE DEF p, s, s2
<1>3. /\ Elems(s2) = Append(Elems(s), [key |-> k, data |-> v])
      /\ Cursor(s2) = IF Cursor(s) = 0 THEN Len(Elems(s)) + 1 ELSE Cursor(s)
  BY <1>2, AddIs DEF s
<1>4. s2.nNextFreeElement = NextFree(s, k)
  BY <1>2 DEF InsertOK, Holds
<1>5. \A i \in DOMAIN Elems(t) : Elems(t)[i].key # k
  BY <1>2, KeyOf
<1>6. Map!At(k) = {}
  BY <1>5, AbstractIs DEF Map!At
<1>7. Map!After(k) = NextFree(t, k)
  BY DEF Map!After, NextFree
<1>8. /\ AbstractElems' = Append(AbstractElems, [key |-> k, data |-> v])
      /\ AbstractCursor' = IF AbstractCursor = 0 THEN Len(AbstractElems) + 1
                           ELSE AbstractCursor
  BY <1>3, AbstractIs, AbstractNext DEF s, s2
<1> QED
  BY <1>4, <1>6, <1>7, <1>8 DEF Map!Add, s, s2

\* The new data of an element shows when its old data has been destroyed.
LEMMA UpdateMap ==
  ASSUME IInv, UpdateReturn
  PROVE  \E k \in AllKeys, v \in Values : Map!Overwrite(k, v)
<1>1. PICK L \in SUBSET Cells : Good(t, L, stack)
  BY DEF IInv
<1> DEFINE f  == Top
           p  == f.p
           v  == f.data
           k  == t.mem[p].key
           s2 == Bump(Set(t, p, "data", v), k)
<1>2. Running({"update"}, "dtor") /\ t' = s2
  BY DEF UpdateReturn
<1>3. Sound(t, L) /\ f.op = "update" /\ FrameOK(t, L, f)
  BY <1>1, <1>2, RunningIs DEF Good
<1> HIDE DEF f
<1>4. p \in L /\ v \in Values /\ k \in AllKeys
  BY <1>3 DEF FrameOK, UpdateOK, Sound, Keyed
<1> HIDE DEF p, v
<1>5. /\ Sound(s2, L) /\ Stays(t, s2, L) /\ s2.pInternalPointer = t.pInternalPointer
      /\ s2.nNextFreeElement = NextFree(t, k)
      /\ \A c \in L : s2.mem[c].data = IF c = p THEN v ELSE t.mem[c].data
  BY <1>3, <1>4, DataIs
<1> HIDE DEF s2
<1>6. \A c \in L : /\ s2.mem[c]["pListNext"] = t.mem[c]["pListNext"]
                   /\ s2.mem[c]["pListLast"] = t.mem[c]["pListLast"]
                   /\ s2.mem[c].key = t.mem[c].key
  BY <1>5 DEF Stays, Links
<1>7. List(s2) = List(t) /\ Cursor(s2) = Cursor(t)
  BY <1>3, <1>5, <1>6, OrderStays DEF Stays
<1>8. PICK i \in DOMAIN List(t) : List(t)[i] = p
  BY <1>3, <1>4, KeyOf
<1>9. Elems(s2) = [Elems(t) EXCEPT ![i].data = v]
  BY <1>3, <1>4, <1>5, <1>6, <1>7, <1>8, DataOf
<1>10. i \in Map!At(k)
  <2>1. i \in DOMAIN Elems(t) /\ Elems(t)[i].key = k
    BY <1>3, <1>8, KeyOf
  <2> QED
    BY <2>1, AbstractIs DEF Map!At
<1>11. Map!After(k) = NextFree(t, k)
  BY DEF Map!After, NextFree
<1>12. AbstractElems' = [AbstractElems EXCEPT ![i].data = v] /\ AbstractCursor' = AbstractCursor
  BY <1>2, <1>7, <1>9, AbstractIs, AbstractNext
<1>13. Map!Overwrite(k, v)
  BY <1>2, <1>5, <1>10, <1>11, <1>12 DEF Map!Overwrite
<1> QED
  BY <1>4, <1>13

LEMMA RemoveMap ==
  ASSUME NEW L, Sound(t, L), NEW p \in L, Sound(t', L \ {p}), Past(t, t', L, p),
         SameData(t, t', L \ {p})
  PROVE  \E k \in AllKeys : Map!RemoveKey(k)
<1> DEFINE s  == t
           s2 == t'
           k  == t.mem[p].key
<1>1. PICK i \in DOMAIN List(t) : List(t)[i] = p
  BY KeyOf
<1>2. k \in AllKeys
  BY DEF Sound, Keyed
<1>3. /\ Sound(s, L) /\ i \in DOMAIN List(s) /\ Sound(s2, L \ {List(s)[i]})
      /\ Past(s, s2, L, List(s)[i]) /\ SameData(s, s2, L \ {List(s)[i]})
  BY <1>1
<1>4. s2.nNextFreeElement = s.nNextFreeElement
  BY DEF SameData
<1> HIDE DEF s, s2
<1>5. /\ Elems(s2) = RemoveAt(Elems(s), i)
      /\ Cursor(s2) = IF Cursor(s) = i /\ i = Len(Elems(s)) THEN 0
                      ELSE IF Cursor(s) > i THEN Cursor(s) - 1 ELSE Cursor(s)
  BY ONLY <1>3, RemoveIs
<1>6. i \in Map!At(k)
  <2>1. i \in DOMAIN Elems(t) /\ Elems(t)[i].key = k
    BY <1>1, KeyOf
  <2> QED
    BY <2>1, AbstractIs DEF Map!At
<1>7. /\ AbstractElems' = RemoveAt(AbstractElems, i)
      /\ AbstractCursor' = IF AbstractCursor = i /\ i = Len(AbstractElems) THEN 0
                           ELSE IF AbstractCursor > i THEN AbstractCursor - 1
                           ELSE AbstractCursor
  BY <1>5, AbstractIs, AbstractNext DEF s, s2
<1>8. Map!RemoveKey(k)
  <2>1. Map!RemoveAt(AbstractElems, i) = RemoveAt(AbstractElems, i)
    BY DEF Map!RemoveAt, RemoveAt
  <2> QED
    BY <2>1, <1>4, <1>6, <1>7 DEF Map!RemoveKey, s, s2
<1> QED
  BY <1>2, <1>8

\* An element leaves the map when it is unlinked, before its destructor runs.
LEMMA UnlinkMap ==
  ASSUME NEW L, Sound(t, L), NEW p \in L, t' = Unlink(t, p)
  PROVE  \E j \in AllKeys : Map!RemoveKey(j)
<1> DEFINE s2 == Unlink(t, p)
<1>1. /\ Sound(s2, L \ {p}) /\ Past(t, s2, L, p)
      /\ Keeps(t, s2, {"arBuckets", "pListHead", "pListTail", "pInternalPointer"}, Links)
  BY UnlinkIs
<1>2. t' = s2
  OBVIOUS
<1> HIDE DEF s2
<1>3. SameData(t, s2, L \ {p})
  <2>1. L \ {p} \subseteq Cells
    BY SoundCells
  <2> QED
    BY <2>1, <1>1 DEF Keeps, Fields, Links, SameData
<1> QED
  BY <1>1, <1>2, <1>3, RemoveMap

LEMMA DeleteMap ==
  ASSUME IInv, NEW k \in Keys, Delete(k)
  PROVE  \E j \in AllKeys : Map!RemoveKey(j)
<1>1. PICK L \in SUBSET Cells : Good(t, L, stack)
  BY DEF IInv
<1> DEFINE p == FindDel(t, k)
<1>2. p # NULL /\ t' = Unlink(t, p)
  BY DEF Delete
<1>3. Sound(t, L) /\ k.h \in Nat
  BY <1>1, KeyIs, KeysAll DEF Good
<1>4. p \in L
  BY <1>2, <1>3, FindDelIs
<1> HIDE DEF p
<1> QED
  BY <1>2, <1>3, <1>4, UnlinkMap

LEMMA ReleaseMap ==
  ASSUME NEW L, Sound(t, L), NEW p \in Cells, p \notin L, t' = Release(t, p)
  PROVE  UNCHANGED Map!mapvars
<1> DEFINE s2 == Release(t, p)
<1>2. t' = s2
  OBVIOUS
<1>5. /\ Sound(s2, L) /\ s2.pListHead = t.pListHead
      /\ s2.pInternalPointer = t.pInternalPointer
      /\ s2.nNextFreeElement = t.nNextFreeElement
      /\ \A c \in L : s2.mem[c] = t.mem[c]
  BY ReleaseIs
<1> HIDE DEF s2
<1>6. /\ SameData(t, s2, L)
      /\ \A c \in L : /\ s2.mem[c]["pListNext"] = t.mem[c]["pListNext"]
                      /\ s2.mem[c]["pListLast"] = t.mem[c]["pListLast"]
  BY <1>5 DEF SameData
<1>7. Elems(s2) = Elems(t) /\ Cursor(s2) = Cursor(t)
  BY <1>5, <1>6, SameIs
<1> QED
  BY <1>2, <1>5, <1>7, MapStutter

LEMMA DeleteReturnMap ==
  ASSUME IInv, DeleteReturn
  PROVE  UNCHANGED Map!mapvars
<1>1. PICK L \in SUBSET Cells : Good(t, L, stack)
  BY DEF IInv
<1> DEFINE f == Top
<1>2. Running({"del"}, "dtor") /\ t' = Release(t, f.p)
  BY DEF DeleteReturn
<1>3. Sound(t, L) /\ FrameOK(t, L, f) /\ f.op = "del"
  BY <1>1, <1>2, RunningIs DEF Good
<1> HIDE DEF f
<1>4. f.p \notin L /\ f.p \in Cells
  BY <1>3, SoundCells DEF FrameOK, DelOK
<1> QED
  BY <1>2, <1>3, <1>4, ReleaseMap

LEMMA ApplyDeletedMap ==
  ASSUME IInv, ApplyDeleted
  PROVE  \E k \in AllKeys : Map!RemoveKey(k)
<1>1. PICK L \in SUBSET Cells : Good(t, L, stack)
  BY DEF IInv
<1> DEFINE f == Top
           p == f.p
<1>2. Running({"apply", "graceful"}, "dtor") /\ t' = Deleted(t, p)
  BY DEF ApplyDeleted, Deleted
<1>3. /\ Sound(t, L) /\ FrameOK(t, L, f) /\ f.op \in {"apply", "graceful"}
      /\ f.phase = "dtor"
  BY <1>1, <1>2, RunningIs DEF Good
<1> HIDE DEF f
<1>4. p \in L
  BY <1>3 DEF FrameOK, ApplyOK, GracefulOK
<1> HIDE DEF p
<1>5. /\ Sound(t', L \ {p}) /\ Past(t, t', L, p) /\ SameData(t, t', L \ {p})
  BY <1>2, <1>3, <1>4, DeletedIs
<1> QED
  BY <1>3, <1>4, <1>5, RemoveMap

\* nApplyCount does not show.
LEMMA CountMap ==
  ASSUME NEW L, Sound(t, L), NEW n, t' = [t EXCEPT !.nApplyCount = t.nApplyCount + n],
         n \in Int
  PROVE  UNCHANGED Map!mapvars
<1> DEFINE m  == t.nApplyCount + n
           s2 == [t EXCEPT !.nApplyCount = m]
<1>2. Sound(t, L) /\ t \in Table /\ m \in Int
  BY SoundCells DEF Table
<1> HIDE DEF m
<1>3. Sound(s2, L)
  BY <1>2, ApplyCountIs
<1>4. /\ s2.mem = t.mem /\ s2.pListHead = t.pListHead
      /\ s2.pInternalPointer = t.pInternalPointer
      /\ s2.nNextFreeElement = t.nNextFreeElement
  BY <1>2 DEF Table
<1> HIDE DEF s2
<1>5. Elems(s2) = Elems(t) /\ Cursor(s2) = Cursor(t)
  BY <1>2, <1>3, <1>4, SameIs DEF SameData
<1>6. t' = s2
  BY DEF s2, m
<1> QED
  BY <1>4, <1>5, <1>6, MapStutter

\* A table without elements is the empty map.
LEMMA NoneMap ==
  ASSUME NEW s, Sound(s, {})
  PROVE  Elems(s) = <<>> /\ Cursor(s) = 0
<1>1. s.pInternalPointer = NULL
  BY DEF Sound, Line
<1>2. Cursor(s) = 0
  BY <1>1, CursorIs
<1>3. Elems(s) \in Seq(Elem) /\ Len(Elems(s)) = Len(List(s)) /\ List(s) \in Seq({})
  BY ElemsIs
<1>4. Len(List(s)) = 0
  BY <1>3
<1>5. Elems(s) = <<>>
  BY <1>3, <1>4
<1> QED
  BY <1>2, <1>5

LEMMA EmptyMap ==
  ASSUME NEW al \in SUBSET Cells
  PROVE  LET s == [Empty EXCEPT !.alive = al] IN
         Elems(s) = <<>> /\ Cursor(s) = 0 /\ s.nNextFreeElement = 0
<1> DEFINE s == [Empty EXCEPT !.alive = al]
<1>1. Sound(s, {})
  BY EmptyIs
<1>2. s.nNextFreeElement = 0
  BY DEF Empty
<1> HIDE DEF s
<1> QED
  BY <1>1, <1>2, NoneMap DEF s

LEMMA InitMap == Init => Map!MapInit
<1> SUFFICES ASSUME Init PROVE Map!MapInit
  OBVIOUS
<1> DEFINE s == [Empty EXCEPT !.alive = {}]
<1>1. t = s
  BY EmptyForm DEF Init
<1>2. Elems(s) = <<>> /\ Cursor(s) = 0 /\ s.nNextFreeElement = 0
  BY EmptyMap
<1> HIDE DEF s
<1> QED
  BY <1>1, <1>2, AbstractIs DEF Map!MapInit

LEMMA CleanEndMap ==
  ASSUME IInv, CleanEnd
  PROVE  Map!Clear
<1>1. PICK L \in SUBSET Cells : Good(t, L, stack)
  BY DEF IInv
<1> DEFINE s2 == [Empty EXCEPT !.alive = t.alive]
<1>2. /\ Running({"clean", "destroy", "graceful"}, "end")
      /\ Top.op # "clean" => t' = s2
  BY DEF CleanEnd
<1>3. Sound(t, L) /\ Top \in FrameType /\ Top.op \in {"clean", "destroy", "graceful"}
  BY <1>1, <1>2, RunningIs DEF Good
<1>4. t' = s2 /\ t.alive \in SUBSET Cells
  BY <1>2, <1>3, SoundCells DEF FrameType
<1>5. Elems(s2) = <<>> /\ Cursor(s2) = 0 /\ s2.nNextFreeElement = 0
  BY <1>4, EmptyMap
<1> HIDE DEF s2
<1> QED
  BY <1>4, <1>5, AbstractNext DEF Map!Clear, Map!MapInit

LEMMA PointMap ==
  ASSUME IInv, MovePointer
  PROVE  Map!Point
<1>1. PICK L \in SUBSET Cells : Good(t, L, stack)
  BY DEF IInv
<1> DEFINE ip == t.pInternalPointer
           w  == List(t)
           n  == Len(w)
<1>2. Sound(t, L) /\ t \in Table
  BY <1>1, SoundCells DEF Good
<1>3. PICK p \in {t.pListHead, t.pListTail}
                 \cup (IF ip = NULL THEN {} ELSE {t.mem[ip].pListNext, t.mem[ip].pListLast}) :
        t' = [t EXCEPT !.pInternalPointer = p]
  BY DEF MovePointer
<1> DEFINE s2 == [t EXCEPT !.pInternalPointer = p]
<1>4. /\ ip \in L \cup {NULL} /\ t.pListHead \in L \cup {NULL} /\ t.pListTail \in L \cup {NULL}
      /\ \A c \in L : t.mem[c].pListNext \in L \cup {NULL} /\ t.mem[c].pListLast \in L \cup {NULL}
  BY <1>2 DEF Sound, Line, ListOf, Ends
<1>5. p \in L \cup {NULL}
  BY <1>3, <1>4
<1>6. Sound(s2, L)
  BY <1>2, <1>5, PointerIs
<1>7. /\ s2.mem = t.mem /\ s2.pListHead = t.pListHead /\ s2.pInternalPointer = p
      /\ s2.nNextFreeElement = t.nNextFreeElement
  BY <1>2 DEF Table
<1>8. t' = s2
  BY <1>3
<1> HIDE DEF s2
<1>9. List(s2) = w
  BY <1>2, <1>6, <1>7, OrderStays
<1>10. Elems(s2) = Elems(t)
  BY <1>7, <1>9 DEF Elems
<1>11. /\ p = NULL => Cursor(s2) = 0
       /\ \A i \in DOMAIN w : p = w[i] => Cursor(s2) = i
  BY <1>6, <1>7, <1>9, CursorIs
<1>12. /\ \A i \in DOMAIN w : ip = w[i] => Cursor(t) = i
       /\ ip # NULL => \E i \in DOMAIN w : ip = w[i]
       /\ n \in Nat /\ DOMAIN w = 1..n
  BY <1>2, CursorIs
<1>13. Walks(t, w, L, t.pListHead, "pListNext", "pListLast")
  BY <1>2, ListIs
<1>14. Len(Elems(t)) = n
  BY <1>2, KeyOf
<1>15. /\ Cursor(s2) \in {0, 1, n, Cursor(t) - 1, Cursor(t) + 1}
       /\ Cursor(s2) \in 0..n
  <2>1. CASE p = NULL
    BY <2>1, <1>11, <1>12
  <2>2. CASE p # NULL /\ p = t.pListHead
    <3>1. L # {}
      BY <2>2, <1>4
    <3>2. 1 \in DOMAIN w /\ w[1] = p
      BY <3>1, <2>2, <1>13 DEF Walks
    <3> QED
      BY <3>2, <1>11, <1>12
  <2>3. CASE p # NULL /\ p = t.pListTail
    <3>1. t.pListTail = IF w = <<>> THEN NULL ELSE Last(w)
      BY <1>2, TailIs
    <3>2. w # <<>> /\ p = w[n]
      BY <3>1, <2>3 DEF Last
    <3>3. n \in DOMAIN w
      <4>1. w \in Seq(L)
        BY <1>13 DEF Walks
      <4> HIDE DEF w
      <4> QED
        BY <4>1, <3>2
    <3> QED
      BY <3>2, <3>3, <1>11, <1>12
  <2>4. CASE ip # NULL /\ p # NULL /\ p \in {t.mem[ip].pListNext, t.mem[ip].pListLast}
    <3>1. PICK i \in DOMAIN w : ip = w[i]
      BY <2>4, <1>12
    <3>2. /\ t.mem[w[i]]["pListLast"] = IF i = 1 THEN NULL ELSE w[i - 1]
          /\ t.mem[w[i]]["pListNext"] = IF i = n THEN NULL ELSE w[i + 1]
      BY <1>13 DEF Walks
    <3>3. p \in {IF i = 1 THEN NULL ELSE w[i - 1], IF i = n THEN NULL ELSE w[i + 1]}
      BY <3>1, <3>2, <2>4
    <3> HIDE DEF w, n
    <3>4. i \in 1..n /\ Cursor(t) = i
      BY <3>1, <1>12
    <3>5. CASE i # 1 /\ p = w[i - 1]
      <4>1. i - 1 \in 1..n
        BY <3>4, <3>5, <1>12
      <4>2. Cursor(s2) = i - 1
        BY <4>1, <3>5, <1>11, <1>12
      <4> QED
        BY <4>1, <4>2, <3>4, <1>12
    <3>6. CASE i # n /\ p = w[i + 1]
      <4>1. i + 1 \in 1..n
        BY <3>4, <3>6, <1>12
      <4>2. Cursor(s2) = i + 1
        BY <4>1, <3>6, <1>11, <1>12
      <4> QED
        BY <4>1, <4>2, <3>4, <1>12
    <3> QED
      BY <3>3, <3>5, <3>6, <2>4
  <2> QED
    BY <2>1, <2>2, <2>3, <2>4, <1>3
<1>16. AbstractElems' = AbstractElems /\ AbstractCursor = Cursor(t) /\ AbstractCursor' = Cursor(s2)
       /\ Len(AbstractElems) = n
  BY <1>8, <1>10, <1>14, AbstractIs, AbstractNext
<1>17. t'.nNextFreeElement = t.nNextFreeElement
  BY <1>7, <1>8
<1> QED
  BY <1>15, <1>16, <1>17 DEF Map!Point

LEMMA ApplyEndMap ==
  ASSUME NEW L, Sound(t, L), ApplyEnd
  PROVE  UNCHANGED Map!mapvars
<1> DEFINE n == -1
<1>1. n \in Int /\ t.nApplyCount \in Int
  BY SoundCells DEF Table
<1>2. t.nApplyCount - 1 = t.nApplyCount + n
  BY <1>1
<1>3. t' = [t EXCEPT !.nApplyCount = t.nApplyCount - 1]
  BY DEF ApplyEnd
<1> HIDE DEF n
<1>4. t' = [t EXCEPT !.nApplyCount = t.nApplyCount + n]
  BY <1>2, <1>3
<1> QED
  BY <1>1, <1>4, CountMap

LEMMA NextMap ==
  ASSUME IInv, [Next]_vars
  PROVE  [Map!MapNext]_(Map!mapvars)
<1>1. Keys \subseteq AllKeys
  BY KeysAll
<1>2. ASSUME UNCHANGED t PROVE UNCHANGED Map!mapvars
  <2>1. t' = t
    BY <1>2
  <2> QED
    BY <2>1, MapStutter
<1>3. ASSUME \E k \in AllKeys : Map!RemoveKey(k) PROVE Map!MapNext
  BY <1>1, <1>3 DEF Map!MapNext
<1>4. ASSUME NEW k \in Keys, NEW v \in Values, Insert(k, v) PROVE Map!MapNext
  <2>1. Map!Add(k, v)
    BY <1>4, InsertMap
  <2> QED
    BY <2>1, <1>1 DEF Map!MapNext
<1>5. CASE UpdateReturn
  <2>1. \E k \in AllKeys, v \in Values : Map!Overwrite(k, v)
    BY <1>5, UpdateMap
  <2> QED
    BY <2>1, <1>1 DEF Map!MapNext
<1>6. ASSUME NEW k \in Keys, Delete(k) PROVE Map!MapNext
  BY <1>6, <1>3, DeleteMap
<1>7. CASE DeleteReturn
  BY <1>7, DeleteReturnMap
<1>8. ASSUME NEW op \in {"apply", "reverse"}, ApplyStart(op) PROVE UNCHANGED Map!mapvars
  <2>1. \E L \in SUBSET Cells : Sound(t, L)
    BY DEF IInv, Good
  <2>2. t' = [t EXCEPT !.nApplyCount = t.nApplyCount + 1] /\ 1 \in Int
    BY <1>8 DEF ApplyStart
  <2> QED
    BY <2>1, <2>2, CountMap
<1>9. CASE ApplyEnd
  <2>1. \E L \in SUBSET Cells : Sound(t, L)
    BY DEF IInv, Good
  <2> QED
    BY <2>1, <1>9, ApplyEndMap
<1>10. CASE ApplyDeleted
  BY <1>10, <1>3, ApplyDeletedMap
<1>11. CASE CleanEnd
  <2>1. Map!Clear
    BY <1>11, CleanEndMap
  <2> QED
    BY <2>1 DEF Map!MapNext
<1>12. CASE MovePointer
  <2>1. Map!Point
    BY <1>12, PointMap
  <2> QED
    BY <2>1 DEF Map!MapNext
<1>13. ASSUME NEW k \in Keys, NEW v \in Values, Update(k, v) PROVE UNCHANGED t
  BY <1>13 DEF Update
<1>14. ASSUME NEW op, ApplyRefused(op) \/ CleanStart(op) \/ SortStart(op) PROVE UNCHANGED t
  BY <1>14 DEF ApplyRefused, CleanStart, SortStart
<1>15. CASE ApplyKeep \/ ApplyRemove \/ Bailout \/ UNCHANGED vars
  BY <1>15, <1>2 DEF ApplyKeep, ApplyRemove, Bailout, vars
<1>16. CASE ReverseKeep
  BY <1>16, NotCalled DEF ReverseKeep
<1>17. CASE ReverseRemove
  BY <1>17, NotCalled DEF ReverseRemove
<1>18. CASE ReverseNext
  BY <1>18, NotCalled DEF ReverseNext
<1>19. CASE CleanNext
  BY <1>19, NotCalled DEF CleanNext
<1>20. CASE SortEnd
  BY <1>20, NotCalled DEF SortEnd
<1> QED
  BY <1>2, <1>4, <1>5, <1>6, <1>7, <1>8, <1>9, <1>10, <1>11, <1>12, <1>13, <1>14, <1>15,
     <1>16, <1>17, <1>18, <1>19, <1>20 DEF Next, Call, Return

\* Walking backwards takes elements out one by one.
LEMMA ReverseRemoveMap ==
  ASSUME Reversing, ReverseRemove
  PROVE  \E k \in AllKeys : Map!RemoveKey(k)
<1>1. Top.op = "reverse" /\ Top.phase = "func"
  BY DEF ReverseRemove, Running
<1>2. PICK L \in SUBSET Cells, f \in SpecialType :
        ReverseOK(t, L, f) /\ stack = <<f>> /\ Base(t, L)
  BY <1>1, TwoIs DEF Reversing
<1>3. Top = f
  BY <1>2, OneIs
<1> DEFINE p == f.p
<1>4. Sound(t, L) /\ p \in L /\ p # NULL
  BY <1>1, <1>2, <1>3, SoundCells, NotNull DEF Base, ReverseOK, Behind
<1>5. NoClash
  BY DEF Reversing
<1>6. FindDel(t, t.mem[p].key) = p
  BY <1>4, <1>5, FindDelOwn
<1>7. t' = Unlink(t, p)
  BY <1>3, <1>4, <1>6 DEF ReverseRemove
<1> HIDE DEF p
<1> QED
  BY <1>4, <1>7, UnlinkMap

LEMMA ReverseReturnMap ==
  ASSUME Reversing, DeleteReturn
  PROVE  UNCHANGED Map!mapvars
<1>1. Top.op = "del"
  BY DEF DeleteReturn, Running
<1>2. PICK L \in SUBSET Cells, f \in SpecialType, g \in SpecialType :
        /\ ReverseOK(t, L, f) /\ stack = <<f, g>>
        /\ g.p \notin L /\ Sound(t, L) /\ t.alive = L \cup {g.p}
  BY <1>1, OneIs DEF Reversing, ReverseOK
<1>3. Top = g
  BY <1>2, TwoIs
<1>4. g.p \in Cells
  BY <1>2, SoundCells
<1>5. t' = Release(t, g.p)
  BY <1>3 DEF DeleteReturn
<1> QED
  BY <1>2, <1>4, <1>5, ReleaseMap

LEMMA ReversingMap ==
  ASSUME Alone, Reversing, Next
  PROVE  [Map!MapNext]_(Map!mapvars)
<1>1. stack # <<>> /\ Top.op \in {"reverse", "del"}
  BY OneIs, TwoIs DEF Reversing, ReverseOK
<1>2. Return
  BY <1>1, OnlyReturns
<1>3. ~ (UpdateReturn \/ ApplyKeep \/ ApplyRemove \/ ApplyDeleted \/ CleanNext \/ CleanEnd
         \/ SortEnd)
  BY <1>1 DEF UpdateReturn, ApplyKeep, ApplyRemove, ApplyDeleted, CleanNext, CleanEnd,
              SortEnd, Running
<1>4. CASE ReverseKeep \/ ReverseNext
  <2>1. t' = t
    BY <1>4 DEF ReverseKeep, ReverseNext
  <2> QED
    BY <2>1, MapStutter
<1>5. CASE ReverseRemove
  BY <1>5, ReverseRemoveMap DEF Map!MapNext
<1>6. CASE DeleteReturn
  BY <1>6, ReverseReturnMap
<1>7. CASE ApplyEnd
  <2>1. \E L \in SUBSET Cells : Sound(t, L)
    BY DEF Reversing, Base
  <2> QED
    BY <2>1, <1>7, ApplyEndMap
<1> QED
  BY <1>2, <1>3, <1>4, <1>5, <1>6, <1>7 DEF Return

\* A table that is being cleaned keeps its elements until it is reset.
LEMMA CleanNextMap ==
  ASSUME CleaningUp, CleanNext
  PROVE  UNCHANGED Map!mapvars
<1>1. t \in Table
  BY DEF CleaningUp, CleanOK
<1> DEFINE al == t.alive \ {Top.p}
           s2 == [t EXCEPT !.alive = al]
<1>2. t' = s2
  BY DEF CleanNext
<1>3. /\ s2.mem = t.mem /\ s2.pListHead = t.pListHead
      /\ s2.pInternalPointer = t.pInternalPointer /\ s2.nNextFreeElement = t.nNextFreeElement
  BY <1>1 DEF Table
<1> HIDE DEF s2
<1>4. List(s2) = List(t)
  BY <1>3 DEF List, Walk
<1>5. Elems(s2) = Elems(t) /\ Cursor(s2) = Cursor(t)
  BY <1>3, <1>4 DEF Elems, Cursor
<1> QED
  BY <1>2, <1>3, <1>5, MapStutter

LEMMA CleaningMap ==
  ASSUME Alone, CleaningUp, Next
  PROVE  [Map!MapNext]_(Map!mapvars)
<1>1. stack # <<>> /\ Top.op \in {"clean", "destroy"}
  BY OneIs DEF CleaningUp, CleanOK
<1>2. Return
  BY <1>1, OnlyReturns
<1>3. CleanNext \/ CleanEnd
  BY <1>1, <1>2 DEF Return, UpdateReturn, DeleteReturn, ApplyKeep, ApplyRemove, ApplyDeleted,
     ReverseKeep, ReverseRemove, ReverseNext, ApplyEnd, SortEnd, Running
<1>4. CASE CleanEnd
  <2>1. Sound(t', {}) /\ t'.nNextFreeElement = 0
    BY <1>4, CleanedIs DEF Base
  <2>2. Elems(t') = <<>> /\ Cursor(t') = 0
    BY <2>1, NoneMap
  <2>3. Map!Clear
    BY <2>1, <2>2, AbstractNext DEF Map!Clear, Map!MapInit
  <2> QED
    BY <2>3 DEF Map!MapNext
<1> QED
  BY <1>3, <1>4, CleanNextMap

\* The elements in another order.
LEMMA ReorderedIs ==
  ASSUME NEW s, NEW L, Sound(s, L), NEW w \in SetToSeqs(L)
  PROVE  LET e == [i \in DOMAIN w |-> ElemOf(s, w[i])] IN
         /\ e \in SetToSeqs(Range(Elems(s)))
         /\ Len(e) = Cardinality(L) /\ DOMAIN e = 1..Cardinality(L)
         /\ Len(Elems(s)) = Cardinality(L)
<1> DEFINE n == Cardinality(L)
           l == List(s)
           e == [i \in DOMAIN w |-> ElemOf(s, w[i])]
           E == {ElemOf(s, c) : c \in L}
           h == [c \in L |-> ElemOf(s, c)]
<1>1. L \in SUBSET Cells /\ \A c, d \in L : s.mem[c].key = s.mem[d].key => c = d
  BY SoundCells DEF Sound, Keyed
<1>2. IsFiniteSet(L)
  <2>1. IsFiniteSet(Cells)
    BY TableAssumption, FS_Interval DEF Cells
  <2> QED
    BY <2>1, <1>1, FS_Subset
<1>3. /\ Range(w) = L /\ IsInjective(w) /\ n \in Nat /\ DOMAIN w = 1..n
      /\ \A i \in 1..n : w[i] \in L
  <2>1. /\ w \in Seq(L) /\ Range(w) = L /\ IsInjective(w) /\ n \in Nat /\ DOMAIN w = 1..n
    BY <1>2, OrdersAre
  <2> HIDE DEF n
  <2> QED
    BY <2>1
<1>4. l \in Seq(L) /\ Range(l) = L /\ Len(l) = n
  <2>1. Walks(s, l, L, s.pListHead, "pListNext", "pListLast")
    BY ListIs
  <2> QED
    BY ONLY <2>1 DEF Walks
<1>5. /\ DOMAIN Elems(s) = DOMAIN l /\ Len(Elems(s)) = n
      /\ \A i \in DOMAIN l : Elems(s)[i] = ElemOf(s, l[i])
  BY <1>4, ElemsIs
<1> HIDE DEF l
<1>6. Range(Elems(s)) = E
  BY <1>4, <1>5 DEF Range
<1>7. Cardinality(E) = n
  <2>1. h \in Bijection(L, E)
    <3>1. h \in [L -> E] /\ \A x \in E : \E c \in L : h[c] = x
      OBVIOUS
    <3>2. \A c, d \in L : h[c] = h[d] => c = d
      BY <1>1 DEF ElemOf
    <3> QED
      BY <3>1, <3>2 DEF Bijection, Injection, Surjection, IsInjective
  <2>2. ExistsBijection(L, E)
    BY <2>1 DEF ExistsBijection
  <2> QED
    BY <2>2, <1>2, FS_Bijection
<1> HIDE DEF n
<1>8. e \in [1..n -> E]
  BY <1>3
<1>9. \A i, j \in 1..n : i # j => e[i] # e[j]
  <2> SUFFICES ASSUME NEW i \in 1..n, NEW j \in 1..n, e[i] = e[j] PROVE i = j
    OBVIOUS
  <2>1. s.mem[w[i]].key = s.mem[w[j]].key
    BY <1>3 DEF ElemOf
  <2>2. w[i] = w[j]
    BY <2>1, <1>1, <1>3
  <2> QED
    BY <2>2, <1>3 DEF IsInjective
<1>10. e \in SetToSeqs(E)
  <2> HIDE DEF e, E
  <2> QED
    BY <1>7, <1>8, <1>9 DEF SetToSeqs
<1>11. Len(e) = n /\ DOMAIN e = 1..n
  BY <1>3
<1> QED
  BY <1>5, <1>6, <1>10, <1>11 DEF n

LEMMA SortMap ==
  ASSUME Sorting, SortEnd
  PROVE  Map!Sort
<1>0. PICK L \in SUBSET Cells : \E w \in SetToSeqs(L) :
        /\ Base(t, L) /\ Cardinality(L) > 1
        /\ t' = Relink(t, w) \/ t' = Renumber(Relink(t, w))
  BY SortedIs
<1>1. PICK w \in SetToSeqs(L) :
        /\ Base(t, L) /\ Cardinality(L) > 1
        /\ t' = Relink(t, w) \/ t' = Renumber(Relink(t, w))
  BY <1>0
<1> DEFINE n  == Cardinality(L)
           s2 == Relink(t, w)
           s3 == Renumber(s2)
           e  == [i \in DOMAIN w |-> ElemOf(t, w[i])]
           e3 == [i \in DOMAIN e |-> [e[i] EXCEPT !.key = [h |-> i - 1, name |-> 0]]]
<1>2. Sound(t, L) /\ L # {}
  <2>1. Cardinality({}) = 0
    BY FS_EmptySet
  <2> QED
    BY <2>1, <1>1 DEF Base
<1>3. /\ e \in SetToSeqs(Range(Elems(t))) /\ Len(e) = n /\ DOMAIN e = 1..n
      /\ Len(Elems(t)) = n
  BY <1>2, ReorderedIs
<1>4. /\ Sound(s2, L) /\ Order(s2, L, w) /\ s2.pInternalPointer = w[1]
      /\ Keeps(t, s2, {"pListHead", "pListTail", "pInternalPointer"}, {"pListNext", "pListLast"})
      /\ Len(w) = n /\ DOMAIN w = 1..n
  BY <1>2, RelinkIs
<1> HIDE DEF s2
<1>5. /\ Sound(s3, L) /\ Order(s3, L, w) /\ s3.nNextFreeElement = Len(w)
      /\ s3.pInternalPointer = s2.pInternalPointer
      /\ \A i \in DOMAIN w : s3.mem[w[i]].key = Key(i - 1, 0)
      /\ \A c \in L : s3.mem[c].data = s2.mem[c].data
  BY <1>4, RenumberIs
<1> HIDE DEF s3
<1>6. List(s2) = w /\ List(s3) = w
  BY <1>4, <1>5, OrderIs
<1>7. \A i \in DOMAIN w : w[i] \in L /\ w[i] \in Cells
  <2>1. w \in Seq(L)
    BY <1>4 DEF Order, Walks
  <2> QED
    BY <2>1
<1>8. 1 \in DOMAIN w
  BY <1>1, <1>4
<1>9. Cursor(s2) = 1 /\ Cursor(s3) = 1
  BY <1>4, <1>5, <1>6, <1>8, CursorIs
<1>10. /\ s2.nNextFreeElement = t.nNextFreeElement
       /\ \A i \in DOMAIN w : /\ s2.mem[w[i]].key = t.mem[w[i]].key
                              /\ s2.mem[w[i]].data = t.mem[w[i]].data
  BY <1>4, <1>7 DEF Keeps, Fields
<1>11. Elems(s2) = e
  BY <1>6, <1>10 DEF Elems, ElemOf
<1>12. Elems(s3) = e3
  <2>1. ASSUME NEW i \in DOMAIN w
        PROVE  [key |-> s3.mem[w[i]].key, data |-> s3.mem[w[i]].data]
                 = [e[i] EXCEPT !.key = [h |-> i - 1, name |-> 0]]
    <3>1. s3.mem[w[i]].key = [h |-> i - 1, name |-> 0] /\ s3.mem[w[i]].data = t.mem[w[i]].data
      BY <1>5, <1>7, <1>10 DEF Key
    <3>2. e[i] = [key |-> t.mem[w[i]].key, data |-> t.mem[w[i]].data]
      BY DEF ElemOf
    <3> HIDE DEF e
    <3> QED
      BY <3>1, <3>2
  <2>2. DOMAIN e = DOMAIN w
    OBVIOUS
  <2> HIDE DEF e
  <2> QED
    BY <2>1, <2>2, <1>6 DEF Elems
<1> HIDE DEF e, e3
<1>13. \/ t' = s2 /\ Elems(t') = e /\ t'.nNextFreeElement = t.nNextFreeElement
       \/ t' = s3 /\ Elems(t') = e3 /\ t'.nNextFreeElement = Len(e)
  BY <1>1, <1>3, <1>4, <1>5, <1>10, <1>11, <1>12 DEF s2, s3
<1>14. Cursor(t') = 1
  BY <1>9, <1>13
<1>15. e \in Map!SetToSeqs(Map!ToSet(AbstractElems))
  <2> DEFINE E == Range(Elems(t))
  <2>1. Map!ToSet(AbstractElems) = E
    BY AbstractIs DEF Map!ToSet, Range
  <2> HIDE DEF E
  <2>2. Map!Cardinality(E) = Cardinality(E)
    BY DEF Map!Cardinality, Cardinality
  <2>3. Map!SetToSeqs(E) = SetToSeqs(E)
    BY <2>2 DEF Map!SetToSeqs, SetToSeqs
  <2> QED
    BY <2>1, <2>3, <1>3 DEF E
<1>16. Len(AbstractElems) > 1
  BY <1>1, <1>3, AbstractIs
<1>17. \/ AbstractElems' = e /\ t'.nNextFreeElement = t.nNextFreeElement
       \/ /\ AbstractElems' = [i \in DOMAIN e |->
                                 [e[i] EXCEPT !.key = [h |-> i - 1, name |-> 0]]]
          /\ t'.nNextFreeElement = Len(e)
  BY <1>13, AbstractNext DEF e3
<1> QED
  BY <1>14, <1>15, <1>16, <1>17, AbstractNext DEF Map!Sort

LEMMA SortingMap ==
  ASSUME Alone, Sorting, Next
  PROVE  Map!MapNext
<1>1. stack # <<>> /\ Top.op \in {"sort", "sortnew"} /\ Top.phase = "compare"
  BY OneIs DEF Sorting
<1>2. Return
  BY <1>1, OnlyReturns
<1>3. SortEnd
  BY <1>1, <1>2 DEF Return, UpdateReturn, DeleteReturn, ApplyKeep, ApplyRemove, ApplyDeleted,
     ReverseKeep, ReverseRemove, ReverseNext, ApplyEnd, CleanNext, CleanEnd, Running
<1> QED
  BY <1>3, SortMap DEF Map!MapNext

LEMMA WholeMap ==
  ASSUME Whole, [Next]_vars
  PROVE  [Map!MapNext]_(Map!mapvars)
<1>1. CASE IInv
  BY <1>1, NextMap
<1>2. CASE UNCHANGED vars
  <2>1. t' = t
    BY <1>2 DEF vars
  <2> QED
    BY <2>1, MapStutter
<1>3. CASE Alone /\ Next
  BY <1>1, <1>3, ReversingMap, CleaningMap, SortingMap DEF Whole
<1> QED
  BY <1>1, <1>2, <1>3 DEF Whole

\* Every behaviour of the hash table is one of an ordered map, while operations are
\* in progress too: an insertion appends, a new value replaces the old one in its
\* place, a deletion takes out one key, zend_hash_sort() reorders and may renumber,
\* zend_hash_clean() and zend_hash_destroy() empty the map at once, and nothing else
\* shows.
THEOREM Implements == Uses => (Spec => ImplementsMap)
<1> SUFFICES ASSUME Uses PROVE Spec => ImplementsMap
  OBVIOUS
<1>1. Init => Map!MapInit
  BY InitMap
<1>2. Whole /\ [Next]_vars => [Map!MapNext]_(Map!mapvars)
  BY WholeMap
<1>3. Spec => []Whole
  BY InvHolds
<1> QED
  BY <1>1, <1>2, <1>3, PTL DEF Spec, ImplementsMap, Map!MapSpec

=============================================================================
