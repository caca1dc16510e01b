---------------------------- MODULE SysVShm_proofs ----------------------------
(***************************************************************************)
(* Proofs about SysVShm, for any number of processes, segments, variables, *)
(* values and sizes: that lookups end and find what is whole, that nothing *)
(* is stored beyond a segment, and that a variable that is read has the    *)
(* value put last, whatever moved and whoever died in between.             *)
(***************************************************************************)
EXTENDS SysVShm, FiniteSetTheorems, WellFoundedInduction, TLAPS

Putting == {"shrink", "end", "move", "store", "grow", "take"}
Busy    == {"fields", "free"} \cup Putting

\* The types that TypeOK leaves out.
ArgOK ==
  /\ arg \in [Proc -> [key : Key \cup {0}, value : Value \cup {None}, pos : Int,
                       size : Sizes \cup {0}]]
  /\ vals \in [Seg -> [Key -> Value \cup {None}]] /\ broken \subseteq Seg

\* Who puts holds the semaphore, who is in a function has a segment, and what is
\* attached or has the key exists.
Owned ==
  /\ \A p \in Proc : (pc[p] \in Putting => sem = p) /\ (pc[p] # "idle" => at[p] # None)
  /\ \A p \in Proc : sem = p => at[p] # None
  /\ \A p \in Proc : pc[p] \in {"check", "magic", "fields", "free"} => arg[p].size \in Sizes
  /\ \A p \in Proc : at[p] # None => size[at[p]] > 0
  /\ shmid # None => size[shmid] > 0

\* A segment nobody has written to.
Clean(s) == head[s] = Blank /\ vals[s] = NoVal

\* The words m have the chunk of a variable at c.
ChunkAt(m, c, k, v) ==
  /\ m[c] = k /\ m[c + 1] = Length[v] /\ m[c + 2] = Total(v)
  /\ \A w \in c + 3 .. c + 2 + Data(v) : m[w] = v

\* C are the places of the chunks of the variables vs, one after the other, up to e.
Laid(m, C, e, vs) ==
  /\ C \subseteq HeadSize .. e - 1 /\ HeadSize \in C \cup {e}
  /\ \A c \in C :
       /\ m[c] \in Key /\ vs[m[c]] \in Value /\ ChunkAt(m, c, m[c], vs[m[c]])
       /\ c + m[c + 2] \in C \cup {e}
  /\ \A c, d \in C : c < d => c + m[c + 2] <= d
  /\ \A c, d \in C : m[c] = m[d] => c = d
  /\ \A k \in Key : vs[k] # None => \E c \in C : m[c] = k

\* The variable that p replaces or removes is at its pos, and there is room for the
\* new value although the old one still counts.
Replacing(p, s, C, e) ==
  /\ arg[p].pos \in C /\ mem[s][arg[p].pos] = arg[p].key
  /\ arg[p].value # None => e + Total(arg[p].value) <= head[s].total

\* p's variable is not there and its value has room.
Adding(p, s, e) ==
  /\ arg[p].value \in Value /\ arg[p].key \in Key /\ vals[s][arg[p].key] = None
  /\ e + Total(arg[p].value) <= head[s].total

\* How far the head is from chunks that end at e, while p is at work.
Midway(p, s, C, e) ==
  LET a == arg[p]
      h == head[s]
      n == mem[s][a.pos + 2] IN
  \/ pc[p] = "shrink" /\ Replacing(p, s, C, e) /\ h.end = e /\ h.free = h.total - e
  \/ pc[p] = "end" /\ Replacing(p, s, C, e) /\ h.end = e /\ h.free = h.total - e + n
  \/ pc[p] = "move" /\ Replacing(p, s, C, e) /\ h.end = e - n /\ h.free = h.total - e + n
  \/ pc[p] = "store" /\ Adding(p, s, e) /\ h.end = e /\ h.free = h.total - e
  \/ /\ pc[p] = "grow" /\ Adding(p, s, e) /\ h.end = e /\ h.free = h.total - e
     /\ ChunkAt(mem[s], e, a.key, a.value)
  \/ pc[p] = "take" /\ a.value \in Value /\ h.end = e /\ h.free = h.total - e + Total(a.value)

At(p, s, states) == at[p] = s /\ pc[p] \in states

\* Nobody has initialized the segment,
New(s) == Clean(s) /\ \A p \in Proc : at[p] = s => pc[p] \in {"check", "magic"}

\* p is initializing it and nobody does anything else there,
Starting(p, s) ==
  /\ At(p, s, {"fields", "free"}) /\ \A q \in Proc : At(q, s, Busy) => q = p
  /\ head[s].magic /\ vals[s] = NoVal /\ arg[p].size <= size[s]
  /\ \/ pc[p] = "fields" /\ head[s] = [Blank EXCEPT !.magic = TRUE]
     \/ /\ pc[p] = "free" /\ head[s].start = HeadSize /\ head[s].end = HeadSize
        /\ head[s].free = 0 /\ head[s].total = arg[p].size

\* or it is in use: the chunks lie up to e, and the head says so unless somebody is
\* in the middle of a change.
Live(s, C, e) ==
  LET h == head[s] IN
  /\ h.magic /\ h.start = HeadSize /\ h.total \in Sizes /\ h.total <= size[s]
  /\ e \in HeadSize .. h.total /\ Laid(mem[s], C, e, vals[s])
  /\ \A p \in Proc : At(p, s, Busy) => Midway(p, s, C, e)
  /\ (\A p \in Proc : ~At(p, s, Busy)) => h.end = e /\ h.free = h.total - e

SegOK(s) ==
  \/ New(s)
  \/ \E p \in Proc : Starting(p, s)
  \/ \E C \in SUBSET Words, e \in 0 .. Largest : Live(s, C, e)

\* The inductive invariant.
IInv ==
  /\ TypeOK /\ ArgOK /\ Owned
  /\ \A s \in Seg : size[s] = 0 => Clean(s)
  /\ \A s \in Seg : s \notin broken => SegOK(s)

\* A set of naturals has a least member.
LEMMA Least ==
  ASSUME NEW T, T \subseteq Nat, T # {}
  PROVE  \E x \in T : \A y \in T : x <= y
<1> DEFINE R == OpToRel(<, Nat)
<1>1. IsWellFoundedOn(R, Nat)
  BY NatLessThanWellFounded
<1>2. \A x, y \in Nat : <<x, y>> \in R <=> x < y
  BY DEF OpToRel
<1> HIDE DEF R
<1>3. PICK x \in T : \A y \in T : ~ (<<y, x>> \in R)
  BY <1>1, WFMin
<1>4. ASSUME NEW y \in T PROVE x <= y
  <2>1. x \in Nat /\ y \in Nat /\ <<y, x>> \notin R
    BY <1>3
  <2>2. ~ (y < x)
    BY <2>1, <1>2
  <2> QED
    BY <2>1, <2>2
<1> QED
  BY <1>4

(***************************************************************************)
(* The loop of php_check_shm_data().                                       *)
(***************************************************************************)
\* One turn of it, when g has the places from later positions on.
Turn(m, e, g, pos) ==
  {pos} \cup IF pos + m[pos + 2] \in pos + 1 .. e - 1 THEN g[pos + m[pos + 2]] ELSE {}

\* The loop, as a function of where it starts, exists: each turn goes further on.
LEMMA LoopExists ==
  ASSUME NEW m, NEW e \in 0 .. Largest
  PROVE  \E g : g = [pos \in Words |-> Turn(m, e, g, pos)]
<1> DEFINE Good(g, n) == \A pos \in Words : pos >= n => g[pos] = Turn(m, e, g, pos)
           T == {n \in 0 .. Largest : \E g : Good(g, n)}
<1>1. Largest \in Nat /\ Words = 0 .. Largest - 1 /\ e \in Nat /\ e <= Largest
  BY SysVShmAssumption DEF Words
<1>2. Largest \in T
  BY <1>1
<1>3. PICK n \in T : \A k \in T : n <= k
  <2>1. 0 .. Largest \subseteq Nat
    BY <1>1
  <2>2. T \subseteq Nat /\ T # {}
    BY <2>1, <1>2
  <2> HIDE DEF T
  <2> QED
    BY <2>2, Least
<1>4. PICK g : Good(g, n)
  BY <1>3
<1>5. n = 0
  <2>1. SUFFICES ASSUME n # 0 PROVE FALSE
    OBVIOUS
  <2>2. n - 1 \in Words /\ n \in Nat /\ n - 1 \in 0 .. Largest
    BY <1>1, <1>3, <2>1
  <2> DEFINE h == [pos \in Words |-> IF pos = n - 1 THEN Turn(m, e, g, pos) ELSE g[pos]]
  <2>3. ASSUME NEW pos \in Words, pos >= n - 1 PROVE h[pos] = Turn(m, e, h, pos)
    <3>1. Turn(m, e, h, pos) = Turn(m, e, g, pos)
      <4>1. CASE pos + m[pos + 2] \in pos + 1 .. e - 1
        <5>1. pos + m[pos + 2] \in Words /\ pos + m[pos + 2] # n - 1
          <6> DEFINE q == pos + m[pos + 2]
          <6>1. q \in pos + 1 .. e - 1 /\ pos \in Nat
            BY <4>1, <1>1
          <6> HIDE DEF q
          <6>2. q \in Words /\ q # n - 1
            BY <6>1, <1>1, <2>2, <2>3
          <6> QED
            BY <6>2 DEF q
        <5> QED
          BY <5>1, <4>1 DEF Turn
      <4>2. CASE ~(pos + m[pos + 2] \in pos + 1 .. e - 1)
        BY <4>2 DEF Turn
      <4> QED
        BY <4>1, <4>2
    <3>2. CASE pos = n - 1
      BY <3>1, <3>2, <2>2
    <3>3. CASE pos # n - 1
      <4>1. pos >= n
        BY <3>3, <2>3, <2>2, <1>1
      <4> QED
        BY <3>1, <3>3, <4>1, <1>4
    <3> QED
      BY <3>2, <3>3
  <2>4. Good(h, n - 1)
    BY <2>3
  <2>5. n - 1 \in T
    BY <2>4, <2>2
  <2> QED
    BY <2>5, <1>3, <2>2
<1> DEFINE f == [pos \in Words |-> g[pos]]
<1>6. ASSUME NEW pos \in Words PROVE f[pos] = Turn(m, e, f, pos)
  <2>1. f[pos] = Turn(m, e, g, pos)
    BY <1>1, <1>4, <1>5
  <2>2. pos + m[pos + 2] \in pos + 1 .. e - 1 => pos + m[pos + 2] \in Words
    <3> DEFINE q == pos + m[pos + 2]
    <3>1. pos \in Nat
      BY <1>1
    <3> HIDE DEF q
    <3>2. q \in pos + 1 .. e - 1 => q \in Words
      BY <3>1, <1>1
    <3> QED
      BY <3>2 DEF q
  <2> QED
    BY <2>1, <2>2 DEF Turn
<1>7. f = [pos \in Words |-> Turn(m, e, f, pos)]
  BY <1>6
<1> QED
  BY <1>7
\* A chunk has its header, its data and a word more.
LEMMA TotalIs ==
  ASSUME NEW v \in Value
  PROVE  /\ Length[v] \in Nat \ {0} /\ Data(v) \in Nat /\ Total(v) \in Nat
         /\ Total(v) = Data(v) + 4 /\ Data(v) = (Length[v] + 3) \div 4
<1>1. Length[v] \in Nat \ {0}
  BY SysVShmAssumption
<1>2. ASSUME NEW n \in Nat PROVE (n + 3) \div 4 \in Nat /\ (n + 15) \div 4 = (n + 3) \div 4 + 3
  OBVIOUS
<1> QED
  BY <1>1, <1>2 DEF Total, Data

\* What Laid says of one chunk.
LEMMA LaidChunk ==
  ASSUME NEW m, NEW C, NEW e \in 0 .. Largest, NEW vs, Laid(m, C, e, vs), NEW c \in C
  PROVE  /\ m[c] \in Key /\ vs[m[c]] \in Value /\ ChunkAt(m, c, m[c], vs[m[c]])
         /\ c \in Words /\ c >= HeadSize /\ c < e
         /\ m[c + 2] = Total(vs[m[c]]) /\ m[c + 2] \in Nat /\ m[c + 2] >= 4
         /\ c + m[c + 2] \in C \cup {e} /\ c + m[c + 2] <= e /\ c + m[c + 2] > c
<1>1. Largest \in Nat /\ Words = 0 .. Largest - 1 /\ e \in Nat /\ e <= Largest /\ HeadSize = 6
  BY SysVShmAssumption DEF Words, HeadSize
<1>2. c \in HeadSize .. e - 1 /\ C \subseteq HeadSize .. e - 1
  BY DEF Laid
<1>3. /\ m[c] \in Key /\ vs[m[c]] \in Value /\ ChunkAt(m, c, m[c], vs[m[c]])
      /\ c + m[c + 2] \in C \cup {e}
  BY DEF Laid
<1>4. m[c + 2] = Total(vs[m[c]]) /\ m[c + 2] \in Nat /\ m[c + 2] >= 4
  BY <1>3, TotalIs DEF ChunkAt
<1>5. c \in Words /\ c >= HeadSize /\ c < e
  BY <1>1, <1>2
<1> DEFINE n == m[c + 2]
<1>6. c + n \in HeadSize .. e
  <2>1. ASSUME NEW x \in C \cup {e} PROVE x \in HeadSize .. e
    BY <1>1, <1>2
  <2> QED
    BY <1>3, <2>1
<1> HIDE DEF n
<1>7. c + n <= e /\ c + n > c
  BY <1>6, <1>5, <1>4, <1>1 DEF n
<1> QED
  BY <1>3, <1>4, <1>5, <1>7 DEF n

\* What the loop goes through from a chunk on.
LEMMA LoopIs ==
  ASSUME NEW m, NEW C, NEW e \in 0 .. Largest, NEW vs, Laid(m, C, e, vs),
         NEW f, f = [pos \in Words |-> Turn(m, e, f, pos)], NEW c \in C
  PROVE  f[c] = {d \in C : d >= c}
<1> DEFINE Bad == {b \in C : f[b] # {d \in C : d >= b}}
           T == {Largest - b : b \in Bad}
<1>1. Largest \in Nat /\ Words = 0 .. Largest - 1 /\ e \in Nat /\ e <= Largest
  BY SysVShmAssumption DEF Words
<1>2. SUFFICES ASSUME Bad # {} PROVE FALSE
  OBVIOUS
<1>3. \A b \in C : b \in Words /\ b < e
  BY LaidChunk
<1>4. PICK b \in Bad : \A x \in Bad : x <= b
  <2>1. T \subseteq Nat /\ T # {}
    <3>1. \A b \in Bad : Largest - b \in Nat
      BY <1>3, <1>1
    <3> QED
      BY <3>1, <1>2
  <2>2. PICK t \in T : \A u \in T : t <= u
    <3> HIDE DEF T
    <3> QED
      BY <2>1, Least
  <2>3. PICK b \in Bad : t = Largest - b
    OBVIOUS
  <2>4. ASSUME NEW x \in Bad PROVE x <= b
    <3>1. Largest - b <= Largest - x
      BY <2>2, <2>3
    <3>2. b \in Int /\ x \in Int
      BY <1>3, <1>1
    <3> QED
      BY <3>1, <3>2, <1>1
  <2> QED
    BY <2>4
<1> DEFINE n == b + m[b + 2]
<1>5. /\ b \in C /\ b \in Words /\ b < e /\ n \in C \cup {e} /\ n <= e /\ n > b
      /\ f[b] # {d \in C : d >= b}
  BY <1>4, LaidChunk
<1>6. \A d \in C : b < d => n <= d
  BY <1>5 DEF Laid
<1>7. f[b] = Turn(m, e, f, b)
  BY <1>5
<1> HIDE DEF n
<1>8. CASE n \in C
  <2>1. n \in b + 1 .. e - 1 /\ n \in Words
    BY <1>8, <1>3, <1>5, <1>1
  <2>2. n \notin Bad
    <3>1. n \in Int /\ b \in Int
      BY <2>1, <1>1, <1>5
    <3> QED
      BY <1>4, <1>5, <3>1
  <2>3. f[n] = {d \in C : d >= n}
    BY <2>2, <1>8
  <2>4. f[b] = {b} \cup {d \in C : d >= n}
    BY <1>7, <2>1, <2>3 DEF Turn, n
  <2>5. ASSUME NEW d \in C PROVE d >= b <=> d = b \/ d >= n
    BY <1>1, <1>3, <1>5, <1>6, <2>1
  <2> QED
    BY <2>4, <2>5, <1>5, <1>1
<1>9. CASE n = e
  <2>1. n \notin b + 1 .. e - 1
    BY <1>9, <1>1, <1>5
  <2>2. f[b] = {b}
    BY <1>7, <2>1 DEF Turn, n
  <2>3. ASSUME NEW d \in C PROVE d >= b <=> d = b
    BY <1>1, <1>3, <1>5, <1>6, <1>9
  <2> QED
    BY <2>2, <2>3, <1>5
<1> QED
  BY <1>5, <1>8, <1>9

\* The places a lookup goes through are those of the chunks.
LEMMA PlacesAre ==
  ASSUME NEW s, NEW C, NEW e \in 0 .. Largest, NEW vs, Laid(mem[s], C, e, vs),
         head[s].start = HeadSize, head[s].end = e
  PROVE  Places(s) = C
<1> DEFINE m == mem[s]
           from == CHOOSE g : g = [pos \in Words |-> Turn(m, e, g, pos)]
<1>1. from = [pos \in Words |-> Turn(m, e, from, pos)]
  BY LoopExists
<1>2. Places(s) = IF HeadSize < e THEN from[HeadSize] ELSE {}
  BY DEF Places, Turn
<1>3. HeadSize \in Nat /\ e \in Nat
  BY SysVShmAssumption DEF HeadSize
<1>4. C \subseteq HeadSize .. e - 1 /\ HeadSize \in C \cup {e}
  BY DEF Laid
<1> HIDE DEF from
<1>5. CASE HeadSize \in C
  <2>1. from[HeadSize] = {d \in C : d >= HeadSize}
    BY <1>1, <1>5, LoopIs
  <2>2. HeadSize < e /\ \A d \in C : d >= HeadSize
    BY <1>3, <1>4, <1>5
  <2> QED
    BY <2>1, <2>2, <1>2
<1>6. CASE HeadSize = e
  BY <1>2, <1>3, <1>4, <1>6
<1> QED
  BY <1>4, <1>5, <1>6

\* A lookup finds the one chunk of the key, if there is one.
LEMMA FoundIs ==
  ASSUME NEW s, NEW C, NEW e \in 0 .. Largest, NEW vs, Laid(mem[s], C, e, vs),
         head[s].start = HeadSize, head[s].end = e, NEW k \in Key
  PROVE  /\ \A c \in C : mem[s][c] = k => Found(s, k) = c
         /\ (\A c \in C : mem[s][c] # k) => Found(s, k) = -1
<1>1. Places(s) = C
  BY PlacesAre
<1>2. ASSUME NEW c \in C, mem[s][c] = k PROVE Found(s, k) = c
  <2>0. \A d \in C : mem[s][d] = mem[s][c] => d = c
    BY DEF Laid
  <2>1. {pos \in Places(s) : mem[s][pos] = k} = {c}
    BY <1>1, <1>2, <2>0
  <2>2. c \in Nat
    <3>1. c \in Words
      BY LaidChunk
    <3> QED
      BY <3>1, SysVShmAssumption DEF Words
  <2>3. Min({c}) = c
    BY <2>2 DEF Min
  <2> QED
    BY <2>1, <2>3 DEF Found
<1>3. ASSUME \A c \in C : mem[s][c] # k PROVE Found(s, k) = -1
  <2>1. {pos \in Places(s) : mem[s][pos] = k} = {}
    BY <1>1, <1>3
  <2> QED
    BY <2>1 DEF Found
<1> QED
  BY <1>2, <1>3

(***************************************************************************)
(* What the invariant says of a segment at rest.                           *)
(***************************************************************************)
\* Nobody works on a segment that is not changing.
LEMMA Rests ==
  ASSUME TypeOK, NEW s \in Seg
  PROVE  ~Changing(s) <=> \A p \in Proc : ~At(p, s, Busy)
<1>1. Steps \ {"idle", "check", "magic"} = Busy
  BY DEF Steps, Busy, Putting
<1> QED
  BY <1>1 DEF Changing, At

\* The two states a segment at rest is in.
LEMMA AtRest ==
  ASSUME IInv, NEW s \in Seg, Unchanging(s)
  PROVE  \/ Clean(s)
         \/ \E C \in SUBSET Words, e \in 0 .. Largest :
              Live(s, C, e) /\ head[s].end = e /\ head[s].free = head[s].total - e
<1>1. SegOK(s) /\ \A p \in Proc : ~At(p, s, Busy)
  BY Rests DEF IInv, Unchanging, Sound
<1>2. ASSUME NEW p \in Proc, Starting(p, s) PROVE FALSE
  BY <1>1, <1>2 DEF Starting, At, Busy
<1>3. New(s) => Clean(s)
  BY DEF New
<1>4. ASSUME NEW C \in SUBSET Words, NEW e \in 0 .. Largest, Live(s, C, e)
      PROVE  head[s].end = e /\ head[s].free = head[s].total - e
  BY <1>1, <1>4 DEF Live
<1> QED
  BY <1>1, <1>2, <1>3, <1>4 DEF SegOK

\* Nothing is found in a segment nobody has written to.
LEMMA CleanFinds ==
  ASSUME NEW s, Clean(s)
  PROVE  Places(s) = {} /\ \A k \in Key : Found(s, k) = -1
<1>1. head[s].start = 0 /\ head[s].end = 0
  BY DEF Clean, Blank
<1>2. Places(s) = {}
  BY <1>1 DEF Places
<1> QED
  BY <1>2 DEF Found

LEMMA TiledHolds == ASSUME IInv PROVE Tiled
<1> SUFFICES ASSUME NEW s \in Seg, Unchanging(s)
             PROVE  LET places == Places(s) IN
                    /\ head[s].start \in places \cup {head[s].end}
                    /\ \A pos \in places : mem[s][pos + 2] > 0
                         /\ pos + mem[s][pos + 2] \in places \cup {head[s].end}
                    /\ \A pos, other \in places : mem[s][pos] = mem[s][other] => pos = other
                    /\ head[s].free = head[s].total - head[s].end /\ head[s].end <= head[s].total
  BY DEF Tiled
<1>1. CASE Clean(s)
  <2>1. /\ head[s].start = 0 /\ head[s].end = 0 /\ head[s].free = 0 /\ head[s].total = 0
        /\ Places(s) = {}
    BY <1>1, CleanFinds DEF Clean, Blank
  <2> QED
    BY <2>1
<1>2. ASSUME NEW C \in SUBSET Words, NEW e \in 0 .. Largest, Live(s, C, e), head[s].end = e,
             head[s].free = head[s].total - e
      PROVE  LET places == Places(s) IN
                    /\ head[s].start \in places \cup {head[s].end}
                    /\ \A pos \in places : mem[s][pos + 2] > 0
                         /\ pos + mem[s][pos + 2] \in places \cup {head[s].end}
                    /\ \A pos, other \in places : mem[s][pos] = mem[s][other] => pos = other
                    /\ head[s].free = head[s].total - head[s].end /\ head[s].end <= head[s].total
  <2>1. Laid(mem[s], C, e, vals[s]) /\ head[s].start = HeadSize
    BY <1>2 DEF Live
  <2>2. Places(s) = C
    BY <1>2, <2>1, PlacesAre
  <2>3. head[s].start \in C \cup {e} /\ \A c, d \in C : mem[s][c] = mem[s][d] => c = d
    BY <2>1 DEF Laid
  <2>4. ASSUME NEW c \in C PROVE mem[s][c + 2] > 0 /\ c + mem[s][c + 2] \in C \cup {e}
    <3>1. /\ mem[s][c + 2] \in Nat /\ mem[s][c + 2] >= 4
          /\ c + mem[s][c + 2] \in C \cup {e}
      BY <2>1, LaidChunk
    <3> QED
      BY <3>1
  <2>5. e <= head[s].total
    <3>1. e \in HeadSize .. head[s].total
      BY <1>2 DEF Live
    <3> QED
      BY <3>1
  <2> QED
    BY <1>2, <2>2, <2>3, <2>4, <2>5
<1> QED
  BY <1>1, <1>2, AtRest

LEMMA GetsLastHolds == ASSUME IInv PROVE GetsLast
<1> SUFFICES ASSUME NEW s \in Seg, Unchanging(s), NEW k \in Key
             PROVE  Got(s, k) = IF vals[s][k] = None THEN <<>>
                                ELSE <<Length[vals[s][k]], [i \in 1 .. Data(vals[s][k]) |-> vals[s][k]]>>
  BY DEF GetsLast
<1>1. CASE Clean(s)
  <2>1. Found(s, k) = -1 /\ vals[s][k] = None
    BY <1>1, CleanFinds DEF Clean, NoVal
  <2> QED
    BY <2>1 DEF Got
<1>2. ASSUME NEW C \in SUBSET Words, NEW e \in 0 .. Largest, Live(s, C, e), head[s].end = e
      PROVE  Got(s, k) = IF vals[s][k] = None THEN <<>>
                                ELSE <<Length[vals[s][k]], [i \in 1 .. Data(vals[s][k]) |-> vals[s][k]]>>
  <2>1. Laid(mem[s], C, e, vals[s]) /\ head[s].start = HeadSize
    BY <1>2 DEF Live
  <2>2. CASE vals[s][k] = None
    <3>1. ASSUME NEW c \in C PROVE mem[s][c] # k
      <4>1. vals[s][mem[s][c]] \in Value
        BY <2>1, LaidChunk
      <4> QED
        BY <4>1, <2>2, SysVShmAssumption
    <3>2. Found(s, k) = -1
      BY <3>1, <2>1, <1>2, FoundIs
    <3> QED
      BY <3>2, <2>2 DEF Got
  <2>3. CASE vals[s][k] # None
    <3> DEFINE v == vals[s][k]
               m == mem[s]
    <3>1. PICK c \in C : m[c] = k
      BY <2>1, <2>3 DEF Laid
    <3>2. Found(s, k) = c
      BY <3>1, <2>1, <1>2, FoundIs
    <3>3. v \in Value /\ ChunkAt(m, c, k, v) /\ c \in Words
      BY <3>1, <2>1, LaidChunk
    <3>4. Largest \in Nat /\ c \in Nat
      BY <3>3, SysVShmAssumption DEF Words
    <3>5. Data(v) \in Nat /\ Data(v) = (Length[v] + 3) \div 4 /\ m[c + 1] = Length[v]
      BY <3>3, TotalIs DEF ChunkAt
    <3>6. Got(s, k) = <<m[c + 1], [i \in 1 .. (m[c + 1] + 3) \div 4 |-> m[c + 2 + i]]>>
      <4>1. ~(Found(s, k) < 0)
        BY <3>2, <3>4
      <4> QED
        BY <3>2, <4>1 DEF Got
    <3>7. Got(s, k) = <<Length[v], [i \in 1 .. Data(v) |-> m[c + 2 + i]]>>
      BY <3>5, <3>6
    <3>8. ASSUME NEW i \in 1 .. Data(v) PROVE m[c + 2 + i] = v
      <4>1. c + 2 + i \in c + 3 .. c + 2 + Data(v)
        BY <3>4, <3>5
      <4> QED
        BY <3>3, <4>1 DEF ChunkAt
    <3>9. [i \in 1 .. Data(v) |-> m[c + 2 + i]] = [i \in 1 .. Data(v) |-> v]
      BY <3>8
    <3> QED
      BY <3>7, <3>9, <2>3
  <2> QED
    BY <2>2, <2>3
<1> QED
  BY <1>1, <1>2, AtRest

\* Whoever stores or initializes works on a segment in the state that says so.
LEMMA WhoIsBusy ==
  ASSUME IInv, NEW p \in Proc, pc[p] \in Busy, at[p] \notin broken
  PROVE  /\ at[p] \in Seg
         /\ pc[p] \in {"fields", "free"} => Starting(p, at[p])
         /\ pc[p] \in Putting => \E C \in SUBSET Words, e \in 0 .. Largest :
                                   Live(at[p], C, e) /\ Midway(p, at[p], C, e)
<1> DEFINE s == at[p]
<1>1. s \in Seg
  <2>1. pc[p] # "idle"
    BY DEF Busy, Putting
  <2> QED
    BY <2>1 DEF IInv, Owned, TypeOK
<1>2. At(p, s, Busy) /\ SegOK(s)
  BY <1>1 DEF IInv, At
<1>3. ~New(s)
  BY <1>2 DEF New, At, Busy, Putting
<1>4. ASSUME NEW q \in Proc, Starting(q, s) PROVE Starting(p, s) /\ pc[p] \in {"fields", "free"}
  BY <1>2, <1>4 DEF Starting, At
<1>5. ASSUME NEW C \in SUBSET Words, NEW e \in 0 .. Largest, Live(s, C, e)
      PROVE  Midway(p, s, C, e) /\ pc[p] \in Putting
  <2>1. Midway(p, s, C, e)
    BY <1>2, <1>5 DEF Live
  <2> QED
    BY <2>1 DEF Midway, Putting
<1>6. {"fields", "free"} \cap Putting = {}
  BY DEF Putting
<1> QED
  BY <1>1, <1>2, <1>3, <1>4, <1>5, <1>6 DEF SegOK

LEMMA InSegmentHolds == ASSUME IInv PROVE InSegment
<1> SUFFICES ASSUME NEW p \in Proc, Running(p, "store")
             PROVE  head[at[p]].end + Total(arg[p].value) <= size[at[p]]
  BY DEF InSegment
<1>1. pc[p] \in Busy /\ pc[p] \in Putting /\ pc[p] = "store" /\ at[p] \notin broken
  BY DEF Running, Busy, Putting
<1>2. PICK C \in SUBSET Words, e \in 0 .. Largest :
        Live(at[p], C, e) /\ Midway(p, at[p], C, e) /\ at[p] \in Seg
  BY <1>1, WhoIsBusy
<1>3. /\ arg[p].value \in Value /\ e + Total(arg[p].value) <= head[at[p]].total
      /\ head[at[p]].end = e
  BY <1>1, <1>2 DEF Midway, Adding
<1>4. head[at[p]].total \in Sizes /\ head[at[p]].total <= size[at[p]]
  BY <1>2 DEF Live
<1>5. Total(arg[p].value) \in Nat
  BY <1>3, TotalIs
<1>6. Sizes \subseteq Nat /\ e \in Nat
  <2>1. HeadSize .. Largest \subseteq Nat /\ 0 .. Largest \subseteq Nat
    BY SysVShmAssumption DEF HeadSize
  <2> QED
    BY <2>1, SysVShmAssumption
<1>7. size[at[p]] \in Nat
  <2>1. size[at[p]] \in Sizes \cup {0}
    BY <1>2 DEF IInv, TypeOK
  <2>2. \A n \in Sizes : n \in Nat
    BY <1>6
  <2> QED
    BY <2>1, <2>2
<1>8. head[at[p]].total \in Nat
  BY <1>4, <1>6
<1> QED
  BY <1>3, <1>4, <1>5, <1>6, <1>7, <1>8

LEMMA NotYetHolds == ASSUME IInv PROVE NotYet
<1>1. Steps \ {"idle", "check", "magic"} = Busy
  BY DEF Steps, Busy, Putting
<1> SUFFICES ASSUME NEW p \in Proc, NEW q \in Proc, pc[p] \in {"fields", "free"},
                    at[p] \notin broken, pc[q] \in Busy, at[q] = at[p]
             PROVE  p = q
  BY <1>1 DEF NotYet
<1>2. Starting(p, at[p])
  BY WhoIsBusy DEF Busy
<1> QED
  BY <1>2 DEF Starting, At

(***************************************************************************)
(* Chunks that stay, are added and move.                                   *)
(***************************************************************************)
\* What is written beyond the end changes no chunk.
LEMMA LaidSame ==
  ASSUME NEW m, NEW C, NEW e \in 0 .. Largest, NEW vs, Laid(m, C, e, vs),
         NEW m2, \A w \in 0 .. e - 1 : m2[w] = m[w]
  PROVE  Laid(m2, C, e, vs)
<1>1. e \in Nat /\ HeadSize = 6
  BY SysVShmAssumption DEF HeadSize
<1>2. ASSUME NEW c \in C
      PROVE  /\ m2[c] = m[c] /\ m2[c + 1] = m[c + 1] /\ m2[c + 2] = m[c + 2]
             /\ ChunkAt(m2, c, m[c], vs[m[c]])
  <2> DEFINE k == m[c]
             v == vs[m[c]]
  <2>0. v \in Value /\ c \in Words /\ m[c + 2] = Total(v)
    BY LaidChunk
  <2>8. ChunkAt(m, c, k, v)
    BY LaidChunk
  <2>9. c + m[c + 2] <= e
    BY LaidChunk
  <2> HIDE DEF v, k
  <2>1. v \in Value /\ ChunkAt(m, c, k, v) /\ m[c + 2] = Total(v) /\ c + m[c + 2] <= e
    BY <2>0, <2>8, <2>9
  <2>2. c \in Nat /\ Data(v) \in Nat /\ Total(v) = Data(v) + 4
    BY <2>0, <2>1, TotalIs, SysVShmAssumption DEF Words
  <2>3. c + Data(v) + 4 <= e
    BY <2>1, <2>2
  <2>4. c \in 0 .. e - 1 /\ c + 1 \in 0 .. e - 1 /\ c + 2 \in 0 .. e - 1
    BY <2>2, <2>3, <1>1
  <2>5. ASSUME NEW w \in c + 3 .. c + 2 + Data(v) PROVE m2[w] = v
    <3>1. w \in 0 .. e - 1
      BY <2>2, <2>3, <1>1
    <3> QED
      BY <3>1, <2>1 DEF ChunkAt
  <2>6. ChunkAt(m2, c, k, v)
    BY <2>1, <2>4, <2>5 DEF ChunkAt
  <2> QED
    BY <2>4, <2>6 DEF k, v
<1>3. /\ C \subseteq HeadSize .. e - 1 /\ HeadSize \in C \cup {e}
      /\ \A c, d \in C : c < d => c + m[c + 2] <= d
      /\ \A c, d \in C : m[c] = m[d] => c = d
      /\ \A k \in Key : vs[k] # None => \E c \in C : m[c] = k
      /\ \A c \in C : m[c] \in Key /\ vs[m[c]] \in Value /\ c + m[c + 2] \in C \cup {e}
  BY DEF Laid
<1>4. \A c, d \in C : c < d => c + m2[c + 2] <= d
  BY <1>2, <1>3
<1>5. \A c, d \in C : m2[c] = m2[d] => c = d
  BY <1>2, <1>3
<1>6. \A k \in Key : vs[k] # None => \E c \in C : m2[c] = k
  BY <1>2, <1>3
<1>7. ASSUME NEW c \in C
      PROVE  /\ m2[c] \in Key /\ vs[m2[c]] \in Value /\ ChunkAt(m2, c, m2[c], vs[m2[c]])
             /\ c + m2[c + 2] \in C \cup {e}
  BY <1>2, <1>3
<1> QED
  BY <1>3, <1>4, <1>5, <1>6, <1>7 DEF Laid

\* A chunk more at the end.
LEMMA LaidMore ==
  ASSUME NEW m, NEW C \in SUBSET Words, NEW e \in 0 .. Largest,
         NEW vs \in [Key -> Value \cup {None}], Laid(m, C, e, vs),
         NEW k \in Key, NEW v \in Value, vs[k] = None, ChunkAt(m, e, k, v),
         e >= HeadSize, e + Total(v) <= Largest
  PROVE  /\ C \cup {e} \in SUBSET Words
         /\ Laid(m, C \cup {e}, e + Total(v), [vs EXCEPT ![k] = v])
<1> DEFINE D == C \cup {e}
           f == e + Total(v)
           us == [vs EXCEPT ![k] = v]
<1>1. /\ e \in Nat /\ HeadSize = 6 /\ Largest \in Nat /\ Words = 0 .. Largest - 1
      /\ Total(v) \in Nat /\ Total(v) >= 4 /\ f \in Nat
  BY SysVShmAssumption, TotalIs DEF HeadSize, Words
<1>2. D \in SUBSET Words
  BY <1>1
<1>3. m[e] = k /\ m[e + 2] = Total(v)
  BY DEF ChunkAt
<1>4. \A c \in C : c < e /\ c >= HeadSize /\ c \in Nat
  <2>1. \A c \in C : c \in Words /\ c < e /\ c >= HeadSize
    BY LaidChunk
  <2> QED
    BY <2>1, <1>1
<1>5. ASSUME NEW c \in C PROVE m[c] # k /\ us[m[c]] = vs[m[c]] /\ m[c] \in Key
  <2>1. m[c] \in Key /\ vs[m[c]] \in Value
    BY LaidChunk
  <2> QED
    BY <2>1, SysVShmAssumption
<1>6. us[k] = v
  OBVIOUS
<1> HIDE DEF us
<1>7. D \subseteq HeadSize .. f - 1 /\ HeadSize \in D \cup {f}
  <2>1. \A c \in D : c \in HeadSize .. f - 1
    BY <1>1, <1>4
  <2>2. HeadSize \in C \cup {e}
    BY DEF Laid
  <2> QED
    BY <2>1, <2>2
<1>8. ASSUME NEW c \in D
      PROVE  /\ m[c] \in Key /\ us[m[c]] \in Value /\ ChunkAt(m, c, m[c], us[m[c]])
             /\ c + m[c + 2] \in D \cup {f}
  <2>1. CASE c \in C
    <3>1. /\ m[c] \in Key /\ vs[m[c]] \in Value /\ ChunkAt(m, c, m[c], vs[m[c]])
          /\ c + m[c + 2] \in C \cup {e}
      BY <2>1, LaidChunk
    <3> QED
      BY <3>1, <2>1, <1>5
  <2>2. CASE c = e
    BY <2>2, <1>3, <1>6
  <2> QED
    BY <2>1, <2>2
<1>9. ASSUME NEW c \in D, NEW d \in D, c < d PROVE c + m[c + 2] <= d
  <2>1. c \in C
    BY <1>4, <1>9, <1>1
  <2>2. CASE d = e
    BY <2>1, <2>2, LaidChunk
  <2>3. CASE d \in C
    BY <2>1, <2>3, <1>9 DEF Laid
  <2> QED
    BY <2>2, <2>3
<1>10. ASSUME NEW c \in D, NEW d \in D, m[c] = m[d] PROVE c = d
  <2>1. CASE c \in C /\ d \in C
    BY <2>1, <1>10 DEF Laid
  <2>2. CASE c = e \/ d = e
    BY <2>2, <1>10, <1>5, <1>3
  <2> QED
    BY <2>1, <2>2
<1>11. ASSUME NEW j \in Key, us[j] # None PROVE \E c \in D : m[c] = j
  <2>1. CASE j = k
    BY <2>1, <1>3
  <2>2. CASE j # k
    <3>1. vs[j] # None
      BY <2>2, <1>11 DEF us
    <3> QED
      BY <3>1 DEF Laid
  <2> QED
    BY <2>1, <2>2
<1>12. Laid(m, D, f, us)
  <2> HIDE DEF D, f
  <2> QED
    BY <1>7, <1>8, <1>9, <1>10, <1>11 DEF Laid
<1> QED
  BY <1>2, <1>12 DEF us

\* The chunks after pos move up over it.
LEMMA LaidMoved ==
  ASSUME NEW m, NEW C \in SUBSET Words, NEW e \in 0 .. Largest,
         NEW vs \in [Key -> Value \cup {None}], Laid(m, C, e, vs),
         NEW pos \in C, NEW n, n = m[pos + 2],
         NEW m2, m2 = [w \in Words |-> IF w < pos THEN m[w]
                                       ELSE IF w < e - n THEN m[w + n] ELSE 0]
  PROVE  /\ e - n \in 0 .. Largest /\ e - n >= HeadSize
         /\ \E D \in SUBSET Words : Laid(m2, D, e - n, [vs EXCEPT ![m[pos]] = None])
<1> DEFINE len(c) == m[c + 2]
           to(c) == IF c < pos THEN c ELSE c - n
           Left == C \ {pos}
           D == {to(c) : c \in Left}
           f == e - n
           us == [vs EXCEPT ![m[pos]] = None]
<1>1. e \in Nat /\ HeadSize = 6 /\ Largest \in Nat /\ Words = 0 .. Largest - 1 /\ e <= Largest
  BY SysVShmAssumption DEF HeadSize, Words
<1>2. /\ \A c \in C : m[c] \in Key /\ vs[m[c]] \in Value /\ ChunkAt(m, c, m[c], vs[m[c]])
      /\ \A c \in C : c \in Words /\ c >= HeadSize /\ c < e
      /\ \A c \in C : len(c) = Total(vs[m[c]]) /\ len(c) \in Nat /\ len(c) >= 4
      /\ \A c \in C : c + len(c) \in C \cup {e} /\ c + len(c) <= e /\ c + len(c) > c
  <2>1. ASSUME NEW c \in C
        PROVE  m[c] \in Key /\ vs[m[c]] \in Value /\ ChunkAt(m, c, m[c], vs[m[c]])
    BY LaidChunk
  <2>2. ASSUME NEW c \in C PROVE c \in Words /\ c >= HeadSize /\ c < e
    BY LaidChunk
  <2>3. ASSUME NEW c \in C PROVE len(c) = Total(vs[m[c]]) /\ len(c) \in Nat /\ len(c) >= 4
    <3>1. m[c + 2] = Total(vs[m[c]])
      BY <2>1 DEF ChunkAt
    <3>2. m[c + 2] \in Nat /\ m[c + 2] >= 4
      BY LaidChunk
    <3> QED
      BY <3>1, <3>2
  <2>4. ASSUME NEW c \in C
        PROVE  c + len(c) \in C \cup {e} /\ c + len(c) <= e /\ c + len(c) > c
    BY LaidChunk
  <2> QED
    BY <2>1, <2>2, <2>3, <2>4
<1>3. /\ HeadSize \in C \cup {e}
      /\ \A c, d \in C : c < d => c + len(c) <= d
      /\ \A c, d \in C : m[c] = m[d] => c = d
      /\ \A k \in Key : vs[k] # None => \E c \in C : m[c] = k
  BY DEF Laid
<1>4. n = len(pos) /\ n \in Nat /\ n >= 4 /\ pos + n <= e /\ pos \in Nat /\ pos >= HeadSize
  BY <1>1, <1>2
<1>5. \A c \in C : c \in Nat
  BY <1>1, <1>2
<1> HIDE DEF len
<1>6. f \in Nat /\ f \in 0 .. Largest /\ f >= HeadSize /\ f >= pos
  BY <1>1, <1>4
<1>7. \A c \in Left : \/ c < pos /\ c + len(c) <= pos /\ to(c) = c
                      \/ c >= pos + n /\ to(c) = c - n /\ to(c) >= pos
  <2>1. ASSUME NEW c \in Left PROVE c < pos \/ c > pos
    BY <1>4, <1>5
  <2>2. ASSUME NEW c \in Left, c < pos PROVE c + len(c) <= pos /\ to(c) = c
    BY <2>2, <1>3
  <2>3. ASSUME NEW c \in Left, c > pos PROVE c >= pos + n /\ to(c) = c - n /\ to(c) >= pos
    <3>1. pos + n <= c
      BY <2>3, <1>3, <1>4
    <3>2. c \in Nat
      BY <1>5
    <3> QED
      BY <3>1, <3>2, <1>4
  <2> QED
    BY <2>1, <2>2, <2>3
<1> HIDE DEF to
<1>8. \A c \in Left : to(c) \in Nat /\ to(c) >= HeadSize /\ to(c) + len(c) <= f
  <2>1. ASSUME NEW c \in Left PROVE to(c) \in Nat /\ to(c) >= HeadSize /\ to(c) + len(c) <= f
    <3>1. c \in Nat /\ c >= HeadSize /\ len(c) \in Nat /\ c + len(c) <= e
      BY <1>2, <1>5
    <3>2. CASE c < pos /\ c + len(c) <= pos /\ to(c) = c
      BY <3>1, <3>2, <1>4, <1>6
    <3>3. CASE c >= pos + n /\ to(c) = c - n /\ to(c) >= pos
      BY <3>1, <3>3, <1>1, <1>4
    <3> QED
      BY <3>2, <3>3, <1>7
  <2> QED
    BY <2>1
\* The words of a chunk that is left are those it had.
<1>9. ASSUME NEW c \in Left, NEW i \in 0 .. len(c) - 1 PROVE m2[to(c) + i] = m[c + i]
  <2>1. /\ c \in Nat /\ len(c) \in Nat /\ i \in Nat /\ i < len(c) /\ to(c) \in Nat
        /\ to(c) + len(c) <= f
    BY <1>2, <1>5, <1>8
  <2>2. to(c) + i \in Words /\ to(c) + i < f
    <3>1. f \in Nat /\ f <= Largest
      BY <1>6
    <3> HIDE DEF f
    <3> QED
      BY <3>1, <2>1, <1>1
  <2>3. m2[to(c) + i] = IF to(c) + i < pos THEN m[to(c) + i]
                        ELSE IF to(c) + i < e - n THEN m[to(c) + i + n] ELSE 0
    BY <2>2
  <2>4. CASE c < pos /\ c + len(c) <= pos /\ to(c) = c
    <3>1. to(c) + i < pos
      BY <2>1, <2>4, <1>4
    <3> QED
      BY <3>1, <2>3, <2>4
  <2>5. CASE c >= pos + n /\ to(c) = c - n /\ to(c) >= pos
    <3>1. ~(to(c) + i < pos) /\ to(c) + i < e - n /\ to(c) + i + n = c + i
      BY <2>1, <2>2, <2>5, <1>4
    <3> QED
      BY <3>1, <2>3
  <2> QED
    BY <2>4, <2>5, <1>7
<1>10. ASSUME NEW c \in Left
       PROVE  /\ m2[to(c)] = m[c] /\ m2[to(c) + 2] = len(c)
              /\ ChunkAt(m2, to(c), m[c], vs[m[c]])
  <2> DEFINE v == vs[m[c]]
             k == m[c]
  <2>1. v \in Value /\ ChunkAt(m, c, k, v) /\ len(c) = Total(v) /\ c \in Nat /\ to(c) \in Nat
    BY <1>2, <1>5, <1>8
  <2> HIDE DEF v, k
  <2>2. Data(v) \in Nat /\ len(c) = Data(v) + 4
    BY <2>1, TotalIs
  <2>3. 0 \in 0 .. len(c) - 1 /\ 1 \in 0 .. len(c) - 1 /\ 2 \in 0 .. len(c) - 1
    BY <2>2
  <2>4. m2[to(c) + 0] = m[c + 0] /\ m2[to(c) + 1] = m[c + 1] /\ m2[to(c) + 2] = m[c + 2]
    BY <2>3, <1>9
  <2>5. to(c) + 0 = to(c) /\ c + 0 = c
    BY <2>1
  <2>6. ASSUME NEW w \in to(c) + 3 .. to(c) + 2 + Data(v) PROVE m2[w] = v
    <3> DEFINE i == w - to(c)
    <3>1. i \in 0 .. len(c) - 1 /\ to(c) + i = w /\ c + i \in c + 3 .. c + 2 + Data(v)
      BY <2>1, <2>2
    <3> HIDE DEF i
    <3>2. m2[to(c) + i] = m[c + i]
      BY <3>1, <1>9
    <3> QED
      BY <3>1, <3>2, <2>1 DEF ChunkAt
  <2>7. ChunkAt(m2, to(c), k, v)
    BY <2>1, <2>4, <2>5, <2>6 DEF ChunkAt
  <2> QED
    BY <2>4, <2>5, <2>7 DEF v, k, len
<1>11. \A c, d \in Left : c < d => to(c) + len(c) <= to(d)
  <2>1. ASSUME NEW c \in Left, NEW d \in Left, c < d PROVE to(c) + len(c) <= to(d)
    <3>1. c + len(c) <= d /\ c \in Nat /\ d \in Nat /\ len(c) \in Nat
      BY <1>2, <1>3, <1>5, <2>1
    <3>2. CASE to(d) = d
      <4>1. to(c) = c
        BY <3>1, <3>2, <2>1, <1>4, <1>7
      <4> QED
        BY <3>1, <3>2, <4>1
    <3>3. CASE d >= pos + n /\ to(d) = d - n /\ to(d) >= pos
      <4>1. CASE c < pos /\ c + len(c) <= pos /\ to(c) = c
        BY <4>1, <3>1, <3>3, <1>4
      <4>2. CASE to(c) = c - n
        BY <4>2, <3>1, <3>3, <1>4
      <4> QED
        BY <4>1, <4>2, <1>7
    <3> QED
      BY <3>2, <3>3, <1>7
  <2> QED
    BY <2>1
<1>12. \A c, d \in Left : to(c) = to(d) => c = d
  <2>1. ASSUME NEW c \in Left, NEW d \in Left, c < d PROVE to(c) # to(d)
    <3>1. to(c) + len(c) <= to(d) /\ to(c) \in Nat /\ to(d) \in Nat /\ len(c) \in Nat /\ len(c) >= 4
      BY <2>1, <1>2, <1>8, <1>11
    <3> QED
      BY <3>1
  <2>2. ASSUME NEW c \in Left, NEW d \in Left PROVE c < d \/ d < c \/ c = d
    BY <1>5
  <2> QED
    BY <2>1, <2>2
\* The chunk after one that is left is left, or it is pos, and the chunk after that.
<1>13. ASSUME NEW c \in Left PROVE to(c) + len(c) \in D \cup {f}
  <2> DEFINE d == c + len(c)
             p2 == pos + n
  <2>1. d \in C \cup {e} /\ p2 \in C \cup {e} /\ d > c /\ c \in Nat /\ d \in Nat
        /\ len(c) \in Nat /\ p2 \in Nat /\ p2 > pos
    BY <1>1, <1>2, <1>4, <1>5
  <2> HIDE DEF d, p2
  <2>2. CASE c < pos /\ d <= pos /\ to(c) = c
    <3>1. to(c) + len(c) = d
      BY <2>2 DEF d
    <3>2. CASE d < pos
      <4>1. d \in Left
        BY <3>2, <2>1, <1>4, <1>1
      <4>2. to(d) = d
        BY <3>2, <4>1, <1>7, <1>4, <2>1
      <4> QED
        BY <3>1, <4>1, <4>2
    <3>3. CASE d = pos
      <4>1. CASE p2 \in C
        <5>1. p2 \in Left
          BY <4>1, <2>1, <1>4
        <5>2. to(p2) = pos
          <6>1. ~(p2 < pos)
            BY <2>1, <1>4
          <6>2. to(p2) = p2 - n
            BY <5>1, <6>1, <1>7
          <6> QED
            BY <6>2, <1>4 DEF p2
        <5> QED
          BY <3>1, <3>3, <5>1, <5>2
      <4>2. CASE p2 = e
        <5>1. f = pos
          BY <4>2, <1>4, <1>1 DEF p2
        <5> QED
          BY <3>1, <3>3, <5>1
      <4> QED
        BY <4>1, <4>2, <2>1
    <3>4. d < pos \/ d = pos
      BY <2>2, <2>1, <1>4
    <3> QED
      BY <3>2, <3>3, <3>4
  <2>3. CASE c >= pos + n /\ to(c) = c - n
    <3>1. to(c) + len(c) = d - n
      BY <2>3, <2>1, <1>4 DEF d
    <3>2. CASE d \in C
      <4>1. d \in Left /\ ~(d < pos)
        BY <3>2, <2>3, <2>1, <1>4
      <4>2. to(d) = d - n
        BY <4>1, <1>7
      <4> QED
        BY <3>1, <4>1, <4>2
    <3>3. CASE d = e
      BY <3>1, <3>3
    <3> QED
      BY <3>2, <3>3, <2>1
  <2>4. d <= pos <=> c + len(c) <= pos
    BY DEF d
  <2> QED
    BY <2>2, <2>3, <2>4, <1>7
<1>14. D \in SUBSET Words /\ D \subseteq HeadSize .. f - 1
  <2>1. ASSUME NEW c \in Left PROVE to(c) \in HeadSize .. f - 1
    <3>1. len(c) \in Nat /\ len(c) >= 4
      BY <1>2
    <3> QED
      BY <3>1, <1>8, <1>6, <1>1
  <2>2. HeadSize .. f - 1 \subseteq Words
    BY <1>1, <1>6, <1>4
  <2> QED
    BY <2>1, <2>2
<1>15. HeadSize \in D \cup {f}
  <2>1. CASE HeadSize \in Left
    <3>1. HeadSize < pos
      BY <2>1, <1>4, <1>1
    <3>2. to(HeadSize) = HeadSize
      BY <2>1, <3>1, <1>7, <1>4, <1>1
    <3> QED
      BY <2>1, <3>2
  <2>2. CASE HeadSize = pos
    <3>1. CASE pos + n \in C
      <4> DEFINE p2 == pos + n
      <4>1. p2 \in Left /\ ~(p2 < pos) /\ p2 - n = pos
        BY <3>1, <1>4
      <4> HIDE DEF p2
      <4>2. to(p2) = p2 - n
        BY <4>1, <1>7
      <4> QED
        BY <4>1, <4>2, <2>2
    <3>2. CASE pos + n = e
      BY <3>2, <2>2, <1>4, <1>1
    <3> QED
      BY <3>1, <3>2, <1>2, <1>4
  <2>3. HeadSize # e
    BY <1>2, <1>4, <1>1
  <2> QED
    BY <2>1, <2>2, <2>3, <1>3
<1>16. /\ \A c \in Left : m[c] # m[pos] /\ us[m[c]] = vs[m[c]]
       /\ us[m[pos]] = None /\ \A k \in Key : k # m[pos] => us[k] = vs[k]
  BY <1>2, <1>3
<1> HIDE DEF us, f
<1>17. ASSUME NEW d \in D
       PROVE  /\ m2[d] \in Key /\ us[m2[d]] \in Value /\ ChunkAt(m2, d, m2[d], us[m2[d]])
              /\ d + m2[d + 2] \in D \cup {f}
  <2>1. PICK c \in Left : d = to(c)
    OBVIOUS
  <2>2. m2[d] = m[c] /\ m2[d + 2] = len(c) /\ ChunkAt(m2, d, m[c], vs[m[c]])
    BY <2>1, <1>10
  <2>3. us[m[c]] = vs[m[c]] /\ m[c] \in Key /\ vs[m[c]] \in Value
    BY <1>2, <1>16
  <2>4. d + len(c) \in D \cup {f}
    BY <2>1, <1>13
  <2> HIDE DEF D
  <2> QED
    BY <2>2, <2>3, <2>4
<1>18. ASSUME NEW x \in D, NEW y \in D, x < y PROVE x + m2[x + 2] <= y
  <2>1. PICK c \in Left, d \in Left : x = to(c) /\ y = to(d)
    OBVIOUS
  <2>2. c < d
    <3>1. c \in Nat /\ d \in Nat /\ to(c) \in Nat /\ to(d) \in Nat /\ len(d) \in Nat
      BY <1>2, <1>5, <1>8
    <3>2. d < c => to(d) + len(d) <= to(c)
      BY <1>11
    <3>3. c # d
      BY <2>1, <1>18, <3>1
    <3> QED
      BY <3>1, <3>2, <3>3, <2>1, <1>18
  <2>3. to(c) + len(c) <= to(d) /\ m2[to(c) + 2] = len(c)
    BY <2>2, <1>10, <1>11
  <2> QED
    BY <2>1, <2>3
<1>19. ASSUME NEW x \in D, NEW y \in D, m2[x] = m2[y] PROVE x = y
  <2>1. PICK c \in Left, d \in Left : x = to(c) /\ y = to(d)
    OBVIOUS
  <2>2. m2[x] = m[c] /\ m2[y] = m[d]
    BY <2>1, <1>10
  <2>3. c = d
    BY <2>2, <1>19, <1>3
  <2> QED
    BY <2>1, <2>3
<1>20. ASSUME NEW k \in Key, us[k] # None PROVE \E d \in D : m2[d] = k
  <2>1. k # m[pos] /\ vs[k] # None
    BY <1>16, <1>20
  <2>2. PICK c \in C : m[c] = k
    BY <2>1, <1>3
  <2>3. c \in Left
    BY <2>1, <2>2
  <2>4. to(c) \in D /\ m2[to(c)] = k
    BY <2>2, <2>3, <1>10
  <2> QED
    BY <2>4
<1>21. Laid(m2, D, f, us)
  <2> HIDE DEF D
  <2> QED
    BY <1>14, <1>15, <1>17, <1>18, <1>19, <1>20 DEF Laid
<1> QED
  BY <1>6, <1>14, <1>21 DEF us, f

(***************************************************************************)
(* What steps leave alone.                                                 *)
(***************************************************************************)
\* The states of a segment tell apart who is at work there.
LEMMA NewIf == ASSUME NEW s \in Seg, SegOK(s), ~head[s].magic PROVE New(s)
  BY DEF SegOK, Starting, Live

LEMMA CleanIs == ASSUME NEW s, Clean(s) PROVE ~head[s].magic /\ head[s] = Blank
  BY DEF Clean, Blank

\* A segment stays as it is when those who work on it do.
LEMMA SegSame ==
  ASSUME NEW s \in Seg, SegOK(s), head'[s] = head[s], mem'[s] = mem[s], vals'[s] = vals[s],
         size'[s] = size[s], \A p \in Proc : At(p, s, Busy)' <=> At(p, s, Busy),
         \A p \in Proc : At(p, s, Busy) => pc'[p] = pc[p] /\ arg'[p] = arg[p],
         head[s].magic \/ \A p \in Proc : at'[p] = s => pc'[p] \in {"check", "magic"}
  PROVE  SegOK(s)'
<1>1. CASE New(s)
  <2>1. Clean(s)' /\ ~head[s].magic
    BY <1>1, CleanIs DEF New, Clean
  <2>2. New(s)'
    BY <2>1 DEF New
  <2> QED
    BY <2>2 DEF SegOK
<1>2. ASSUME NEW p \in Proc, Starting(p, s) PROVE SegOK(s)'
  <2>1. At(p, s, Busy) /\ pc'[p] = pc[p] /\ arg'[p] = arg[p]
    BY <1>2 DEF Starting, At, Busy
  <2>2. At(p, s, {"fields", "free"})'
    BY <1>2, <2>1 DEF Starting, At
  <2>3. Starting(p, s)'
    BY <1>2, <2>1, <2>2 DEF Starting
  <2> QED
    BY <2>3 DEF SegOK
<1>3. ASSUME NEW C \in SUBSET Words, NEW e \in 0 .. Largest, Live(s, C, e) PROVE SegOK(s)'
  <2>1. ASSUME NEW p \in Proc, At(p, s, Busy)' PROVE Midway(p, s, C, e)'
    <3>1. At(p, s, Busy) /\ pc'[p] = pc[p] /\ arg'[p] = arg[p]
      BY <2>1
    <3>2. Midway(p, s, C, e)
      BY <1>3, <3>1 DEF Live
    <3> QED
      BY <3>1, <3>2 DEF Midway, Replacing, Adding
  <2>2. Live(s, C, e)'
    BY <1>3, <2>1 DEF Live
  <2> QED
    BY <2>2 DEF SegOK
<1> QED
  BY <1>1, <1>2, <1>3 DEF SegOK

\* A step of one process in its segment.
LEMMA Working ==
  ASSUME IInv, NEW p \in Proc, NEW s \in Seg, at[p] = s, UNCHANGED <<shmid, size, at, sem>>,
         broken \subseteq broken',
         TypeOK', ArgOK',
         \A q \in Proc : q # p => pc'[q] = pc[q] /\ arg'[q] = arg[q],
         pc'[p] \in Putting => sem = p,
         pc'[p] \in {"check", "magic", "fields", "free"} => arg'[p].size \in Sizes,
         \A u \in Seg : u # s => head'[u] = head[u] /\ mem'[u] = mem[u] /\ vals'[u] = vals[u],
         s \notin broken' => SegOK(s)'
  PROVE  IInv'
<1>1. Owned'
  <2>1. at[p] # None
    BY SysVShmAssumption
  <2> QED
    BY <2>1 DEF IInv, Owned
<1>2. ASSUME NEW u \in Seg, size'[u] = 0 PROVE Clean(u)'
  <2>1. u # s
    <3>1. size[s] > 0
      BY SysVShmAssumption DEF IInv, Owned
    <3> QED
      BY <3>1, <1>2
  <2>2. Clean(u)
    BY <1>2 DEF IInv
  <2> QED
    BY <2>1, <2>2 DEF Clean
<1>3. ASSUME NEW u \in Seg, u \notin broken', u # s PROVE SegOK(u)'
  <2>1. SegOK(u)
    BY <1>3 DEF IInv
  <2>2. \A q \in Proc : at'[q] = u \/ at[q] = u => q # p /\ at'[q] = at[q]
    BY <1>3
  <2>3. \A q \in Proc : At(q, u, Busy)' <=> At(q, u, Busy)
    BY <2>2 DEF At
  <2>4. \A q \in Proc : At(q, u, Busy) => pc'[q] = pc[q] /\ arg'[q] = arg[q]
    BY <2>2 DEF At
  <2>5. head[u].magic \/ \A q \in Proc : at'[q] = u => pc'[q] \in {"check", "magic"}
    <3>1. CASE ~head[u].magic
      <4>1. New(u)
        BY <2>1, <3>1, NewIf
      <4> QED
        BY <4>1, <2>2 DEF New
    <3> QED
      BY <3>1
  <2> QED
    BY <1>3, <2>1, <2>3, <2>4, <2>5, SegSame
<1>4. \A u \in Seg : u \notin broken' => SegOK(u)'
  BY <1>3
<1>5. \A u \in Seg : size'[u] = 0 => Clean(u)'
  BY <1>2
<1> QED
  BY <1>1, <1>4, <1>5 DEF IInv

\* The types of what a process that goes on, or returns, has left.
ArgType == [key : Key \cup {0}, value : Value \cup {None}, pos : Int, size : Sizes \cup {0}]

HeadType == [magic : BOOLEAN, start : {0, HeadSize}, end : 0 .. Largest, free : Int,
             total : Sizes \cup {0}]

LEMMA Types ==
  ASSUME TypeOK, ArgOK
  PROVE  /\ head \in [Seg -> HeadType] /\ mem \in [Seg -> [Words -> Nat]]
         /\ pc \in [Proc -> Steps] /\ arg \in [Proc -> ArgType]
         /\ vals \in [Seg -> [Key -> Value \cup {None}]] /\ at \in [Proc -> Seg \cup {None}]
  BY DEF TypeOK, ArgOK, HeadType, ArgType

LEMMA Goes ==
  ASSUME TypeOK, ArgOK, NEW p \in Proc, NEW x \in Steps, Goto(p, x)
  PROVE  /\ pc' \in [Proc -> Steps] /\ arg' \in [Proc -> ArgType] /\ arg' = arg /\ pc'[p] = x
         /\ \A q \in Proc : q # p => pc'[q] = pc[q] /\ arg'[q] = arg[q]
  BY DEF TypeOK, ArgOK, ArgType, Goto

LEMMA Returns ==
  ASSUME TypeOK, ArgOK, NEW p \in Proc, Return(p)
  PROVE  /\ pc' \in [Proc -> Steps] /\ arg' \in [Proc -> ArgType] /\ pc'[p] = "idle"
         /\ \A q \in Proc : q # p => pc'[q] = pc[q] /\ arg'[q] = arg[q]
<1>1. NoArg \in ArgType
  BY DEF NoArg, ArgType
<1>2. "idle" \in Steps
  BY DEF Steps
<1> QED
  BY <1>1, <1>2 DEF TypeOK, ArgOK, ArgType, Return

LEMMA SizesAre ==
  /\ HeadSize = 6 /\ Largest \in Nat /\ Words = 0 .. Largest - 1
  /\ \A n \in Sizes : n \in Nat /\ HeadSize <= n /\ n <= Largest
<1>1. \A n \in Sizes : n \in HeadSize .. Largest
  BY SysVShmAssumption
<1> QED
  BY <1>1, SysVShmAssumption DEF HeadSize, Words

\* Who is in a function works on a segment, and who puts is alone with it.
LEMMA Attached ==
  ASSUME IInv, NEW p \in Proc, pc[p] # "idle"
  PROVE  at[p] \in Seg /\ size[at[p]] > 0
  BY DEF IInv, Owned, TypeOK

LEMMA Alone ==
  ASSUME IInv, NEW p \in Proc, NEW s \in Seg, NEW C, NEW e, Live(s, C, e), sem = p
  PROVE  \A q \in Proc : At(q, s, Busy) => q = p
<1> SUFFICES ASSUME NEW q \in Proc, At(q, s, Busy) PROVE q = p
  OBVIOUS
<1>1. Midway(q, s, C, e)
  BY DEF Live
<1>2. pc[q] \in Putting
  BY <1>1 DEF Midway, Putting
<1> QED
  BY <1>2 DEF IInv, Owned

LEMMA InitHolds == ASSUME Init PROVE IInv
<1>1. HeadSize \in Nat /\ 0 \in 0 .. Largest
  BY SysVShmAssumption DEF HeadSize
<1>2. Blank \in HeadType /\ NoArg \in ArgType /\ Zeros \in [Words -> Nat]
      /\ NoVal \in [Key -> Value \cup {None}] /\ "idle" \in Steps
  BY <1>1 DEF Blank, HeadType, NoArg, ArgType, Zeros, NoVal, Steps
<1>3. TypeOK
  BY <1>2 DEF Init, TypeOK, HeadType
<1>4. ArgOK
  BY <1>2 DEF Init, ArgOK, ArgType
<1>5. Owned
  BY SysVShmAssumption DEF Init, Owned, Putting
<1>6. ASSUME NEW s \in Seg PROVE Clean(s) /\ SegOK(s)
  <2>1. Clean(s)
    BY DEF Init, Clean
  <2>2. New(s)
    BY <2>1, SysVShmAssumption DEF Init, New
  <2> QED
    BY <2>1, <2>2 DEF SegOK
<1> QED
  BY <1>3, <1>4, <1>5, <1>6 DEF IInv

(***************************************************************************)
(* shm_attach(), one assignment after the other.                           *)
(***************************************************************************)
LEMMA CheckStep ==
  ASSUME IInv, NEW p \in Proc, NEW s \in Seg, at[p] = s, Check(p)
  PROVE  IInv'
<1>1. TypeOK /\ ArgOK
  BY DEF IInv
<1>2. pc[p] = "check" /\ s \notin broken /\ UNCHANGED <<files, at, sem, ghosts>>
  BY DEF Check, Running
<1>3. arg[p].size \in Sizes
  BY <1>2 DEF IInv, Owned
<1>4. \/ head[s].magic /\ Return(p)
      \/ ~head[s].magic /\ Goto(p, "magic")
  BY DEF Check
<1>5. /\ pc' \in [Proc -> Steps] /\ arg' \in [Proc -> ArgType]
      /\ pc'[p] \in {"idle", "magic"} /\ (pc'[p] = "magic" => ~head[s].magic /\ arg' = arg)
      /\ (~head[s].magic => pc'[p] = "magic")
      /\ \A q \in Proc : q # p => pc'[q] = pc[q] /\ arg'[q] = arg[q]
  <2>1. "magic" \in Steps
    BY DEF Steps
  <2> QED
    BY <1>1, <1>4, <2>1, Goes, Returns
<1>6. TypeOK' /\ ArgOK'
  BY <1>1, <1>2, <1>5 DEF TypeOK, ArgOK, ArgType, files, ghosts
<1>7. SegOK(s)'
  <2>1. SegOK(s)
    BY <1>2 DEF IInv
  <2>2. ~At(p, s, Busy) /\ ~At(p, s, Busy)'
    BY <1>2, <1>5 DEF At, Busy, Putting
  <2>3. \A q \in Proc : At(q, s, Busy)' <=> At(q, s, Busy)
    BY <1>2, <1>5, <2>2 DEF At
  <2>4. \A q \in Proc : At(q, s, Busy) => pc'[q] = pc[q] /\ arg'[q] = arg[q]
    BY <1>5, <2>2
  <2>5. head[s].magic \/ \A q \in Proc : at'[q] = s => pc'[q] \in {"check", "magic"}
    <3>1. CASE ~head[s].magic
      <4>1. New(s)
        BY <2>1, <3>1, NewIf
      <4> QED
        BY <4>1, <1>2, <1>5, <3>1 DEF New
    <3> QED
      BY <3>1
  <2>6. head'[s] = head[s] /\ mem'[s] = mem[s] /\ vals'[s] = vals[s] /\ size'[s] = size[s]
    BY <1>2 DEF files, ghosts
  <2> QED
    BY <2>1, <2>3, <2>4, <2>5, <2>6, SegSame
<1>8. /\ UNCHANGED <<shmid, size, at, sem, broken>>
      /\ head' = head /\ mem' = mem /\ vals' = vals /\ SegOK(s)'
  BY <1>2, <1>7 DEF files, ghosts
<1>9. /\ pc'[p] \in Putting => sem = p
      /\ pc'[p] \in {"check", "magic", "fields", "free"} => arg'[p].size \in Sizes
  BY <1>3, <1>5 DEF Putting
<1> QED
  BY <1>5, <1>6, <1>8, <1>9, Working

LEMMA SetMagicStep ==
  ASSUME IInv, NEW p \in Proc, NEW s \in Seg, at[p] = s, SetMagic(p)
  PROVE  IInv'
<1>1. TypeOK /\ ArgOK /\ "fields" \in Steps
  BY DEF IInv, Steps
<1>2. /\ pc[p] = "magic" /\ s \notin broken /\ Goto(p, "fields")
      /\ UNCHANGED <<shmid, size, at, sem>>
      /\ broken' = IF head[s].magic \/ arg[p].size > size[s] THEN broken \cup {s} ELSE broken
      /\ head' = [head EXCEPT ![s] = IF s \in broken' THEN Blank ELSE [@ EXCEPT !.magic = TRUE]]
      /\ mem' = [mem EXCEPT ![s] = IF s \in broken' THEN Zeros ELSE @]
      /\ vals' = [vals EXCEPT ![s] = IF s \in broken' THEN NoVal ELSE @]
  BY DEF SetMagic, Running
<1>3. arg[p].size \in Sizes
  BY <1>2 DEF IInv, Owned
<1>4. /\ pc' \in [Proc -> Steps] /\ arg' \in [Proc -> ArgType] /\ arg' = arg /\ pc'[p] = "fields"
      /\ \A q \in Proc : q # p => pc'[q] = pc[q] /\ arg'[q] = arg[q]
  BY <1>1, <1>2, Goes
<1>5. Blank \in HeadType /\ Zeros \in [Words -> Nat] /\ NoVal \in [Key -> Value \cup {None}]
  <2>1. HeadSize \in Nat /\ 0 \in 0 .. Largest
    BY SysVShmAssumption DEF HeadSize
  <2> QED
    BY <2>1 DEF Blank, HeadType, Zeros, NoVal
<1>6. head' \in [Seg -> HeadType]
  <2>1. head \in [Seg -> HeadType] /\ head[s] \in HeadType
    BY <1>1, Types
  <2>2. [head[s] EXCEPT !.magic = TRUE] \in HeadType
    BY <2>1 DEF HeadType
  <2> QED
    BY <2>1, <2>2, <1>2, <1>5
<1>7. mem' \in [Seg -> [Words -> Nat]]
  BY <1>1, <1>2, <1>5, Types
<1>8. vals' \in [Seg -> [Key -> Value \cup {None}]] /\ broken' \subseteq Seg
  BY <1>1, <1>2, <1>5 DEF ArgOK
<1>9. TypeOK' /\ ArgOK'
  BY <1>1, <1>2, <1>4, <1>6, <1>7, <1>8 DEF TypeOK, ArgOK, ArgType, HeadType
<1>10. \A u \in Seg : u # s => head'[u] = head[u] /\ mem'[u] = mem[u] /\ vals'[u] = vals[u]
  <2>1. \A u \in Seg : u # s => head'[u] = head[u] /\ vals'[u] = vals[u]
    BY <1>1, <1>2, Types
  <2>2. \A u \in Seg : u # s => mem'[u] = mem[u]
    BY <1>2
  <2> QED
    BY <2>1, <2>2
<1>11. ASSUME s \notin broken' PROVE SegOK(s)'
  <2>1. ~head[s].magic /\ ~(arg[p].size > size[s])
    BY <1>2, <1>11
  <2>2. New(s)
    <3>1. SegOK(s)
      BY <1>2 DEF IInv
    <3> QED
      BY <3>1, <2>1, NewIf
  <2>3. head'[s] = [Blank EXCEPT !.magic = TRUE] /\ vals'[s] = NoVal
    BY <2>2, <1>1, <1>2, <1>11, Types DEF New, Clean
  <2>4. arg[p].size <= size[s]
    <3>1. arg[p].size \in Nat /\ size[s] \in Nat
      <4>1. size[s] \in Sizes \cup {0}
        BY <1>1 DEF TypeOK
      <4> QED
        BY <4>1, <1>3, SizesAre
    <3> QED
      BY <3>1, <2>1
  <2>5. ASSUME NEW q \in Proc, At(q, s, Busy)' PROVE q = p
    <3>1. at[q] = s /\ pc'[q] \in Busy
      BY <2>5, <1>2 DEF At
    <3>2. pc[q] \notin Busy
      BY <3>1, <2>2 DEF New, Busy, Putting
    <3> QED
      BY <3>1, <3>2, <1>4
  <2>6. Starting(p, s)'
    <3>1. At(p, s, {"fields", "free"})'
      BY <1>2, <1>4 DEF At
    <3>2. head'[s].magic
      BY <2>3 DEF Blank
    <3> QED
      BY <3>1, <3>2, <2>3, <2>4, <2>5, <1>2, <1>4 DEF Starting
  <2> QED
    BY <2>6 DEF SegOK
<1>12. pc'[p] \notin Putting /\ arg'[p].size \in Sizes /\ broken \subseteq broken'
  BY <1>2, <1>3, <1>4 DEF Putting
<1> QED
  BY <1>2, <1>4, <1>9, <1>10, <1>11, <1>12, Working

LEMMA SetFieldsStep ==
  ASSUME IInv, NEW p \in Proc, NEW s \in Seg, at[p] = s, SetFields(p)
  PROVE  IInv'
<1>1. TypeOK /\ ArgOK /\ "free" \in Steps
  BY DEF IInv, Steps
<1>2. /\ pc[p] = "fields" /\ s \notin broken /\ Goto(p, "free")
      /\ UNCHANGED <<shmid, size, mem, at, sem, vals, broken>>
      /\ head' = [head EXCEPT ![s] =
            [@ EXCEPT !.start = HeadSize, !.end = HeadSize, !.total = arg[p].size]]
  BY DEF SetFields, Running, ghosts
<1>3. arg[p].size \in Sizes
  BY <1>2 DEF IInv, Owned
<1>4. /\ pc' \in [Proc -> Steps] /\ arg' \in [Proc -> ArgType] /\ arg' = arg /\ pc'[p] = "free"
      /\ \A q \in Proc : q # p => pc'[q] = pc[q] /\ arg'[q] = arg[q]
  BY <1>1, <1>2, Goes
<1>5. Starting(p, s)
  BY <1>2, WhoIsBusy DEF Busy
<1>6. HeadSize \in 0 .. Largest
  BY <1>3, SizesAre
<1>7. head' \in [Seg -> HeadType] /\ \A u \in Seg : u # s => head'[u] = head[u]
  <2>1. head \in [Seg -> HeadType] /\ head[s] \in HeadType
    BY <1>1, Types
  <2>2. [head[s] EXCEPT !.start = HeadSize, !.end = HeadSize, !.total = arg[p].size] \in HeadType
    BY <2>1, <1>3, <1>6 DEF HeadType
  <2> QED
    BY <2>1, <2>2, <1>2
<1>8. TypeOK' /\ ArgOK'
  BY <1>1, <1>2, <1>4, <1>7 DEF TypeOK, ArgOK, ArgType, HeadType
<1>9. /\ head'[s].magic /\ head'[s].start = HeadSize /\ head'[s].end = HeadSize
      /\ head'[s].free = 0 /\ head'[s].total = arg[p].size
  <2>1. head'[s] = [head[s] EXCEPT !.start = HeadSize, !.end = HeadSize, !.total = arg[p].size]
    BY <1>1, <1>2, Types
  <2>2. head[s] = [Blank EXCEPT !.magic = TRUE]
    BY <1>2, <1>5 DEF Starting
  <2> QED
    BY <2>1, <2>2 DEF Blank
<1>10. Starting(p, s)'
  <2>1. At(p, s, {"fields", "free"})'
    BY <1>2, <1>4 DEF At
  <2>2. ASSUME NEW q \in Proc, At(q, s, Busy)' PROVE q = p
    BY <2>2, <1>2, <1>4, <1>5 DEF At, Starting
  <2> QED
    BY <2>1, <2>2, <1>2, <1>4, <1>5, <1>9 DEF Starting
<1>11. SegOK(s)'
  BY <1>10 DEF SegOK
<1>12. pc'[p] \notin Putting /\ arg'[p].size \in Sizes /\ broken \subseteq broken'
       /\ mem' = mem /\ vals' = vals
  BY <1>2, <1>3, <1>4 DEF Putting
<1> QED
  BY <1>2, <1>4, <1>7, <1>8, <1>11, <1>12, Working

\* A segment without variables is laid out.
LEMMA LaidEmpty == ASSUME NEW m, NEW vs, vs = NoVal PROVE Laid(m, {}, HeadSize, vs)
  BY DEF Laid, NoVal

LEMMA SetFreeStep ==
  ASSUME IInv, NEW p \in Proc, NEW s \in Seg, at[p] = s, SetFree(p)
  PROVE  IInv'
<1>1. TypeOK /\ ArgOK
  BY DEF IInv
<1>2. /\ pc[p] = "free" /\ s \notin broken /\ Return(p)
      /\ UNCHANGED <<shmid, size, mem, at, sem, vals, broken>>
      /\ head' = [head EXCEPT ![s].free = arg[p].size - head[s].end]
  BY DEF SetFree, Running, ghosts
<1>3. arg[p].size \in Sizes
  BY <1>2 DEF IInv, Owned
<1>4. /\ pc' \in [Proc -> Steps] /\ arg' \in [Proc -> ArgType] /\ pc'[p] = "idle"
      /\ \A q \in Proc : q # p => pc'[q] = pc[q] /\ arg'[q] = arg[q]
  BY <1>1, <1>2, Returns
<1>5. Starting(p, s)
  BY <1>2, WhoIsBusy DEF Busy
<1>6. HeadSize \in 0 .. Largest /\ arg[p].size \in HeadSize .. Largest /\ HeadSize \in Nat
  BY <1>3, SizesAre
<1>7. /\ head[s].magic /\ head[s].start = HeadSize /\ head[s].end = HeadSize
      /\ head[s].total = arg[p].size /\ head[s] \in HeadType /\ head \in [Seg -> HeadType]
  BY <1>1, <1>2, <1>5, Types DEF Starting
<1>8. head'[s] = [head[s] EXCEPT !.free = arg[p].size - HeadSize]
      /\ \A u \in Seg : u # s => head'[u] = head[u]
  BY <1>2, <1>7
<1>9. head' \in [Seg -> HeadType]
  <2>1. arg[p].size - HeadSize \in Int
    BY <1>6
  <2>2. head'[s] \in HeadType
    BY <1>7, <1>8, <2>1 DEF HeadType
  <2> QED
    BY <1>2, <1>7, <1>8, <2>2
<1>10. TypeOK' /\ ArgOK'
  BY <1>1, <1>2, <1>4, <1>9 DEF TypeOK, ArgOK, ArgType, HeadType
<1>11. /\ head'[s].magic /\ head'[s].start = HeadSize /\ head'[s].end = HeadSize
       /\ head'[s].free = arg[p].size - HeadSize /\ head'[s].total = arg[p].size
  BY <1>7, <1>8 DEF HeadType
<1>12. Live(s, {}, HeadSize)'
  <2>1. Laid(mem'[s], {}, HeadSize, vals'[s])
    BY <1>2, <1>5, LaidEmpty DEF Starting
  <2>2. ASSUME NEW q \in Proc, At(q, s, Busy)' PROVE FALSE
    <3>1. q # p
      BY <2>2, <1>4 DEF At, Busy, Putting
    <3>2. At(q, s, Busy)
      BY <2>2, <3>1, <1>2, <1>4 DEF At
    <3> QED
      BY <3>1, <3>2, <1>5 DEF Starting
  <2>3. arg[p].size <= size'[s] /\ HeadSize \in HeadSize .. arg[p].size
    BY <1>2, <1>5, <1>6 DEF Starting
  <2> QED
    BY <2>1, <2>2, <2>3, <1>3, <1>11 DEF Live
<1>13. SegOK(s)'
  BY <1>12, <1>6 DEF SegOK
<1>14. pc'[p] \notin Putting /\ pc'[p] \notin {"check", "magic", "fields", "free"}
       /\ mem' = mem /\ vals' = vals /\ broken \subseteq broken'
  BY <1>2, <1>4 DEF Putting
<1> QED
  BY <1>2, <1>4, <1>8, <1>10, <1>13, <1>14, Working

(***************************************************************************)
(* The scripts' semaphore.                                                 *)
(***************************************************************************)
LEMMA SegsSame ==
  ASSUME IInv, UNCHANGED <<head, mem, vals, size, at, pc, arg, broken>>
  PROVE  \A s \in Seg : s \notin broken' => SegOK(s)'
<1> SUFFICES ASSUME NEW s \in Seg, s \notin broken PROVE SegOK(s)'
  OBVIOUS
<1>1. SegOK(s)
  BY DEF IInv
<1>2. head[s].magic \/ \A q \in Proc : at'[q] = s => pc'[q] \in {"check", "magic"}
  <2>1. ~head[s].magic => New(s)
    BY <1>1, NewIf
  <2> QED
    BY <2>1 DEF New
<1>3. \A q \in Proc : At(q, s, Busy)' <=> At(q, s, Busy)
  BY DEF At
<1> QED
  BY <1>1, <1>2, <1>3, SegSame

LEMMA SemaphoreStep ==
  ASSUME IInv, NEW p \in Proc, Acquire(p) \/ Release(p)
  PROVE  IInv'
<1>1. UNCHANGED <<files, at, pc, arg, ghosts>>
  BY DEF Acquire, Release
<1>2. \/ sem = None /\ sem' = p /\ at[p] # None
      \/ pc[p] = "idle" /\ sem = p /\ sem' = None
  BY DEF Acquire, Release
<1>3. TypeOK' /\ ArgOK'
  BY <1>1, <1>2 DEF IInv, TypeOK, ArgOK, files, ghosts
<1>4. Owned'
  <2>1. \A q \in Proc : pc[q] \in Putting => sem = q
    BY DEF IInv, Owned
  <2>2. \A q \in Proc : pc'[q] \in Putting => sem' = q
    BY <1>1, <1>2, <2>1, SysVShmAssumption DEF Putting
  <2>3. \A q \in Proc : sem' = q => at'[q] # None
    BY <1>1, <1>2, SysVShmAssumption
  <2> QED
    BY <1>1, <2>2, <2>3 DEF IInv, Owned, files, ghosts
<1>5. \A s \in Seg : s \notin broken' => SegOK(s)'
  BY <1>1, SegsSame DEF files, ghosts
<1>6. \A s \in Seg : size'[s] = 0 => Clean(s)'
  BY <1>1 DEF IInv, Clean, files, ghosts
<1> QED
  BY <1>3, <1>4, <1>5, <1>6 DEF IInv

(***************************************************************************)
(* shm_put_var() and shm_remove_var().                                     *)
(***************************************************************************)
\* What a segment is in after a step of the only process that is at work there.
LEMMA LiveNext ==
  ASSUME NEW p \in Proc, NEW s \in Seg, NEW C \in SUBSET Words, NEW e \in 0 .. Largest,
         at'[p] = s, \A q \in Proc : At(q, s, Busy)' => q = p,
         head'[s].magic, head'[s].start = HeadSize, head'[s].total \in Sizes,
         head'[s].total <= size'[s], e \in HeadSize .. head'[s].total,
         Laid(mem'[s], C, e, vals'[s]),
         pc'[p] \in Busy => Midway(p, s, C, e)',
         pc'[p] \notin Busy => head'[s].end = e /\ head'[s].free = head'[s].total - e
  PROVE  SegOK(s)'
<1>1. (\A q \in Proc : ~At(q, s, Busy)') => head'[s].end = e /\ head'[s].free = head'[s].total - e
  BY DEF At
<1>2. \A q \in Proc : At(q, s, Busy)' => Midway(q, s, C, e)'
  BY DEF At
<1>3. Live(s, C, e)'
  BY <1>1, <1>2 DEF Live
<1> QED
  BY <1>3 DEF SegOK

LEMMA PutsStep ==
  ASSUME IInv, NEW p \in Proc, NEW s \in Seg, at[p] = s, Begins(p), NEW k \in Key,
         NEW v \in Value \cup {None}, v # None => head[s].free >= Total(v),
         v = None => Found(s, k) >= 0, Puts(p, k, v), UNCHANGED <<files, at, sem, ghosts>>
  PROVE  IInv'
<1>1. TypeOK /\ ArgOK
  BY DEF IInv
<1>2. pc[p] = "idle" /\ s \notin broken /\ sem = p
  BY DEF Begins, Running
<1>3. /\ arg' = [arg EXCEPT ![p] = [@ EXCEPT !.key = k, !.value = v, !.pos = Found(s, k)]]
      /\ pc' = [pc EXCEPT ![p] = IF Found(s, k) > 0 THEN "shrink" ELSE "store"]
  BY DEF Puts
<1>4. SegOK(s) /\ ~New(s)
  BY <1>2 DEF IInv, New
<1>5. ASSUME v # None PROVE v \in Value /\ Total(v) \in Nat /\ Total(v) >= 4
  <2>1. v \in Value
    BY <1>5
  <2> QED
    BY <2>1, TotalIs
<1>6. ASSUME NEW q \in Proc, Starting(q, s) PROVE FALSE
  <2>1. head[s].start = head[s].end /\ head[s].free = 0 /\ head[s].end \in Nat
    <3>1. HeadSize \in Nat
      BY SizesAre
    <3> QED
      BY <1>6, <3>1 DEF Starting, Blank
  <2>2. Places(s) = {}
    BY <2>1 DEF Places
  <2>3. Found(s, k) = -1
    BY <2>2 DEF Found
  <2> QED
    BY <2>1, <2>3, <1>5
<1>7. PICK C \in SUBSET Words, e \in 0 .. Largest : Live(s, C, e)
  BY <1>4, <1>6 DEF SegOK
<1>8. \A q \in Proc : ~At(q, s, Busy)
  <2>1. \A q \in Proc : At(q, s, Busy) => q = p
    BY <1>2, <1>7, Alone
  <2> QED
    BY <2>1, <1>2 DEF At, Busy, Putting
<1>9. /\ head[s].end = e /\ head[s].free = head[s].total - e /\ Laid(mem[s], C, e, vals[s])
      /\ head[s].magic /\ head[s].start = HeadSize /\ head[s].total \in Sizes
      /\ head[s].total <= size[s] /\ e \in HeadSize .. head[s].total
  BY <1>7, <1>8 DEF Live
<1>10. e \in Nat /\ head[s].total \in Nat
  BY <1>9, SizesAre
<1>11. v # None => e + Total(v) <= head[s].total
  BY <1>5, <1>9, <1>10
<1>12. \/ \E c \in C : mem[s][c] = k /\ Found(s, k) = c /\ c \in Nat /\ c > 0
       \/ Found(s, k) = -1 /\ \A c \in C : mem[s][c] # k
  <2>1. CASE \E c \in C : mem[s][c] = k
    <3>1. PICK c \in C : mem[s][c] = k
      BY <2>1
    <3>2. c \in Words /\ c >= HeadSize
      BY <1>9, LaidChunk
    <3>3. Found(s, k) = c
      <4>1. Laid(mem[s], C, e, vals[s]) /\ head[s].start = HeadSize /\ head[s].end = e
            /\ e \in 0 .. Largest /\ k \in Key
        BY <1>7, <1>9
      <4>2. \A d \in C : mem[s][d] = k => Found(s, k) = d
        BY ONLY <4>1, FoundIs
      <4> QED
        BY <3>1, <4>2
    <3> QED
      BY <3>1, <3>2, <3>3, SizesAre
  <2>2. CASE \A c \in C : mem[s][c] # k
    BY <2>2, <1>7, <1>9, FoundIs
  <2> QED
    BY <2>1, <2>2
<1>13. Found(s, k) \in Int
  BY <1>12
<1>14. /\ arg' \in [Proc -> ArgType] /\ arg'[p].key = k /\ arg'[p].value = v
       /\ arg'[p].pos = Found(s, k) /\ \A q \in Proc : q # p => arg'[q] = arg[q]
  <2>1. arg \in [Proc -> ArgType] /\ arg[p] \in ArgType
    BY <1>1, Types
  <2> DEFINE a == [arg[p] EXCEPT !.key = k, !.value = v, !.pos = Found(s, k)]
  <2>2. a \in ArgType /\ a.key = k /\ a.value = v /\ a.pos = Found(s, k)
    BY <2>1, <1>13 DEF ArgType
  <2>3. arg' = [arg EXCEPT ![p] = a]
    BY <1>3
  <2> HIDE DEF a
  <2> QED
    BY <2>1, <2>2, <2>3
<1>15. /\ pc' \in [Proc -> Steps] /\ \A q \in Proc : q # p => pc'[q] = pc[q]
       /\ pc'[p] = IF Found(s, k) > 0 THEN "shrink" ELSE "store"
  <2>1. "shrink" \in Steps /\ "store" \in Steps
    BY DEF Steps
  <2> QED
    BY <1>1, <1>3, <2>1, Types
<1>16. TypeOK' /\ ArgOK'
  BY <1>1, <1>14, <1>15 DEF TypeOK, ArgOK, ArgType, files, ghosts
<1>17. Midway(p, s, C, e)'
  <2>1. UNCHANGED <<head, mem, vals>>
    BY DEF files, ghosts
  <2>2. CASE \E c \in C : mem[s][c] = k /\ Found(s, k) = c /\ c \in Nat /\ c > 0
    <3>1. pc'[p] = "shrink" /\ arg'[p].pos \in C /\ mem[s][arg'[p].pos] = k
      BY <2>2, <1>14, <1>15
    <3>2. Replacing(p, s, C, e)'
      BY <3>1, <2>1, <1>11, <1>14 DEF Replacing
    <3> QED
      BY <3>1, <3>2, <2>1, <1>9 DEF Midway
  <2>3. CASE Found(s, k) = -1 /\ \A c \in C : mem[s][c] # k
    <3>1. v \in Value /\ pc'[p] = "store"
      BY <2>3, <1>15
    <3>2. vals[s][k] = None
      BY <2>3, <1>9 DEF Laid
    <3>3. v # None
      BY <3>1, SysVShmAssumption
    <3>4. Adding(p, s, e)'
      BY <3>1, <3>2, <3>3, <2>1, <1>11, <1>14 DEF Adding
    <3> QED
      BY <3>1, <3>4, <2>1, <1>9 DEF Midway
  <2> QED
    BY <2>2, <2>3, <1>12
<1>18. pc'[p] \in Putting /\ pc'[p] \in Busy /\ pc'[p] \notin {"check", "magic", "fields", "free"}
  BY <1>15 DEF Putting, Busy
<1>19. SegOK(s)'
  <2>1. UNCHANGED <<head, mem, vals, size, at>>
    BY DEF files, ghosts
  <2>2. \A q \in Proc : At(q, s, Busy)' => q = p
    BY <1>8, <1>15, <2>1 DEF At
  <2>3. at'[p] = s
    BY <2>1
  <2> QED
    BY <1>9, <1>17, <1>18, <2>1, <2>2, <2>3, LiveNext
<1>20. /\ UNCHANGED <<shmid, size, at, sem>> /\ head' = head /\ mem' = mem /\ vals' = vals
       /\ broken \subseteq broken'
  BY DEF files, ghosts
<1> QED
  BY <1>2, <1>14, <1>15, <1>16, <1>18, <1>19, <1>20, Working

LEMMA BeginsStep ==
  ASSUME IInv, NEW p \in Proc,
         (\E k \in Key, v \in Value : PutVar(p, k, v)) \/ \E k \in Key : RemoveVar(p, k)
  PROVE  IInv'
<1>1. at[p] \in Seg
  BY DEF PutVar, RemoveVar, Begins, Running, IInv, Owned, TypeOK
<1>2. ASSUME NEW k \in Key, NEW v \in Value, PutVar(p, k, v) PROVE IInv'
  <2>1. v # None
    BY SysVShmAssumption
  <2> QED
    BY <1>1, <1>2, <2>1, PutsStep DEF PutVar
<1>3. ASSUME NEW k \in Key, RemoveVar(p, k) PROVE IInv'
  BY <1>1, <1>3, PutsStep DEF RemoveVar
<1> QED
  BY <1>2, <1>3

\* What is known of the segment in which p puts or removes.
LEMMA WorksOn ==
  ASSUME IInv, NEW p \in Proc, NEW s \in Seg, at[p] = s, s \notin broken, pc[p] \in Putting
  PROVE  \E C \in SUBSET Words, e \in 0 .. Largest :
           /\ Midway(p, s, C, e) /\ Laid(mem[s], C, e, vals[s])
           /\ \A q \in Proc : At(q, s, Busy) => q = p
           /\ head[s].magic /\ head[s].start = HeadSize /\ head[s].total \in Sizes
           /\ head[s].total <= size[s] /\ e \in HeadSize .. head[s].total
<1>1. pc[p] \in Busy /\ sem = p
  BY DEF Busy, IInv, Owned
<1>2. PICK C \in SUBSET Words, e \in 0 .. Largest : Live(s, C, e) /\ Midway(p, s, C, e)
  BY <1>1, WhoIsBusy
<1>3. \A q \in Proc : At(q, s, Busy) => q = p
  BY <1>1, <1>2, Alone
<1> QED
  BY <1>2, <1>3 DEF Live

LEMMA ShrinkStep ==
  ASSUME IInv, NEW p \in Proc, NEW s \in Seg, at[p] = s, Shrink(p)
  PROVE  IInv'
<1>1. TypeOK /\ ArgOK /\ "end" \in Steps
  BY DEF IInv, Steps
<1>2. /\ pc[p] = "shrink" /\ s \notin broken /\ Goto(p, "end")
      /\ UNCHANGED <<shmid, size, mem, at, sem, vals, broken>>
      /\ head' = [head EXCEPT ![s].free = @ + mem[s][arg[p].pos + 2]]
  BY DEF Shrink, Running, Shifted, ghosts
<1>3. PICK C \in SUBSET Words, e \in 0 .. Largest :
        /\ Midway(p, s, C, e) /\ Laid(mem[s], C, e, vals[s])
        /\ \A q \in Proc : At(q, s, Busy) => q = p
        /\ head[s].magic /\ head[s].start = HeadSize /\ head[s].total \in Sizes
        /\ head[s].total <= size[s] /\ e \in HeadSize .. head[s].total
  BY <1>2, WorksOn DEF Putting
<1>4. /\ pc' \in [Proc -> Steps] /\ arg' \in [Proc -> ArgType] /\ arg' = arg /\ pc'[p] = "end"
      /\ \A q \in Proc : q # p => pc'[q] = pc[q] /\ arg'[q] = arg[q]
  BY <1>1, <1>2, Goes
<1>5. Replacing(p, s, C, e) /\ head[s].end = e /\ head[s].free = head[s].total - e
  BY <1>2, <1>3 DEF Midway
<1> DEFINE n == mem[s][arg[p].pos + 2]
<1>6. n \in Nat
  <2>1. arg[p].pos \in C
    BY <1>5 DEF Replacing
  <2> QED
    BY <1>3, <2>1, LaidChunk
<1>7. head \in [Seg -> HeadType] /\ head[s] \in HeadType
  BY <1>1, Types
<1>8. head'[s] = [head[s] EXCEPT !.free = @ + n] /\ \A u \in Seg : u # s => head'[u] = head[u]
  BY <1>2, <1>7
<1> HIDE DEF n
<1>9. head'[s] \in HeadType
  BY <1>6, <1>7, <1>8 DEF HeadType
<1>10. head' \in [Seg -> HeadType]
  BY <1>2, <1>7, <1>8, <1>9
<1>11. TypeOK' /\ ArgOK'
  BY <1>1, <1>2, <1>4, <1>10 DEF TypeOK, ArgOK, ArgType, HeadType
<1>12. /\ head'[s].magic = head[s].magic /\ head'[s].start = head[s].start
       /\ head'[s].end = head[s].end /\ head'[s].total = head[s].total
       /\ head'[s].free = head[s].free + n
  BY <1>7, <1>8 DEF HeadType
<1>13. Midway(p, s, C, e)'
  <2>1. Replacing(p, s, C, e)'
    BY <1>2, <1>4, <1>5, <1>12 DEF Replacing
  <2> QED
    BY <2>1, <1>2, <1>4, <1>5, <1>12 DEF Midway, n
<1>14. pc'[p] \in Putting /\ pc'[p] \in Busy /\ pc'[p] \notin {"check", "magic", "fields", "free"}
  BY <1>4 DEF Putting, Busy
<1>15. SegOK(s)'
  <2>1. \A q \in Proc : At(q, s, Busy)' => q = p
    BY <1>2, <1>3, <1>4 DEF At
  <2>2. at'[p] = s /\ Laid(mem'[s], C, e, vals'[s])
    BY <1>2, <1>3
  <2> QED
    BY <1>2, <1>3, <1>12, <1>13, <1>14, <2>1, <2>2, LiveNext
<1>16. sem = p /\ broken \subseteq broken' /\ mem' = mem /\ vals' = vals
  BY <1>2 DEF IInv, Owned, Putting
<1> QED
  BY <1>2, <1>4, <1>8, <1>11, <1>14, <1>15, <1>16, Working

LEMMA SetEndStep ==
  ASSUME IInv, NEW p \in Proc, NEW s \in Seg, at[p] = s, SetEnd(p)
  PROVE  IInv'
<1>1. TypeOK /\ ArgOK /\ "move" \in Steps
  BY DEF IInv, Steps
<1>2. /\ pc[p] = "end" /\ s \notin broken /\ Goto(p, "move")
      /\ UNCHANGED <<shmid, size, mem, at, sem, vals, broken>>
      /\ head' = [head EXCEPT ![s].end = @ - mem[s][arg[p].pos + 2]]
  BY DEF SetEnd, Running, Shifted, ghosts
<1>3. PICK C \in SUBSET Words, e \in 0 .. Largest :
        /\ Midway(p, s, C, e) /\ Laid(mem[s], C, e, vals[s])
        /\ \A q \in Proc : At(q, s, Busy) => q = p
        /\ head[s].magic /\ head[s].start = HeadSize /\ head[s].total \in Sizes
        /\ head[s].total <= size[s] /\ e \in HeadSize .. head[s].total
  BY <1>2, WorksOn DEF Putting
<1>4. /\ pc' \in [Proc -> Steps] /\ arg' \in [Proc -> ArgType] /\ arg' = arg /\ pc'[p] = "move"
      /\ \A q \in Proc : q # p => pc'[q] = pc[q] /\ arg'[q] = arg[q]
  BY <1>1, <1>2, Goes
<1> DEFINE n == mem[s][arg[p].pos + 2]
<1>5. Replacing(p, s, C, e) /\ head[s].end = e /\ head[s].free = head[s].total - e + n
  BY <1>2, <1>3 DEF Midway
<1>6. n \in Nat /\ arg[p].pos + n <= e /\ arg[p].pos \in Nat /\ e \in Nat /\ e <= Largest
  <2> DEFINE c == arg[p].pos
  <2>1. c \in C
    BY <1>5 DEF Replacing
  <2>2. mem[s][c + 2] \in Nat
    BY <1>3, <2>1, LaidChunk
  <2>3. c + mem[s][c + 2] <= e
    BY <1>3, <2>1, LaidChunk
  <2>4. c \in Words /\ e \in 0 .. Largest
    BY <1>3, <2>1
  <2> QED
    BY <2>2, <2>3, <2>4, SizesAre
<1>7. head \in [Seg -> HeadType] /\ head[s] \in HeadType
  BY <1>1, Types
<1>8. head'[s] = [head[s] EXCEPT !.end = @ - n] /\ \A u \in Seg : u # s => head'[u] = head[u]
  BY <1>2, <1>7
<1> HIDE DEF n
<1>9. head'[s] \in HeadType
  <2>1. e - n \in 0 .. Largest
    BY <1>6, SizesAre
  <2>2. head'[s] = [head[s] EXCEPT !.end = e - n]
    BY <1>5, <1>7, <1>8
  <2> QED
    BY <2>1, <2>2, <1>7 DEF HeadType
<1>10. head' \in [Seg -> HeadType]
  BY <1>2, <1>7, <1>8, <1>9
<1>11. TypeOK' /\ ArgOK'
  BY <1>1, <1>2, <1>4, <1>10 DEF TypeOK, ArgOK, ArgType, HeadType
<1>12. /\ head'[s].magic = head[s].magic /\ head'[s].start = head[s].start
       /\ head'[s].end = e - n /\ head'[s].total = head[s].total
       /\ head'[s].free = head[s].free
  BY <1>5, <1>7, <1>8 DEF HeadType
<1>13. Midway(p, s, C, e)'
  <2>1. Replacing(p, s, C, e)'
    BY <1>2, <1>4, <1>5, <1>12 DEF Replacing
  <2> QED
    BY <2>1, <1>2, <1>4, <1>5, <1>12 DEF Midway, n
<1>14. pc'[p] \in Putting /\ pc'[p] \in Busy /\ pc'[p] \notin {"check", "magic", "fields", "free"}
  BY <1>4 DEF Putting, Busy
<1>15. SegOK(s)'
  <2>1. \A q \in Proc : At(q, s, Busy)' => q = p
    BY <1>2, <1>3, <1>4 DEF At
  <2>2. at'[p] = s /\ Laid(mem'[s], C, e, vals'[s])
    BY <1>2, <1>3
  <2> QED
    BY <1>2, <1>3, <1>12, <1>13, <1>14, <2>1, <2>2, LiveNext
<1>16. sem = p /\ broken \subseteq broken' /\ mem' = mem /\ vals' = vals
  BY <1>2 DEF IInv, Owned, Putting
<1> QED
  BY <1>2, <1>4, <1>8, <1>11, <1>14, <1>15, <1>16, Working

LEMMA MoveStep ==
  ASSUME IInv, NEW p \in Proc, NEW s \in Seg, at[p] = s, Move(p)
  PROVE  IInv'
<1> DEFINE pos == arg[p].pos
           n == mem[s][pos + 2]
           k == arg[p].key
<1>1. TypeOK /\ ArgOK
  BY DEF IInv
<1>2. /\ pc[p] = "move" /\ s \notin broken
      /\ UNCHANGED <<shmid, size, head, at, sem, broken>>
      /\ mem' = [mem EXCEPT ![s] =
           [w \in Words |-> IF w < pos THEN mem[s][w]
                            ELSE IF w < head[s].end THEN mem[s][w + n] ELSE 0]]
      /\ vals' = [vals EXCEPT ![s][k] = None]
      /\ \/ arg[p].value = None /\ Return(p)
         \/ arg[p].value # None /\ Goto(p, "store")
  BY DEF Move, Running, Shifted
<1>3. PICK C \in SUBSET Words, e \in 0 .. Largest :
        /\ Midway(p, s, C, e) /\ Laid(mem[s], C, e, vals[s])
        /\ \A q \in Proc : At(q, s, Busy) => q = p
        /\ head[s].magic /\ head[s].start = HeadSize /\ head[s].total \in Sizes
        /\ head[s].total <= size[s] /\ e \in HeadSize .. head[s].total
  BY <1>2, WorksOn DEF Putting
<1>4. /\ Replacing(p, s, C, e) /\ head[s].end = e - n /\ head[s].free = head[s].total - e + n
  BY <1>2, <1>3 DEF Midway
<1>5. pos \in C /\ mem[s][pos] = k /\ (arg[p].value # None => e + Total(arg[p].value) <= head[s].total)
  BY <1>4 DEF Replacing
<1>6. k \in Key /\ n \in Nat /\ pos \in Nat /\ pos + n <= e /\ e \in Nat
  <2>1. mem[s][pos] \in Key
    BY <1>3, <1>5, LaidChunk
  <2>2. n \in Nat
    BY <1>3, <1>5, LaidChunk
  <2>3. pos + n <= e
    BY <1>3, <1>5, LaidChunk
  <2>4. pos \in Words /\ e \in 0 .. Largest
    BY <1>3, <1>5
  <2> QED
    BY <2>1, <2>2, <2>3, <2>4, <1>5, SizesAre
<1>7. /\ mem'[s] = [w \in Words |-> IF w < pos THEN mem[s][w]
                                    ELSE IF w < e - n THEN mem[s][w + n] ELSE 0]
      /\ \A u \in Seg : u # s => mem'[u] = mem[u]
  <2>1. s \in DOMAIN mem
    BY <1>1 DEF TypeOK
  <2> QED
    BY <2>1, <1>2, <1>4
<1>8. /\ vals[s] \in [Key -> Value \cup {None}] /\ vals \in [Seg -> [Key -> Value \cup {None}]]
      /\ vals'[s] = [vals[s] EXCEPT ![k] = None] /\ \A u \in Seg : u # s => vals'[u] = vals[u]
  BY <1>1, <1>2, Types
<1> HIDE DEF n, pos, k
<1>9. vals' \in [Seg -> [Key -> Value \cup {None}]]
  <2>1. [vals[s] EXCEPT ![k] = None] \in [Key -> Value \cup {None}]
    BY <1>8
  <2> QED
    BY <2>1, <1>8, <1>2
<1>10. mem' \in [Seg -> [Words -> Nat]]
  <2>1. mem[s] \in [Words -> Nat]
    BY <1>1, Types
  <2>2. ASSUME NEW w \in Words, ~(w < pos), w < e - n PROVE w + n \in Words
    BY <2>2, <1>6, <1>3, SizesAre
  <2>3. \A w \in Words : (IF w < pos THEN mem[s][w]
                          ELSE IF w < e - n THEN mem[s][w + n] ELSE 0) \in Nat
    BY <2>1, <2>2
  <2>4. mem'[s] \in [Words -> Nat]
    BY <2>3, <1>7
  <2> QED
    BY <2>4, <1>1, <1>2, <1>7, Types
<1>11. /\ pc' \in [Proc -> Steps] /\ arg' \in [Proc -> ArgType]
       /\ pc'[p] = IF arg[p].value = None THEN "idle" ELSE "store"
       /\ arg[p].value # None => arg' = arg
       /\ \A q \in Proc : q # p => pc'[q] = pc[q] /\ arg'[q] = arg[q]
  <2>1. "store" \in Steps
    BY DEF Steps
  <2>2. CASE arg[p].value = None /\ Return(p)
    BY <1>1, <2>2, Returns
  <2>3. CASE arg[p].value # None /\ Goto(p, "store")
    BY <1>1, <2>1, <2>3, Goes
  <2> QED
    BY <1>2, <2>2, <2>3
<1>12. TypeOK' /\ ArgOK'
  BY <1>1, <1>2, <1>9, <1>10, <1>11 DEF TypeOK, ArgOK, ArgType
<1>13. PICK D \in SUBSET Words :
         Laid(mem'[s], D, e - n, vals'[s]) /\ e - n \in 0 .. Largest /\ e - n >= HeadSize
  <2> DEFINE m == mem[s]
             vs == vals[s]
             m2 == mem'[s]
  <2>1. /\ m2 = [w \in Words |-> IF w < pos THEN m[w] ELSE IF w < e - n THEN m[w + n] ELSE 0]
        /\ n = m[pos + 2] /\ pos \in C /\ vs \in [Key -> Value \cup {None}]
        /\ Laid(m, C, e, vs) /\ m[pos] = k
    BY <1>3, <1>5, <1>7, <1>8 DEF n
  <2>2. vals'[s] = [vs EXCEPT ![k] = None]
    BY <1>8
  <2> HIDE DEF m, vs, m2
  <2>3. /\ e - n \in 0 .. Largest /\ e - n >= HeadSize
        /\ \E D \in SUBSET Words : Laid(m2, D, e - n, [vs EXCEPT ![m[pos]] = None])
    BY <1>3, <2>1, LaidMoved
  <2> QED
    BY <2>1, <2>2, <2>3 DEF m2
<1>20. PICK f \in 0 .. Largest : f = e - n
  BY <1>13
<1>14. f \in HeadSize .. head'[s].total
  <2>1. head[s].total \in Nat
    BY <1>3, SizesAre
  <2> QED
    BY <2>1, <1>2, <1>3, <1>6, <1>13, <1>20, SizesAre
<1>15. vals'[s][k] = None
  BY <1>6, <1>8
<1>16. /\ pc'[p] \in Busy => Midway(p, s, D, f)'
       /\ pc'[p] \notin Busy => head'[s].end = f /\ head'[s].free = head'[s].total - f
  <2>1. head'[s].end = f /\ head'[s].free = head'[s].total - f /\ head[s].total \in Nat
    <3>1. head[s].total \in Nat
      BY <1>3, SizesAre
    <3> QED
      BY <3>1, <1>2, <1>4, <1>6, <1>20
  <2>2. ASSUME pc'[p] \in Busy PROVE Midway(p, s, D, f)'
    <3>1. pc'[p] = "store" /\ arg[p].value # None /\ arg' = arg
      BY <2>2, <1>11 DEF Busy, Putting
    <3>2. arg[p].value \in Value
      <4>1. arg[p] \in ArgType
        BY <1>1, Types
      <4> QED
        BY <3>1, <4>1 DEF ArgType
    <3>3. Total(arg[p].value) \in Nat /\ e + Total(arg[p].value) <= head[s].total
      BY <3>1, <3>2, <1>5, TotalIs
    <3>4. f + Total(arg[p].value) <= head[s].total
      BY <3>3, <2>1, <1>6, <1>20
    <3>5. Adding(p, s, f)'
      BY <3>1, <3>2, <3>4, <1>2, <1>6, <1>15 DEF Adding, k
    <3> QED
      BY <3>1, <3>5, <2>1 DEF Midway
  <2> QED
    BY <2>1, <2>2
<1>17. SegOK(s)'
  <2>1. Laid(mem'[s], D, f, vals'[s])
    BY <1>13, <1>20
  <2>2. \A q \in Proc : At(q, s, Busy)' => q = p
    BY <1>2, <1>3, <1>11 DEF At
  <2>3. /\ at'[p] = s /\ head'[s].magic /\ head'[s].start = HeadSize /\ head'[s].total \in Sizes
        /\ head'[s].total <= size'[s]
    BY <1>2, <1>3
  <2> QED
    BY <1>13, <1>14, <1>16, <1>20, <2>1, <2>2, <2>3, LiveNext
<1>18. sem = p /\ broken \subseteq broken' /\ head' = head
  BY <1>2 DEF IInv, Owned, Putting
<1>19. pc'[p] \notin {"check", "magic", "fields", "free"}
  BY <1>11
<1> QED
  BY <1>2, <1>7, <1>8, <1>11, <1>12, <1>17, <1>18, <1>19, Working

LEMMA StoreStep ==
  ASSUME IInv, NEW p \in Proc, NEW s \in Seg, at[p] = s, Store(p)
  PROVE  IInv'
<1> DEFINE v == arg[p].value
           k == arg[p].key
<1>1. TypeOK /\ ArgOK /\ "grow" \in Steps
  BY DEF IInv, Steps
<1>2. /\ pc[p] = "store" /\ s \notin broken /\ Goto(p, "grow")
      /\ UNCHANGED <<shmid, size, head, at, sem, vals, broken>>
      /\ mem' = [mem EXCEPT ![s] = Stored(s, head[s].end, k, v)]
  BY DEF Store, Running, ghosts
<1>3. PICK C \in SUBSET Words, e \in 0 .. Largest :
        /\ Midway(p, s, C, e) /\ Laid(mem[s], C, e, vals[s])
        /\ \A q \in Proc : At(q, s, Busy) => q = p
        /\ head[s].magic /\ head[s].start = HeadSize /\ head[s].total \in Sizes
        /\ head[s].total <= size[s] /\ e \in HeadSize .. head[s].total
  BY <1>2, WorksOn DEF Putting
<1>4. /\ pc' \in [Proc -> Steps] /\ arg' \in [Proc -> ArgType] /\ arg' = arg /\ pc'[p] = "grow"
      /\ \A q \in Proc : q # p => pc'[q] = pc[q] /\ arg'[q] = arg[q]
  BY <1>1, <1>2, Goes
<1>5. Adding(p, s, e) /\ head[s].end = e /\ head[s].free = head[s].total - e
  BY <1>2, <1>3 DEF Midway
<1>6. v \in Value /\ k \in Key /\ vals[s][k] = None /\ e + Total(v) <= head[s].total
  BY <1>5 DEF Adding
<1>7. mem'[s] = Stored(s, e, k, v) /\ \A u \in Seg : u # s => mem'[u] = mem[u]
  <2>1. s \in DOMAIN mem
    BY <1>1 DEF TypeOK
  <2> QED
    BY <2>1, <1>2, <1>5
<1>8. /\ Length[v] \in Nat /\ Data(v) \in Nat /\ Total(v) \in Nat /\ Total(v) = Data(v) + 4
      /\ k \in Nat /\ v \in Nat /\ e \in Nat /\ head[s].total \in Nat /\ head[s].total <= Largest
  <2>1. k \in Nat /\ v \in Nat
    BY <1>6, SysVShmAssumption
  <2>2. e \in Nat /\ head[s].total \in Nat /\ head[s].total <= Largest
    BY <1>3, SizesAre
  <2>3. Length[v] \in Nat /\ Data(v) \in Nat /\ Total(v) \in Nat /\ Total(v) = Data(v) + 4
    BY <1>6, TotalIs
  <2> QED
    BY <2>1, <2>2, <2>3
<1> HIDE DEF v, k
<1>9. mem'[s] \in [Words -> Nat]
  <2>1. mem[s] \in [Words -> Nat]
    BY <1>1, Types
  <2>2. Stored(s, e, k, v) \in [Words -> Nat]
    BY <2>1, <1>8 DEF Stored
  <2> QED
    BY <2>2, <1>7
<1>10. mem' \in [Seg -> [Words -> Nat]]
  BY <1>1, <1>2, <1>7, <1>9, Types
<1>11. TypeOK' /\ ArgOK'
  BY <1>1, <1>2, <1>4, <1>10 DEF TypeOK, ArgOK, ArgType
<1>12. Laid(mem'[s], C, e, vals'[s])
  <2>1. ASSUME NEW w \in 0 .. e - 1 PROVE mem'[s][w] = mem[s][w]
    <3>1. w \in Words /\ w < e /\ w \in Nat
      BY <1>8, <1>6, SizesAre
    <3>2. w # e /\ w # e + 1 /\ w # e + 2 /\ w \notin e + 3 .. e + 2 + Data(v)
      BY <3>1, <1>8
    <3> QED
      BY <3>1, <3>2, <1>7 DEF Stored
  <2>2. Laid(mem[s], C, e, vals[s])
    BY <1>3
  <2>3. Laid(mem'[s], C, e, vals[s])
    BY <2>1, <2>2, LaidSame
  <2> QED
    BY <2>3, <1>2
<1>13. ChunkAt(mem'[s], e, k, v)
  <2>1. \A w \in e .. e + 2 + Data(v) : w \in Words
    BY <1>6, <1>8, SizesAre
  <2>2. e \in Words /\ e + 1 \in Words /\ e + 2 \in Words
    BY <1>6, <1>8, SizesAre
  <2>3. mem'[s][e] = k
    BY <2>2, <1>7 DEF Stored
  <2>4. mem'[s][e + 1] = Length[v]
    BY <2>2, <1>7, <1>8 DEF Stored
  <2>5. mem'[s][e + 2] = Total(v)
    BY <2>2, <1>7, <1>8 DEF Stored
  <2>6. ASSUME NEW w \in e + 3 .. e + 2 + Data(v) PROVE mem'[s][w] = v
    <3>1. w \in Words /\ w # e /\ w # e + 1 /\ w # e + 2
      BY <2>1, <1>8
    <3> QED
      BY <3>1, <1>7 DEF Stored
  <2> QED
    BY <2>3, <2>4, <2>5, <2>6 DEF ChunkAt
<1>14. Midway(p, s, C, e)'
  <2>1. Adding(p, s, e)'
    BY <1>2, <1>4, <1>5 DEF Adding
  <2> QED
    BY <2>1, <1>2, <1>4, <1>5, <1>13 DEF Midway, k, v
<1>15. pc'[p] \in Putting /\ pc'[p] \in Busy /\ pc'[p] \notin {"check", "magic", "fields", "free"}
  BY <1>4 DEF Putting, Busy
<1>16. SegOK(s)'
  <2>1. \A q \in Proc : At(q, s, Busy)' => q = p
    BY <1>2, <1>3, <1>4 DEF At
  <2>2. /\ at'[p] = s /\ head'[s].magic /\ head'[s].start = HeadSize /\ head'[s].total \in Sizes
        /\ head'[s].total <= size'[s] /\ e \in HeadSize .. head'[s].total
    BY <1>2, <1>3
  <2> QED
    BY <1>3, <1>12, <1>14, <1>15, <2>1, <2>2, LiveNext
<1>17. sem = p /\ broken \subseteq broken' /\ head' = head /\ vals' = vals
  BY <1>2 DEF IInv, Owned, Putting
<1> QED
  BY <1>2, <1>4, <1>7, <1>11, <1>15, <1>16, <1>17, Working

LEMMA GrowStep ==
  ASSUME IInv, NEW p \in Proc, NEW s \in Seg, at[p] = s, Grow(p)
  PROVE  IInv'
<1> DEFINE v == arg[p].value
           k == arg[p].key
<1>1. TypeOK /\ ArgOK /\ "take" \in Steps
  BY DEF IInv, Steps
<1>2. /\ pc[p] = "grow" /\ s \notin broken /\ Goto(p, "take")
      /\ UNCHANGED <<shmid, size, mem, at, sem, broken>>
      /\ head' = [head EXCEPT ![s].end = @ + Total(v)]
      /\ vals' = [vals EXCEPT ![s][k] = v]
  BY DEF Grow, Running
<1>3. PICK C \in SUBSET Words, e \in 0 .. Largest :
        /\ Midway(p, s, C, e) /\ Laid(mem[s], C, e, vals[s])
        /\ \A q \in Proc : At(q, s, Busy) => q = p
        /\ head[s].magic /\ head[s].start = HeadSize /\ head[s].total \in Sizes
        /\ head[s].total <= size[s] /\ e \in HeadSize .. head[s].total
  BY <1>2, WorksOn DEF Putting
<1>4. /\ pc' \in [Proc -> Steps] /\ arg' \in [Proc -> ArgType] /\ arg' = arg /\ pc'[p] = "take"
      /\ \A q \in Proc : q # p => pc'[q] = pc[q] /\ arg'[q] = arg[q]
  BY <1>1, <1>2, Goes
<1>5. Adding(p, s, e) /\ head[s].end = e /\ head[s].free = head[s].total - e
      /\ ChunkAt(mem[s], e, k, v)
  BY <1>2, <1>3 DEF Midway
<1>6. v \in Value /\ k \in Key /\ vals[s][k] = None /\ e + Total(v) <= head[s].total
  BY <1>5 DEF Adding
<1>7. /\ Total(v) \in Nat /\ e \in Nat /\ e >= HeadSize /\ head[s].total \in Nat
      /\ head[s].total <= Largest /\ HeadSize = 6
  BY <1>3, <1>6, TotalIs, SizesAre
<1>8. head \in [Seg -> HeadType] /\ head[s] \in HeadType
  BY <1>1, Types
<1>9. head'[s] = [head[s] EXCEPT !.end = e + Total(v)] /\ \A u \in Seg : u # s => head'[u] = head[u]
  BY <1>2, <1>5, <1>8
<1>10. /\ vals[s] \in [Key -> Value \cup {None}] /\ vals \in [Seg -> [Key -> Value \cup {None}]]
       /\ vals'[s] = [vals[s] EXCEPT ![k] = v] /\ \A u \in Seg : u # s => vals'[u] = vals[u]
  BY <1>1, <1>2, Types
<1>11. PICK f \in 0 .. Largest, z \in Nat, w \in Value, j \in Key :
         f = e + z /\ z = Total(v) /\ w = v /\ j = k
  <2>1. e + Total(v) \in 0 .. Largest /\ Total(v) \in Nat /\ v \in Value /\ k \in Key
    BY <1>6, <1>7, SizesAre
  <2> HIDE DEF v, k
  <2> QED
    BY <2>1, Zenon
<1>12. head' \in [Seg -> HeadType]
  <2>1. [head[s] EXCEPT !.end = f] \in HeadType
    BY <1>8 DEF HeadType
  <2>2. head'[s] = [head[s] EXCEPT !.end = f]
    BY <1>9, <1>11
  <2> QED
    BY <2>1, <2>2, <1>2, <1>8, <1>9
<1>13. vals' \in [Seg -> [Key -> Value \cup {None}]]
  <2>1. [vals[s] EXCEPT ![k] = v] \in [Key -> Value \cup {None}]
    BY <1>6, <1>10
  <2> QED
    BY <2>1, <1>2, <1>10
<1>14. TypeOK' /\ ArgOK'
  BY <1>1, <1>2, <1>4, <1>12, <1>13 DEF TypeOK, ArgOK, ArgType, HeadType
<1>15. /\ head'[s].magic = head[s].magic /\ head'[s].start = head[s].start
       /\ head'[s].end = f /\ head'[s].total = head[s].total
       /\ head'[s].free = head[s].free
  BY <1>8, <1>9, <1>11 DEF HeadType
<1>16. C \cup {e} \in SUBSET Words /\ Laid(mem[s], C \cup {e}, f, vals'[s])
  <2>1. e + Total(w) <= Largest /\ Total(w) = z
    BY <1>6, <1>7, <1>11
  <2>2. /\ Laid(mem[s], C, e, vals[s]) /\ vals[s][j] = None /\ ChunkAt(mem[s], e, j, w)
        /\ e >= HeadSize /\ vals[s] \in [Key -> Value \cup {None}]
        /\ C \in SUBSET Words /\ e \in 0 .. Largest /\ j \in Key /\ w \in Value
    BY <1>3, <1>5, <1>6, <1>7, <1>10, <1>11
  <2>3. /\ C \cup {e} \in SUBSET Words
        /\ Laid(mem[s], C \cup {e}, e + Total(w), [vals[s] EXCEPT ![j] = w])
    BY ONLY <2>1, <2>2, LaidMore
  <2> QED
    BY <2>1, <2>3, <1>10, <1>11
<1>17. Midway(p, s, C \cup {e}, f)'
  <2>1. head'[s].free = head'[s].total - f + Total(w)
    <3>1. head[s].free = head[s].total - e
      BY <1>5
    <3> QED
      BY <3>1, <1>7, <1>11, <1>15
  <2> QED
    BY <2>1, <1>4, <1>11, <1>15 DEF Midway
<1>18. pc'[p] \in Putting /\ pc'[p] \in Busy /\ pc'[p] \notin {"check", "magic", "fields", "free"}
  BY <1>4 DEF Putting, Busy
<1>19. SegOK(s)'
  <2>1. \A q \in Proc : At(q, s, Busy)' => q = p
    BY <1>2, <1>3, <1>4 DEF At
  <2>2. /\ at'[p] = s /\ head'[s].magic /\ head'[s].start = HeadSize /\ head'[s].total \in Sizes
        /\ head'[s].total <= size'[s] /\ Laid(mem'[s], C \cup {e}, f, vals'[s])
    BY <1>2, <1>3, <1>15, <1>16
  <2>3. f \in HeadSize .. head'[s].total
    BY <1>6, <1>7, <1>11, <1>15
  <2> QED
    BY <1>16, <1>17, <1>18, <2>1, <2>2, <2>3, LiveNext
<1>20. sem = p /\ broken \subseteq broken' /\ mem' = mem
  BY <1>2 DEF IInv, Owned, Putting
<1> QED
  BY <1>2, <1>4, <1>9, <1>10, <1>14, <1>18, <1>19, <1>20, Working

LEMMA TakeStep ==
  ASSUME IInv, NEW p \in Proc, NEW s \in Seg, at[p] = s, Take(p)
  PROVE  IInv'
<1> DEFINE n == Total(arg[p].value)
<1>1. TypeOK /\ ArgOK
  BY DEF IInv
<1>2. /\ pc[p] = "take" /\ s \notin broken /\ Return(p)
      /\ UNCHANGED <<shmid, size, mem, at, sem, vals, broken>>
      /\ head' = [head EXCEPT ![s].free = @ - n]
  BY DEF Take, Running, ghosts
<1>3. PICK C \in SUBSET Words, e \in 0 .. Largest :
        /\ Midway(p, s, C, e) /\ Laid(mem[s], C, e, vals[s])
        /\ \A q \in Proc : At(q, s, Busy) => q = p
        /\ head[s].magic /\ head[s].start = HeadSize /\ head[s].total \in Sizes
        /\ head[s].total <= size[s] /\ e \in HeadSize .. head[s].total
  BY <1>2, WorksOn DEF Putting
<1>4. /\ pc' \in [Proc -> Steps] /\ arg' \in [Proc -> ArgType] /\ pc'[p] = "idle"
      /\ \A q \in Proc : q # p => pc'[q] = pc[q] /\ arg'[q] = arg[q]
  BY <1>1, <1>2, Returns
<1>5. arg[p].value \in Value /\ head[s].end = e /\ head[s].free = head[s].total - e + n
  BY <1>2, <1>3 DEF Midway
<1>6. n \in Nat /\ e \in Nat /\ head[s].total \in Nat
  BY <1>3, <1>5, TotalIs, SizesAre
<1>7. head \in [Seg -> HeadType] /\ head[s] \in HeadType
  BY <1>1, Types
<1>8. head'[s] = [head[s] EXCEPT !.free = @ - n] /\ \A u \in Seg : u # s => head'[u] = head[u]
  BY <1>2, <1>7
<1> HIDE DEF n
<1>9. head'[s] \in HeadType
  BY <1>6, <1>7, <1>8 DEF HeadType
<1>10. head' \in [Seg -> HeadType]
  BY <1>2, <1>7, <1>8, <1>9
<1>11. TypeOK' /\ ArgOK'
  BY <1>1, <1>2, <1>4, <1>10 DEF TypeOK, ArgOK, ArgType, HeadType
<1>12. /\ head'[s].magic = head[s].magic /\ head'[s].start = head[s].start
       /\ head'[s].end = e /\ head'[s].total = head[s].total
       /\ head'[s].free = head[s].free - n
  BY <1>5, <1>7, <1>8 DEF HeadType
<1>13. head'[s].free = head'[s].total - e
  BY <1>5, <1>6, <1>12
<1>14. pc'[p] \notin Putting /\ pc'[p] \notin Busy /\ pc'[p] \notin {"check", "magic", "fields", "free"}
  BY <1>4 DEF Putting, Busy
<1>15. SegOK(s)'
  <2>1. \A q \in Proc : At(q, s, Busy)' => q = p
    BY <1>2, <1>3, <1>4 DEF At
  <2>2. at'[p] = s /\ Laid(mem'[s], C, e, vals'[s])
    BY <1>2, <1>3
  <2> QED
    BY <1>2, <1>3, <1>12, <1>13, <1>14, <2>1, <2>2, LiveNext
<1>16. broken \subseteq broken' /\ mem' = mem /\ vals' = vals
  BY <1>2
<1> QED
  BY <1>2, <1>4, <1>8, <1>11, <1>14, <1>15, <1>16, Working

(***************************************************************************)
(* shm_attach(): the segment that is there, or a new one.                  *)
(***************************************************************************)
LEMMA AttachStep ==
  ASSUME IInv, NEW p \in Proc, NEW n \in Sizes, Attach(p, n)
  PROVE  IInv'
<1>1. TypeOK /\ ArgOK /\ "check" \in Steps /\ Owned
  BY DEF IInv, Steps
<1>2. /\ pc[p] = "idle" /\ at[p] = None /\ pc' = [pc EXCEPT ![p] = "check"]
      /\ arg' = [arg EXCEPT ![p].size = n] /\ UNCHANGED <<head, mem, sem, vals, broken>>
  BY DEF Attach, files, ghosts
<1>3. PICK s \in Seg : /\ at' = [at EXCEPT ![p] = s] /\ shmid' = s
                       /\ \/ s = shmid /\ size' = size
                          \/ size[s] = 0 /\ size' = [size EXCEPT ![s] = n]
  <2>1. CASE shmid # None
    <3>1. shmid \in Seg
      BY <2>1, <1>1 DEF TypeOK
    <3>2. at' = [at EXCEPT ![p] = shmid] /\ shmid' = shmid /\ size' = size
      BY <2>1 DEF Attach, files
    <3> QED
      BY <3>1, <3>2
  <2>2. CASE shmid = None
    BY <2>2 DEF Attach
  <2> QED
    BY <2>1, <2>2
<1>4. n \in Nat /\ n > 0
  BY SizesAre
<1>5. /\ pc' \in [Proc -> Steps] /\ pc'[p] = "check"
      /\ \A q \in Proc : q # p => pc'[q] = pc[q]
  BY <1>1, <1>2, Types
<1>6. /\ arg' \in [Proc -> ArgType] /\ arg'[p].size = n
      /\ \A q \in Proc : q # p => arg'[q] = arg[q]
  <2>1. arg \in [Proc -> ArgType] /\ arg[p] \in ArgType
    BY <1>1, Types
  <2>2. arg'[p] = [arg[p] EXCEPT !.size = n] /\ \A q \in Proc : q # p => arg'[q] = arg[q]
    BY <1>2, <2>1
  <2>3. arg'[p] \in ArgType /\ arg'[p].size = n
    BY <2>1, <2>2 DEF ArgType
  <2> QED
    BY <1>2, <2>1, <2>2, <2>3
<1>7. /\ at' \in [Proc -> Seg \cup {None}] /\ at'[p] = s
      /\ \A q \in Proc : q # p => at'[q] = at[q]
  BY <1>1, <1>3, Types
<1>8. size \in [Seg -> Sizes \cup {0}] /\ size' \in [Seg -> Sizes \cup {0}]
  BY <1>1, <1>3 DEF TypeOK
<1>9. TypeOK' /\ ArgOK'
  BY <1>1, <1>2, <1>3, <1>5, <1>6, <1>7, <1>8 DEF TypeOK, ArgOK, ArgType
<1>10. /\ size'[s] > 0 /\ \A u \in Seg : size'[u] = size[u] \/ u = s
       /\ \A u \in Seg : size[u] > 0 => size'[u] > 0
  <2>1. s # None
    BY SysVShmAssumption
  <2>2. CASE s = shmid /\ size' = size
    BY <2>1, <2>2, <1>1 DEF Owned
  <2>3. CASE size[s] = 0 /\ size' = [size EXCEPT ![s] = n]
    BY <2>3, <1>4, <1>8
  <2> QED
    BY <2>2, <2>3, <1>3
<1>11. Owned'
  <2>1. s # None
    BY SysVShmAssumption
  <2>2. "check" \notin Putting
    BY DEF Putting
  <2>3. \A q \in Proc : (pc'[q] \in Putting => sem' = q) /\ (pc'[q] # "idle" => at'[q] # None)
    BY <2>1, <2>2, <1>1, <1>2, <1>5, <1>7 DEF Owned
  <2>4. \A q \in Proc : sem' = q => at'[q] # None
    BY <2>1, <1>1, <1>2, <1>7 DEF Owned
  <2>5. \A q \in Proc : pc'[q] \in {"check", "magic", "fields", "free"} => arg'[q].size \in Sizes
    BY <1>1, <1>5, <1>6 DEF Owned
  <2>6. \A q \in Proc : at'[q] # None => size'[at'[q]] > 0
    <3>1. \A q \in Proc : at[q] # None => at[q] \in Seg /\ size[at[q]] > 0
      BY <1>1 DEF Owned, TypeOK
    <3> QED
      BY <3>1, <1>7, <1>10
  <2>7. shmid' # None => size'[shmid'] > 0
    BY <1>3, <1>10
  <2> QED
    BY <2>3, <2>4, <2>5, <2>6, <2>7 DEF Owned
<1>12. ASSUME NEW u \in Seg, size'[u] = 0 PROVE Clean(u)'
  <2>1. u # s
    BY <1>10, <1>12
  <2>2. size[u] = 0
    BY <2>1, <1>10, <1>12
  <2>3. Clean(u)
    BY <2>2 DEF IInv
  <2> QED
    BY <2>3, <1>2 DEF Clean
<1>13. \A q \in Proc : \A u \in Seg : At(q, u, Busy)' <=> At(q, u, Busy)
  <2>1. "idle" \notin Busy /\ "check" \notin Busy
    BY DEF Busy, Putting
  <2> QED
    BY <2>1, <1>2, <1>5, <1>7 DEF At
<1>14. ASSUME NEW u \in Seg, u \notin broken', size'[u] = size[u] PROVE SegOK(u)'
  <2>1. SegOK(u)
    BY <1>2, <1>14 DEF IInv
  <2>2. "idle" \notin Busy
    BY DEF Busy, Putting
  <2>3. \A q \in Proc : At(q, u, Busy) => pc'[q] = pc[q] /\ arg'[q] = arg[q]
    BY <2>2, <1>2, <1>5, <1>6 DEF At
  <2>4. head[u].magic \/ \A q \in Proc : at'[q] = u => pc'[q] \in {"check", "magic"}
    <3>1. CASE ~head[u].magic
      <4>1. New(u)
        BY <2>1, <3>1, NewIf
      <4> QED
        BY <4>1, <1>5, <1>7 DEF New
    <3> QED
      BY <3>1
  <2>5. head'[u] = head[u] /\ mem'[u] = mem[u] /\ vals'[u] = vals[u]
    BY <1>2
  <2> QED
    BY <1>13, <1>14, <2>1, <2>3, <2>4, <2>5, SegSame
<1>15. ASSUME size[s] = 0 PROVE SegOK(s)'
  <2>1. Clean(s)'
    BY <1>2, <1>15 DEF IInv, Clean
  <2>2. \A q \in Proc : at[q] # s
    <3>1. s # None
      BY SysVShmAssumption
    <3> QED
      BY <3>1, <1>1, <1>15 DEF Owned
  <2>3. New(s)'
    BY <2>1, <2>2, <1>5, <1>7 DEF New
  <2> QED
    BY <2>3 DEF SegOK
<1>16. ASSUME NEW u \in Seg, u \notin broken' PROVE SegOK(u)'
  BY <1>14, <1>15, <1>16, <1>3, <1>8
<1> QED
  BY <1>9, <1>11, <1>12, <1>16 DEF IInv

(***************************************************************************)
(* shm_remove(), shm_detach() and the end of processes.                    *)
(***************************************************************************)
\* Of a segment that is kept nothing changes but who is at work there, and who
\* leaves it has not begun to change it, or all of the change is there.
LEMMA SegLeft ==
  ASSUME IInv, NEW s \in Seg, s \notin broken, NEW Gone \in SUBSET Proc,
         head'[s] = head[s], mem'[s] = mem[s], vals'[s] = vals[s], size'[s] = size[s],
         \A q \in Proc : at'[q] = IF q \in Gone THEN None ELSE at[q],
         \A q \in Proc \ Gone : pc'[q] = pc[q] /\ arg'[q] = arg[q],
         \A q \in Gone : pc'[q] = "idle",
         \A q \in Gone : at[q] = s => pc[q] \notin Torn
  PROVE  SegOK(s)'
<1>1. SegOK(s) /\ s # None /\ "idle" \notin Busy
  BY SysVShmAssumption DEF IInv, Busy, Putting
<1>2. \A q \in Proc : at'[q] = s => q \notin Gone /\ at[q] = s /\ pc'[q] = pc[q] /\ arg'[q] = arg[q]
  BY <1>1
<1>3. CASE \A q \in Gone : ~At(q, s, Busy)
  <2>1. \A q \in Proc : At(q, s, Busy)' <=> At(q, s, Busy)
    BY <1>2, <1>3 DEF At
  <2>2. \A q \in Proc : At(q, s, Busy) => pc'[q] = pc[q] /\ arg'[q] = arg[q]
    BY <1>3
  <2>3. head[s].magic \/ \A q \in Proc : at'[q] = s => pc'[q] \in {"check", "magic"}
    <3>1. CASE ~head[s].magic
      <4>1. New(s)
        BY <1>1, <3>1, NewIf
      <4> QED
        BY <4>1, <1>2 DEF New
    <3> QED
      BY <3>1
  <2> QED
    BY <1>1, <2>1, <2>2, <2>3, SegSame
<1>4. ASSUME NEW q \in Gone, At(q, s, Busy) PROVE SegOK(s)'
  <2>1. q \in Proc /\ at[q] = s /\ pc[q] \in Busy /\ pc[q] \notin Torn
    BY <1>4 DEF At
  <2>2. pc[q] \in {"shrink", "store", "grow"} /\ pc[q] \in Putting
    BY <2>1 DEF Busy, Putting, Torn
  <2>3. PICK C \in SUBSET Words, e \in 0 .. Largest : Live(s, C, e) /\ Midway(q, s, C, e)
    BY <2>1, <2>2, WhoIsBusy
  <2>4. head[s].end = e /\ head[s].free = head[s].total - e
    BY <2>2, <2>3 DEF Midway
  <2>5. sem = q
    BY <2>1, <2>2 DEF IInv, Owned
  <2>6. \A r \in Proc : At(r, s, Busy) => r = q
    BY <2>1, <2>3, <2>5, Alone
  <2>7. \A r \in Proc : ~At(r, s, Busy)'
    BY <2>6, <1>2, <1>4 DEF At
  <2>8. Live(s, C, e)'
    BY <2>3, <2>4, <2>7 DEF Live
  <2> QED
    BY <2>8 DEF SegOK
<1> QED
  BY <1>3, <1>4

LEMMA LeavesStep ==
  ASSUME IInv, NEW Gone \in SUBSET Proc, NEW id \in {shmid, None}, NEW torn \in SUBSET Seg,
         Destroyed(id, [q \in Proc |-> IF q \in Gone THEN None ELSE at[q]], torn),
         pc' \in [Proc -> Steps], arg' \in [Proc -> ArgType],
         \A q \in Proc \ Gone : pc'[q] = pc[q] /\ arg'[q] = arg[q],
         \A q \in Gone : pc'[q] = "idle",
         \A q \in Gone : pc[q] \in Torn => at[q] \in torn,
         sem' = IF sem \in Gone THEN None ELSE sem
  PROVE  IInv'
<1> DEFINE where == [q \in Proc |-> IF q \in Gone THEN None ELSE at[q]]
           Stay == Kept(id, where)
<1>1. TypeOK /\ ArgOK /\ Owned
  BY DEF IInv
<1>2. /\ shmid' = id /\ at' = where /\ broken' = (broken \cup torn) \cap Stay
      /\ size' = [s \in Seg |-> IF s \in Stay THEN size[s] ELSE 0]
      /\ head' = [s \in Seg |-> IF s \in Stay \ broken' THEN head[s] ELSE Blank]
      /\ mem'  = [s \in Seg |-> IF s \in Stay \ broken' THEN mem[s] ELSE Zeros]
      /\ vals' = [s \in Seg |-> IF s \in Stay \ broken' THEN vals[s] ELSE NoVal]
  BY DEF Destroyed
<1>3. \A q \in Proc : at'[q] = IF q \in Gone THEN None ELSE at[q]
  BY <1>2
<1>4. Stay = {s \in Seg : s = shmid' \/ \E q \in Proc : at'[q] = s}
  BY <1>2 DEF Kept
<1>5. Blank \in HeadType /\ Zeros \in [Words -> Nat] /\ NoVal \in [Key -> Value \cup {None}]
  <2>1. HeadSize \in Nat /\ 0 \in 0 .. Largest
    BY SysVShmAssumption DEF HeadSize
  <2> QED
    BY <2>1 DEF Blank, HeadType, Zeros, NoVal
<1> HIDE DEF Stay, where
<1>6. /\ head' \in [Seg -> HeadType] /\ mem' \in [Seg -> [Words -> Nat]]
      /\ vals' \in [Seg -> [Key -> Value \cup {None}]]
  <2>1. \A s \in Seg : /\ head[s] \in HeadType /\ mem[s] \in [Words -> Nat]
                       /\ vals[s] \in [Key -> Value \cup {None}]
    BY <1>1, Types
  <2> QED
    BY <2>1, <1>2, <1>5
<1>7. /\ shmid' \in Seg \cup {None} /\ size' \in [Seg -> Sizes \cup {0}]
      /\ at' \in [Proc -> Seg \cup {None}] /\ sem' \in Proc \cup {None} /\ broken' \subseteq Seg
  <2>1. at' \in [Proc -> Seg \cup {None}]
    BY <1>1, <1>2 DEF where, TypeOK
  <2> QED
    BY <2>1, <1>1, <1>2 DEF TypeOK, ArgOK
<1>8. TypeOK' /\ ArgOK'
  BY <1>6, <1>7 DEF TypeOK, ArgOK, ArgType, HeadType
<1>9. \A s \in Stay : s \in Seg /\ size'[s] = size[s]
  BY <1>2, <1>4
<1>10. Owned'
  <2>1. "idle" \notin Putting \cup {"check", "magic", "fields", "free"}
    BY DEF Putting
  <2>2. ASSUME NEW q \in Proc, q \notin Gone, pc'[q] \in Putting PROVE sem' = q
    <3>1. sem = q
      BY <2>2, <1>1 DEF Owned
    <3> QED
      BY <3>1, <2>2
  <2>3. ASSUME NEW q \in Proc, q \notin Gone, pc'[q] # "idle" PROVE at'[q] # None
    BY <2>3, <1>1, <1>3 DEF Owned
  <2>4. ASSUME NEW q \in Proc, sem' = q PROVE at'[q] # None
    <3>1. q # None
      BY SysVShmAssumption
    <3>2. sem = q /\ q \notin Gone
      BY <3>1, <2>4
    <3> QED
      BY <3>2, <1>1, <1>3 DEF Owned
  <2>5. ASSUME NEW q \in Proc, q \notin Gone, pc'[q] \in {"check", "magic", "fields", "free"}
        PROVE  arg'[q].size \in Sizes
    BY <2>5, <1>1 DEF Owned
  <2>6. ASSUME NEW q \in Proc, at'[q] # None PROVE size'[at'[q]] > 0
    <3>1. at'[q] = at[q] /\ at'[q] \in Stay /\ size[at[q]] > 0
      BY <2>6, <1>1, <1>3, <1>4, <1>7 DEF Owned
    <3> QED
      BY <3>1, <1>9
  <2>7. ASSUME shmid' # None PROVE size'[shmid'] > 0
    <3>1. shmid' = shmid /\ shmid' \in Stay /\ size[shmid] > 0
      BY <2>7, <1>1, <1>2, <1>4, <1>7 DEF Owned
    <3> QED
      BY <3>1, <1>9
  <2> QED
    BY <2>1, <2>2, <2>3, <2>4, <2>5, <2>6, <2>7 DEF Owned
<1>11. ASSUME NEW s \in Seg, s \notin Stay PROVE New(s)'
  <2>1. Clean(s)'
    BY <1>2, <1>11 DEF Clean
  <2>2. \A q \in Proc : at'[q] # s
    BY <1>4, <1>11
  <2> QED
    BY <2>1, <2>2 DEF New
<1>12. ASSUME NEW s \in Seg, size'[s] = 0 PROVE Clean(s)'
  <2>1. CASE s \notin Stay
    BY <2>1, <1>11 DEF New
  <2>2. CASE s \in Stay
    <3>1. Clean(s)
      BY <2>2, <1>9, <1>12 DEF IInv
    <3> QED
      BY <3>1, <2>2, <1>2 DEF Clean
  <2> QED
    BY <2>1, <2>2
<1>13. ASSUME NEW s \in Seg, s \notin broken' PROVE SegOK(s)'
  <2>1. CASE s \notin Stay
    BY <2>1, <1>11 DEF SegOK
  <2>2. CASE s \in Stay
    <3>1. s \notin broken /\ s \notin torn
      BY <2>2, <1>2, <1>13
    <3>2. \A q \in Gone : at[q] = s => pc[q] \notin Torn
      BY <3>1
    <3>3. head'[s] = head[s] /\ mem'[s] = mem[s] /\ vals'[s] = vals[s] /\ size'[s] = size[s]
      BY <2>2, <1>2, <1>13
    <3> QED
      BY <1>3, <3>1, <3>2, <3>3, SegLeft
  <2> QED
    BY <2>1, <2>2
<1> QED
  BY <1>8, <1>10, <1>12, <1>13 DEF IInv

LEMMA ShmRemoveStep ==
  ASSUME IInv, NEW p \in Proc, ShmRemove(p)
  PROVE  IInv'
<1>1. at \in [Proc -> Seg \cup {None}] /\ pc \in [Proc -> Steps] /\ arg \in [Proc -> ArgType]
  BY Types DEF IInv
<1>2. at = [q \in Proc |-> IF q \in {} THEN None ELSE at[q]]
  BY <1>1
<1>3. Destroyed(None, at, {}) /\ UNCHANGED <<pc, arg, sem>>
  BY DEF ShmRemove
<1>4. Destroyed(None, [q \in Proc |-> IF q \in {} THEN None ELSE at[q]], {})
  BY <1>2, <1>3
<1> QED
  BY <1>1, <1>3, <1>4, LeavesStep

LEMMA EndsStep ==
  ASSUME IInv, NEW p \in Proc, Detach(p) \/ Killed(p)
  PROVE  IInv'
<1>1. /\ at \in [Proc -> Seg \cup {None}] /\ pc \in [Proc -> Steps] /\ TypeOK /\ ArgOK
      /\ sem \in Proc \cup {None} /\ "idle" \notin Torn
  BY Types DEF IInv, TypeOK, Torn
<1>2. PICK torn \in {{}, {at[p]}} : Leaves(p, torn) /\ (pc[p] \in Torn => at[p] \in torn)
  BY <1>1 DEF Detach, Killed
<1>3. /\ at[p] # None /\ Destroyed(shmid, [at EXCEPT ![p] = None], torn) /\ Return(p)
      /\ sem' = IF sem = p THEN None ELSE sem
  BY <1>2 DEF Leaves
<1>4. torn \in SUBSET Seg
  BY <1>1, <1>2, <1>3
<1>5. [at EXCEPT ![p] = None] = [q \in Proc |-> IF q \in {p} THEN None ELSE at[q]]
  BY <1>1
<1>6. Destroyed(shmid, [q \in Proc |-> IF q \in {p} THEN None ELSE at[q]], torn)
  BY <1>3, <1>5
<1>7. /\ pc' \in [Proc -> Steps] /\ arg' \in [Proc -> ArgType] /\ pc'[p] = "idle"
      /\ \A q \in Proc : q # p => pc'[q] = pc[q] /\ arg'[q] = arg[q]
  BY <1>1, <1>3, Returns
<1>8. sem' = IF sem \in {p} THEN None ELSE sem
  BY <1>3
<1>9. \A q \in {p} : pc[q] \in Torn => at[q] \in torn
  BY <1>2
<1>10. {p} \in SUBSET Proc /\ shmid \in {shmid, None}
  OBVIOUS
<1>11. (\A q \in Proc \ {p} : pc'[q] = pc[q] /\ arg'[q] = arg[q]) /\ \A q \in {p} : pc'[q] = "idle"
  BY <1>7
<1> QED
  BY ONLY IInv, <1>4, <1>6, <1>7, <1>8, <1>9, <1>10, <1>11, LeavesStep

LEMMA NextStep == ASSUME IInv, [Next]_vars PROVE IInv'
<1>1. CASE UNCHANGED vars
  <2>1. UNCHANGED <<shmid, size, head, mem, at, pc, arg, sem, vals, broken>>
    BY <1>1 DEF vars, files, ghosts
  <2>2. TypeOK' /\ ArgOK' /\ Owned'
    BY <2>1 DEF IInv, TypeOK, ArgOK, Owned
  <2>3. \A s \in Seg : size'[s] = 0 => Clean(s)'
    BY <2>1 DEF IInv, Clean
  <2>4. \A s \in Seg : s \notin broken' => SegOK(s)'
    BY <2>1, SegsSame
  <2> QED
    BY <2>2, <2>3, <2>4 DEF IInv
<1>2. ASSUME NEW p \in Proc, NEW n \in Sizes, Attach(p, n) PROVE IInv'
  BY <1>2, AttachStep
<1>3. ASSUME NEW p \in Proc,
             \/ Check(p) \/ SetMagic(p) \/ SetFields(p) \/ SetFree(p)
             \/ Shrink(p) \/ SetEnd(p) \/ Move(p) \/ Store(p) \/ Grow(p) \/ Take(p)
      PROVE  IInv'
  <2>1. pc[p] # "idle"
    BY <1>3 DEF Check, SetMagic, SetFields, SetFree, Shrink, SetEnd, Move, Store, Grow, Take,
                Running
  <2>2. PICK s \in Seg : at[p] = s
    BY <2>1, Attached
  <2>3. CASE Check(p)
    BY <2>2, <2>3, CheckStep
  <2>4. CASE SetMagic(p)
    BY <2>2, <2>4, SetMagicStep
  <2>5. CASE SetFields(p)
    BY <2>2, <2>5, SetFieldsStep
  <2>6. CASE SetFree(p)
    BY <2>2, <2>6, SetFreeStep
  <2>7. CASE Shrink(p)
    BY <2>2, <2>7, ShrinkStep
  <2>8. CASE SetEnd(p)
    BY <2>2, <2>8, SetEndStep
  <2>9. CASE Move(p)
    BY <2>2, <2>9, MoveStep
  <2>10. CASE Store(p)
    BY <2>2, <2>10, StoreStep
  <2>11. CASE Grow(p)
    BY <2>2, <2>11, GrowStep
  <2>12. CASE Take(p)
    BY <2>2, <2>12, TakeStep
  <2> QED
    BY <1>3, <2>3, <2>4, <2>5, <2>6, <2>7, <2>8, <2>9, <2>10, <2>11, <2>12
<1>4. ASSUME NEW p \in Proc, Acquire(p) \/ Release(p) PROVE IInv'
  BY <1>4, SemaphoreStep
<1>5. ASSUME NEW p \in Proc,
             (\E k \in Key, v \in Value : PutVar(p, k, v)) \/ \E k \in Key : RemoveVar(p, k)
      PROVE  IInv'
  BY <1>5, BeginsStep
<1>6. ASSUME NEW p \in Proc, ShmRemove(p) PROVE IInv'
  BY <1>6, ShmRemoveStep
<1>7. ASSUME NEW p \in Proc, Detach(p) \/ Killed(p) PROVE IInv'
  BY <1>7, EndsStep
<1> QED
  BY <1>1, <1>2, <1>3, <1>4, <1>5, <1>6, <1>7 DEF Next

(***************************************************************************)
(* The theorems.                                                           *)
(***************************************************************************)
\* In every reachable state each segment is new, being initialized by one process, or
\* a row of chunks that its head and whoever is changing it account for.
THEOREM InvHolds == Spec => []IInv
<1>1. Init => IInv
  BY InitHolds
<1>2. IInv /\ [Next]_vars => IInv'
  BY NextStep
<1> QED
  BY <1>1, <1>2, PTL DEF Spec

\* What php_check_shm_data() goes through is whole chunks, one for each key, that fill
\* the segment up to its end; php_put_shm_data() stores nothing beyond the segment; and
\* nobody uses a segment that shm_attach() is still initializing, for any number of
\* processes that attach it with any sizes, write to it and die there.
THEOREM WellFormedHolds == Spec => []WellFormed
<1>1. IInv => WellFormed
  BY TiledHolds, InSegmentHolds, NotYetHolds DEF WellFormed, IInv
<1> QED
  BY <1>1, InvHolds, PTL

\* shm_get_var() gives the value put last and not removed, all of its words and no
\* others, whatever php_remove_shm_data() has moved and whoever was killed since.
THEOREM GetsLastTheorem == Spec => []GetsLast
<1>1. IInv => GetsLast
  BY GetsLastHolds
<1> QED
  BY <1>1, InvHolds, PTL

====
