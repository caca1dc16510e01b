------------------------------- MODULE Alloc -------------------------------
(***************************************************************************)
(* The memory manager of a request (Zend/zend_alloc.c, zend_fast_cache.h): *)
(* the headers of its blocks, the caches of freed blocks, the count that   *)
(* memory_limit is compared with, and the end of the request, which        *)
(* returns what the scripts have left.  A release build: blocks are not    *)
(* checked, and the fast cache of zvals and hash tables is on.             *)
(***************************************************************************)
EXTENDS Integers, Sequences, FiniteSets, FiniteSetsExt, Functions

CONSTANTS
  Block,             \* addresses
  Align,             \* what sizes are rounded up to: 8
  MaxCachedMemory,   \* MAX_CACHED_MEMORY
  MaxCachedEntries,  \* MAX_CACHED_ENTRIES
  FastSize,          \* sizeof(zval)
  MaxSize,           \* bound: on what is asked for
  Limits,            \* the values of memory_limit
  Slack,             \* how far beyond it the process is ended: 1048576
  Width,             \* of an unsigned int: 2^32
  None

Size    == 0 .. MaxSize
Headers == [size : Size, persistent : BOOLEAN, cached : BOOLEAN, room : Nat]

ASSUME AllocAssumption ==
  /\ {MaxCachedMemory, FastSize, MaxSize, Slack} \subseteq Nat
  /\ {Align, MaxCachedEntries, Width} \subseteq Nat \ {0}
  /\ Limits \subseteq Nat /\ Limits # {} /\ FastSize \in 1 .. MaxSize
  /\ None \notin Headers \cup Int /\ IsFiniteSet(Block)

\* No sum of a limit, the slack and a size reaches 2^32: a limit is an int
\* (main.c:127-134), and a header has 30 bits for a size (zend_alloc.h:48).
ASSUME NoWrap == \A n \in Limits : n + Slack + MaxSize + Align <= Width

VARIABLES
  stage,       \* "idle" between requests, or "request"
  mem,         \* the header of each block that has been malloc()ed, and its room
  cache,       \* AG(cache), by size class
  fast,        \* AG(fast_cache_list_head)
  used,        \* the blocks that code has been given and has not freed
  allocated,   \* AG(allocated_memory)
  limit,       \* AG(memory_limit)
  refused,     \* "no"; or memory_limit has ended this request, or process: "rightly",
               \* or, with blocks that are within the limit, "wrongly", or "drifted"
               \* when an earlier request is the reason
  start,       \* allocated less what the blocks have, at the start of the request;
               \* None when an erealloc() of an earlier one has been cut off on a
               \* block that is left, and when memory_limit has ended this one
  shrunk       \* memory_limit has ended an erealloc() to a smaller size

blocks == <<mem, cache, fast, used>>
ghosts == <<refused, start, shrunk>>
vbls   == <<stage, blocks, allocated, limit, ghosts>>

Class == 0 .. MaxCachedMemory - 1

\* Mutant: the size is not rounded up.
Index_down(size) == size \div Align

\* CACHE_INDEX, and REAL_SIZE(), which is a multiple of it.
Index(size)    == (size + Align - 1) \div Align
RealSize(size) == Index(size) * Align

\* A block that malloc() has just returned.
Header(size) ==
  [size |-> size, persistent |-> FALSE, cached |-> FALSE, room |-> RealSize(size)]

Malloced  == {b \in Block : mem[b] # None}
Rooms(m)  == [b \in Block |-> IF m[b] = None THEN 0 ELSE m[b].room]
Memory(m) == SumFunction(Rooms(m))
Members(s) == {s[i] : i \in DOMAIN s}
InCache   == {b \in Block : \E c \in Class : b \in Members(cache[c])}

\* start_memory_manager(), and the limit of the configuration.
AllocInit ==
  /\ stage = "idle" /\ mem = [b \in Block |-> None]
  /\ cache = [c \in Class |-> <<>>] /\ fast = <<>> /\ used = {}
  /\ allocated = 0 /\ limit = Max(Limits)
  /\ refused = "no" /\ start = 0 /\ shrunk = FALSE

-----------------------------------------------------------------------------
Running == stage = "request"

Begin ==
  /\ stage = "idle" /\ stage' = "request" /\ refused' = "no"
  /\ start' = IF \A b \in Malloced : mem[b].room = RealSize(mem[b].size)
                THEN allocated - Memory(mem) ELSE None
  /\ UNCHANGED <<blocks, allocated, limit, shrunk>>

(***************************************************************************)
(* _CHECK_MEMORY_LIMIT(): an E_ERROR, whose bailout ends the script but    *)
(* not what runs after it, and exit() when that takes far more.            *)
(***************************************************************************)
Plus(n) == (allocated + n) % Width

Fits(n)    == Plus(n) <= limit
Refuses(n) == Plus(n) > limit /\ Plus(n) <= limit + Slack

\* Whether a script that has blocks m was to be ended at n.
Judged(m, n) ==
  IF Memory(m) > n THEN "rightly" ELSE IF start # 0 THEN "drifted" ELSE "wrongly"

\* The count includes n bytes more for mem'.
Granted(n) ==
  /\ Fits(n) /\ allocated' = Plus(n) /\ UNCHANGED ghosts

Refused(n) ==
  /\ Refuses(n) /\ allocated' = Plus(n) /\ start' = None
  /\ refused' = Judged(mem', limit)

\* The process is replaced by another.
ExitTooFar(n, m) ==
  /\ Plus(n) > limit + Slack
  /\ stage' = "idle" /\ mem' = [b \in Block |-> None]
  /\ cache' = [c \in Class |-> <<>>] /\ fast' = <<>> /\ used' = {}
  /\ allocated' = 0 /\ limit' = Max(Limits)
  /\ start' = 0 /\ shrunk' = FALSE
  /\ refused' = Judged(m, limit + Slack)

(***************************************************************************)
(* emalloc()                                                               *)
(***************************************************************************)
\* Mutant: the block stays in the cache.
EmallocCached_keeps(size) ==
  LET c == Index(size)
      p == cache[c][Len(cache[c])] IN
  /\ Running /\ c \in Class /\ cache[c] # <<>>
  /\ mem' = [mem EXCEPT ![p].persistent = FALSE, ![p].cached = FALSE, ![p].size = size]
  /\ used' = used \cup {p}
  /\ UNCHANGED <<stage, cache, fast, allocated, limit, ghosts>>

EmallocCached(size) ==
  LET c == Index(size)
      p == cache[c][Len(cache[c])] IN
  /\ Running /\ c \in Class /\ cache[c] # <<>>
  /\ cache' = [cache EXCEPT ![c] = SubSeq(@, 1, Len(@) - 1)]
  /\ mem' = [mem EXCEPT ![p].persistent = FALSE, ![p].cached = FALSE, ![p].size = size]
  /\ used' = used \cup {p}
  /\ UNCHANGED <<stage, fast, allocated, limit, ghosts>>

\* A block that is refused is on the list, but nobody has it.
EmallocNew(size) ==
  LET c == Index(size) IN
  /\ Running /\ (c \in Class => cache[c] = <<>>)
  /\ \E p \in Block \ Malloced :
        LET m == [mem EXCEPT ![p] = Header(size)] IN
        \/ /\ mem' = m /\ Granted(RealSize(size)) /\ used' = used \cup {p}
           /\ UNCHANGED <<stage, cache, fast, limit>>
        \/ /\ mem' = m /\ Refused(RealSize(size))
           /\ UNCHANGED <<stage, cache, fast, used, limit, shrunk>>
        \/ ExitTooFar(RealSize(size), m)

(***************************************************************************)
(* efree()                                                                 *)
(***************************************************************************)
\* Mutant: a block in a cache is not counted.
EfreeCached_uncounted(p) ==
  LET c == Index(mem[p].size) IN
  /\ Running /\ p \in used /\ ~mem[p].persistent
  /\ c \in Class /\ Len(cache[c]) < MaxCachedEntries
  /\ cache' = [cache EXCEPT ![c] = Append(@, p)] /\ mem' = [mem EXCEPT ![p].cached = TRUE]
  /\ used' = used \ {p} /\ allocated' = (allocated - RealSize(mem[p].size)) % Width
  /\ UNCHANGED <<stage, fast, limit, ghosts>>

EfreeCached(p) ==
  LET c == Index(mem[p].size) IN
  /\ Running /\ p \in used /\ ~mem[p].persistent
  /\ c \in Class /\ Len(cache[c]) < MaxCachedEntries
  /\ cache' = [cache EXCEPT ![c] = Append(@, p)] /\ mem' = [mem EXCEPT ![p].cached = TRUE]
  /\ used' = used \ {p}
  /\ UNCHANGED <<stage, fast, allocated, limit, ghosts>>

EfreeReturned(p) ==
  LET c == Index(mem[p].size) IN
  /\ Running /\ p \in used
  /\ ~(~mem[p].persistent /\ c \in Class /\ Len(cache[c]) < MaxCachedEntries)
  /\ mem' = [mem EXCEPT ![p] = None] /\ used' = used \ {p}
  /\ allocated' = (allocated - RealSize(mem[p].size)) % Width
  /\ UNCHANGED <<stage, cache, fast, limit, ghosts>>

(***************************************************************************)
(* erealloc(): the block may move.  A bailout leaves the old size in the   *)
(* header of the new block, and the caller with the old address.  Nobody   *)
(* reallocates a persistent block.                                         *)
(***************************************************************************)
Erealloc(p, size) ==
  LET more == RealSize(size) - RealSize(mem[p].size) IN
  /\ Running /\ p \in used /\ ~mem[p].persistent
  /\ \E q \in {p} \cup (Block \ Malloced) :
        LET moved(s) == [[mem EXCEPT ![p] = None]
                           EXCEPT ![q] = [mem[p] EXCEPT !.size = s, !.room = RealSize(size)]]
        IN
        \/ /\ mem' = moved(size) /\ Granted(more) /\ used' = (used \ {p}) \cup {q}
           /\ UNCHANGED <<stage, cache, fast, limit>>
        \/ /\ mem' = moved(mem[p].size) /\ Refused(more)
           /\ used' = IF q = p THEN used ELSE used \ {p}
           /\ shrunk' = (shrunk \/ more < 0)
           /\ UNCHANGED <<stage, cache, fast, limit>>
        \/ ExitTooFar(more, moved(size))

\* persist_alloc(): the block is moved to the other list.
PersistAlloc(p) ==
  /\ Running /\ p \in used
  /\ mem' = [mem EXCEPT ![p].persistent = TRUE]
  /\ UNCHANGED <<stage, cache, fast, used, allocated, limit, ghosts>>

(***************************************************************************)
(* ZEND_FAST_ALLOC() when there is one, else it is emalloc();              *)
(* ZEND_FAST_FREE()                                                        *)
(***************************************************************************)
FastAlloc ==
  /\ Running /\ fast # <<>> /\ fast' = Tail(fast) /\ used' = used \cup {Head(fast)}
  /\ UNCHANGED <<stage, mem, cache, allocated, limit, ghosts>>

FastFree(p) ==
  /\ Running /\ p \in used /\ mem[p].size = FastSize
  /\ fast' = <<p>> \o fast /\ used' = used \ {p}
  /\ UNCHANGED <<stage, mem, cache, allocated, limit, ghosts>>

\* zend_set_memory_limit()
SetMemoryLimit(n) ==
  /\ Running /\ limit # n /\ limit' = n
  /\ UNCHANGED <<stage, blocks, allocated, ghosts>>

(***************************************************************************)
(* shutdown_memory_manager(): the fast cache is freed, then the caches but *)
(* for that of class 0, then what the request has left.  Of the latter not *)
(* what malloc() was asked for but what the program had asked for is       *)
(* subtracted.  The limit has been restored with the other directives.     *)
(***************************************************************************)
\* Mutant: the loop over the caches starts one later.
Emptied_second ==
  {b \in Block : b \in Members(fast) \/ \E c \in Class \ {0, 1} : b \in Members(cache[c])}

\* What the fast cache, and the caches but that of class 0, hold.
Emptied ==
  {b \in Block : b \in Members(fast) \/ \E c \in Class \ {0} : b \in Members(cache[c])}
Leaked  == {b \in Malloced \ Emptied : ~mem[b].persistent /\ ~mem[b].cached}

\* What is subtracted for them.
Returned == [b \in Emptied \cup Leaked |->
               IF b \in Emptied THEN RealSize(mem[b].size) ELSE mem[b].size]

Shutdown ==
  /\ stage = "request" /\ stage' = "idle" /\ limit' = Max(Limits)
  /\ fast' = <<>> /\ cache' = [c \in Class |-> IF c = 0 THEN cache[c] ELSE <<>>]
  /\ mem' = [b \in Block |-> IF b \in Emptied \cup Leaked THEN None ELSE mem[b]]
  /\ used' = used \ Leaked
  /\ allocated' = (allocated - SumFunction(Returned)) % Width
  /\ refused' = "no" /\ start' = 0 /\ UNCHANGED shrunk

AllocNext ==
  \/ Begin \/ FastAlloc \/ Shutdown
  \/ \E size \in Size : EmallocCached(size) \/ EmallocNew(size)
  \/ \E p \in Block : \/ EfreeCached(p) \/ EfreeReturned(p) \/ PersistAlloc(p) \/ FastFree(p)
                      \/ \E size \in Size : Erealloc(p, size)
  \/ \E n \in Limits : SetMemoryLimit(n)

AllocSpec == AllocInit /\ [][AllocNext]_vbls

-----------------------------------------------------------------------------
Injective(s) == \A i, j \in DOMAIN s : s[i] = s[j] => i = j

BlockTypes ==
  /\ mem \in [Block -> {None} \cup Headers]
  /\ cache \in [Class -> Seq(Block)] /\ \A c \in Class : Len(cache[c]) <= MaxCachedEntries
  /\ fast \in Seq(Block) /\ used \subseteq Block

AllocTypeOK ==
  /\ stage \in {"idle", "request"} /\ limit \in Limits /\ allocated \in 0 .. Width - 1
  /\ BlockTypes

\* A block is in one place: with the code that asked for it, in one entry of one
\* cache, or once in the fast cache; so emalloc() never gives a block to two.
OnePlace ==
  /\ used \cap (InCache \cup Members(fast)) = {} /\ InCache \cap Members(fast) = {}
  /\ \A c, d \in Class : c # d => Members(cache[c]) \cap Members(cache[d]) = {}
  /\ Injective(fast) /\ \A c \in Class : Injective(cache[c])
  /\ used \cup InCache \cup Members(fast) \subseteq Malloced

\* The "cached" bit is right: shutdown_memory_manager() frees what a cache does not
\* hold, and every cached block can serve each size of its class.
CachedBit ==
  /\ \A b \in Malloced : mem[b].cached <=> b \in InCache
  /\ \A c \in Class : \A b \in Members(cache[c]) : Index(mem[b].size) = c

\* Whoever has a block has room for what it asked for, however often the block has
\* been freed and given out for another size, unless an erealloc() to a smaller size
\* was cut off by memory_limit.
RoomEnough == shrunk \/ \A b \in Malloced : mem[b].size <= mem[b].room

\* Until memory_limit ends it a request is charged what its blocks take, whether
\* they come from the caches or from malloc().
Accounted ==
  stage = "request" /\ start # None => allocated = (Memory(mem) + start) % Width

\* What is counted is never less than what there is, so that the count does not
\* wrap around, unless an erealloc() to a smaller size was cut off by memory_limit.
NeverShort == shrunk \/ allocated >= Memory(mem)

\* php.ini-dist:192, memory_limit is the "Maximum amount of memory a script may
\* consume": a script that is ended had consumed more, unless an earlier request has
\* left the count too high.
LimitIsScripts == refused # "wrongly"

\* memory_limit is compared with what the request really has, over any sequence of
\* emalloc(), efree() and erealloc() through the caches, and from one request to
\* the next.
CountRight == AllocTypeOK /\ Accounted /\ NeverShort /\ LimitIsScripts

\* Between requests there is no block but persistent ones and cached ones of size
\* 0: a request leaves no memory behind, not even one that bailed out.
NothingLeft ==
  stage = "idle" => \A b \in Malloced : mem[b].persistent \/ b \in Members(cache[0])

\* The inductive invariant in Counting_proofs; the room is that of every size of the
\* class.
ClassRoom == shrunk \/ \A b \in Malloced : RealSize(mem[b].size) <= mem[b].room
IInv == BlockTypes /\ OnePlace /\ CachedBit /\ ClassRoom /\ NothingLeft

\* And that of the count: as long as start accounts for it each block has the room of
\* its size, and no more is counted than memory_limit lets pass.
Exact   == stage = "request" /\ start # None =>
             \A b \in Malloced : mem[b].room = RealSize(mem[b].size)
Bounded == shrunk \/ \E n \in Limits : allocated <= n + Slack
CountInv == /\ start \in Int \cup {None} /\ shrunk \in BOOLEAN
            /\ CountRight /\ Exact /\ Bounded

=============================================================================
