------------------------------ MODULE SysVShm ------------------------------
(***************************************************************************)
(* Variables in System V shared memory (ext/sysvshm): a segment is a head  *)
(* and a row of chunks, one for each variable, that every process works on *)
(* in place.  The scripts hold a semaphore when they use the variables,    *)
(* not when they attach the segment.  Sizes are in words of four bytes.    *)
(***************************************************************************)
EXTENDS Integers, FiniteSetsExt

CONSTANTS
  Proc,
  Seg,       \* ids of segments
  Key,       \* of variables: positive integers
  Value,     \* serialized variables: positive integers
  Length,       \* the bytes of each
  Largest,   \* SHMMAX, the size of the largest segment shmget() makes
  Sizes,     \* memsize of shm_attach()
  None

HeadSize == 6    \* sizeof(sysvshm_chunk_head)

\* total_size of php_put_shm_data(): sizeof(sysvshm_chunk) is 16 bytes, of which
\* the last four are the first of the data.
Total(v)   == (Length[v] + 15) \div 4 + 1
Data(v)    == (Length[v] + 3) \div 4
Words      == 0 .. Largest - 1

ASSUME SysVShmAssumption ==
  /\ Key \subseteq Nat \ {0} /\ Value \subseteq Nat \ {0} /\ Length \in [Value -> Nat \ {0}]
  /\ Largest \in Nat /\ Sizes \subseteq HeadSize .. Largest
  /\ None \notin Seg \cup Proc \cup Value

VARIABLES
  shmid,     \* the segment of the key that the scripts use
  size,      \* of each segment; 0 when there is none
  head,      \* its sysvshm_chunk_head
  mem,       \* its words
  at,        \* the segment each process has attached
  pc,        \* where each process is in the function it calls
  arg,       \* what it was called with, and the place of the variable
  sem,       \* who holds the semaphore
  vals,      \* what scripts have put into each segment and not removed
  broken     \* segments that two processes have initialized, or one that had
             \* asked for more memory than the one that created it, or that a
             \* process was killed in the middle of: nothing is said of them

files == <<shmid, size, head, mem>>
ghosts == <<vals, broken>>
vars  == <<files, at, pc, arg, sem, ghosts>>

Blank == [magic |-> FALSE, start |-> 0, end |-> 0, free |-> 0, total |-> 0]
NoArg == [key |-> 0, value |-> None, pos |-> 0, size |-> 0]
Zeros == [w \in Words |-> 0]
NoVal == [k \in Key |-> None]

Init ==
  /\ shmid = None /\ size = [s \in Seg |-> 0] /\ head = [s \in Seg |-> Blank]
  /\ mem = [s \in Seg |-> Zeros]
  /\ at = [p \in Proc |-> None] /\ pc = [p \in Proc |-> "idle"]
  /\ arg = [p \in Proc |-> NoArg] /\ sem = None
  /\ vals = [s \in Seg |-> NoVal] /\ broken = {}

-----------------------------------------------------------------------------
(***************************************************************************)
(* Chunks: the words key, length, next and the data.                       *)
(***************************************************************************)
\* The places php_check_shm_data() looks at; it ends at end.
Places(s) ==
  LET from[pos \in Words] ==
        LET next == pos + mem[s][pos + 2]
        IN {pos} \cup IF next \in pos + 1 .. head[s].end - 1 THEN from[next] ELSE {}
  IN IF head[s].start < head[s].end THEN from[head[s].start] ELSE {}

\* php_check_shm_data(): the first of them that has the key.
Found(s, k) ==
  LET hits == {pos \in Places(s) : mem[s][pos] = k} IN
  IF hits = {} THEN -1 ELSE Min(hits)

\* What shm_get_var() reads: the length, and so many bytes.
Got(s, k) ==
  LET pos == Found(s, k) IN
  IF pos < 0 THEN <<>>
  ELSE <<mem[s][pos + 1], [i \in 1 .. (mem[s][pos + 1] + 3) \div 4 |-> mem[s][pos + 2 + i]]>>

\* The words of a segment with the chunk of a variable at pos.
Stored(s, pos, k, v) ==
  [w \in Words |->
     CASE w = pos     -> k
       [] w = pos + 1 -> Length[v]
       [] w = pos + 2 -> Total(v)
       [] w \in pos + 3 .. pos + 2 + Data(v) -> v
       [] OTHER       -> mem[s][w]]

Running(p, state) == pc[p] = state /\ at[p] \notin broken
Goto(p, state)    == pc' = [pc EXCEPT ![p] = state] /\ UNCHANGED arg
Return(p)         == pc' = [pc EXCEPT ![p] = "idle"] /\ arg' = [arg EXCEPT ![p] = NoArg]

(***************************************************************************)
(* shm_attach(), without the semaphore.  What shmget() finds can be gone   *)
(* for shmat(): then it fails, like the shmget() that finds no room.       *)
(***************************************************************************)
Attach(p, n) ==
  /\ pc[p] = "idle" /\ at[p] = None
  /\ \/ /\ shmid # None /\ at' = [at EXCEPT ![p] = shmid]
        /\ UNCHANGED <<files, ghosts>>
     \/ /\ shmid = None
        /\ \E s \in Seg :
             /\ size[s] = 0 /\ size' = [size EXCEPT ![s] = n]
             /\ shmid' = s /\ at' = [at EXCEPT ![p] = s]
             /\ UNCHANGED <<head, mem, ghosts>>
  /\ pc' = [pc EXCEPT ![p] = "check"] /\ arg' = [arg EXCEPT ![p].size = n]
  /\ UNCHANGED sem

\* strcmp() with "PHP_SM"
Check(p) ==
  /\ Running(p, "check")
  /\ IF head[at[p]].magic THEN Return(p) ELSE Goto(p, "magic")
  /\ UNCHANGED <<files, at, sem, ghosts>>

SetMagic(p) ==
  LET s == at[p] IN
  /\ Running(p, "magic") /\ Goto(p, "fields")
  /\ broken' = IF head[s].magic \/ arg[p].size > size[s] THEN broken \cup {s} ELSE broken
  /\ head' = [head EXCEPT ![s] = IF s \in broken' THEN Blank ELSE [@ EXCEPT !.magic = TRUE]]
  /\ mem' = [mem EXCEPT ![s] = IF s \in broken' THEN Zeros ELSE @]
  /\ vals' = [vals EXCEPT ![s] = IF s \in broken' THEN NoVal ELSE @]
  /\ UNCHANGED <<shmid, size, at, sem>>

\* start, end and total
SetFields(p) ==
  /\ Running(p, "fields") /\ Goto(p, "free")
  /\ head' = [head EXCEPT ![at[p]] =
       [@ EXCEPT !.start = HeadSize, !.end = HeadSize, !.total = arg[p].size]]
  /\ UNCHANGED <<shmid, size, mem, at, sem, ghosts>>

SetFree(p) ==
  /\ Running(p, "free") /\ Return(p)
  /\ head' = [head EXCEPT ![at[p]].free = arg[p].size - head[at[p]].end]
  /\ UNCHANGED <<shmid, size, mem, at, sem, ghosts>>

(***************************************************************************)
(* The scripts' semaphore.                                                 *)
(***************************************************************************)
Acquire(p) ==
  /\ Running(p, "idle") /\ at[p] # None /\ sem = None /\ sem' = p
  /\ UNCHANGED <<files, at, pc, arg, ghosts>>

Release(p) ==
  /\ pc[p] = "idle" /\ sem = p /\ sem' = None
  /\ UNCHANGED <<files, at, pc, arg, ghosts>>

(***************************************************************************)
(* shm_put_var(), in php_put_shm_data(), and shm_remove_var().             *)
(***************************************************************************)
Begins(p) == Running(p, "idle") /\ sem = p

Puts(p, k, v) ==
  /\ arg' = [arg EXCEPT ![p] = [@ EXCEPT !.key = k, !.value = v, !.pos = Found(at[p], k)]]
  /\ pc' = [pc EXCEPT ![p] = IF Found(at[p], k) > 0 THEN "shrink" ELSE "store"]

\* Mutant: only the data needs room.
PutVar_data(p, k, v) ==
  /\ Begins(p) /\ head[at[p]].free >= Data(v)
  /\ Puts(p, k, v)
  /\ UNCHANGED <<files, at, sem, ghosts>>

\* -1 when the chunk does not fit beside the one it replaces.
PutVar(p, k, v) ==
  /\ Begins(p) /\ head[at[p]].free >= Total(v)
  /\ Puts(p, k, v)
  /\ UNCHANGED <<files, at, sem, ghosts>>

RemoveVar(p, k) ==
  /\ Begins(p) /\ Found(at[p], k) >= 0
  /\ Puts(p, k, None)
  /\ UNCHANGED <<files, at, sem, ghosts>>

Shifted(p) == mem[at[p]][arg[p].pos + 2]

\* php_remove_shm_data(): free, end, and the chunks that follow move up.
Shrink(p) ==
  /\ Running(p, "shrink") /\ Goto(p, "end")
  /\ head' = [head EXCEPT ![at[p]].free = @ + Shifted(p)]
  /\ UNCHANGED <<shmid, size, mem, at, sem, ghosts>>

SetEnd(p) ==
  /\ Running(p, "end") /\ Goto(p, "move")
  /\ head' = [head EXCEPT ![at[p]].end = @ - Shifted(p)]
  /\ UNCHANGED <<shmid, size, mem, at, sem, ghosts>>

\* Mutant: as many words are moved as the chunk has.
Move_chunk(p) ==
  LET s == at[p]
      n == Shifted(p) IN
  /\ Running(p, "move")
  /\ mem' = [mem EXCEPT ![s] =
       [w \in Words |-> IF w < arg[p].pos THEN mem[s][w]
                       ELSE IF w < arg[p].pos + n THEN mem[s][(w + n) % Largest] ELSE 0]]
  /\ vals' = [vals EXCEPT ![s][arg[p].key] = None]
  /\ IF arg[p].value = None THEN Return(p) ELSE Goto(p, "store")
  /\ UNCHANGED <<shmid, size, head, at, sem, broken>>

\* memcpy(), which copies upwards; what it leaves beyond end is taken as 0.
Move(p) ==
  LET s == at[p]
      n == Shifted(p) IN
  /\ Running(p, "move")
  /\ mem' = [mem EXCEPT ![s] =
       [w \in Words |-> IF w < arg[p].pos THEN mem[s][w]
                       ELSE IF w < head[s].end THEN mem[s][w + n] ELSE 0]]
  /\ vals' = [vals EXCEPT ![s][arg[p].key] = None]
  /\ IF arg[p].value = None THEN Return(p) ELSE Goto(p, "store")
  /\ UNCHANGED <<shmid, size, head, at, sem, broken>>

Store(p) ==
  LET s == at[p] IN
  /\ Running(p, "store") /\ Goto(p, "grow")
  /\ mem' = [mem EXCEPT ![s] = Stored(s, head[s].end, arg[p].key, arg[p].value)]
  /\ UNCHANGED <<shmid, size, head, at, sem, ghosts>>

Grow(p) ==
  /\ Running(p, "grow") /\ Goto(p, "take")
  /\ head' = [head EXCEPT ![at[p]].end = @ + Total(arg[p].value)]
  /\ vals' = [vals EXCEPT ![at[p]][arg[p].key] = arg[p].value]
  /\ UNCHANGED <<shmid, size, mem, at, sem, broken>>

Take(p) ==
  /\ Running(p, "take") /\ Return(p)
  /\ head' = [head EXCEPT ![at[p]].free = @ - Total(arg[p].value)]
  /\ UNCHANGED <<shmid, size, mem, at, sem, ghosts>>

(***************************************************************************)
(* shm_remove(); shm_detach() or the end of a request; and a process that  *)
(* is killed, or a script that the timeout ends, anywhere.  The kernel     *)
(* keeps a segment that is removed as long as it is attached, and gives    *)
(* back the semaphore.                                                     *)
(***************************************************************************)
\* The segments that are left when id is the key's, and these processes have
\* attached what they have, and those that can still be relied on.
Kept(id, where)       == {s \in Seg : s = id \/ \E p \in Proc : where[p] = s}
Destroyed(id, where, torn) ==
  /\ shmid' = id /\ at' = where /\ broken' = (broken \cup torn) \cap Kept(id, where)
  /\ size' = [s \in Seg |-> IF s \in Kept(id, where) THEN size[s] ELSE 0]
  /\ LET sound == Kept(id, where) \ broken' IN
     /\ head' = [s \in Seg |-> IF s \in sound THEN head[s] ELSE Blank]
     /\ mem'  = [s \in Seg |-> IF s \in sound THEN mem[s] ELSE Zeros]
     /\ vals' = [s \in Seg |-> IF s \in sound THEN vals[s] ELSE NoVal]

ShmRemove(p) ==
  /\ pc[p] = "idle" /\ at[p] # None /\ shmid = at[p]
  /\ Destroyed(None, at, {}) /\ UNCHANGED <<pc, arg, sem>>

Leaves(p, torn) ==
  /\ at[p] # None /\ Destroyed(shmid, [at EXCEPT ![p] = None], torn)
  /\ Return(p) /\ sem' = IF sem = p THEN None ELSE sem

Detach(p) == pc[p] = "idle" /\ sem # p /\ Leaves(p, {})

\* Killed between two assignments that belong together.
Torn == {"fields", "free", "end", "move", "take"}

Killed(p) == Leaves(p, IF pc[p] \in Torn THEN {at[p]} ELSE {})

Next ==
  \E p \in Proc :
    \/ \E n \in Sizes : Attach(p, n)
    \/ Check(p) \/ SetMagic(p) \/ SetFields(p) \/ SetFree(p)
    \/ Acquire(p) \/ Release(p)
    \/ \E k \in Key, v \in Value : PutVar(p, k, v)
    \/ \E k \in Key : RemoveVar(p, k)
    \/ Shrink(p) \/ SetEnd(p) \/ Move(p) \/ Store(p) \/ Grow(p) \/ Take(p)
    \/ ShmRemove(p) \/ Detach(p) \/ Killed(p)

Spec == Init /\ [][Next]_vars

-----------------------------------------------------------------------------
Steps == {"idle", "check", "magic", "fields", "free", "shrink", "end", "move",
          "store", "grow", "take"}

\* The variables have their types.
TypeOK ==
  /\ shmid \in Seg \cup {None} /\ size \in [Seg -> Sizes \cup {0}]
  /\ head \in [Seg -> [magic : BOOLEAN, start : {0, HeadSize}, end : 0 .. Largest,
                        free : Int, total : Sizes \cup {0}]]
  /\ mem \in [Seg -> [Words -> Nat]]
  /\ at \in [Proc -> Seg \cup {None}] /\ pc \in [Proc -> Steps] /\ sem \in Proc \cup {None}

\* The semaphore's owner is in the middle of a change of the segment.
Changing(s) ==
  \E p \in Proc : at[p] = s /\ pc[p] \in Steps \ {"idle", "check", "magic"}

Sound(s)    == size[s] > 0 /\ s \notin broken
Unchanging(s) == Sound(s) /\ ~Changing(s)

\* The chunks fill the segment from start to end, one for each key, and free
\* is what is left of it: lookups end, and what they find is whole.
Tiled ==
  \A s \in Seg : Unchanging(s) =>
    LET places == Places(s) IN
    /\ head[s].start \in places \cup {head[s].end}
    /\ \A pos \in places :
         mem[s][pos + 2] > 0 /\ pos + mem[s][pos + 2] \in places \cup {head[s].end}
    /\ \A pos, other \in places : mem[s][pos] = mem[s][other] => pos = other
    /\ head[s].free = head[s].total - head[s].end /\ head[s].end <= head[s].total

\* No chunk is stored, and none moved, beyond the segment, although a process may
\* attach it with another size than it was created with.
InSegment ==
  \A p \in Proc : Running(p, "store") =>
    head[at[p]].end + Total(arg[p].value) <= size[at[p]]

\* shm_get_var() gives what was put last and not removed, whoever put it and
\* whatever has moved since; a process that is killed in a put loses no other
\* variable than the one it was putting.
GetsLast ==
  \A s \in Seg : Unchanging(s) =>
    \A k \in Key :
      Got(s, k) = IF vals[s][k] = None THEN <<>>
                  ELSE <<Length[vals[s][k]], [i \in 1 .. Data(vals[s][k]) |-> vals[s][k]]>>

\* A process that attaches a segment that another is still initializing finds no
\* variable in it, and no room.
NotYet ==
  \A p, q \in Proc :
    pc[p] \in {"fields", "free"} /\ at[p] \notin broken /\ pc[q] \in Steps \ {"idle", "check", "magic"}
      /\ at[q] = at[p] => p = q

\* What processes find in a segment is whole, whoever has initialized it, changed it
\* or died in it: lookups end, and nothing is written beyond it.
WellFormed == TypeOK /\ Tiled /\ InSegment /\ NotYet

=============================================================================
