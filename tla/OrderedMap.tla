----------------------------- MODULE OrderedMap -----------------------------
(***************************************************************************)
(* What Zend/zend_hash.c promises its callers: a finite map from integer   *)
(* and string keys to data, kept in the order in which the keys were first *)
(* added, with a cursor (the internal pointer) and a counter for the key   *)
(* of the next append.  No buckets, chains, table sizes or callbacks.      *)
(***************************************************************************)
EXTENDS Integers, Sequences, SequencesExt

CONSTANTS
  MapKeys,   \* keys: records of a number h and a name, 0 for integer keys
  MapData,   \* data of the elements
  MapMax     \* the largest index

VARIABLES
  elems,     \* the elements in order, [key, data]
  cursor,    \* position of the internal pointer, 0 past the end
  nextIndex  \* the key of the next append

mapvars == <<elems, cursor, nextIndex>>

MapInit == elems = <<>> /\ cursor = 0 /\ nextIndex = 0

At(k) == {i \in DOMAIN elems : elems[i].key = k}

\* Adding or overwriting an integer key moves the append counter past it.
After(k) == IF k.name = 0 /\ k.h >= nextIndex THEN (k.h + 1) % (MapMax + 1)
            ELSE nextIndex

Add(k, v) ==
  /\ At(k) = {}
  /\ elems' = Append(elems, [key |-> k, data |-> v])
  /\ cursor' = IF cursor = 0 THEN Len(elems) + 1 ELSE cursor
  /\ nextIndex' = After(k)

Overwrite(k, v) ==
  /\ \E i \in At(k) : elems' = [elems EXCEPT ![i].data = v]
  /\ nextIndex' = After(k) /\ UNCHANGED cursor

\* The cursor of a removed element moves on to the next one.
RemoveKey(k) ==
  \E i \in At(k) :
    /\ elems'  = RemoveAt(elems, i)
    /\ cursor' = IF cursor = i /\ i = Len(elems) THEN 0
                 ELSE IF cursor > i THEN cursor - 1 ELSE cursor
    /\ UNCHANGED nextIndex

Clear == MapInit'

\* A sort keeps the elements and may give them the keys 0, 1, 2...
Sort ==
  /\ Len(elems) > 1 /\ cursor' = 1
  /\ \E s \in SetToSeqs(ToSet(elems)) :
       \/ elems' = s /\ UNCHANGED nextIndex
       \/ /\ elems' = [i \in DOMAIN s |-> [s[i] EXCEPT !.key = [h |-> i - 1, name |-> 0]]]
          /\ nextIndex' = Len(s)

Point ==
  /\ cursor' \in {0, 1, Len(elems), cursor - 1, cursor + 1}
  /\ cursor' \in 0..Len(elems) /\ UNCHANGED <<elems, nextIndex>>

MapNext == \/ \E k \in MapKeys, v \in MapData : Add(k, v) \/ Overwrite(k, v)
           \/ \E k \in MapKeys : RemoveKey(k)
           \/ Clear \/ Sort \/ Point

MapSpec == MapInit /\ [][MapNext]_mapvars
=============================================================================
