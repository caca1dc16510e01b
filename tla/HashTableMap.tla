---------------------------- MODULE HashTableMap ----------------------------
(***************************************************************************)
(* HashTable implements OrderedMap: the elements are those met on the      *)
(* global list, the cursor is the place of pInternalPointer on it.  An     *)
(* update takes effect when the new data is written, a deletion when the   *)
(* bucket is unlinked, zend_hash_clean() when the table is reset.          *)
(***************************************************************************)
EXTENDS HashTable

AbstractElems ==
  LET l == List(t)
  IN [i \in DOMAIN l |-> [key |-> t.mem[l[i]].key, data |-> t.mem[l[i]].data]]

AbstractCursor ==
  LET l    == List(t)
      here == {i \in DOMAIN l : l[i] = t.pInternalPointer}
  IN IF here = {} THEN 0 ELSE Min(here)

\* A sort may renumber the elements.
AllKeys == Keys \cup {Key(i, 0) : i \in 0..MaxCells - 1}

Map == INSTANCE OrderedMap
         WITH MapKeys <- AllKeys, MapData <- Values, MapMax <- MaxIndex,
              elems <- AbstractElems, cursor <- AbstractCursor,
              nextIndex <- t.nNextFreeElement

\* Every behaviour of the hash table is one of an ordered map: lookups through
\* the chains, resizing and the pointer surgery never show.
ImplementsMap == Map!MapSpec
=============================================================================
