---------------------------- MODULE MySQL_proofs ----------------------------
(***************************************************************************)
(* For any servers, values, limits and addresses: what the lists hold is   *)
(* live, no connection is closed twice, a persistent link is handed from   *)
(* request to request in order, the links are counted within their limits, *)
(* and a resource is there as long as something refers to it.              *)
(***************************************************************************)
EXTENDS MySQL, FiniteSetTheorems, TLAPS

(***************************************************************************)
(* The resource list                                                       *)
(***************************************************************************)
\* The list has lost entries, or references to them.
Shrunk(l, k) ==
  /\ k.next = l.next /\ Ids(k) \subseteq Ids(l)
  /\ \A id \in Ids(k) : k.ent[id].type = l.ent[id].type /\ k.ent[id].ptr = l.ent[id].ptr

LEMMA AddsRef ==
  ASSUME NEW l, ListOK(l), NEW id
  PROVE  ListOK(AddRef(l, id)) /\ Shrunk(l, AddRef(l, id)) /\ Ids(AddRef(l, id)) = Ids(l)
  BY DEF ListOK, AddRef, Shrunk, Ids, Entries

LEMMA DropsRef ==
  ASSUME NEW l, ListOK(l), NEW id
  PROVE  ListOK(DropRef(l, id)) /\ Shrunk(l, DropRef(l, id)) /\ Ids(DropRef(l, id)) = Ids(l)
  BY DEF ListOK, DropRef, Shrunk, Ids, Entries

LEMMA Removes ==
  ASSUME NEW l, ListOK(l), NEW id
  PROVE  /\ ListOK(Remove(l, id)) /\ Shrunk(l, Remove(l, id))
         /\ Ids(Remove(l, id)) = Ids(l) \ {id}
  BY DEF ListOK, Remove, Restrict, Shrunk, Ids, Entries

LEMMA Inserts ==
  ASSUME NEW l, ListOK(l), NEW e \in Entries
  PROVE  LET k == Insert(l, e) IN
         /\ ListOK(k) /\ k.next = l.next + 1 /\ l.next \notin Ids(l)
         /\ Ids(k) = Ids(l) \cup {l.next} /\ k.ent[l.next] = e
         /\ \A id \in Ids(l) : k.ent[id] = l.ent[id]
  BY DEF ListOK, Insert, Put, Ids

(***************************************************************************)
(* Letting go of resources                                                 *)
(***************************************************************************)
ResultOf(s, id, a) ==
  id \in Ids(s.list) /\ s.list.ent[id].type = "result" /\ s.list.ent[id].ptr = a

\* What is left in t is as it was in s; a connection is closed with its last entry, and a
\* result is gone only when nothing is left to read.
Released(s, t) ==
  /\ t.plist = s.plist /\ t.index = s.index /\ Shrunk(s.list, t.list)
  /\ \A a \in Addr : t.conn[a] # Freed =>
       /\ s.conn[a] # Freed
       /\ t.conn[a].kind = s.conn[a].kind /\ t.conn[a].details = s.conn[a].details
       /\ s.conn[a].cut => t.conn[a].cut
       /\ t.conn[a].status \in {s.conn[a].status, "ready"}
       /\ t.conn[a].status = "use" /\ ~t.conn[a].cut =>
            \A id \in Ids(s.list) : ResultOf(s, id, a) => id \in Ids(t.list)
  /\ \A a \in Addr : t.conn[a] = Freed /\ s.conn[a] # Freed =>
       s.conn[a].kind = "link" /\ \A id \in Ids(t.list) : ~LinkOf(t, id, a)

Gives(s, t) == Good(t) /\ Released(s, t)

LEMMA ReleasedGood ==
  ASSUME NEW s, NEW t, Good(s), StateOK(t), Released(s, t)
  PROVE  Gives(s, t)
<1>0. ListOK(s.list) /\ ListOK(t.list) /\ \A id \in Ids(t.list) : t.list.ent[id] \in Entries
  BY DEF Good, StateOK, ListOK
<1>1. ASSUME NEW d \in Details, t.plist[d] # Nowhere
      PROVE  LET c == t.conn[t.plist[d]] IN c # Freed /\ c.kind = "plink" /\ c.details = d
  BY <1>1 DEF Good, Sound, StateOK, Released
<1>2. ASSUME NEW id \in Ids(t.list), NEW a \in Addr, LinkOf(t, id, a)
      PROVE  /\ t.conn[a] # Freed /\ t.conn[a].kind = "link"
             /\ \A other \in Ids(t.list) : LinkOf(t, other, a) => other = id
  <2>1. \A other \in Ids(t.list) : LinkOf(t, other, a) => other \in Ids(s.list) /\ LinkOf(s, other, a)
    BY DEF Released, Shrunk, LinkOf
  <2>2. /\ s.conn[a] # Freed /\ s.conn[a].kind = "link"
        /\ \A other \in Ids(s.list) : LinkOf(s, other, a) => other = id
    BY <1>2, <2>1 DEF Good, Sound
  <2>3. t.conn[a] # Freed
    BY <1>2, <2>2 DEF Released
  <2> QED
    BY <2>1, <2>2, <2>3 DEF Released
<1>3. ASSUME NEW d \in Details
      PROVE  /\ t.index[d] < t.list.next
             /\ t.index[d] \in Ids(t.list) =>
                  /\ t.list.ent[t.index[d]].type = "link"
                  /\ t.conn[t.list.ent[t.index[d]].ptr].details = d
  <2>1. t.index[d] < t.list.next
    BY DEF Good, Sound, Released, Shrunk
  <2>2. ASSUME t.index[d] \in Ids(t.list) PROVE t.list.ent[t.index[d]].type = "link"
    BY <2>2 DEF Good, Sound, Released, Shrunk
  <2>3. ASSUME t.index[d] \in Ids(t.list)
        PROVE  t.conn[t.list.ent[t.index[d]].ptr].details = d
    <3> DEFINE a == t.list.ent[t.index[d]].ptr
    <3>1. a \in Addr /\ LinkOf(t, t.index[d], a)
      BY <1>0, <2>2, <2>3 DEF LinkOf, Entries
    <3>2. t.conn[a] # Freed
      BY <1>2, <2>3, <3>1
    <3>3. s.index[d] = t.index[d] /\ s.list.ent[s.index[d]].ptr = a /\ s.index[d] \in Ids(s.list)
      BY <2>3 DEF Released, Shrunk
    <3>4. s.conn[a].details = d
      BY <3>3 DEF Good, Sound
    <3>5. t.conn[a].details = s.conn[a].details
      BY <3>1, <3>2 DEF Released
    <3> QED
      BY <3>4, <3>5
  <2> QED
    BY <2>1, <2>2, <2>3
<1> QED
  BY <1>1, <1>2, <1>3 DEF Gives, Good, Sound

LEMMA ReleasedAgain ==
  ASSUME NEW s, NEW t, NEW u, Gives(s, t), Gives(t, u)
  PROVE  Gives(s, u)
<1>1. Shrunk(s.list, u.list)
  BY DEF Gives, Released, Shrunk
<1>2. ASSUME NEW a \in Addr, u.conn[a] # Freed
      PROVE  /\ s.conn[a] # Freed
             /\ u.conn[a].kind = s.conn[a].kind /\ u.conn[a].details = s.conn[a].details
             /\ s.conn[a].cut => u.conn[a].cut
             /\ u.conn[a].status \in {s.conn[a].status, "ready"}
  BY <1>2 DEF Gives, Released
<1>3. ASSUME NEW a \in Addr, u.conn[a] # Freed, u.conn[a].status = "use", ~u.conn[a].cut,
             NEW id \in Ids(s.list), ResultOf(s, id, a)
      PROVE  id \in Ids(u.list)
  <2>1. t.conn[a] # Freed /\ t.conn[a].status = "use" /\ ~t.conn[a].cut
    BY <1>3 DEF Gives, Released
  <2>2. id \in Ids(t.list)
    BY <1>3, <2>1 DEF Gives, Released
  <2>3. ResultOf(t, id, a)
    BY <1>3, <2>2 DEF Gives, Released, Shrunk, ResultOf
  <2> QED
    BY <1>3, <2>2, <2>3 DEF Gives, Released
<1>4. ASSUME NEW a \in Addr, u.conn[a] = Freed, s.conn[a] # Freed
      PROVE  s.conn[a].kind = "link" /\ \A id \in Ids(u.list) : ~LinkOf(u, id, a)
  BY <1>4 DEF Gives, Released, Shrunk, LinkOf
<1> QED
  BY <1>1, <1>2, <1>3, <1>4 DEF Gives, Released

\* Nothing that the invariant speaks of has changed but references to entries.
LEMMA Untouched ==
  ASSUME NEW s, NEW t, Good(s), StateOK(t), t.plist = s.plist, t.index = s.index,
         t.conn = s.conn, Shrunk(s.list, t.list), Ids(t.list) = Ids(s.list)
  PROVE  Gives(s, t)
<1>1. Released(s, t)
  <2>1. ASSUME NEW a \in Addr, t.conn[a] = Freed, s.conn[a] # Freed PROVE FALSE
    BY <2>1
  <2> QED
    BY <2>1 DEF Released
<1> QED
  BY <1>1, ReleasedGood

LEMMA ReleasedKeeps ==
  ASSUME NEW s, NEW t, Gives(s, t), NEW W
  PROVE  /\ Synced(s, W) => Synced(t, W)
         /\ Listed(s, W) => Listed(t, W)
<1>1. ASSUME Synced(s, W), NEW a \in Addr \ W,
             t.conn[a] # Freed, ~t.conn[a].cut, t.conn[a].status # "ready"
      PROVE  /\ t.conn[a].status = "use"
             /\ \E id \in Ids(t.list) : t.list.ent[id].type = "result" /\ t.list.ent[id].ptr = a
  <2>1. s.conn[a] # Freed /\ ~s.conn[a].cut /\ s.conn[a].status = t.conn[a].status
    BY <1>1 DEF Gives, Released
  <2>2. t.conn[a].status = "use" /\ \E id \in Ids(s.list) : ResultOf(s, id, a)
    BY <1>1, <2>1 DEF Synced, ResultOf
  <2>3. PICK id \in Ids(s.list) : ResultOf(s, id, a)
    BY <2>2
  <2>4. id \in Ids(t.list)
    BY <1>1, <2>2, <2>3 DEF Gives, Released
  <2> QED
    BY <2>2, <2>3, <2>4 DEF Gives, Released, Shrunk, ResultOf
<1>2. ASSUME Listed(s, W) PROVE Listed(t, W)
  BY <1>2 DEF Listed, Gives, Released
<1> QED
  BY <1>1, <1>2 DEF Synced

\* The entry is removed, and its destructor called.
LEMMA Destroys ==
  ASSUME NEW s, Good(s), NEW id \in Ids(s.list)
  PROVE  Gives(s, Destroy(s, id)) /\ Ids(Destroy(s, id).list) = Ids(s.list) \ {id}
<1> DEFINE e == s.list.ent[id]
           t == [s EXCEPT !.list = Remove(@, id), !.lost = @ \ {id}]
           u == Destroy(s, id)
<1>1. /\ ListOK(s.list) /\ e \in Entries /\ ListOK(Remove(s.list, id))
      /\ Shrunk(s.list, Remove(s.list, id)) /\ Ids(Remove(s.list, id)) = Ids(s.list) \ {id}
  BY Removes DEF Good, StateOK, ListOK
<1>2. /\ StateOK(t) /\ t.list = Remove(s.list, id) /\ t.conn = s.conn /\ t.plist = s.plist
      /\ t.index = s.index /\ t.links = s.links
  BY <1>1 DEF Good, StateOK
<1>3. CASE e.type = "plink"
  <2>1. u = t
    BY <1>3 DEF Destroy
  <2>2. Released(s, t)
    BY <1>1, <1>2, <1>3 DEF Released, ResultOf
  <2> QED
    BY <1>1, <1>2, <2>1, <2>2, ReleasedGood
<1>4. CASE e.type = "link"
  <2>1. e.ptr \in Addr /\ s.conn[e.ptr] # Freed /\ s.conn[e.ptr].kind = "link"
        /\ \A other \in Ids(s.list) : LinkOf(s, other, e.ptr) => other = id
    <3>1. e.ptr \in Addr /\ LinkOf(s, id, e.ptr)
      BY <1>1, <1>4 DEF LinkOf, Entries
    <3>2. \A a \in Addr : LinkOf(s, id, a) =>
            /\ s.conn[a] # Freed /\ s.conn[a].kind = "link"
            /\ \A other \in Ids(s.list) : LinkOf(s, other, a) => other = id
      BY DEF Good, Sound
    <3> HIDE DEF e
    <3> QED
      BY <3>1, <3>2
  <2>2. u = [t EXCEPT !.conn[e.ptr] = Freed, !.links = @ - 1]
    BY <1>2, <1>4, <2>1 DEF Destroy, CloseLink
  <2>3. /\ StateOK(u) /\ u.list = t.list /\ u.plist = t.plist /\ u.index = t.index
        /\ u.conn = [s.conn EXCEPT ![e.ptr] = Freed]
    <3>1. [s.conn EXCEPT ![e.ptr] = Freed] \in [Addr -> Conns \cup {Freed}] /\ t.links - 1 \in Int
      BY <1>2, <2>1 DEF Good, StateOK
    <3>2. u = [t EXCEPT !.conn = [s.conn EXCEPT ![e.ptr] = Freed], !.links = t.links - 1]
      BY <1>2, <2>2 DEF StateOK
    <3> HIDE DEF t
    <3>3. u.list = t.list /\ u.plist = t.plist /\ u.index = t.index
          /\ u.conn = [s.conn EXCEPT ![e.ptr] = Freed]
      BY <1>2, <3>2 DEF StateOK
    <3>4. StateOK(u)
      BY <1>2, <3>1, <3>2 DEF StateOK
    <3> QED
      BY <3>3, <3>4
  <2>4. \A other \in Ids(u.list) : ~LinkOf(u, other, e.ptr)
    BY <1>1, <1>2, <2>1, <2>3 DEF LinkOf, Shrunk
  <2>5. \A a \in Addr \ {e.ptr} : u.conn[a] = s.conn[a]
    BY <2>3
  <2>6. u.conn[e.ptr] = Freed
    BY <2>1, <2>3 DEF Good, StateOK
  <2>7. ASSUME NEW a \in Addr, NEW other \in Ids(s.list), ResultOf(s, other, a)
        PROVE  other \in Ids(u.list)
    BY <1>1, <1>2, <1>4, <2>3, <2>7 DEF ResultOf
  <2>8. Released(s, u)
    BY <1>1, <1>2, <2>1, <2>3, <2>4, <2>5, <2>6, <2>7 DEF Released
  <2> QED
    BY <1>1, <1>2, <2>3, <2>8, ReleasedGood
<1>5. CASE e.type = "result"
  <2>1. u = FreeResult(t, e)
    BY <1>5 DEF Destroy
  <2>2. ASSUME NEW a \in Addr \ {e.ptr}, NEW other \in Ids(s.list), ResultOf(s, other, a)
        PROVE  other \in Ids(t.list)
    BY <1>1, <1>2, <2>2 DEF ResultOf
  <2>3. CASE e.ptr = Nowhere
    <3>1. u = t
      BY <2>1, <2>3 DEF FreeResult
    <3>2. e.ptr \notin Addr
      BY <2>3, MySQLAssumption
    <3>3. Released(s, t)
      BY <1>1, <1>2, <2>2, <3>2 DEF Released
    <3> QED
      BY <1>1, <1>2, <3>1, <3>3, ReleasedGood
  <2>4. CASE e.ptr # Nowhere /\ s.conn[e.ptr] = Freed
    <3>1. u = Undefined(t)
      BY <1>2, <2>1, <2>4 DEF FreeResult
    <3>2. /\ StateOK(u) /\ u.list = t.list /\ u.plist = t.plist /\ u.index = t.index
          /\ u.conn = s.conn
      BY <1>2, <3>1 DEF StateOK, Undefined
    <3>3. Released(s, u)
      BY <1>1, <1>2, <2>2, <2>4, <3>2 DEF Released
    <3> QED
      BY <1>1, <1>2, <3>2, <3>3, ReleasedGood
  <2>5. CASE e.ptr # Nowhere /\ s.conn[e.ptr] # Freed /\ s.conn[e.ptr].status # "use"
    <3>1. u = t
      BY <1>2, <2>1, <2>5 DEF FreeResult
    <3>2. Released(s, t)
      BY <1>1, <1>2, <2>2, <2>5 DEF Released
    <3> QED
      BY <1>1, <1>2, <3>1, <3>2, ReleasedGood
  <2>6. CASE e.ptr # Nowhere /\ s.conn[e.ptr] # Freed /\ s.conn[e.ptr].status = "use"
    <3>1. e.ptr \in Addr /\ s.conn[e.ptr] \in Conns
      BY <1>1, <2>6 DEF Entries, Good, StateOK
    <3>2. u = MishapIf([t EXCEPT !.conn[e.ptr].status = "ready"], e.eof, "drained")
      BY <1>2, <2>1, <2>6 DEF FreeResult
    <3> DEFINE c == [s.conn[e.ptr] EXCEPT !.status = "ready"]
    <3>3. c \in Conns /\ c # Freed /\ c.status = "ready"
          /\ c.kind = s.conn[e.ptr].kind /\ c.details = s.conn[e.ptr].details
          /\ c.cut = s.conn[e.ptr].cut
      BY <3>1, MySQLAssumption DEF Conns
    <3>4. /\ u.list = t.list /\ u.plist = t.plist /\ u.index = t.index
          /\ u.conn = [s.conn EXCEPT ![e.ptr] = c]
      BY <1>2, <3>2 DEF StateOK, MishapIf, Mishap
    <3>5. StateOK(u)
      <4>1. [s.conn EXCEPT ![e.ptr] = c] \in [Addr -> Conns \cup {Freed}]
        BY <1>2, <3>1, <3>3 DEF Good, StateOK
      <4> DEFINE x == [t EXCEPT !.conn = [s.conn EXCEPT ![e.ptr] = c]]
      <4>2. StateOK(x)
        BY <1>2, <4>1 DEF StateOK
      <4>3. u = MishapIf(x, e.eof, "drained")
        BY <1>2, <3>2 DEF StateOK
      <4> HIDE DEF x
      <4> QED
        BY <4>2, <4>3 DEF StateOK, MishapIf, Mishap
    <3>6. u.conn[e.ptr] = c /\ \A a \in Addr \ {e.ptr} : u.conn[a] = s.conn[a]
      BY <3>1, <3>4 DEF Good, StateOK
    <3> HIDE DEF c, u, t
    <3>7. ASSUME NEW a \in Addr, u.conn[a] # Freed
          PROVE  /\ s.conn[a] # Freed
                 /\ u.conn[a].kind = s.conn[a].kind /\ u.conn[a].details = s.conn[a].details
                 /\ s.conn[a].cut => u.conn[a].cut
                 /\ u.conn[a].status \in {s.conn[a].status, "ready"}
                 /\ u.conn[a].status = "use" => a # e.ptr
      BY <2>6, <3>3, <3>6, <3>7
    <3>8. \A a \in Addr : u.conn[a] = Freed => s.conn[a] = Freed
      BY <3>3, <3>6
    <3>9. Released(s, u)
      BY <1>1, <1>2, <2>2, <3>4, <3>7, <3>8 DEF Released
    <3> QED
      BY <1>1, <1>2, <3>4, <3>5, <3>9, ReleasedGood DEF u
  <2> QED
    BY <2>3, <2>4, <2>5, <2>6
<1> QED
  BY <1>1, <1>3, <1>4, <1>5 DEF Entries

\* What is noted of a state changes nothing else.
LEMMA Notes ==
  ASSUME NEW s, Good(s), NEW p,
         NEW w \in {"closed", "orphan", "drained", "foreign"}
  PROVE  /\ Gives(s, MishapIf(s, p, w)) /\ MishapIf(s, p, w).list = s.list
         /\ MishapIf(s, p, w).conn = s.conn
         /\ Gives(s, Undefined(s)) /\ Undefined(s).undefined
<1> DEFINE t == MishapIf(s, p, w)
           u == Undefined(s)
<1>0. Shrunk(s.list, s.list)
  BY DEF Shrunk
<1>1. /\ StateOK(t) /\ t.list = s.list /\ t.conn = s.conn /\ t.plist = s.plist
      /\ t.index = s.index
  BY DEF Good, StateOK, MishapIf, Mishap
<1>2. /\ StateOK(u) /\ u.list = s.list /\ u.conn = s.conn /\ u.plist = s.plist
      /\ u.index = s.index /\ u.undefined
  BY DEF Good, StateOK, Undefined
<1> HIDE DEF t, u
<1>3. Gives(s, t) /\ Gives(s, u)
  BY <1>0, <1>1, <1>2, Untouched
<1> QED
  BY <1>1, <1>2, <1>3 DEF t, u

LEMMA Deletes ==
  ASSUME NEW s, Good(s), NEW id
  PROVE  Gives(s, Delete(s, id))
<1>1. CASE ~LastReference(s.list, id)
  <2> DEFINE t == [s EXCEPT !.list = DropRef(@, id)]
  <2>1. /\ ListOK(DropRef(s.list, id)) /\ Shrunk(s.list, DropRef(s.list, id))
        /\ Ids(DropRef(s.list, id)) = Ids(s.list)
    BY DropsRef DEF Good, StateOK
  <2>2. /\ StateOK(t) /\ t.list = DropRef(s.list, id) /\ t.conn = s.conn
        /\ t.plist = s.plist /\ t.index = s.index
    BY <2>1 DEF Good, StateOK
  <2>3. Gives(s, t)
    BY <2>1, <2>2, Untouched
  <2> QED
    BY <1>1, <2>3 DEF Delete
<1>2. CASE LastReference(s.list, id)
  <2> DEFINE e == s.list.ent[id]
             t == MishapIf(s, e.type = "link" /\ Results(s, e.ptr) # {}, "closed")
  <2>1. Gives(s, t) /\ t.list = s.list
    BY Notes
  <2>2. id \in Ids(t.list)
    BY <1>2, <2>1 DEF LastReference
  <2>3. Delete(s, id) = Destroy(t, id)
    BY <1>2 DEF Delete
  <2> HIDE DEF t
  <2>4. Gives(t, Destroy(t, id))
    BY <2>1, <2>2, Destroys DEF Gives
  <2> QED
    BY <2>1, <2>3, <2>4, ReleasedAgain
<1> QED
  BY <1>1, <1>2

LEMMA Returns ==
  ASSUME NEW s, Good(s), NEW v, NEW id \in Nat
  PROVE  Gives(s, Return(s, v, id))
<1> DEFINE t == [s EXCEPT !.zval[v] = id]
           u == Delete(t, s.zval[v])
           w == Given(u)
<1>1. Shrunk(s.list, s.list) /\ \A x : Shrunk(x.list, x.list)
  BY DEF Shrunk
<1>2. /\ StateOK(t) /\ t.list = s.list /\ t.conn = s.conn /\ t.plist = s.plist
      /\ t.index = s.index
  BY DEF Good, StateOK
<1> HIDE DEF t
<1>3. Gives(s, t)
  BY <1>1, <1>2, Untouched
<1>4. Gives(t, u)
  BY <1>3, Deletes DEF Gives
<1>5. StateOK(u)
  BY <1>4 DEF Gives, Good
<1> HIDE DEF u
<1>6. /\ StateOK(w) /\ w.list = u.list /\ w.conn = u.conn /\ w.plist = u.plist
      /\ w.index = u.index
  BY <1>5 DEF StateOK, Given
<1> HIDE DEF w
<1>7. Gives(u, w)
  BY <1>1, <1>4, <1>6, Untouched DEF Gives
<1>8. Gives(s, w)
  BY <1>3, <1>4, <1>7, ReleasedAgain
<1> QED
  BY <1>8 DEF Return, t, u, w

LEMMA SetsDefault ==
  ASSUME NEW s, Good(s), NEW id \in Nat
  PROVE  Gives(s, SetDefault(s, id))
<1> DEFINE t == IF s.dflt = NoId THEN s ELSE Delete(s, s.dflt)
           u == [t EXCEPT !.dflt = id, !.list = AddRef(@, id)]
<1>1. Shrunk(s.list, s.list)
  BY DEF Shrunk
<1>2. Gives(s, t)
  BY <1>1, Deletes, Untouched DEF Good
<1> HIDE DEF t
<1>3. /\ ListOK(AddRef(t.list, id)) /\ Shrunk(t.list, AddRef(t.list, id))
      /\ Ids(AddRef(t.list, id)) = Ids(t.list)
  BY <1>2, AddsRef DEF Gives, Good, StateOK
<1>4. /\ StateOK(u) /\ u.list = AddRef(t.list, id) /\ u.conn = t.conn /\ u.plist = t.plist
      /\ u.index = t.index
  BY <1>2, <1>3 DEF Gives, Good, StateOK
<1> HIDE DEF u
<1>5. Gives(t, u)
  BY <1>2, <1>3, <1>4, Untouched DEF Gives
<1> QED
  BY <1>2, <1>5, ReleasedAgain DEF SetDefault, t, u

LEMMA ReadsAll ==
  ASSUME NEW s, Good(s), NEW id \in Ids(s.list), s.list.ent[id].type = "result", ~s.list.ent[id].eof
  PROVE  Gives(s, ReadAll(s, id))
<1> DEFINE a == s.list.ent[id].ptr
           t == ReadAll(s, id)
<1>1. ListOK(s.list) /\ s.list.ent[id] \in Entries /\ a \in Addr
  BY DEF Good, StateOK, ListOK, Entries
<1>2. CASE s.conn[a] = Freed \/ s.conn[a].status # "use"
  BY <1>2, Notes DEF ReadAll
<1>3. CASE s.conn[a] # Freed /\ s.conn[a].status = "use"
  <2> DEFINE c == [s.conn[a] EXCEPT !.status = "ready"]
             l == [s.list EXCEPT !.ent[id].eof = TRUE]
             f == [s.conn EXCEPT ![a] = c]
  <2>1. c \in Conns /\ c # Freed /\ c.status = "ready" /\ c.cut = s.conn[a].cut
        /\ c.kind = s.conn[a].kind /\ c.details = s.conn[a].details
    BY <1>1, <1>3, MySQLAssumption DEF Good, StateOK, Conns
  <2>2. ListOK(l) /\ Shrunk(s.list, l) /\ Ids(l) = Ids(s.list)
    BY <1>1 DEF ListOK, Shrunk, Ids, Entries
  <2>3. t = [s EXCEPT !.conn = f, !.list = l]
    BY <1>1, <1>3 DEF ReadAll, Good, StateOK
  <2> HIDE DEF c, l
  <2>4. f \in [Addr -> Conns \cup {Freed}] /\ f[a] = c /\ \A b \in Addr \ {a} : f[b] = s.conn[b]
    BY <1>1, <2>1 DEF Good, StateOK
  <2> HIDE DEF f
  <2>5. StateOK(t) /\ t.conn = f /\ t.list = l /\ t.plist = s.plist /\ t.index = s.index
    BY <2>2, <2>3, <2>4 DEF Good, StateOK
  <2> HIDE DEF a, t
  <2>6. ASSUME NEW b \in Addr, t.conn[b] # Freed
        PROVE  /\ s.conn[b] # Freed
               /\ t.conn[b].kind = s.conn[b].kind /\ t.conn[b].details = s.conn[b].details
               /\ s.conn[b].cut => t.conn[b].cut
               /\ t.conn[b].status \in {s.conn[b].status, "ready"}
    BY <1>1, <1>3, <2>1, <2>4, <2>5, <2>6
  <2>7. \A b \in Addr : t.conn[b] = Freed => s.conn[b] = Freed
    BY <2>1, <2>4, <2>5
  <2>8. \A other \in Ids(s.list) : other \in Ids(t.list)
    BY <2>2, <2>5
  <2>9. Released(s, t)
    BY <2>2, <2>5, <2>6, <2>7, <2>8 DEF Released
  <2> QED
    BY <2>5, <2>9, ReleasedGood DEF t
<1> QED
  BY <1>2, <1>3

\* The connection's own fields, but those the invariant speaks of.
LEMMA Forgets ==
  ASSUME NEW s, Good(s), NEW a \in Addr, s.conn[a] # Freed, NEW x \in Nat
  PROVE  LET t == [s EXCEPT !.conn[a].active = x] IN
         Gives(s, t) /\ t.conn[a] # Freed /\ t.conn[a].status = s.conn[a].status
<1> DEFINE c == [s.conn[a] EXCEPT !.active = x]
           f == [s.conn EXCEPT ![a] = c]
           t == [s EXCEPT !.conn = f]
<1>0. Shrunk(s.list, s.list)
  BY DEF Shrunk
<1>1. c \in Conns /\ c # Freed /\ c.status = s.conn[a].status /\ c.cut = s.conn[a].cut
      /\ c.kind = s.conn[a].kind /\ c.details = s.conn[a].details
  BY MySQLAssumption DEF Good, StateOK, Conns
<1>2. [s EXCEPT !.conn[a].active = x] = t
  BY DEF Good, StateOK
<1> HIDE DEF c
<1>3. f \in [Addr -> Conns \cup {Freed}] /\ f[a] = c /\ \A b \in Addr \ {a} : f[b] = s.conn[b]
  BY <1>1 DEF Good, StateOK
<1> HIDE DEF f
<1>4. StateOK(t) /\ t.conn = f /\ t.list = s.list /\ t.plist = s.plist /\ t.index = s.index
  BY <1>3 DEF Good, StateOK
<1> HIDE DEF t
<1>5. ASSUME NEW b \in Addr
      PROVE  /\ t.conn[b] = Freed <=> s.conn[b] = Freed
             /\ t.conn[b] # Freed =>
                  /\ t.conn[b].kind = s.conn[b].kind /\ t.conn[b].details = s.conn[b].details
                  /\ s.conn[b].cut = t.conn[b].cut /\ t.conn[b].status = s.conn[b].status
  BY <1>1, <1>3, <1>4
<1>6. Released(s, t)
  BY <1>0, <1>4, <1>5 DEF Released
<1>7. Gives(s, t)
  BY <1>4, <1>6, ReleasedGood
<1> QED
  BY <1>1, <1>2, <1>3, <1>4, <1>7

LEMMA Finishes ==
  ASSUME NEW s, Good(s), NEW a \in Addr, s.conn[a] # Freed
  PROVE  /\ Gives(s, Finish(s, a))
         /\ ~Finish(s, a).undefined => Finish(s, a).conn[a] # Freed
<1>0. Shrunk(s.list, s.list)
  BY DEF Shrunk
<1> DEFINE id == s.conn[a].active
<1>1. CASE ~(id # NoId /\ Find(s.list, id, {"result"}) /\ ~s.list.ent[id].eof)
  BY <1>0, <1>1, Untouched DEF Finish, Good
<1>2. CASE id # NoId /\ Find(s.list, id, {"result"}) /\ ~s.list.ent[id].eof
  <2> DEFINE foreign == s.list.ent[id].ptr # a
             r == MishapIf(s, foreign /\ s.conn[a].old, "foreign")
             t == [r EXCEPT !.wrong = @ \/ (foreign /\ ~s.conn[a].old),
                            !.released = @ \cup {id}]
             w == ReadAll(t, id)
             u == Delete(w, id)
  <2>1. s.conn[a] \in Conns /\ id \in Nat /\ id \in Ids(s.list) /\ s.list.ent[id].type = "result"
    BY <1>2 DEF Good, StateOK, Conns, Find
  <2>2. Gives(s, r) /\ r.list = s.list /\ r.conn = s.conn
    BY Notes
  <2>3. Finish(s, a) = IF u.conn[a] = Freed THEN Undefined(u) ELSE [u EXCEPT !.conn[a].active = NoId]
    BY <1>2 DEF Finish
  <2> HIDE DEF r, foreign
  <2>4. /\ StateOK(t) /\ t.list = r.list /\ t.conn = r.conn /\ t.plist = r.plist
        /\ t.index = r.index
    <3>1. StateOK(r) /\ r.released \cup {id} \in SUBSET Nat
          /\ (r.wrong \/ (foreign /\ ~s.conn[a].old)) \in BOOLEAN
      BY <2>1, <2>2 DEF Gives, Good, StateOK
    <3> QED
      BY <3>1 DEF StateOK
  <2> HIDE DEF t
  <2>5. Gives(r, t)
    BY <1>0, <2>2, <2>4, Untouched DEF Gives
  <2>6. Gives(t, w)
    BY <1>2, <2>1, <2>2, <2>4, <2>5, ReadsAll DEF Gives
  <2> HIDE DEF w
  <2>7. Gives(w, u)
    BY <2>6, Deletes DEF Gives
  <2>8. Gives(s, u) /\ Good(u)
    BY <2>2, <2>5, <2>6, <2>7, ReleasedAgain DEF Gives
  <2> HIDE DEF u
  <2>9. CASE u.conn[a] = Freed
    <3>1. Finish(s, a) = Undefined(u)
      BY <2>3, <2>9
    <3>2. Gives(u, Undefined(u)) /\ Undefined(u).undefined
      BY <2>8, Notes
    <3> QED
      BY <2>8, <3>1, <3>2, ReleasedAgain
  <2>10. CASE u.conn[a] # Freed
    <3>1. Finish(s, a) = [u EXCEPT !.conn[a].active = NoId]
      BY <2>3, <2>10
    <3>2. Gives(u, Finish(s, a)) /\ Finish(s, a).conn[a] # Freed
      BY <2>8, <2>10, <3>1, Forgets DEF NoId
    <3> QED
      BY <2>8, <3>2, ReleasedAgain
  <2> QED
    BY <2>9, <2>10
<1> QED
  BY <1>1, <1>2

(***************************************************************************)
(* Connections and entries that are added and changed                      *)
(***************************************************************************)
\* A connection's fields change, but not what it is.
LEMMA Changes ==
  ASSUME NEW s, Good(s), NEW a \in Addr, s.conn[a] # Freed, NEW c \in Conns,
         c.kind = s.conn[a].kind, c.details = s.conn[a].details, s.conn[a].cut => c.cut
  PROVE  LET t == [s EXCEPT !.conn[a] = c] IN
         /\ Good(t) /\ t.list = s.list /\ t.plist = s.plist /\ t.index = s.index
         /\ t.conn[a] = c /\ c # Freed /\ \A b \in Addr \ {a} : t.conn[b] = s.conn[b]
<1> DEFINE f == [s.conn EXCEPT ![a] = c]
           t == [s EXCEPT !.conn = f]
<1>1. c # Freed /\ [s EXCEPT !.conn[a] = c] = t
  BY MySQLAssumption DEF Good, StateOK
<1>2. f \in [Addr -> Conns \cup {Freed}] /\ f[a] = c /\ \A b \in Addr \ {a} : f[b] = s.conn[b]
  BY DEF Good, StateOK
<1> HIDE DEF f
<1>3. StateOK(t) /\ t.conn = f /\ t.list = s.list /\ t.plist = s.plist /\ t.index = s.index
  BY <1>2 DEF Good, StateOK
<1> HIDE DEF t
<1>4. ASSUME NEW b \in Addr
      PROVE  /\ t.conn[b] = Freed <=> s.conn[b] = Freed
             /\ t.conn[b].kind = s.conn[b].kind /\ t.conn[b].details = s.conn[b].details
  BY <1>1, <1>2, <1>3
<1>5. ASSUME NEW d \in Details, t.plist[d] # Nowhere
      PROVE  LET x == t.conn[t.plist[d]] IN x # Freed /\ x.kind = "plink" /\ x.details = d
  <2>1. t.plist[d] \in Addr
    BY <1>3, <1>5 DEF StateOK
  <2>2. s.plist[d] # Nowhere
    BY <1>3, <1>5
  <2>3. LET x == s.conn[s.plist[d]] IN x # Freed /\ x.kind = "plink" /\ x.details = d
    BY <2>2 DEF Good, Sound
  <2> QED
    BY <1>3, <1>4, <2>1, <2>3
<1>6. ASSUME NEW d \in Details
      PROVE  /\ t.index[d] < t.list.next
             /\ t.index[d] \in Ids(t.list) =>
                  /\ t.list.ent[t.index[d]].type = "link"
                  /\ t.conn[t.list.ent[t.index[d]].ptr].details = d
  <2>1. t.index[d] < t.list.next /\ (t.index[d] \in Ids(t.list) => t.list.ent[t.index[d]].type = "link")
    BY <1>3 DEF Good, Sound
  <2>2. ASSUME t.index[d] \in Ids(t.list) PROVE t.conn[t.list.ent[t.index[d]].ptr].details = d
    <3>1. t.list.ent[t.index[d]].ptr \in Addr
      BY <1>3, <2>1, <2>2 DEF StateOK, ListOK, Entries
    <3>2. s.index[d] \in Ids(s.list) => s.conn[s.list.ent[s.index[d]].ptr].details = d
      BY DEF Good, Sound
    <3> QED
      BY <1>3, <1>4, <2>2, <3>1, <3>2
  <2> QED
    BY <2>1, <2>2
<1>7. ASSUME NEW id \in Ids(t.list), NEW b \in Addr, LinkOf(t, id, b)
      PROVE  /\ t.conn[b] # Freed /\ t.conn[b].kind = "link"
             /\ \A other \in Ids(t.list) : LinkOf(t, other, b) => other = id
  <2>1. \A other : LinkOf(t, other, b) <=> LinkOf(s, other, b)
    BY <1>3 DEF LinkOf
  <2> QED
    BY <1>3, <1>4, <1>7, <2>1 DEF Good, Sound
<1>8. Good(t)
  BY <1>3, <1>5, <1>6, <1>7 DEF Good, Sound
<1> QED
  BY <1>1, <1>2, <1>3, <1>8

\* A connection at an address that was free.
LEMMA Opens ==
  ASSUME NEW s, Good(s), NEW a \in Addr, s.conn[a] = Freed, NEW c \in Conns
  PROVE  LET t == [s EXCEPT !.conn[a] = c] IN
         /\ Good(t) /\ t.list = s.list /\ t.plist = s.plist /\ t.index = s.index
         /\ t.conn[a] = c /\ c # Freed /\ \A b \in Addr \ {a} : t.conn[b] = s.conn[b]
         /\ \A id \in Ids(t.list) : ~LinkOf(t, id, a)
<1> DEFINE f == [s.conn EXCEPT ![a] = c]
           t == [s EXCEPT !.conn = f]
<1>1. c # Freed /\ [s EXCEPT !.conn[a] = c] = t
  BY MySQLAssumption DEF Good, StateOK
<1>2. f \in [Addr -> Conns \cup {Freed}] /\ f[a] = c /\ \A b \in Addr \ {a} : f[b] = s.conn[b]
  BY DEF Good, StateOK
<1> HIDE DEF f
<1>3. StateOK(t) /\ t.conn = f /\ t.list = s.list /\ t.plist = s.plist /\ t.index = s.index
  BY <1>2 DEF Good, StateOK
<1> HIDE DEF t
<1>4. \A id, b : LinkOf(t, id, b) <=> LinkOf(s, id, b)
  BY <1>3 DEF LinkOf
<1>5. \A id \in Ids(t.list), b \in Addr : LinkOf(t, id, b) => b # a
  BY <1>3, <1>4 DEF Good, Sound
<1>6. ASSUME NEW d \in Details, t.plist[d] # Nowhere
      PROVE  LET x == t.conn[t.plist[d]] IN x # Freed /\ x.kind = "plink" /\ x.details = d
  <2>1. t.plist[d] \in Addr /\ s.conn[t.plist[d]] # Freed
    BY <1>3, <1>6 DEF StateOK, Good, Sound
  <2>2. t.conn[t.plist[d]] = s.conn[t.plist[d]]
    BY <1>2, <1>3, <2>1
  <2> QED
    BY <1>3, <1>6, <2>2 DEF Good, Sound
<1>7. ASSUME NEW d \in Details
      PROVE  /\ t.index[d] < t.list.next
             /\ t.index[d] \in Ids(t.list) =>
                  /\ t.list.ent[t.index[d]].type = "link"
                  /\ t.conn[t.list.ent[t.index[d]].ptr].details = d
  <2>1. t.index[d] < t.list.next /\ (t.index[d] \in Ids(t.list) => t.list.ent[t.index[d]].type = "link")
    BY <1>3 DEF Good, Sound
  <2>2. ASSUME t.index[d] \in Ids(t.list) PROVE t.conn[t.list.ent[t.index[d]].ptr].details = d
    <3> DEFINE b == t.list.ent[t.index[d]].ptr
    <3>1. b \in Addr /\ LinkOf(t, t.index[d], b)
      BY <1>3, <2>1, <2>2 DEF StateOK, ListOK, Entries, LinkOf
    <3>2. s.conn[b].details = d
      BY <1>3, <2>2 DEF Good, Sound
    <3> HIDE DEF b
    <3>3. t.conn[b] = s.conn[b]
      BY <1>2, <1>3, <1>5, <2>2, <3>1
    <3> QED
      BY <3>2, <3>3 DEF b
  <2> QED
    BY <2>1, <2>2
<1>8. ASSUME NEW id \in Ids(t.list), NEW b \in Addr, LinkOf(t, id, b)
      PROVE  /\ t.conn[b] # Freed /\ t.conn[b].kind = "link"
             /\ \A other \in Ids(t.list) : LinkOf(t, other, b) => other = id
  <2>1. t.conn[b] = s.conn[b]
    BY <1>2, <1>3, <1>5, <1>8
  <2> QED
    BY <1>3, <1>4, <1>8, <2>1 DEF Good, Sound
<1>9. Good(t)
  BY <1>3, <1>6, <1>7, <1>8 DEF Good, Sound
<1>10. \A id \in Ids(t.list) : ~LinkOf(t, id, a)
  BY <1>5
<1> QED
  BY <1>1, <1>2, <1>3, <1>9, <1>10

\* A handle on a persistent link, or a result.
LEMMA InsertsOther ==
  ASSUME NEW s, Good(s), NEW e \in Entries, e.type # "link"
  PROVE  LET t == [s EXCEPT !.list = Insert(@, e)] IN
         /\ Good(t) /\ t.list = Insert(s.list, e) /\ t.conn = s.conn
         /\ t.plist = s.plist /\ t.index = s.index
<1> DEFINE l == Insert(s.list, e)
           t == [s EXCEPT !.list = l]
           new == s.list.next
<1>1. /\ ListOK(s.list) /\ ListOK(l) /\ l.next = s.list.next + 1 /\ new \notin Ids(s.list)
      /\ Ids(l) = Ids(s.list) \cup {new} /\ l.ent[new] = e
      /\ \A id \in Ids(s.list) : l.ent[id] = s.list.ent[id]
  BY Inserts DEF Good, StateOK
<1> HIDE DEF l
<1>2. /\ StateOK(t) /\ t.list = l /\ t.conn = s.conn /\ t.plist = s.plist
      /\ t.index = s.index
  BY <1>1 DEF Good, StateOK
<1> HIDE DEF t
<1>3. new \in Nat
  BY <1>1 DEF ListOK
<1> HIDE DEF new
<1>4. \A id, a : LinkOf(t, id, a) <=> LinkOf(s, id, a)
  BY <1>1, <1>2 DEF LinkOf
<1>5. ASSUME NEW d \in Details
      PROVE  /\ t.index[d] < t.list.next
             /\ t.index[d] \in Ids(t.list) =>
                  /\ t.list.ent[t.index[d]].type = "link"
                  /\ t.conn[t.list.ent[t.index[d]].ptr].details = d
  <2>1. /\ s.index[d] \in Nat /\ s.index[d] < s.list.next
        /\ s.index[d] \in Ids(s.list) =>
             /\ s.list.ent[s.index[d]].type = "link"
             /\ s.conn[s.list.ent[s.index[d]].ptr].details = d
    BY DEF Good, Sound, StateOK
  <2>2. s.list.next \in Nat /\ new = s.list.next
    BY <1>1 DEF ListOK, new
  <2> QED
    BY <1>1, <1>2, <2>1, <2>2
<1>6. ASSUME NEW id \in Ids(t.list), NEW a \in Addr, LinkOf(t, id, a)
      PROVE  /\ t.conn[a] # Freed /\ t.conn[a].kind = "link"
             /\ \A other \in Ids(t.list) : LinkOf(t, other, a) => other = id
  <2>1. id \in Ids(s.list) /\ LinkOf(s, id, a)
    BY <1>4, <1>6 DEF LinkOf
  <2>2. /\ s.conn[a] # Freed /\ s.conn[a].kind = "link"
        /\ \A other \in Ids(s.list) : LinkOf(s, other, a) => other = id
    BY <2>1 DEF Good, Sound
  <2>3. \A other : LinkOf(t, other, a) => other \in Ids(s.list) /\ LinkOf(s, other, a)
    BY <1>4 DEF LinkOf
  <2> QED
    BY <1>2, <2>2, <2>3
<1>7. \A d \in Details : t.plist[d] # Nowhere =>
        LET c == t.conn[t.plist[d]] IN c # Freed /\ c.kind = "plink" /\ c.details = d
  BY <1>2 DEF Good, Sound
<1>8. Good(t)
  BY <1>2, <1>5, <1>6, <1>7 DEF Good, Sound
<1> QED
  BY <1>2, <1>8 DEF t, l

\* The result of an unbuffered query will read its rows.
LEMMA InsertsSynced ==
  ASSUME NEW s, NEW t, NEW e \in Entries, Good(s), t.conn = s.conn, t.plist = s.plist,
         t.list = Insert(s.list, e), NEW W
  PROVE  /\ Synced(s, W) => Synced(t, W)
         /\ Listed(s, W) => Listed(t, W)
         /\ e.type = "result" /\ s.conn[e.ptr].status = "use" /\ Synced(s, {e.ptr}) => Synced(t, {})
<1>1. /\ Ids(t.list) = Ids(s.list) \cup {s.list.next} /\ t.list.ent[s.list.next] = e
      /\ \A id \in Ids(s.list) : t.list.ent[id] = s.list.ent[id]
  BY Inserts DEF Good, StateOK
<1>2. ASSUME Synced(s, W) PROVE Synced(t, W)
  BY <1>1, <1>2 DEF Synced
<1>3. ASSUME e.type = "result", s.conn[e.ptr].status = "use", Synced(s, {e.ptr})
      PROVE  Synced(t, {})
  BY <1>1, <1>3 DEF Synced
<1>4. ASSUME Listed(s, W) PROVE Listed(t, W)
  BY <1>4 DEF Listed
<1> QED
  BY <1>2, <1>3, <1>4

\* A new link, which was in no list.
LEMMA InsertsLink ==
  ASSUME NEW s, Good(s), NEW d \in Details, NEW a \in Addr,
         s.conn[a] # Freed, s.conn[a].kind = "link", s.conn[a].details = d,
         \A id \in Ids(s.list) : ~LinkOf(s, id, a)
  PROVE  LET t == [s EXCEPT !.list = Insert(@, Entry("link", a, FALSE)), !.index[d] = s.list.next] IN
         /\ Good(t) /\ t.list = Insert(s.list, Entry("link", a, FALSE)) /\ t.conn = s.conn
         /\ t.plist = s.plist
<1> DEFINE e == Entry("link", a, FALSE)
           l == Insert(s.list, e)
           x == [s.index EXCEPT ![d] = s.list.next]
           t == [s EXCEPT !.list = l, !.index = x]
           new == s.list.next
<1>0. e \in Entries /\ e.type = "link" /\ e.ptr = a /\ a # Nowhere
  BY MySQLAssumption DEF Entry, Entries
<1> HIDE DEF e
<1>1. /\ ListOK(s.list) /\ ListOK(l) /\ l.next = s.list.next + 1 /\ new \notin Ids(s.list)
      /\ Ids(l) = Ids(s.list) \cup {new} /\ l.ent[new] = e
      /\ \A id \in Ids(s.list) : l.ent[id] = s.list.ent[id]
  BY <1>0, Inserts DEF Good, StateOK
<1> HIDE DEF l
<1>2. new \in Nat
  BY <1>1 DEF ListOK
<1>3. x \in [Details -> Nat] /\ x[d] = new /\ \A o \in Details \ {d} : x[o] = s.index[o]
  BY <1>2 DEF Good, StateOK
<1>4. t = [s EXCEPT !.list = Insert(@, Entry("link", a, FALSE)), !.index[d] = s.list.next]
  BY DEF Good, StateOK, l, e
<1> HIDE DEF x
<1>5. StateOK(t) /\ t.list = l /\ t.conn = s.conn /\ t.plist = s.plist /\ t.index = x
  BY <1>1, <1>3 DEF Good, StateOK
<1> HIDE DEF t
<1>6. \A id, b : LinkOf(t, id, b) <=> LinkOf(s, id, b) \/ (id = new /\ b = a)
  BY <1>0, <1>1, <1>5 DEF LinkOf
<1>7. ASSUME NEW o \in Details
      PROVE  /\ t.index[o] < t.list.next
             /\ t.index[o] \in Ids(t.list) =>
                  /\ t.list.ent[t.index[o]].type = "link"
                  /\ t.conn[t.list.ent[t.index[o]].ptr].details = o
  <2>1. CASE o = d
    BY <1>0, <1>1, <1>2, <1>3, <1>5, <2>1
  <2>2. CASE o # d
    <3>1. /\ s.index[o] \in Nat /\ s.index[o] < s.list.next
          /\ s.index[o] \in Ids(s.list) =>
               /\ s.list.ent[s.index[o]].type = "link"
               /\ s.conn[s.list.ent[s.index[o]].ptr].details = o
      BY DEF Good, Sound, StateOK
    <3> QED
      BY <1>1, <1>2, <1>3, <1>5, <2>2, <3>1
  <2> QED
    BY <2>1, <2>2
<1>8. ASSUME NEW id \in Ids(t.list), NEW b \in Addr, LinkOf(t, id, b)
      PROVE  /\ t.conn[b] # Freed /\ t.conn[b].kind = "link"
             /\ \A other \in Ids(t.list) : LinkOf(t, other, b) => other = id
  <2>1. \A i, c : LinkOf(s, i, c) => i \in Ids(s.list)
    BY DEF LinkOf
  <2>2. CASE b = a
    BY <1>5, <1>6, <1>8, <2>1, <2>2
  <2>3. CASE b # a
    <3>1. LinkOf(s, id, b) /\ id \in Ids(s.list)
      BY <1>6, <1>8, <2>1, <2>3
    <3>2. /\ s.conn[b] # Freed /\ s.conn[b].kind = "link"
          /\ \A other \in Ids(s.list) : LinkOf(s, other, b) => other = id
      BY <3>1 DEF Good, Sound
    <3> QED
      BY <1>5, <1>6, <2>1, <2>3, <3>2
  <2> QED
    BY <2>2, <2>3
<1>9. \A o \in Details : t.plist[o] # Nowhere =>
        LET c == t.conn[t.plist[o]] IN c # Freed /\ c.kind = "plink" /\ c.details = o
  BY <1>5 DEF Good, Sound
<1>10. Good(t)
  BY <1>5, <1>7, <1>8, <1>9 DEF Good, Sound
<1> QED
  BY <1>4, <1>5, <1>10 DEF l, e

LEMMA ListsPlink ==
  ASSUME NEW s, Good(s), NEW d \in Details, NEW a \in Addr,
         s.conn[a] # Freed, s.conn[a].kind = "plink", s.conn[a].details = d
  PROVE  LET t == [s EXCEPT !.plist[d] = a] IN
         /\ Good(t) /\ t.list = s.list /\ t.conn = s.conn
         /\ t.plist[d] = a /\ \A o \in Details \ {d} : t.plist[o] = s.plist[o]
<1> DEFINE p == [s.plist EXCEPT ![d] = a]
           t == [s EXCEPT !.plist = p]
<1>1. p \in [Details -> Addr \cup {Nowhere}] /\ p[d] = a
      /\ \A o \in Details \ {d} : p[o] = s.plist[o]
  BY DEF Good, StateOK
<1>2. [s EXCEPT !.plist[d] = a] = t
  BY DEF Good, StateOK
<1> HIDE DEF p
<1>3. StateOK(t) /\ t.list = s.list /\ t.conn = s.conn /\ t.plist = p /\ t.index = s.index
  BY <1>1 DEF Good, StateOK
<1> HIDE DEF t
<1>4. ASSUME NEW o \in Details, t.plist[o] # Nowhere
      PROVE  LET c == t.conn[t.plist[o]] IN c # Freed /\ c.kind = "plink" /\ c.details = o
  <2>1. CASE o = d
    BY <1>1, <1>3, <2>1
  <2>2. CASE o # d
    <3>1. t.plist[o] = s.plist[o] /\ s.plist[o] # Nowhere
      BY <1>1, <1>3, <1>4, <2>2
    <3>2. LET c == s.conn[s.plist[o]] IN c # Freed /\ c.kind = "plink" /\ c.details = o
      BY <3>1 DEF Good, Sound
    <3> QED
      BY <1>3, <3>1, <3>2
  <2> QED
    BY <2>1, <2>2
<1>5. \A id, b : LinkOf(t, id, b) <=> LinkOf(s, id, b)
  BY <1>3 DEF LinkOf
<1>6. ASSUME NEW id \in Ids(t.list), NEW b \in Addr, LinkOf(t, id, b)
      PROVE  /\ t.conn[b] # Freed /\ t.conn[b].kind = "link"
             /\ \A other \in Ids(t.list) : LinkOf(t, other, b) => other = id
  <2>1. id \in Ids(s.list) /\ LinkOf(s, id, b)
    BY <1>3, <1>5, <1>6
  <2>2. /\ s.conn[b] # Freed /\ s.conn[b].kind = "link"
        /\ \A other \in Ids(s.list) : LinkOf(s, other, b) => other = id
    BY <2>1 DEF Good, Sound
  <2> QED
    BY <1>3, <1>5, <2>2
<1>7. ASSUME NEW o \in Details
      PROVE  /\ t.index[o] < t.list.next
             /\ t.index[o] \in Ids(t.list) =>
                  /\ t.list.ent[t.index[o]].type = "link"
                  /\ t.conn[t.list.ent[t.index[o]].ptr].details = o
  <2>1. /\ s.index[o] < s.list.next
        /\ s.index[o] \in Ids(s.list) =>
             /\ s.list.ent[s.index[o]].type = "link"
             /\ s.conn[s.list.ent[s.index[o]].ptr].details = o
    BY DEF Good, Sound
  <2> QED
    BY <1>3, <2>1
<1>8. Good(t)
  BY <1>3, <1>4, <1>6, <1>7 DEF Good, Sound
<1> QED
  BY <1>1, <1>2, <1>3, <1>8

\* A persistent link is taken from its list and closed, whatever handles there are.
LEMMA FreesPlink ==
  ASSUME NEW s, Good(s), NEW d \in Details, s.plist[d] # Nowhere
  PROVE  LET a == s.plist[d]
             t == ClosePlink([s EXCEPT !.plist[d] = Nowhere], a)
         IN  /\ Good(t)
             /\ \A W : Synced(s, W) => Synced(t, W)
             /\ \A W : Listed(s, W) => Listed(t, W)
<1> DEFINE a == s.plist[d]
           p == [s.plist EXCEPT ![d] = Nowhere]
           f == [s.conn EXCEPT ![a] = Freed]
           t == [s EXCEPT !.plist = p, !.conn = f, !.links = @ - 1, !.pers = @ - 1]
<1>0. a \in Addr /\ s.conn[a] # Freed /\ s.conn[a].kind = "plink" /\ s.conn[a].details = d
  <2>1. LET c == s.conn[s.plist[d]] IN c # Freed /\ c.kind = "plink" /\ c.details = d
    BY DEF Good, Sound
  <2> QED
    BY <2>1 DEF Good, StateOK
<1>1. p \in [Details -> Addr \cup {Nowhere}] /\ p[d] = Nowhere
      /\ \A o \in Details \ {d} : p[o] = s.plist[o]
  BY DEF Good, StateOK
<1>2. f \in [Addr -> Conns \cup {Freed}] /\ f[a] = Freed
      /\ \A b \in Addr \ {a} : f[b] = s.conn[b]
  BY <1>0 DEF Good, StateOK
<1>3. ClosePlink([s EXCEPT !.plist[d] = Nowhere], a) = t
  BY <1>0 DEF Good, StateOK, ClosePlink
<1> HIDE DEF p, f
<1>4. StateOK(t) /\ t.list = s.list /\ t.conn = f /\ t.plist = p /\ t.index = s.index
  <2>1. StateOK(s) /\ s.links - 1 \in Int /\ s.pers - 1 \in Int
    BY DEF Good, StateOK
  <2>2. t = [s EXCEPT !.plist = p, !.conn = f, !.links = s.links - 1, !.pers = s.pers - 1]
    BY <2>1 DEF StateOK
  <2> HIDE DEF t
  <2>3. t.list = s.list /\ t.conn = f /\ t.plist = p /\ t.index = s.index
    BY <2>1, <2>2 DEF StateOK
  <2>4. StateOK(t)
    BY <1>1, <1>2, <2>1, <2>2 DEF StateOK
  <2> QED
    BY <2>3, <2>4
<1> HIDE DEF t
<1>5. \A id, b : LinkOf(t, id, b) <=> LinkOf(s, id, b)
  BY <1>4 DEF LinkOf
<1>6. \A id \in Ids(s.list) : ~LinkOf(s, id, a)
  <2>1. \A id \in Ids(s.list), b \in Addr : LinkOf(s, id, b) => s.conn[b].kind = "link"
    BY DEF Good, Sound
  <2> HIDE DEF a
  <2> QED
    BY <1>0, <2>1
<1>7. ASSUME NEW o \in Details, t.plist[o] # Nowhere
      PROVE  LET c == t.conn[t.plist[o]] IN c # Freed /\ c.kind = "plink" /\ c.details = o
  <2>1. o # d /\ t.plist[o] = s.plist[o]
    BY <1>1, <1>4, <1>7
  <2>2. LET c == s.conn[s.plist[o]] IN c # Freed /\ c.kind = "plink" /\ c.details = o
    BY <1>7, <2>1 DEF Good, Sound
  <2>3. s.plist[o] \in Addr \ {a}
    <3>1. s.plist[o] \in Addr
      BY <1>7, <2>1 DEF Good, StateOK
    <3> HIDE DEF a
    <3> QED
      BY <1>0, <2>1, <2>2, <3>1
  <2> HIDE DEF a
  <2> QED
    BY <1>2, <1>4, <2>1, <2>2, <2>3
<1>8. ASSUME NEW o \in Details
      PROVE  /\ t.index[o] < t.list.next
             /\ t.index[o] \in Ids(t.list) =>
                  /\ t.list.ent[t.index[o]].type = "link"
                  /\ t.conn[t.list.ent[t.index[o]].ptr].details = o
  <2>1. t.index[o] < t.list.next /\ (t.index[o] \in Ids(t.list) => t.list.ent[t.index[o]].type = "link")
    BY <1>4 DEF Good, Sound
  <2>2. ASSUME t.index[o] \in Ids(t.list) PROVE t.conn[t.list.ent[t.index[o]].ptr].details = o
    <3> DEFINE b == t.list.ent[t.index[o]].ptr
    <3>1. b \in Addr /\ LinkOf(t, t.index[o], b)
      BY <1>4, <2>1, <2>2 DEF StateOK, ListOK, Entries, LinkOf
    <3>2. s.conn[b].details = o
      BY <1>4, <2>2 DEF Good, Sound
    <3> HIDE DEF a, b
    <3>3. t.conn[b] = s.conn[b]
      BY <1>2, <1>4, <1>5, <1>6, <2>2, <3>1
    <3> QED
      BY <3>2, <3>3 DEF b
  <2> QED
    BY <2>1, <2>2
<1> HIDE DEF a
<1>9. ASSUME NEW id \in Ids(t.list), NEW b \in Addr, LinkOf(t, id, b)
      PROVE  /\ t.conn[b] # Freed /\ t.conn[b].kind = "link"
             /\ \A other \in Ids(t.list) : LinkOf(t, other, b) => other = id
  <2>1. t.conn[b] = s.conn[b]
    BY <1>2, <1>4, <1>5, <1>6, <1>9
  <2>2. id \in Ids(s.list) /\ LinkOf(s, id, b)
    BY <1>4, <1>5, <1>9
  <2>3. /\ s.conn[b] # Freed /\ s.conn[b].kind = "link"
        /\ \A other \in Ids(s.list) : LinkOf(s, other, b) => other = id
    BY <2>2 DEF Good, Sound
  <2> QED
    BY <1>4, <1>5, <2>1, <2>3
<1>10. Good(t)
  BY <1>4, <1>7, <1>8, <1>9 DEF Good, Sound
<1>11. ASSUME NEW b \in Addr, t.conn[b] # Freed PROVE b # a /\ t.conn[b] = s.conn[b]
  BY <1>2, <1>4, <1>11
<1>12. ASSUME NEW W, Synced(s, W) PROVE Synced(t, W)
  BY <1>4, <1>11, <1>12 DEF Synced
<1>13. ASSUME NEW W, Listed(s, W) PROVE Listed(t, W)
  <2>1. SUFFICES ASSUME NEW b \in Addr \ W, t.conn[b] # Freed, ~t.conn[b].cut, t.conn[b].kind = "plink"
                 PROVE  \E o \in Details : t.plist[o] = b
    BY DEF Listed
  <2>2. PICK o \in Details : s.plist[o] = b
    BY <1>11, <1>13, <2>1 DEF Listed
  <2>3. o # d
    BY <1>11, <2>1, <2>2 DEF a
  <2> QED
    BY <1>1, <1>4, <2>2, <2>3
<1> QED
  BY <1>3, <1>10, <1>12, <1>13 DEF a

\* No resource has id 0.
LEMMA ForgetsIndex ==
  ASSUME NEW s, Good(s), NEW d \in Details
  PROVE  LET t == [s EXCEPT !.index[d] = NoId] IN
         /\ Good(t) /\ t.list = s.list /\ t.conn = s.conn /\ t.plist = s.plist
<1> DEFINE x == [s.index EXCEPT ![d] = NoId]
           t == [s EXCEPT !.index = x]
<1>1. x \in [Details -> Nat] /\ x[d] = 0 /\ \A o \in Details \ {d} : x[o] = s.index[o]
  BY DEF Good, StateOK, NoId
<1>2. [s EXCEPT !.index[d] = NoId] = t
  BY DEF Good, StateOK
<1> HIDE DEF x
<1>3. StateOK(t) /\ t.list = s.list /\ t.conn = s.conn /\ t.plist = s.plist /\ t.index = x
  BY <1>1 DEF Good, StateOK
<1> HIDE DEF t
<1>4. 0 \notin Ids(s.list) /\ 0 < s.list.next
  BY DEF Good, StateOK, ListOK
<1>5. ASSUME NEW o \in Details
      PROVE  /\ t.index[o] < t.list.next
             /\ t.index[o] \in Ids(t.list) =>
                  /\ t.list.ent[t.index[o]].type = "link"
                  /\ t.conn[t.list.ent[t.index[o]].ptr].details = o
  <2>1. CASE o = d
    BY <1>1, <1>3, <1>4, <2>1
  <2>2. CASE o # d
    <3>1. t.index[o] = s.index[o]
      BY <1>1, <1>3, <2>2
    <3>2. /\ s.index[o] < s.list.next
          /\ s.index[o] \in Ids(s.list) =>
               /\ s.list.ent[s.index[o]].type = "link"
               /\ s.conn[s.list.ent[s.index[o]].ptr].details = o
      BY DEF Good, Sound
    <3> QED
      BY <1>3, <3>1, <3>2
  <2> QED
    BY <2>1, <2>2
<1>6. \A id, b : LinkOf(t, id, b) <=> LinkOf(s, id, b)
  BY <1>3 DEF LinkOf
<1>7. ASSUME NEW id \in Ids(t.list), NEW b \in Addr, LinkOf(t, id, b)
      PROVE  /\ t.conn[b] # Freed /\ t.conn[b].kind = "link"
             /\ \A other \in Ids(t.list) : LinkOf(t, other, b) => other = id
  <2>1. id \in Ids(s.list) /\ LinkOf(s, id, b)
    BY <1>3, <1>6, <1>7
  <2>2. /\ s.conn[b] # Freed /\ s.conn[b].kind = "link"
        /\ \A other \in Ids(s.list) : LinkOf(s, other, b) => other = id
    BY <2>1 DEF Good, Sound
  <2> QED
    BY <1>3, <1>6, <2>2
<1>8. \A o \in Details : t.plist[o] # Nowhere =>
        LET c == t.conn[t.plist[o]] IN c # Freed /\ c.kind = "plink" /\ c.details = o
  BY <1>3 DEF Good, Sound
<1>9. Good(t)
  BY <1>3, <1>5, <1>7, <1>8 DEF Good, Sound
<1> QED
  BY <1>2, <1>3, <1>9

\* A timeout in a destructor leaves what it destroys: a link is not found again, and a result
\* leaves its connection in the middle of a query.
LEMMA Cuts ==
  ASSUME NEW s, Good(s), NEW a \in Addr, NEW W, Synced(s, W \cup {a}), Listed(s, W \cup {a})
  PROVE  LET t == CutOff(s, a) IN
         /\ Good(t) /\ t.list = s.list /\ Synced(t, W) /\ Listed(t, W)
         /\ \A b \in Addr : t.conn[b] = Freed <=> s.conn[b] = Freed
<1>1. CASE s.conn[a] = Freed
  <2>1. CutOff(s, a) = s
    BY <1>1 DEF CutOff
  <2>2. Synced(s, W) /\ Listed(s, W)
    BY <1>1 DEF Synced, Listed
  <2> QED
    BY <2>1, <2>2
<1>2. CASE s.conn[a] # Freed
  <2> DEFINE c == [s.conn[a] EXCEPT !.cut = TRUE]
             t == [s EXCEPT !.conn[a] = c]
  <2>1. CutOff(s, a) = t
    BY <1>2 DEF CutOff, Good, StateOK
  <2>2. c \in Conns /\ c.kind = s.conn[a].kind /\ c.details = s.conn[a].details /\ c.cut
    <3>1. s.conn[a] \in Conns
      BY <1>2 DEF Good, StateOK
    <3> QED
      BY <3>1 DEF Conns
  <2> HIDE DEF c
  <2>3. /\ Good(t) /\ t.list = s.list /\ t.plist = s.plist /\ t.conn[a] = c /\ c # Freed
        /\ \A b \in Addr \ {a} : t.conn[b] = s.conn[b]
    BY <1>2, <2>2, Changes
  <2> HIDE DEF t
  <2>4. Synced(t, W)
    BY <2>2, <2>3 DEF Synced
  <2>5. Listed(t, W)
    BY <2>2, <2>3 DEF Listed
  <2>6. \A b \in Addr : t.conn[b] = Freed <=> s.conn[b] = Freed
    BY <1>2, <2>3
  <2> QED
    BY <2>1, <2>3, <2>4, <2>5, <2>6
<1> QED
  BY <1>1, <1>2

(***************************************************************************)
(* The steps of a process                                                  *)
(***************************************************************************)
\* Good, and no function is in the middle of something.
Fine(s) == Good(s) /\ Synced(s, {}) /\ Listed(s, {})

LEMMA FineAgain ==
  ASSUME NEW s, NEW t, Fine(s), Gives(s, t)
  PROVE  Fine(t)
  BY ReleasedKeeps DEF Fine, Gives

Waiting == Connecting({"query"}) \cup ConnectingAt({"query"})

LEMMA Rests ==
  ASSUME Fine(m'),
         \/ call' = Idle /\ stage' # "idle"
         \/ call' \in Waiting /\ stage' = "script"
  PROVE  IInv'
<1>1. call'.at \in {"idle", "query"}
  BY DEF Idle, Waiting, Connecting, ConnectingAt
<1>2. CallOK'
  BY <1>1 DEF CallOK, Waiting, Connecting, ConnectingAt
<1>3. Querying' = {} /\ Opening' = {}
  BY <1>1 DEF Querying, Opening
<1>4. AtRest'
  BY DEF AtRest
<1> QED
  BY <1>2, <1>3, <1>4 DEF IInv, Fine

LEMMA IsFine ==
  ASSUME IInv, call.at \notin {"rows", "used", "opened"}
  PROVE  Fine(m)
  BY DEF IInv, Fine, Querying, Opening

LEMMA IdleIsFine ==
  ASSUME IInv, call = Idle
  PROVE  Fine(m)
  BY IsFine DEF Idle

LEMMA Itself == ASSUME NEW s, Good(s) PROVE Gives(s, s)
  BY Untouched DEF Shrunk, Good

\* A reference that no value holds.
LEMMA Loses ==
  ASSUME NEW s, Good(s), NEW id \in Nat
  PROVE  Gives(s, [s EXCEPT !.lost = @ \cup {id}])
<1> DEFINE t == [s EXCEPT !.lost = @ \cup {id}]
<1>1. /\ StateOK(t) /\ t.list = s.list /\ t.conn = s.conn /\ t.plist = s.plist
      /\ t.index = s.index
  BY DEF Good, StateOK
<1> HIDE DEF t
<1>2. Gives(s, t)
  BY <1>1, Untouched DEF Shrunk
<1> QED
  BY <1>2 DEF t

LEMMA Connects ==
  ASSUME NEW s, Fine(s), NEW c \in Connecting({"connect", "open"}) \cup ConnectingAt({"registered"}),
         NEW id \in Nat, Connected(s, c, id), stage' = "script"
  PROVE  IInv'
<1>1. CASE c.query = "none"
  <2>1. Fine(m')
    BY <1>1, Returns, FineAgain DEF Connected, Fine
  <2> QED
    BY <1>1, <2>1, Rests DEF Connected
<1>2. CASE c.query # "none"
  <2>1. CASE id = NoId
    <3>1. Fine(m')
      BY <1>2, <2>1, Returns, FineAgain DEF Connected, Fine, NoId
    <3> QED
      BY <1>2, <2>1, <3>1, Rests DEF Connected
  <2>2. CASE id # NoId
    <3>1. m' = [s EXCEPT !.lost = @ \cup {id}] /\ call' = [c EXCEPT !.at = "query"]
      BY <1>2, <2>2 DEF Connected
    <3>2. Gives(s, m')
      BY <3>1, Loses DEF Fine
    <3>3. call' \in Waiting
      BY <3>1 DEF Waiting, Connecting, ConnectingAt
    <3> QED
      BY <3>2, <3>3, FineAgain, Rests
  <2> QED
    BY <2>1, <2>2
<1> QED
  BY <1>1, <1>2

LEMMA Starts ==
  ASSUME Fine(m), NEW c, c.v \in Zvals, c.query \in Queries, NEW id \in Nat,
         StartQuery(m, c, id), stage' = "script"
  PROVE  IInv'
<1>1. CASE ~Find(m.list, id, Links)
  <2>1. m' = Return(m, c.v, NoId) /\ call' = Idle
    BY <1>1 DEF StartQuery
  <2>2. Fine(m')
    BY <2>1, Returns, FineAgain DEF Fine, NoId
  <2> QED
    BY <2>1, <2>2, Rests
<1>2. CASE Find(m.list, id, Links)
  <2> DEFINE a == m.list.ent[id].ptr
             t == IF m.conn[a] = Freed THEN Undefined(m) ELSE Finish(m, a)
  <2>1. a \in Addr
    BY <1>2 DEF Find, Fine, Good, StateOK, ListOK, Entries, Links
  <2>2. Gives(m, t) /\ (~t.undefined => t.conn[a] # Freed)
    <3>1. CASE m.conn[a] = Freed
      BY <3>1, Notes DEF Fine
    <3>2. CASE m.conn[a] # Freed
      BY <2>1, <3>2, Finishes DEF Fine
    <3> QED
      BY <3>1, <3>2
  <2>3. \/ /\ ~t.undefined /\ m' = t
           /\ call' = [at |-> "sent", v |-> c.v, a |-> a, query |-> c.query]
        \/ m' = Return(t, c.v, NoId) /\ call' = Idle
    BY <1>2 DEF StartQuery
  <2> HIDE DEF t, a
  <2>4. Fine(t)
    BY <2>2, FineAgain
  <2>5. CASE /\ ~t.undefined /\ m' = t
             /\ call' = [at |-> "sent", v |-> c.v, a |-> a, query |-> c.query]
    <3>1. call' \in Working({"sent", "rows", "used"}) /\ call'.at = "sent" /\ call'.a = a
      BY <2>1, <2>5 DEF Working
    <3>2. CallOK'
      BY <2>2, <2>5, <3>1 DEF CallOK
    <3>3. Querying' = {} /\ Opening' = {}
      BY <3>1 DEF Querying, Opening
    <3>4. AtRest'
      BY DEF AtRest
    <3> QED
      BY <2>4, <2>5, <3>2, <3>3, <3>4 DEF IInv, Fine
  <2>6. CASE m' = Return(t, c.v, NoId) /\ call' = Idle
    <3>1. Fine(m')
      BY <2>4, <2>6, Returns, FineAgain DEF Fine, NoId
    <3> QED
      BY <2>6, <3>1, Rests
  <2> QED
    BY <2>3, <2>5, <2>6
<1> QED
  BY <1>1, <1>2

\* Handles on a persistent link.
LEMMA Plinks ==
  ASSUME NEW s, Fine(s), NEW v, NEW d \in Details, NEW a \in Addr
  PROVE  Fine(Plink(s, v, d, a))
<1> DEFINE e == Entry("plink", a, FALSE)
           t == [s EXCEPT !.list = Insert(@, e)]
           u == SetDefault(t, s.list.next)
<1>1. e \in Entries /\ e.type = "plink"
  BY MySQLAssumption DEF Entry, Entries
<1>2. s.list.next \in Nat
  BY DEF Fine, Good, StateOK, ListOK
<1>3. Plink(s, v, d, a) = Return(u, v, s.list.next)
  BY DEF Plink
<1> HIDE DEF e
<1>4. Good(t) /\ t.conn = s.conn /\ t.plist = s.plist /\ t.list = Insert(s.list, e)
  BY <1>1, InsertsOther DEF Fine
<1> HIDE DEF t
<1>5. Fine(t)
  BY <1>1, <1>4, InsertsSynced DEF Fine
<1>6. Fine(u)
  BY <1>2, <1>5, SetsDefault, FineAgain DEF Fine
<1> HIDE DEF u
<1> QED
  BY <1>2, <1>3, <1>6, Returns, FineAgain DEF Fine

LEMMA Initially == ASSUME TRUE PROVE Good(Start) /\ Synced(Start, {}) /\ Listed(Start, {})
<1> DEFINE s == Start
<1>1. StateOK(s) /\ Ids(s.list) = {} /\ s.list.next = 1
  <2>1. Ids(EmptyList) = {} /\ EmptyList.next = 1 /\ ListOK(EmptyList)
    <3>1. EmptyList.ent \in [{} -> Entries] /\ EmptyList.ent = <<>>
      BY DEF EmptyList
    <3>2. Ids(EmptyList) = {}
      BY <3>1 DEF Ids
    <3> QED
      BY <3>1, <3>2 DEF EmptyList, ListOK
  <2>2. s.list = EmptyList
    BY DEF Start
  <2> QED
    BY <2>1, <2>2 DEF Start, StateOK, NoId
<1>2. (\A a \in Addr : s.conn[a] = Freed) /\ \A d \in Details : s.plist[d] = Nowhere /\ s.index[d] = 0
  BY DEF Start, NoId
<1> HIDE DEF s
<1> QED
  BY <1>1, <1>2 DEF s, Good, Sound, Synced, Listed

LEMMA Starting == ASSUME m' = Start, call' = Idle, stage' = "idle" PROVE IInv'
<1>1. Ids(m'.list) = {} /\ \A a \in Addr : m'.conn[a] = Freed
  BY DEF Start, EmptyList, Ids
<1>2. AtRest' /\ CallOK' /\ Querying' = {} /\ Opening' = {}
  BY <1>1 DEF AtRest, CallOK, Idle, Querying, Opening
<1> QED
  BY <1>2, Initially DEF IInv

\* Connecting.
LEMMA Connect_step ==
  ASSUME IInv, call = Idle, stage' = "script",
         NEW v \in Zvals, NEW d \in Details, NEW q \in Queries,
         Connect([at |-> "connect", kind |-> "link", v |-> v, d |-> d, query |-> q])
  PROVE  IInv'
<1> DEFINE c == [at |-> "connect", kind |-> "link", v |-> v, d |-> d, query |-> q]
           id == m.index[d]
<1>0. c \in Connecting({"connect", "open"}) /\ id \in Nat /\ c.d = d /\ Good(m) /\ c.query = q
  BY DEF IInv, Good, StateOK, Connecting, Links
<1>a. Connect(c)
  OBVIOUS
<1> HIDE DEF c
<1>1. CASE id # NoId /\ Find(m.list, id, Links)
  <2> DEFINE s == [m EXCEPT !.list = AddRef(@, id)]
             t == SetDefault(s, id)
  <2>1. Connected(t, c, id)
    BY <1>0, <1>a, <1>1 DEF Connect
  <2>2. /\ ListOK(AddRef(m.list, id)) /\ Shrunk(m.list, AddRef(m.list, id))
        /\ Ids(AddRef(m.list, id)) = Ids(m.list)
    BY <1>0, AddsRef DEF Good, StateOK
  <2>3. /\ StateOK(s) /\ s.list = AddRef(m.list, id) /\ s.conn = m.conn /\ s.plist = m.plist
        /\ s.index = m.index
    BY <1>0, <2>2 DEF Good, StateOK
  <2> HIDE DEF s
  <2>4. Fine(s)
    BY <1>0, <2>2, <2>3, Untouched, IdleIsFine, FineAgain
  <2>5. Fine(t)
    BY <1>0, <2>4, SetsDefault, FineAgain DEF Fine
  <2> HIDE DEF t, id
  <2> QED
    BY <1>0, <2>1, <2>5, Connects
<1>2. CASE ~(id # NoId /\ Find(m.list, id, Links))
  <2> DEFINE s == [m EXCEPT !.index[d] = NoId]
  <2>1. Good(s) /\ s.list = m.list /\ s.conn = m.conn /\ s.plist = m.plist
    BY <1>0, ForgetsIndex
  <2>2. \/ Connected(s, c, NoId)
        \/ m' = s /\ call' = [c EXCEPT !.at = "open"]
    BY <1>0, <1>a, <1>2 DEF Connect
  <2> HIDE DEF s
  <2>3. Fine(s)
    BY <2>1, IdleIsFine DEF Fine, Synced, Listed
  <2>4. CASE Connected(s, c, NoId)
    BY <1>0, <2>3, <2>4, Connects DEF NoId
  <2>5. CASE m' = s /\ call' = [c EXCEPT !.at = "open"]
    <3>1. call' \in Connecting({"open", "query"}) /\ call'.at = "open" /\ call'.kind = "link"
      BY <2>5 DEF Connecting, Links, c
    <3>2. CallOK' /\ AtRest' /\ Querying' = {} /\ Opening' = {}
      BY <3>1 DEF CallOK, AtRest, Querying, Opening
    <3> QED
      BY <2>3, <2>5, <3>2 DEF IInv, Fine
  <2> QED
    BY <2>2, <2>4, <2>5
<1> QED
  BY <1>1, <1>2

LEMMA MysqlConnect_step ==
  ASSUME IInv, NEW v \in Zvals, NEW d \in Details, MysqlConnect(v, d)
  PROVE  IInv'
  BY Connect_step DEF MysqlConnect, Ready, Queries

LEMMA PconnectNew_step ==
  ASSUME IInv, NEW v \in Zvals, NEW d \in Details, PconnectNew(v, d)
  PROVE  IInv'
<1>1. call = Idle /\ stage' = "script" /\ m.plist[d] = Nowhere
  BY DEF PconnectNew, Ready
<1>2. CASE m' = Return(m, v, NoId) /\ call' = call
  BY <1>1, <1>2, IdleIsFine, Returns, FineAgain, Rests DEF Fine, NoId
<1>3. CASE /\ call' = [at |-> "open", kind |-> "plink", v |-> v, d |-> d, query |-> "none"]
           /\ m' = m
  <2>1. call' \in Connecting({"open", "query"}) /\ call'.at = "open" /\ call'.d = d
    BY <1>3 DEF Connecting, Links, Queries
  <2>2. CallOK' /\ AtRest' /\ Querying' = {} /\ Opening' = {}
    BY <1>1, <1>3, <2>1 DEF CallOK, AtRest, Querying, Opening
  <2> QED
    BY <1>1, <1>3, <2>2, IdleIsFine DEF IInv, Fine
<1> QED
  BY <1>2, <1>3 DEF PconnectNew

LEMMA PconnectOld_step ==
  ASSUME IInv, NEW v \in Zvals, NEW d \in Details, PconnectOld(v, d)
  PROVE  IInv'
<1> DEFINE a == m.plist[d]
           s == ClosePlink([m EXCEPT !.plist[d] = Nowhere], a)
           t == MishapIf(s, Handles(m, a) # {}, "orphan")
<1>1. call' = Idle /\ stage' = "script" /\ Fine(m) /\ a # Nowhere /\ a \in Addr
  BY IdleIsFine DEF PconnectOld, Ready, IInv, Good, StateOK
<1>2. m' = Plink(m, v, d, a) \/ m' = Return(t, v, NoId)
  BY DEF PconnectOld
<1>3. Fine(s)
  BY <1>1, FreesPlink DEF Fine
<1> HIDE DEF a, s
<1>4. Fine(t)
  BY <1>3, Notes, FineAgain DEF Fine
<1> HIDE DEF t
<1>5. CASE m' = Plink(m, v, d, a)
  BY <1>1, <1>5, Plinks, Rests
<1>6. CASE m' = Return(t, v, NoId)
  BY <1>1, <1>4, <1>6, Returns, FineAgain, Rests DEF Fine, NoId
<1> QED
  BY <1>2, <1>5, <1>6

\* What is in hand, by what is to be done next.
LEMMA InHand ==
  ASSUME IInv
  PROVE  /\ call.at = "open" => call \in Connecting({"connect", "open"})
         /\ call.at \in {"opened", "registered"} => call \in ConnectingAt({call.at})
         /\ call.at = "query" => call \in Waiting
         /\ call.at \in {"sent", "rows", "used"} => call \in Working({call.at})
         /\ call.at # "idle" => stage = "script"
<1>1. call \in {Idle} \cup Connecting({"open", "query"})
             \cup ConnectingAt({"opened", "registered", "query"})
             \cup Working({"sent", "rows", "used"})
  BY DEF IInv, CallOK
<1>2. call.at # "idle" => stage = "script"
  BY DEF IInv, CallOK, Idle
<1> QED
  BY <1>1, <1>2 DEF Idle, Connecting, ConnectingAt, Waiting, Working

LEMMA Open_step == ASSUME IInv, Open PROVE IInv'
<1>1. call.at = "open" /\ stage' = "script" /\ Fine(m)
  BY InHand, IsFine DEF Open
<1>2. call \in Connecting({"connect", "open"})
  BY <1>1, InHand
<1>3. CASE Connected(m, call, NoId)
  BY <1>1, <1>2, <1>3, Connects DEF NoId
<1>4. ASSUME NEW a \in Addr, m.conn[a] = Freed,
             m' = [m EXCEPT !.conn[a] = Connection(call.kind, call.d)],
             call' = [at |-> "opened", kind |-> call.kind, v |-> call.v, d |-> call.d,
                      query |-> call.query, a |-> a]
      PROVE  IInv'
  <2> DEFINE c == Connection(call.kind, call.d)
  <2>1. c \in Conns /\ c.kind = call.kind /\ c.details = call.d /\ c.status = "ready"
    BY <1>2 DEF Connection, Conns, Connecting, NoId
  <2>2. m' = [m EXCEPT !.conn[a] = c]
    BY <1>4
  <2> HIDE DEF c
  <2>3. /\ Good(m') /\ m'.list = m.list /\ m'.plist = m.plist /\ m'.conn[a] = c /\ c # Freed
        /\ \A b \in Addr \ {a} : m'.conn[b] = m.conn[b]
        /\ \A id \in Ids(m'.list) : ~LinkOf(m', id, a)
    <3>1. Good(m) /\ m.conn[a] = Freed
      BY <1>1, <1>4 DEF Fine
    <3>2. LET t == [m EXCEPT !.conn[a] = c] IN
          /\ Good(t) /\ t.list = m.list /\ t.plist = m.plist /\ t.index = m.index
          /\ t.conn[a] = c /\ c # Freed /\ \A b \in Addr \ {a} : t.conn[b] = m.conn[b]
          /\ \A id \in Ids(t.list) : ~LinkOf(t, id, a)
      BY <2>1, <3>1, Opens
    <3> QED
      BY <2>2, <3>2
  <2>4. Synced(m', {}) /\ Listed(m', {a})
    BY <1>1, <2>1, <2>3 DEF Fine, Synced, Listed
  <2>5. /\ call' \in ConnectingAt({"opened", "registered", "query"}) /\ call'.at = "opened"
        /\ call'.kind = call.kind /\ call'.d = call.d /\ call'.a = a
    BY <1>2, <1>4 DEF Connecting, ConnectingAt
  <2>6. call.kind = "plink" => m.plist[call.d] = Nowhere
    BY <1>1 DEF IInv, CallOK
  <2>7. CallOK'
    BY <1>1, <2>1, <2>3, <2>5, <2>6 DEF CallOK
  <2>8. AtRest' /\ Querying' = {} /\ Opening' = {a}
    BY <1>1, <2>5 DEF AtRest, Querying, Opening
  <2> QED
    BY <2>3, <2>4, <2>7, <2>8 DEF IInv
<1> QED
  BY <1>3, <1>4 DEF Open

LEMMA Register_step == ASSUME IInv, Register PROVE IInv'
<1> DEFINE a == call.a
           d == call.d
<1>1. call.at = "opened" /\ stage' = "script" /\ call' = [call EXCEPT !.at = "registered"]
  BY InHand DEF Register
<1>2. call \in ConnectingAt({"opened"}) /\ d \in Details /\ a \in Addr
  BY <1>1, InHand DEF ConnectingAt
<1>3. /\ m.conn[a] # Freed /\ m.conn[a].kind = call.kind /\ m.conn[a].details = d
      /\ call.kind = "plink" => m.plist[d] = Nowhere
      /\ \A id \in Ids(m.list) : ~LinkOf(m, id, a)
  BY <1>1 DEF IInv, CallOK
<1>4. Good(m) /\ Synced(m, {}) /\ Listed(m, {a})
  BY <1>1 DEF IInv, Querying, Opening
<1>5. call' \in ConnectingAt({"opened", "registered", "query"}) /\ call'.at = "registered" /\ call'.a = a
  BY <1>1, <1>2 DEF ConnectingAt
<1> HIDE DEF a, d
<1>6. m'.conn = m.conn /\ Fine(m')
  <2>1. CASE call.kind = "link"
    <3> DEFINE e == Entry("link", a, FALSE)
    <3>1. m' = [m EXCEPT !.list = Insert(@, Entry("link", a, FALSE)), !.index[d] = m.list.next]
      BY <2>1 DEF Register, a, d
    <3>2. /\ Good(m') /\ m'.list = Insert(m.list, e) /\ m'.conn = m.conn /\ m'.plist = m.plist
      <4>1. LET t == [m EXCEPT !.list = Insert(@, Entry("link", a, FALSE)), !.index[d] = m.list.next]
            IN  /\ Good(t) /\ t.list = Insert(m.list, Entry("link", a, FALSE)) /\ t.conn = m.conn
                /\ t.plist = m.plist
        <5>1. /\ Good(m) /\ d \in Details /\ a \in Addr
              /\ m.conn[a] # Freed /\ m.conn[a].kind = "link" /\ m.conn[a].details = d
          BY <1>2, <1>3, <1>4, <2>1
        <5>2. \A id \in Ids(m.list) : ~LinkOf(m, id, a)
          BY <1>3
        <5> QED
          BY <5>1, <5>2, InsertsLink
      <4> QED
        BY <3>1, <4>1
    <3>3. e \in Entries
      BY <1>2, MySQLAssumption DEF Entry, Entries
    <3> HIDE DEF e
    <3>4. Synced(m', {}) /\ Listed(m', {a})
      BY <1>4, <3>2, <3>3, InsertsSynced
    <3>5. Listed(m', {})
      BY <1>3, <2>1, <3>2, <3>4 DEF Listed
    <3> QED
      BY <3>2, <3>4, <3>5 DEF Fine
  <2>2. CASE call.kind = "plink"
    <3>1. m' = [m EXCEPT !.plist[d] = a]
      BY <2>2 DEF Register, a, d
    <3>2. /\ Good(m') /\ m'.list = m.list /\ m'.conn = m.conn
          /\ m'.plist[d] = a /\ \A o \in Details \ {d} : m'.plist[o] = m.plist[o]
      BY <1>2, <1>3, <1>4, <2>2, <3>1, ListsPlink
    <3>3. Synced(m', {})
      BY <1>4, <3>2 DEF Synced
    <3>4. ASSUME NEW b \in Addr, m'.conn[b] # Freed, ~m'.conn[b].cut, m'.conn[b].kind = "plink"
          PROVE  \E o \in Details : m'.plist[o] = b
      <4>1. CASE b = a
        BY <1>2, <3>2, <4>1
      <4>2. CASE b # a
        <5>1. PICK o \in Details : m.plist[o] = b
          BY <1>4, <3>2, <3>4, <4>2 DEF Listed
        <5>2. b # Nowhere /\ m.plist[d] = Nowhere
          BY <1>3, <2>2, MySQLAssumption
        <5> QED
          BY <3>2, <5>1, <5>2
      <4> QED
        BY <4>1, <4>2
    <3> QED
      BY <3>2, <3>3, <3>4 DEF Fine, Listed
  <2> QED
    BY <1>2, <2>1, <2>2 DEF ConnectingAt, Links
<1>7. CallOK'
  BY <1>1, <1>3, <1>5, <1>6 DEF CallOK
<1>8. AtRest' /\ Querying' = {} /\ Opening' = {}
  BY <1>1, <1>5 DEF AtRest, Querying, Opening
<1> QED
  BY <1>6, <1>7, <1>8 DEF IInv, Fine

\* The counts are of no concern here.
LEMMA Counts ==
  ASSUME NEW s, Fine(s), NEW i \in Int, NEW j \in Int
  PROVE  Fine([s EXCEPT !.links = i]) /\ Fine([s EXCEPT !.links = i, !.pers = j])
<1> DEFINE t == [s EXCEPT !.links = i]
           u == [s EXCEPT !.links = i, !.pers = j]
<1>1. /\ StateOK(t) /\ t.list = s.list /\ t.conn = s.conn /\ t.plist = s.plist
      /\ t.index = s.index
  BY DEF Fine, Good, StateOK
<1>2. /\ StateOK(u) /\ u.list = s.list /\ u.conn = s.conn /\ u.plist = s.plist
      /\ u.index = s.index
  BY DEF Fine, Good, StateOK
<1> HIDE DEF t, u
<1>3. Gives(s, t) /\ Gives(s, u)
  BY <1>1, <1>2, Untouched DEF Fine, Shrunk
<1>4. Fine(t) /\ Fine(u)
  BY <1>3, FineAgain
<1> QED
  BY <1>4 DEF t, u

LEMMA Count_step == ASSUME IInv, Count PROVE IInv'
<1>1. call.at = "registered" /\ stage' = "script" /\ Fine(m)
  BY InHand, IsFine DEF Count
<1>2. call \in ConnectingAt({"registered"}) /\ call.d \in Details /\ call.a \in Addr
  BY <1>1, InHand DEF ConnectingAt
<1>3. m.links + 1 \in Int /\ m.pers + 1 \in Int /\ m.index[call.d] \in Nat
  BY <1>1, <1>2 DEF Fine, Good, StateOK
<1>4. CASE call.kind = "link"
  <2> DEFINE id == m.index[call.d]
             s == [m EXCEPT !.links = m.links + 1]
  <2>1. Connected(SetDefault(s, id), call, id)
    BY <1>4 DEF Count
  <2>2. Fine(s)
    BY <1>1, <1>3, Counts
  <2> HIDE DEF s
  <2>3. Fine(SetDefault(s, id))
    BY <1>3, <2>2, SetsDefault, FineAgain DEF Fine
  <2> QED
    BY <1>1, <1>2, <1>3, <2>1, <2>3, Connects
<1>5. CASE call.kind # "link"
  <2> DEFINE s == [m EXCEPT !.links = m.links + 1, !.pers = m.pers + 1]
  <2>1. m' = Plink(s, call.v, call.d, call.a) /\ call' = Idle
    BY <1>5 DEF Count
  <2>2. Fine(s)
    BY <1>1, <1>3, Counts
  <2> HIDE DEF s
  <2>3. Fine(m')
    BY <1>2, <2>1, <2>2, Plinks
  <2> QED
    BY <1>1, <2>1, <2>3, Rests
<1> QED
  BY <1>4, <1>5

\* Queries.
LEMMA MysqlQuery_step ==
  ASSUME IInv, NEW v \in Zvals, NEW w \in Zvals, NEW q \in {"store", "use"}, MysqlQuery(v, w, q)
  PROVE  IInv'
<1> DEFINE c == [v |-> v, query |-> q]
<1>1. call = Idle /\ stage' = "script" /\ StartQuery(m, c, m.zval[w])
  BY DEF MysqlQuery, Ready
<1>2. Fine(m) /\ m.zval[w] \in Nat
  BY <1>1, IdleIsFine DEF Fine, Good, StateOK
<1>3. c.v \in Zvals /\ c.query \in Queries
  BY DEF Queries
<1> HIDE DEF c
<1> QED
  BY <1>1, <1>2, <1>3, Starts

LEMMA QueryDefault_step ==
  ASSUME IInv, NEW v \in Zvals, NEW q \in {"store", "use"}, QueryDefault(v, q)
  PROVE  IInv'
<1> DEFINE c == [v |-> v, query |-> q]
<1>1. call = Idle /\ stage' = "script" /\ Fine(m) /\ m.dflt \in Nat /\ Preset \in Details
  BY IdleIsFine, MySQLAssumption DEF QueryDefault, Ready, IInv, Good, StateOK
<1>2. c.v \in Zvals /\ c.query \in Queries
  BY DEF Queries
<1>3. CASE m.dflt # NoId
  <2>1. StartQuery(m, c, m.dflt)
    BY <1>3 DEF QueryDefault
  <2> HIDE DEF c
  <2> QED
    BY <1>1, <1>2, <2>1, Starts
<1>4. CASE m.dflt = NoId
  <2>1. Connect([at |-> "connect", kind |-> "link", v |-> v, d |-> Preset, query |-> q])
    BY <1>4 DEF QueryDefault
  <2>2. q \in Queries
    BY DEF Queries
  <2> QED
    BY <1>1, <2>1, <2>2, Connect_step
<1> QED
  BY <1>3, <1>4

LEMMA QueryImplicit_step == ASSUME IInv, QueryImplicit PROVE IInv'
<1>1. call.at = "query" /\ stage' = "script" /\ Fine(m) /\ StartQuery(m, call, m.dflt)
  BY InHand, IsFine DEF QueryImplicit
<1>2. call.v \in Zvals /\ call.query \in Queries
  BY <1>1, InHand DEF Waiting, Connecting, ConnectingAt
<1>3. m.dflt \in Nat
  BY <1>1 DEF Fine, Good, StateOK
<1> QED
  BY <1>1, <1>2, <1>3, Starts

LEMMA SetsStatus ==
  ASSUME NEW s, Good(s), NEW a \in Addr, s.conn[a] # Freed, NEW x \in {"ready", "get", "use"},
         Synced(s, {a}), Listed(s, {})
  PROVE  LET t == [s EXCEPT !.conn[a].status = x] IN
         /\ Good(t) /\ t.conn[a] # Freed /\ t.conn[a].status = x
         /\ t.list = s.list /\ t.plist = s.plist
         /\ Synced(t, {a}) /\ Listed(t, {}) /\ (x = "ready" => Synced(t, {}))
<1> DEFINE c == [s.conn[a] EXCEPT !.status = x]
           t == [s EXCEPT !.conn[a] = c]
<1>1. s.conn[a] \in Conns
  BY DEF Good, StateOK
<1>2. /\ c \in Conns /\ c.kind = s.conn[a].kind /\ c.details = s.conn[a].details
      /\ c.cut = s.conn[a].cut /\ c.status = x
  BY <1>1 DEF Conns
<1>3. [s EXCEPT !.conn[a].status = x] = t
  BY DEF Good, StateOK
<1> HIDE DEF c
<1>4. /\ Good(t) /\ t.list = s.list /\ t.plist = s.plist /\ t.conn[a] = c /\ c # Freed
      /\ \A b \in Addr \ {a} : t.conn[b] = s.conn[b]
  BY <1>2, Changes
<1> HIDE DEF t
<1>5. Synced(t, {a}) /\ (x = "ready" => Synced(t, {}))
  BY <1>2, <1>4 DEF Synced
<1>6. Listed(t, {})
  BY <1>2, <1>4 DEF Listed
<1> QED
  BY <1>2, <1>3, <1>4, <1>5, <1>6

LEMMA Answer_step == ASSUME IInv, Answer PROVE IInv'
<1> DEFINE a == call.a
<1>1. call.at = "sent" /\ stage' = "script" /\ Fine(m)
  BY InHand, IsFine DEF Answer
<1>2. call \in Working({"sent"}) /\ a \in Addr /\ m.conn[a] # Freed
  BY <1>1, InHand DEF IInv, CallOK, Working
<1>3. CASE m' = Return(m, call.v, NoId) /\ call' = Idle
  BY <1>1, <1>3, Returns, FineAgain, Rests DEF Fine, NoId
<1>4. CASE m' = [m EXCEPT !.conn[a].status = "get"] /\ call' = [call EXCEPT !.at = "rows"]
  <2>1. call' \in Working({"sent", "rows", "used"}) /\ call'.at = "rows" /\ call'.a = a
    BY <1>2, <1>4 DEF Working
  <2> HIDE DEF a
  <2>2. Synced(m, {a}) /\ Listed(m, {}) /\ Good(m)
    BY <1>1 DEF Fine, Synced
  <2>3. /\ Good(m') /\ m'.conn[a] # Freed /\ Synced(m', {a}) /\ Listed(m', {})
    BY <1>2, <1>4, <2>2, SetsStatus
  <2>4. CallOK'
    BY <1>1, <2>1, <2>3 DEF CallOK
  <2>5. AtRest' /\ Querying' = {a} /\ Opening' = {}
    BY <1>1, <2>1 DEF AtRest, Querying, Opening
  <2> QED
    BY <2>3, <2>4, <2>5 DEF IInv
<1> QED
  BY <1>3, <1>4 DEF Answer

\* With its connection as it is, or with its rows to be read.
LEMMA NewResults ==
  ASSUME NEW s, Good(s), Listed(s, {}), NEW v, NEW a \in Addr \cup {Nowhere}, NEW eof \in BOOLEAN,
         \/ a = Nowhere /\ eof /\ Synced(s, {})
         \/ a # Nowhere /\ s.conn[a].status = "use" /\ Synced(s, {a})
  PROVE  Fine(NewResult(s, v, a, eof))
<1> DEFINE e == Entry("result", a, eof)
           t == [s EXCEPT !.list = Insert(@, e)]
<1>1. e \in Entries /\ e.type = "result" /\ e.ptr = a
  BY DEF Entry, Entries
<1>2. s.list.next \in Nat /\ NewResult(s, v, a, eof) = Return(t, v, s.list.next)
  BY DEF NewResult, Good, StateOK, ListOK
<1> HIDE DEF e
<1>3. Good(t) /\ t.conn = s.conn /\ t.plist = s.plist /\ t.list = Insert(s.list, e)
  BY <1>1, InsertsOther
<1> HIDE DEF t
<1>4. Synced(t, {}) /\ Listed(t, {})
  BY <1>1, <1>3, InsertsSynced
<1> QED
  BY <1>2, <1>3, <1>4, Returns, FineAgain DEF Fine

LEMMA Store_step == ASSUME IInv, Store PROVE IInv'
<1> DEFINE a == call.a
           s == [m EXCEPT !.conn[a].status = "ready"]
<1>1. /\ call.at = "rows" /\ stage' = "script" /\ call' = Idle
      /\ \/ m' = NewResult(s, call.v, Nowhere, TRUE)
         \/ m' = Return(s, call.v, NoId)
  BY InHand DEF Store
<1>2. a \in Addr /\ m.conn[a] # Freed
  BY <1>1, InHand DEF IInv, CallOK, Working
<1>3. Good(m) /\ Synced(m, {a}) /\ Listed(m, {})
  BY <1>1 DEF IInv, Querying, Opening
<1>4. Fine(s)
  BY <1>2, <1>3, SetsStatus DEF Fine
<1> HIDE DEF s
<1>5. Fine(m')
  <2>1. CASE m' = NewResult(s, call.v, Nowhere, TRUE)
    BY <1>4, <2>1, NewResults DEF Fine
  <2>2. CASE m' = Return(s, call.v, NoId)
    BY <1>4, <2>2, Returns, FineAgain DEF Fine, NoId
  <2> QED
    BY <1>1, <2>1, <2>2
<1> QED
  BY <1>1, <1>5, Rests

LEMMA Use_step == ASSUME IInv, Use PROVE IInv'
<1> DEFINE a == call.a
<1>1. call.at = "rows" /\ stage' = "script" /\ call' = [call EXCEPT !.at = "used"]
      /\ m' = [m EXCEPT !.conn[a].status = "use"]
  BY InHand DEF Use
<1>2. call \in Working({"rows"}) /\ a \in Addr /\ m.conn[a] # Freed
  BY <1>1, InHand DEF IInv, CallOK, Working
<1>3. Good(m) /\ Synced(m, {a}) /\ Listed(m, {})
  BY <1>1 DEF IInv, Querying, Opening
<1>4. call' \in Working({"sent", "rows", "used"}) /\ call'.at = "used" /\ call'.a = a
  BY <1>1, <1>2 DEF Working
<1> HIDE DEF a
<1>5. /\ Good(m') /\ m'.conn[a] # Freed /\ m'.conn[a].status = "use"
      /\ Synced(m', {a}) /\ Listed(m', {})
  BY <1>1, <1>2, <1>3, SetsStatus
<1>6. CallOK'
  BY <1>1, <1>4, <1>5 DEF CallOK
<1>7. AtRest' /\ Querying' = {a} /\ Opening' = {}
  BY <1>1, <1>4 DEF AtRest, Querying, Opening
<1> QED
  BY <1>5, <1>6, <1>7 DEF IInv

LEMMA Used_step == ASSUME IInv, Used PROVE IInv'
<1> DEFINE a == call.a
           c == [m.conn[a] EXCEPT !.active = m.list.next, !.old = FALSE]
           s == [m EXCEPT !.conn[a] = c]
<1>1. call.at = "used" /\ stage' = "script" /\ call' = Idle
  BY InHand DEF Used
<1>2. a \in Addr /\ a # Nowhere /\ m.conn[a] # Freed /\ m.conn[a].status = "use"
  BY <1>1, InHand, MySQLAssumption DEF IInv, CallOK, Working
<1>3. Good(m) /\ Synced(m, {a}) /\ Listed(m, {})
  BY <1>1 DEF IInv, Querying, Opening
<1>4. m.conn[a] \in Conns /\ m.list.next \in Nat
  BY <1>2, <1>3 DEF Good, StateOK, ListOK
<1>5. /\ c \in Conns /\ c.kind = m.conn[a].kind /\ c.details = m.conn[a].details
      /\ c.cut = m.conn[a].cut /\ c.status = "use"
  BY <1>2, <1>4 DEF Conns
<1>6. m' = NewResult(s, call.v, a, FALSE)
  BY <1>2, <1>3, <1>4 DEF Used, Good, StateOK
<1> HIDE DEF c
<1>7. /\ Good(s) /\ s.list = m.list /\ s.plist = m.plist /\ s.conn[a] = c /\ c # Freed
      /\ \A b \in Addr \ {a} : s.conn[b] = m.conn[b]
  BY <1>2, <1>3, <1>5, Changes
<1> HIDE DEF s
<1>8. Synced(s, {a}) /\ Listed(s, {})
  BY <1>2, <1>3, <1>5, <1>7 DEF Synced, Listed
<1>9. Fine(m')
  BY <1>2, <1>5, <1>6, <1>7, <1>8, NewResults
<1> QED
  BY <1>1, <1>9, Rests

\* Ids that a function gives up while values hold them.
LEMMA Releases ==
  ASSUME NEW s, Fine(s), NEW id \in Nat
  PROVE  Fine([s EXCEPT !.released = @ \cup {id}]) /\ Fine([s EXCEPT !.dflt = id])
<1> DEFINE t == [s EXCEPT !.released = @ \cup {id}]
           u == [s EXCEPT !.dflt = id]
<1>1. /\ StateOK(t) /\ t.list = s.list /\ t.conn = s.conn /\ t.plist = s.plist
      /\ t.index = s.index
  BY DEF Fine, Good, StateOK
<1>2. /\ StateOK(u) /\ u.list = s.list /\ u.conn = s.conn /\ u.plist = s.plist
      /\ u.index = s.index
  BY DEF Fine, Good, StateOK
<1> HIDE DEF t, u
<1>3. Gives(s, t) /\ Gives(s, u)
  BY <1>1, <1>2, Untouched DEF Fine, Shrunk
<1>4. Fine(t) /\ Fine(u)
  BY <1>3, FineAgain
<1> QED
  BY <1>4 DEF t, u

LEMMA DeletesFine == ASSUME NEW s, Fine(s), NEW id PROVE Fine(Delete(s, id))
  BY Deletes, FineAgain DEF Fine

LEMMA ReturnsFine == ASSUME NEW s, Fine(s), NEW v, NEW id \in Nat PROVE Fine(Return(s, v, id))
  BY Returns, FineAgain DEF Fine

LEMMA Values_step ==
  ASSUME IInv, NEW v \in Zvals,
         FetchLast(v) \/ MysqlFreeResult(v) \/ MysqlClose(v) \/ Unset(v) \/ DestroyVar(v)
  PROVE  IInv'
<1> DEFINE id == m.zval[v]
           s == [m EXCEPT !.released = @ \cup {id}]
<1>1. call = Idle /\ call' = Idle /\ stage' # "idle" /\ Fine(m)
  <2>1. call = Idle /\ call' = call /\ stage' = stage /\ stage \in {"script", "vars"}
    BY DEF FetchLast, MysqlFreeResult, MysqlClose, Unset, DestroyVar, Ready, IInv, CallOK
  <2> QED
    BY <2>1, IdleIsFine
<1>2. id \in Nat /\ m.dflt \in Nat
  BY <1>1 DEF Fine, Good, StateOK
<1>3. Fine(s)
  BY <1>1, <1>2, Releases
<1> HIDE DEF s, id
<1>4. Fine(m')
  <2>1. CASE FetchLast(v)
    <3>1. m' = ReadAll(m, id) /\ id \in Ids(m.list) /\ m.list.ent[id].type = "result"
          /\ ~m.list.ent[id].eof
      BY <2>1 DEF FetchLast, Find, id
    <3> QED
      BY <1>1, <3>1, ReadsAll, FineAgain DEF Fine
  <2>2. CASE MysqlFreeResult(v)
    <3>1. m' = Delete(s, id)
      BY <2>2 DEF MysqlFreeResult, s, id
    <3> QED
      BY <1>3, <3>1, DeletesFine
  <2>3. CASE MysqlClose(v)
    <3> DEFINE t == Delete(s, id)
               u == Delete(t, id)
    <3>1. m' = t \/ m' = [u EXCEPT !.dflt = NoId]
      BY <2>3 DEF MysqlClose, s, id
    <3>2. Fine(t) /\ Fine(u)
      BY <1>3, DeletesFine
    <3> HIDE DEF t, u
    <3>3. Fine([u EXCEPT !.dflt = NoId])
      BY <3>2, Releases DEF NoId
    <3> QED
      BY <3>1, <3>2, <3>3
  <2>4. CASE Unset(v) \/ DestroyVar(v)
    <3>1. m' = Return(m, v, NoId)
      BY <2>4 DEF Unset, DestroyVar
    <3> QED
      BY <1>1, <3>1, ReturnsFine DEF NoId
  <2> QED
    BY <2>1, <2>2, <2>3, <2>4
<1> QED
  BY <1>1, <1>4, Rests

LEMMA CloseDefault_step == ASSUME IInv, CloseDefault PROVE IInv'
<1> DEFINE t == Delete(m, m.dflt)
<1>1. call = Idle /\ call' = Idle /\ stage' # "idle" /\ m' = [t EXCEPT !.dflt = NoId]
  BY DEF CloseDefault, Ready
<1>2. Fine(t)
  BY <1>1, IdleIsFine, DeletesFine
<1> HIDE DEF t
<1>3. Fine(m')
  BY <1>1, <1>2, Releases DEF NoId
<1> QED
  BY <1>1, <1>3, Rests

\* Requests.
LEMMA Miscounts ==
  ASSUME NEW s, Fine(s), NEW what \in {"links", "persistent"}
  PROVE  Fine(Miscount(s, what))
<1> DEFINE t == Miscount(s, what)
<1>1. /\ StateOK(t) /\ t.list = s.list /\ t.conn = s.conn /\ t.plist = s.plist
      /\ t.index = s.index
  BY DEF Fine, Good, StateOK, Miscount
<1> HIDE DEF t
<1>2. Gives(s, t)
  BY <1>1, Untouched DEF Fine, Shrunk
<1> QED
  BY <1>2, FineAgain DEF t

LEMMA Timeout_step == ASSUME IInv, Timeout PROVE IInv'
<1>1. call # Idle /\ call' = Idle /\ stage = "script" /\ stage' # "idle"
  BY DEF Timeout
<1>2. CASE call.at = "registered"
  <2>1. Fine(m) /\ call \in ConnectingAt({"registered"})
    BY <1>2, IsFine, InHand
  <2>2. m.index[call.d] \in Nat
    BY <2>1 DEF ConnectingAt, Fine, Good, StateOK
  <2>3. CASE call.kind = "link"
    <3> DEFINE s == [m EXCEPT !.lost = @ \cup {m.index[call.d]}]
    <3>1. m' = Miscount(s, "links")
      BY <1>2, <2>3 DEF Timeout
    <3>2. Fine(s)
      BY <2>1, <2>2, Loses, FineAgain DEF Fine
    <3> HIDE DEF s
    <3>3. Fine(m')
      BY <3>1, <3>2, Miscounts
    <3> QED
      BY <1>1, <3>3, Rests
  <2>4. CASE call.kind = "plink"
    <3>1. m' = Miscount(m, "persistent")
      BY <1>2, <2>4 DEF Timeout
    <3>2. Fine(m')
      BY <2>1, <3>1, Miscounts
    <3> QED
      BY <1>1, <3>2, Rests
  <2> QED
    BY <2>1, <2>3, <2>4 DEF ConnectingAt, Links
<1>3. CASE call.at \in {"opened", "sent", "rows", "used"}
  <2> DEFINE a == call.a
  <2>1. m' = CutOff(m, a)
    BY <1>3 DEF Timeout
  <2>2. a \in Addr
    BY <1>3, InHand DEF ConnectingAt, Working
  <2>3. Good(m) /\ Synced(m, {a}) /\ Listed(m, {a})
    BY <1>3 DEF IInv, Querying, Opening, Synced, Listed
  <2>4. Fine(m')
    <3>1. Good(m) /\ Synced(m, {} \cup {a}) /\ Listed(m, {} \cup {a})
      BY <2>3
    <3> HIDE DEF a
    <3> QED
      BY <2>1, <2>2, <3>1, Cuts DEF Fine
  <2> QED
    BY <1>1, <2>4, Rests
<1>4. CASE call.at \notin {"registered", "opened", "sent", "rows", "used"}
  <2>1. m' = m
    BY <1>4 DEF Timeout
  <2> QED
    BY <1>1, <1>4, <2>1, IsFine, Rests
<1> QED
  BY <1>2, <1>3, <1>4

LEMMA BeginRequest_step == ASSUME IInv, BeginRequest PROVE IInv'
<1>1. call = Idle /\ call' = Idle /\ stage' = "script" /\ Fine(m)
  BY IdleIsFine DEF BeginRequest, IInv, CallOK
<1>2. /\ StateOK(m') /\ m'.list = m.list /\ m'.conn = m.conn /\ m'.plist = m.plist
      /\ m'.index = m.index
  BY <1>1 DEF BeginRequest, Fine, Good, StateOK, NoId
<1>3. Gives(m, m')
  BY <1>1, <1>2, Untouched DEF Fine, Shrunk
<1> QED
  BY <1>1, <1>3, FineAgain, Rests

LEMMA EndScript_step == ASSUME IInv, EndScript PROVE IInv'
  BY IdleIsFine, Rests DEF EndScript, Ready

LEMMA EndVars_step == ASSUME IInv, EndVars PROVE IInv'
  BY IdleIsFine, Rests DEF EndVars, IInv, CallOK

LEMMA DestroyNewest_step == ASSUME IInv, DestroyNewest PROVE IInv'
<1>1. call = Idle /\ call' = Idle /\ stage' = "list" /\ Fine(m)
  BY IdleIsFine DEF DestroyNewest, IInv, CallOK
<1>2. PICK id \in Ids(m.list) : m' = Destroy(m, id)
  BY DEF DestroyNewest
<1>3. Gives(m, m')
  BY <1>1, <1>2, Destroys DEF Fine
<1> QED
  BY <1>1, <1>3, FineAgain, Rests

\* An entry that is taken from the list while its connection stays.
LEMMA Takes ==
  ASSUME NEW s, Good(s), NEW id \in Ids(s.list)
  PROVE  LET t == [s EXCEPT !.list = Remove(@, id)] IN
         /\ Good(t) /\ t.conn = s.conn /\ t.plist = s.plist
         /\ Ids(t.list) = Ids(s.list) \ {id}
         /\ \A other \in Ids(t.list) : \A a : ResultOf(s, other, a) => ResultOf(t, other, a)
<1> DEFINE l == Remove(s.list, id)
           t == [s EXCEPT !.list = l]
<1>1. ListOK(l) /\ Shrunk(s.list, l) /\ Ids(l) = Ids(s.list) \ {id}
  BY Removes DEF Good, StateOK
<1> HIDE DEF l
<1>2. /\ StateOK(t) /\ t.list = l /\ t.conn = s.conn /\ t.plist = s.plist
      /\ t.index = s.index
  BY <1>1 DEF Good, StateOK
<1> HIDE DEF t
<1>3. \A other, a : LinkOf(t, other, a) => LinkOf(s, other, a) /\ other \in Ids(s.list)
  BY <1>1, <1>2 DEF LinkOf, Shrunk
<1>4. ASSUME NEW d \in Details
      PROVE  /\ t.index[d] < t.list.next
             /\ t.index[d] \in Ids(t.list) =>
                  /\ t.list.ent[t.index[d]].type = "link"
                  /\ t.conn[t.list.ent[t.index[d]].ptr].details = d
  <2>1. /\ s.index[d] < s.list.next
        /\ s.index[d] \in Ids(s.list) =>
             /\ s.list.ent[s.index[d]].type = "link"
             /\ s.conn[s.list.ent[s.index[d]].ptr].details = d
    BY DEF Good, Sound
  <2> QED
    BY <1>1, <1>2, <2>1 DEF Shrunk
<1>5. ASSUME NEW other \in Ids(t.list), NEW a \in Addr, LinkOf(t, other, a)
      PROVE  /\ t.conn[a] # Freed /\ t.conn[a].kind = "link"
             /\ \A third \in Ids(t.list) : LinkOf(t, third, a) => third = other
  <2>1. /\ s.conn[a] # Freed /\ s.conn[a].kind = "link"
        /\ \A third \in Ids(s.list) : LinkOf(s, third, a) => third = other
    BY <1>3, <1>5 DEF Good, Sound
  <2> QED
    BY <1>2, <1>3, <2>1
<1>6. \A d \in Details : t.plist[d] # Nowhere =>
        LET c == t.conn[t.plist[d]] IN c # Freed /\ c.kind = "plink" /\ c.details = d
  BY <1>2 DEF Good, Sound
<1>7. Good(t)
  BY <1>2, <1>4, <1>5, <1>6 DEF Good, Sound
<1>8. \A other \in Ids(t.list) : \A a : ResultOf(s, other, a) => ResultOf(t, other, a)
  BY <1>1, <1>2 DEF ResultOf, Shrunk
<1> QED
  BY <1>1, <1>2, <1>7, <1>8 DEF t, l

LEMMA DestroyCut_step == ASSUME IInv, DestroyCut PROVE IInv'
<1>1. call = Idle /\ call' = Idle /\ stage' = "list" /\ Fine(m)
  BY IdleIsFine DEF DestroyCut, IInv, CallOK
<1>2. PICK id \in Ids(m.list) :
        LET e == m.list.ent[id]
            s == [m EXCEPT !.list = Remove(@, id)]
        IN  m' = CASE e.type = "link"   -> Miscount(s, "links")
                   [] e.type = "plink"  -> s
                   [] e.type = "result" -> IF e.ptr = Nowhere THEN s ELSE CutOff(s, e.ptr)
  BY DEF DestroyCut
<1> DEFINE e == m.list.ent[id]
           s == [m EXCEPT !.list = Remove(@, id)]
<1>3. e \in Entries
  BY <1>1 DEF Fine, Good, StateOK, ListOK
<1>4. /\ Good(s) /\ s.conn = m.conn /\ s.plist = m.plist /\ Ids(s.list) = Ids(m.list) \ {id}
      /\ \A other \in Ids(s.list) : \A a : ResultOf(m, other, a) => ResultOf(s, other, a)
  BY <1>1, Takes DEF Fine
<1>5. /\ e.type = "link" => m' = Miscount(s, "links")
      /\ e.type = "plink" => m' = s
      /\ e.type = "result" => m' = IF e.ptr = Nowhere THEN s ELSE CutOff(s, e.ptr)
  BY <1>2
<1> HIDE DEF s
<1>6. Listed(s, {})
  BY <1>1, <1>4 DEF Fine, Listed
<1>7. ASSUME NEW W, e.type = "result" /\ e.ptr \in Addr => e.ptr \in W
      PROVE  Synced(s, W)
  <2>1. SUFFICES ASSUME NEW a \in Addr \ W,
                        s.conn[a] # Freed, ~s.conn[a].cut, s.conn[a].status # "ready"
                 PROVE  /\ s.conn[a].status = "use"
                        /\ \E other \in Ids(s.list) : ResultOf(s, other, a)
    BY DEF Synced, ResultOf
  <2>2. m.conn[a].status = "use" /\ \E other \in Ids(m.list) : ResultOf(m, other, a)
    BY <1>1, <1>4, <2>1 DEF Fine, Synced, ResultOf
  <2>3. PICK other \in Ids(m.list) : ResultOf(m, other, a)
    BY <2>2
  <2>4. other # id
    BY <1>7, <2>1, <2>3 DEF ResultOf
  <2> QED
    BY <1>4, <2>2, <2>3, <2>4
<1>8. Fine(m')
  <2>1. CASE e.type = "link"
    BY <1>4, <1>5, <1>6, <1>7, <2>1, Miscounts DEF Fine
  <2>2. CASE e.type = "plink"
    BY <1>4, <1>5, <1>6, <1>7, <2>2 DEF Fine
  <2>3. CASE e.type = "result" /\ e.ptr = Nowhere
    BY <1>4, <1>5, <1>6, <1>7, <2>3, MySQLAssumption DEF Fine
  <2>4. CASE e.type = "result" /\ e.ptr # Nowhere
    <3>1. e.ptr \in Addr
      BY <1>3, <2>4 DEF Entries
    <3>2. Synced(s, {} \cup {e.ptr})
      BY <1>7
    <3>3. Listed(s, {} \cup {e.ptr})
      BY <1>6 DEF Listed
    <3>4. m' = CutOff(s, e.ptr)
      BY <1>5, <2>4
    <3> HIDE DEF e
    <3> QED
      BY <1>4, <3>1, <3>2, <3>3, <3>4, Cuts DEF Fine
  <2> QED
    BY <1>3, <2>1, <2>2, <2>3, <2>4 DEF Entries
<1> QED
  BY <1>1, <1>8, Rests

LEMMA EndRequest_step == ASSUME IInv, EndRequest PROVE IInv'
<1>1. call = Idle /\ call' = Idle /\ stage' = "idle" /\ Fine(m) /\ Ids(m.list) = {}
  BY IdleIsFine DEF EndRequest, IInv, CallOK
<1> DEFINE f == [a \in Addr |-> Kept(m.conn[a])]
<1>2. m' = [m EXCEPT !.conn = f, !.list = EmptyList, !.index = Start.index, !.zval = Start.zval,
                     !.released = {}, !.lost = {}, !.mishap = "none"]
  BY DEF EndRequest
<1>3. ASSUME NEW a \in Addr
      PROVE  /\ f[a] \in Conns \cup {Freed}
             /\ f[a] # Freed =>
                  /\ m.conn[a] # Freed /\ f[a].kind = "plink" /\ m.conn[a].kind = "plink"
                  /\ f[a].details = m.conn[a].details /\ f[a].status = m.conn[a].status
                  /\ f[a].cut = m.conn[a].cut
             /\ f[a] = Freed => m.conn[a] = Freed \/ m.conn[a].kind = "link"
  <2>1. m.conn[a] \in Conns \cup {Freed} /\ f[a] = Kept(m.conn[a])
    BY <1>1 DEF Fine, Good, StateOK
  <2> HIDE DEF f
  <2>2. CASE m.conn[a] = Freed \/ m.conn[a].kind = "link"
    BY <2>1, <2>2 DEF Kept
  <2>3. CASE m.conn[a] # Freed /\ m.conn[a].kind # "link"
    <3>1. f[a] = [m.conn[a] EXCEPT !.old = m.conn[a].active # NoId] /\ m.conn[a] \in Conns
      BY <2>1, <2>3 DEF Kept
    <3>2. f[a] \in Conns
      BY <3>1 DEF Conns
    <3>3. f[a] # Freed
      BY <3>2, MySQLAssumption
    <3> QED
      BY <2>3, <3>1, <3>2, <3>3 DEF Conns, Links
  <2> QED
    BY <2>2, <2>3
<1>4. f \in [Addr -> Conns \cup {Freed}]
  BY <1>3
<1> HIDE DEF f
<1>5. StateOK(Start) /\ Ids(EmptyList) = {} /\ Start.list = EmptyList
      /\ \A d \in Details : Start.index[d] = 0
  BY Initially DEF Good, Start, EmptyList, Ids, NoId
<1>6. StateOK(m') /\ m'.conn = f /\ m'.list = EmptyList /\ m'.plist = m.plist /\ m'.index = Start.index
  <2>1. /\ ListOK(EmptyList) /\ Start.index \in [Details -> Nat] /\ Start.zval \in [Zvals -> Nat]
    BY <1>5 DEF StateOK
  <2> QED
    BY <1>1, <1>2, <1>4, <2>1 DEF Fine, Good, StateOK
<1>7. Sound(m')
  <2>1. ASSUME NEW d \in Details, m'.plist[d] # Nowhere
        PROVE  LET c == m'.conn[m'.plist[d]] IN c # Freed /\ c.kind = "plink" /\ c.details = d
    <3>1. LET c == m.conn[m.plist[d]] IN c # Freed /\ c.kind = "plink" /\ c.details = d
      BY <1>1, <1>6, <2>1 DEF Fine, Good, Sound
    <3>2. m.plist[d] \in Addr
      BY <1>1, <1>6, <2>1 DEF Fine, Good, StateOK
    <3> QED
      BY <1>3, <1>6, <3>1, <3>2
  <2>2. m'.list.next = 1 /\ Ids(m'.list) = {} /\ \A d \in Details : m'.index[d] = 0
    BY <1>5, <1>6 DEF EmptyList
  <2> QED
    BY <2>1, <2>2 DEF Sound
<1>8. Synced(m', {})
  BY <1>1, <1>3, <1>5, <1>6 DEF Synced, Fine
<1>9. Listed(m', {})
  BY <1>1, <1>3, <1>6 DEF Listed, Fine
<1>10. AtRest' /\ CallOK' /\ Querying' = {} /\ Opening' = {}
  BY <1>1, <1>3, <1>5, <1>6 DEF AtRest, CallOK, Idle, Querying, Opening
<1> QED
  BY <1>6, <1>7, <1>8, <1>9, <1>10 DEF IInv, Good

(***************************************************************************)
(* The theorems                                                            *)
(***************************************************************************)
LEMMA Next_step == ASSUME IInv, [Next]_vars PROVE IInv'
<1>1. ASSUME NEW v \in Zvals, NEW d \in Details,
             MysqlConnect(v, d) \/ PconnectNew(v, d) \/ PconnectOld(v, d)
      PROVE  IInv'
  BY <1>1, MysqlConnect_step, PconnectNew_step, PconnectOld_step
<1>2. CASE Open \/ Register \/ Count
  BY <1>2, Open_step, Register_step, Count_step
<1>3. ASSUME NEW v \in Zvals, NEW w \in Zvals, NEW q \in {"store", "use"}, MysqlQuery(v, w, q)
      PROVE  IInv'
  BY <1>3, MysqlQuery_step
<1>4. ASSUME NEW v \in Zvals, NEW q \in {"store", "use"}, QueryDefault(v, q)
      PROVE  IInv'
  BY <1>4, QueryDefault_step
<1>5. CASE QueryImplicit \/ Answer \/ Store \/ Use \/ Used
  BY <1>5, QueryImplicit_step, Answer_step, Store_step, Use_step, Used_step
<1>6. ASSUME NEW v \in Zvals,
             FetchLast(v) \/ MysqlFreeResult(v) \/ MysqlClose(v) \/ Unset(v) \/ DestroyVar(v)
      PROVE  IInv'
  BY <1>6, Values_step
<1>7. CASE CloseDefault \/ Timeout
  BY <1>7, CloseDefault_step, Timeout_step
<1>8. CASE BeginRequest \/ EndScript \/ EndVars \/ DestroyNewest \/ DestroyCut \/ EndRequest
  BY <1>8, BeginRequest_step, EndScript_step, EndVars_step, DestroyNewest_step, DestroyCut_step,
     EndRequest_step
<1>9. CASE NextProcess
  BY <1>9, Starting DEF NextProcess
<1>10. CASE UNCHANGED vars
  BY <1>10 DEF vars, IInv, CallOK, AtRest, Querying, Opening
<1> QED
  BY <1>1, <1>2, <1>3, <1>4, <1>5, <1>6, <1>7, <1>8, <1>9, <1>10 DEF Next

\* IInv is inductive.
THEOREM Invariant == Spec => []IInv
<1>1. Init => IInv
  <2>1. SUFFICES ASSUME Init PROVE IInv
    OBVIOUS
  <2>2. Ids(m.list) = {} /\ \A a \in Addr : m.conn[a] = Freed
    BY <2>1 DEF Init, Start, EmptyList, Ids
  <2>3. AtRest /\ CallOK /\ Querying = {} /\ Opening = {}
    BY <2>1, <2>2 DEF Init, AtRest, CallOK, Idle, Querying, Opening
  <2> QED
    BY <2>1, <2>3, Initially DEF IInv, Init
<1>2. IInv /\ [Next]_vars => IInv'
  BY Next_step
<1> QED
  BY <1>1, <1>2, PTL DEF Spec

\* For any number of servers, values, connections and requests, and wherever a timeout ends a
\* function or a destructor: what mysql_connect() and mysql_pconnect() find under details is
\* live and of these details, and no connection has two owners (php_mysql.c:311-400, 453-620).
THEOREM LinksStaySound == Spec => []LinksSound
<1>1. ASSUME IInv PROVE LinksSound
  <2>1. StateOK(m) /\ Sound(m) /\ ListOK(m.list)
    BY <1>1 DEF IInv, Good, StateOK
  <2>2. ASSUME NEW id \in OpenLinks
        PROVE  LET a == m.list.ent[id].ptr IN
               /\ m.conn[a] # Freed /\ m.conn[a].kind = "link"
               /\ \A other \in OpenLinks \ {id} : m.list.ent[other].ptr # a
    <3> DEFINE a == m.list.ent[id].ptr
    <3>1. a \in Addr /\ id \in Ids(m.list) /\ LinkOf(m, id, a)
      BY <2>1 DEF OpenLinks, LinkIds, ListOK, Entries, LinkOf
    <3> HIDE DEF a
    <3>2. /\ m.conn[a] # Freed /\ m.conn[a].kind = "link"
          /\ \A other \in Ids(m.list) : LinkOf(m, other, a) => other = id
      BY <2>1, <3>1 DEF Sound
    <3>3. \A other \in OpenLinks : m.list.ent[other].ptr = a => LinkOf(m, other, a)
      BY DEF OpenLinks, LinkIds, LinkOf
    <3>4. OpenLinks \subseteq Ids(m.list)
      BY DEF OpenLinks, LinkIds
    <3> QED
      BY <3>2, <3>3, <3>4 DEF a
  <2>3. ASSUME NEW d \in Details, m.index[d] \in Ids(m.list)
        PROVE  m.index[d] \in OpenLinks /\ m.conn[m.list.ent[m.index[d]].ptr].details = d
    BY <2>1, <2>3 DEF Sound, OpenLinks, LinkIds
  <2>4. ASSUME NEW d \in Persistent
        PROVE  LET c == m.conn[m.plist[d]] IN c # Freed /\ c.kind = "plink" /\ c.details = d
    BY <2>1 DEF Sound, Persistent, PlinkDetails
  <2> QED
    BY <2>2, <2>3, <2>4 DEF LinksSound
<1> QED
  BY <1>1, Invariant, PTL

\* A persistent link that is handed to the next request has no rows left to read and is found
\* by its details, unless a timeout ended a function that worked on it: the resource list
\* of the request takes its results with it (zend_list.c:231, php_mysql.c:282).
THEOREM HandedOn == Spec => []InSync
<1>1. ASSUME IInv PROVE InSync
  <2>1. SUFFICES ASSUME stage = "idle", NEW a \in Addr, m.conn[a] # Freed, ~m.conn[a].cut
                 PROVE  m.conn[a].status = "ready" /\ \E d \in Details : m.plist[d] = a
    BY DEF InSync
  <2>2. Fine(m) /\ Ids(m.list) = {} /\ m.conn[a].kind = "plink"
    BY <1>1, <2>1, IdleIsFine DEF IInv, CallOK, AtRest
  <2>3. m.conn[a].status = "ready"
    BY <2>1, <2>2 DEF Fine, Synced
  <2>4. \E d \in Details : m.plist[d] = a
    BY <2>1, <2>2 DEF Fine, Listed
  <2> QED
    BY <2>3, <2>4
<1> QED
  BY <1>1, Invariant, PTL

(***************************************************************************)
(* What the list refers to is alive                                        *)
(***************************************************************************)
\* In every Good state, so that the steps below need not look into types.
LEMMA Entered ==
  ASSUME NEW s, Good(s)
  PROVE  /\ ListOK(s.list) /\ s.list.next \in Nat /\ NoId \notin Ids(s.list) /\ NoId < s.list.next
         /\ \A id \in Ids(s.list) :
              /\ id \in Nat /\ id < s.list.next
              /\ s.list.ent[id] \in Entries /\ s.list.ent[id].type \in {"link", "plink", "result"}
              /\ s.list.ent[id].ptr \in Addr \cup {Nowhere}
              /\ s.list.ent[id].ptr = Nowhere => s.list.ent[id].type = "result"
              /\ ~s.list.ent[id].eof => s.list.ent[id].ptr \in Addr
         /\ Nowhere \notin Addr
         /\ \A a \in Addr : s.conn[a] \in Conns \cup {Freed}
  BY MySQLAssumption DEF Good, StateOK, ListOK, Entries, NoId

\* What Fit does not speak of has changed.
LEMMA FitAlike ==
  ASSUME NEW s, NEW t, Fit(s), Good(t), t.list = s.list, t.conn = s.conn, t.wrong = s.wrong,
         t.mishap = "none" => s.mishap = "none" /\ t.undefined = s.undefined
  PROVE  Fit(t)
  BY DEF Fit, Remembers, Backed, LinkOf

\* Entries have lost references, or been read.
LEMMA FitShrunk ==
  ASSUME NEW s, NEW t, Fit(s), Good(t), Shrunk(s.list, t.list), t.conn = s.conn, t.wrong = s.wrong,
         t.mishap = "none" => s.mishap = "none" /\ t.undefined = s.undefined,
         \A id \in Ids(t.list) : s.list.ent[id].eof => t.list.ent[id].eof
  PROVE  Fit(t)
<1>1. Remembers(t)
  BY DEF Fit, Remembers, Shrunk
<1>2. ASSUME t.mishap = "none" PROVE Backed(t)
  BY <1>2 DEF Fit, Backed, LinkOf, Shrunk
<1> QED
  BY <1>1, <1>2 DEF Fit

\* A connection has changed its status, or what it remembers: if it has, no rows are left.
LEMMA FitChanged ==
  ASSUME NEW s, NEW t, Fit(s), Good(t), NEW a \in Addr, NEW c \in Conns, s.conn[a] # Freed,
         t.list = s.list, t.conn = [s.conn EXCEPT ![a] = c], t.wrong = s.wrong,
         c.kind = s.conn[a].kind,
         c.active = NoId \/ (c.active = s.conn[a].active /\ c.old = s.conn[a].old),
         t.mishap = "none" =>
           /\ s.mishap = "none" /\ t.undefined = s.undefined
           /\ ~Unread(s, a) \/ (c.status = s.conn[a].status /\ c.active = s.conn[a].active)
  PROVE  Fit(t)
<1>1. t.conn[a] = c /\ c # Freed /\ \A b \in Addr \ {a} : t.conn[b] = s.conn[b]
  BY MySQLAssumption DEF Fit, Good, StateOK
<1>2. Remembers(t)
  BY <1>1, Entered DEF Fit, Remembers
<1>3. ASSUME t.mishap = "none" PROVE Backed(t)
  BY <1>1, <1>3 DEF Fit, Backed, LinkOf, Unread
<1> QED
  BY <1>2, <1>3 DEF Fit

\* A destructor, of a link when no results are left of it.
LEMMA FitDestroys ==
  ASSUME NEW s, Fit(s), NEW id \in Ids(s.list),
         s.mishap = "none" /\ s.list.ent[id].type = "link" => Results(s, s.list.ent[id].ptr) = {}
  PROVE  Fit(Destroy(s, id))
<1> DEFINE e == s.list.ent[id]
           t == [s EXCEPT !.list = Remove(@, id), !.lost = @ \ {id}]
           u == Destroy(s, id)
<1>1. Good(s) /\ Good(u) /\ Remembers(s) /\ ~s.wrong
  BY Destroys DEF Fit, Gives
<1>2. /\ Ids(Remove(s.list, id)) = Ids(s.list) \ {id} /\ Shrunk(s.list, Remove(s.list, id))
      /\ \A k \in Ids(s.list) \ {id} : Remove(s.list, id).ent[k] = s.list.ent[k]
  <2>1. Ids(Remove(s.list, id)) = Ids(s.list) \ {id} /\ Shrunk(s.list, Remove(s.list, id))
    BY <1>1, Removes DEF Good, StateOK
  <2>2. Remove(s.list, id).ent = Restrict(s.list.ent, Ids(s.list) \ {id})
    BY <1>1 DEF Good, StateOK, ListOK, Remove
  <2> QED
    BY <2>1, <2>2 DEF Restrict, Ids
<1>3. /\ t.list = Remove(s.list, id) /\ t.conn = s.conn /\ t.wrong = s.wrong
      /\ t.mishap = s.mishap /\ t.undefined = s.undefined
  BY <1>1 DEF Good, StateOK
<1>4. Good(t)
  <2> DEFINE x == [s EXCEPT !.list = Remove(@, id)]
  <2>1. Good(x)
    BY <1>1, Takes
  <2>2. /\ StateOK(t) /\ t.plist = x.plist /\ t.index = x.index /\ t.conn = x.conn
        /\ t.list = x.list
    BY <1>1, <1>3, Removes DEF Good, StateOK
  <2> HIDE DEF x, t
  <2>3. Shrunk(x.list, t.list) /\ Ids(t.list) = Ids(x.list)
    BY <2>2 DEF Shrunk
  <2> QED
    BY <2>1, <2>2, <2>3, Untouched DEF Gives
<1>5. Fit(t)
  <2>1. Shrunk(s.list, t.list) /\ \A k \in Ids(t.list) : s.list.ent[k].eof => t.list.ent[k].eof
    BY <1>2, <1>3
  <2> HIDE DEF t
  <2> QED
    BY <1>3, <1>4, <2>1, FitShrunk
<1>6. e.ptr \in Addr \cup {Nowhere} /\ e.type \in {"link", "plink", "result"} /\ Nowhere \notin Addr
      /\ (e.ptr = Nowhere => e.type = "result")
  BY <1>1, Entered
<1>7. CASE e.type = "plink"
  BY <1>5, <1>7 DEF Destroy
<1>8. CASE e.type = "link"
  <2>1. e.ptr \in Addr /\ LinkOf(s, id, e.ptr)
    BY <1>6, <1>8 DEF LinkOf
  <2>2. s.conn[e.ptr] # Freed /\ s.conn[e.ptr].kind = "link"
        /\ \A other \in Ids(s.list) : LinkOf(s, other, e.ptr) => other = id
    <3>1. \A a \in Addr : LinkOf(s, id, a) =>
            /\ s.conn[a] # Freed /\ s.conn[a].kind = "link"
            /\ \A other \in Ids(s.list) : LinkOf(s, other, a) => other = id
      BY <1>1 DEF Good, Sound
    <3> HIDE DEF e
    <3> QED
      BY <2>1, <3>1
  <2>3. u = [t EXCEPT !.conn[e.ptr] = Freed, !.links = @ - 1]
    BY <1>3, <1>8, <2>2 DEF Destroy, CloseLink
  <2>4. /\ u.list = t.list /\ u.conn = [s.conn EXCEPT ![e.ptr] = Freed] /\ u.wrong = t.wrong
        /\ u.mishap = t.mishap /\ u.undefined = t.undefined
    BY <1>3, <1>4, <2>3 DEF Good, StateOK
  <2>5. u.conn[e.ptr] = Freed /\ \A b \in Addr \ {e.ptr} : u.conn[b] = s.conn[b]
    BY <1>1, <2>1, <2>4 DEF Good, StateOK
  <2> HIDE DEF u, t
  <2>6. Remembers(u)
    BY <1>3, <1>5, <2>4, <2>5 DEF Fit, Remembers
  <2>7. ASSUME u.mishap = "none" PROVE Backed(u)
    <3>1. Backed(t) /\ Backed(s) /\ Results(s, e.ptr) = {}
      BY <1>3, <1>5, <1>8, <2>4, <2>7 DEF Fit
    <3>2. \A k \in Ids(t.list) : t.list.ent[k].ptr # e.ptr
      <4> SUFFICES ASSUME NEW k \in Ids(t.list), t.list.ent[k].ptr = e.ptr PROVE FALSE
        OBVIOUS
      <4>1. k \in Ids(s.list) /\ k # id /\ s.list.ent[k] = t.list.ent[k]
        BY <1>2, <1>3
      <4>2. s.list.ent[k].type \in {"link", "plink", "result"}
        BY <1>1, <4>1, Entered
      <4>3. s.list.ent[k].type # "result"
        BY <3>1, <4>1 DEF Results
      <4>4. s.list.ent[k].type # "link"
        BY <2>2, <4>1 DEF LinkOf
      <4>5. s.list.ent[k].type # "plink"
        BY <2>1, <2>2, <3>1, <4>1 DEF Backed
      <4> QED
        BY <4>2, <4>3, <4>4, <4>5
    <3> HIDE DEF e
    <3> QED
      BY <1>3, <2>4, <2>5, <3>1, <3>2 DEF Backed, LinkOf
  <2> QED
    BY <1>1, <1>3, <1>5, <2>4, <2>6, <2>7 DEF Fit, u
<1>9. CASE e.type = "result"
  <2>1. u = FreeResult(t, e)
    BY <1>9 DEF Destroy
  <2>2. CASE e.ptr = Nowhere
    BY <1>5, <2>1, <2>2 DEF FreeResult
  <2>3. CASE e.ptr # Nowhere /\ s.conn[e.ptr] = Freed
    <3>1. u = Undefined(t)
      BY <1>3, <2>1, <2>3 DEF FreeResult
    <3>2. /\ u.list = t.list /\ u.conn = t.conn /\ u.wrong = t.wrong /\ u.mishap = t.mishap
      BY <1>4, <3>1 DEF Undefined, Good, StateOK
    <3>3. s.mishap # "none"
      BY <1>6, <2>3 DEF Fit, Backed
    <3> QED
      BY <1>1, <1>3, <1>5, <3>2, <3>3, FitAlike
  <2>4. CASE e.ptr # Nowhere /\ s.conn[e.ptr] # Freed /\ s.conn[e.ptr].status # "use"
    BY <1>3, <1>5, <2>1, <2>4 DEF FreeResult
  <2>5. CASE e.ptr # Nowhere /\ s.conn[e.ptr] # Freed /\ s.conn[e.ptr].status = "use"
    <3> DEFINE c == [s.conn[e.ptr] EXCEPT !.status = "ready"]
               x == [t EXCEPT !.conn[e.ptr].status = "ready"]
    <3>1. e.ptr \in Addr /\ s.conn[e.ptr] \in Conns
      BY <1>1, <1>6, <2>5, Entered
    <3>2. c \in Conns /\ c.kind = s.conn[e.ptr].kind /\ c.active = s.conn[e.ptr].active
          /\ c.old = s.conn[e.ptr].old
      BY <3>1 DEF Conns
    <3>3. u = MishapIf(x, e.eof, "drained")
      BY <1>3, <2>1, <2>5 DEF FreeResult
    <3>4. /\ x.list = t.list /\ x.conn = [t.conn EXCEPT ![e.ptr] = c] /\ x.wrong = t.wrong
          /\ x.mishap = t.mishap /\ x.undefined = t.undefined
      BY <1>3, <1>4 DEF Good, StateOK
    <3> HIDE DEF x, c
    <3>5. /\ u.list = t.list /\ u.conn = [t.conn EXCEPT ![e.ptr] = c] /\ u.wrong = t.wrong
          /\ u.mishap = "none" => t.mishap = "none" /\ u.undefined = t.undefined /\ ~e.eof
      BY <3>3, <3>4 DEF MishapIf, Mishap
    <3>6. ASSUME u.mishap = "none" PROVE ~Unread(t, e.ptr)
      <4>1. Backed(s) /\ ~e.eof
        BY <1>3, <3>5, <3>6 DEF Fit
      <4>2. s.conn[e.ptr].active = id
        BY <1>9, <3>1, <4>1 DEF Backed
      <4>3. ASSUME NEW k \in Ids(t.list), t.list.ent[k].type = "result", t.list.ent[k].ptr = e.ptr,
                   ~t.list.ent[k].eof
            PROVE  FALSE
        <5>1. k \in Ids(s.list) /\ k # id /\ s.list.ent[k] = t.list.ent[k]
          BY <1>2, <1>3
        <5>2. s.conn[e.ptr].active = k
          BY <3>1, <4>1, <4>3, <5>1 DEF Backed
        <5> QED
          BY <4>2, <5>1, <5>2
      <4> QED
        BY <4>3 DEF Unread
    <3> HIDE DEF u, t, e
    <3> QED
      BY <1>1, <1>3, <1>5, <2>5, <3>1, <3>2, <3>5, <3>6, FitChanged DEF u
  <2> QED
    BY <2>2, <2>3, <2>4, <2>5
<1> QED
  BY <1>6, <1>7, <1>8, <1>9

LEMMA FitDeletes ==
  ASSUME NEW s, Fit(s), NEW id
  PROVE  Fit(Delete(s, id))
<1>0. Good(s) /\ Good(Delete(s, id))
  BY Deletes DEF Fit, Gives
<1>1. CASE ~LastReference(s.list, id)
  <2> DEFINE t == [s EXCEPT !.list = DropRef(@, id)]
  <2>1. Delete(s, id) = t
    BY <1>1 DEF Delete
  <2>2. /\ t.list = DropRef(s.list, id) /\ t.conn = s.conn /\ t.wrong = s.wrong
        /\ t.mishap = s.mishap /\ t.undefined = s.undefined
    BY <1>0 DEF Good, StateOK
  <2>3. \A k \in Ids(DropRef(s.list, id)) :
          s.list.ent[k].eof => DropRef(s.list, id).ent[k].eof
    BY <1>0 DEF Good, StateOK, ListOK, DropRef, Ids, Entries
  <2>4. Shrunk(s.list, DropRef(s.list, id))
    BY <1>0, DropsRef DEF Good, StateOK
  <2> HIDE DEF t
  <2> QED
    BY <1>0, <2>1, <2>2, <2>3, <2>4, FitShrunk
<1>2. CASE LastReference(s.list, id)
  <2> DEFINE e == s.list.ent[id]
             p == e.type = "link" /\ Results(s, e.ptr) # {}
             t == MishapIf(s, p, "closed")
  <2>1. id \in Ids(s.list) /\ Delete(s, id) = Destroy(t, id)
    BY <1>2 DEF Delete, LastReference
  <2>2. Good(t) /\ t.list = s.list /\ t.conn = s.conn
    BY <1>0, Notes DEF Gives
  <2>3. /\ t.wrong = s.wrong
        /\ t.mishap = "none" => s.mishap = "none" /\ ~p /\ t.undefined = s.undefined
    <3> HIDE DEF p
    <3> QED
      BY <1>0 DEF Good, StateOK, MishapIf, Mishap
  <2> HIDE DEF t
  <2>4. Fit(t)
    BY <2>2, <2>3, FitAlike
  <2>5. Results(t, e.ptr) = Results(s, e.ptr)
    BY <2>2 DEF Results
  <2> QED
    BY <2>1, <2>2, <2>3, <2>4, <2>5, FitDestroys
<1> QED
  BY <1>1, <1>2

LEMMA FitReturns ==
  ASSUME NEW s, Fit(s), NEW v, NEW id \in Nat
  PROVE  Fit(Return(s, v, id))
<1> DEFINE t == [s EXCEPT !.zval[v] = id]
           u == Delete(t, s.zval[v])
           w == Given(u)
<1>1. Good(s) /\ Return(s, v, id) = w /\ Good(w)
  BY Returns DEF Fit, Return, Gives
<1>2. /\ StateOK(t) /\ t.list = s.list /\ t.conn = s.conn /\ t.wrong = s.wrong
      /\ t.mishap = s.mishap /\ t.undefined = s.undefined /\ t.plist = s.plist /\ t.index = s.index
  BY <1>1 DEF Good, StateOK
<1> HIDE DEF t
<1>3. Good(t)
  BY <1>1, <1>2, Untouched DEF Shrunk, Gives
<1>4. Fit(t)
  BY <1>2, <1>3, FitAlike
<1>5. Fit(u)
  BY <1>4, FitDeletes
<1>6. Good(u)
  BY <1>5 DEF Fit
<1> HIDE DEF u
<1>7. /\ w.list = u.list /\ w.conn = u.conn /\ w.wrong = u.wrong
      /\ w.mishap = u.mishap /\ w.undefined = u.undefined
  BY <1>6 DEF Given, Good, StateOK
<1> HIDE DEF w
<1> QED
  BY <1>1, <1>5, <1>7, FitAlike

LEMMA FitSetsDefault ==
  ASSUME NEW s, Fit(s), NEW id \in Nat
  PROVE  Fit(SetDefault(s, id))
<1> DEFINE t == IF s.dflt = NoId THEN s ELSE Delete(s, s.dflt)
           u == [t EXCEPT !.dflt = id, !.list = AddRef(@, id)]
<1>1. Good(u) /\ SetDefault(s, id) = u
  BY SetsDefault DEF Fit, SetDefault, Gives
<1>2. Fit(t)
  BY FitDeletes
<1>3. Good(t)
  BY <1>2 DEF Fit
<1> HIDE DEF t
<1>4. /\ u.list = AddRef(t.list, id) /\ u.conn = t.conn /\ u.wrong = t.wrong
      /\ u.mishap = t.mishap /\ u.undefined = t.undefined
  BY <1>3 DEF Good, StateOK
<1>5. \A k \in Ids(AddRef(t.list, id)) : t.list.ent[k].eof => AddRef(t.list, id).ent[k].eof
  BY <1>3 DEF Good, StateOK, ListOK, AddRef, Ids, Entries
<1>6. Shrunk(t.list, AddRef(t.list, id))
  BY <1>3, AddsRef DEF Good, StateOK
<1> HIDE DEF u
<1> QED
  BY <1>1, <1>2, <1>4, <1>5, <1>6, FitShrunk

\* The rows of a result are read to the end.
LEMMA FitReadsAll ==
  ASSUME NEW s, Fit(s), NEW id \in Ids(s.list), s.list.ent[id].type = "result", ~s.list.ent[id].eof
  PROVE  /\ Fit(ReadAll(s, id)) /\ ReadAll(s, id).mishap = s.mishap
         /\ s.mishap = "none" => /\ ReadAll(s, id).list.ent[id].eof
                                /\ ReadAll(s, id).conn[s.list.ent[id].ptr] # Freed
         /\ ReadAll(s, id).list.ent[id].type = "result" /\ Ids(ReadAll(s, id).list) = Ids(s.list)
         /\ s.conn[s.list.ent[id].ptr].active = id =>
              ReadAll(s, id).conn[s.list.ent[id].ptr].active = id
<1> DEFINE a == s.list.ent[id].ptr
           t == ReadAll(s, id)
<1>1. Good(s) /\ Good(t) /\ a \in Addr /\ ListOK(s.list) /\ s.list.ent[id] \in Entries
  BY Entered, ReadsAll DEF Fit, Gives
<1>2. CASE s.conn[a] = Freed \/ s.conn[a].status # "use"
  <2>1. t = Undefined(s)
    BY <1>2 DEF ReadAll
  <2>2. /\ t.list = s.list /\ t.conn = s.conn /\ t.wrong = s.wrong /\ t.mishap = s.mishap
    BY <1>1, <2>1 DEF Undefined, Good, StateOK
  <2>3. s.mishap # "none"
    BY <1>1, <1>2 DEF Fit, Backed
  <2> HIDE DEF t
  <2> QED
    BY <1>1, <2>2, <2>3, FitAlike DEF t
<1>3. CASE s.conn[a] # Freed /\ s.conn[a].status = "use"
  <2> DEFINE c == [s.conn[a] EXCEPT !.status = "ready"]
             l == [s.list EXCEPT !.ent[id].eof = TRUE]
             r == [s EXCEPT !.list = l]
  <2>1. c \in Conns /\ c # Freed /\ c.kind = s.conn[a].kind /\ c.active = s.conn[a].active
        /\ c.old = s.conn[a].old
    BY <1>1, <1>3, MySQLAssumption DEF Good, StateOK, Conns
  <2>2. ListOK(l) /\ Shrunk(s.list, l) /\ Ids(l) = Ids(s.list) /\ l.ent[id].eof
        /\ l.ent[id].type = "result" /\ \A k \in Ids(s.list) \ {id} : l.ent[k] = s.list.ent[k]
    BY <1>1 DEF ListOK, Shrunk, Ids, Entries
  <2>3. t = [s EXCEPT !.conn = [s.conn EXCEPT ![a] = c], !.list = l]
    BY <1>1, <1>3 DEF ReadAll, Good, StateOK
  <2> HIDE DEF c, l
  <2>4. /\ StateOK(r) /\ r.list = l /\ r.conn = s.conn /\ r.wrong = s.wrong /\ r.mishap = s.mishap
        /\ r.undefined = s.undefined /\ r.plist = s.plist /\ r.index = s.index
    BY <1>1, <2>2 DEF Good, StateOK
  <2>5. /\ t.list = l /\ t.conn = [s.conn EXCEPT ![a] = c] /\ t.wrong = s.wrong
        /\ t.mishap = s.mishap /\ t.undefined = s.undefined
    BY <1>1, <2>3 DEF Good, StateOK
  <2> HIDE DEF r, t
  <2>6. Good(r)
    BY <1>1, <2>2, <2>4, Untouched DEF Gives
  <2>7. \A k \in Ids(r.list) : s.list.ent[k].eof => r.list.ent[k].eof
    BY <2>2, <2>4
  <2>8. Fit(r)
    BY <2>2, <2>4, <2>6, <2>7, FitShrunk
  <2>9. ASSUME s.mishap = "none" PROVE ~Unread(r, a)
    <3>1. \A k \in Ids(s.list) :
            s.list.ent[k].type = "result" /\ s.list.ent[k].ptr = a /\ ~s.list.ent[k].eof => k = id
      BY <1>1, <2>9 DEF Fit, Backed
    <3> HIDE DEF a
    <3> QED
      BY <2>2, <2>4, <3>1 DEF Unread
  <2>10. Fit(t)
    BY <1>1, <1>3, <2>1, <2>4, <2>5, <2>8, <2>9, FitChanged
  <2>11. t.conn[a].active = s.conn[a].active /\ t.conn[a] # Freed
    BY <1>1, <2>1, <2>5 DEF Good, StateOK
  <2> QED
    BY <2>2, <2>5, <2>10, <2>11 DEF t
<1> QED
  BY <1>2, <1>3

\* When a result is let go, connections stay.
LEMMA ResultDeletes ==
  ASSUME NEW s, Good(s), NEW id \in Ids(s.list), s.list.ent[id].type = "result"
  PROVE  LET u == Delete(s, id) IN
         /\ \A a \in Addr : s.conn[a] # Freed =>
              u.conn[a] # Freed /\ u.conn[a].active = s.conn[a].active
         /\ u.mishap = "none" => s.mishap = "none"
         /\ id \in Ids(u.list) => u.list.ent[id].eof = s.list.ent[id].eof
<1> DEFINE e == s.list.ent[id]
           u == Delete(s, id)
<1>1. CASE ~LastReference(s.list, id)
  <2>1. u = [s EXCEPT !.list = DropRef(@, id)]
    BY <1>1 DEF Delete
  <2>2. u.list = DropRef(s.list, id) /\ u.conn = s.conn /\ u.mishap = s.mishap
    BY <2>1 DEF Good, StateOK
  <2>3. DropRef(s.list, id).ent[id].eof = s.list.ent[id].eof
    BY DEF Good, StateOK, ListOK, DropRef, Ids, Entries
  <2> QED
    BY <2>2, <2>3
<1>2. CASE LastReference(s.list, id)
  <2> DEFINE t == [s EXCEPT !.list = Remove(@, id), !.lost = @ \ {id}]
  <2>1. u = FreeResult(t, e)
    BY <1>2 DEF Delete, Destroy, MishapIf
  <2>2. /\ t.list = Remove(s.list, id) /\ t.conn = s.conn /\ t.mishap = s.mishap
        /\ t \in [list : {t.list}, index : {t.index}, plist : {t.plist}, conn : {t.conn},
                  zval : {t.zval}, dflt : {t.dflt}, links : {t.links}, pers : {t.pers},
                  released : {t.released}, lost : {t.lost}, miscount : {t.miscount},
                  mishap : {t.mishap}, wrong : {t.wrong}, undefined : {t.undefined}]
    BY DEF Good, StateOK
  <2> HIDE DEF t
  <2>3. id \notin Ids(t.list)
    BY <2>2, Removes DEF Good, StateOK
  <2>4. CASE e.ptr = Nowhere \/ (s.conn[e.ptr] # Freed /\ s.conn[e.ptr].status # "use")
    <3>1. u = t
      BY <2>1, <2>2, <2>4 DEF FreeResult
    <3> QED
      BY <2>2, <2>3, <3>1
  <2>5. CASE e.ptr # Nowhere /\ s.conn[e.ptr] = Freed
    <3>1. u = Undefined(t)
      BY <2>1, <2>2, <2>5 DEF FreeResult
    <3>2. u.list = t.list /\ u.conn = t.conn /\ u.mishap = t.mishap
      BY <2>2, <3>1 DEF Undefined
    <3> QED
      BY <2>2, <2>3, <3>2
  <2>6. CASE e.ptr # Nowhere /\ s.conn[e.ptr] # Freed /\ s.conn[e.ptr].status = "use"
    <3> DEFINE c == [s.conn[e.ptr] EXCEPT !.status = "ready"]
               x == [t EXCEPT !.conn[e.ptr].status = "ready"]
    <3>1. e.ptr \in Addr /\ s.conn[e.ptr] \in Conns
      BY <2>6, Entered
    <3>2. c # Freed /\ c.active = s.conn[e.ptr].active
      BY <3>1, MySQLAssumption DEF Conns
    <3>3. u = MishapIf(x, e.eof, "drained")
      BY <2>1, <2>2, <2>6 DEF FreeResult
    <3>4. x.list = t.list /\ x.conn = [s.conn EXCEPT ![e.ptr] = c] /\ x.mishap = t.mishap
      BY <2>2
    <3> HIDE DEF x, c
    <3>5. /\ u.list = t.list /\ u.conn = [s.conn EXCEPT ![e.ptr] = c]
          /\ u.mishap = "none" => t.mishap = "none"
      BY <3>3, <3>4 DEF MishapIf, Mishap
    <3>6. \A a \in Addr : u.conn[a] = IF a = e.ptr THEN c ELSE s.conn[a]
      BY <3>5 DEF Good, StateOK
    <3> HIDE DEF u, e
    <3> QED
      BY <2>2, <2>3, <3>2, <3>5, <3>6 DEF u
  <2> QED
    BY <2>4, <2>5, <2>6
<1> QED
  BY <1>1, <1>2

\* Before a query, the rows of the last one are read: of this connection, unless what it
\* remembers is of an earlier request.
LEMMA FitFinishes ==
  ASSUME NEW s, Fit(s), NEW a \in Addr, s.conn[a] # Freed
  PROVE  Fit(Finish(s, a))
<1>0. Good(s) /\ Good(Finish(s, a))
  BY Finishes DEF Fit, Gives
<1> DEFINE id == s.conn[a].active
<1>1. CASE ~(id # NoId /\ Find(s.list, id, {"result"}) /\ ~s.list.ent[id].eof)
  BY <1>1 DEF Finish
<1>2. CASE id # NoId /\ Find(s.list, id, {"result"}) /\ ~s.list.ent[id].eof
  <2> DEFINE foreign == s.list.ent[id].ptr # a
             r == MishapIf(s, foreign /\ s.conn[a].old, "foreign")
             t == [r EXCEPT !.wrong = @ \/ (foreign /\ ~s.conn[a].old),
                            !.released = @ \cup {id}]
             w == ReadAll(t, id)
             u == Delete(w, id)
  <2>1. s.conn[a] \in Conns /\ id \in Nat /\ id \in Ids(s.list) /\ s.list.ent[id].type = "result"
    BY <1>0, <1>2 DEF Good, StateOK, Conns, Find
  <2>2. foreign => s.conn[a].old
    BY <2>1 DEF Fit, Remembers
  <2>3. Gives(s, r) /\ r.list = s.list /\ r.conn = s.conn /\ Good(r)
    BY <1>0, Notes DEF Gives
  <2>4. /\ r.wrong = s.wrong
        /\ r.mishap = "none" => s.mishap = "none" /\ ~foreign /\ r.undefined = s.undefined
    <3> HIDE DEF foreign
    <3> QED
      BY <1>0, <2>2 DEF Good, StateOK, MishapIf, Mishap
  <2>5. Finish(s, a) = IF u.conn[a] = Freed THEN Undefined(u) ELSE [u EXCEPT !.conn[a].active = NoId]
    BY <1>2 DEF Finish
  <2> HIDE DEF r
  <2>6. /\ StateOK(t) /\ t.list = r.list /\ t.conn = r.conn /\ t.plist = r.plist
        /\ t.index = r.index /\ t.wrong = FALSE /\ t.mishap = r.mishap /\ t.undefined = r.undefined
    <3> DEFINE also == foreign /\ ~s.conn[a].old
    <3>1. ~also /\ r.wrong = FALSE
      BY <2>2, <2>3, <2>4 DEF Good, StateOK, Fit
    <3>2. StateOK(r) /\ r.released \cup {id} \in SUBSET Nat
      BY <2>1, <2>3 DEF Good, StateOK
    <3> HIDE DEF also
    <3>3. t = [r EXCEPT !.wrong = FALSE, !.released = @ \cup {id}]
      <4>1. (r.wrong \/ also) = FALSE
        BY <3>1
      <4>2. t = [r EXCEPT !.wrong = r.wrong \/ also, !.released = @ \cup {id}]
        BY DEF also
      <4> QED
        BY <4>1, <4>2
    <3> HIDE DEF t
    <3> QED
      BY <3>2, <3>3 DEF StateOK
  <2> HIDE DEF t
  <2>7. Good(t)
    BY <2>3, <2>6, Untouched DEF Gives, Shrunk
  <2>8. s.wrong = FALSE
    BY <1>0 DEF Fit, Good, StateOK
  <2>9. Fit(t)
    BY <2>3, <2>4, <2>6, <2>7, <2>8, FitAlike
  <2>10. /\ Fit(w) /\ w.mishap = t.mishap /\ id \in Ids(w.list) /\ w.list.ent[id].type = "result"
         /\ w.mishap = "none" => w.list.ent[id].eof /\ w.conn[a] # Freed /\ w.conn[a].active = id
    BY <1>2, <2>1, <2>3, <2>4, <2>6, <2>9, FitReadsAll
  <2> HIDE DEF w
  <2>11. Fit(u) /\ Good(u)
    BY <2>10, FitDeletes DEF Fit
  <2>12. u.mishap = "none" =>
           /\ u.conn[a] # Freed /\ u.conn[a].active = id
           /\ id \in Ids(u.list) => u.list.ent[id].eof
    BY <2>10, ResultDeletes DEF Fit
  <2> HIDE DEF u
  <2>13. CASE u.conn[a] = Freed
    <3>1. Finish(s, a) = Undefined(u)
      BY <2>5, <2>13
    <3>2. /\ Undefined(u).list = u.list /\ Undefined(u).conn = u.conn
          /\ Undefined(u).wrong = u.wrong /\ Undefined(u).mishap = u.mishap
      BY <2>11 DEF Undefined, Good, StateOK
    <3> QED
      BY <1>0, <2>11, <2>12, <2>13, <3>1, <3>2, FitAlike
  <2>14. CASE u.conn[a] # Freed
    <3> DEFINE c == [u.conn[a] EXCEPT !.active = NoId]
               x == Finish(s, a)
    <3>1. x = [u EXCEPT !.conn[a].active = NoId]
      BY <2>5, <2>14
    <3>2. u.conn[a] \in Conns
      BY <2>11, <2>14, Entered
    <3>3. c \in Conns /\ c.kind = u.conn[a].kind /\ c.active = NoId
      BY <3>2 DEF Conns, NoId
    <3>4. /\ x.list = u.list /\ x.conn = [u.conn EXCEPT ![a] = c] /\ x.wrong = u.wrong
          /\ x.mishap = u.mishap /\ x.undefined = u.undefined
      BY <2>11, <3>1 DEF Good, StateOK
    <3>5. ASSUME u.mishap = "none" PROVE ~Unread(u, a)
      BY <2>11, <2>12, <3>5 DEF Fit, Backed, Unread
    <3> HIDE DEF x, c
    <3> QED
      BY <1>0, <2>11, <2>14, <3>3, <3>4, <3>5, FitChanged DEF x
  <2> QED
    BY <2>13, <2>14
<1> QED
  BY <1>1, <1>2

\* A step that ends, or waits for the default link, has nothing in hand.
LEMMA FitFree ==
  ASSUME call'.at \in {"idle", "open", "query"}
  PROVE  CallFit'
  BY DEF CallFit

\* Values, counts and marks that neither Good nor Fit speaks of.
LEMMA FitBeside ==
  ASSUME NEW s, NEW t, Fit(s), StateOK(t), t.list = s.list, t.conn = s.conn, t.plist = s.plist,
         t.index = s.index, t.wrong = s.wrong, t.mishap = s.mishap, t.undefined = s.undefined
  PROVE  Fit(t)
<1>1. Good(t)
  BY Untouched DEF Fit, Gives, Shrunk
<1> QED
  BY <1>1, FitAlike

LEMMA FitMarks ==
  ASSUME NEW s, Fit(s), NEW id \in Nat, NEW what \in {"links", "persistent"}
  PROVE  /\ Fit([s EXCEPT !.lost = @ \cup {id}]) /\ Fit([s EXCEPT !.released = @ \cup {id}])
         /\ Fit([s EXCEPT !.dflt = id]) /\ Fit(Miscount(s, what))
<1>1. Fit([s EXCEPT !.lost = @ \cup {id}])
  <2> DEFINE t == [s EXCEPT !.lost = @ \cup {id}]
  <2>1. /\ StateOK(t) /\ t.list = s.list /\ t.conn = s.conn /\ t.plist = s.plist /\ t.index = s.index
        /\ t.wrong = s.wrong /\ t.mishap = s.mishap /\ t.undefined = s.undefined
    BY DEF Fit, Good, StateOK
  <2> HIDE DEF t
  <2> QED
    BY <2>1, FitBeside DEF t
<1>2. Fit([s EXCEPT !.released = @ \cup {id}])
  <2> DEFINE t == [s EXCEPT !.released = @ \cup {id}]
  <2>1. /\ StateOK(t) /\ t.list = s.list /\ t.conn = s.conn /\ t.plist = s.plist /\ t.index = s.index
        /\ t.wrong = s.wrong /\ t.mishap = s.mishap /\ t.undefined = s.undefined
    BY DEF Fit, Good, StateOK
  <2> HIDE DEF t
  <2> QED
    BY <2>1, FitBeside DEF t
<1>3. Fit([s EXCEPT !.dflt = id])
  <2> DEFINE t == [s EXCEPT !.dflt = id]
  <2>1. /\ StateOK(t) /\ t.list = s.list /\ t.conn = s.conn /\ t.plist = s.plist /\ t.index = s.index
        /\ t.wrong = s.wrong /\ t.mishap = s.mishap /\ t.undefined = s.undefined
    BY DEF Fit, Good, StateOK
  <2> HIDE DEF t
  <2> QED
    BY <2>1, FitBeside DEF t
<1>4. Fit(Miscount(s, what))
  <2> DEFINE t == Miscount(s, what)
  <2>1. /\ StateOK(t) /\ t.list = s.list /\ t.conn = s.conn /\ t.plist = s.plist /\ t.index = s.index
        /\ t.wrong = s.wrong /\ t.mishap = s.mishap /\ t.undefined = s.undefined
    BY DEF Fit, Good, StateOK, Miscount
  <2> HIDE DEF t
  <2> QED
    BY <2>1, FitBeside DEF t
<1> QED
  BY <1>1, <1>2, <1>3, <1>4

\* A resource that is new refers to what is alive, and a result has been read.
LEMMA FitInserts ==
  ASSUME NEW s, NEW t, Fit(s), Good(t), NEW e \in Entries, t.list = Insert(s.list, e),
         t.conn = s.conn, t.wrong = s.wrong, t.mishap = s.mishap, t.undefined = s.undefined,
         e.type = "result" => e.ptr = Nowhere,
         s.mishap = "none" /\ e.ptr \in Addr =>
           /\ s.conn[e.ptr] # Freed
           /\ e.type = "plink" => s.conn[e.ptr].kind = "plink"
           /\ e.type = "link" => \A id \in Ids(s.list) : s.list.ent[id].ptr # e.ptr
  PROVE  Fit(t)
<1>1. /\ t.list.next = s.list.next + 1 /\ s.list.next \notin Ids(s.list)
      /\ Ids(t.list) = Ids(s.list) \cup {s.list.next} /\ t.list.ent[s.list.next] = e
      /\ \A id \in Ids(s.list) : t.list.ent[id] = s.list.ent[id]
  BY Inserts DEF Fit, Good, StateOK
<1>2. s.list.next \in Nat /\ Nowhere \notin Addr /\ \A id \in Ids(s.list) : id \in Nat /\ id < s.list.next
  BY Entered DEF Fit
<1>3. \A a \in Addr : s.conn[a] # Freed => s.conn[a].active \in Nat
  BY DEF Fit, Good, StateOK, Conns
<1>4. Remembers(t)
  BY <1>1, <1>2, <1>3 DEF Fit, Remembers
<1>5. ASSUME t.mishap = "none", NEW id \in Ids(t.list), NEW a \in Addr, t.list.ent[id].ptr = a
      PROVE  /\ t.conn[a] # Freed
             /\ t.list.ent[id].type = "plink" => t.conn[a].kind = "plink"
             /\ t.list.ent[id].type = "result" =>
                  /\ ~t.list.ent[id].eof => t.conn[a].status = "use" /\ t.conn[a].active = id
                  /\ \A other \in Ids(t.list) : LinkOf(t, other, a) => other < id
  <2>1. CASE id = s.list.next
    BY <1>1, <1>2, <1>5, <2>1
  <2>2. CASE id # s.list.next
    <3>1. id \in Ids(s.list) /\ s.list.ent[id] = t.list.ent[id] /\ s.list.ent[id].ptr = a
      BY <1>1, <1>5, <2>2
    <3>2. /\ s.conn[a] # Freed
          /\ s.list.ent[id].type = "plink" => s.conn[a].kind = "plink"
          /\ s.list.ent[id].type = "result" =>
               /\ ~s.list.ent[id].eof => s.conn[a].status = "use" /\ s.conn[a].active = id
               /\ \A other \in Ids(s.list) : LinkOf(s, other, a) => other < id
      BY <1>5, <3>1 DEF Fit, Backed
    <3>3. ASSUME NEW other \in Ids(t.list), LinkOf(t, other, a) PROVE other # s.list.next
      BY <1>1, <1>5, <3>1, <3>3 DEF LinkOf
    <3> QED
      BY <1>1, <3>1, <3>2, <3>3 DEF LinkOf
  <2> QED
    BY <2>1, <2>2
<1> QED
  BY <1>4, <1>5 DEF Fit, Backed

LEMMA FitPlinks ==
  ASSUME NEW s, Fit(s), NEW v, NEW d \in Details, NEW a \in Addr,
         s.mishap = "none" => s.conn[a] # Freed /\ s.conn[a].kind = "plink"
  PROVE  Fit(Plink(s, v, d, a))
<1> DEFINE e == Entry("plink", a, FALSE)
           t == [s EXCEPT !.list = Insert(@, e)]
           u == SetDefault(t, s.list.next)
<1>1. e \in Entries /\ e.type = "plink" /\ e.ptr = a
  BY MySQLAssumption DEF Entry, Entries
<1>2. s.list.next \in Nat
  BY Entered DEF Fit
<1>3. Plink(s, v, d, a) = Return(u, v, s.list.next)
  BY DEF Plink
<1> HIDE DEF e
<1>4. Good(t) /\ t.conn = s.conn /\ t.list = Insert(s.list, e)
  BY <1>1, InsertsOther DEF Fit
<1>5. t.wrong = s.wrong /\ t.mishap = s.mishap /\ t.undefined = s.undefined
  BY DEF Fit, Good, StateOK
<1> HIDE DEF t
<1>6. Fit(t)
  BY <1>1, <1>4, <1>5, FitInserts
<1>7. Fit(u)
  BY <1>2, <1>6, FitSetsDefault
<1> HIDE DEF u
<1> QED
  BY <1>2, <1>3, <1>7, FitReturns

LEMMA FitConnects ==
  ASSUME NEW s, Fit(s), NEW c \in Connecting({"connect", "open"}) \cup ConnectingAt({"registered"}),
         NEW id \in Nat, Connected(s, c, id)
  PROVE  Fit(m') /\ CallFit'
<1>1. Fit(Return(s, c.v, id)) /\ Fit(Return(s, c.v, NoId))
  BY FitReturns DEF NoId
<1>2. Fit([s EXCEPT !.lost = @ \cup {id}])
  BY FitMarks
<1>3. call'.at \in {"idle", "query"}
  BY DEF Connected, Idle, Connecting, ConnectingAt
<1> QED
  BY <1>1, <1>2, <1>3, FitFree DEF Connected

LEMMA FitStarts ==
  ASSUME Fit(m), NEW c, NEW id \in Nat, StartQuery(m, c, id)
  PROVE  Fit(m') /\ CallFit'
<1>1. CASE ~Find(m.list, id, Links)
  BY <1>1, FitReturns, FitFree DEF StartQuery, NoId, Idle
<1>2. CASE Find(m.list, id, Links)
  <2> DEFINE a == m.list.ent[id].ptr
             t == IF m.conn[a] = Freed THEN Undefined(m) ELSE Finish(m, a)
  <2>1. id \in Ids(m.list) /\ a \in Addr
    BY <1>2, Entered DEF Find, Fit, Links
  <2>2. Fit(t)
    <3>1. CASE m.conn[a] = Freed
      <4>1. m.mishap # "none"
        <5>1. m.mishap = "none" => Backed(m)
          BY DEF Fit
        <5> QED
          BY <2>1, <3>1, <5>1 DEF Backed
      <4>2. /\ Undefined(m).list = m.list /\ Undefined(m).conn = m.conn
            /\ Undefined(m).wrong = m.wrong /\ Undefined(m).mishap = m.mishap
        BY DEF Undefined, Fit, Good, StateOK
      <4>3. Good(Undefined(m))
        BY Notes DEF Fit, Gives
      <4> QED
        BY <3>1, <4>1, <4>2, <4>3, FitAlike
    <3>2. CASE m.conn[a] # Freed
      BY <2>1, <3>2, FitFinishes
    <3> QED
      BY <3>1, <3>2
  <2>3. \/ /\ ~t.undefined /\ t.conn[a].status = "ready" /\ m' = t
           /\ call' = [at |-> "sent", v |-> c.v, a |-> a, query |-> c.query]
        \/ m' = Return(t, c.v, NoId) /\ call' = Idle
    BY <1>2 DEF StartQuery
  <2> HIDE DEF t, a
  <2>4. CASE /\ t.conn[a].status = "ready" /\ m' = t
             /\ call' = [at |-> "sent", v |-> c.v, a |-> a, query |-> c.query]
    <3>1. call'.at = "sent" /\ call'.a = a
      BY <2>4
    <3>2. ASSUME m'.mishap = "none" PROVE ~Unread(m', a)
      BY <2>1, <2>2, <2>4, <3>2 DEF Fit, Backed, Unread
    <3> QED
      BY <2>2, <2>4, <3>1, <3>2 DEF CallFit
  <2>5. CASE m' = Return(t, c.v, NoId) /\ call' = Idle
    BY <2>2, <2>5, FitReturns, FitFree DEF NoId, Idle
  <2> QED
    BY <2>3, <2>4, <2>5
<1> QED
  BY <1>1, <1>2

(***************************************************************************)
(* The steps of a process, for what the list refers to                     *)
(***************************************************************************)
LEMMA Connect_fit ==
  ASSUME MemInv, NEW v \in Zvals, NEW d \in Details, NEW q \in Queries,
         Connect([at |-> "connect", kind |-> "link", v |-> v, d |-> d, query |-> q])
  PROVE  Fit(m') /\ CallFit'
<1> DEFINE c == [at |-> "connect", kind |-> "link", v |-> v, d |-> d, query |-> q]
           id == m.index[d]
<1>0. /\ c \in Connecting({"connect", "open"}) /\ id \in Nat /\ c.d = d /\ Good(m) /\ Fit(m)
      /\ [c EXCEPT !.at = "open"].at = "open"
  BY DEF MemInv, Fit, Good, StateOK, Connecting, Links
<1>a. Connect(c)
  OBVIOUS
<1> HIDE DEF c
<1>1. CASE id # NoId /\ Find(m.list, id, Links)
  <2> DEFINE s == [m EXCEPT !.list = AddRef(@, id)]
             t == SetDefault(s, id)
  <2>1. Connected(t, c, id)
    BY <1>0, <1>a, <1>1 DEF Connect
  <2>2. /\ ListOK(AddRef(m.list, id)) /\ Shrunk(m.list, AddRef(m.list, id))
        /\ Ids(AddRef(m.list, id)) = Ids(m.list)
    BY <1>0, AddsRef DEF Good, StateOK
  <2>3. /\ StateOK(s) /\ s.list = AddRef(m.list, id) /\ s.conn = m.conn /\ s.plist = m.plist
        /\ s.index = m.index /\ s.wrong = m.wrong /\ s.mishap = m.mishap /\ s.undefined = m.undefined
    BY <1>0, <2>2 DEF Good, StateOK
  <2>4. \A k \in Ids(AddRef(m.list, id)) : m.list.ent[k].eof => AddRef(m.list, id).ent[k].eof
    <3> HIDE DEF id
    <3> QED
      BY <1>0 DEF Good, StateOK, ListOK, AddRef, Ids, Entries
  <2> HIDE DEF s
  <2>5. Good(s)
    BY <1>0, <2>2, <2>3, Untouched DEF Gives
  <2>6. Fit(s)
    BY <1>0, <2>2, <2>3, <2>4, <2>5, FitShrunk
  <2>7. Fit(t)
    BY <1>0, <2>6, FitSetsDefault
  <2> HIDE DEF t, id
  <2> QED
    BY <1>0, <2>1, <2>7, FitConnects
<1>2. CASE ~(id # NoId /\ Find(m.list, id, Links))
  <2> DEFINE s == [m EXCEPT !.index[d] = NoId]
  <2>1. Good(s) /\ s.list = m.list /\ s.conn = m.conn
    BY <1>0, ForgetsIndex
  <2>2. s.wrong = m.wrong /\ s.mishap = m.mishap /\ s.undefined = m.undefined
    BY <1>0 DEF Good, StateOK
  <2>3. \/ Connected(s, c, NoId)
        \/ m' = s /\ call' = [c EXCEPT !.at = "open"]
    BY <1>0, <1>a, <1>2 DEF Connect
  <2> HIDE DEF s
  <2>4. Fit(s)
    BY <1>0, <2>1, <2>2, FitAlike
  <2> QED
    BY <1>0, <2>3, <2>4, FitConnects, FitFree DEF NoId
<1> QED
  BY <1>1, <1>2

\* A persistent link that is found is alive; one that is gone takes nothing with it that
\* somebody has a handle on, unless that is noted.
LEMMA Pconnect_fit ==
  ASSUME MemInv, NEW v \in Zvals, NEW d \in Details, PconnectNew(v, d) \/ PconnectOld(v, d)
  PROVE  Fit(m') /\ CallFit'
<1>0. Fit(m) /\ Good(m) /\ call = Idle
  BY DEF MemInv, Fit, PconnectNew, PconnectOld, Ready
<1>1. CASE PconnectNew(v, d)
  <2>1. call'.at \in {"idle", "open"} /\ (m' = m \/ m' = Return(m, v, NoId))
    BY <1>0, <1>1 DEF PconnectNew, Idle
  <2> QED
    BY <1>0, <2>1, FitReturns, FitFree DEF NoId
<1>2. CASE PconnectOld(v, d)
  <2> DEFINE a == m.plist[d]
             p == [m.plist EXCEPT ![d] = Nowhere]
             f == [m.conn EXCEPT ![a] = Freed]
             s == ClosePlink([m EXCEPT !.plist[d] = Nowhere], a)
             t == MishapIf(s, Handles(m, a) # {}, "orphan")
  <2>1. a # Nowhere /\ a \in Addr /\ m.conn[a] # Freed /\ m.conn[a].kind = "plink"
    <3>1. a # Nowhere
      BY <1>2 DEF PconnectOld
    <3>2. a \in Addr
      BY <1>0, <3>1 DEF Good, StateOK
    <3>3. LET c == m.conn[m.plist[d]] IN c # Freed /\ c.kind = "plink" /\ c.details = d
      BY <1>0, <3>1 DEF Good, Sound
    <3> QED
      BY <3>1, <3>2, <3>3
  <2>2. call' = Idle /\ (m' = Plink(m, v, d, a) \/ m' = Return(t, v, NoId))
    BY <1>0, <1>2 DEF PconnectOld
  <2>3. Good(s)
    BY <1>0, <2>1, FreesPlink
  <2>4. /\ s.list = m.list /\ s.conn = f /\ s.wrong = m.wrong /\ s.mishap = m.mishap
        /\ s.undefined = m.undefined
    BY <1>0 DEF ClosePlink, Good, StateOK
  <2>5. f[a] = Freed /\ \A b \in Addr \ {a} : f[b] = m.conn[b]
    BY <1>0, <2>1 DEF Good, StateOK
  <2> HIDE DEF s, f
  <2>6. /\ Good(t) /\ t.list = m.list /\ t.conn = f /\ t.wrong = m.wrong
        /\ t.mishap = "none" => /\ m.mishap = "none" /\ t.undefined = m.undefined
                                /\ Handles(m, a) = {}
    <3>1. Good(t) /\ t.list = s.list /\ t.conn = s.conn
      BY <2>3, Notes DEF Gives
    <3> HIDE DEF a
    <3>2. /\ t.wrong = s.wrong
          /\ t.mishap = "none" => s.mishap = "none" /\ t.undefined = s.undefined /\ Handles(m, a) = {}
      BY <2>3 DEF MishapIf, Mishap, Good, StateOK
    <3> QED
      BY <2>4, <3>1, <3>2
  <2> HIDE DEF t
  <2>7. Remembers(t)
    BY <1>0, <2>5, <2>6 DEF Fit, Remembers
  <2>8. ASSUME t.mishap = "none" PROVE Backed(t)
    <3>1. \A id \in Ids(m.list) : m.list.ent[id].ptr # a
      BY <2>6, <2>8 DEF Handles
    <3>2. Backed(m)
      BY <1>0, <2>6, <2>8 DEF Fit
    <3> HIDE DEF a
    <3> QED
      BY <2>5, <2>6, <3>1, <3>2 DEF Backed, LinkOf
  <2>9. Fit(t)
    BY <1>0, <2>6, <2>7, <2>8 DEF Fit
  <2>10. Fit(Plink(m, v, d, a))
    BY <1>0, <2>1, FitPlinks
  <2> HIDE DEF a
  <2> QED
    BY <2>2, <2>9, <2>10, FitReturns, FitFree DEF NoId, Idle
<1> QED
  BY <1>1, <1>2

\* No entry refers to the address of a connection that is new.
LEMMA Open_fit == ASSUME MemInv, Open PROVE Fit(m') /\ CallFit'
<1>1. call.at = "open" /\ Fit(m) /\ Good(m) /\ call \in Connecting({"connect", "open"})
  BY InHand DEF Open, MemInv, Fit
<1>2. CASE Connected(m, call, NoId)
  BY <1>1, <1>2, FitConnects DEF NoId
<1>3. ASSUME NEW a \in Addr, m.conn[a] = Freed,
             m' = [m EXCEPT !.conn[a] = Connection(call.kind, call.d)],
             call' = [at |-> "opened", kind |-> call.kind, v |-> call.v, d |-> call.d,
                      query |-> call.query, a |-> a]
      PROVE  Fit(m') /\ CallFit'
  <2> DEFINE c == Connection(call.kind, call.d)
             t == [m EXCEPT !.conn[a] = c]
  <2>1. c \in Conns /\ c.active = NoId /\ m' = t
    BY <1>1, <1>3 DEF Connection, Conns, Connecting, NoId
  <2> HIDE DEF c
  <2>2. /\ Good(t) /\ t.list = m.list /\ t.conn[a] = c /\ \A b \in Addr \ {a} : t.conn[b] = m.conn[b]
    BY <1>1, <1>3, <2>1, Opens
  <2>3. t.wrong = m.wrong /\ t.mishap = m.mishap /\ t.undefined = m.undefined
    BY <1>1 DEF Good, StateOK
  <2> HIDE DEF t
  <2>4. Remembers(t)
    BY <1>1, <2>1, <2>2, Entered DEF Fit, Remembers
  <2>5. ASSUME m.mishap = "none" PROVE \A id \in Ids(m.list) : m.list.ent[id].ptr # a
    BY <1>1, <1>3, <2>5 DEF Fit, Backed
  <2>6. ASSUME m.mishap = "none" PROVE Backed(t)
    BY <1>1, <2>2, <2>5, <2>6 DEF Fit, Backed, LinkOf
  <2>7. Fit(t)
    BY <1>1, <2>2, <2>3, <2>4, <2>6 DEF Fit
  <2>8. CallFit'
    BY <1>3, <2>1, <2>2, <2>3, <2>5 DEF CallFit
  <2> QED
    BY <2>1, <2>7, <2>8
<1> QED
  BY <1>2, <1>3 DEF Open

LEMMA Register_fit == ASSUME MemInv, Register PROVE Fit(m') /\ CallFit'
<1> DEFINE a == call.a
           d == call.d
<1>1. /\ call.at = "opened" /\ Fit(m) /\ Good(m) /\ call \in ConnectingAt({"opened"})
      /\ call' = [call EXCEPT !.at = "registered"] /\ a \in Addr /\ d \in Details
  BY InHand DEF Register, MemInv, Fit, ConnectingAt
<1>2. m.conn[a] # Freed /\ m.conn[a].kind = call.kind /\ m.conn[a].details = d
      /\ \A id \in Ids(m.list) : ~LinkOf(m, id, a)
  BY <1>1 DEF MemInv, IInv, CallOK
<1>3. m.mishap = "none" => \A id \in Ids(m.list) : m.list.ent[id].ptr # a
  BY <1>1 DEF MemInv, CallFit
<1>4. call'.at = "registered" /\ call'.kind = call.kind /\ call'.a = a
  BY <1>1 DEF ConnectingAt
<1> HIDE DEF a, d
<1>5. m'.conn = m.conn /\ m'.mishap = m.mishap /\ Fit(m')
  <2>1. CASE call.kind = "link"
    <3> DEFINE e == Entry("link", a, FALSE)
               t == [m EXCEPT !.list = Insert(@, e), !.index[d] = m.list.next]
    <3>1. m' = t
      BY <2>1 DEF Register, a, d
    <3>2. Good(t) /\ t.list = Insert(m.list, e) /\ t.conn = m.conn
      <4>1. m.conn[a] # Freed /\ m.conn[a].kind = "link" /\ m.conn[a].details = d
        BY <1>2, <2>1
      <4>2. \A id \in Ids(m.list) : ~LinkOf(m, id, a)
        BY <1>2
      <4>3. LET x == [m EXCEPT !.list = Insert(@, Entry("link", a, FALSE)), !.index[d] = m.list.next]
            IN  /\ Good(x) /\ x.list = Insert(m.list, Entry("link", a, FALSE)) /\ x.conn = m.conn
        <5> HIDE DEF t, e
        <5> QED
          BY <1>1, <4>1, <4>2, InsertsLink
      <4> QED
        BY <4>3
    <3>3. t.wrong = m.wrong /\ t.mishap = m.mishap /\ t.undefined = m.undefined
      BY <1>1 DEF Good, StateOK
    <3>4. e \in Entries /\ e.type = "link" /\ e.ptr = a
      BY <1>1, MySQLAssumption DEF Entry, Entries
    <3> HIDE DEF t, e
    <3> QED
      BY <1>1, <1>2, <1>3, <3>1, <3>2, <3>3, <3>4, FitInserts
  <2>2. CASE call.kind = "plink"
    <3> DEFINE t == [m EXCEPT !.plist[d] = a]
    <3>1. m' = t
      BY <2>2 DEF Register, a, d
    <3>2. Good(t) /\ t.list = m.list /\ t.conn = m.conn
      BY <1>1, <1>2, <2>2, ListsPlink
    <3>3. t.wrong = m.wrong /\ t.mishap = m.mishap /\ t.undefined = m.undefined
      BY <1>1 DEF Good, StateOK
    <3> HIDE DEF t
    <3> QED
      BY <1>1, <3>1, <3>2, <3>3, FitAlike
  <2> QED
    BY <1>1, <2>1, <2>2 DEF ConnectingAt, Links
<1> QED
  BY <1>2, <1>4, <1>5 DEF CallFit

LEMMA Count_fit == ASSUME MemInv, Count PROVE Fit(m') /\ CallFit'
<1>1. /\ call.at = "registered" /\ Fit(m) /\ Good(m) /\ call \in ConnectingAt({"registered"})
      /\ call.d \in Details /\ call.a \in Addr /\ m.conn[call.a] # Freed
  BY InHand DEF Count, MemInv, IInv, CallOK, Fit, ConnectingAt
<1>2. m.links + 1 \in Int /\ m.pers + 1 \in Int /\ m.index[call.d] \in Nat
  BY <1>1 DEF Good, StateOK
<1>3. CASE call.kind = "link"
  <2> DEFINE id == m.index[call.d]
             s == [m EXCEPT !.links = m.links + 1]
  <2>1. Connected(SetDefault(s, id), call, id)
    BY <1>3 DEF Count
  <2>2. /\ StateOK(s) /\ s.list = m.list /\ s.conn = m.conn /\ s.plist = m.plist /\ s.index = m.index
        /\ s.wrong = m.wrong /\ s.mishap = m.mishap /\ s.undefined = m.undefined
    BY <1>1, <1>2 DEF Good, StateOK
  <2> HIDE DEF s
  <2>3. Fit(SetDefault(s, id))
    BY <1>1, <1>2, <2>2, FitBeside, FitSetsDefault
  <2> QED
    BY <1>1, <1>2, <2>1, <2>3, FitConnects
<1>4. CASE call.kind # "link"
  <2> DEFINE s == [m EXCEPT !.links = m.links + 1, !.pers = m.pers + 1]
  <2>1. m' = Plink(s, call.v, call.d, call.a) /\ call' = Idle
    BY <1>4 DEF Count
  <2>2. /\ StateOK(s) /\ s.list = m.list /\ s.conn = m.conn /\ s.plist = m.plist /\ s.index = m.index
        /\ s.wrong = m.wrong /\ s.mishap = m.mishap /\ s.undefined = m.undefined
    BY <1>1, <1>2 DEF Good, StateOK
  <2>3. m.mishap = "none" => m.conn[call.a].kind = "plink"
    BY <1>1, <1>4 DEF MemInv, CallFit, ConnectingAt, Links
  <2> HIDE DEF s
  <2>4. Fit(s)
    BY <1>1, <2>2, FitBeside
  <2> QED
    BY <1>1, <2>1, <2>2, <2>3, <2>4, FitPlinks, FitFree DEF Idle
<1> QED
  BY <1>3, <1>4

LEMMA Query_fit ==
  ASSUME MemInv, NEW v \in Zvals, NEW q \in {"store", "use"},
         \/ \E w \in Zvals : MysqlQuery(v, w, q)
         \/ QueryDefault(v, q)
         \/ QueryImplicit
  PROVE  Fit(m') /\ CallFit'
<1>1. Fit(m) /\ m.dflt \in Nat /\ \A w \in Zvals : m.zval[w] \in Nat
  BY DEF MemInv, Fit, Good, StateOK
<1>2. ASSUME NEW w \in Zvals, MysqlQuery(v, w, q) PROVE Fit(m') /\ CallFit'
  BY <1>1, <1>2, FitStarts DEF MysqlQuery
<1>3. CASE QueryDefault(v, q)
  <2>1. CASE m.dflt # NoId
    BY <1>1, <1>3, <2>1, FitStarts DEF QueryDefault
  <2>2. CASE m.dflt = NoId
    <3>1. Connect([at |-> "connect", kind |-> "link", v |-> v, d |-> Preset, query |-> q])
      BY <1>3, <2>2 DEF QueryDefault
    <3>2. q \in Queries /\ Preset \in Details
      BY MySQLAssumption DEF Queries
    <3> QED
      BY <3>1, <3>2, Connect_fit
  <2> QED
    BY <2>1, <2>2
<1>4. CASE QueryImplicit
  BY <1>1, <1>4, FitStarts DEF QueryImplicit
<1> QED
  BY <1>2, <1>3, <1>4

\* The rows of a query begin or end when none of an earlier one are left.
LEMMA FitStatus ==
  ASSUME NEW s, Fit(s), NEW a \in Addr, s.conn[a] # Freed, NEW x \in {"ready", "get", "use"},
         s.mishap = "none" => ~Unread(s, a), Synced(s, {a}), Listed(s, {})
  PROVE  LET t == [s EXCEPT !.conn[a].status = x] IN
         Fit(t) /\ t.list = s.list /\ t.mishap = s.mishap
<1> DEFINE c == [s.conn[a] EXCEPT !.status = x]
           t == [s EXCEPT !.conn[a].status = x]
<1>1. Good(s) /\ s.conn[a] \in Conns
  BY Entered DEF Fit
<1>2. c \in Conns /\ c.kind = s.conn[a].kind /\ c.active = s.conn[a].active /\ c.old = s.conn[a].old
  BY <1>1 DEF Conns
<1>3. Good(t)
  BY <1>1, SetsStatus
<1>4. /\ t.list = s.list /\ t.conn = [s.conn EXCEPT ![a] = c] /\ t.wrong = s.wrong
      /\ t.mishap = s.mishap /\ t.undefined = s.undefined
  BY <1>1 DEF Good, StateOK
<1> HIDE DEF c, t
<1>5. Fit(t)
  BY <1>2, <1>3, <1>4, FitChanged
<1> QED
  BY <1>4, <1>5 DEF t

LEMMA Answer_fit == ASSUME MemInv, Answer PROVE Fit(m') /\ CallFit'
<1> DEFINE a == call.a
           t == [m EXCEPT !.conn[a].status = "get"]
<1>1. /\ call.at = "sent" /\ Fit(m) /\ a \in Addr /\ m.conn[a] # Freed /\ call \in Working({"sent"})
      /\ m.mishap = "none" => ~Unread(m, a)
  BY InHand DEF Answer, MemInv, IInv, CallOK, CallFit, Working
<1>2. Synced(m, {a}) /\ Listed(m, {})
  BY <1>1, IsFine DEF MemInv, Fine, Synced
<1>3. CASE m' = Return(m, call.v, NoId) /\ call' = Idle
  BY <1>1, <1>3, FitReturns, FitFree DEF NoId, Idle
<1>4. CASE m' = t /\ call' = [call EXCEPT !.at = "rows"]
  <2>1. call'.at = "rows" /\ call'.a = a
    BY <1>1, <1>4 DEF Working
  <2> HIDE DEF a
  <2>2. Fit(t) /\ t.list = m.list /\ t.mishap = m.mishap
    BY <1>1, <1>2, FitStatus
  <2> HIDE DEF t
  <2> QED
    BY <1>1, <1>4, <2>1, <2>2 DEF CallFit, Unread
<1> QED
  BY <1>3, <1>4 DEF Answer

LEMMA Rows_fit == ASSUME MemInv, Store \/ Use PROVE Fit(m') /\ CallFit'
<1> DEFINE a == call.a
<1>1. /\ call.at = "rows" /\ Fit(m) /\ a \in Addr /\ m.conn[a] # Freed /\ call \in Working({"rows"})
      /\ m.mishap = "none" => ~Unread(m, a)
  BY InHand DEF Store, Use, MemInv, IInv, CallOK, CallFit, Working
<1>2. Synced(m, {a}) /\ Listed(m, {})
  BY <1>1 DEF MemInv, IInv, Querying, Opening
<1>3. CASE Use
  <2> DEFINE t == [m EXCEPT !.conn[a].status = "use"]
  <2>1. m' = t /\ call' = [call EXCEPT !.at = "used"]
    BY <1>3 DEF Use
  <2>2. call'.at = "used" /\ call'.a = a
    BY <1>1, <2>1 DEF Working
  <2> HIDE DEF a
  <2>3. Fit(t) /\ t.list = m.list /\ t.mishap = m.mishap
    BY <1>1, <1>2, FitStatus
  <2> HIDE DEF t
  <2> QED
    BY <1>1, <2>1, <2>2, <2>3 DEF CallFit, Unread
<1>4. CASE Store
  <2> DEFINE s == [m EXCEPT !.conn[a].status = "ready"]
             e == Entry("result", Nowhere, TRUE)
             t == [s EXCEPT !.list = Insert(@, e)]
  <2>1. call' = Idle /\ (m' = Return(t, call.v, s.list.next) \/ m' = Return(s, call.v, NoId))
    BY <1>4 DEF Store, NewResult
  <2> HIDE DEF a
  <2>2. Fit(s)
    BY <1>1, <1>2, FitStatus
  <2> HIDE DEF s
  <2>3. e \in Entries /\ e.type = "result" /\ e.ptr = Nowhere
    BY DEF Entry, Entries
  <2> HIDE DEF e
  <2>4. Good(t) /\ t.conn = s.conn /\ t.list = Insert(s.list, e) /\ s.list.next \in Nat
    BY <2>2, <2>3, InsertsOther, Entered DEF Fit
  <2>5. t.wrong = s.wrong /\ t.mishap = s.mishap /\ t.undefined = s.undefined
    BY <2>2 DEF Fit, Good, StateOK
  <2> HIDE DEF t
  <2>6. Fit(t)
    BY <2>2, <2>3, <2>4, <2>5, MySQLAssumption, FitInserts
  <2> QED
    BY <2>1, <2>2, <2>4, <2>6, FitReturns, FitFree DEF NoId, Idle
<1> QED
  BY <1>3, <1>4

\* The connection remembers its result, which is the only one that has rows left.
LEMMA Used_fit == ASSUME MemInv, Used PROVE Fit(m') /\ CallFit'
<1> DEFINE a == call.a
           new == m.list.next
           c == [m.conn[a] EXCEPT !.active = m.list.next, !.old = FALSE]
           s == [m EXCEPT !.conn[a] = c]
           e == Entry("result", a, FALSE)
           t == [s EXCEPT !.list = Insert(@, e)]
<1>1. /\ call.at = "used" /\ Fit(m) /\ Good(m) /\ a \in Addr /\ m.conn[a] # Freed
      /\ m.conn[a].status = "use"
      /\ m.mishap = "none" => ~Unread(m, a)
  BY InHand DEF Used, MemInv, IInv, CallOK, CallFit, Working, Fit
<1>2. m.conn[a] \in Conns /\ new \in Nat
  BY <1>1, Entered
<1>3. /\ c \in Conns /\ c.kind = m.conn[a].kind /\ c.details = m.conn[a].details
      /\ c.cut = m.conn[a].cut /\ c.status = "use" /\ c.active = new /\ c.old = FALSE
  <2> HIDE DEF a
  <2>1. m.conn[a] \in Conns /\ m.list.next \in Nat
    BY <1>2
  <2>2. m.conn[a].status = "use"
    BY <1>1
  <2>3. c \in Conns /\ c.active = m.list.next /\ c.old = FALSE
    BY <2>1 DEF Conns
  <2> QED
    BY <2>1, <2>2, <2>3 DEF Conns
<1>4. m' = Return(t, call.v, new) /\ call' = Idle
  <2>1. m' = NewResult(s, call.v, a, FALSE) /\ call' = Idle
    BY <1>1, <1>2 DEF Used, Good, StateOK
  <2>2. s.list = m.list
    BY <1>1 DEF Good, StateOK
  <2> HIDE DEF s
  <2> QED
    BY <2>1, <2>2 DEF NewResult
<1>5. e \in Entries /\ e.type = "result" /\ e.ptr = a /\ ~e.eof
  BY <1>1, MySQLAssumption DEF Entry, Entries
<1> HIDE DEF c, e, a
<1>6. /\ Good(s) /\ s.list = m.list /\ s.conn[a] = c /\ c # Freed
      /\ \A b \in Addr \ {a} : s.conn[b] = m.conn[b]
  BY <1>1, <1>3, Changes
<1>7. s.wrong = m.wrong /\ s.mishap = m.mishap /\ s.undefined = m.undefined
  BY <1>1 DEF Good, StateOK
<1> HIDE DEF s
<1>8. Good(t) /\ t.conn = s.conn /\ t.list = Insert(m.list, e)
  BY <1>5, <1>6, InsertsOther
<1>9. t.wrong = m.wrong /\ t.mishap = m.mishap /\ t.undefined = m.undefined
  BY <1>6, <1>7 DEF Good, StateOK
<1> HIDE DEF t
<1>10. /\ t.list.next = new + 1 /\ new \notin Ids(m.list)
       /\ Ids(t.list) = Ids(m.list) \cup {new} /\ t.list.ent[new] = e
       /\ \A id \in Ids(m.list) : t.list.ent[id] = m.list.ent[id]
  BY <1>1, <1>5, <1>8, Inserts DEF Good, StateOK
<1>11. \A id \in Ids(m.list) : id \in Nat /\ id < new
  BY <1>1, Entered
<1>12. \A b \in Addr : m.conn[b] # Freed => m.conn[b].active \in Nat
  BY <1>1 DEF Good, StateOK, Conns
<1> HIDE DEF new
<1>13. Remembers(t)
  <2>1. ASSUME NEW b \in Addr, t.conn[b] # Freed, ~t.conn[b].old
        PROVE  /\ t.conn[b].active < t.list.next
               /\ t.conn[b].active \in Ids(t.list) =>
                    LET x == t.list.ent[t.conn[b].active] IN x.type = "result" /\ x.ptr = b
    <3>1. CASE b = a
      BY <1>2, <1>3, <1>5, <1>6, <1>8, <1>10, <3>1
    <3>2. CASE b # a
      <4>1. t.conn[b] = m.conn[b]
        BY <1>6, <1>8, <3>2
      <4>2. /\ m.conn[b].active < new
            /\ m.conn[b].active \in Ids(m.list) =>
                 LET x == m.list.ent[m.conn[b].active] IN x.type = "result" /\ x.ptr = b
        BY <1>1, <2>1, <4>1 DEF Fit, Remembers, new
      <4> QED
        BY <1>2, <1>10, <1>12, <2>1, <4>1, <4>2
    <3> QED
      BY <3>1, <3>2
  <2> QED
    BY <2>1 DEF Remembers
<1>14. ASSUME m.mishap = "none", NEW id \in Ids(t.list), NEW b \in Addr, t.list.ent[id].ptr = b
       PROVE  /\ t.conn[b] # Freed
              /\ t.list.ent[id].type = "plink" => t.conn[b].kind = "plink"
              /\ t.list.ent[id].type = "result" =>
                   /\ ~t.list.ent[id].eof => t.conn[b].status = "use" /\ t.conn[b].active = id
                   /\ \A other \in Ids(t.list) : LinkOf(t, other, b) => other < id
  <2>1. \A other \in Ids(t.list) : LinkOf(t, other, b) => other # new /\ LinkOf(m, other, b)
    BY <1>5, <1>10 DEF LinkOf
  <2>2. CASE id = new
    BY <1>3, <1>5, <1>6, <1>8, <1>10, <1>11, <1>14, <2>1, <2>2
  <2>3. CASE id # new
    <3>1. id \in Ids(m.list) /\ m.list.ent[id] = t.list.ent[id]
      BY <1>10, <2>3
    <3>2. /\ m.conn[b] # Freed
          /\ m.list.ent[id].type = "plink" => m.conn[b].kind = "plink"
          /\ m.list.ent[id].type = "result" =>
               /\ ~m.list.ent[id].eof => m.conn[b].status = "use" /\ m.conn[b].active = id
               /\ \A other \in Ids(m.list) : LinkOf(m, other, b) => other < id
      BY <1>1, <1>14, <3>1 DEF Fit, Backed
    <3>3. CASE b = a
      BY <1>1, <1>3, <1>6, <1>8, <1>10, <1>14, <2>1, <3>1, <3>2, <3>3 DEF Unread
    <3>4. CASE b # a
      BY <1>6, <1>8, <1>10, <2>1, <3>1, <3>2, <3>4
    <3> QED
      BY <3>3, <3>4
  <2> QED
    BY <2>2, <2>3
<1>15. Fit(t)
  BY <1>1, <1>8, <1>9, <1>13, <1>14 DEF Fit, Backed
<1> QED
  BY <1>2, <1>4, <1>15, FitReturns, FitFree DEF Idle

LEMMA Values_fit ==
  ASSUME MemInv,
         \/ \E v \in Zvals :
              FetchLast(v) \/ MysqlFreeResult(v) \/ MysqlClose(v) \/ Unset(v) \/ DestroyVar(v)
         \/ CloseDefault
  PROVE  Fit(m') /\ CallFit'
<1>1. Fit(m) /\ m.dflt \in Nat /\ call' = Idle
  <2>1. call = Idle /\ call' = call
    BY DEF FetchLast, MysqlFreeResult, MysqlClose, Unset, DestroyVar, CloseDefault, Ready, MemInv,
           IInv, CallOK
  <2> QED
    BY <2>1 DEF MemInv, Fit, Good, StateOK
<1>2. Fit(m')
  <2>1. CASE CloseDefault
    <3> DEFINE t == Delete(m, m.dflt)
    <3>1. m' = [t EXCEPT !.dflt = NoId] /\ Fit(t)
      BY <1>1, <2>1, FitDeletes DEF CloseDefault
    <3> HIDE DEF t
    <3> QED
      BY <3>1, FitMarks DEF NoId
  <2>2. ASSUME NEW v \in Zvals,
               FetchLast(v) \/ MysqlFreeResult(v) \/ MysqlClose(v) \/ Unset(v) \/ DestroyVar(v)
        PROVE  Fit(m')
    <3> DEFINE id == m.zval[v]
               s == [m EXCEPT !.released = @ \cup {id}]
               t == Delete(s, id)
               u == Delete(t, id)
    <3>1. id \in Nat
      BY <1>1 DEF Fit, Good, StateOK
    <3>2. \/ FetchLast(v) /\ m' = ReadAll(m, id) /\ Find(m.list, id, {"result"}) /\ ~m.list.ent[id].eof
          \/ m' = t
          \/ m' = [u EXCEPT !.dflt = NoId]
          \/ m' = Return(m, v, NoId)
      BY <2>2 DEF FetchLast, MysqlFreeResult, MysqlClose, Unset, DestroyVar
    <3> HIDE DEF id
    <3>3. Fit(s)
      BY <1>1, <3>1, FitMarks
    <3> HIDE DEF s
    <3>4. Fit(t) /\ Fit(u)
      BY <3>3, FitDeletes
    <3> HIDE DEF t, u
    <3>5. Fit([u EXCEPT !.dflt = NoId]) /\ Fit(Return(m, v, NoId))
      BY <1>1, <3>4, FitMarks, FitReturns DEF NoId
    <3> QED
      BY <1>1, <3>2, <3>4, <3>5, FitReadsAll DEF Find
  <2> QED
    BY <2>1, <2>2
<1> QED
  BY <1>1, <1>2, FitFree DEF Idle

\* A function that is cut off leaves its connection, of which no result is read on.
LEMMA FitCuts ==
  ASSUME NEW s, Fit(s), NEW a \in Addr
  PROVE  Fit(CutOff(s, a))
<1>1. Good(s) /\ s.conn[a] \in Conns \cup {Freed}
  BY Entered DEF Fit
<1>2. CASE s.conn[a] = Freed
  BY <1>2 DEF CutOff
<1>3. CASE s.conn[a] # Freed
  <2> DEFINE c == [s.conn[a] EXCEPT !.cut = TRUE]
             t == [s EXCEPT !.conn[a] = c]
  <2>1. CutOff(s, a) = t
    BY <1>1, <1>3 DEF CutOff, Good, StateOK
  <2>2. /\ c \in Conns /\ c.kind = s.conn[a].kind /\ c.details = s.conn[a].details
        /\ c.active = s.conn[a].active /\ c.old = s.conn[a].old /\ c.status = s.conn[a].status
        /\ c.cut
    BY <1>1, <1>3 DEF Conns
  <2> HIDE DEF c
  <2>3. Good(t)
    BY <1>1, <1>3, <2>2, Changes
  <2>4. /\ t.list = s.list /\ t.conn = [s.conn EXCEPT ![a] = c] /\ t.wrong = s.wrong
        /\ t.mishap = s.mishap /\ t.undefined = s.undefined
    BY <1>1 DEF Good, StateOK
  <2> HIDE DEF t
  <2> QED
    BY <1>3, <2>1, <2>2, <2>3, <2>4, FitChanged
<1> QED
  BY <1>2, <1>3

LEMMA Timeout_fit == ASSUME MemInv, Timeout PROVE Fit(m') /\ CallFit'
<1>1. call # Idle /\ call' = Idle /\ Fit(m) /\ Good(m)
  BY DEF Timeout, MemInv, Fit
<1>2. CASE call.at = "registered"
  <2>1. call \in ConnectingAt({"registered"})
    BY <1>2, InHand DEF MemInv
  <2>2. m.index[call.d] \in Nat
    BY <1>1, <2>1 DEF ConnectingAt, Good, StateOK
  <2> DEFINE s == [m EXCEPT !.lost = @ \cup {m.index[call.d]}]
  <2>3. m' = Miscount(s, "links") \/ m' = Miscount(m, "persistent")
    BY <1>2, <2>1 DEF Timeout, ConnectingAt, Links
  <2>4. Fit(s)
    BY <1>1, <2>2, FitMarks
  <2> HIDE DEF s
  <2> QED
    BY <1>1, <2>3, <2>4, FitMarks, FitFree DEF Idle
<1>3. CASE call.at \in {"opened", "sent", "rows", "used"}
  <2>1. m' = CutOff(m, call.a)
    BY <1>3 DEF Timeout
  <2>2. call.a \in Addr
    BY <1>3, InHand DEF MemInv, ConnectingAt, Working
  <2> QED
    BY <1>1, <2>1, <2>2, FitCuts, FitFree DEF Idle
<1>4. CASE call.at \notin {"registered", "opened", "sent", "rows", "used"}
  <2>1. m' = m
    BY <1>4 DEF Timeout
  <2> QED
    BY <1>1, <2>1, FitFree DEF Idle
<1> QED
  BY <1>2, <1>3, <1>4

LEMMA BeginRequest_fit == ASSUME MemInv, BeginRequest PROVE Fit(m') /\ CallFit'
<1>1. call' = Idle /\ Fit(m) /\ Good(m)
  BY DEF BeginRequest, MemInv, IInv, CallOK, Fit
<1>2. /\ StateOK(m') /\ m'.list = m.list /\ m'.conn = m.conn /\ m'.plist = m.plist
      /\ m'.index = m.index /\ m'.wrong = m.wrong /\ m'.mishap = m.mishap
      /\ m'.undefined = m.undefined
  BY <1>1 DEF BeginRequest, Good, StateOK, NoId
<1> QED
  BY <1>1, <1>2, FitBeside, FitFree DEF Idle

\* The newest entry goes first: when a link does, no results are left of it.
LEMMA DestroyNewest_fit == ASSUME MemInv, DestroyNewest PROVE Fit(m') /\ CallFit'
<1>1. call' = Idle /\ Fit(m) /\ Good(m)
  BY DEF DestroyNewest, MemInv, IInv, CallOK, Fit
<1>2. PICK id \in Ids(m.list) : Newest(m.list, id) /\ m' = Destroy(m, id)
  BY DEF DestroyNewest
<1> DEFINE a == m.list.ent[id].ptr
<1>3. ASSUME m.mishap = "none", m.list.ent[id].type = "link" PROVE Results(m, a) = {}
  <2>1. a \in Addr /\ LinkOf(m, id, a)
    BY <1>1, <1>3, Entered DEF LinkOf
  <2>2. ASSUME NEW k \in Ids(m.list), m.list.ent[k].type = "result", m.list.ent[k].ptr = a
        PROVE  FALSE
    <3>1. id < k
      <4>1. \A other \in Ids(m.list) : LinkOf(m, other, a) => other < k
        BY <1>1, <1>3, <2>1, <2>2 DEF Fit, Backed
      <4> HIDE DEF a
      <4> QED
        BY <2>1, <4>1
    <3>2. k <= id /\ k \in Nat /\ id \in Nat
      BY <1>1, <1>2, Entered DEF Newest
    <3> QED
      BY <3>1, <3>2
  <2> QED
    BY <2>2 DEF Results
<1>4. Fit(m')
  BY <1>1, <1>2, <1>3, FitDestroys
<1> QED
  BY <1>1, <1>4, FitFree DEF Idle

LEMMA DestroyCut_fit == ASSUME MemInv, DestroyCut PROVE Fit(m') /\ CallFit'
<1>1. call' = Idle /\ Fit(m) /\ Good(m)
  BY DEF DestroyCut, MemInv, IInv, CallOK, Fit
<1>2. PICK id \in Ids(m.list) :
        LET e == m.list.ent[id]
            s == [m EXCEPT !.list = Remove(@, id)]
        IN  m' = CASE e.type = "link"   -> Miscount(s, "links")
                   [] e.type = "plink"  -> s
                   [] e.type = "result" -> IF e.ptr = Nowhere THEN s ELSE CutOff(s, e.ptr)
  BY DEF DestroyCut
<1> DEFINE e == m.list.ent[id]
           l == Remove(m.list, id)
           s == [m EXCEPT !.list = Remove(@, id)]
<1>3. e.ptr \in Addr \cup {Nowhere} /\ e.type \in {"link", "plink", "result"}
  BY <1>1, Entered
<1>4. m' = s \/ m' = Miscount(s, "links") \/ (e.ptr \in Addr /\ m' = CutOff(s, e.ptr))
  <2>1. /\ e.type = "link" => m' = Miscount(s, "links")
        /\ e.type = "plink" => m' = s
        /\ e.type = "result" => m' = IF e.ptr = Nowhere THEN s ELSE CutOff(s, e.ptr)
    BY <1>2
  <2> HIDE DEF s, e
  <2> QED
    BY <1>3, <2>1
<1>5. /\ Good(s) /\ s.conn = m.conn /\ s.list = l /\ s.wrong = m.wrong
      /\ s.mishap = m.mishap /\ s.undefined = m.undefined
  <2>1. Good(s)
    BY <1>1, Takes
  <2> QED
    BY <1>1, <2>1 DEF Good, StateOK
<1>6. Shrunk(m.list, l) /\ Ids(l) = Ids(m.list) \ {id} /\ l.ent = Restrict(m.list.ent, Ids(m.list) \ {id})
  <2>1. Shrunk(m.list, l) /\ Ids(l) = Ids(m.list) \ {id}
    BY <1>1, Removes DEF Good, StateOK
  <2>2. l.ent = Restrict(m.list.ent, Ids(m.list) \ {id})
    BY <1>1 DEF Good, StateOK, ListOK, Remove
  <2> QED
    BY <2>1, <2>2
<1>7. \A k \in Ids(l) : m.list.ent[k].eof => l.ent[k].eof
  <2> HIDE DEF l
  <2> QED
    BY <1>6 DEF Restrict
<1> HIDE DEF s, l
<1>8. Fit(s)
  BY <1>1, <1>5, <1>6, <1>7, FitShrunk
<1> HIDE DEF e
<1> QED
  BY <1>1, <1>4, <1>8, FitMarks, FitCuts, FitFree DEF Idle

\* A new request has no ids, and what a persistent link remembers is from then on old.
LEMMA EndRequest_fit == ASSUME MemInv, EndRequest PROVE Fit(m') /\ CallFit'
<1>1. call' = Idle /\ Fit(m) /\ Good(m) /\ Good(m')
  BY EndRequest_step DEF EndRequest, MemInv, IInv, CallOK, Fit
<1> DEFINE f == [a \in Addr |-> Kept(m.conn[a])]
<1>2. /\ m'.conn = f /\ m'.list = EmptyList /\ m'.wrong = m.wrong /\ m'.undefined = m.undefined
  BY <1>1 DEF EndRequest, Good, StateOK
<1>3. m.undefined = FALSE
  BY <1>1 DEF EndRequest, Good, StateOK
<1>4. Ids(EmptyList) = {} /\ EmptyList.next = 1
  BY DEF EmptyList, Ids
<1>5. ASSUME NEW a \in Addr, f[a] # Freed, ~f[a].old PROVE f[a].active = NoId
  <2>1. m.conn[a] \in Conns \cup {Freed} /\ f[a] = Kept(m.conn[a])
    BY <1>1, Entered
  <2> HIDE DEF f
  <2>2. m.conn[a] \in Conns /\ f[a] = [m.conn[a] EXCEPT !.old = m.conn[a].active # NoId]
    BY <1>5, <2>1 DEF Kept
  <2> QED
    BY <1>5, <2>2 DEF Conns
<1> HIDE DEF f
<1>6. Remembers(m')
  BY <1>2, <1>4, <1>5 DEF Remembers, NoId
<1>7. Backed(m')
  BY <1>2, <1>4 DEF Backed
<1> QED
  BY <1>1, <1>2, <1>3, <1>6, <1>7, FitFree DEF Fit, Idle

LEMMA FitFirst == ASSUME TRUE PROVE Fit(Start)
<1>1. Good(Start) /\ Start.list = EmptyList /\ Ids(EmptyList) = {}
      /\ ~Start.wrong /\ ~Start.undefined /\ \A a \in Addr : Start.conn[a] = Freed
  BY Initially DEF Start, EmptyList, Ids
<1>2. Remembers(Start) /\ Backed(Start)
  BY <1>1 DEF Remembers, Backed
<1> QED
  BY <1>1, <1>2 DEF Fit

LEMMA Next_fit == ASSUME MemInv, [Next]_vars PROVE MemInv'
<1>0. IInv'
  BY Next_step DEF MemInv
<1> SUFFICES Fit(m') /\ CallFit'
  BY <1>0 DEF MemInv
<1>1. ASSUME NEW v \in Zvals, NEW d \in Details,
             MysqlConnect(v, d) \/ PconnectNew(v, d) \/ PconnectOld(v, d)
      PROVE  Fit(m') /\ CallFit'
  BY <1>1, Connect_fit, Pconnect_fit DEF MysqlConnect, Queries
<1>2. CASE Open \/ Register \/ Count
  BY <1>2, Open_fit, Register_fit, Count_fit
<1>3. ASSUME NEW v \in Zvals, NEW w \in Zvals, NEW q \in {"store", "use"}, MysqlQuery(v, w, q)
      PROVE  Fit(m') /\ CallFit'
  BY <1>3, Query_fit
<1>4. ASSUME NEW v \in Zvals, NEW q \in {"store", "use"}, QueryDefault(v, q)
      PROVE  Fit(m') /\ CallFit'
  BY <1>4, Query_fit
<1>5. CASE QueryImplicit
  <2>1. Fit(m) /\ m.dflt \in Nat
    BY DEF MemInv, Fit, Good, StateOK
  <2> QED
    BY <1>5, <2>1, FitStarts DEF QueryImplicit
<1>6. CASE Answer \/ Store \/ Use \/ Used
  BY <1>6, Answer_fit, Rows_fit, Used_fit
<1>7. ASSUME NEW v \in Zvals,
             FetchLast(v) \/ MysqlFreeResult(v) \/ MysqlClose(v) \/ Unset(v) \/ DestroyVar(v)
      PROVE  Fit(m') /\ CallFit'
  BY <1>7, Values_fit
<1>8. CASE CloseDefault \/ Timeout
  BY <1>8, Values_fit, Timeout_fit
<1>9. CASE BeginRequest \/ DestroyNewest \/ DestroyCut \/ EndRequest
  BY <1>9, BeginRequest_fit, DestroyNewest_fit, DestroyCut_fit, EndRequest_fit
<1>10. CASE EndScript \/ EndVars \/ UNCHANGED vars
  <2>1. m' = m /\ call' = call
    BY <1>10 DEF EndScript, EndVars, vars
  <2> QED
    BY <2>1 DEF MemInv, CallFit
<1>11. CASE NextProcess
  BY <1>11, FitFirst, FitFree DEF NextProcess, Idle
<1> QED
  BY <1>1, <1>2, <1>3, <1>4, <1>5, <1>6, <1>7, <1>8, <1>9, <1>10, <1>11 DEF Next

\* Memory is used after it is freed, or rows are awaited that do not come, only after one of
\* the four mishaps MySQL.tla lists, and nothing but a persistent link's memory of an earlier
\* request makes a query read out another link's rows (php_mysql.c, all of its functions).
THEOREM MemoryStaysSound == Spec => []MemorySound
<1>1. Init => MemInv
  <2> SUFFICES ASSUME Init PROVE MemInv
    OBVIOUS
  <2>1. m = Start /\ call = Idle /\ stage = "idle"
    BY DEF Init
  <2>2. Ids(m.list) = {} /\ \A a \in Addr : m.conn[a] = Freed
    BY <2>1 DEF Start, EmptyList, Ids
  <2>3. IInv
    BY <2>1, <2>2, Initially DEF IInv, AtRest, CallOK, Idle, Querying, Opening
  <2> QED
    BY <2>1, <2>3, FitFirst DEF MemInv, CallFit, Idle
<1>2. MemInv /\ [Next]_vars => MemInv'
  BY Next_fit
<1>3. MemInv => MemorySound
  BY DEF MemInv, Fit, MemorySound
<1> QED
  BY <1>1, <1>2, <1>3, PTL DEF Spec

(***************************************************************************)
(* Counts of links                                                         *)
(***************************************************************************)
\* Links may have gone, each with its count; nothing else of the counts has changed.
Even(s, t) ==
  /\ t.plist = s.plist /\ t.pers = s.pers /\ t.miscount = s.miscount
  /\ LinkIds(t) \subseteq LinkIds(s)
  /\ t.links - Cardinality(LinkIds(t)) = s.links - Cardinality(LinkIds(s))

LEMMA FiniteLinks ==
  ASSUME NEW s, StateOK(s)
  PROVE  /\ IsFiniteSet(LinkIds(s)) /\ Cardinality(LinkIds(s)) \in Nat
         /\ IsFiniteSet(PlinkDetails(s)) /\ Cardinality(PlinkDetails(s)) \in Nat
         /\ s.links \in Int /\ s.pers \in Int /\ s.list.next \in Nat \ {0}
<1>1. s.list.next \in Nat \ {0} /\ LinkIds(s) \subseteq 1 .. s.list.next - 1
  BY DEF StateOK, ListOK, LinkIds
<1>2. IsFiniteSet(1 .. s.list.next - 1)
  BY <1>1, FS_Interval
<1>3. PlinkDetails(s) \subseteq Details /\ IsFiniteSet(Details)
  BY MySQLAssumption DEF PlinkDetails
<1>4. IsFiniteSet(LinkIds(s)) /\ IsFiniteSet(PlinkDetails(s))
  BY <1>1, <1>2, <1>3, FS_Subset
<1> QED
  BY <1>1, <1>4, FS_CardinalityType DEF StateOK

LEMMA EvenAgain ==
  ASSUME NEW s, NEW t, NEW u, StateOK(s), StateOK(t), StateOK(u), Even(s, t), Even(t, u)
  PROVE  Even(s, u)
<1>1. /\ s.links \in Int /\ t.links \in Int /\ u.links \in Int
      /\ Cardinality(LinkIds(s)) \in Nat /\ Cardinality(LinkIds(t)) \in Nat
      /\ Cardinality(LinkIds(u)) \in Nat
  BY FiniteLinks
<1> QED
  BY <1>1 DEF Even

\* The counts, and the links that are counted, are left alone.
LEMMA EvenAlike ==
  ASSUME NEW s, NEW t, StateOK(s), t.plist = s.plist, t.pers = s.pers, t.miscount = s.miscount,
         t.links = s.links, Ids(t.list) = Ids(s.list),
         \A id \in Ids(s.list) : t.list.ent[id].type = s.list.ent[id].type
  PROVE  Even(s, t)
<1>1. LinkIds(t) = LinkIds(s)
  BY DEF LinkIds
<1> QED
  BY <1>1, FiniteLinks DEF Even

LEMMA EvenDestroys ==
  ASSUME NEW s, Good(s), NEW id \in Ids(s.list)
  PROVE  Even(s, Destroy(s, id))
<1> DEFINE e == s.list.ent[id]
           t == [s EXCEPT !.list = Remove(@, id), !.lost = @ \ {id}]
           u == Destroy(s, id)
<1>1. /\ Good(u) /\ u.plist = s.plist /\ Shrunk(s.list, u.list)
      /\ Ids(u.list) = Ids(s.list) \ {id}
  BY Destroys DEF Gives, Released
<1>2. StateOK(s) /\ e \in Entries
  BY DEF Good, StateOK, ListOK
<1>3. LinkIds(u) = LinkIds(s) \ {id}
  BY <1>1 DEF LinkIds, Shrunk
<1>4. /\ t.conn = s.conn /\ t.links = s.links /\ t.pers = s.pers /\ t.miscount = s.miscount
      /\ t \in [list : {t.list}, index : {t.index}, plist : {t.plist}, conn : {t.conn},
                zval : {t.zval}, dflt : {t.dflt}, links : {t.links}, pers : {t.pers},
                released : {t.released}, lost : {t.lost}, miscount : {t.miscount},
                mishap : {t.mishap}, wrong : {t.wrong}, undefined : {t.undefined}]
  BY <1>2 DEF StateOK
<1>5. CASE e.type = "link"
  <2>1. e.ptr \in Addr /\ s.conn[e.ptr] # Freed
    <3>1. e.ptr \in Addr /\ LinkOf(s, id, e.ptr)
      BY <1>2, <1>5 DEF LinkOf, Entries
    <3>2. \A a \in Addr : LinkOf(s, id, a) => s.conn[a] # Freed
      BY DEF Good, Sound
    <3> HIDE DEF e
    <3> QED
      BY <3>1, <3>2
  <2>2. u = [t EXCEPT !.conn[e.ptr] = Freed, !.links = @ - 1]
    BY <1>4, <1>5, <2>1 DEF Destroy, CloseLink
  <2> HIDE DEF t
  <2>3. u.links = s.links - 1 /\ u.pers = s.pers /\ u.miscount = s.miscount
    BY <1>4, <2>2
  <2>4. id \in LinkIds(s)
    BY <1>5 DEF LinkIds
  <2>5. Cardinality(LinkIds(u)) = Cardinality(LinkIds(s)) - 1
    BY <1>2, <1>3, <2>4, FiniteLinks, FS_RemoveElement
  <2> QED
    BY <1>1, <1>2, <1>3, <2>3, <2>5, FiniteLinks DEF Even
<1>6. CASE e.type # "link"
  <2>1. u.links = s.links /\ u.pers = s.pers /\ u.miscount = s.miscount
    <3>1. u = t \/ u = FreeResult(t, e)
      BY <1>2, <1>6 DEF Destroy, Entries
    <3> HIDE DEF t
    <3>2. \/ u = t \/ u = Undefined(t)
          \/ u = MishapIf([t EXCEPT !.conn[e.ptr].status = "ready"], e.eof, "drained")
      BY <3>1 DEF FreeResult
    <3> HIDE DEF u, e
    <3> QED
      BY <1>4, <3>2 DEF Undefined, MishapIf, Mishap
  <2>2. LinkIds(u) = LinkIds(s)
    BY <1>3, <1>6 DEF LinkIds
  <2> QED
    BY <1>1, <1>2, <2>1, <2>2, FiniteLinks DEF Even
<1> QED
  BY <1>5, <1>6

LEMMA EvenNotes ==
  ASSUME NEW s, Good(s), NEW p, NEW w
  PROVE  Even(s, MishapIf(s, p, w)) /\ Even(s, Undefined(s))
<1> DEFINE t == MishapIf(s, p, w)
           u == Undefined(s)
<1>1. /\ t.list = s.list /\ t.plist = s.plist /\ t.pers = s.pers /\ t.miscount = s.miscount
      /\ t.links = s.links
  BY DEF Good, StateOK, MishapIf, Mishap
<1>2. /\ u.list = s.list /\ u.plist = s.plist /\ u.pers = s.pers /\ u.miscount = s.miscount
      /\ u.links = s.links
  BY DEF Good, StateOK, Undefined
<1> HIDE DEF t, u
<1> QED
  BY <1>1, <1>2, EvenAlike DEF Good, t, u

\* Steps that let go of links and keep their counts.
Lets(s, t) == Gives(s, t) /\ Even(s, t)

LEMMA LetsAgain ==
  ASSUME NEW s, NEW t, NEW u, Good(s), Lets(s, t), Lets(t, u)
  PROVE  Lets(s, u)
  BY ReleasedAgain, EvenAgain DEF Lets, Gives, Good

LEMMA LetsDelete ==
  ASSUME NEW s, Good(s), NEW id
  PROVE  Lets(s, Delete(s, id))
<1>1. CASE ~LastReference(s.list, id)
  <2> DEFINE l == DropRef(s.list, id)
             t == [s EXCEPT !.list = l]
  <2>1. ListOK(l) /\ Ids(l) = Ids(s.list) /\ Shrunk(s.list, l)
    BY DropsRef DEF Good, StateOK
  <2> HIDE DEF l
  <2>2. t.list = l /\ t.plist = s.plist /\ t.pers = s.pers /\ t.miscount = s.miscount /\ t.links = s.links
    BY DEF Good, StateOK
  <2>3. t = Delete(s, id)
    BY <1>1 DEF Delete, l
  <2> HIDE DEF t
  <2>4. Even(s, t)
    BY <2>1, <2>2, EvenAlike DEF Good, Shrunk
  <2> QED
    BY <2>3, <2>4, Deletes DEF Lets
<1>2. CASE LastReference(s.list, id)
  <2> DEFINE e == s.list.ent[id]
             t == MishapIf(s, e.type = "link" /\ Results(s, e.ptr) # {}, "closed")
  <2>1. Gives(s, t) /\ t.list = s.list /\ Even(s, t)
    BY Notes, EvenNotes
  <2>2. id \in Ids(t.list)
    BY <1>2, <2>1 DEF LastReference
  <2>3. Delete(s, id) = Destroy(t, id)
    BY <1>2 DEF Delete
  <2> HIDE DEF t
  <2>4. Lets(s, t) /\ Lets(t, Destroy(t, id))
    BY <2>1, <2>2, Destroys, EvenDestroys DEF Lets, Gives
  <2> QED
    BY <2>3, <2>4, LetsAgain
<1> QED
  BY <1>1, <1>2

LEMMA LetsReturn ==
  ASSUME NEW s, Good(s), NEW v, NEW id \in Nat
  PROVE  Lets(s, Return(s, v, id))
<1> DEFINE t == [s EXCEPT !.zval[v] = id]
           u == Delete(t, s.zval[v])
           w == Given(u)
<1>1. /\ StateOK(t) /\ t.list = s.list /\ t.conn = s.conn /\ t.plist = s.plist
      /\ t.index = s.index /\ t.pers = s.pers /\ t.miscount = s.miscount /\ t.links = s.links
  BY DEF Good, StateOK
<1> HIDE DEF t
<1>2. Lets(s, t)
  BY <1>1, Untouched, EvenAlike DEF Shrunk, Lets, Good
<1>3. Lets(t, u)
  BY <1>2, LetsDelete DEF Lets, Gives
<1>4. StateOK(u)
  BY <1>3 DEF Lets, Gives, Good
<1> HIDE DEF u
<1>5. /\ StateOK(w) /\ w.list = u.list /\ w.conn = u.conn /\ w.plist = u.plist
      /\ w.index = u.index /\ w.pers = u.pers /\ w.miscount = u.miscount /\ w.links = u.links
  BY <1>4 DEF StateOK, Given
<1> HIDE DEF w
<1>6. Lets(u, w)
  BY <1>3, <1>5, Untouched, EvenAlike DEF Shrunk, Lets, Gives, Good
<1>7. Lets(s, w)
  BY <1>2, <1>3, <1>6, LetsAgain DEF Lets, Gives
<1> QED
  BY <1>7 DEF Return, t, u, w

LEMMA LetsAddRef ==
  ASSUME NEW s, Good(s), NEW id
  PROVE  Lets(s, [s EXCEPT !.list = AddRef(@, id)])
<1> DEFINE l == AddRef(s.list, id)
           t == [s EXCEPT !.list = l]
<1>1. ListOK(l) /\ Shrunk(s.list, l) /\ Ids(l) = Ids(s.list)
  BY AddsRef DEF Good, StateOK
<1> HIDE DEF l
<1>2. /\ StateOK(t) /\ t.list = l /\ t.conn = s.conn /\ t.plist = s.plist
      /\ t.index = s.index /\ t.pers = s.pers /\ t.miscount = s.miscount /\ t.links = s.links
  BY <1>1 DEF Good, StateOK
<1> HIDE DEF t
<1>3. Lets(s, t)
  BY <1>1, <1>2, Untouched, EvenAlike DEF Shrunk, Lets, Good
<1> QED
  BY <1>3 DEF t, l

LEMMA LetsSetDefault ==
  ASSUME NEW s, Good(s), NEW id \in Nat
  PROVE  Lets(s, SetDefault(s, id))
<1> DEFINE t == IF s.dflt = NoId THEN s ELSE Delete(s, s.dflt)
           w == [t EXCEPT !.dflt = id]
           u == [t EXCEPT !.dflt = id, !.list = AddRef(@, id)]
<1>1. Lets(s, t)
  BY LetsDelete, Itself, EvenAlike DEF Good, Lets
<1> HIDE DEF t
<1>2. /\ StateOK(w) /\ w.list = t.list /\ w.conn = t.conn /\ w.plist = t.plist
      /\ w.index = t.index /\ w.pers = t.pers /\ w.miscount = t.miscount /\ w.links = t.links
  BY <1>1 DEF Lets, Gives, Good, StateOK
<1>3. u = [w EXCEPT !.list = AddRef(@, id)]
  BY <1>1 DEF Lets, Gives, Good, StateOK
<1> HIDE DEF w, u
<1>4. Lets(t, w)
  BY <1>1, <1>2, Untouched, EvenAlike DEF Shrunk, Lets, Gives, Good
<1>5. Lets(w, u)
  BY <1>3, <1>4, LetsAddRef DEF Lets, Gives
<1>6. Lets(s, u)
  BY <1>1, <1>4, <1>5, LetsAgain DEF Lets, Gives
<1> QED
  BY <1>6 DEF SetDefault, t, u

LEMMA LetsReadAll ==
  ASSUME NEW s, Good(s), NEW id \in Ids(s.list), s.list.ent[id].type = "result", ~s.list.ent[id].eof
  PROVE  Lets(s, ReadAll(s, id))
<1> DEFINE a == s.list.ent[id].ptr
           t == ReadAll(s, id)
           l == [s.list EXCEPT !.ent[id].eof = TRUE]
<1>1. t = Undefined(s) \/ t = [s EXCEPT !.conn[a].status = "ready", !.list = l]
  BY DEF ReadAll, Good, StateOK
<1>2. Ids(l) = Ids(s.list) /\ \A i \in Ids(s.list) : l.ent[i].type = s.list.ent[i].type
  BY DEF Good, StateOK, ListOK, Ids, Entries
<1> HIDE DEF l, a, t
<1>3. ASSUME t = [s EXCEPT !.conn[a].status = "ready", !.list = l] PROVE Even(s, t)
  <2>1. t.list = l /\ t.plist = s.plist /\ t.pers = s.pers /\ t.miscount = s.miscount /\ t.links = s.links
    BY <1>3 DEF Good, StateOK
  <2> QED
    BY <1>2, <2>1, EvenAlike DEF Good
<1>4. Even(s, t)
  BY <1>1, <1>3, EvenNotes
<1> QED
  BY <1>4, ReadsAll DEF Lets, t

LEMMA LetsForget ==
  ASSUME NEW s, Good(s), NEW a \in Addr, s.conn[a] # Freed, NEW x \in Nat
  PROVE  Lets(s, [s EXCEPT !.conn[a].active = x])
<1> DEFINE t == [s EXCEPT !.conn[a].active = x]
<1>1. t.list = s.list /\ t.plist = s.plist /\ t.pers = s.pers /\ t.miscount = s.miscount /\ t.links = s.links
  BY DEF Good, StateOK
<1>2. Gives(s, t)
  BY Forgets
<1> HIDE DEF t
<1> QED
  BY <1>1, <1>2, EvenAlike DEF Lets, Good, t

LEMMA LetsFinish ==
  ASSUME NEW s, Good(s), NEW a \in Addr, s.conn[a] # Freed
  PROVE  Lets(s, Finish(s, a))
<1> DEFINE id == s.conn[a].active
<1>1. CASE ~(id # NoId /\ Find(s.list, id, {"result"}) /\ ~s.list.ent[id].eof)
  BY <1>1, Itself, EvenAlike DEF Finish, Good, Lets
<1>2. CASE id # NoId /\ Find(s.list, id, {"result"}) /\ ~s.list.ent[id].eof
  <2> DEFINE foreign == s.list.ent[id].ptr # a
             r == MishapIf(s, foreign /\ s.conn[a].old, "foreign")
             t == [r EXCEPT !.wrong = @ \/ (foreign /\ ~s.conn[a].old),
                            !.released = @ \cup {id}]
             w == ReadAll(t, id)
             u == Delete(w, id)
  <2>1. id \in Nat /\ id \in Ids(s.list) /\ s.list.ent[id].type = "result"
    BY <1>2 DEF Good, StateOK, Conns, Find
  <2>2. Lets(s, r) /\ r.list = s.list /\ r.conn = s.conn
    BY Notes, EvenNotes DEF Lets
  <2>3. Finish(s, a) = IF u.conn[a] = Freed THEN Undefined(u) ELSE [u EXCEPT !.conn[a].active = NoId]
    BY <1>2 DEF Finish
  <2> HIDE DEF r, foreign
  <2>4. /\ StateOK(t) /\ t.list = r.list /\ t.conn = r.conn /\ t.plist = r.plist
        /\ t.index = r.index /\ t.pers = r.pers /\ t.miscount = r.miscount /\ t.links = r.links
    <3>1. StateOK(r) /\ r.released \cup {id} \in SUBSET Nat
          /\ (r.wrong \/ (foreign /\ ~s.conn[a].old)) \in BOOLEAN
      BY <2>1, <2>2 DEF Lets, Gives, Good, StateOK
    <3> QED
      BY <3>1 DEF StateOK
  <2> HIDE DEF t
  <2>5. Lets(r, t)
    BY <2>2, <2>4, Untouched, EvenAlike DEF Lets, Gives, Shrunk, Good
  <2>6. Lets(t, w)
    BY <1>2, <2>1, <2>2, <2>4, <2>5, LetsReadAll DEF Lets, Gives
  <2> HIDE DEF w
  <2>7. Lets(w, u)
    BY <2>6, LetsDelete DEF Lets, Gives
  <2>8. Lets(s, t) /\ Good(t)
    BY <2>2, <2>5, LetsAgain DEF Lets, Gives
  <2>9. Lets(s, w) /\ Good(w)
    BY <2>6, <2>8, LetsAgain DEF Lets, Gives
  <2>10. Lets(s, u) /\ Good(u)
    BY <2>7, <2>9, LetsAgain DEF Lets, Gives
  <2> HIDE DEF u
  <2>11. Lets(u, Finish(s, a))
    BY <2>3, <2>10, Notes, EvenNotes, LetsForget DEF NoId, Lets
  <2> QED
    BY <2>10, <2>11, LetsAgain
<1> QED
  BY <1>1, <1>2

\* A list with another handle or result.
LEMMA EvenInserts ==
  ASSUME NEW s, Good(s), NEW e \in Entries, e.type # "link", NEW t,
         t.list = Insert(s.list, e), t.plist = s.plist, t.pers = s.pers, t.miscount = s.miscount,
         t.links = s.links
  PROVE  Even(s, t)
<1>1. LET k == Insert(s.list, e)
      IN  /\ s.list.next \notin Ids(s.list) /\ Ids(k) = Ids(s.list) \cup {s.list.next}
          /\ k.ent[s.list.next] = e /\ \A id \in Ids(s.list) : k.ent[id] = s.list.ent[id]
  BY Inserts DEF Good, StateOK
<1>2. LinkIds(t) = LinkIds(s)
  BY <1>1 DEF LinkIds
<1> QED
  BY <1>2, FiniteLinks DEF Even, Good

LEMMA EvenPlink ==
  ASSUME NEW s, Good(s), NEW v, NEW d, NEW a \in Addr
  PROVE  Good(Plink(s, v, d, a)) /\ Even(s, Plink(s, v, d, a))
<1> DEFINE e == Entry("plink", a, FALSE)
           t == [s EXCEPT !.list = Insert(@, e)]
           u == SetDefault(t, s.list.next)
<1>1. e \in Entries /\ e.type = "plink"
  BY MySQLAssumption DEF Entry, Entries
<1>2. s.list.next \in Nat
  BY DEF Good, StateOK, ListOK
<1>3. Plink(s, v, d, a) = Return(u, v, s.list.next)
  BY DEF Plink
<1> HIDE DEF e
<1>4. Good(t) /\ t.plist = s.plist /\ t.list = Insert(s.list, e)
  BY <1>1, InsertsOther
<1>5. t.pers = s.pers /\ t.miscount = s.miscount /\ t.links = s.links
  BY DEF Good, StateOK
<1> HIDE DEF t
<1>6. Even(s, t)
  BY <1>1, <1>4, <1>5, EvenInserts
<1>7. Lets(t, u) /\ Good(u)
  BY <1>2, <1>4, LetsSetDefault DEF Lets, Gives
<1> HIDE DEF u
<1>8. Lets(u, Return(u, v, s.list.next))
  BY <1>2, <1>7, LetsReturn
<1> QED
  BY <1>3, <1>4, <1>6, <1>7, <1>8, EvenAgain DEF Lets, Gives, Good

LEMMA EvenNewResult ==
  ASSUME NEW s, Good(s), NEW v, NEW a \in Addr \cup {Nowhere}, NEW eof \in BOOLEAN,
         a = Nowhere => eof
  PROVE  Even(s, NewResult(s, v, a, eof))
<1> DEFINE e == Entry("result", a, eof)
           t == [s EXCEPT !.list = Insert(@, e)]
<1>1. e \in Entries /\ e.type = "result"
  BY DEF Entry, Entries
<1>2. s.list.next \in Nat
  BY DEF Good, StateOK, ListOK
<1>3. NewResult(s, v, a, eof) = Return(t, v, s.list.next)
  BY DEF NewResult
<1> HIDE DEF e
<1>4. Good(t) /\ t.plist = s.plist /\ t.list = Insert(s.list, e)
  BY <1>1, InsertsOther
<1>5. t.pers = s.pers /\ t.miscount = s.miscount /\ t.links = s.links
  BY DEF Good, StateOK
<1> HIDE DEF t
<1>6. Even(s, t)
  BY <1>1, <1>4, <1>5, EvenInserts
<1>7. Lets(t, Return(t, v, s.list.next))
  BY <1>2, <1>4, LetsReturn
<1> QED
  BY <1>3, <1>4, <1>6, <1>7, EvenAgain DEF Lets, Gives, Good

\* A persistent link is closed with both its counts.
LEMMA ClosesPlink ==
  ASSUME NEW s, Good(s), NEW d \in Details, s.plist[d] # Nowhere
  PROVE  LET t == ClosePlink([s EXCEPT !.plist[d] = Nowhere], s.plist[d])
         IN  /\ Good(t) /\ t.list = s.list /\ t.miscount = s.miscount
             /\ t.links = s.links - 1 /\ t.pers = s.pers - 1
             /\ PlinkDetails(t) \subseteq PlinkDetails(s)
             /\ Cardinality(PlinkDetails(t)) = Cardinality(PlinkDetails(s)) - 1
<1> DEFINE a == s.plist[d]
           t == ClosePlink([s EXCEPT !.plist[d] = Nowhere], a)
<1>1. Good(t)
  BY FreesPlink
<1>2. /\ t.list = s.list /\ t.miscount = s.miscount /\ t.links = s.links - 1 /\ t.pers = s.pers - 1
      /\ t.plist = [s.plist EXCEPT ![d] = Nowhere]
  BY DEF Good, StateOK, ClosePlink
<1> HIDE DEF t
<1>3. PlinkDetails(t) = PlinkDetails(s) \ {d} /\ d \in PlinkDetails(s)
  BY <1>2 DEF PlinkDetails, Good, StateOK
<1>4. Cardinality(PlinkDetails(t)) = Cardinality(PlinkDetails(s)) - 1
  BY <1>3, FiniteLinks, FS_RemoveElement DEF Good
<1> QED
  BY <1>1, <1>2, <1>3, <1>4 DEF t

\* The invariant after a step that lets go of links, by a function that does not begin to
\* open one.
LEMMA CountsKept ==
  ASSUME IInv, IInv', CountInv, Even(m, m'), stage' # "idle" => stage # "idle",
         call.at # "registered", call'.at # "registered",
         call'.at \in {"open", "opened"} => call.at \in {"open", "opened"} /\ call'.kind = call.kind
  PROVE  CountInv'
<1>1. StateOK(m) /\ StateOK(m')
  BY DEF IInv, Good
<1>2. /\ IsFiniteSet(LinkIds(m)) /\ Cardinality(LinkIds(m)) \in Nat
      /\ Cardinality(LinkIds(m')) \in Nat /\ Cardinality(PlinkDetails(m)) \in Nat
      /\ m.links \in Int /\ m.pers \in Int /\ m'.links \in Int
  BY <1>1, FiniteLinks
<1>3. PlinkDetails(m') = PlinkDetails(m)
  BY DEF Even, PlinkDetails
<1>4. LinkIds(m') \subseteq LinkIds(m) /\ Cardinality(LinkIds(m')) <= Cardinality(LinkIds(m))
  BY <1>2, FS_Subset DEF Even
<1>5. /\ Uncounted("link") = 0 /\ Uncounted("plink") = 0
      /\ Uncounted("link")' = 0 /\ Uncounted("plink")' = 0
  BY DEF Uncounted
<1>6. /\ Persistent' = Persistent /\ OpenLinks' \subseteq OpenLinks
      /\ Connections' <= Connections /\ Connections' \in Nat /\ Connections \in Nat
      /\ m'.links - m.links = Connections' - Connections
      /\ m'.pers = m.pers /\ m'.miscount = m.miscount
  BY <1>2, <1>3, <1>4 DEF Persistent, OpenLinks, Connections, Even
<1>7. Cardinality(Persistent) \in Nat
  BY <1>2 DEF Persistent
<1>8. m.miscount # "persistent" =>
        /\ m.pers = Cardinality(Persistent) /\ Cardinality(Persistent) <= MaxPersistent
        /\ call.at \in {"open", "opened"} /\ call.kind = "plink" =>
             Cardinality(Persistent) < MaxPersistent
  BY <1>2, <1>5 DEF CountInv
<1>9. m.miscount = "none" /\ stage # "idle" =>
        /\ m.links = Connections /\ (OpenLinks = {} \/ Connections <= MaxLinks)
        /\ call.at \in {"open", "opened"} => Connections < MaxLinks
  BY <1>2, <1>5 DEF CountInv
<1>10. MaxLinks \in Nat /\ MaxPersistent \in Nat
  BY MySQLAssumption
<1>11. m'.miscount # "persistent" =>
         /\ m'.pers + Uncounted("plink")' = Cardinality(Persistent')
         /\ Cardinality(Persistent') <= MaxPersistent
         /\ call'.at \in {"open", "opened"} /\ call'.kind = "plink" =>
              Cardinality(Persistent') < MaxPersistent
  BY <1>2, <1>5, <1>6, <1>8
<1>12. m'.miscount = "none" /\ stage' # "idle" =>
         /\ m'.links + Uncounted("link")' + Uncounted("plink")' = Connections'
         /\ OpenLinks' = {} \/ Connections' <= MaxLinks
         /\ call'.at \in {"open", "opened"} => Connections' < MaxLinks
  BY <1>2, <1>5, <1>6, <1>9, <1>10
<1> QED
  BY <1>11, <1>12 DEF CountInv

LEMMA EvenConnected ==
  ASSUME NEW s, Good(s), NEW c \in Connecting({"connect", "open"}) \cup ConnectingAt({"registered"}),
         NEW id \in Nat, Connected(s, c, id)
  PROVE  Even(s, m') /\ call'.at \in {"idle", "query"}
<1>1. ASSUME m' = Return(s, c.v, id) \/ m' = Return(s, c.v, NoId) PROVE Even(s, m')
  BY <1>1, LetsReturn DEF Lets, NoId
<1>2. ASSUME m' = [s EXCEPT !.lost = @ \cup {id}] PROVE Even(s, m')
  <2>1. /\ m'.list = s.list /\ m'.plist = s.plist /\ m'.pers = s.pers /\ m'.miscount = s.miscount
        /\ m'.links = s.links
    BY <1>2 DEF Good, StateOK
  <2> QED
    BY <2>1, EvenAlike DEF Good
<1>3. call' = Idle \/ call' = [c EXCEPT !.at = "query"]
  BY DEF Connected
<1>4. call'.at \in {"idle", "query"}
  BY <1>3 DEF Idle, Connecting, ConnectingAt
<1> QED
  BY <1>1, <1>2, <1>4 DEF Connected

LEMMA EvenStarts ==
  ASSUME Good(m), NEW c, NEW id \in Nat, StartQuery(m, c, id)
  PROVE  Even(m, m') /\ call'.at \in {"idle", "sent"}
<1>1. CASE ~Find(m.list, id, Links)
  <2>1. m' = Return(m, c.v, NoId) /\ call' = Idle
    BY <1>1 DEF StartQuery
  <2> QED
    BY <2>1, LetsReturn DEF Lets, NoId, Idle
<1>2. CASE Find(m.list, id, Links)
  <2> DEFINE a == m.list.ent[id].ptr
             t == IF m.conn[a] = Freed THEN Undefined(m) ELSE Finish(m, a)
  <2>1. a \in Addr
    BY <1>2 DEF Find, Good, StateOK, ListOK, Entries, Links
  <2>2. Lets(m, t)
    BY <2>1, Notes, EvenNotes, LetsFinish DEF Lets
  <2>3. \/ m' = t /\ call' = [at |-> "sent", v |-> c.v, a |-> a, query |-> c.query]
        \/ m' = Return(t, c.v, NoId) /\ call' = Idle
    BY <1>2 DEF StartQuery
  <2> HIDE DEF t, a
  <2>4. CASE m' = t /\ call' = [at |-> "sent", v |-> c.v, a |-> a, query |-> c.query]
    BY <2>2, <2>4 DEF Lets
  <2>5. CASE m' = Return(t, c.v, NoId) /\ call' = Idle
    <3>1. Lets(m, m')
      BY <2>2, <2>5, LetsReturn, LetsAgain DEF Lets, Gives, NoId
    <3> QED
      BY <2>5, <3>1 DEF Lets, Idle
  <2> QED
    BY <2>3, <2>4, <2>5
<1> QED
  BY <1>1, <1>2

\* Whoever begins to open a link has seen the counts.
LEMMA CountsOpening ==
  ASSUME IInv, IInv', CountInv, call = Idle, stage # "idle", Even(m, m'), m'.links = m.links,
         call'.at = "open", call'.kind = "plink" => m.pers < MaxPersistent, m.links < MaxLinks
  PROVE  CountInv'
<1>1. StateOK(m) /\ StateOK(m')
  BY DEF IInv, Good
<1>2. /\ Cardinality(LinkIds(m)) \in Nat
      /\ Cardinality(LinkIds(m')) \in Nat /\ Cardinality(PlinkDetails(m)) \in Nat
      /\ m.links \in Int /\ m.pers \in Int
  BY <1>1, FiniteLinks
<1>3. PlinkDetails(m') = PlinkDetails(m)
  BY DEF Even, PlinkDetails
<1>4. /\ Uncounted("link") = 0 /\ Uncounted("plink") = 0
      /\ Uncounted("link")' = 0 /\ Uncounted("plink")' = 0
  BY DEF Uncounted, Idle
<1>5. /\ Persistent' = Persistent /\ Connections' = Connections /\ Connections \in Nat
      /\ m'.pers = m.pers /\ m'.miscount = m.miscount /\ Cardinality(Persistent) \in Nat
  BY <1>2, <1>3 DEF Persistent, OpenLinks, Connections, Even
<1>6. MaxLinks \in Nat /\ MaxPersistent \in Nat
  BY MySQLAssumption
<1>7. m.miscount # "persistent" => m.pers = Cardinality(Persistent) /\ m.pers <= MaxPersistent
  BY <1>2, <1>4, <1>5 DEF CountInv
<1>8. m.miscount = "none" => m.links = Connections
  BY <1>2, <1>4, <1>5 DEF CountInv
<1>9. m'.miscount # "persistent" =>
         /\ m'.pers + Uncounted("plink")' = Cardinality(Persistent')
         /\ Cardinality(Persistent') <= MaxPersistent
         /\ call'.kind = "plink" => Cardinality(Persistent') < MaxPersistent
  BY <1>2, <1>4, <1>5, <1>7
<1>10. m'.miscount = "none" =>
         /\ m'.links + Uncounted("link")' + Uncounted("plink")' = Connections'
         /\ Connections' < MaxLinks /\ Connections' <= MaxLinks
  BY <1>2, <1>4, <1>5, <1>6, <1>8
<1> QED
  BY <1>9, <1>10 DEF CountInv

LEMMA Connect_count ==
  ASSUME IInv, IInv', CountInv, call = Idle, stage # "idle", UNCHANGED stage,
         NEW v \in Zvals, NEW d \in Details, NEW q \in Queries,
         Connect([at |-> "connect", kind |-> "link", v |-> v, d |-> d, query |-> q])
  PROVE  CountInv'
<1> DEFINE c == [at |-> "connect", kind |-> "link", v |-> v, d |-> d, query |-> q]
           id == m.index[d]
           s == [m EXCEPT !.list = AddRef(@, id)]
           t == [m EXCEPT !.index[d] = NoId]
<1>1. c \in Connecting({"connect", "open"}) /\ c.kind = "link" /\ id \in Nat /\ c.d = d /\ Good(m)
  BY DEF IInv, Good, StateOK, Connecting, Links
<1>2. \/ Connected(SetDefault(s, id), c, id)
      \/ Connected(t, c, NoId)
      \/ m.links < MaxLinks /\ m' = t /\ call' = [c EXCEPT !.at = "open"]
  <2>1. Connect(c) /\ m.links \in Int /\ MaxLinks \in Nat
    BY MySQLAssumption DEF IInv, Good, StateOK
  <2> HIDE DEF c
  <2> QED
    BY <1>1, <2>1 DEF Connect
<1>3. Lets(m, s)
  BY <1>1, LetsAddRef
<1>4. Good(t) /\ Even(m, t) /\ t.links = m.links
  <2>1. t.list = m.list /\ t.plist = m.plist /\ t.pers = m.pers /\ t.miscount = m.miscount /\ t.links = m.links
    BY <1>1 DEF Good, StateOK
  <2>2. Good(t)
    BY <1>1, ForgetsIndex
  <2> HIDE DEF t
  <2> QED
    BY <1>1, <2>1, <2>2, EvenAlike DEF Good
<1> HIDE DEF c, s, t
<1>5. Lets(m, SetDefault(s, id))
  BY <1>1, <1>3, LetsSetDefault, LetsAgain DEF Lets, Gives
<1>6. CASE m.links < MaxLinks /\ m' = t /\ call' = [c EXCEPT !.at = "open"]
  <2>1. call'.at = "open" /\ call'.kind = "link"
    BY <1>1, <1>6 DEF Connecting
  <2> QED
    BY <1>4, <1>6, <2>1, CountsOpening
<1>7. ASSUME NEW x, Good(x), Even(m, x), NEW i \in Nat, Connected(x, c, i)
      PROVE  CountInv'
  <2>1. Even(x, m') /\ call'.at \in {"idle", "query"}
    BY <1>1, <1>7, EvenConnected
  <2>2. Even(m, m')
    BY <1>1, <1>7, <2>1, EvenAgain DEF IInv, Good
  <2> QED
    BY <2>1, <2>2, CountsKept DEF Idle
<1> QED
  BY <1>1, <1>2, <1>4, <1>5, <1>6, <1>7 DEF Lets, Gives, NoId

LEMMA Pconnect_count ==
  ASSUME IInv, IInv', CountInv, NEW v \in Zvals, NEW d \in Details,
         PconnectNew(v, d) \/ PconnectOld(v, d)
  PROVE  CountInv'
<1> DEFINE a == m.plist[d]
           s == ClosePlink([m EXCEPT !.plist[d] = Nowhere], a)
           t == MishapIf(s, Handles(m, a) # {}, "orphan")
<1>1. call = Idle /\ stage # "idle" /\ stage' = stage /\ Good(m)
  BY DEF PconnectNew, PconnectOld, Ready, IInv
<1>2. CASE m' = Return(m, v, NoId) /\ call' = call
  BY <1>1, <1>2, LetsReturn, CountsKept DEF Lets, NoId, Idle
<1>3. CASE /\ ~(m.links >= MaxLinks \/ m.pers >= MaxPersistent) /\ m' = m
           /\ call' = [at |-> "open", kind |-> "plink", v |-> v, d |-> d, query |-> "none"]
  <2>1. Even(m, m')
    BY <1>1, <1>3, EvenAlike DEF Good
  <2>2. m.links < MaxLinks /\ m.pers < MaxPersistent
    BY <1>1, <1>3, MySQLAssumption DEF Good, StateOK
  <2> QED
    BY <1>1, <1>3, <2>1, <2>2, CountsOpening
<1>4. CASE m' = Plink(m, v, d, a) /\ call' = call /\ a # Nowhere
  <2>1. a \in Addr
    BY <1>1, <1>4 DEF Good, StateOK
  <2> QED
    BY <1>1, <1>4, <2>1, EvenPlink, CountsKept DEF Idle
<1>5. CASE m' = Return(t, v, NoId) /\ call' = call /\ a # Nowhere
  <2>1. /\ Good(s) /\ s.list = m.list /\ s.miscount = m.miscount
        /\ s.links = m.links - 1 /\ s.pers = m.pers - 1
        /\ Cardinality(PlinkDetails(s)) = Cardinality(PlinkDetails(m)) - 1
    BY <1>1, <1>5, ClosesPlink
  <2> HIDE DEF s, a
  <2>2. Lets(s, t)
    BY <2>1, Notes, EvenNotes DEF Lets
  <2> HIDE DEF t
  <2>3. Lets(s, m')
    BY <1>5, <2>1, <2>2, LetsReturn, LetsAgain DEF Lets, Gives, NoId
  <2>4. /\ m'.miscount = m.miscount /\ m'.pers = m.pers - 1 /\ PlinkDetails(m') = PlinkDetails(s)
        /\ LinkIds(m') \subseteq LinkIds(m)
        /\ m'.links - Cardinality(LinkIds(m')) = m.links - 1 - Cardinality(LinkIds(m))
    BY <2>1, <2>3 DEF Lets, Even, PlinkDetails, LinkIds
  <2>5. /\ IsFiniteSet(LinkIds(m)) /\ Cardinality(LinkIds(m)) \in Nat
        /\ Cardinality(LinkIds(m')) \in Nat /\ Cardinality(PlinkDetails(m)) \in Nat
        /\ Cardinality(PlinkDetails(s)) \in Nat
        /\ m.links \in Int /\ m.pers \in Int /\ m'.links \in Int
    BY <2>1, FiniteLinks DEF IInv, Good
  <2>6. Cardinality(LinkIds(m')) <= Cardinality(LinkIds(m))
    BY <2>4, <2>5, FS_Subset
  <2>7. /\ Uncounted("link") = 0 /\ Uncounted("plink") = 0
        /\ Uncounted("link")' = 0 /\ Uncounted("plink")' = 0 /\ call'.at = "idle"
    BY <1>1, <1>5 DEF Uncounted, Idle
  <2>8. MaxLinks \in Nat /\ MaxPersistent \in Nat
    BY MySQLAssumption
  <2>9. m'.miscount # "persistent" =>
          m'.pers = Cardinality(PlinkDetails(m')) /\ Cardinality(PlinkDetails(m')) <= MaxPersistent
    <3>1. m.miscount # "persistent" =>
            m.pers = Cardinality(PlinkDetails(m)) /\ Cardinality(PlinkDetails(m)) <= MaxPersistent
      BY <2>5, <2>7 DEF CountInv, Persistent
    <3> QED
      BY <2>1, <2>4, <2>5, <2>8, <3>1
  <2>10. m'.miscount = "none" =>
           /\ m'.links = Cardinality(LinkIds(m')) + Cardinality(PlinkDetails(m'))
           /\ LinkIds(m') = {} \/ Cardinality(LinkIds(m')) + Cardinality(PlinkDetails(m')) <= MaxLinks
    <3>1. m.miscount = "none" =>
            /\ m.links = Cardinality(LinkIds(m)) + Cardinality(PlinkDetails(m))
            /\ LinkIds(m) = {} \/ Cardinality(LinkIds(m)) + Cardinality(PlinkDetails(m)) <= MaxLinks
      BY <1>1, <2>5, <2>7 DEF CountInv, Persistent, OpenLinks, Connections
    <3> QED
      BY <2>1, <2>4, <2>5, <2>6, <2>8, <3>1
  <2> QED
    <3>1. m'.pers \in Int
      BY <2>4, <2>5
    <3> QED
      BY <2>5, <2>7, <2>9, <2>10, <3>1 DEF CountInv, Persistent, OpenLinks, Connections
<1> QED
  BY <1>1, <1>2, <1>3, <1>4, <1>5 DEF PconnectNew, PconnectOld

LEMMA Open_count == ASSUME IInv, IInv', CountInv, Open PROVE CountInv'
<1>1. call.at = "open" /\ stage = "script" /\ stage' = stage /\ Good(m) /\ call \in Connecting({"connect", "open"})
  BY InHand DEF Open, IInv
<1>2. CASE Connected(m, call, NoId)
  BY <1>1, <1>2, EvenConnected, CountsKept DEF NoId
<1>3. ASSUME NEW a \in Addr, m' = [m EXCEPT !.conn[a] = Connection(call.kind, call.d)],
             call' = [at |-> "opened", kind |-> call.kind, v |-> call.v, d |-> call.d,
                       query |-> call.query, a |-> a]
      PROVE  CountInv'
  <2>1. /\ m'.list = m.list /\ m'.plist = m.plist /\ m'.pers = m.pers
        /\ m'.miscount = m.miscount /\ m'.links = m.links
    BY <1>1, <1>3 DEF Good, StateOK
  <2>2. Even(m, m')
    BY <1>1, <2>1, EvenAlike DEF Good
  <2> QED
    BY <1>1, <1>3, <2>2, CountsKept
<1> QED
  BY <1>2, <1>3 DEF Open

LEMMA Register_count == ASSUME IInv, IInv', CountInv, Register PROVE CountInv'
<1>1. /\ call.at = "opened" /\ stage = "script" /\ stage' = stage /\ Good(m)
      /\ call \in ConnectingAt({"opened"}) /\ call.kind \in Links
  BY InHand DEF Register, IInv, ConnectingAt
<1>2. call'.at = "registered" /\ call'.kind = call.kind
  BY <1>1 DEF Register, ConnectingAt
<1>3. /\ Uncounted("link") = 0 /\ Uncounted("plink") = 0
      /\ Uncounted("link")' = (IF call.kind = "link" THEN 1 ELSE 0)
      /\ Uncounted("plink")' = (IF call.kind = "plink" THEN 1 ELSE 0)
  BY <1>1, <1>2 DEF Uncounted, Links
<1>4. /\ IsFiniteSet(LinkIds(m)) /\ Cardinality(LinkIds(m)) \in Nat
      /\ IsFiniteSet(PlinkDetails(m)) /\ Cardinality(PlinkDetails(m)) \in Nat
      /\ m.links \in Int /\ m.pers \in Int
  BY FiniteLinks DEF IInv, Good
<1>5. MaxLinks \in Nat /\ MaxPersistent \in Nat
  BY MySQLAssumption
<1>6. m'.links = m.links /\ m'.pers = m.pers /\ m'.miscount = m.miscount
  BY <1>1 DEF Register, Good, StateOK
<1>7. m.miscount # "persistent" =>
        /\ m.pers = Cardinality(PlinkDetails(m)) /\ Cardinality(PlinkDetails(m)) <= MaxPersistent
        /\ call.kind = "plink" => Cardinality(PlinkDetails(m)) < MaxPersistent
  BY <1>1, <1>3, <1>4 DEF CountInv, Persistent
<1>8. m.miscount = "none" =>
        /\ m.links = Cardinality(LinkIds(m)) + Cardinality(PlinkDetails(m))
        /\ Cardinality(LinkIds(m)) + Cardinality(PlinkDetails(m)) < MaxLinks
  BY <1>1, <1>3, <1>4 DEF CountInv, Persistent, OpenLinks, Connections
<1>9. CASE call.kind = "link"
  <2> DEFINE e == Entry("link", call.a, FALSE)
             k == Insert(m.list, e)
  <2>1. m'.list = k /\ m'.plist = m.plist
    BY <1>1, <1>9 DEF Register, Good, StateOK
  <2>2. e \in Entries /\ e.type = "link"
    BY <1>1, MySQLAssumption DEF Entry, Entries, ConnectingAt
  <2> HIDE DEF e
  <2>3. /\ m.list.next \notin Ids(m.list) /\ Ids(k) = Ids(m.list) \cup {m.list.next}
        /\ k.ent[m.list.next] = e /\ \A id \in Ids(m.list) : k.ent[id] = m.list.ent[id]
    BY <1>1, <2>2, Inserts DEF Good, StateOK
  <2>4. LinkIds(m') = LinkIds(m) \cup {m.list.next} /\ m.list.next \notin LinkIds(m)
    BY <2>1, <2>2, <2>3 DEF LinkIds
  <2>5. Cardinality(LinkIds(m')) = Cardinality(LinkIds(m)) + 1
    BY <1>4, <2>4, FS_AddElement
  <2>6. PlinkDetails(m') = PlinkDetails(m)
    BY <2>1 DEF PlinkDetails
  <2> QED
    BY <1>2, <1>3, <1>4, <1>5, <1>6, <1>7, <1>8, <1>9, <2>5, <2>6
    DEF CountInv, Persistent, OpenLinks, Connections
<1>10. CASE call.kind = "plink"
  <2>1. m.plist[call.d] = Nowhere /\ call.d \in Details /\ call.a \in Addr
    BY <1>1, <1>10 DEF IInv, CallOK, ConnectingAt
  <2>2. m'.list = m.list /\ m'.plist = [m.plist EXCEPT ![call.d] = call.a]
    BY <1>1, <1>10 DEF Register, Good, StateOK
  <2>3. PlinkDetails(m') = PlinkDetails(m) \cup {call.d} /\ call.d \notin PlinkDetails(m)
    BY <1>1, <2>1, <2>2, MySQLAssumption DEF PlinkDetails, Good, StateOK
  <2>4. Cardinality(PlinkDetails(m')) = Cardinality(PlinkDetails(m)) + 1
    BY <1>4, <2>3, FS_AddElement
  <2>5. LinkIds(m') = LinkIds(m)
    BY <2>2 DEF LinkIds
  <2> QED
    BY <1>2, <1>3, <1>4, <1>5, <1>6, <1>7, <1>8, <1>10, <2>4, <2>5
    DEF CountInv, Persistent, OpenLinks, Connections
<1> QED
  BY <1>1, <1>9, <1>10 DEF Links

LEMMA Count_count == ASSUME IInv, IInv', CountInv, Count PROVE CountInv'
<1>1. /\ call.at = "registered" /\ stage = "script" /\ stage' = stage /\ Good(m)
      /\ call \in ConnectingAt({"registered"}) /\ call.kind \in Links /\ call.d \in Details
      /\ call.a \in Addr
  BY InHand DEF Count, IInv, ConnectingAt
<1> DEFINE j == IF call.kind = "plink" THEN 1 ELSE 0
<1>2. PICK s : /\ Good(s) /\ s.links = m.links + 1 /\ s.pers = m.pers + j
               /\ s.miscount = m.miscount /\ s.list = m.list /\ s.plist = m.plist
               /\ Even(s, m') /\ call'.at \in {"idle", "query"}
  <2> DEFINE x == [m EXCEPT !.links = @ + 1]
             y == [m EXCEPT !.links = @ + 1, !.pers = @ + 1]
  <2>1. CASE call.kind = "link"
    <3> DEFINE id == m.index[call.d]
    <3>1. Connected(SetDefault(x, id), call, id)
      BY <2>1 DEF Count
    <3>2. id \in Nat
      BY <1>1 DEF Good, StateOK
    <3>3. /\ Good(x) /\ x.links = m.links + 1 /\ x.pers = m.pers + j
          /\ x.miscount = m.miscount /\ x.list = m.list /\ x.plist = m.plist
      <4>1. StateOK(x) /\ x.conn = m.conn /\ x.index = m.index /\ x.list = m.list /\ x.plist = m.plist
            /\ x.links = m.links + 1 /\ x.pers = m.pers /\ x.miscount = m.miscount /\ m.pers \in Int
        BY <1>1 DEF Good, StateOK
      <4> HIDE DEF x
      <4> QED
        BY <1>1, <2>1, <4>1, Untouched DEF Shrunk, Gives
    <3> HIDE DEF x, id
    <3>4. Lets(x, SetDefault(x, id))
      BY <3>2, <3>3, LetsSetDefault
    <3>5. Even(SetDefault(x, id), m') /\ call'.at \in {"idle", "query"}
      BY <1>1, <3>1, <3>2, <3>4, EvenConnected DEF Lets, Gives
    <3>6. Even(x, m')
      BY <3>3, <3>4, <3>5, EvenAgain DEF Lets, Gives, Good, IInv
    <3> QED
      BY <3>3, <3>5, <3>6
  <2>2. CASE call.kind = "plink"
    <3>1. m' = Plink(y, call.v, call.d, call.a) /\ call' = Idle
      BY <2>2 DEF Count
    <3>2. /\ Good(y) /\ y.links = m.links + 1 /\ y.pers = m.pers + j
          /\ y.miscount = m.miscount /\ y.list = m.list /\ y.plist = m.plist
      <4>1. StateOK(y) /\ y.conn = m.conn /\ y.index = m.index /\ y.list = m.list /\ y.plist = m.plist
            /\ y.links = m.links + 1 /\ y.pers = m.pers + 1 /\ y.miscount = m.miscount
        <5>1. m.links + 1 \in Int /\ m.pers + 1 \in Int
          BY <1>1 DEF Good, StateOK
        <5> QED
          BY <1>1, <5>1 DEF Good, StateOK
      <4> HIDE DEF y
      <4> QED
        BY <1>1, <2>2, <4>1, Untouched DEF Shrunk, Gives
    <3> HIDE DEF y
    <3>3. Even(y, m')
      BY <1>1, <3>1, <3>2, EvenPlink
    <3> QED
      BY <3>1, <3>2, <3>3 DEF Idle
  <2> QED
    BY <1>1, <2>1, <2>2 DEF Links
<1> HIDE DEF j
<1>a. PlinkDetails(m') = PlinkDetails(m) /\ LinkIds(s) = LinkIds(m)
  BY <1>2 DEF Even, PlinkDetails, LinkIds
<1>3. /\ PlinkDetails(m') = PlinkDetails(m) /\ LinkIds(s) = LinkIds(m)
      /\ LinkIds(m') \subseteq LinkIds(m)
      /\ m'.links - Cardinality(LinkIds(m')) = (m.links + 1) - Cardinality(LinkIds(m))
      /\ m'.pers = m.pers + j /\ m'.miscount = m.miscount
  BY <1>2, <1>a DEF Even
<1>4. /\ IsFiniteSet(LinkIds(m)) /\ Cardinality(LinkIds(m)) \in Nat
      /\ Cardinality(LinkIds(m')) \in Nat /\ Cardinality(PlinkDetails(m)) \in Nat
      /\ m.links \in Int /\ m.pers \in Int /\ m'.links \in Int
  BY FiniteLinks DEF IInv, Good
<1>5. Cardinality(LinkIds(m')) <= Cardinality(LinkIds(m))
  BY <1>3, <1>4, FS_Subset
<1>6. /\ Uncounted("link") + Uncounted("plink") = 1 /\ Uncounted("plink") = j
      /\ Uncounted("link") \in Int /\ Uncounted("link")' = 0 /\ Uncounted("plink")' = 0
  BY <1>1, <1>2 DEF Uncounted, Links, j
<1>7. MaxLinks \in Nat /\ MaxPersistent \in Nat /\ j \in Int
  BY MySQLAssumption DEF j
<1>8. m.miscount # "persistent" =>
        m.pers + j = Cardinality(PlinkDetails(m)) /\ Cardinality(PlinkDetails(m)) <= MaxPersistent
  BY <1>4, <1>6 DEF CountInv, Persistent
<1>9. m.miscount = "none" =>
        /\ m.links + 1 = Cardinality(LinkIds(m)) + Cardinality(PlinkDetails(m))
        /\ LinkIds(m) = {} \/ Cardinality(LinkIds(m)) + Cardinality(PlinkDetails(m)) <= MaxLinks
  <2>1. m.miscount = "none" =>
        /\ m.links + Uncounted("link") + Uncounted("plink") = Cardinality(LinkIds(m)) + Cardinality(PlinkDetails(m))
        /\ LinkIds(m) = {} \/ Cardinality(LinkIds(m)) + Cardinality(PlinkDetails(m)) <= MaxLinks
    BY <1>1 DEF CountInv, Persistent, OpenLinks, Connections
  <2> QED
    BY <1>4, <1>6, <1>7, <2>1
<1>10. m'.miscount # "persistent" =>
         m'.pers = Cardinality(PlinkDetails(m')) /\ Cardinality(PlinkDetails(m')) <= MaxPersistent
  BY <1>3, <1>4, <1>7, <1>8
<1>11. m'.miscount = "none" =>
         /\ m'.links = Cardinality(LinkIds(m')) + Cardinality(PlinkDetails(m'))
         /\ LinkIds(m') = {} \/ Cardinality(LinkIds(m')) + Cardinality(PlinkDetails(m')) <= MaxLinks
  BY <1>3, <1>4, <1>5, <1>7, <1>9
<1>12. m'.pers \in Int
  BY <1>3, <1>4, <1>7
<1> QED
  BY <1>2, <1>4, <1>6, <1>10, <1>11, <1>12 DEF CountInv, Persistent, OpenLinks, Connections

LEMMA Query_count ==
  ASSUME IInv, IInv', CountInv,
         \/ \E v, w \in Zvals, q \in {"store", "use"} : MysqlQuery(v, w, q)
         \/ \E v \in Zvals, q \in {"store", "use"} : QueryDefault(v, q)
         \/ QueryImplicit
  PROVE  CountInv'
<1>1. Good(m) /\ stage # "idle" /\ stage' = stage /\ call.at \in {"idle", "query"}
  <2>1. ASSUME Ready \/ QueryImplicit PROVE stage # "idle" /\ call.at \in {"idle", "query"}
    BY <2>1, InHand DEF QueryImplicit, Ready, Idle
  <2>2. (Ready \/ QueryImplicit) /\ stage' = stage
    BY DEF MysqlQuery, QueryDefault, QueryImplicit
  <2> QED
    BY <2>1, <2>2 DEF IInv
<1>2. ASSUME NEW c, NEW id \in Nat, StartQuery(m, c, id) PROVE CountInv'
  BY <1>1, <1>2, EvenStarts, CountsKept
<1>3. ASSUME NEW v \in Zvals, NEW w \in Zvals, NEW q \in {"store", "use"}, MysqlQuery(v, w, q)
      PROVE  CountInv'
  <2>1. StartQuery(m, [v |-> v, query |-> q], m.zval[w]) /\ m.zval[w] \in Nat
    BY <1>1, <1>3 DEF MysqlQuery, Good, StateOK
  <2> QED
    BY <1>2, <2>1
<1>4. ASSUME NEW v \in Zvals, NEW q \in {"store", "use"}, QueryDefault(v, q)
      PROVE  CountInv'
  <2>1. CASE StartQuery(m, [v |-> v, query |-> q], m.dflt)
    <3>1. m.dflt \in Nat
      BY <1>1 DEF Good, StateOK
    <3> QED
      BY <1>2, <2>1, <3>1
  <2>2. CASE Connect([at |-> "connect", kind |-> "link", v |-> v, d |-> Preset, query |-> q])
    <3>1. call = Idle /\ q \in Queries /\ Preset \in Details
      BY <1>4, MySQLAssumption DEF QueryDefault, Ready, Queries
    <3> QED
      BY <1>1, <2>2, <3>1, Connect_count
  <2> QED
    BY <1>4, <2>1, <2>2 DEF QueryDefault
<1>5. ASSUME QueryImplicit PROVE CountInv'
  <2>1. StartQuery(m, call, m.dflt) /\ m.dflt \in Nat
    BY <1>1, <1>5 DEF QueryImplicit, Good, StateOK
  <2> QED
    BY <1>2, <2>1
<1> QED
  BY <1>3, <1>4, <1>5

\* A connection's fields do not count.
LEMMA EvenConn ==
  ASSUME NEW s, Good(s), NEW f, NEW t, t = [s EXCEPT !.conn = f]
  PROVE  Even(s, t)
<1>1. /\ t.list = s.list /\ t.plist = s.plist /\ t.pers = s.pers
      /\ t.miscount = s.miscount /\ t.links = s.links
  BY DEF Good, StateOK
<1> QED
  BY <1>1, EvenAlike DEF Good

LEMMA Rows_count ==
  ASSUME IInv, IInv', CountInv, Answer \/ Store \/ Use \/ Used
  PROVE  CountInv'
<1>1. /\ Good(m) /\ stage # "idle" /\ stage' = stage /\ call.at \in {"sent", "rows", "used"}
      /\ call \in Working({call.at}) /\ call.a \in Addr /\ m.conn[call.a] # Freed
  BY InHand DEF IInv, CallOK, Answer, Store, Use, Used, Working
<1> DEFINE a == call.a
           g(x) == [m.conn EXCEPT ![a].status = x]
           s == [m EXCEPT !.conn[a].status = "ready"]
           t == [m EXCEPT !.conn[a].active = m.list.next, !.conn[a].old = FALSE]
<1>2. Good(s) /\ Even(m, s)
  <2> DEFINE c == [m.conn[a] EXCEPT !.status = "ready"]
  <2>1. c \in Conns /\ c.kind = m.conn[a].kind /\ c.details = m.conn[a].details /\ c.cut = m.conn[a].cut
    BY <1>1 DEF Good, StateOK, Conns
  <2>2. s = [m EXCEPT !.conn = [m.conn EXCEPT ![a] = c]] /\ s = [m EXCEPT !.conn[a] = c]
    BY <1>1 DEF Good, StateOK
  <2> HIDE DEF c, s
  <2> QED
    BY <1>1, <2>1, <2>2, Changes, EvenConn
<1>3. Good(t) /\ Even(m, t)
  <2> DEFINE c == [m.conn[a] EXCEPT !.active = m.list.next, !.old = FALSE]
  <2>1. c \in Conns /\ c.kind = m.conn[a].kind /\ c.details = m.conn[a].details /\ c.cut = m.conn[a].cut
    <3>1. m.conn[a] \in Conns /\ m.list.next \in Nat
      BY <1>1 DEF Good, StateOK, ListOK
    <3> HIDE DEF a
    <3> QED
      BY <3>1 DEF Conns
  <2>2. t = [m EXCEPT !.conn = [m.conn EXCEPT ![a] = c]] /\ t = [m EXCEPT !.conn[a] = c]
    BY <1>1 DEF Good, StateOK
  <2> HIDE DEF c, t
  <2> QED
    BY <1>1, <2>1, <2>2, Changes, EvenConn
<1>4. ASSUME NEW x, m' = [m EXCEPT !.conn[a].status = x] PROVE Even(m, m')
  <2>1. m' = [m EXCEPT !.conn = g(x)]
    BY <1>1, <1>4 DEF Good, StateOK
  <2> HIDE DEF g
  <2> QED
    BY <1>1, <2>1, EvenConn
<1>5. call'.at \in {"idle", "rows", "used"}
  <2>1. call' = Idle \/ call' = [call EXCEPT !.at = "rows"] \/ call' = [call EXCEPT !.at = "used"]
    BY DEF Answer, Store, Use, Used
  <2> QED
    BY <1>1, <2>1 DEF Idle, Working
<1> HIDE DEF s, t
<1>6. Even(m, m')
  <2>1. CASE Answer
    <3>1. m' = Return(m, call.v, NoId) \/ m' = [m EXCEPT !.conn[a].status = "get"]
      BY <2>1 DEF Answer
    <3> QED
      BY <1>1, <1>4, <3>1, LetsReturn DEF Lets, NoId
  <2>2. CASE Store
    <3>1. m' = NewResult(s, call.v, Nowhere, TRUE) \/ m' = Return(s, call.v, NoId)
      BY <2>2 DEF Store, s
    <3>2. Even(s, m')
      BY <1>2, <3>1, EvenNewResult, LetsReturn DEF Lets, NoId
    <3> QED
      BY <1>1, <1>2, <3>2, EvenAgain DEF IInv, Good
  <2>3. CASE Use
    BY <1>4, <2>3 DEF Use
  <2>4. CASE Used
    <3>1. m' = NewResult(t, call.v, a, FALSE)
      BY <2>4 DEF Used, t
    <3>2. a \in Addr /\ a # Nowhere
      BY <1>1, MySQLAssumption
    <3>3. Even(t, m')
      BY <1>3, <3>1, <3>2, EvenNewResult
    <3> QED
      BY <1>1, <1>3, <3>3, EvenAgain DEF IInv, Good
  <2> QED
    BY <2>1, <2>2, <2>3, <2>4
<1> QED
  BY <1>1, <1>5, <1>6, CountsKept

LEMMA Values_count ==
  ASSUME IInv, IInv', CountInv,
         \/ \E v \in Zvals : FetchLast(v) \/ MysqlFreeResult(v) \/ MysqlClose(v) \/ Unset(v) \/ DestroyVar(v)
         \/ CloseDefault
  PROVE  CountInv'
<1>1. call = Idle /\ call' = Idle /\ stage # "idle" /\ Good(m)
  BY DEF FetchLast, MysqlFreeResult, MysqlClose, Unset, DestroyVar, CloseDefault, Ready, IInv, CallOK
<1>2. ASSUME NEW s, Good(s), NEW x \in Nat
      PROVE  /\ Lets(s, [s EXCEPT !.released = @ \cup {x}]) /\ Lets(s, [s EXCEPT !.dflt = x])
  <2> DEFINE t == [s EXCEPT !.released = @ \cup {x}]
             u == [s EXCEPT !.dflt = x]
  <2>1. /\ StateOK(t) /\ t.list = s.list /\ t.conn = s.conn /\ t.plist = s.plist
        /\ t.index = s.index /\ t.pers = s.pers /\ t.miscount = s.miscount /\ t.links = s.links
    BY <1>2 DEF Good, StateOK
  <2>2. /\ StateOK(u) /\ u.list = s.list /\ u.conn = s.conn /\ u.plist = s.plist
        /\ u.index = s.index /\ u.pers = s.pers /\ u.miscount = s.miscount /\ u.links = s.links
    BY <1>2 DEF Good, StateOK
  <2> HIDE DEF t, u
  <2> QED
    BY <1>2, <2>1, <2>2, Untouched, EvenAlike DEF Lets, Shrunk, Good, t, u
<1>3. ASSUME NEW s, Lets(m, s), NEW id PROVE Lets(m, Delete(s, id))
  BY <1>1, <1>3, LetsDelete, LetsAgain DEF Lets, Gives
<1>4. ASSUME NEW v \in Zvals,
             FetchLast(v) \/ MysqlFreeResult(v) \/ MysqlClose(v) \/ Unset(v) \/ DestroyVar(v)
      PROVE  Lets(m, m')
  <2> DEFINE id == m.zval[v]
             s == [m EXCEPT !.released = @ \cup {id}]
  <2>1. id \in Nat
    BY <1>1 DEF Good, StateOK
  <2>2. Lets(m, s)
    BY <1>1, <1>2, <2>1
  <2>3. \/ m' = Delete(s, id) \/ m' = [Delete(Delete(s, id), id) EXCEPT !.dflt = NoId]
        \/ m' = Return(m, v, NoId)
        \/ FetchLast(v)
    BY <1>4 DEF MysqlFreeResult, MysqlClose, Unset, DestroyVar
  <2> HIDE DEF s, id
  <2>4. CASE FetchLast(v)
    <3>1. m' = ReadAll(m, id) /\ id \in Ids(m.list) /\ m.list.ent[id].type = "result"
          /\ ~m.list.ent[id].eof
      BY <2>4 DEF FetchLast, Find, id
    <3> QED
      BY <1>1, <3>1, LetsReadAll
  <2>5. CASE m' = Delete(s, id)
    BY <1>3, <2>2, <2>5
  <2>6. CASE m' = [Delete(Delete(s, id), id) EXCEPT !.dflt = NoId]
    <3> DEFINE u == Delete(Delete(s, id), id)
    <3>1. Lets(m, u)
      BY <1>3, <2>2
    <3> HIDE DEF u
    <3>2. Lets(u, [u EXCEPT !.dflt = NoId])
      BY <1>2, <3>1 DEF Lets, Gives, NoId
    <3> QED
      BY <1>1, <2>6, <3>1, <3>2, LetsAgain DEF u
  <2>7. CASE m' = Return(m, v, NoId)
    BY <1>1, <2>7, LetsReturn DEF NoId
  <2> QED
    BY <2>3, <2>4, <2>5, <2>6, <2>7
<1>5. ASSUME CloseDefault PROVE Lets(m, m')
  <2> DEFINE u == Delete(m, m.dflt)
  <2>1. m' = [u EXCEPT !.dflt = NoId]
    BY <1>5 DEF CloseDefault
  <2>2. Lets(m, u)
    BY <1>1, LetsDelete
  <2> HIDE DEF u
  <2>3. Lets(u, [u EXCEPT !.dflt = NoId])
    BY <1>2, <2>2 DEF Lets, Gives, NoId
  <2> QED
    BY <1>1, <2>1, <2>2, <2>3, LetsAgain
<1> QED
  BY <1>1, <1>4, <1>5, CountsKept DEF Lets, Idle

\* A step that does not touch what is counted.
LEMMA Idle_count ==
  ASSUME IInv, IInv', CountInv,
         EndScript \/ EndVars \/ DestroyNewest \/ EndRequest
  PROVE  CountInv'
<1>1. call = Idle /\ call' = Idle /\ stage # "idle" /\ Good(m)
  BY DEF EndScript, EndVars, DestroyNewest, EndRequest, Ready, IInv, CallOK
<1>2. Even(m, m')
  <2>1. CASE m' = m
    BY <1>1, <2>1, EvenAlike DEF Good
  <2>2. CASE DestroyNewest
    BY <1>1, <2>2, EvenDestroys DEF DestroyNewest
  <2>3. CASE EndRequest
    <3>1. /\ m'.list = EmptyList /\ m'.plist = m.plist /\ m'.pers = m.pers
          /\ m'.miscount = m.miscount /\ m'.links = m.links /\ Ids(m.list) = {}
      BY <1>1, <2>3 DEF EndRequest, Good, StateOK
    <3>2. Ids(m'.list) = {}
      BY <3>1 DEF EmptyList, Ids
    <3> QED
      BY <1>1, <3>1, <3>2, EvenAlike DEF Good
  <2> QED
    BY <2>1, <2>2, <2>3 DEF EndScript, EndVars
<1> QED
  BY <1>1, <1>2, CountsKept DEF Idle

LEMMA Timeout_count == ASSUME IInv, IInv', CountInv, Timeout PROVE CountInv'
<1>1. call # Idle /\ call' = Idle /\ stage = "script" /\ stage' = "script" /\ Good(m)
  BY DEF Timeout, IInv
<1>2. CASE call.at # "registered"
  <2>1. m' = m \/ m' = CutOff(m, call.a)
    BY <1>2 DEF Timeout
  <2>2. /\ m'.list = m.list /\ m'.plist = m.plist /\ m'.pers = m.pers
        /\ m'.miscount = m.miscount /\ m'.links = m.links
    BY <1>1, <2>1 DEF CutOff, Good, StateOK
  <2>3. Even(m, m')
    BY <1>1, <2>2, EvenAlike DEF Good
  <2> QED
    BY <1>1, <1>2, <2>3, CountsKept DEF Idle
<1>3. CASE call.at = "registered" /\ call.kind = "plink"
  <2>1. m' = Miscount(m, "persistent")
    BY <1>3 DEF Timeout
  <2>2. m'.miscount = "persistent"
    BY <1>1, <2>1 DEF Miscount, Good, StateOK
  <2> QED
    BY <2>2 DEF CountInv
<1>4. CASE call.at = "registered" /\ call.kind = "link"
  <2> DEFINE s == [m EXCEPT !.lost = @ \cup {m.index[call.d]}]
  <2>1. m' = Miscount(s, "links")
    BY <1>4 DEF Timeout
  <2>2. s.list = m.list /\ s.plist = m.plist /\ s.pers = m.pers /\ s.miscount = m.miscount
        /\ StateOK(m) /\ m.miscount \in {"none", "links", "persistent"}
    BY <1>1 DEF Good, StateOK
  <2>3. /\ m'.plist = m.plist /\ m'.pers = m.pers
        /\ \/ m'.miscount = "persistent" /\ m.miscount = "persistent"
           \/ m'.miscount = "links" /\ m.miscount # "persistent"
    <3>1. s \in [list : {s.list}, index : {s.index}, plist : {s.plist}, conn : {s.conn},
                 zval : {s.zval}, dflt : {s.dflt}, links : {s.links}, pers : {s.pers},
                 released : {s.released}, lost : {s.lost}, miscount : {s.miscount},
                 mishap : {s.mishap}, wrong : {s.wrong}, undefined : {s.undefined}]
      BY <2>2 DEF StateOK
    <3> HIDE DEF s
    <3> QED
      BY <2>1, <2>2, <3>1 DEF Miscount
  <2>4. PlinkDetails(m') = PlinkDetails(m)
    BY <2>3 DEF PlinkDetails
  <2>5. Uncounted("plink") = 0 /\ Uncounted("plink")' = 0 /\ call'.at = "idle"
    BY <1>1, <1>4 DEF Uncounted, Idle
  <2> QED
    BY <2>3, <2>4, <2>5 DEF CountInv, Persistent
<1> QED
  <2>1. call.at = "registered" => call.kind \in Links
    BY InHand DEF ConnectingAt
  <2> QED
    BY <1>2, <1>3, <1>4, <2>1 DEF Links

LEMMA BeginRequest_count == ASSUME IInv, CountInv, BeginRequest PROVE CountInv'
<1>1. stage = "idle" /\ call = Idle /\ call' = Idle /\ Ids(m.list) = {} /\ StateOK(m)
  BY DEF BeginRequest, IInv, CallOK, AtRest, Good
<1>2. /\ m'.list = m.list /\ m'.plist = m.plist /\ m'.pers = m.pers /\ m'.links = m.pers
      /\ m'.miscount = (IF m.miscount = "links" THEN "none" ELSE m.miscount)
  BY <1>1 DEF BeginRequest, StateOK
<1>3. PlinkDetails(m') = PlinkDetails(m) /\ LinkIds(m') = {}
  BY <1>1, <1>2 DEF PlinkDetails, LinkIds
<1>4. /\ Uncounted("link")' = 0 /\ Uncounted("plink") = 0 /\ Uncounted("plink")' = 0
      /\ call'.at = "idle"
  BY <1>1 DEF Uncounted, Idle
<1>5. m.pers \in Int /\ Cardinality(PlinkDetails(m)) \in Nat /\ Cardinality({}) = 0
  BY <1>1, FiniteLinks, FS_EmptySet
<1>6. m.miscount # "persistent" =>
        m.pers = Cardinality(PlinkDetails(m)) /\ Cardinality(PlinkDetails(m)) <= MaxPersistent
  BY <1>4, <1>5 DEF CountInv, Persistent
<1> QED
  BY <1>2, <1>3, <1>4, <1>5, <1>6 DEF CountInv, Persistent, OpenLinks, Connections

LEMMA DestroyCut_count == ASSUME IInv, IInv', CountInv, DestroyCut PROVE CountInv'
<1>1. call = Idle /\ call' = Idle /\ stage = "list" /\ stage' = stage /\ Good(m) /\ StateOK(m)
  BY DEF DestroyCut, IInv, CallOK, Good
<1>2. PICK id \in Ids(m.list) :
        LET e == m.list.ent[id]
            s == [m EXCEPT !.list = Remove(@, id)]
        IN  m' = CASE e.type = "link"   -> Miscount(s, "links")
                   [] e.type = "plink"  -> s
                   [] e.type = "result" -> IF e.ptr = Nowhere THEN s ELSE CutOff(s, e.ptr)
  BY DEF DestroyCut
<1> DEFINE e == m.list.ent[id]
           s == [m EXCEPT !.list = Remove(@, id)]
<1>3. e \in Entries
  BY <1>1 DEF StateOK, ListOK
<1>4. /\ e.type = "link" => m' = Miscount(s, "links")
      /\ e.type = "plink" => m' = s
      /\ e.type = "result" => m' = s \/ m' = CutOff(s, e.ptr)
  BY <1>2
<1>5. /\ Shrunk(m.list, Remove(m.list, id)) /\ Ids(Remove(m.list, id)) = Ids(m.list) \ {id}
  BY <1>1, Removes DEF StateOK
<1>6. /\ s.list = Remove(m.list, id) /\ s.plist = m.plist /\ s.pers = m.pers
      /\ s.miscount = m.miscount /\ s.links = m.links
      /\ s \in [list : {s.list}, index : {s.index}, plist : {s.plist}, conn : {s.conn},
                zval : {s.zval}, dflt : {s.dflt}, links : {s.links}, pers : {s.pers},
                released : {s.released}, lost : {s.lost}, miscount : {s.miscount},
                mishap : {s.mishap}, wrong : {s.wrong}, undefined : {s.undefined}]
      /\ m.miscount \in {"none", "links", "persistent"}
  BY <1>1 DEF StateOK
<1> HIDE DEF s, e
<1>7. CASE e.type = "link"
  <2>1. /\ m'.plist = m.plist /\ m'.pers = m.pers
        /\ \/ m'.miscount = "persistent" /\ m.miscount = "persistent"
           \/ m'.miscount = "links" /\ m.miscount # "persistent"
    <3>1. m' = Miscount(s, "links")
      BY <1>4, <1>7
    <3> HIDE DEF e
    <3> QED
      BY <1>6, <3>1 DEF Miscount
  <2>2. PlinkDetails(m') = PlinkDetails(m)
    BY <2>1 DEF PlinkDetails
  <2>3. Uncounted("plink") = 0 /\ Uncounted("plink")' = 0 /\ call'.at = "idle"
    BY <1>1 DEF Uncounted, Idle
  <2> QED
    BY <2>1, <2>2, <2>3 DEF CountInv, Persistent
<1>8. CASE e.type # "link"
  <2>1. m' = s \/ m' = CutOff(s, e.ptr)
    BY <1>3, <1>4, <1>8 DEF Entries
  <2>2. /\ m'.list = s.list /\ m'.plist = m.plist /\ m'.pers = m.pers
        /\ m'.miscount = m.miscount /\ m'.links = m.links
    BY <1>6, <2>1 DEF CutOff
  <2>3. LinkIds(m') = LinkIds(m)
    BY <1>5, <1>6, <1>8, <2>2 DEF LinkIds, Shrunk, e
  <2>4. Even(m, m')
    BY <1>1, <2>2, <2>3, FiniteLinks DEF Even
  <2> QED
    BY <1>1, <2>4, CountsKept DEF Idle
<1> QED
  BY <1>7, <1>8

LEMMA StartCounts == /\ PlinkDetails(Start) = {} /\ Start.pers = 0 /\ Cardinality({}) = 0
                     /\ MaxPersistent \in Nat
  BY FS_EmptySet, MySQLAssumption DEF PlinkDetails, Start

LEMMA Start_count == ASSUME m' = Start, call' = Idle, stage' = "idle" PROVE CountInv'
<1>1. Uncounted("plink")' = 0 /\ call'.at = "idle"
  BY DEF Uncounted, Idle
<1> QED
  BY <1>1, StartCounts DEF CountInv, Persistent

LEMMA Next_count == ASSUME IInv, CountInv, [Next]_vars PROVE CountInv'
<1>1. IInv'
  BY Next_step
<1>2. ASSUME NEW v \in Zvals, NEW d \in Details,
             MysqlConnect(v, d) \/ PconnectNew(v, d) \/ PconnectOld(v, d)
      PROVE  CountInv'
  <2>1. CASE MysqlConnect(v, d)
    BY <1>1, <2>1, Connect_count DEF MysqlConnect, Ready, Queries
  <2> QED
    BY <1>1, <1>2, <2>1, Pconnect_count
<1>3. CASE Open \/ Register \/ Count
  BY <1>1, <1>3, Open_count, Register_count, Count_count
<1>4. CASE \/ \E v, w \in Zvals, q \in {"store", "use"} : MysqlQuery(v, w, q)
           \/ \E v \in Zvals, q \in {"store", "use"} : QueryDefault(v, q)
           \/ QueryImplicit
  BY <1>1, <1>4, Query_count
<1>5. CASE Answer \/ Store \/ Use \/ Used
  BY <1>1, <1>5, Rows_count
<1>6. CASE \/ \E v \in Zvals : FetchLast(v) \/ MysqlFreeResult(v) \/ MysqlClose(v) \/ Unset(v) \/ DestroyVar(v)
           \/ CloseDefault
  BY <1>1, <1>6, Values_count
<1>7. CASE EndScript \/ EndVars \/ DestroyNewest \/ EndRequest
  BY <1>1, <1>7, Idle_count
<1>8. CASE Timeout \/ BeginRequest \/ DestroyCut
  BY <1>1, <1>8, Timeout_count, BeginRequest_count, DestroyCut_count
<1>9. CASE NextProcess
  BY <1>9, Start_count DEF NextProcess
<1>10. CASE UNCHANGED vars
  BY <1>10 DEF vars, CountInv, Persistent, OpenLinks, Connections, Uncounted
<1> QED
  BY <1>2, <1>3, <1>4, <1>5, <1>6, <1>7, <1>8, <1>9, <1>10 DEF Next

\* For any limits, servers, values and addresses, over any requests: num_links and
\* num_persistent are the numbers of open connections and do not exceed the limits, but for
\* what a timeout between list and count leaves (php_mysql.c:345, 546-552, 638-647).
THEOREM LinksStayCounted == Spec => []LinksCounted
<1>1. ASSUME IInv, CountInv PROVE LinksCounted
  <2>1. stage = "idle" => OpenLinks = {}
    BY <1>1 DEF IInv, AtRest, OpenLinks, LinkIds
  <2> QED
    BY <1>1, <2>1 DEF CountInv, LinksCounted
<1>2. Init => CountInv
  <2>1. SUFFICES ASSUME Init PROVE CountInv
    OBVIOUS
  <2>2. Uncounted("plink") = 0 /\ call.at = "idle" /\ m = Start /\ stage = "idle"
    BY <2>1 DEF Init, Uncounted, Idle
  <2> QED
    BY <2>2, StartCounts DEF CountInv, Persistent
<1>3. IInv /\ CountInv /\ [Next]_vars => CountInv'
  BY Next_count
<1> QED
  BY <1>1, <1>2, <1>3, Invariant, PTL DEF Spec

(***************************************************************************)
(* References                                                              *)
(***************************************************************************)
\* Who holds a reference to id, when a function has one to x in hand.
Users(s, id) == Cardinality({v \in Zvals : s.zval[v] = id})
One(a, b)    == IF a = b THEN 1 ELSE 0
Hold(s, x)   == [id \in Nat |-> Users(s, id) + One(s.dflt, id) + One(x, id)]

RefsOK(s, x) == Past(s) /\ Refs(s.list, s.released, s.lost, Hold(s, x))

\* A value's id is another one.
LEMMA UsersType ==
  ASSUME NEW s, NEW id
  PROVE  /\ IsFiniteSet({v \in Zvals : s.zval[v] = id}) /\ Users(s, id) \in Nat
         /\ Users(s, id) = 0 => \A v \in Zvals : s.zval[v] # id
         /\ (\A v \in Zvals : s.zval[v] # id) => Users(s, id) = 0
<1> DEFINE A == {v \in Zvals : s.zval[v] = id}
<1>1. IsFiniteSet(A)
  BY FS_Subset, MySQLAssumption
<1>2. Cardinality(A) \in Nat /\ (Cardinality(A) = 0 <=> A = {})
  BY <1>1, FS_CardinalityType, FS_EmptySet
<1> QED
  BY <1>1, <1>2 DEF Users

LEMMA UsersChange ==
  ASSUME NEW s, NEW t, NEW v \in Zvals, NEW y, s.zval \in [Zvals -> Nat],
         t.zval = [s.zval EXCEPT ![v] = y], NEW id
  PROVE  Users(t, id) + One(s.zval[v], id) = Users(s, id) + One(y, id)
<1> DEFINE A(x) == {u \in Zvals : x.zval[u] = id}
           B    == {u \in Zvals \ {v} : s.zval[u] = id}
<1>1. B = A(s) \ {v} /\ B = A(t) \ {v} /\ (v \in A(s) <=> s.zval[v] = id) /\ (v \in A(t) <=> y = id)
  OBVIOUS
<1>2. IsFiniteSet(A(s)) /\ IsFiniteSet(A(t)) /\ Cardinality(A(s)) \in Nat /\ Cardinality(A(t)) \in Nat
  <2>1. ASSUME NEW x PROVE IsFiniteSet({u \in Zvals : x.zval[u] = id})
    BY FS_Subset, MySQLAssumption
  <2> QED
    BY <2>1, FS_CardinalityType
<1> HIDE DEF A, B
<1>3. /\ Cardinality(B) = IF v \in A(s) THEN Cardinality(A(s)) - 1 ELSE Cardinality(A(s))
      /\ Cardinality(B) = IF v \in A(t) THEN Cardinality(A(t)) - 1 ELSE Cardinality(A(t))
  BY <1>1, <1>2, FS_RemoveElement
<1>4. Users(s, id) = Cardinality(A(s)) /\ Users(t, id) = Cardinality(A(t))
  BY DEF Users, A
<1> QED
  BY <1>1, <1>2, <1>3, <1>4 DEF One

LEMMA HoldType ==
  ASSUME NEW s, NEW x
  PROVE  /\ Hold(s, x) \in [Nat -> Nat]
         /\ \A id \in Nat : Hold(s, x)[id] = Users(s, id) + One(s.dflt, id) + One(x, id)
<1>1. \A id \in Nat : Users(s, id) \in Nat /\ One(s.dflt, id) \in Nat /\ One(x, id) \in Nat
  BY UsersType DEF One
<1> QED
  BY <1>1 DEF Hold

\* A function that lets go of one reference to id, or of one that is released.
LEMMA DeletesRefs ==
  ASSUME NEW s, Good(s), NEW id, NEW h \in [Nat -> Int], NEW k \in [Nat -> Int],
         Refs(s.list, s.released, s.lost, h),
         \A i \in Nat \ {id} : k[i] = h[i],
         id \in Nat =>
           \/ k[id] = h[id] - 1
           \/ k[id] = h[id] /\ id \in s.released
  PROVE  LET t == Delete(s, id) IN
         /\ Refs(t.list, t.released, t.lost, k)
         /\ t.zval = s.zval /\ t.dflt = s.dflt /\ t.released = s.released
         /\ t.list.next = s.list.next
         /\ \A i \in Ids(s.list) \ {id} :
              i \in Ids(t.list) /\ t.list.ent[i].refcount = s.list.ent[i].refcount
         /\ id \in Ids(s.list) /\ s.list.ent[id].refcount >= 2 =>
              id \in Ids(t.list) /\ t.list.ent[id].refcount = s.list.ent[id].refcount - 1
<1> DEFINE t == Delete(s, id)
<1>1. /\ ListOK(s.list) /\ Ids(s.list) \subseteq 1 .. s.list.next - 1 /\ s.list.next \in Nat \ {0}
      /\ \A i \in Ids(s.list) : s.list.ent[i] \in Entries /\ s.list.ent[i].refcount \in Int
  BY DEF Good, StateOK, ListOK, Entries
<1>2. CASE id \notin Ids(s.list)
  <2>1. t.list = s.list /\ t.zval = s.zval /\ t.dflt = s.dflt /\ t.released = s.released /\ t.lost = s.lost
    BY <1>2 DEF Delete, LastReference, DropRef, Good, StateOK
  <2> HIDE DEF t
  <2>2. Refs(t.list, t.released, t.lost, k)
    BY <1>1, <1>2, <2>1 DEF Refs
  <2> QED
    BY <1>2, <2>1, <2>2 DEF t
<1>3. CASE id \in Ids(s.list) /\ s.list.ent[id].refcount > 1
  <2> DEFINE l == DropRef(s.list, id)
  <2>1. /\ Ids(l) = Ids(s.list) /\ l.next = s.list.next
        /\ l.ent[id].refcount = s.list.ent[id].refcount - 1
        /\ \A i \in Ids(s.list) \ {id} : l.ent[i] = s.list.ent[i]
    BY <1>1, <1>3 DEF DropRef, Ids, ListOK, Entries
  <2>2. t = [s EXCEPT !.list = l]
    BY <1>1, <1>3 DEF Delete, LastReference
  <2> HIDE DEF l
  <2>3. t.list = l /\ t.zval = s.zval /\ t.dflt = s.dflt /\ t.released = s.released /\ t.lost = s.lost
    BY <2>2 DEF Good, StateOK
  <2> HIDE DEF t
  <2>4. Refs(t.list, t.released, t.lost, k)
    <3>1. SUFFICES ASSUME NEW i \in 1 .. l.next - 1
                   PROVE  /\ i \in Ids(l) => l.ent[i].refcount >= 1
                          /\ i \notin s.released => /\ k[i] > 0 => i \in Ids(l)
                                                    /\ i \in Ids(l) => l.ent[i].refcount >= k[i]
                          /\ i \in Ids(l) \ s.lost => l.ent[i].refcount <= k[i]
      BY <2>3 DEF Refs
    <3>2. i \in Nat /\ i \in 1 .. s.list.next - 1 /\ h[i] \in Int /\ k[i] \in Int
      BY <1>1, <2>1, <3>1
    <3>3. /\ i \in Ids(s.list) => s.list.ent[i].refcount >= 1 /\ s.list.ent[i].refcount \in Int
          /\ i \notin s.released => /\ h[i] > 0 => i \in Ids(s.list)
                                    /\ i \in Ids(s.list) => s.list.ent[i].refcount >= h[i]
          /\ i \in Ids(s.list) \ s.lost => s.list.ent[i].refcount <= h[i]
      BY <1>1, <3>2 DEF Refs
    <3>4. CASE i # id
      BY <2>1, <3>2, <3>3, <3>4
    <3>5. CASE i = id
      BY <1>3, <2>1, <3>2, <3>3, <3>5
    <3> QED
      BY <3>4, <3>5
  <2> QED
    BY <1>3, <2>1, <2>3, <2>4 DEF t
<1>4. CASE id \in Ids(s.list) /\ ~(s.list.ent[id].refcount > 1)
  <2>1. LastReference(s.list, id)
    BY <1>1, <1>4 DEF LastReference
  <2> DEFINE e == s.list.ent[id]
             r == MishapIf(s, e.type = "link" /\ Results(s, e.ptr) # {}, "closed")
             u == [r EXCEPT !.list = Remove(@, id), !.lost = @ \ {id}]
  <2>2. t = Destroy(r, id) /\ r.list = s.list /\ StateOK(r)
        /\ r.zval = s.zval /\ r.dflt = s.dflt /\ r.released = s.released /\ r.lost = s.lost
    BY <2>1 DEF Delete, MishapIf, Mishap, Good, StateOK
  <2> HIDE DEF r
  <2>3. /\ u.list = Remove(s.list, id) /\ u.lost = s.lost \ {id}
        /\ u.zval = s.zval /\ u.dflt = s.dflt /\ u.released = s.released
    BY <2>2 DEF StateOK
  <2>4. t = u \/ t = CloseLink(u, e.ptr) \/ t = FreeResult(u, e)
    BY <1>1, <1>4, <2>2 DEF Destroy, Entries
  <2>5. u \in [list : {u.list}, index : {u.index}, plist : {u.plist}, conn : {u.conn},
               zval : {u.zval}, dflt : {u.dflt}, links : {u.links}, pers : {u.pers},
               released : {u.released}, lost : {u.lost}, miscount : {u.miscount},
               mishap : {u.mishap}, wrong : {u.wrong}, undefined : {u.undefined}]
    BY <2>2 DEF StateOK
  <2> HIDE DEF u, t, e
  <2>6. /\ t.list = u.list /\ t.lost = u.lost
        /\ t.zval = u.zval /\ t.dflt = u.dflt /\ t.released = u.released
    <3>1. ASSUME t = CloseLink(u, e.ptr)
          PROVE  /\ t.list = u.list /\ t.lost = u.lost
                 /\ t.zval = u.zval /\ t.dflt = u.dflt /\ t.released = u.released
      BY <2>5, <3>1 DEF CloseLink, Undefined
    <3>2. ASSUME t = FreeResult(u, e)
          PROVE  /\ t.list = u.list /\ t.lost = u.lost
                 /\ t.zval = u.zval /\ t.dflt = u.dflt /\ t.released = u.released
      BY <2>5, <3>2 DEF FreeResult, Undefined, MishapIf, Mishap
    <3> QED
      BY <2>4, <3>1, <3>2
  <2> DEFINE l == Remove(s.list, id)
  <2>7. /\ Ids(l) = Ids(s.list) \ {id} /\ l.next = s.list.next
        /\ \A i \in Ids(s.list) \ {id} : l.ent[i] = s.list.ent[i]
    BY <1>1 DEF Remove, Restrict, Ids, ListOK
  <2>8. t.list = l /\ t.lost = s.lost \ {id} /\ t.zval = s.zval /\ t.dflt = s.dflt /\ t.released = s.released
    BY <2>3, <2>6
  <2> HIDE DEF l
  <2>9. Refs(t.list, t.released, t.lost, k)
    <3>1. SUFFICES ASSUME NEW i \in 1 .. l.next - 1
                   PROVE  /\ i \in Ids(l) => l.ent[i].refcount >= 1
                          /\ i \notin s.released => /\ k[i] > 0 => i \in Ids(l)
                                                    /\ i \in Ids(l) => l.ent[i].refcount >= k[i]
                          /\ i \in Ids(l) \ t.lost => l.ent[i].refcount <= k[i]
      BY <2>8 DEF Refs
    <3>2. i \in Nat /\ i \in 1 .. s.list.next - 1 /\ h[i] \in Int /\ k[i] \in Int
      BY <1>1, <2>7, <3>1
    <3>3. /\ i \in Ids(s.list) => s.list.ent[i].refcount >= 1 /\ s.list.ent[i].refcount \in Int
          /\ i \notin s.released => /\ h[i] > 0 => i \in Ids(s.list)
                                    /\ i \in Ids(s.list) => s.list.ent[i].refcount >= h[i]
          /\ i \in Ids(s.list) \ s.lost => s.list.ent[i].refcount <= h[i]
      BY <1>1, <3>2 DEF Refs
    <3>4. CASE i # id
      BY <2>7, <2>8, <3>2, <3>3, <3>4
    <3>5. CASE i = id
      BY <1>4, <2>7, <3>2, <3>3, <3>5
    <3> QED
      BY <3>4, <3>5
  <2>10. ~(s.list.ent[id].refcount >= 2)
    BY <1>1, <1>4
  <2> QED
    BY <2>7, <2>8, <2>9, <2>10 DEF t
<1> QED
  BY <1>1, <1>2, <1>3, <1>4

\* Only the positive ids count.
LEMMA RefsAlike ==
  ASSUME NEW l, l.next \in Nat, NEW r, NEW o, NEW h, NEW k, Refs(l, r, o, h),
         \A i \in Nat \ {0} : k[i] = h[i]
  PROVE  Refs(l, r, o, k)
  BY DEF Refs

SameRefs(s, t) ==
  /\ t.list = s.list /\ t.zval = s.zval /\ t.dflt = s.dflt
  /\ t.released = s.released /\ t.lost = s.lost

LEMMA RefsSame ==
  ASSUME NEW s, NEW t, NEW x, RefsOK(s, x), SameRefs(s, t)
  PROVE  RefsOK(t, x)
<1>1. Hold(t, x) = Hold(s, x)
  BY DEF Hold, Users, SameRefs
<1> QED
  BY <1>1 DEF RefsOK, Past, SameRefs

LEMMA AddsRefs ==
  ASSUME NEW l, ListOK(l), NEW r, NEW o, NEW h \in [Nat -> Int], NEW k \in [Nat -> Int],
         NEW id \in Ids(l), Refs(l, r, o, h), \A i \in Nat \ {0} : k[i] = h[i] + One(id, i)
  PROVE  /\ Refs(AddRef(l, id), r, o, k) /\ Ids(AddRef(l, id)) = Ids(l)
         /\ AddRef(l, id).next = l.next /\ AddRef(l, id).ent[id].refcount >= 2
<1> DEFINE n == AddRef(l, id)
<1>1. /\ Ids(l) \subseteq 1 .. l.next - 1 /\ l.next \in Nat \ {0}
      /\ \A i \in Ids(l) : l.ent[i].refcount \in Int
  BY DEF ListOK, Entries
<1>2. /\ Ids(n) = Ids(l) /\ n.next = l.next
      /\ n.ent[id].refcount = l.ent[id].refcount + 1
      /\ \A i \in Ids(l) \ {id} : n.ent[i] = l.ent[i]
  BY DEF AddRef, Ids, ListOK, Entries
<1> HIDE DEF n
<1>3. ASSUME NEW i \in 1 .. n.next - 1
      PROVE  /\ i \in Ids(n) => n.ent[i].refcount >= 1
             /\ i \notin r => /\ k[i] > 0 => i \in Ids(n)
                              /\ i \in Ids(n) => n.ent[i].refcount >= k[i]
             /\ i \in Ids(n) \ o => n.ent[i].refcount <= k[i]
  <2>1. i \in Nat /\ i # 0 /\ i \in 1 .. l.next - 1 /\ h[i] \in Int /\ k[i] \in Int
        /\ k[i] = h[i] + One(id, i)
    BY <1>1, <1>2, <1>3
  <2>2. /\ i \in Ids(l) => l.ent[i].refcount >= 1 /\ l.ent[i].refcount \in Int
        /\ i \notin r => /\ h[i] > 0 => i \in Ids(l)
                         /\ i \in Ids(l) => l.ent[i].refcount >= h[i]
        /\ i \in Ids(l) \ o => l.ent[i].refcount <= h[i]
    BY <1>1, <2>1 DEF Refs
  <2>3. CASE i # id
    <3>1. k[i] = h[i]
      BY <2>1, <2>3 DEF One
    <3> QED
      BY <1>2, <2>1, <2>2, <2>3, <3>1
  <2>4. CASE i = id
    <3>1. k[i] = h[i] + 1
      BY <2>1, <2>4 DEF One
    <3> QED
      BY <1>2, <2>1, <2>2, <2>4, <3>1
  <2> QED
    BY <2>3, <2>4
<1>4. n.ent[id].refcount >= 2
  <2>1. id \in 1 .. l.next - 1
    BY <1>1
  <2>2. l.ent[id].refcount >= 1 /\ l.ent[id].refcount \in Int
    BY <1>1, <2>1 DEF Refs
  <2> QED
    BY <1>2, <2>2
<1> QED
  BY <1>2, <1>3, <1>4 DEF Refs, n

\* A function takes a reference.
LEMMA TakesRef ==
  ASSUME NEW s, Good(s), NEW id \in Ids(s.list), RefsOK(s, NoId)
  PROVE  LET t == [s EXCEPT !.list = AddRef(@, id)] IN
         RefsOK(t, id) /\ id \in Ids(t.list) /\ t.list.ent[id].refcount >= 2
<1> DEFINE t == [s EXCEPT !.list = AddRef(@, id)]
           h == Hold(s, NoId)
           k == Hold(t, id)
<1>1. /\ t.list = AddRef(s.list, id) /\ t.zval = s.zval /\ t.dflt = s.dflt
      /\ t.released = s.released /\ t.lost = s.lost /\ ListOK(s.list)
  BY DEF Good, StateOK
<1> HIDE DEF t
<1>2. h \in [Nat -> Nat] /\ k \in [Nat -> Nat]
  BY HoldType
<1>3. ASSUME NEW i \in Nat \ {0} PROVE k[i] = h[i] + One(id, i)
  <2>1. /\ h[i] = Users(s, i) + One(s.dflt, i) + One(NoId, i)
        /\ k[i] = Users(t, i) + One(t.dflt, i) + One(id, i)
    BY HoldType
  <2>2. Users(t, i) = Users(s, i) /\ One(NoId, i) = 0 /\ Users(s, i) \in Nat
        /\ One(s.dflt, i) \in Nat
    BY <1>1, UsersType DEF Users, One, NoId
  <2> QED
    BY <1>1, <2>1, <2>2
<1> HIDE DEF h, k
<1>4. Refs(s.list, s.released, s.lost, h)
  BY DEF RefsOK, h
<1>5. h \in [Nat -> Int] /\ k \in [Nat -> Int]
  BY <1>2
<1>6. /\ Refs(AddRef(s.list, id), s.released, s.lost, k) /\ Ids(AddRef(s.list, id)) = Ids(s.list)
      /\ AddRef(s.list, id).next = s.list.next /\ AddRef(s.list, id).ent[id].refcount >= 2
  BY <1>1, <1>3, <1>4, <1>5, AddsRefs
<1>7. Past(t)
  BY <1>1, <1>6 DEF RefsOK, Past
<1> QED
  BY <1>1, <1>6, <1>7 DEF RefsOK, k, t

\* A new entry, of which a function has the only reference.
LEMMA InsertsRef ==
  ASSUME NEW s, Good(s), NEW e \in Entries, e.refcount = 1, RefsOK(s, NoId), NEW t,
         t.list = Insert(s.list, e), t.zval = s.zval, t.dflt = s.dflt,
         t.released = s.released, t.lost = s.lost
  PROVE  RefsOK(t, s.list.next) /\ s.list.next \in Ids(t.list) /\ t.dflt < s.list.next
<1> DEFINE id == s.list.next
           h == Hold(s, NoId)
           k == Hold(t, id)
           l == Insert(s.list, e)
<1>1. /\ l.next = s.list.next + 1 /\ id \notin Ids(s.list)
      /\ Ids(l) = Ids(s.list) \cup {id} /\ l.ent[id] = e
      /\ \A i \in Ids(s.list) : l.ent[i] = s.list.ent[i]
  BY Inserts DEF Good, StateOK
<1>2. /\ Ids(s.list) \subseteq 1 .. id - 1 /\ id \in Nat \ {0}
      /\ s.dflt \in Nat /\ s.dflt < id /\ \A v \in Zvals : s.zval[v] \in Nat /\ s.zval[v] < id
  BY DEF Good, StateOK, ListOK, RefsOK, Past
<1>3. h \in [Nat -> Nat] /\ k \in [Nat -> Nat]
  BY HoldType
<1>4. ASSUME NEW i \in Nat \ {0} PROVE k[i] = IF i = id THEN 1 ELSE h[i]
  <2>1. /\ h[i] = Users(s, i) + One(s.dflt, i) + One(NoId, i)
        /\ k[i] = Users(t, i) + One(t.dflt, i) + One(id, i)
    BY HoldType
  <2>2. Users(t, i) = Users(s, i) /\ One(NoId, i) = 0 /\ Users(s, i) \in Nat
        /\ One(s.dflt, i) \in Nat
    <3>1. Users(t, i) = Users(s, i)
      BY DEF Users
    <3> QED
      BY <3>1, UsersType DEF One, NoId
  <2>3. CASE i = id
    <3>1. Users(t, i) = 0 /\ One(t.dflt, i) = 0 /\ One(id, i) = 1
      <4>1. t.dflt # i /\ \A v \in Zvals : t.zval[v] # i
        BY <1>2, <2>3
      <4>2. Users(t, i) = 0
        BY <4>1, UsersType
      <4> QED
        BY <2>3, <4>1, <4>2 DEF One
    <3> QED
      BY <2>1, <2>3, <3>1
  <2>4. CASE i # id
    BY <2>1, <2>2, <2>4 DEF One
  <2> QED
    BY <2>3, <2>4
<1> HIDE DEF h, k, l
<1>5. Refs(l, s.released, s.lost, k)
  <2>1. SUFFICES ASSUME NEW i \in 1 .. l.next - 1
                 PROVE  /\ i \in Ids(l) => l.ent[i].refcount >= 1
                        /\ i \notin s.released => /\ k[i] > 0 => i \in Ids(l)
                                                  /\ i \in Ids(l) => l.ent[i].refcount >= k[i]
                        /\ i \in Ids(l) \ s.lost => l.ent[i].refcount <= k[i]
    BY DEF Refs
  <2>2. CASE i = id
    BY <1>1, <1>2, <1>4, <2>2
  <2>3. CASE i # id
    <3>1. i \in 1 .. s.list.next - 1 /\ i \in Nat \ {0}
      BY <1>1, <1>2, <2>1, <2>3
    <3>2. /\ i \in Ids(s.list) => s.list.ent[i].refcount >= 1
          /\ i \notin s.released => /\ h[i] > 0 => i \in Ids(s.list)
                                    /\ i \in Ids(s.list) => s.list.ent[i].refcount >= h[i]
          /\ i \in Ids(s.list) \ s.lost => s.list.ent[i].refcount <= h[i]
      BY <3>1 DEF RefsOK, Refs, h
    <3> QED
      BY <1>1, <1>4, <2>3, <3>1, <3>2
  <2> QED
    BY <2>2, <2>3
<1>6. Past(t)
  BY <1>1, <1>2 DEF Past, l
<1> QED
  BY <1>1, <1>2, <1>5, <1>6 DEF RefsOK, k, l

\* The default link gives up its reference, and takes that of another one.
LEMMA RefsDefault ==
  ASSUME NEW s, Good(s), NEW x, RefsOK(s, x), NEW id \in Ids(s.list),
         s.dflt = id => s.list.ent[id].refcount >= 2
  PROVE  RefsOK(SetDefault(s, id), x) /\ id \in Ids(SetDefault(s, id).list)
<1> DEFINE t == IF s.dflt = NoId THEN s ELSE Delete(s, s.dflt)
           u == [t EXCEPT !.dflt = id, !.list = AddRef(@, id)]
           h == Hold(s, x)
           k == [i \in Nat |-> Users(s, i) + One(x, i)]
           n == Hold(u, x)
<1>1. h \in [Nat -> Nat] /\ k \in [Nat -> Nat] /\ n \in [Nat -> Nat]
  <2>1. \A i \in Nat : Users(s, i) \in Nat /\ One(x, i) \in Nat
    BY UsersType DEF One
  <2> QED
    BY <2>1, HoldType
<1>2. \A i \in Nat : h[i] = k[i] + One(s.dflt, i) /\ k[i] = Users(s, i) + One(x, i)
  <2>1. \A i \in Nat : /\ Users(s, i) \in Nat /\ One(x, i) \in Nat /\ One(s.dflt, i) \in Nat
                       /\ h[i] = Users(s, i) + One(s.dflt, i) + One(x, i)
    <3>1. \A i \in Nat : Users(s, i) \in Nat /\ One(x, i) \in Nat /\ One(s.dflt, i) \in Nat
      BY UsersType DEF One
    <3>2. \A i \in Nat : h[i] = Users(s, i) + One(s.dflt, i) + One(x, i)
      BY HoldType
    <3> QED
      BY <3>1, <3>2
  <2> HIDE DEF h
  <2> QED
    BY <2>1
<1> HIDE DEF h, k
<1>3. /\ s.dflt \in Nat /\ Refs(s.list, s.released, s.lost, h) /\ StateOK(s)
      /\ s.list.next \in Nat \ {0} /\ Ids(s.list) \subseteq 1 .. s.list.next - 1
  BY DEF Good, StateOK, ListOK, RefsOK, h
<1>4. /\ Refs(t.list, t.released, t.lost, k) /\ t.zval = s.zval /\ t.released = s.released
      /\ t.list.next = s.list.next /\ id \in Ids(t.list) /\ Good(t)
  <2>1. CASE s.dflt = NoId
    <3>1. \A i \in Nat \ {0} : k[i] = h[i]
      BY <1>1, <1>2, <2>1 DEF One, NoId
    <3>2. Refs(s.list, s.released, s.lost, k)
      BY <1>3, <3>1, RefsAlike
    <3> QED
      BY <2>1, <3>2
  <2>2. CASE s.dflt # NoId
    <3>1. t = Delete(s, s.dflt)
      BY <2>2
    <3>2. Good(t)
      BY <3>1, Deletes DEF Gives
    <3> HIDE DEF t
    <3>3. /\ \A i \in Nat \ {s.dflt} : k[i] = h[i]
          /\ k[s.dflt] = h[s.dflt] - 1
      <4>1. \A i \in Nat : k[i] \in Nat /\ h[i] = k[i] + (IF s.dflt = i THEN 1 ELSE 0)
        BY <1>1, <1>2 DEF One
      <4>2. h[s.dflt] = k[s.dflt] + 1 /\ k[s.dflt] \in Nat
        BY <1>3, <4>1
      <4>3. \A i \in Nat \ {s.dflt} : k[i] = h[i]
        BY <4>1
      <4> QED
        BY <4>2, <4>3
    <3>4. h \in [Nat -> Int] /\ k \in [Nat -> Int]
      BY <1>1
    <3>5. /\ Refs(t.list, t.released, t.lost, k) /\ t.zval = s.zval /\ t.released = s.released
          /\ t.list.next = s.list.next
          /\ \A i \in Ids(s.list) \ {s.dflt} : i \in Ids(t.list)
          /\ s.dflt \in Ids(s.list) /\ s.list.ent[s.dflt].refcount >= 2 => s.dflt \in Ids(t.list)
      BY <1>3, <3>1, <3>3, <3>4, DeletesRefs
    <3> QED
      BY <3>2, <3>5
  <2> QED
    BY <2>1, <2>2
<1> HIDE DEF t
<1>5. /\ u.list = AddRef(t.list, id) /\ u.zval = s.zval /\ u.dflt = id
      /\ u.released = t.released /\ u.lost = t.lost /\ ListOK(t.list)
  BY <1>4 DEF Good, StateOK
<1> HIDE DEF u, n
<1>6. ASSUME NEW i \in Nat \ {0} PROVE n[i] = k[i] + One(id, i)
  <2>1. n[i] = Users(u, i) + One(u.dflt, i) + One(x, i)
    BY HoldType DEF n
  <2>2. Users(u, i) = Users(s, i)
    BY <1>5 DEF Users
  <2>3. Users(s, i) \in Nat /\ One(x, i) \in Nat /\ One(id, i) \in Nat
    BY UsersType DEF One
  <2> QED
    BY <1>2, <1>5, <2>1, <2>2, <2>3
<1>7. k \in [Nat -> Int] /\ n \in [Nat -> Int]
  BY <1>1
<1>8. /\ Refs(u.list, u.released, u.lost, n) /\ Ids(u.list) = Ids(t.list)
      /\ u.list.next = t.list.next
  BY <1>4, <1>5, <1>6, <1>7, AddsRefs
<1>9. Past(u)
  BY <1>3, <1>4, <1>5, <1>8 DEF Past, RefsOK
<1> QED
  BY <1>4, <1>8, <1>9 DEF RefsOK, n, SetDefault, t, u

\* A value takes the reference of the function, and gives up its own.
LEMMA RefsReturn ==
  ASSUME NEW s, Good(s), NEW v \in Zvals, NEW id \in Nat, id < s.list.next, RefsOK(s, id)
  PROVE  RefsOK(Return(s, v, id), NoId)
<1> DEFINE t == [s EXCEPT !.zval[v] = id]
           old == s.zval[v]
           u == Delete(t, old)
           w == Given(u)
           h == Hold(s, id)
           k == Hold(t, NoId)
           n == Hold(w, NoId)
<1>1. /\ StateOK(s) /\ old \in Nat /\ StateOK(t) /\ t.list = s.list /\ t.conn = s.conn /\ t.plist = s.plist
      /\ t.index = s.index /\ t.zval = [s.zval EXCEPT ![v] = id] /\ t.dflt = s.dflt
      /\ t.released = s.released /\ t.lost = s.lost
  BY DEF Good, StateOK
<1> HIDE DEF t, old
<1>2. Good(t)
  BY <1>1, Untouched DEF Shrunk, Gives
<1>3. h \in [Nat -> Nat] /\ k \in [Nat -> Nat] /\ n \in [Nat -> Nat]
  BY HoldType
<1>4. ASSUME NEW i \in Nat \ {0} PROVE h[i] = k[i] + One(old, i)
  <2>1. Users(t, i) + One(old, i) = Users(s, i) + One(id, i)
    BY <1>1, UsersChange DEF StateOK, old
  <2>2. /\ h[i] = Users(s, i) + One(s.dflt, i) + One(id, i)
        /\ k[i] = Users(t, i) + One(t.dflt, i) + One(NoId, i)
    BY HoldType
  <2>3. /\ Users(s, i) \in Nat /\ Users(t, i) \in Nat /\ One(old, i) \in Nat /\ One(id, i) \in Nat
        /\ One(s.dflt, i) \in Nat /\ One(NoId, i) = 0
    BY UsersType DEF One, NoId
  <2> HIDE DEF h, k
  <2> QED
    BY <1>1, <2>1, <2>2, <2>3
<1>5. Refs(t.list, t.released, t.lost, h)
  BY <1>1 DEF RefsOK
<1> DEFINE g == [i \in Nat |-> IF i = 0 THEN (IF old = 0 THEN k[0] + 1 ELSE k[0]) ELSE h[i]]
<1> HIDE DEF h, k, n
<1>6. g \in [Nat -> Int] /\ k \in [Nat -> Int] /\ \A i \in Nat \ {0} : g[i] = h[i]
  BY <1>3
<1>7. (\A i \in Nat \ {old} : k[i] = g[i]) /\ k[old] = g[old] - 1
  <2>1. \A i \in Nat \ {0} : k[i] \in Nat /\ g[i] = k[i] + (IF old = i THEN 1 ELSE 0)
    BY <1>3, <1>4 DEF One
  <2>2. k[0] \in Nat /\ g[0] = (IF old = 0 THEN k[0] + 1 ELSE k[0])
    BY <1>3
  <2> HIDE DEF g
  <2> QED
    BY <1>1, <2>1, <2>2
<1>8. Refs(t.list, t.released, t.lost, g)
  <2>1. t.list.next \in Nat
    BY <1>1 DEF StateOK, ListOK
  <2> HIDE DEF g
  <2> QED
    BY <1>5, <1>6, <2>1, RefsAlike
<1> HIDE DEF g
<1>9. /\ Refs(u.list, u.released, u.lost, k) /\ u.zval = t.zval /\ u.dflt = t.dflt
      /\ u.released = t.released /\ u.list.next = t.list.next
  BY <1>1, <1>2, <1>6, <1>7, <1>8, DeletesRefs
<1>10. StateOK(u)
  BY <1>2, Deletes DEF Gives, Good
<1> HIDE DEF u
<1>11. /\ w.list = u.list /\ w.zval = u.zval /\ w.dflt = u.dflt /\ w.lost = u.lost
       /\ w.released = u.released \cap Held(u)
  BY <1>10 DEF Given, StateOK
<1> HIDE DEF w
<1>12. n = k
  BY <1>9, <1>11 DEF n, k, Hold, Users
<1>13. Refs(w.list, w.released, w.lost, k)
  <2>1. ASSUME NEW i \in 1 .. u.list.next - 1, i \notin Held(u)
        PROVE  k[i] = 0
    <3>1. i \in Nat \ {0}
      BY <1>10, <2>1 DEF StateOK, ListOK
    <3>2. k[i] = Users(t, i) + One(t.dflt, i) + One(NoId, i)
      BY <3>1, HoldType DEF k
    <3>3. t.dflt # i /\ \A v1 \in Zvals : t.zval[v1] # i
      BY <1>9, <2>1 DEF Held
    <3>4. Users(t, i) = 0
      BY <3>3, UsersType
    <3> QED
      BY <3>1, <3>2, <3>3, <3>4 DEF One, NoId
  <2>2. \A i \in Ids(u.list) : i \in 1 .. u.list.next - 1
    BY <1>10 DEF StateOK, ListOK
  <2>3. SUFFICES ASSUME NEW i \in 1 .. u.list.next - 1
                 PROVE  /\ i \in Ids(u.list) => u.list.ent[i].refcount >= 1
                        /\ i \notin w.released => /\ k[i] > 0 => i \in Ids(u.list)
                                                  /\ i \in Ids(u.list) => u.list.ent[i].refcount >= k[i]
                        /\ i \in Ids(u.list) \ w.lost => u.list.ent[i].refcount <= k[i]
    BY <1>11 DEF Refs
  <2>4. /\ i \in Ids(u.list) => u.list.ent[i].refcount >= 1 /\ u.list.ent[i].refcount \in Int
        /\ i \notin u.released => /\ k[i] > 0 => i \in Ids(u.list)
                                  /\ i \in Ids(u.list) => u.list.ent[i].refcount >= k[i]
        /\ i \in Ids(u.list) \ u.lost => u.list.ent[i].refcount <= k[i]
    BY <1>9, <1>10 DEF Refs, StateOK, ListOK, Entries
  <2>5. i \in Held(u) \/ k[i] = 0
    BY <2>1
  <2> QED
    BY <1>11, <2>4, <2>5
<1>14. Past(w)
  BY <1>1, <1>9, <1>11 DEF Past, RefsOK, StateOK
<1> QED
  BY <1>12, <1>13, <1>14 DEF RefsOK, n, Return, t, u, w, old

\* What is read to its end is still referred to.
LEMMA RefsRead ==
  ASSUME NEW s, Good(s), NEW id \in Ids(s.list), NEW x, RefsOK(s, x)
  PROVE  LET t == ReadAll(s, id) IN RefsOK(t, x) /\ t.released = s.released
<1> DEFINE a == s.list.ent[id].ptr
           t == ReadAll(s, id)
           l == [s.list EXCEPT !.ent[id].eof = TRUE]
<1>1. t = Undefined(s) \/ t = [s EXCEPT !.conn[a].status = "ready", !.list = l]
  BY DEF ReadAll, Good, StateOK
<1>2. /\ Ids(l) = Ids(s.list) /\ l.next = s.list.next
      /\ \A i \in Ids(s.list) : l.ent[i].refcount = s.list.ent[i].refcount
  BY DEF Good, StateOK, ListOK, Ids, Entries
<1> HIDE DEF l, a, t
<1>3. (t.list = s.list \/ t.list = l) /\ t.zval = s.zval /\ t.dflt = s.dflt
      /\ t.released = s.released /\ t.lost = s.lost
  BY <1>1 DEF Undefined, Good, StateOK
<1>4. Hold(t, x) = Hold(s, x)
  BY <1>3 DEF Hold, Users
<1> QED
  BY <1>2, <1>3, <1>4 DEF RefsOK, Past, Refs, t

\* A released reference is given up.
LEMMA RefsGiven ==
  ASSUME NEW s, Good(s), NEW id \in Nat, NEW x, RefsOK(s, x), id \in s.released
  PROVE  RefsOK(Delete(s, id), x)
<1> DEFINE h == Hold(s, x)
           t == Delete(s, id)
<1>1. h \in [Nat -> Int] /\ Refs(s.list, s.released, s.lost, h)
  BY HoldType DEF RefsOK
<1> HIDE DEF h
<1>2. /\ Refs(t.list, t.released, t.lost, h) /\ t.zval = s.zval /\ t.dflt = s.dflt
      /\ t.list.next = s.list.next
  BY <1>1, DeletesRefs
<1> HIDE DEF t
<1>3. Hold(t, x) = h
  BY <1>2 DEF h, Hold, Users
<1> QED
  BY <1>2, <1>3 DEF RefsOK, Past, t

\* More is released.
LEMMA RefsReleased ==
  ASSUME NEW s, StateOK(s), NEW id \in Nat, NEW x, RefsOK(s, x)
  PROVE  LET t == [s EXCEPT !.released = @ \cup {id}] IN RefsOK(t, x) /\ id \in t.released
<1> DEFINE t == [s EXCEPT !.released = @ \cup {id}]
<1>1. /\ t.list = s.list /\ t.zval = s.zval /\ t.dflt = s.dflt
      /\ t.released = s.released \cup {id} /\ t.lost = s.lost
  BY DEF StateOK
<1> HIDE DEF t
<1>2. Hold(t, x) = Hold(s, x)
  BY <1>1 DEF Hold, Users
<1>3. RefsOK(t, x)
  BY <1>1, <1>2 DEF RefsOK, Past, Refs
<1> QED
  BY <1>1, <1>3 DEF t

\* The reference of the function is lost.
LEMMA RefsLost ==
  ASSUME NEW s, StateOK(s), NEW id \in Nat, RefsOK(s, id)
  PROVE  RefsOK([s EXCEPT !.lost = @ \cup {id}], NoId)
<1> DEFINE t == [s EXCEPT !.lost = @ \cup {id}]
           h == Hold(s, id)
           k == Hold(t, NoId)
<1>1. /\ t.list = s.list /\ t.zval = s.zval /\ t.dflt = s.dflt
      /\ t.released = s.released /\ t.lost = s.lost \cup {id}
      /\ \A i \in Ids(s.list) : s.list.ent[i].refcount \in Int
      /\ s.list.next \in Nat
  BY DEF StateOK, ListOK, Entries
<1> HIDE DEF t
<1>2. ASSUME NEW i \in Nat \ {0} PROVE h[i] = k[i] + One(id, i) /\ k[i] \in Nat
  <2>1. /\ h[i] = Users(s, i) + One(s.dflt, i) + One(id, i)
        /\ k[i] = Users(t, i) + One(t.dflt, i) + One(NoId, i)
    BY HoldType
  <2>2. Users(t, i) = Users(s, i)
    BY <1>1 DEF Users
  <2>3. /\ Users(s, i) \in Nat /\ One(s.dflt, i) \in Nat /\ One(id, i) \in Nat /\ One(NoId, i) = 0
    BY UsersType DEF One, NoId
  <2> HIDE DEF h, k
  <2> QED
    BY <1>1, <2>1, <2>2, <2>3
<1>3. Refs(s.list, s.released, s.lost, h)
  BY DEF RefsOK
<1> HIDE DEF h, k
<1>4. Refs(t.list, t.released, t.lost, k)
  <2>1. SUFFICES ASSUME NEW i \in 1 .. s.list.next - 1
                 PROVE  /\ i \in Ids(s.list) => s.list.ent[i].refcount >= 1
                        /\ i \notin s.released => /\ k[i] > 0 => i \in Ids(s.list)
                                                  /\ i \in Ids(s.list) => s.list.ent[i].refcount >= k[i]
                        /\ i \in Ids(s.list) \ t.lost => s.list.ent[i].refcount <= k[i]
    BY <1>1 DEF Refs
  <2>2. i \in Nat \ {0}
    BY <1>1
  <2>3. /\ i \in Ids(s.list) => s.list.ent[i].refcount >= 1 /\ s.list.ent[i].refcount \in Int
        /\ i \notin s.released => /\ h[i] > 0 => i \in Ids(s.list)
                                  /\ i \in Ids(s.list) => s.list.ent[i].refcount >= h[i]
        /\ i \in Ids(s.list) \ s.lost => s.list.ent[i].refcount <= h[i]
    BY <1>1, <1>3 DEF Refs
  <2>4. h[i] = k[i] \/ (h[i] = k[i] + 1 /\ i = id)
    BY <1>2, <2>2 DEF One
  <2> QED
    BY <1>1, <1>2, <2>2, <2>3, <2>4
<1>5. Past(t)
  BY <1>1 DEF RefsOK, Past
<1> QED
  BY <1>4, <1>5 DEF RefsOK, k, t

\* The default link's reference is given up.
LEMMA RefsNoDefault ==
  ASSUME NEW s, Good(s), NEW x, RefsOK(s, x), s.dflt # NoId
  PROVE  RefsOK([Delete(s, s.dflt) EXCEPT !.dflt = NoId], x)
<1> DEFINE t == Delete(s, s.dflt)
           u == [t EXCEPT !.dflt = NoId]
           h == Hold(s, x)
           k == [i \in Nat |-> IF i = s.dflt THEN h[i] - 1 ELSE h[i]]
           n == Hold(u, x)
<1>1. h \in [Nat -> Nat] /\ n \in [Nat -> Nat] /\ s.dflt \in Nat \ {0}
      /\ Refs(s.list, s.released, s.lost, h)
  BY HoldType DEF Good, StateOK, RefsOK, NoId
<1> HIDE DEF h
<1>2. h \in [Nat -> Int] /\ k \in [Nat -> Int] /\ k[s.dflt] = h[s.dflt] - 1
      /\ \A i \in Nat \ {s.dflt} : k[i] = h[i]
  BY <1>1
<1> HIDE DEF k
<1>3. /\ Refs(t.list, t.released, t.lost, k) /\ t.zval = s.zval /\ t.dflt = s.dflt
      /\ t.list.next = s.list.next
  BY <1>1, <1>2, DeletesRefs
<1>4. StateOK(t)
  BY Deletes DEF Gives, Good
<1> HIDE DEF t
<1>5. /\ u.list = t.list /\ u.zval = t.zval /\ u.dflt = NoId /\ u.lost = t.lost
      /\ u.released = t.released /\ t.list.next \in Nat \ {0}
  BY <1>4 DEF StateOK, ListOK
<1> HIDE DEF u
<1>6. ASSUME NEW i \in Nat \ {0} PROVE n[i] = k[i]
  <2>1. /\ h[i] = Users(s, i) + One(s.dflt, i) + One(x, i)
        /\ n[i] = Users(u, i) + One(u.dflt, i) + One(x, i)
    BY HoldType DEF h
  <2>2. Users(u, i) = Users(s, i)
    BY <1>3, <1>5 DEF Users
  <2>3. Users(s, i) \in Nat /\ One(x, i) \in Nat
    BY UsersType DEF One
  <2>4. One(u.dflt, i) = 0 /\ One(s.dflt, i) = IF i = s.dflt THEN 1 ELSE 0
    BY <1>5 DEF One, NoId
  <2>5. k[i] = h[i] - One(s.dflt, i)
    BY <1>1, <2>4 DEF k
  <2> HIDE DEF n
  <2> QED
    BY <1>1, <2>1, <2>2, <2>3, <2>4, <2>5
<1> HIDE DEF n
<1>7. Refs(u.list, u.released, u.lost, n)
  BY <1>3, <1>5, <1>6, RefsAlike
<1>8. Past(u)
  BY <1>3, <1>5 DEF RefsOK, Past, NoId
<1> QED
  BY <1>7, <1>8 DEF RefsOK, n, u, t

LEMMA RefsMarked ==
  ASSUME NEW s, StateOK(s), NEW x, RefsOK(s, x), NEW p, NEW w
  PROVE  RefsOK(MishapIf(s, p, w), x) /\ RefsOK(Undefined(s), x)
<1>1. SameRefs(s, MishapIf(s, p, w)) /\ SameRefs(s, Undefined(s))
  BY DEF SameRefs, StateOK, MishapIf, Mishap, Undefined
<1> QED
  BY <1>1, RefsSame

LEMMA RefsFinish ==
  ASSUME NEW s, Good(s), NEW a \in Addr, s.conn[a] # Freed, NEW x, RefsOK(s, x)
  PROVE  RefsOK(Finish(s, a), x)
<1> DEFINE id == s.conn[a].active
<1>1. CASE ~(id # NoId /\ Find(s.list, id, {"result"}) /\ ~s.list.ent[id].eof)
  BY <1>1 DEF Finish
<1>2. CASE id # NoId /\ Find(s.list, id, {"result"}) /\ ~s.list.ent[id].eof
  <2> DEFINE foreign == s.list.ent[id].ptr # a
             r == MishapIf(s, foreign /\ s.conn[a].old, "foreign")
             q == [r EXCEPT !.wrong = @ \/ (foreign /\ ~s.conn[a].old)]
             t == [r EXCEPT !.wrong = @ \/ (foreign /\ ~s.conn[a].old),
                            !.released = @ \cup {id}]
             w == ReadAll(t, id)
             u == Delete(w, id)
  <2>1. id \in Nat /\ id \in Ids(s.list) /\ s.list.ent[id].type = "result"
    BY <1>2 DEF Good, StateOK, Conns, Find
  <2>2. Gives(s, r) /\ r.list = s.list /\ r.conn = s.conn /\ RefsOK(r, x)
    BY Notes, RefsMarked DEF Good
  <2>3. Finish(s, a) = IF u.conn[a] = Freed THEN Undefined(u) ELSE [u EXCEPT !.conn[a].active = NoId]
    BY <1>2 DEF Finish
  <2> HIDE DEF r, foreign
  <2>4. /\ StateOK(q) /\ SameRefs(r, q) /\ q.list = s.list /\ q.conn = r.conn /\ q.plist = r.plist
        /\ q.index = r.index /\ t = [q EXCEPT !.released = @ \cup {id}]
    <3>1. StateOK(r) /\ (r.wrong \/ (foreign /\ ~s.conn[a].old)) \in BOOLEAN
      BY <2>1, <2>2 DEF Gives, Good, StateOK
    <3> QED
      BY <2>2, <3>1 DEF StateOK, SameRefs
  <2> HIDE DEF q, t
  <2>5. Good(q) /\ RefsOK(q, x)
    BY <2>2, <2>4, Untouched, RefsSame DEF Gives, Shrunk
  <2>6. RefsOK(t, x) /\ id \in t.released
    BY <2>1, <2>4, <2>5, RefsReleased
  <2>7. Good(t) /\ t.list = s.list
    <3>1. /\ StateOK(t) /\ t.list = q.list /\ t.conn = q.conn /\ t.plist = q.plist /\ t.index = q.index
      BY <2>1, <2>4 DEF StateOK
    <3> QED
      BY <2>4, <2>5, <3>1, Untouched DEF Shrunk, Gives
  <2>8. Good(w) /\ RefsOK(w, x) /\ id \in w.released
    BY <1>2, <2>1, <2>6, <2>7, RefsRead, ReadsAll DEF Gives
  <2> HIDE DEF w
  <2>9. Good(u) /\ RefsOK(u, x)
    BY <2>1, <2>8, RefsGiven, Deletes DEF Gives
  <2> HIDE DEF u
  <2>10. RefsOK(Undefined(u), x)
    BY <2>9, RefsMarked DEF Good
  <2>11. SameRefs(u, [u EXCEPT !.conn[a].active = NoId])
    BY <2>9 DEF SameRefs, Good, StateOK
  <2>12. RefsOK([u EXCEPT !.conn[a].active = NoId], x)
    BY <2>9, <2>11, RefsSame
  <2> QED
    BY <2>3, <2>10, <2>12
<1> QED
  BY <1>1, <1>2

LEMMA RefsPlink ==
  ASSUME NEW s, Good(s), NEW v \in Zvals, NEW d, NEW a \in Addr, RefsOK(s, NoId)
  PROVE  RefsOK(Plink(s, v, d, a), NoId)
<1> DEFINE e == Entry("plink", a, FALSE)
           id == s.list.next
           t == [s EXCEPT !.list = Insert(@, e)]
           u == SetDefault(t, id)
<1>1. e \in Entries /\ e.type = "plink" /\ e.refcount = 1
  BY MySQLAssumption DEF Entry, Entries
<1>2. id \in Nat
  BY DEF Good, StateOK, ListOK
<1>3. Plink(s, v, d, a) = Return(u, v, id)
  BY DEF Plink
<1> HIDE DEF e
<1>4. Good(t) /\ t.list = Insert(s.list, e)
  BY <1>1, InsertsOther
<1>5. t.zval = s.zval /\ t.dflt = s.dflt /\ t.released = s.released /\ t.lost = s.lost
  BY DEF Good, StateOK
<1> HIDE DEF t, id
<1>6. RefsOK(t, id) /\ id \in Ids(t.list) /\ t.dflt < id /\ t.dflt \in Nat
  BY <1>1, <1>4, <1>5, InsertsRef DEF id, Good, StateOK
<1>7. Good(u) /\ RefsOK(u, id) /\ id \in Ids(u.list)
  <2>1. t.dflt # id
    BY <1>2, <1>6
  <2> QED
    BY <1>2, <1>4, <1>6, <2>1, RefsDefault, SetsDefault DEF Gives
<1> HIDE DEF u
<1>8. id < u.list.next
  BY <1>7 DEF Good, StateOK, ListOK
<1> QED
  BY <1>2, <1>3, <1>7, <1>8, RefsReturn

LEMMA RefsResult ==
  ASSUME NEW s, Good(s), NEW v \in Zvals, NEW a \in Addr \cup {Nowhere}, NEW eof \in BOOLEAN,
         a = Nowhere => eof, RefsOK(s, NoId)
  PROVE  RefsOK(NewResult(s, v, a, eof), NoId)
<1> DEFINE e == Entry("result", a, eof)
           id == s.list.next
           t == [s EXCEPT !.list = Insert(@, e)]
<1>1. e \in Entries /\ e.type = "result" /\ e.refcount = 1
  BY DEF Entry, Entries
<1>2. id \in Nat
  BY DEF Good, StateOK, ListOK
<1>3. NewResult(s, v, a, eof) = Return(t, v, id)
  BY DEF NewResult
<1> HIDE DEF e
<1>4. Good(t) /\ t.list = Insert(s.list, e)
  BY <1>1, InsertsOther
<1>5. t.zval = s.zval /\ t.dflt = s.dflt /\ t.released = s.released /\ t.lost = s.lost
  BY DEF Good, StateOK
<1> HIDE DEF t, id
<1>6. RefsOK(t, id) /\ id \in Ids(t.list)
  BY <1>1, <1>4, <1>5, InsertsRef DEF id
<1>7. id < t.list.next
  BY <1>4, <1>6 DEF Good, StateOK, ListOK
<1> QED
  BY <1>2, <1>3, <1>4, <1>6, <1>7, RefsReturn

\* A value that is given nothing.
LEMMA RefsReturnNone ==
  ASSUME NEW s, Good(s), NEW v \in Zvals, RefsOK(s, NoId)
  PROVE  RefsOK(Return(s, v, NoId), NoId)
<1>1. NoId \in Nat /\ NoId < s.list.next
  BY DEF NoId, Good, StateOK, ListOK
<1> QED
  BY <1>1, RefsReturn

LEMMA RefsConnected ==
  ASSUME NEW s, Good(s), NEW c, c.v \in Zvals,
         NEW id \in Nat, id < s.list.next, RefsOK(s, id), Connected(s, c, id)
  PROVE  RefsOK(m', NoId)
<1>1. \/ m' = Return(s, c.v, id)
      \/ id = NoId /\ m' = Return(s, c.v, NoId)
      \/ m' = [s EXCEPT !.lost = @ \cup {id}]
  BY DEF Connected
<1>2. CASE m' = Return(s, c.v, id)
  BY <1>2, RefsReturn
<1>3. CASE m' = [s EXCEPT !.lost = @ \cup {id}]
  BY <1>3, RefsLost DEF Good
<1> QED
  BY <1>1, <1>2, <1>3

LEMMA RefsStart ==
  ASSUME Good(m), RefsOK(m, NoId), NEW c, c.v \in Zvals, NEW id \in Nat, StartQuery(m, c, id)
  PROVE  RefsOK(m', NoId)
<1>1. CASE ~Find(m.list, id, Links)
  BY <1>1, RefsReturnNone DEF StartQuery
<1>2. CASE Find(m.list, id, Links)
  <2> DEFINE a == m.list.ent[id].ptr
             t == IF m.conn[a] = Freed THEN Undefined(m) ELSE Finish(m, a)
  <2>1. a \in Addr
    BY <1>2 DEF Find, Good, StateOK, ListOK, Entries, Links
  <2>2. Good(t) /\ RefsOK(t, NoId)
    BY <2>1, Notes, RefsMarked, Finishes, RefsFinish DEF Gives, Good
  <2>3. m' = t \/ m' = Return(t, c.v, NoId)
    BY <1>2 DEF StartQuery
  <2> HIDE DEF t, a
  <2> QED
    BY <2>2, <2>3, RefsReturnNone
<1> QED
  BY <1>1, <1>2

\* The reference in hand between mysql_connect()'s list and its count.
Hand == IF Uncounted("link") = 1 THEN m.index[call.d] ELSE NoId

LEMMA HeldNow ==
  ASSUME IInv, RefInv, stage \in {"script", "vars"}
  PROVE  RefsOK(m, Hand)
<1> DEFINE h == [id \in Nat |-> Holders(id)]
<1>1. ASSUME NEW i \in Nat \ {0} PROVE Hold(m, Hand)[i] = h[i]
  <2>1. Hold(m, Hand)[i] = Users(m, i) + One(m.dflt, i) + One(Hand, i)
    BY HoldType
  <2>2. h[i] = Holders(i)
    OBVIOUS
  <2>3. Holders(i) = Users(m, i) + One(m.dflt, i) + One(Hand, i)
    BY DEF Holders, Users, One, Hand, NoId
  <2> QED
    BY <2>1, <2>2, <2>3
<1>2. Past(m) /\ Refs(m.list, m.released, m.lost, h) /\ m.list.next \in Nat
  BY DEF RefInv, IInv, Good, StateOK, ListOK
<1> HIDE DEF h
<1> QED
  BY <1>1, <1>2, RefsAlike DEF RefsOK

LEMMA HeldNext ==
  ASSUME IInv', RefsOK(m', Hand')
  PROVE  (Past(m) /\ Refs(m.list, m.released, m.lost, [id \in Nat |-> Holders(id)]))'
<1> DEFINE h == [id \in Nat |-> Holders(id)']
<1>1. ASSUME NEW i \in Nat \ {0} PROVE Hold(m', Hand')[i] = h[i]
  <2>1. Hold(m', Hand')[i] = Users(m', i) + One(m'.dflt, i) + One(Hand', i)
    BY HoldType
  <2>2. h[i] = Holders(i)'
    OBVIOUS
  <2>3. Holders(i)' = Users(m', i) + One(m'.dflt, i) + One(Hand', i)
    BY DEF Holders, Users, One, Hand, NoId
  <2> QED
    BY <2>1, <2>2, <2>3
<1>2. Past(m') /\ Refs(m'.list, m'.released, m'.lost, Hold(m', Hand')) /\ m'.list.next \in Nat
  BY DEF RefsOK, IInv, Good, StateOK, ListOK
<1> HIDE DEF h
<1>3. Refs(m'.list, m'.released, m'.lost, h)
  BY <1>1, <1>2, RefsAlike
<1> QED
  BY <1>2, <1>3 DEF h

LEMMA RefsNow ==
  ASSUME IInv, RefInv, stage \in {"script", "vars"}, call.at # "registered" \/ call.kind # "link"
  PROVE  RefsOK(m, NoId)
  BY HeldNow DEF Hand, Uncounted

LEMMA RefsDone ==
  ASSUME IInv', RefsOK(m', NoId), call'.at # "registered" \/ call'.kind # "link", stage' # "idle"
  PROVE  RefInv'
<1>1. Hand' = NoId /\ Uncounted("link")' = 0
  BY DEF Hand, Uncounted
<1> QED
  BY <1>1, HeldNext DEF RefInv

\* The steps of connecting.
LEMMA Connect_refs ==
  ASSUME IInv, IInv', RefInv, call = Idle, stage = "script", UNCHANGED stage,
         NEW v \in Zvals, NEW d \in Details, NEW q \in Queries,
         Connect([at |-> "connect", kind |-> "link", v |-> v, d |-> d, query |-> q])
  PROVE  RefInv'
<1> DEFINE c == [at |-> "connect", kind |-> "link", v |-> v, d |-> d, query |-> q]
           id == m.index[d]
           s == [m EXCEPT !.list = AddRef(@, id)]
           t == [m EXCEPT !.index[d] = NoId]
           u == SetDefault(s, id)
<1>1. /\ c \in Connecting({"connect", "open"}) /\ c.kind = "link" /\ c.v = v
      /\ id \in Nat /\ c.d = d /\ Good(m)
  BY DEF IInv, Good, StateOK, Connecting, Links
<1>2. RefsOK(m, NoId)
  BY RefsNow DEF Idle
<1>3. \/ id \in Ids(m.list) /\ Connected(u, c, id)
      \/ Connected(t, c, NoId)
      \/ m' = t /\ call' = [c EXCEPT !.at = "open"]
  <2>1. Connect(c)
    OBVIOUS
  <2> HIDE DEF c, u, s, t
  <2>2. CASE id # NoId /\ Find(m.list, id, Links)
    BY <1>1, <2>1, <2>2 DEF Connect, Find, u, s
  <2>3. CASE ~(id # NoId /\ Find(m.list, id, Links))
    BY <1>1, <2>1, <2>3 DEF Connect, t
  <2> QED
    BY <2>2, <2>3
<1>4. Good(t) /\ SameRefs(m, t)
  <2>1. SameRefs(m, t)
    BY <1>1 DEF SameRefs, Good, StateOK
  <2> QED
    BY <1>1, <2>1, ForgetsIndex
<1> HIDE DEF c, t
<1>5. RefsOK(t, NoId)
  BY <1>2, <1>4, RefsSame
<1>6. ASSUME id \in Ids(m.list)
      PROVE  Good(u) /\ RefsOK(u, id) /\ id < u.list.next
  <2>1. RefsOK(s, id) /\ id \in Ids(s.list) /\ s.list.ent[id].refcount >= 2
    BY <1>1, <1>2, <1>6, TakesRef
  <2>2. Good(s)
    BY <1>1, LetsAddRef DEF Lets, Gives
  <2> HIDE DEF s, id
  <2>3. Good(u) /\ RefsOK(u, id) /\ id \in Ids(u.list)
    BY <1>1, <2>1, <2>2, RefsDefault, SetsDefault DEF Gives
  <2> HIDE DEF u
  <2> QED
    BY <1>1, <2>3 DEF Good, StateOK, ListOK
<1> HIDE DEF u, id
<1>7. ASSUME NEW x, Good(x), NEW i \in Nat, i < x.list.next, RefsOK(x, i), Connected(x, c, i)
      PROVE  RefInv'
  <2>1. call'.at \in {"idle", "query"}
    BY <1>1, <1>7, EvenConnected
  <2>2. RefsOK(m', NoId)
    BY <1>1, <1>7, RefsConnected
  <2> QED
    BY <2>1, <2>2, RefsDone
<1>8. CASE m' = t /\ call' = [c EXCEPT !.at = "open"]
  <2>1. call'.at = "open"
    BY <1>1, <1>8 DEF Connecting
  <2> QED
    BY <1>5, <1>8, <2>1, RefsDone
<1>9. NoId \in Nat /\ NoId < t.list.next
  BY <1>4 DEF NoId, Good, StateOK, ListOK
<1> QED
  BY <1>1, <1>3, <1>4, <1>5, <1>6, <1>7, <1>8, <1>9

LEMMA Pconnect_refs ==
  ASSUME IInv, IInv', RefInv, NEW v \in Zvals, NEW d \in Details,
         PconnectNew(v, d) \/ PconnectOld(v, d)
  PROVE  RefInv'
<1> DEFINE a == m.plist[d]
           r == ClosePlink([m EXCEPT !.plist[d] = Nowhere], a)
           t == MishapIf(r, Handles(m, a) # {}, "orphan")
<1>1. call = Idle /\ stage = "script" /\ stage' = stage /\ Good(m)
  BY DEF PconnectNew, PconnectOld, Ready, IInv
<1>2. RefsOK(m, NoId)
  BY <1>1, RefsNow DEF Idle
<1>3. CASE m' = Return(m, v, NoId) /\ call' = call
  BY <1>1, <1>2, <1>3, RefsReturnNone, RefsDone DEF Idle
<1>4. CASE m' = m /\ call' = [at |-> "open", kind |-> "plink", v |-> v, d |-> d, query |-> "none"]
  BY <1>1, <1>2, <1>4, RefsDone
<1>5. CASE m' = Plink(m, v, d, a) /\ call' = call /\ a # Nowhere
  <2>1. a \in Addr
    BY <1>1, <1>5 DEF Good, StateOK
  <2> QED
    BY <1>1, <1>2, <1>5, <2>1, RefsPlink, RefsDone DEF Idle
<1>6. CASE m' = Return(t, v, NoId) /\ call' = call /\ a # Nowhere
  <2>1. Good(r)
    BY <1>1, <1>6, ClosesPlink
  <2>2. SameRefs(m, r)
    BY <1>1 DEF ClosePlink, SameRefs, Good, StateOK
  <2> HIDE DEF r
  <2>3. RefsOK(r, NoId)
    BY <1>2, <2>2, RefsSame
  <2>4. Good(t) /\ RefsOK(t, NoId)
    BY <2>1, <2>3, Notes, RefsMarked DEF Gives, Good
  <2> HIDE DEF t
  <2> QED
    BY <1>1, <1>6, <2>4, RefsReturnNone, RefsDone DEF Idle
<1> QED
  BY <1>1, <1>3, <1>4, <1>5, <1>6 DEF PconnectNew, PconnectOld

LEMMA Open_refs == ASSUME IInv, IInv', RefInv, Open PROVE RefInv'
<1>1. /\ call.at = "open" /\ stage = "script" /\ stage' = stage /\ Good(m)
      /\ call \in Connecting({"connect", "open"}) /\ call.v \in Zvals
  BY InHand DEF Open, IInv, Connecting
<1>2. RefsOK(m, NoId)
  BY <1>1, RefsNow
<1>3. CASE Connected(m, call, NoId)
  <2>1. call'.at \in {"idle", "query"}
    BY <1>1, <1>3, EvenConnected DEF NoId
  <2>2. NoId \in Nat /\ NoId < m.list.next
    BY <1>1 DEF NoId, Good, StateOK, ListOK
  <2> QED
    BY <1>1, <1>2, <1>3, <2>1, <2>2, RefsConnected, RefsDone
<1>4. ASSUME NEW a \in Addr, m' = [m EXCEPT !.conn[a] = Connection(call.kind, call.d)],
             call'.at = "opened"
      PROVE  RefInv'
  <2>1. SameRefs(m, m')
    BY <1>1, <1>4 DEF SameRefs, Good, StateOK
  <2> QED
    BY <1>1, <1>2, <1>4, <2>1, RefsSame, RefsDone
<1> QED
  BY <1>3, <1>4 DEF Open

LEMMA Register_refs == ASSUME IInv, IInv', RefInv, Register PROVE RefInv'
<1>1. /\ call.at = "opened" /\ stage = "script" /\ stage' = stage /\ Good(m)
      /\ call \in ConnectingAt({"opened"}) /\ call.kind \in Links /\ call.d \in Details
      /\ call.a \in Addr
  BY InHand DEF Register, IInv, ConnectingAt
<1>2. call'.at = "registered" /\ call'.kind = call.kind /\ call'.d = call.d
  BY <1>1 DEF Register, ConnectingAt
<1>3. RefsOK(m, NoId)
  BY <1>1, RefsNow
<1>4. CASE call.kind = "link"
  <2> DEFINE e == Entry("link", call.a, FALSE)
  <2>1. /\ m'.list = Insert(m.list, e) /\ m'.index[call.d] = m.list.next
        /\ m'.zval = m.zval /\ m'.dflt = m.dflt /\ m'.released = m.released /\ m'.lost = m.lost
    <3>1. m' = [m EXCEPT !.list = Insert(@, e), !.index[call.d] = m.list.next] /\ StateOK(m)
      BY <1>1, <1>4 DEF Register, Good
    <3> HIDE DEF e
    <3> QED
      BY <1>1, <3>1 DEF StateOK
  <2>2. e \in Entries /\ e.refcount = 1
    BY <1>1, MySQLAssumption DEF Entry, Entries
  <2> HIDE DEF e
  <2>3. RefsOK(m', m.list.next) /\ m.list.next \in Ids(m'.list) /\ m'.dflt < m.list.next
    BY <1>1, <1>3, <2>1, <2>2, InsertsRef
  <2>4. Hand' = m.list.next
    BY <1>2, <1>4, <2>1 DEF Hand, Uncounted
  <2>5. m.list.next \in Nat /\ m'.dflt \in Nat
    BY <1>1 DEF Good, StateOK, ListOK, IInv
  <2>6. RefsOK(m', Hand') /\ m'.dflt # m.list.next
    BY <2>3, <2>4, <2>5
  <2> QED
    BY <1>1, <1>2, <2>1, <2>3, <2>6, HeldNext DEF RefInv
<1>5. CASE call.kind = "plink"
  <2>1. SameRefs(m, m')
    BY <1>1, <1>5 DEF Register, SameRefs, Good, StateOK
  <2> QED
    BY <1>1, <1>2, <1>3, <1>5, <2>1, RefsSame, RefsDone
<1> QED
  BY <1>1, <1>4, <1>5 DEF Links

LEMMA Count_refs == ASSUME IInv, IInv', RefInv, Count PROVE RefInv'
<1>1. /\ call.at = "registered" /\ stage = "script" /\ stage' = stage /\ Good(m)
      /\ call \in ConnectingAt({"registered"}) /\ call.kind \in Links /\ call.d \in Details
      /\ call.a \in Addr /\ call.v \in Zvals
  BY InHand DEF Count, IInv, ConnectingAt
<1>2. CASE call.kind = "link"
  <2> DEFINE id == m.index[call.d]
             s == [m EXCEPT !.links = @ + 1]
             u == SetDefault(s, id)
  <2>1. Connected(u, call, id)
    BY <1>2 DEF Count
  <2>2. id \in Nat /\ id \in Ids(m.list) /\ m.dflt # id /\ Hand = id
    BY <1>1, <1>2 DEF RefInv, Uncounted, Hand, Good, StateOK
  <2>3. RefsOK(m, id)
    BY <1>1, <2>2, HeldNow
  <2>4. Good(s) /\ SameRefs(m, s)
    <3>1. /\ StateOK(s) /\ s.conn = m.conn /\ s.index = m.index /\ s.list = m.list
          /\ s.plist = m.plist /\ SameRefs(m, s)
      BY <1>1 DEF Good, StateOK, SameRefs
    <3> HIDE DEF s
    <3> QED
      BY <1>1, <3>1, Untouched DEF Shrunk, Gives
  <2> HIDE DEF id, s
  <2>5. RefsOK(s, id) /\ id \in Ids(s.list) /\ s.dflt # id
    BY <2>2, <2>3, <2>4, RefsSame DEF SameRefs
  <2>6. Good(u) /\ RefsOK(u, id) /\ id \in Ids(u.list)
    BY <2>2, <2>4, <2>5, RefsDefault, SetsDefault DEF Gives
  <2> HIDE DEF u
  <2>7. id < u.list.next
    BY <2>2, <2>6 DEF Good, StateOK, ListOK
  <2>8. call'.at \in {"idle", "query"}
    BY <1>1, <2>1, <2>2, <2>6, EvenConnected
  <2> QED
    BY <1>1, <2>1, <2>2, <2>6, <2>7, <2>8, RefsConnected, RefsDone
<1>3. CASE call.kind = "plink"
  <2> DEFINE s == [m EXCEPT !.links = @ + 1, !.pers = @ + 1]
  <2>1. m' = Plink(s, call.v, call.d, call.a) /\ call' = Idle
    BY <1>3 DEF Count
  <2>2. RefsOK(m, NoId)
    BY <1>1, <1>3, RefsNow
  <2>3. Good(s) /\ SameRefs(m, s)
    <3>0. StateOK(m) /\ m.links + 1 \in Int /\ m.pers + 1 \in Int
      BY <1>1 DEF Good, StateOK
    <3>1. /\ StateOK(s) /\ s.conn = m.conn /\ s.index = m.index /\ s.list = m.list
          /\ s.plist = m.plist /\ SameRefs(m, s)
      BY <3>0 DEF StateOK, SameRefs
    <3> HIDE DEF s
    <3> QED
      BY <1>1, <3>1, Untouched DEF Shrunk, Gives
  <2> HIDE DEF s
  <2>4. RefsOK(s, NoId)
    BY <2>2, <2>3, RefsSame
  <2> QED
    BY <1>1, <2>1, <2>3, <2>4, RefsPlink, RefsDone DEF Idle
<1> QED
  BY <1>1, <1>2, <1>3 DEF Links

\* Queries and their results.
LEMMA Query_refs ==
  ASSUME IInv, IInv', RefInv,
         \/ \E v, w \in Zvals, q \in {"store", "use"} : MysqlQuery(v, w, q)
         \/ \E v \in Zvals, q \in {"store", "use"} : QueryDefault(v, q)
         \/ QueryImplicit
  PROVE  RefInv'
<1>1. Good(m) /\ stage = "script" /\ stage' = stage /\ call.at \in {"idle", "query"}
  <2>1. ASSUME Ready \/ QueryImplicit PROVE stage = "script" /\ call.at \in {"idle", "query"}
    BY <2>1, InHand DEF QueryImplicit, Ready, Idle
  <2>2. (Ready \/ QueryImplicit) /\ stage' = stage
    BY DEF MysqlQuery, QueryDefault, QueryImplicit
  <2> QED
    BY <2>1, <2>2 DEF IInv
<1>2. RefsOK(m, NoId)
  BY <1>1, RefsNow
<1>3. ASSUME NEW c, c.v \in Zvals, NEW id \in Nat, StartQuery(m, c, id) PROVE RefInv'
  <2>1. call'.at \in {"idle", "sent"}
    BY <1>1, <1>3, EvenStarts
  <2>2. RefsOK(m', NoId)
    BY <1>1, <1>2, <1>3, RefsStart
  <2> QED
    BY <1>1, <2>1, <2>2, RefsDone
<1>4. m.dflt \in Nat /\ \A w \in Zvals : m.zval[w] \in Nat
  BY <1>1 DEF Good, StateOK
<1>5. ASSUME NEW v \in Zvals, NEW w \in Zvals, NEW q \in {"store", "use"}, MysqlQuery(v, w, q)
      PROVE  RefInv'
  <2> DEFINE c == [v |-> v, query |-> q]
  <2>1. StartQuery(m, c, m.zval[w]) /\ c.v \in Zvals
    BY <1>5 DEF MysqlQuery
  <2> HIDE DEF c
  <2> QED
    BY <1>3, <1>4, <2>1
<1>6. ASSUME NEW v \in Zvals, NEW q \in {"store", "use"}, QueryDefault(v, q)
      PROVE  RefInv'
  <2>1. CASE StartQuery(m, [v |-> v, query |-> q], m.dflt)
    <3> DEFINE c == [v |-> v, query |-> q]
    <3>1. StartQuery(m, c, m.dflt) /\ c.v \in Zvals
      BY <2>1
    <3> HIDE DEF c
    <3> QED
      BY <1>3, <1>4, <3>1
  <2>2. CASE Connect([at |-> "connect", kind |-> "link", v |-> v, d |-> Preset, query |-> q])
    <3>1. call = Idle /\ q \in Queries /\ Preset \in Details
      BY <1>6, MySQLAssumption DEF QueryDefault, Ready, Queries
    <3> QED
      BY <1>1, <2>2, <3>1, Connect_refs
  <2> QED
    BY <1>6, <2>1, <2>2 DEF QueryDefault
<1>7. ASSUME QueryImplicit PROVE RefInv'
  <2>1. StartQuery(m, call, m.dflt) /\ call.v \in Zvals
    BY <1>1, <1>7, InHand DEF QueryImplicit, Waiting, Connecting, ConnectingAt
  <2> QED
    BY <1>3, <1>4, <2>1
<1> QED
  BY <1>5, <1>6, <1>7

LEMMA Rows_refs ==
  ASSUME IInv, IInv', RefInv, Answer \/ Store \/ Use \/ Used
  PROVE  RefInv'
<1>1. /\ Good(m) /\ stage = "script" /\ stage' = stage /\ call.at \in {"sent", "rows", "used"}
      /\ call \in Working({call.at}) /\ call.a \in Addr /\ m.conn[call.a] # Freed /\ call.v \in Zvals
  BY InHand DEF IInv, CallOK, Answer, Store, Use, Used, Working
<1> DEFINE a == call.a
           g(x) == [m.conn EXCEPT ![a].status = x]
           s == [m EXCEPT !.conn[a].status = "ready"]
           t == [m EXCEPT !.conn[a].active = m.list.next, !.conn[a].old = FALSE]
<1>2. RefsOK(m, NoId)
  BY <1>1, RefsNow
<1>3. ASSUME NEW x, StateOK(m) PROVE SameRefs(m, [m EXCEPT !.conn = x])
  BY <1>3 DEF SameRefs, StateOK
<1>4. Good(s) /\ RefsOK(s, NoId)
  <2> DEFINE c == [m.conn[a] EXCEPT !.status = "ready"]
  <2>1. c \in Conns /\ c.kind = m.conn[a].kind /\ c.details = m.conn[a].details /\ c.cut = m.conn[a].cut
    BY <1>1 DEF Good, StateOK, Conns
  <2>2. s = [m EXCEPT !.conn = [m.conn EXCEPT ![a] = c]] /\ s = [m EXCEPT !.conn[a] = c]
    BY <1>1 DEF Good, StateOK
  <2> HIDE DEF c, s
  <2>3. SameRefs(m, s)
    BY <1>1, <1>3, <2>2 DEF Good
  <2> QED
    BY <1>1, <1>2, <2>1, <2>2, <2>3, Changes, RefsSame
<1>5. Good(t) /\ RefsOK(t, NoId) /\ t.list = m.list
  <2> DEFINE c == [m.conn[a] EXCEPT !.active = m.list.next, !.old = FALSE]
  <2>1. c \in Conns /\ c.kind = m.conn[a].kind /\ c.details = m.conn[a].details /\ c.cut = m.conn[a].cut
    <3>1. m.conn[a] \in Conns /\ m.list.next \in Nat
      BY <1>1 DEF Good, StateOK, ListOK
    <3> HIDE DEF a
    <3> QED
      BY <3>1 DEF Conns
  <2>2. t = [m EXCEPT !.conn = [m.conn EXCEPT ![a] = c]] /\ t = [m EXCEPT !.conn[a] = c]
    BY <1>1 DEF Good, StateOK
  <2> HIDE DEF c, t
  <2>3. SameRefs(m, t)
    BY <1>1, <1>3, <2>2 DEF Good
  <2>4. Good(t)
    BY <1>1, <2>1, <2>2, Changes
  <2> QED
    BY <1>2, <2>3, <2>4, RefsSame DEF SameRefs
<1>6. ASSUME NEW x, m' = [m EXCEPT !.conn[a].status = x] PROVE RefsOK(m', NoId)
  <2>1. m' = [m EXCEPT !.conn = g(x)]
    BY <1>1, <1>6 DEF Good, StateOK
  <2> HIDE DEF g
  <2> QED
    BY <1>1, <1>2, <1>3, <2>1, RefsSame DEF Good
<1>7. call'.at \in {"idle", "rows", "used"}
  <2>1. call' = Idle \/ call' = [call EXCEPT !.at = "rows"] \/ call' = [call EXCEPT !.at = "used"]
    BY DEF Answer, Store, Use, Used
  <2> QED
    BY <1>1, <2>1 DEF Idle, Working
<1>8. \/ m' = Return(m, call.v, NoId)
      \/ \E x : m' = [m EXCEPT !.conn[a].status = x]
      \/ m' = NewResult(s, call.v, Nowhere, TRUE)
      \/ m' = Return(s, call.v, NoId)
      \/ m' = NewResult(t, call.v, a, FALSE)
  BY DEF Answer, Store, Use, Used
<1> HIDE DEF s, t
<1>9. RefsOK(m', NoId)
  <2>1. a \in Addr /\ a # Nowhere
    BY <1>1, MySQLAssumption
  <2> HIDE DEF a
  <2> QED
    BY <1>1, <1>2, <1>4, <1>5, <1>6, <1>8, <2>1, RefsReturnNone, RefsResult
<1> QED
  BY <1>1, <1>7, <1>9, RefsDone

LEMMA Values_refs ==
  ASSUME IInv, IInv', RefInv,
         \/ \E v \in Zvals : FetchLast(v) \/ MysqlFreeResult(v) \/ MysqlClose(v) \/ Unset(v) \/ DestroyVar(v)
         \/ CloseDefault
  PROVE  RefInv'
<1>1. /\ call = Idle /\ call' = Idle /\ stage \in {"script", "vars"} /\ stage' = stage /\ Good(m)
  BY DEF FetchLast, MysqlFreeResult, MysqlClose, Unset, DestroyVar, CloseDefault, Ready, IInv, CallOK
<1>2. RefsOK(m, NoId)
  BY <1>1, RefsNow DEF Idle
<1>3. 0 \notin Ids(m.list)
  BY <1>1 DEF Good, StateOK, ListOK
<1>4. ASSUME NEW v \in Zvals,
             FetchLast(v) \/ MysqlFreeResult(v) \/ MysqlClose(v) \/ Unset(v) \/ DestroyVar(v)
      PROVE  RefsOK(m', NoId)
  <2> DEFINE id == m.zval[v]
             s == [m EXCEPT !.released = @ \cup {id}]
             u == Delete(s, id)
  <2>1. id \in Nat
    BY <1>1 DEF Good, StateOK
  <2>2. RefsOK(s, NoId) /\ id \in s.released
    BY <1>1, <1>2, <2>1, RefsReleased DEF Good
  <2>3. Good(s) /\ s.dflt = m.dflt
    <3>1. /\ StateOK(s) /\ s.list = m.list /\ s.conn = m.conn /\ s.plist = m.plist
          /\ s.index = m.index /\ s.dflt = m.dflt
      BY <1>1, <2>1 DEF Good, StateOK
    <3> HIDE DEF s
    <3> QED
      BY <1>1, <3>1, Untouched DEF Shrunk, Gives
  <2>4. \/ m' = u
        \/ id = m.dflt /\ id \in Ids(m.list) /\ m' = [Delete(u, id) EXCEPT !.dflt = NoId]
        \/ m' = Return(m, v, NoId)
        \/ FetchLast(v)
    BY <1>4 DEF MysqlFreeResult, MysqlClose, Unset, DestroyVar, Find
  <2> HIDE DEF s, id
  <2>5. Good(u) /\ RefsOK(u, NoId)
    BY <2>1, <2>2, <2>3, Deletes, RefsGiven DEF Gives
  <2>6. u.dflt = m.dflt
    <3>1. RefsOK(s, NoId) /\ Hold(s, NoId) \in [Nat -> Int]
      BY <2>2, HoldType
    <3> DEFINE h == Hold(s, NoId)
    <3>2. Refs(s.list, s.released, s.lost, h) /\ h \in [Nat -> Int]
      BY <3>1 DEF RefsOK
    <3> HIDE DEF h
    <3> QED
      BY <2>2, <2>3, <3>2, DeletesRefs
  <2> HIDE DEF u
  <2>7. CASE FetchLast(v)
    <3>1. m' = ReadAll(m, id) /\ id \in Ids(m.list)
      BY <2>7 DEF FetchLast, Find, id
    <3> QED
      BY <1>1, <1>2, <3>1, RefsRead
  <2>8. CASE id = m.dflt /\ id \in Ids(m.list) /\ m' = [Delete(u, id) EXCEPT !.dflt = NoId]
    <3>1. u.dflt # NoId /\ u.dflt = id
      BY <1>3, <2>6, <2>8 DEF NoId
    <3> QED
      BY <2>5, <2>8, <3>1, RefsNoDefault
  <2>9. CASE m' = Return(m, v, NoId)
    BY <1>1, <1>2, <2>9, RefsReturnNone
  <2> QED
    BY <2>4, <2>5, <2>7, <2>8, <2>9
<1>5. ASSUME CloseDefault PROVE RefsOK(m', NoId)
  <2>1. m' = [Delete(m, m.dflt) EXCEPT !.dflt = NoId] /\ m.dflt # NoId
    BY <1>3, <1>5 DEF CloseDefault, Find, NoId
  <2> QED
    BY <1>1, <1>2, <2>1, RefsNoDefault
<1> QED
  BY <1>1, <1>4, <1>5, RefsDone DEF Idle

\* What a timeout leaves is lost.
LEMMA Timeout_refs == ASSUME IInv, IInv', RefInv, Timeout PROVE RefInv'
<1>1. call # Idle /\ call' = Idle /\ stage = "script" /\ stage' = "script" /\ Good(m)
  BY DEF Timeout, IInv
<1>2. CASE call.at # "registered" \/ call.kind # "link"
  <2>1. m' = m \/ m' = CutOff(m, call.a) \/ m' = Miscount(m, "persistent")
    BY <1>2 DEF Timeout
  <2>2. SameRefs(m, m')
    BY <1>1, <2>1 DEF CutOff, Miscount, SameRefs, Good, StateOK
  <2>3. RefsOK(m, NoId)
    BY <1>1, <1>2, RefsNow
  <2> QED
    BY <1>1, <2>2, <2>3, RefsSame, RefsDone DEF Idle
<1>3. CASE call.at = "registered" /\ call.kind = "link"
  <2> DEFINE id == m.index[call.d]
             s == [m EXCEPT !.lost = @ \cup {id}]
  <2>1. m' = Miscount(s, "links")
    BY <1>3 DEF Timeout
  <2>2. id \in Nat /\ Hand = id
    <3>1. call.d \in Details
      BY <1>3, InHand DEF ConnectingAt
    <3> QED
      BY <1>1, <1>3, <3>1 DEF Hand, Uncounted, Good, StateOK
  <2> HIDE DEF id
  <2>3. RefsOK(s, NoId)
    BY <1>1, <2>2, HeldNow, RefsLost DEF Good
  <2>4. s \in [list : {s.list}, index : {s.index}, plist : {s.plist}, conn : {s.conn},
               zval : {s.zval}, dflt : {s.dflt}, links : {s.links}, pers : {s.pers},
               released : {s.released}, lost : {s.lost}, miscount : {s.miscount},
               mishap : {s.mishap}, wrong : {s.wrong}, undefined : {s.undefined}]
    BY <1>1 DEF Good, StateOK
  <2> HIDE DEF s
  <2>5. SameRefs(s, m')
    BY <2>1, <2>4 DEF Miscount, SameRefs
  <2> QED
    BY <1>1, <2>3, <2>5, RefsSame, RefsDone DEF Idle
<1> QED
  BY <1>2, <1>3

\* The request begins with nothing held, and ends with nothing counted on.
LEMMA BeginRequest_refs == ASSUME IInv, IInv', RefInv, BeginRequest PROVE RefInv'
<1>1. /\ stage = "idle" /\ stage' = "script" /\ call = Idle /\ call' = Idle
      /\ Ids(m.list) = {} /\ StateOK(m) /\ \A v \in Zvals : m.zval[v] = NoId
  BY DEF BeginRequest, IInv, CallOK, AtRest, Good, RefInv
<1>2. /\ m'.list = m.list /\ m'.zval = m.zval /\ m'.dflt = NoId
      /\ m'.released = m.released /\ m'.lost = m.lost
  BY <1>1 DEF BeginRequest, StateOK
<1>3. m.list.next \in Nat \ {0}
  BY <1>1 DEF StateOK, ListOK
<1>4. ASSUME NEW i \in Nat \ {0} PROVE Hold(m', NoId)[i] = 0
  <2>1. Hold(m', NoId)[i] = Users(m', i) + One(m'.dflt, i) + One(NoId, i)
    BY HoldType
  <2>2. Users(m', i) = 0
    <3>1. \A v \in Zvals : m'.zval[v] # i
      BY <1>1, <1>2 DEF NoId
    <3> QED
      BY <3>1, UsersType
  <2> QED
    BY <1>2, <2>1, <2>2 DEF One, NoId
<1>5. Refs(m'.list, m'.released, m'.lost, Hold(m', NoId))
  <2> DEFINE h == Hold(m', NoId)
  <2>1. \A i \in 1 .. m.list.next - 1 : h[i] = 0
    BY <1>3, <1>4
  <2> HIDE DEF h
  <2> QED
    BY <1>1, <1>2, <2>1 DEF Refs, h
<1>6. Past(m')
  BY <1>1, <1>2, <1>3 DEF Past, NoId
<1> QED
  BY <1>1, <1>5, <1>6, RefsDone DEF RefsOK, Idle

LEMMA Shutdown_refs ==
  ASSUME IInv, IInv', RefInv, EndScript \/ EndVars \/ DestroyNewest \/ DestroyCut \/ EndRequest
  PROVE  RefInv'
<1>1. call = Idle /\ call' = Idle /\ Good(m) /\ Uncounted("link")' = 0
  BY DEF EndScript, EndVars, DestroyNewest, DestroyCut, EndRequest, Ready, IInv, CallOK, Uncounted, Idle
<1>2. CASE EndScript
  <2>1. RefsOK(m', NoId) /\ stage' # "idle"
    BY <1>1, <1>2, RefsNow DEF EndScript, Ready, Idle
  <2> QED
    BY <1>1, <2>1, RefsDone DEF Idle
<1>3. CASE EndVars \/ DestroyNewest \/ DestroyCut
  <2>1. stage' = "list"
    BY <1>3 DEF EndVars, DestroyNewest, DestroyCut
  <2> QED
    BY <1>1, <2>1 DEF RefInv
<1>4. CASE EndRequest
  <2>1. stage' = "idle" /\ m'.zval = Start.zval
    BY <1>1, <1>4 DEF EndRequest, Good, StateOK
  <2>2. \A v \in Zvals : Start.zval[v] = NoId
    BY DEF Start
  <2> QED
    BY <1>1, <2>1, <2>2 DEF RefInv
<1> QED
  BY <1>2, <1>3, <1>4

LEMMA Start_refs == \A v \in Zvals : Start.zval[v] = NoId
  BY DEF Start

LEMMA Next_refs == ASSUME IInv, RefInv, [Next]_vars PROVE RefInv'
<1>1. IInv'
  BY Next_step
<1>2. ASSUME NEW v \in Zvals, NEW d \in Details,
             MysqlConnect(v, d) \/ PconnectNew(v, d) \/ PconnectOld(v, d)
      PROVE  RefInv'
  <2>1. CASE MysqlConnect(v, d)
    BY <1>1, <2>1, Connect_refs DEF MysqlConnect, Ready, Queries
  <2> QED
    BY <1>1, <1>2, <2>1, Pconnect_refs
<1>3. CASE Open \/ Register \/ Count
  BY <1>1, <1>3, Open_refs, Register_refs, Count_refs
<1>4. CASE \/ \E v, w \in Zvals, q \in {"store", "use"} : MysqlQuery(v, w, q)
           \/ \E v \in Zvals, q \in {"store", "use"} : QueryDefault(v, q)
           \/ QueryImplicit
  BY <1>1, <1>4, Query_refs
<1>5. CASE Answer \/ Store \/ Use \/ Used
  BY <1>1, <1>5, Rows_refs
<1>6. CASE \/ \E v \in Zvals : FetchLast(v) \/ MysqlFreeResult(v) \/ MysqlClose(v) \/ Unset(v) \/ DestroyVar(v)
           \/ CloseDefault
  BY <1>1, <1>6, Values_refs
<1>7. CASE EndScript \/ EndVars \/ DestroyNewest \/ DestroyCut \/ EndRequest
  BY <1>1, <1>7, Shutdown_refs
<1>8. CASE Timeout \/ BeginRequest
  BY <1>1, <1>8, Timeout_refs, BeginRequest_refs
<1>9. CASE NextProcess
  <2>1. m' = Start /\ stage' = "idle" /\ Uncounted("link")' = 0
    BY <1>9 DEF NextProcess, Uncounted, Idle
  <2> QED
    BY <2>1, Start_refs DEF RefInv
<1>10. CASE UNCHANGED vars
  BY <1>10 DEF vars, RefInv, Holders, Uncounted
<1> QED
  BY <1>2, <1>3, <1>4, <1>5, <1>6, <1>7, <1>8, <1>9, <1>10 DEF Next

\* For any values, servers, limits and addresses, in any request: a resource is there as long as
\* a value, the default link or a function in progress refers to it, and no longer, but for
\* ids given up by mysql_close(), mysql_free_result() or a query that reads out a
\* result, and for references that an implicit connection or a timeout has lost
\* (php_mysql.c:214-221, 638-651, 660-664, 707-716, 963-975, 2020; zend_list.c:49-63).
THEOREM ReferencesStayExact == Spec => []RefsExact
<1>1. ASSUME IInv, RefInv PROVE RefsExact
  <2>1. SUFFICES ASSUME stage \in {"script", "vars"}, NEW id \in (1 .. m.list.next - 1) \ m.released
                 PROVE  /\ Holders(id) > 0 => id \in Ids(m.list)
                        /\ id \in Ids(m.list) =>
                             /\ m.list.ent[id].refcount >= Holders(id)
                             /\ id \notin m.lost => m.list.ent[id].refcount = Holders(id)
    BY DEF RefsExact
  <2>2. id \in Nat /\ id # 0
    BY <1>1, <2>1 DEF IInv, Good, StateOK, ListOK
  <2>3. Holders(id) \in Nat
    <3>1. Holders(id) = Users(m, id) + One(m.dflt, id) + One(Hand, id)
      BY <2>2 DEF Holders, Users, One, Hand, NoId
    <3>2. Users(m, id) \in Nat /\ One(m.dflt, id) \in Nat /\ One(Hand, id) \in Nat
      BY UsersType DEF One
    <3> QED
      BY <3>1, <3>2
  <2> DEFINE h == [i \in Nat |-> Holders(i)]
  <2>4. Refs(m.list, m.released, m.lost, h) /\ h[id] = Holders(id)
    BY <1>1, <2>1, <2>2 DEF RefInv
  <2> HIDE DEF h
  <2>5. id \in Ids(m.list) => m.list.ent[id].refcount \in Int
    BY <1>1 DEF IInv, Good, StateOK, ListOK, Entries
  <2> QED
    BY <2>1, <2>3, <2>4, <2>5 DEF Refs
<1>2. Init => RefInv
  <2>1. SUFFICES ASSUME Init PROVE RefInv
    OBVIOUS
  <2>2. Uncounted("link") = 0 /\ m = Start /\ stage = "idle"
    BY <2>1 DEF Init, Uncounted, Idle
  <2> QED
    BY <2>2, Start_refs DEF RefInv
<1>3. IInv /\ RefInv /\ [Next]_vars => RefInv'
  BY Next_refs
<1> QED
  BY <1>1, <1>2, <1>3, Invariant, PTL DEF Spec
=============================================================================
