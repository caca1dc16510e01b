------------------------------- MODULE MySQL -------------------------------
(***************************************************************************)
(* Links to MySQL servers (ext/mysql/php_mysql.c) in the life of a server  *)
(* process: what mysql_connect() opens ends with its last reference or     *)
(* with the request, what mysql_pconnect() opens is used by request after  *)
(* request.  Both are reached through ids of the resource list, and so are *)
(* results, which point back to the connection they are read from          *)
(* (libmysql).                                                             *)
(***************************************************************************)
EXTENDS RsrcList

CONSTANTS
  Details,         \* host, user and password, as hashed_details
  Preset,          \* the details of an implicit mysql_connect()
  Zvals,           \* the script's values that hold resources
  Addr,            \* addresses of php_mysql_conn
  MaxLinks, MaxPersistent,   \* mysql.max_links and mysql.max_persistent
  MaxId,           \* bound on the resources of a request
  MaxRefs,         \* bound on the references to one
  Freed, Nowhere

Links == {"link", "plink"}

\* What a php_mysql_conn may hold, see Connection.
Conns ==
  [kind : Links, details : Details, status : {"ready", "get", "use"},
   active : Nat, old : BOOLEAN, cut : BOOLEAN]

ASSUME MySQLAssumption ==
  /\ Preset \in Details /\ MaxLinks \in Nat /\ MaxPersistent \in Nat
  /\ MaxId \in Nat /\ MaxRefs \in Nat /\ Freed # Nowhere /\ Nowhere \notin Addr
  /\ Freed \notin Conns
  /\ IsFiniteSet(Details) /\ IsFiniteSet(Zvals)

VARIABLES
  m,       \* what the process has in memory, see Start
  call,    \* the function in progress
  stage,   \* "idle", "script", or what shutdown_executor() destroys: "vars", "list"
  fired    \* the timeout of this request has gone off

vars == <<m, call, stage, fired>>

NoId == 0

Idle == [at |-> "idle"]

\* status is that of libmysql; active is active_result_id, old when it was set in an
\* earlier request; cut says that a timeout has ended a function that worked on
\* the connection.
Connection(kind, d) ==
  [kind |-> kind, details |-> d, status |-> "ready", active |-> NoId, old |-> FALSE,
   cut |-> FALSE]

Start ==
  [list |-> EmptyList,                        \* EG(regular_list), its integer keys
   index |-> [d \in Details |-> NoId],        \* and its keys of details
   plist |-> [d \in Details |-> Nowhere],     \* EG(persistent_list)
   conn |-> [a \in Addr |-> Freed],
   zval |-> [v \in Zvals |-> NoId],
   dflt |-> NoId, links |-> 0, pers |-> 0,    \* default_link, num_links, num_persistent
   released |-> {},     \* ids given up by a function while values still hold them
   lost |-> {},         \* ids with a reference that no value holds
   miscount |-> "none", \* what a timeout has left uncounted
   mishap |-> "none",   \* the first thing in this request the code is not prepared for
   wrong |-> FALSE,     \* a query has ended another link's result for no such reason
   undefined |-> FALSE] \* freed memory was used, or rows read that never come

Init == m = Start /\ call = Idle /\ stage = "idle" /\ fired = FALSE

Mishap(s, what)      == IF s.mishap = "none" THEN [s EXCEPT !.mishap = what] ELSE s
MishapIf(s, p, what) == IF p THEN Mishap(s, what) ELSE s
Miscount(s, what)    == IF s.miscount = "persistent" THEN s ELSE [s EXCEPT !.miscount = what]
Undefined(s)         == [s EXCEPT !.undefined = TRUE]
CutOff(s, a)         == IF s.conn[a] = Freed THEN s ELSE [s EXCEPT !.conn[a].cut = TRUE]

Entry(type, a, eof) == [type |-> type, ptr |-> a, refcount |-> 1, eof |-> eof]
Results(s, a) == {id \in Ids(s.list) : s.list.ent[id].type = "result" /\ s.list.ent[id].ptr = a}
Handles(s, a) == {id \in Ids(s.list) : s.list.ent[id].ptr = a}
Room(s)       == s.list.next <= MaxId /\ \A id \in Ids(s.list) : s.list.ent[id].refcount < MaxRefs

-----------------------------------------------------------------------------
(***************************************************************************)
(* Destructors.                                                            *)
(***************************************************************************)
\* A mutant: mysql_free_result() leaves the rows to the next query.
FreeResult_keeps(s, e) == IF e.ptr # Nowhere /\ s.conn[e.ptr] = Freed THEN Undefined(s) ELSE s

\* mysql_free_result() reads what is left of an unbuffered result, if the
\* connection is in the middle of one: not necessarily of this one.
FreeResult(s, e) ==
  IF e.ptr = Nowhere THEN s
  ELSE IF s.conn[e.ptr] = Freed THEN Undefined(s)
  ELSE IF s.conn[e.ptr].status # "use" THEN s
  ELSE MishapIf([s EXCEPT !.conn[e.ptr].status = "ready"], e.eof, "drained")

\* _close_mysql_link().
CloseLink(s, a) ==
  IF s.conn[a] = Freed THEN Undefined(s)
  ELSE [s EXCEPT !.conn[a] = Freed, !.links = @ - 1]

\* A mutant: num_links is not counted down.
ClosePlink_links(s, a) == [s EXCEPT !.conn[a] = Freed, !.pers = @ - 1]

\* _close_mysql_plink().
ClosePlink(s, a) == [s EXCEPT !.conn[a] = Freed, !.links = @ - 1, !.pers = @ - 1]

Destroy(s, id) ==
  LET e == s.list.ent[id]
      t == [s EXCEPT !.list = Remove(@, id), !.lost = @ \ {id}]
  IN  CASE e.type = "link"   -> CloseLink(t, e.ptr)
        [] e.type = "plink"  -> t
        [] e.type = "result" -> FreeResult(t, e)

\* zend_list_delete().
Delete(s, id) ==
  IF ~LastReference(s.list, id) THEN [s EXCEPT !.list = DropRef(@, id)]
  ELSE LET e == s.list.ent[id] IN
       Destroy(MishapIf(s, e.type = "link" /\ Results(s, e.ptr) # {}, "closed"), id)

\* A function's result is assigned, then the old value destroyed.
Held(s)  == {s.zval[v] : v \in Zvals} \cup {s.dflt}
Given(s) == [s EXCEPT !.released = @ \cap Held(s)]
Return(s, v, id) == Given(Delete([s EXCEPT !.zval[v] = id], s.zval[v]))

\* A mutant: the default link is not a reference.
SetDefault_weak(s, id) ==
  [(IF s.dflt = NoId THEN s ELSE Delete(s, s.dflt)) EXCEPT !.dflt = id]

\* php_mysql_set_default_link().
SetDefault(s, id) ==
  LET t == IF s.dflt = NoId THEN s ELSE Delete(s, s.dflt)
  IN  [t EXCEPT !.dflt = id, !.list = AddRef(@, id)]

-----------------------------------------------------------------------------
(***************************************************************************)
(* Connecting.  In the middle of it, call has the value to return to, or   *)
(* the query for which an implicit connection is opened.                   *)
(***************************************************************************)
Ready == stage = "script" /\ call = Idle /\ ~m.undefined

\* What happens to the id of a new link: it is returned, or php_mysql_do_query()
\* takes the default link and overwrites the return value.
Connected(s, c, id) ==
  IF c.query = "none"
  THEN m' = Return(s, c.v, id) /\ call' = Idle
  ELSE /\ m' = IF id = NoId THEN Return(s, c.v, NoId) ELSE [s EXCEPT !.lost = @ \cup {id}]
       /\ call' = IF id = NoId THEN Idle ELSE [c EXCEPT !.at = "query"]

Connect(c) ==
  LET id == m.index[c.d] IN
  IF id # NoId /\ Find(m.list, id, Links)
  THEN Connected(SetDefault([m EXCEPT !.list = AddRef(@, id)], id), c, id)
  ELSE LET s == [m EXCEPT !.index[c.d] = NoId] IN
       IF m.links >= MaxLinks THEN Connected(s, c, NoId)
       ELSE m' = s /\ call' = [c EXCEPT !.at = "open"]

MysqlConnect(v, d) ==
  /\ Ready /\ Room(m)
  /\ Connect([at |-> "connect", kind |-> "link", v |-> v, d |-> d, query |-> "none"])
  /\ UNCHANGED <<stage, fired>>

\* mysql_pconnect(), when there is no such link yet.
PconnectNew(v, d) ==
  /\ Ready /\ Room(m) /\ m.plist[d] = Nowhere
  /\ IF m.links >= MaxLinks \/ m.pers >= MaxPersistent
       THEN m' = Return(m, v, NoId) /\ UNCHANGED call
       ELSE /\ call' = [at |-> "open", kind |-> "plink", v |-> v, d |-> d, query |-> "none"]
            /\ UNCHANGED m
  /\ UNCHANGED <<stage, fired>>

Plink(s, v, d, a) ==
  LET t == [s EXCEPT !.list = Insert(@, Entry("plink", a, FALSE))]
  IN  Return(SetDefault(t, s.list.next), v, s.list.next)

\* The link exists, and answers mysql_stat() or has been connected again; or
\* the server is gone, and the link is freed, whoever else has a handle.
PconnectOld(v, d) ==
  LET a == m.plist[d] IN
  /\ Ready /\ Room(m) /\ a # Nowhere
  /\ \/ m' = Plink(m, v, d, a)
     \/ /\ m.conn[a].status = "ready" \/ m.conn[a].cut
        /\ LET s == ClosePlink([m EXCEPT !.plist[d] = Nowhere], a)
           IN  m' = Return(MishapIf(s, Handles(m, a) # {}, "orphan"), v, NoId)
  /\ UNCHANGED <<call, stage, fired>>

\* mysql_real_connect().
Open ==
  /\ call.at = "open"
  /\ \/ Connected(m, call, NoId)
     \/ \E a \in Addr :
          /\ m.conn[a] = Freed
          /\ m' = [m EXCEPT !.conn[a] = Connection(call.kind, call.d)]
          /\ call' = [at |-> "opened", kind |-> call.kind, v |-> call.v, d |-> call.d,
                       query |-> call.query, a |-> a]
  /\ UNCHANGED <<stage, fired>>

\* It is put into its list before it is counted.
Register ==
  /\ call.at = "opened"
  /\ IF call.kind = "link"
       THEN m' = [m EXCEPT !.list = Insert(@, Entry("link", call.a, FALSE)),
                           !.index[call.d] = m.list.next]
       ELSE m' = [m EXCEPT !.plist[call.d] = call.a]
  /\ call' = [call EXCEPT !.at = "registered"]
  /\ UNCHANGED <<stage, fired>>

Count ==
  /\ call.at = "registered"
  /\ IF call.kind = "link"
       THEN LET id == m.index[call.d]
            IN  Connected(SetDefault([m EXCEPT !.links = @ + 1], id), call, id)
       ELSE /\ m' = Plink([m EXCEPT !.links = @ + 1, !.pers = @ + 1], call.v, call.d, call.a)
            /\ call' = Idle
  /\ UNCHANGED <<stage, fired>>

-----------------------------------------------------------------------------
(***************************************************************************)
(* Queries and their results.                                              *)
(***************************************************************************)
\* mysql_fetch_row() until there are no more.
ReadAll(s, id) ==
  LET a == s.list.ent[id].ptr IN
  IF s.conn[a] = Freed \/ s.conn[a].status # "use" THEN Undefined(s)
  ELSE [s EXCEPT !.conn[a].status = "ready", !.list.ent[id].eof = TRUE]

\* The rows that an unbuffered query of this link has left are read and its
\* result freed.  The id is that of the last such query, whenever it was.
Finish(s, a) ==
  LET id == s.conn[a].active IN
  IF id # NoId /\ Find(s.list, id, {"result"}) /\ ~s.list.ent[id].eof
  THEN LET foreign == s.list.ent[id].ptr # a
           t == [MishapIf(s, foreign /\ s.conn[a].old, "foreign") EXCEPT
                   !.wrong = @ \/ (foreign /\ ~s.conn[a].old),
                   !.released = @ \cup {id}]
           u == Delete(ReadAll(t, id), id)
       IN  IF u.conn[a] = Freed THEN Undefined(u) ELSE [u EXCEPT !.conn[a].active = NoId]
  ELSE s

\* php_mysql_do_query_general(), up to mysql_real_query().
StartQuery(s, c, id) ==
  IF ~Find(s.list, id, Links) THEN m' = Return(s, c.v, NoId) /\ call' = Idle
  ELSE LET a == s.list.ent[id].ptr
           t == IF s.conn[a] = Freed THEN Undefined(s) ELSE Finish(s, a)
       IN  IF ~t.undefined /\ t.conn[a].status = "ready"
           THEN m' = t /\ call' = [at |-> "sent", v |-> c.v, a |-> a, query |-> c.query]
           ELSE m' = Return(t, c.v, NoId) /\ call' = Idle

MysqlQuery(v, w, query) ==
  /\ Ready /\ m.zval[w] # NoId
  /\ StartQuery(m, [v |-> v, query |-> query], m.zval[w])
  /\ UNCHANGED <<stage, fired>>

\* Without a link: the default one, which is opened if there is none.
QueryDefault(v, query) ==
  /\ Ready
  /\ IF m.dflt # NoId
       THEN StartQuery(m, [v |-> v, query |-> query], m.dflt)
       ELSE Room(m) /\ Connect([at |-> "connect", kind |-> "link", v |-> v, d |-> Preset, query |-> query])
  /\ UNCHANGED <<stage, fired>>

QueryImplicit ==
  /\ call.at = "query" /\ StartQuery(m, call, m.dflt)
  /\ UNCHANGED <<stage, fired>>

\* It fails, or has no rows, or rows that are to be stored or used.
Answer ==
  /\ call.at = "sent"
  /\ \/ m' = Return(m, call.v, NoId) /\ call' = Idle
     \/ /\ m.list.next <= MaxId
        /\ m' = [m EXCEPT !.conn[call.a].status = "get"]
        /\ call' = [call EXCEPT !.at = "rows"]
  /\ UNCHANGED <<stage, fired>>

NewResult(s, v, a, eof) ==
  Return([s EXCEPT !.list = Insert(@, Entry("result", a, eof))], v, s.list.next)

\* mysql_store_result(), which may fail to read the rows.
Store ==
  /\ call.at = "rows" /\ call.query = "store" /\ call' = Idle
  /\ LET s == [m EXCEPT !.conn[call.a].status = "ready"] IN
     m' = NewResult(s, call.v, Nowhere, TRUE) \/ m' = Return(s, call.v, NoId)
  /\ UNCHANGED <<stage, fired>>

\* mysql_use_result().
Use ==
  /\ call.at = "rows" /\ call.query = "use"
  /\ m' = [m EXCEPT !.conn[call.a].status = "use"] /\ call' = [call EXCEPT !.at = "used"]
  /\ UNCHANGED <<stage, fired>>

Used ==
  /\ call.at = "used" /\ call' = Idle
  /\ m' = NewResult([m EXCEPT !.conn[call.a].active = m.list.next, !.conn[call.a].old = FALSE],
                    call.v, call.a, FALSE)
  /\ UNCHANGED <<stage, fired>>

\* mysql_fetch_row() of the last row and beyond.
FetchLast(v) ==
  /\ Ready /\ Find(m.list, m.zval[v], {"result"}) /\ ~m.list.ent[m.zval[v]].eof
  /\ m' = ReadAll(m, m.zval[v])
  /\ UNCHANGED <<call, stage, fired>>

MysqlFreeResult(v) ==
  /\ Ready /\ Find(m.list, m.zval[v], {"result"})
  /\ m' = Delete([m EXCEPT !.released = @ \cup {m.zval[v]}], m.zval[v])
  /\ UNCHANGED <<call, stage, fired>>

-----------------------------------------------------------------------------
(***************************************************************************)
(* Closing, and what the engine does with values.                          *)
(***************************************************************************)
\* The reference of the value is given up, though the value keeps the id, and
\* that of the default link.
MysqlClose(v) ==
  LET id == m.zval[v]
      s  == Delete([m EXCEPT !.released = @ \cup {id}], id)
  IN  /\ Ready /\ Find(m.list, id, Links)
      /\ m' = IF id = m.dflt THEN [Delete(s, id) EXCEPT !.dflt = NoId] ELSE s
      /\ UNCHANGED <<call, stage, fired>>

CloseDefault ==
  /\ Ready /\ Find(m.list, m.dflt, Links)
  /\ m' = [Delete(m, m.dflt) EXCEPT !.dflt = NoId]
  /\ UNCHANGED <<call, stage, fired>>

\* zval_dtor().
Unset(v) ==
  /\ Ready /\ m.zval[v] # NoId
  /\ m' = Return(m, v, NoId)
  /\ UNCHANGED <<call, stage, fired>>

-----------------------------------------------------------------------------
(***************************************************************************)
(* Requests.  A script that has been timed out goes on with its shutdown   *)
(* functions.                                                              *)
(***************************************************************************)
\* PHP_RINIT_FUNCTION(mysql).
BeginRequest ==
  /\ stage = "idle" /\ stage' = "script"
  /\ m' = [m EXCEPT !.dflt = NoId, !.links = m.pers,
                    !.miscount = IF @ = "links" THEN "none" ELSE @]
  /\ UNCHANGED <<call, fired>>

\* The engine's bailout out of a function.  Its return value is not destroyed, and
\* what it has not yet put into a list is not found again.
Timeout ==
  /\ stage = "script" /\ call # Idle /\ ~fired /\ ~m.undefined
  /\ m' = CASE call.at = "registered" /\ call.kind = "link" ->
                Miscount([m EXCEPT !.lost = @ \cup {m.index[call.d]}], "links")
            [] call.at = "registered" /\ call.kind = "plink" -> Miscount(m, "persistent")
            [] call.at \in {"opened", "sent", "rows", "used"} ->
                CutOff(m, call.a)
            [] OTHER -> m
  /\ call' = Idle /\ fired' = TRUE
  /\ UNCHANGED stage

EndScript ==
  /\ Ready /\ stage' = "vars"
  /\ UNCHANGED <<m, call, fired>>

\* zend_hash_destroy(&EG(symbol_table)), in the order in which the values were made.
DestroyVar(v) ==
  /\ stage = "vars" /\ ~m.undefined /\ m.zval[v] # NoId
  /\ m' = Return(m, v, NoId)
  /\ UNCHANGED <<call, stage, fired>>

\* Unless a timeout has come between, all values have been destroyed.
EndVars ==
  /\ stage = "vars" /\ ~m.undefined
  /\ \/ (\A v \in Zvals : m.zval[v] = NoId) /\ UNCHANGED fired
     \/ ~fired /\ fired' = TRUE
  /\ stage' = "list"
  /\ UNCHANGED <<m, call>>

\* One round of zend_destroy_rsrc_list().
DestroyNewest ==
  /\ stage = "list" /\ ~m.undefined
  /\ \E id \in Ids(m.list) : Newest(m.list, id) /\ m' = Destroy(m, id)
  /\ UNCHANGED <<call, stage, fired>>

\* A timeout in the destructor ends the round.
DestroyCut ==
  /\ stage = "list" /\ ~m.undefined /\ ~fired /\ fired' = TRUE
  /\ \E id \in Ids(m.list) :
       LET e == m.list.ent[id]
           s == [m EXCEPT !.list = Remove(@, id)]
       IN  /\ Newest(m.list, id)
           /\ m' = CASE e.type = "link"   -> Miscount(s, "links")
                     [] e.type = "plink"  -> s
                     [] e.type = "result" -> IF e.ptr = Nowhere THEN s ELSE CutOff(s, e.ptr)
  /\ UNCHANGED <<call, stage>>

\* shutdown_memory_manager() frees what was not found.  The next request has new lists.
Kept(c) == IF c = Freed THEN c
           ELSE IF c.kind = "link" THEN Freed ELSE [c EXCEPT !.old = c.active # NoId]

EndRequest ==
  /\ stage = "list" /\ ~m.undefined /\ Ids(m.list) = {} /\ stage' = "idle"
  /\ m' = [m EXCEPT !.conn = [a \in Addr |-> Kept(m.conn[a])],
                    !.list = EmptyList, !.index = Start.index, !.zval = Start.zval,
                    !.released = {}, !.lost = {}, !.mishap = "none"]
  /\ UNCHANGED <<call, fired>>

\* The end of the process, in which zend_shutdown() destroys the persistent list,
\* or a crash; another process takes over.
NextProcess ==
  /\ stage = "idle" \/ m.undefined
  /\ m' = Start /\ call' = Idle /\ stage' = "idle" /\ fired' = FALSE

Next ==
  \/ \E v \in Zvals, d \in Details : MysqlConnect(v, d) \/ PconnectNew(v, d) \/ PconnectOld(v, d)
  \/ Open \/ Register \/ Count
  \/ \E v, w \in Zvals, q \in {"store", "use"} : MysqlQuery(v, w, q)
  \/ \E v \in Zvals, q \in {"store", "use"} : QueryDefault(v, q)
  \/ QueryImplicit \/ Answer \/ Store \/ Use \/ Used
  \/ \E v \in Zvals : FetchLast(v) \/ MysqlFreeResult(v) \/ MysqlClose(v) \/ Unset(v) \/ DestroyVar(v)
  \/ CloseDefault \/ Timeout
  \/ BeginRequest \/ EndScript \/ EndVars \/ DestroyNewest \/ DestroyCut \/ EndRequest
  \/ NextProcess

Spec == Init /\ [][Next]_vars

-----------------------------------------------------------------------------
PlinkDetails(s) == {d \in Details : s.plist[d] # Nowhere}
LinkIds(s)      == {id \in Ids(s.list) : s.list.ent[id].type = "link"}
Persistent == PlinkDetails(m)
OpenLinks  == LinkIds(m)
Uncounted(kind) == IF call.at = "registered" /\ call.kind = kind THEN 1 ELSE 0
Connections == Cardinality(OpenLinks) + Cardinality(Persistent)

\* num_links and num_persistent are the numbers of connections that are open,
\* over any requests, and these do not exceed their limits.  A timeout between
\* the list and the count is never made up for if the link is persistent, and is at the
\* next request otherwise (php_mysql.c:345): all that it may leave to that one is
\* more persistent links than mysql.max_links, beside which nothing is opened.
LinksCounted ==
  /\ m.miscount # "persistent" => m.pers + Uncounted("plink") = Cardinality(Persistent)
  /\ m.miscount = "none" /\ stage # "idle" =>
       m.links + Uncounted("link") + Uncounted("plink") = Connections
  /\ m.miscount = "none" => /\ OpenLinks = {} \/ Connections <= MaxLinks
                            /\ Cardinality(Persistent) <= MaxPersistent

Holders(id) ==
  Cardinality({v \in Zvals : m.zval[v] = id}) + (IF m.dflt = id THEN 1 ELSE 0)
  + (IF Uncounted("link") = 1 /\ m.index[call.d] = id THEN 1 ELSE 0)

\* A resource is there as long as a value, the default link or a function in progress
\* refers to it, and no longer.  Functions that give up the reference of a value that
\* keeps the id (mysql_close(), mysql_free_result()) may end it for other holders;
\* an implicit connection, whose id is overwritten, and a timeout keep it too long.
RefsExact ==
  stage \in {"script", "vars"} =>
    \A id \in (1 .. m.list.next - 1) \ m.released :
      /\ Holders(id) > 0 => id \in Ids(m.list)
      /\ id \in Ids(m.list) =>
           /\ m.list.ent[id].refcount >= Holders(id)
           /\ id \notin m.lost => m.list.ent[id].refcount = Holders(id)

\* What mysql_connect() and mysql_pconnect() find under details is a live connection with
\* these details: ids that are kept beside the list do not come to name another
\* resource.  No connection has two owners, of which the first to go would close it.
LinksSound ==
  /\ \A d \in Persistent :
       LET c == m.conn[m.plist[d]] IN c # Freed /\ c.kind = "plink" /\ c.details = d
  /\ \A d \in Details : m.index[d] \in Ids(m.list) =>
       m.index[d] \in OpenLinks /\ m.conn[m.list.ent[m.index[d]].ptr].details = d
  /\ \A id \in OpenLinks :
       LET a == m.list.ent[id].ptr IN
       /\ m.conn[a] # Freed /\ m.conn[a].kind = "link"
       /\ \A other \in OpenLinks \ {id} : m.list.ent[other].ptr # a

\* Between requests the persistent links are all that is open, and none of them is in the
\* middle of a query: the next request can use it.  This rests on the results being freed
\* at the end of the request, whether or not their rows have been read, and does not
\* survive a timeout in a function that works on the link.
InSync ==
  stage = "idle" =>
    \A a \in Addr : m.conn[a] # Freed =>
      m.conn[a].cut \/ (m.conn[a].status = "ready" /\ \E d \in Details : m.plist[d] = a)

\* Memory is used after it is freed, or rows are awaited that do not come, only after one
\* of four mishaps: "closed", a link whose last reference goes before its unbuffered
\* result; "orphan", a persistent link that could not be reconnected and to which others
\* had handles; "drained", a result that is freed when it has been read, while
\* another of the same link has not; "foreign", a query on a persistent link that
\* reads out another link's result, whose id it remembers from an earlier request.
\* In particular the end of the request, which destroys results before links, is sound.
\* Nothing else makes a query read out rows of another link.
MemorySound == ~m.wrong /\ (m.undefined => m.mishap # "none")

-----------------------------------------------------------------------------
(***************************************************************************)
(* The inductive invariant of MySQL_proofs.                                *)
(***************************************************************************)
\* Only a stored result has no connection.
Entries ==
  {e \in [type : {"link", "plink", "result"}, ptr : Addr \cup {Nowhere}, refcount : Int,
          eof : BOOLEAN] :
     e.ptr = Nowhere => e.type = "result" /\ e.eof}

ListOK(l) ==
  /\ l \in [ent : {l.ent}, next : Nat \ {0}]
  /\ Ids(l) \subseteq 1 .. l.next - 1 /\ l.ent \in [Ids(l) -> Entries]

StateOK(s) ==
  /\ s \in [list : {s.list}, index : [Details -> Nat], plist : [Details -> Addr \cup {Nowhere}],
            conn : [Addr -> Conns \cup {Freed}], zval : [Zvals -> Nat], dflt : Nat,
            links : Int, pers : Int, released : SUBSET Nat, lost : SUBSET Nat,
            miscount : {"none", "links", "persistent"},
            mishap : {"none", "closed", "orphan", "drained", "foreign"},
            wrong : BOOLEAN, undefined : BOOLEAN]
  /\ ListOK(s.list)

LinkOf(s, id, a) == id \in Ids(s.list) /\ s.list.ent[id].type = "link" /\ s.list.ent[id].ptr = a

\* LinksSound of a state; and an id kept under details is of the past.
Sound(s) ==
  /\ \A d \in Details : s.plist[d] # Nowhere =>
       LET c == s.conn[s.plist[d]] IN c # Freed /\ c.kind = "plink" /\ c.details = d
  /\ \A d \in Details :
       /\ s.index[d] < s.list.next
       /\ s.index[d] \in Ids(s.list) =>
            /\ s.list.ent[s.index[d]].type = "link"
            /\ s.conn[s.list.ent[s.index[d]].ptr].details = d
  /\ \A id \in Ids(s.list), a \in Addr : LinkOf(s, id, a) =>
       /\ s.conn[a] # Freed /\ s.conn[a].kind = "link"
       /\ \A other \in Ids(s.list) : LinkOf(s, other, a) => other = id

Good(s) == StateOK(s) /\ Sound(s)

\* A connection is in the middle of a query when one of the addresses in W, or when there
\* is a result that will read its rows.
Synced(s, W) ==
  \A a \in Addr \ W :
    s.conn[a] # Freed /\ ~s.conn[a].cut /\ s.conn[a].status # "ready" =>
      /\ s.conn[a].status = "use"
      /\ \E id \in Ids(s.list) : s.list.ent[id].type = "result" /\ s.list.ent[id].ptr = a

\* A persistent link is found by its details, but for the addresses in W.
Listed(s, W) ==
  \A a \in Addr \ W :
    s.conn[a] # Freed /\ ~s.conn[a].cut /\ s.conn[a].kind = "plink" =>
      \E d \in Details : s.plist[d] = a

Querying == IF call.at \in {"rows", "used"} THEN {call.a} ELSE {}
Opening  == IF call.at = "opened" THEN {call.a} ELSE {}

Queries         == {"none", "store", "use"}
Connecting(S)   == [at : S, kind : Links, v : Zvals, d : Details, query : Queries]
ConnectingAt(S) == [at : S, kind : Links, v : Zvals, d : Details, query : Queries, a : Addr]
Working(S)      == [at : S, v : Zvals, a : Addr, query : Queries]

\* What a function has in hand.
CallOK ==
  /\ stage # "script" => call = Idle
  /\ call \in {Idle} \cup Connecting({"open", "query"})
             \cup ConnectingAt({"opened", "registered", "query"})
             \cup Working({"sent", "rows", "used"})
  /\ call.at \in {"opened", "registered", "sent", "rows", "used"} => m.conn[call.a] # Freed
  /\ call.at \in {"open", "opened"} /\ call.kind = "plink" => m.plist[call.d] = Nowhere
  /\ call.at = "opened" =>
       /\ m.conn[call.a].kind = call.kind /\ m.conn[call.a].details = call.d
       /\ \A id \in Ids(m.list) : ~LinkOf(m, id, call.a)
  /\ call.at = "used" => m.conn[call.a].status = "use"

AtRest ==
  stage = "idle" =>
    /\ Ids(m.list) = {}
    /\ \A a \in Addr : m.conn[a] # Freed => m.conn[a].kind = "plink"

IInv == Good(m) /\ CallOK /\ AtRest /\ Synced(m, Querying) /\ Listed(m, Opening)

\* What makes MemorySound inductive.  The id of a result that a connection remembers from
\* this request is that of a result of its own, or of one that has gone.
Remembers(s) ==
  \A a \in Addr : s.conn[a] # Freed /\ ~s.conn[a].old =>
    /\ s.conn[a].active < s.list.next
    /\ s.conn[a].active \in Ids(s.list) =>
         LET e == s.list.ent[s.conn[a].active] IN e.type = "result" /\ e.ptr = a

\* What the list refers to is alive: a result with rows left is the one its connection
\* is in the middle of, and is newer than its link.
Backed(s) ==
  \A id \in Ids(s.list), a \in Addr : s.list.ent[id].ptr = a =>
    /\ s.conn[a] # Freed
    /\ s.list.ent[id].type = "plink" => s.conn[a].kind = "plink"
    /\ s.list.ent[id].type = "result" =>
         /\ ~s.list.ent[id].eof => s.conn[a].status = "use" /\ s.conn[a].active = id
         /\ \A other \in Ids(s.list) : LinkOf(s, other, a) => other < id

Fit(s) == Good(s) /\ Remembers(s) /\ ~s.wrong /\ (s.mishap = "none" => ~s.undefined /\ Backed(s))

\* Nothing refers to a connection that is not yet in its list, and a query is sent when
\* the rows of the earlier ones have been read.
Unread(s, a) == \E id \in Ids(s.list) :
  s.list.ent[id].type = "result" /\ s.list.ent[id].ptr = a /\ ~s.list.ent[id].eof

CallFit ==
  m.mishap = "none" =>
    /\ call.at = "opened" => \A id \in Ids(m.list) : m.list.ent[id].ptr # call.a
    /\ call.at = "registered" => m.conn[call.a].kind = call.kind
    /\ call.at \in {"sent", "rows", "used"} => ~Unread(m, call.a)

MemInv == IInv /\ Fit(m) /\ CallFit

\* What makes LinksCounted inductive: whoever is about to open a connection has seen
\* counts below the limits.
CountInv ==
  /\ m.miscount # "persistent" =>
       /\ m.pers + Uncounted("plink") = Cardinality(Persistent)
       /\ Cardinality(Persistent) <= MaxPersistent
       /\ call.at \in {"open", "opened"} /\ call.kind = "plink" =>
            Cardinality(Persistent) < MaxPersistent
  /\ m.miscount = "none" /\ stage # "idle" =>
       /\ m.links + Uncounted("link") + Uncounted("plink") = Connections
       /\ OpenLinks = {} \/ Connections <= MaxLinks
       /\ call.at \in {"open", "opened"} => Connections < MaxLinks

\* And RefsExact, for h holders: those who hold what has been released may be more than
\* its references, but not fewer; so it is gone with the last of them.
Refs(l, released, lost, h) ==
  \A id \in 1 .. l.next - 1 :
    /\ id \in Ids(l) => l.ent[id].refcount >= 1
    /\ id \notin released => /\ h[id] > 0 => id \in Ids(l)
                             /\ id \in Ids(l) => l.ent[id].refcount >= h[id]
    /\ id \in Ids(l) \ lost => l.ent[id].refcount <= h[id]

\* Values and the default link hold ids of the past, or none.
Past(s) == s.dflt < s.list.next /\ \A v \in Zvals : s.zval[v] < s.list.next

RefInv ==
  /\ stage = "idle" => \A v \in Zvals : m.zval[v] = NoId
  /\ stage \in {"script", "vars"} =>
       Past(m) /\ Refs(m.list, m.released, m.lost, [id \in Nat |-> Holders(id)])
  /\ Uncounted("link") = 1 =>
       m.index[call.d] \in Ids(m.list) /\ m.dflt # m.index[call.d]

=============================================================================
