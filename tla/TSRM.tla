-------------------------------- MODULE TSRM --------------------------------
(***************************************************************************)
(* TSRM/TSRM.c, the thread-safe resource manager, in the PTHREADS and      *)
(* TSRM_WIN32 builds (those with a thread-local fast path).                *)
(*                                                                         *)
(* Every thread owns one tsrm_tls_entry, found through a hash table of     *)
(* chains that tsmm_mutex protects.  The entry points to a storage array   *)
(* with one slot per resource id.  Two things happen WITHOUT the mutex: a  *)
(* thread that already has an entry reads its array, which                 *)
(* ts_allocate_id() of another thread may realloc(); and a thread that has *)
(* just linked its entry into a chain reaches it through the next field of *)
(* the predecessor, which ts_free_thread() of another thread may free.     *)
(*                                                                         *)
(* Slots are filled in ascending order in both loops that fill them, so a  *)
(* storage array is its size and the number of slots constructed so far.   *)
(* Allocation of memory never fails here.                                  *)
(***************************************************************************)
EXTENDS Integers

CONSTANTS
  Threads,        \* thread ids that may call into TSRM: positive numbers
  Main,           \* the thread that starts the server module
  Timers,         \* the threads that fetch on behalf of others (timeout window)
  Nobody,         \* no thread / a NULL pointer
  Dangling,       \* a pointer to an entry that has been freed
  TableSize,      \* number of chains of the table
  MaxResources,   \* bound on the calls of ts_allocate_id
  LateAllocation  \* may ids be allocated once threads are being served?

ASSUME ThreadAssumption ==
  /\ Main \in Threads /\ Timers \subseteq Threads \ {Main}
  /\ Threads \subseteq Nat /\ TableSize \in Nat \ {0}
  /\ Nobody \notin Threads /\ Dangling \notin Threads /\ Nobody # Dangling
  /\ MaxResources \in Nat
  /\ LateAllocation \in BOOLEAN

VARIABLES
  mutex,      \* holder of tsmm_mutex
  id_count,   \* number of resource ids handed out
  known,      \* tsrm_tls_table: the thread ids that have an entry
  pred,       \* the entry whose next field links the entry (Nobody: the table)
  entry,      \* the storage of the entry of each thread id
  tls,        \* tls_key: whose entry the thread-local pointer designates
  serving,    \* the host has left startup and runs request threads
  pc,         \* where each thread is
  call,       \* the arguments of the call it is in
  held        \* is the storage pointer it has read still the current one?

vars == <<mutex, id_count, known, pred, entry, tls, serving, pc, call, held>>

NoEntry == [size |-> 0, built |-> 0, count |-> 0]
Entries == [size : 0..MaxResources, built : 0..MaxResources,
            count : 0..MaxResources]
NoCall(t) == [id |-> 0, of |-> t]

Init ==
  /\ mutex = Nobody /\ id_count = 0 /\ serving = FALSE
  /\ known = {} /\ pred = [t \in Threads |-> Nobody]
  /\ entry = [t \in Threads |-> NoEntry]
  /\ tls   = [t \in Threads |-> Nobody]
  /\ pc    = [t \in Threads |-> "idle"]
  /\ call  = [t \in Threads |-> NoCall(t)]
  /\ held  = [t \in Threads |-> "none"]

-----------------------------------------------------------------------------
(***************************************************************************)
(* ts_resource_ex(id, th_id).                                              *)
(***************************************************************************)
\* id = 0 asks for the array itself, id > 0 for slot id - 1.  Ordinary threads
\* pass th_id = NULL; a timer asks for the array of the thread it watches.
Fetch(t, id, u) ==
  /\ pc[t] = "idle"
  /\ IF t \in Timers THEN u # t /\ id = 0 ELSE u = t
  /\ serving \/ t = Main
  /\ call' = [call EXCEPT ![t] = [id |-> id, of |-> u]]
  /\ IF u = t /\ tls[t] # Nobody
       THEN /\ pc'   = [pc EXCEPT ![t] = "read"]
            /\ held' = [held EXCEPT ![t] = IF tls[t] = Dangling THEN "stale"
                                                                ELSE "live"]
       ELSE pc' = [pc EXCEPT ![t] = "lock"] /\ UNCHANGED held
  /\ UNCHANGED <<mutex, id_count, known, pred, entry, tls, serving>>

\* The table holds an entry of the thread: unlock and go on to read it.
LookupHit(t) ==
  /\ pc[t] = "lock" /\ mutex = Nobody
  /\ call[t].of \in known
  /\ pc' = [pc EXCEPT ![t] = "unlocked"]
  /\ UNCHANGED <<mutex, id_count, known, pred, entry, tls, serving, call, held>>

THREAD_HASH_OF(t) == t % TableSize
Bucket(u) == {v \in known : THREAD_HASH_OF(v) = THREAD_HASH_OF(u)}

\* Where the walk along the chain of u ends: the entry without a successor.
ChainEnd(u) ==
  IF Bucket(u) = {} THEN {Nobody}
  ELSE {v \in Bucket(u) : \A w \in known : pred[w] # v}

\* Mutant: the new entry is not linked into the table.
LookupMiss_unlinked(t) ==
  LET u == call[t].of IN
  /\ pc[t] = "lock" /\ mutex = Nobody /\ u \notin known
  /\ mutex' = t
  /\ entry' = [entry EXCEPT ![u] = [size  |-> id_count, built |-> 0,
                                    count |-> id_count]]
  /\ tls'   = [tls EXCEPT ![t] = u]
  /\ pc'    = [pc EXCEPT ![t] = "construct"]
  /\ UNCHANGED <<id_count, known, pred, serving, call, held>>

\* Mutant: the entry is linked to the table, not to the end of the chain.
LookupMiss_head(t) ==
  LET u == call[t].of IN
  /\ pc[t] = "lock" /\ mutex = Nobody
  /\ u \notin known
  /\ mutex' = t
  /\ known' = known \cup {u}
  /\ pred'  = [pred EXCEPT ![u] = Nobody]
  /\ entry' = [entry EXCEPT ![u] = [size  |-> id_count, built |-> 0,
                                    count |-> id_count]]
  /\ tls'   = [tls EXCEPT ![t] = u]
  /\ pc'    = [pc EXCEPT ![t] = "construct"]
  /\ UNCHANGED <<id_count, serving, call, held>>

\* It holds none: allocate_new_resource() links one into the table
\* and points the CALLER's thread-local pointer at it, before any slot is set.
LookupMiss(t) ==
  LET u == call[t].of IN
  /\ pc[t] = "lock" /\ mutex = Nobody
  /\ u \notin known
  /\ mutex' = t
  /\ known' = known \cup {u}
  /\ \E v \in ChainEnd(u) : pred' = [pred EXCEPT ![u] = v]
  /\ entry' = [entry EXCEPT ![u] = [size  |-> id_count, built |-> 0,
                                    count |-> id_count]]
  /\ tls'   = [tls EXCEPT ![t] = u]
  /\ pc'    = [pc EXCEPT ![t] = "construct"]
  /\ UNCHANGED <<id_count, serving, call, held>>

ConstructSlot(t) ==
  LET u == call[t].of IN
  /\ pc[t] = "construct"
  /\ entry[u].built < id_count
  /\ entry' = [entry EXCEPT ![u].built = @ + 1]
  /\ UNCHANGED <<mutex, id_count, known, pred, tls, serving, pc, call, held>>

\* Mutant: the mutex is released before the slots are constructed.
ConstructDone_early(t) ==
  /\ pc[t] = "construct"
  /\ mutex' = Nobody
  /\ pc'    = [pc EXCEPT ![t] = "handler"]
  /\ held'  = [held EXCEPT ![t] = "live"]
  /\ UNCHANGED <<id_count, known, pred, entry, tls, serving, call>>

\* All slots are set: unlock.
ConstructDone(t) ==
  /\ pc[t] = "construct"
  /\ entry[call[t].of].built = id_count
  /\ mutex' = Nobody
  /\ pc'    = [pc EXCEPT ![t] = "handler"]
  /\ held'  = [held EXCEPT ![t] = "live"]
  /\ UNCHANGED <<id_count, known, pred, entry, tls, serving, call>>

\* tsrm_new_thread_end_handler(), with the storage of the new entry found through
\* the link that was its place in the chain; then ts_resource_ex(id, &thread_id).
EndHandler(t) ==
  /\ pc[t] = "handler"
  /\ pc'   = [pc EXCEPT ![t] = "lock"]
  /\ held' = [held EXCEPT ![t] = "none"]
  /\ UNCHANGED <<mutex, id_count, known, pred, entry, tls, serving, call>>

\* thread_resources->storage is read after the mutex has been released.
LoadStorage(t) ==
  /\ pc[t] = "unlocked"
  /\ pc'   = [pc EXCEPT ![t] = "read"]
  /\ held' = [held EXCEPT ![t] = IF call[t].of \in known THEN "live" ELSE "stale"]
  /\ UNCHANGED <<mutex, id_count, known, pred, entry, tls, serving, call>>

\* array[TSRM_UNSHUFFLE_RSRC_ID(id)], the value the call returns.
ReadSlot(t) ==
  /\ pc[t] = "read"
  /\ pc'   = [pc EXCEPT ![t] = "idle"]
  /\ call' = [call EXCEPT ![t] = NoCall(t)]
  /\ held' = [held EXCEPT ![t] = "none"]
  /\ UNCHANGED <<mutex, id_count, known, pred, entry, tls, serving>>

-----------------------------------------------------------------------------
\* The array a thread has read the address of: on the fast path that of the entry
\* its thread-local pointer designates, else that of the entry it asked for.
ReadsFrom(t) == IF call[t].of = t /\ tls[t] # Nobody THEN tls[t] ELSE call[t].of

\* The storage of u is freed or moved while other threads hold its address.
Invalidate(u) ==
  [t \in Threads |-> IF pc[t] = "read" /\ ReadsFrom(t) = u
                       THEN "stale" ELSE held[t]]

\* The entry of u itself is freed: an end handler may be about to look at the
\* entry of u, or at the next field of u.
InvalidateEntry(u) ==
  [t \in Threads |->
     IF pc[t] = "handler" /\ (call[t].of = u \/ pred[call[t].of] = u)
       THEN "stale" ELSE Invalidate(u)[t]]

\* The successor of u in its chain takes u's place.
Unlink(u) == [v \in Threads |-> IF v = u THEN Nobody
                                ELSE IF pred[v] = u THEN pred[u] ELSE pred[v]]

(***************************************************************************)
(* ts_free_thread(): runs the destructors and frees the caller's entry.    *)
(***************************************************************************)
FreeThread(t) ==
  /\ pc[t] = "idle" /\ serving /\ mutex = Nobody
  /\ t \in known
  /\ known' = known \ {t} /\ pred' = Unlink(t)
  /\ entry' = [entry EXCEPT ![t] = NoEntry]
  /\ tls'   = [u \in Threads |-> IF u = t THEN Nobody
                                 ELSE IF tls[u] = t THEN Dangling ELSE tls[u]]
  /\ held'  = InvalidateEntry(t)
  /\ UNCHANGED <<mutex, id_count, serving, pc, call>>

(***************************************************************************)
(* ts_allocate_id(): a new id, then every existing entry gets a slot.      *)
(***************************************************************************)
AllocateId(t) ==
  /\ pc[t] = "idle" /\ mutex = Nobody
  /\ IF serving THEN LateAllocation /\ t \notin Timers ELSE t = Main
  /\ id_count < MaxResources
  /\ mutex'    = t
  /\ id_count' = id_count + 1
  /\ pc'       = [pc EXCEPT ![t] = "enlarge"]
  /\ UNCHANGED <<known, pred, entry, tls, serving, call, held>>

\* Mutant: count is raised together with the size, before the constructor.
EnlargeStorage_counts(t, u) ==
  /\ pc[t] = "enlarge"
  /\ u \in known /\ entry[u].size < id_count
  /\ entry' = [entry EXCEPT ![u].size = id_count, ![u].count = id_count]
  /\ held' \in {held, Invalidate(u)}
  /\ UNCHANGED <<mutex, id_count, known, pred, tls, serving, pc, call>>

\* realloc() of one entry's array, in place or elsewhere.
EnlargeStorage(t, u) ==
  /\ pc[t] = "enlarge"
  /\ u \in known /\ entry[u].size < id_count
  /\ entry' = [entry EXCEPT ![u].size = id_count]
  /\ held' \in {held, Invalidate(u)}
  /\ UNCHANGED <<mutex, id_count, known, pred, tls, serving, pc, call>>

\* The constructor of the new slot, then p->count = id_count.
FillStorage(t, u) ==
  /\ pc[t] = "enlarge"
  /\ u \in known /\ entry[u].size = id_count /\ entry[u].count < id_count
  /\ entry' = [entry EXCEPT ![u].built = id_count, ![u].count = id_count]
  /\ UNCHANGED <<mutex, id_count, known, pred, tls, serving, pc, call, held>>

AllocateDone(t) ==
  /\ pc[t] = "enlarge"
  /\ \A u \in Threads : u \in known => entry[u].count = id_count
  /\ mutex' = Nobody
  /\ pc'    = [pc EXCEPT ![t] = "idle"]
  /\ UNCHANGED <<id_count, known, pred, entry, tls, serving, call, held>>

\* The server host ends module startup and begins to serve requests.
StartServing ==
  /\ ~serving /\ \A t \in Threads : pc[t] = "idle"
  /\ serving' = TRUE
  /\ UNCHANGED <<mutex, id_count, known, pred, entry, tls, pc, call, held>>

-----------------------------------------------------------------------------
InResource(t) == \/ LookupHit(t) \/ LookupMiss(t)
                 \/ ConstructSlot(t) \/ ConstructDone(t) \/ EndHandler(t)
                 \/ LoadStorage(t) \/ ReadSlot(t)
InAllocate(t) == \/ \E u \in Threads : EnlargeStorage(t, u) \/ FillStorage(t, u)
                 \/ AllocateDone(t)

Next ==
  \/ \E t \in Threads :
       \/ \E id \in 0..id_count, u \in Threads : Fetch(t, id, u)
       \/ InResource(t) \/ InAllocate(t)
       \/ FreeThread(t) \/ AllocateId(t)
  \/ StartServing

Spec == Init /\ [][Next]_vars

\* A thread inside TSRM runs on, and a mutex that is free again and again is
\* eventually granted to a thread that waits for it.
Fairness ==
  \A t \in Threads : /\ WF_vars(InResource(t)) /\ WF_vars(InAllocate(t))
                     /\ SF_vars(LookupHit(t) \/ LookupMiss(t))
FairSpec == Spec /\ Fairness

-----------------------------------------------------------------------------
TypeOK ==
  /\ mutex \in Threads \cup {Nobody}
  /\ id_count \in 0..MaxResources
  /\ known \subseteq Threads
  /\ pred \in [Threads -> Threads \cup {Nobody}]
  /\ entry \in [Threads -> Entries]
  /\ tls \in [Threads -> Threads \cup {Nobody, Dangling}]
  /\ serving \in BOOLEAN
  /\ pc \in [Threads -> {"idle", "lock", "unlocked", "read", "construct",
                     "handler", "enlarge"}]
  /\ call \in [Threads -> [id : 0..MaxResources, of : Threads]]
  /\ held \in [Threads -> {"none", "live", "stale"}]

Workers == Threads \ Timers

\* What ts_resource_ex() hands out to a thread that asks for its own can be used:
\* the entry exists, and a slot is read from the array the entry has now, within
\* its size, and constructed, although a timer may make the entry meanwhile.
\* The lock-free read of lines 296-310 is where this could go wrong.
SoundRead ==
  \A t \in Workers : pc[t] = "read" =>
    LET u == ReadsFrom(t) IN
    /\ u \in known
    /\ call[t].id > 0 => held[t] = "live" /\ call[t].id <= entry[u].built

\* Each chain is one list: its entries hash to it, no two follow the same one,
\* and it is empty or has a head, so that a walk from the table meets them all.
Chains ==
  \A u \in known :
    /\ pred[u] \in (Bucket(u) \ {u}) \cup {Nobody}
    /\ \A v \in Bucket(u) \ {u} : pred[v] # pred[u]
    /\ \E v \in Bucket(u) : pred[v] = Nobody

\* A thread-local pointer designates the entry of its own thread (not so a timer's:
\* it gets that of a thread whose entry it has made).
OwnEntry == \A t \in Workers : tls[t] \in {Nobody, t}

Full(u) ==
  entry[u] = [size |-> id_count, built |-> id_count, count |-> id_count]

\* When nobody holds tsmm_mutex every entry has all its slots, constructed;
\* tsrm_shutdown() and ts_free_thread() walk the arrays relying on it.
QuiescentComplete ==
  mutex = Nobody => \A u \in known : Full(u)

\* Entries are added and grown only under the mutex, by one thread at a time.
LockedWriters ==
  \A t \in Threads : pc[t] \in {"construct", "enlarge"} <=> mutex = t

-----------------------------------------------------------------------------
(***************************************************************************)
(* The inductive invariants of TSRM_proofs.                                *)
(***************************************************************************)
\* An entry lacks slots only while somebody constructs it, or while an
\* allocation has not reached it yet.
EntryComplete ==
  /\ \A t \in Threads : pc[t] = "construct" => call[t].of \in known
  /\ \A u \in known :
       \/ Full(u)
       \/ /\ \E t \in Threads : pc[t] = "construct" /\ call[t].of = u
          /\ entry[u].size = id_count /\ entry[u].count = id_count
       \/ (\E t \in Threads : pc[t] = "enlarge") /\ entry[u].count # id_count

\* What makes mutual exclusion enough for whoever holds the mutex, in every build.
WriterInv == TypeOK /\ LockedWriters /\ EntryComplete

\* Why the read without the mutex is sound too: modules allocate their ids at
\* startup.  (dl() is refused in multithreaded servers, ext/standard/dl.c:60.)
IdsAtStartup == ~LateAllocation

\* Until requests are served only Main is inside TSRM; afterwards no id is
\* allocated any more, so that no array moves.
StartupAlone ==
  /\ ~serving => \A t \in Threads \ {Main} : pc[t] = "idle" /\ t \notin known
  /\ serving  => \A t \in Threads : pc[t] # "enlarge"

\* A thread frees nobody's entry but its own; while a timer constructs the entry
\* of a thread, that thread has no pointer to it and no call that has found it.
OwnStorage ==
  \A t \in Workers :
    /\ tls[t] = Nobody \/ (tls[t] = t /\ t \in known)
    /\ call[t].of = t /\ call[t].id <= id_count
    /\ pc[t] \in {"unlocked", "read", "construct", "handler"} => t \in known
    /\ pc[t] = "read" => held[t] = "live"
    /\ \A s \in Threads \ {t} : pc[s] = "construct" /\ call[s].of = t =>
         tls[t] = Nobody /\ pc[t] \notin {"unlocked", "read", "handler"}

IInv == WriterInv /\ StartupAlone /\ OwnStorage

\* No entries are linked in a ring: of every set of entries one is linked from
\* outside of it.  Without this, unlinking could leave an entry that links itself.
Acyclic == \A S \in SUBSET known : S # {} => \E u \in S : pred[u] \notin S

\* The inductive invariant for the chains, in every build.
ChainInv == TypeOK /\ Chains /\ Acyclic

-----------------------------------------------------------------------------
\* Every fetch of a worker returns, although it may have to wait for the mutex twice
\* and a timer may have made its entry meanwhile.  (A timer's may go on for ever:
\* the thread it watches may free each entry before the second lookup.)
FetchReturns == \A t \in Workers : pc[t] = "lock" ~> pc[t] = "idle"
=============================================================================
