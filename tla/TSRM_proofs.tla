----------------------------- MODULE TSRM_proofs -----------------------------
(***************************************************************************)
(* Proofs about TSRM for any number of threads, timers and resource ids:   *)
(* type correctness, mutual exclusion of the writers, whole chains and     *)
(* complete entries in every build; and, when every id is allocated before *)
(* the server serves, the soundness of the lock-free read.                 *)
(***************************************************************************)
EXTENDS TSRM, TLAPS

\* Every step keeps the variables in their types.
LEMMA TypeStep == TypeOK /\ [Next]_vars => TypeOK'
<1> SUFFICES ASSUME TypeOK, [Next]_vars PROVE TypeOK'
  OBVIOUS
<1> USE ThreadAssumption DEF TypeOK, Entries, NoEntry, NoCall
<1>1. ASSUME NEW t \in Threads, NEW u \in Threads, NEW id \in 0..id_count,
             Fetch(t, id, u)
      PROVE  TypeOK'
  <2>1. id \in 0..MaxResources
    OBVIOUS
  <2>2. call' \in [Threads -> [id : 0..MaxResources, of : Threads]]
    BY <1>1, <2>1 DEF Fetch
  <2>3. held' \in [Threads -> {"none", "live", "stale"}]
    BY <1>1 DEF Fetch
  <2>4. pc' \in [Threads -> {"idle", "lock", "unlocked", "read", "construct",
                             "handler", "enlarge"}]
    BY <1>1 DEF Fetch
  <2>. QED
    BY <1>1, <2>2, <2>3, <2>4 DEF Fetch
<1>2. ASSUME NEW t \in Threads, InResource(t) PROVE TypeOK'
  <2>1. CASE LookupHit(t)
    BY <2>1 DEF LookupHit
  <2>2. CASE LookupMiss(t)
    <3>1. ChainEnd(call[t].of) \subseteq Threads \cup {Nobody}
      BY DEF ChainEnd, Bucket
    <3>2. pred' \in [Threads -> Threads \cup {Nobody}]
      BY <2>2, <3>1 DEF LookupMiss
    <3>3. entry' \in [Threads -> Entries]
      BY <2>2 DEF LookupMiss
    <3>4. pc' \in [Threads -> {"idle", "lock", "unlocked", "read", "construct",
                               "handler", "enlarge"}]
      BY <2>2 DEF LookupMiss
    <3>5. call[t].of \in Threads
      OBVIOUS
    <3>6. known' \subseteq Threads
      BY <2>2, <3>5 DEF LookupMiss
    <3>7. tls' \in [Threads -> Threads \cup {Nobody, Dangling}]
      BY <2>2, <3>5 DEF LookupMiss
    <3>. QED
      BY <2>2, <3>2, <3>3, <3>4, <3>6, <3>7 DEF LookupMiss
  <2>3. CASE ConstructSlot(t)
    BY <2>3 DEF ConstructSlot
  <2>4. CASE ConstructDone(t)
    BY <2>4 DEF ConstructDone
  <2>5. CASE LoadStorage(t)
    BY <2>5 DEF LoadStorage
  <2>6. CASE ReadSlot(t)
    BY <2>6 DEF ReadSlot
  <2>7. CASE EndHandler(t)
    BY <2>7 DEF EndHandler
  <2>. QED
    BY <1>2, <2>1, <2>2, <2>3, <2>4, <2>5, <2>6, <2>7 DEF InResource
<1>3. ASSUME NEW t \in Threads, InAllocate(t) PROVE TypeOK'
  <2>1. ASSUME NEW u \in Threads, EnlargeStorage(t, u) PROVE TypeOK'
    <3>1. Invalidate(u) \in [Threads -> {"none", "live", "stale"}]
      BY DEF Invalidate
    <3>2. held' \in [Threads -> {"none", "live", "stale"}]
      BY <2>1, <3>1 DEF EnlargeStorage
    <3>3. entry' \in [Threads -> Entries]
      <4>1. [entry[u] EXCEPT !.size = id_count] \in Entries
        BY entry[u] \in Entries, id_count \in 0..MaxResources
      <4>2. entry' = [entry EXCEPT ![u] = [entry[u] EXCEPT !.size = id_count]]
        BY <2>1 DEF EnlargeStorage
      <4>. QED
        BY <4>1, <4>2
    <3>. QED
      BY <2>1, <3>2, <3>3 DEF EnlargeStorage
  <2>2. ASSUME NEW u \in Threads, FillStorage(t, u) PROVE TypeOK'
    BY <2>2 DEF FillStorage
  <2>3. CASE AllocateDone(t)
    BY <2>3 DEF AllocateDone
  <2>. QED
    BY <1>3, <2>1, <2>2, <2>3 DEF InAllocate
<1>4. ASSUME NEW t \in Threads, FreeThread(t) PROVE TypeOK'
  <2>1. InvalidateEntry(t) \in [Threads -> {"none", "live", "stale"}]
    BY DEF Invalidate, InvalidateEntry
  <2>2. NoEntry \in Entries
    OBVIOUS
  <2>3. entry' \in [Threads -> Entries]
    BY <1>4, <2>2 DEF FreeThread
  <2>4. tls' \in [Threads -> Threads \cup {Nobody, Dangling}]
    BY <1>4 DEF FreeThread
  <2>5. pred' \in [Threads -> Threads \cup {Nobody}]
    BY <1>4 DEF FreeThread, Unlink
  <2>. QED
    BY <1>4, <2>1, <2>3, <2>4, <2>5 DEF FreeThread
<1>5. ASSUME NEW t \in Threads, AllocateId(t) PROVE TypeOK'
  BY <1>5 DEF AllocateId
<1>6. CASE StartServing
  BY <1>6 DEF StartServing
<1>7. CASE UNCHANGED vars
  BY <1>7 DEF vars
<1>. QED
  BY <1>1, <1>2, <1>3, <1>4, <1>5, <1>6, <1>7 DEF Next

\* The initial values have them.
LEMMA TypeInit == Init => TypeOK
<1> SUFFICES ASSUME Init PROVE TypeOK
  OBVIOUS
<1> USE ThreadAssumption DEF Init
<1>1. 0 \in 0..MaxResources
  OBVIOUS
<1>2. entry \in [Threads -> Entries]
  BY <1>1 DEF NoEntry, Entries
<1>3. call \in [Threads -> [id : 0..MaxResources, of : Threads]]
  BY <1>1 DEF NoCall
<1>. QED
  BY <1>1, <1>2, <1>3 DEF TypeOK

\* The variables always have their types.
THEOREM TypeCorrect == Spec => []TypeOK
  BY TypeInit, TypeStep, PTL DEF Spec

-----------------------------------------------------------------------------
\* The writers exclude one another, whatever the build: no assumption.
LEMMA LockStep == TypeOK /\ LockedWriters /\ [Next]_vars => LockedWriters'
<1> SUFFICES ASSUME TypeOK, LockedWriters, [Next]_vars PROVE LockedWriters'
  OBVIOUS
<1> USE ThreadAssumption DEF TypeOK, LockedWriters
<1>1. ASSUME NEW t \in Threads, NEW u \in Threads, NEW id \in 0..id_count,
             Fetch(t, id, u)
      PROVE  LockedWriters'
  BY <1>1 DEF Fetch
<1>2. ASSUME NEW t \in Threads, InResource(t) PROVE LockedWriters'
  BY <1>2 DEF InResource, LookupHit, LookupMiss, ConstructSlot, ConstructDone,
              EndHandler, LoadStorage, ReadSlot
<1>3. ASSUME NEW t \in Threads, InAllocate(t) PROVE LockedWriters'
  <2>1. ASSUME NEW u \in Threads, EnlargeStorage(t, u) \/ FillStorage(t, u)
        PROVE  LockedWriters'
    BY <2>1 DEF EnlargeStorage, FillStorage
  <2>2. CASE AllocateDone(t)
    BY <2>2 DEF AllocateDone
  <2>. QED
    BY <1>3, <2>1, <2>2 DEF InAllocate
<1>4. ASSUME NEW t \in Threads, FreeThread(t) PROVE LockedWriters'
  BY <1>4 DEF FreeThread
<1>5. ASSUME NEW t \in Threads, AllocateId(t) PROVE LockedWriters'
  BY <1>5 DEF AllocateId
<1>6. CASE StartServing
  BY <1>6 DEF StartServing
<1>7. CASE UNCHANGED vars
  BY <1>7 DEF vars
<1>. QED
  BY <1>1, <1>2, <1>3, <1>4, <1>5, <1>6, <1>7 DEF Next

\* tsmm_mutex: at every moment at most one thread adds or grows entries.
THEOREM MutualExclusion == Spec => []LockedWriters
<1>1. Init => LockedWriters
  <2> SUFFICES ASSUME Init, NEW t \in Threads
               PROVE  pc[t] \in {"construct", "enlarge"} <=> mutex = t
    BY DEF LockedWriters
  <2>1. pc[t] = "idle" /\ mutex = Nobody
    BY DEF Init
  <2>2. mutex # t
    BY <2>1, ThreadAssumption
  <2>. QED
    BY <2>1, <2>2
<1>. QED
  BY <1>1, TypeCorrect, LockStep, PTL DEF Spec
-----------------------------------------------------------------------------
\* Whoever writes holds the mutex, so what an entry lacks is lacking to one thread.
LEMMA WriterStep == WriterInv /\ [Next]_vars => WriterInv'
<1> SUFFICES ASSUME WriterInv, [Next]_vars PROVE EntryComplete'
  BY TypeStep, LockStep DEF WriterInv
<1> USE ThreadAssumption
    DEF WriterInv, TypeOK, LockedWriters, EntryComplete, Entries, NoCall, NoEntry, Full
<1>1. ASSUME NEW t \in Threads, NEW u \in Threads, NEW id \in 0..id_count,
             Fetch(t, id, u)
      PROVE  EntryComplete'
  BY <1>1 DEF Fetch
<1>2. ASSUME NEW t \in Threads, LookupHit(t)
      PROVE  EntryComplete'
  BY <1>2 DEF LookupHit
<1>3. ASSUME NEW t \in Threads, LookupMiss(t)
      PROVE  EntryComplete'
  BY <1>3 DEF LookupMiss
<1>4. ASSUME NEW t \in Threads, ConstructSlot(t)
      PROVE  EntryComplete'
  BY <1>4 DEF ConstructSlot
<1>5. ASSUME NEW t \in Threads, ConstructDone(t)
      PROVE  EntryComplete'
  BY <1>5 DEF ConstructDone
<1>6. ASSUME NEW t \in Threads, EndHandler(t)
      PROVE  EntryComplete'
  BY <1>6 DEF EndHandler
<1>7. ASSUME NEW t \in Threads, LoadStorage(t)
      PROVE  EntryComplete'
  BY <1>7 DEF LoadStorage
<1>8. ASSUME NEW t \in Threads, ReadSlot(t)
      PROVE  EntryComplete'
  BY <1>8 DEF ReadSlot
<1>9. ASSUME NEW t \in Threads, NEW u \in Threads, EnlargeStorage(t, u)
      PROVE  EntryComplete'
  BY <1>9 DEF EnlargeStorage, Invalidate, ReadsFrom
<1>10. ASSUME NEW t \in Threads, NEW u \in Threads, FillStorage(t, u)
      PROVE  EntryComplete'
  BY <1>10 DEF FillStorage
<1>11. ASSUME NEW t \in Threads, AllocateDone(t)
      PROVE  EntryComplete'
  BY <1>11 DEF AllocateDone
<1>12. ASSUME NEW t \in Threads, FreeThread(t)
      PROVE  EntryComplete'
  BY <1>12 DEF FreeThread, Invalidate, InvalidateEntry, ReadsFrom
<1>13. ASSUME NEW t \in Threads, AllocateId(t)
      PROVE  EntryComplete'
  BY <1>13 DEF AllocateId
<1>14. ASSUME StartServing
      PROVE  EntryComplete'
  BY <1>14 DEF StartServing
<1>15. ASSUME UNCHANGED vars
      PROVE  EntryComplete'
  BY <1>15 DEF vars
<1>. QED
  BY <1>1, <1>2, <1>3, <1>4, <1>5, <1>6, <1>7, <1>8, <1>9, <1>10, <1>11, <1>12, <1>13, <1>14, <1>15
     DEF Next, InResource, InAllocate

\* The writers' invariant holds in every build.
LEMMA WriterCorrect == Spec => []WriterInv
<1>1. ASSUME Init PROVE WriterInv
  <2>1. TypeOK
    BY <1>1, TypeInit
  <2>2. LockedWriters
    BY <1>1, ThreadAssumption DEF Init, LockedWriters
  <2>3. EntryComplete
    BY <1>1 DEF Init, EntryComplete
  <2>. QED
    BY <2>1, <2>2, <2>3 DEF WriterInv
<1>. QED
  BY <1>1, WriterStep, PTL DEF Spec

\* Whoever takes the mutex finds every entry complete, in every build.
THEOREM EntriesComplete == Spec => []QuiescentComplete
<1>1. ASSUME WriterInv PROVE QuiescentComplete
  BY <1>1, ThreadAssumption
     DEF WriterInv, LockedWriters, EntryComplete, QuiescentComplete, TypeOK
<1>. QED
  BY <1>1, WriterCorrect, PTL
-----------------------------------------------------------------------------
\* When ids are allocated at startup only, every step keeps the invariant for reads.
LEMMA InvStep == IdsAtStartup /\ IInv /\ [Next]_vars => IInv'
<1> SUFFICES ASSUME IdsAtStartup, IInv, [Next]_vars
             PROVE  StartupAlone' /\ OwnStorage'
  BY WriterStep DEF IInv
<1> USE ThreadAssumption
    DEF IdsAtStartup, IInv, WriterInv, TypeOK, LockedWriters, StartupAlone, OwnStorage,
        Workers, Entries, NoCall, NoEntry
<1>1. ASSUME NEW t \in Threads, NEW u \in Threads, NEW id \in 0..id_count,
             Fetch(t, id, u)
      PROVE  StartupAlone' /\ OwnStorage'
  <2>1. StartupAlone'
    BY <1>1 DEF Fetch
  <2>2. OwnStorage'
    BY <1>1 DEF Fetch
  <2>. QED
    BY <2>1, <2>2
<1>2. ASSUME NEW t \in Threads, LookupHit(t)
      PROVE  StartupAlone' /\ OwnStorage'
  <2>1. StartupAlone'
    BY <1>2 DEF LookupHit
  <2>2. OwnStorage'
    BY <1>2 DEF LookupHit
  <2>. QED
    BY <2>1, <2>2
<1>3. ASSUME NEW t \in Threads, LookupMiss(t)
      PROVE  StartupAlone' /\ OwnStorage'
  <2>1. StartupAlone'
    BY <1>3 DEF LookupMiss
  <2>2. OwnStorage'
    BY <1>3 DEF LookupMiss
  <2>. QED
    BY <2>1, <2>2
<1>4. ASSUME NEW t \in Threads, ConstructSlot(t)
      PROVE  StartupAlone' /\ OwnStorage'
  <2>1. StartupAlone'
    BY <1>4 DEF ConstructSlot
  <2>2. OwnStorage'
    BY <1>4 DEF ConstructSlot
  <2>. QED
    BY <2>1, <2>2
<1>5. ASSUME NEW t \in Threads, ConstructDone(t)
      PROVE  StartupAlone' /\ OwnStorage'
  <2>1. StartupAlone'
    BY <1>5 DEF ConstructDone
  <2>2. OwnStorage'
    BY <1>5 DEF ConstructDone
  <2>. QED
    BY <2>1, <2>2
<1>6. ASSUME NEW t \in Threads, EndHandler(t)
      PROVE  StartupAlone' /\ OwnStorage'
  <2>1. StartupAlone'
    BY <1>6 DEF EndHandler
  <2>2. OwnStorage'
    BY <1>6 DEF EndHandler
  <2>. QED
    BY <2>1, <2>2
<1>7. ASSUME NEW t \in Threads, LoadStorage(t)
      PROVE  StartupAlone' /\ OwnStorage'
  <2>1. StartupAlone'
    BY <1>7 DEF LoadStorage
  <2>2. OwnStorage'
    BY <1>7 DEF LoadStorage
  <2>. QED
    BY <2>1, <2>2
<1>8. ASSUME NEW t \in Threads, ReadSlot(t)
      PROVE  StartupAlone' /\ OwnStorage'
  <2>1. StartupAlone'
    BY <1>8 DEF ReadSlot
  <2>2. OwnStorage'
    BY <1>8 DEF ReadSlot
  <2>. QED
    BY <2>1, <2>2
<1>9. ASSUME NEW t \in Threads, NEW u \in Threads, EnlargeStorage(t, u)
      PROVE  StartupAlone' /\ OwnStorage'
  <2>1. StartupAlone'
    BY <1>9 DEF EnlargeStorage, Invalidate, ReadsFrom
  <2>2. OwnStorage'
    BY <1>9 DEF EnlargeStorage, Invalidate, ReadsFrom
  <2>. QED
    BY <2>1, <2>2
<1>10. ASSUME NEW t \in Threads, NEW u \in Threads, FillStorage(t, u)
      PROVE  StartupAlone' /\ OwnStorage'
  <2>1. StartupAlone'
    BY <1>10 DEF FillStorage
  <2>2. OwnStorage'
    BY <1>10 DEF FillStorage
  <2>. QED
    BY <2>1, <2>2
<1>11. ASSUME NEW t \in Threads, AllocateDone(t)
      PROVE  StartupAlone' /\ OwnStorage'
  <2>1. StartupAlone'
    BY <1>11 DEF AllocateDone
  <2>2. OwnStorage'
    BY <1>11 DEF AllocateDone
  <2>. QED
    BY <2>1, <2>2
<1>12. ASSUME NEW t \in Threads, FreeThread(t)
      PROVE  StartupAlone' /\ OwnStorage'
  <2>1. StartupAlone'
    BY <1>12 DEF FreeThread, Invalidate, InvalidateEntry, ReadsFrom
  <2>2. OwnStorage'
    BY <1>12 DEF FreeThread, Invalidate, InvalidateEntry, ReadsFrom
  <2>. QED
    BY <2>1, <2>2
<1>13. ASSUME NEW t \in Threads, AllocateId(t)
      PROVE  StartupAlone' /\ OwnStorage'
  <2>1. StartupAlone'
    BY <1>13 DEF AllocateId
  <2>2. OwnStorage'
    BY <1>13 DEF AllocateId
  <2>. QED
    BY <2>1, <2>2
<1>14. ASSUME StartServing
      PROVE  StartupAlone' /\ OwnStorage'
  <2>1. StartupAlone'
    BY <1>14 DEF StartServing
  <2>2. OwnStorage'
    BY <1>14 DEF StartServing
  <2>. QED
    BY <2>1, <2>2
<1>15. ASSUME UNCHANGED vars
      PROVE  StartupAlone' /\ OwnStorage'
  <2>1. StartupAlone'
    BY <1>15 DEF vars
  <2>2. OwnStorage'
    BY <1>15 DEF vars
  <2>. QED
    BY <2>1, <2>2
<1>. QED
  BY <1>1, <1>2, <1>3, <1>4, <1>5, <1>6, <1>7, <1>8, <1>9, <1>10, <1>11, <1>12, <1>13, <1>14, <1>15
     DEF Next, InResource, InAllocate

\* The inductive invariant holds throughout.
THEOREM InvCorrect == ASSUME IdsAtStartup PROVE Spec => []IInv
<1>1. ASSUME Init PROVE IInv
  <2>1. WriterInv
    <3>1. LockedWriters
      BY <1>1, ThreadAssumption DEF Init, LockedWriters
    <3>2. EntryComplete
      BY <1>1 DEF Init, EntryComplete
    <3>. QED
      BY <1>1, <3>1, <3>2, TypeInit DEF WriterInv
  <2>2. StartupAlone
    BY <1>1 DEF Init, StartupAlone
  <2>3. ASSUME NEW t \in Workers
        PROVE  call[t].of = t /\ call[t].id <= id_count
    <3>1. t \in Threads
      BY DEF Workers
    <3>2. call[t] = NoCall(t) /\ id_count = 0
      BY <1>1, <3>1 DEF Init
    <3>3. NoCall(t).id = 0 /\ NoCall(t).of = t
      BY DEF NoCall
    <3>4. call[t].id <= id_count
      <4>1. call[t].id = 0
        BY <3>2, <3>3
      <4>. QED
        BY <4>1, <3>2
    <3>. QED
      BY <3>2, <3>3, <3>4
  <2>4. OwnStorage
    BY <1>1, <2>3 DEF Init, OwnStorage, Workers
  <2>. QED
    BY <2>1, <2>2, <2>4 DEF IInv
<1>2. IInv /\ [Next]_vars => IInv'
  BY IdsAtStartup, InvStep
<1>. QED
  BY <1>1, <1>2, PTL DEF Spec

\* The lock-free read: no thread that asks for its own slots ever reads one from a
\* freed or moved array, outside the array, or before its constructor has run.
THEOREM SoundReads == ASSUME IdsAtStartup PROVE Spec => []SoundRead
<1>1. ASSUME IInv PROVE SoundRead
  <2> SUFFICES ASSUME NEW t \in Workers, pc[t] = "read"
               PROVE  /\ ReadsFrom(t) \in known
                      /\ call[t].id > 0 =>
                           held[t] = "live" /\ call[t].id <= entry[ReadsFrom(t)].built
    BY DEF SoundRead
  <2>1. t \in Threads /\ t \in known /\ ReadsFrom(t) = t
    BY <1>1 DEF IInv, OwnStorage, ReadsFrom, Workers
  <2>2. ~ \E u \in Threads : pc[u] = "enlarge"
    <3>1. t = Main \/ serving
      BY <1>1, <2>1 DEF IInv, StartupAlone
    <3>2. ASSUME NEW u \in Threads, pc[u] = "enlarge" PROVE FALSE
      BY <1>1, <2>1, <3>1, <3>2 DEF IInv, StartupAlone
    <3>. QED
      BY <3>2
  <2>3. ~ \E s \in Threads : pc[s] = "construct" /\ call[s].of = t
    BY <1>1, <2>1 DEF IInv, OwnStorage
  <2>4. Full(t)
    BY <1>1, <2>1, <2>2, <2>3 DEF IInv, WriterInv, EntryComplete
  <2>. QED
    BY <1>1, <2>1, <2>4 DEF IInv, WriterInv, TypeOK, OwnStorage, Full
<1>. QED
  BY <1>1, InvCorrect, IdsAtStartup, PTL

\* No thread ever holds a pointer to another thread's entry, except a timer.
THEOREM OwnEntries == ASSUME IdsAtStartup PROVE Spec => []OwnEntry
<1>1. IInv => OwnEntry
  BY DEF IInv, OwnStorage, OwnEntry
<1>. QED
  BY <1>1, InvCorrect, IdsAtStartup, PTL
-----------------------------------------------------------------------------
\* A new entry is linked to the end of its chain.
LEMMA LinkChain ==
  ASSUME ChainInv, NEW t \in Threads, LookupMiss(t)
  PROVE  Chains' /\ Acyclic'
<1> DEFINE u == call[t].of
<1>1. u \in Threads /\ u \notin known /\ known \subseteq Threads /\ Nobody \notin Threads
  BY ThreadAssumption DEF ChainInv, TypeOK, LookupMiss
<1>2. PICK v \in ChainEnd(u) : pred' = [pred EXCEPT ![u] = v]
  BY DEF LookupMiss
<1>3. known' = known \cup {u}
  BY DEF LookupMiss
<1>4. pred'[u] = v /\ \A w \in Threads \ {u} : pred'[w] = pred[w]
  BY <1>1, <1>2 DEF ChainInv, TypeOK
<1>5. \/ Bucket(u) = {} /\ v = Nobody
      \/ v \in Bucket(u) /\ \A w \in known : pred[w] # v
  BY <1>2 DEF ChainEnd
<1>6. \A w \in known : /\ pred[w] \in (Bucket(w) \ {w}) \cup {Nobody}
                       /\ \A x \in Bucket(w) \ {w} : pred[x] # pred[w]
                       /\ \E x \in Bucket(w) : pred[x] = Nobody
  BY DEF ChainInv, Chains
<1>7. \A w : Bucket(w)' = IF THREAD_HASH_OF(u) = THREAD_HASH_OF(w)
                            THEN Bucket(w) \cup {u} ELSE Bucket(w)
  BY <1>3 DEF Bucket
<1>8. \A w : Bucket(w) = {x \in known : THREAD_HASH_OF(x) = THREAD_HASH_OF(w)}
  BY DEF Bucket
<1> HIDE DEF u
<1>9. Chains'
  <2> SUFFICES ASSUME NEW w \in known'
               PROVE  /\ pred'[w] \in (Bucket(w)' \ {w}) \cup {Nobody}
                      /\ \A x \in Bucket(w)' \ {w} : pred'[x] # pred'[w]
                      /\ \E x \in Bucket(w)' : pred'[x] = Nobody
    BY DEF Chains
  <2>1. pred'[w] \in (Bucket(w)' \ {w}) \cup {Nobody}
    BY <1>1, <1>3, <1>4, <1>5, <1>6, <1>7, <1>8
  <2>2. \A x \in Bucket(w)' \ {w} : pred'[x] # pred'[w]
    BY <1>1, <1>3, <1>4, <1>5, <1>6, <1>7, <1>8
  <2>3. \E x \in Bucket(w)' : pred'[x] = Nobody
    <3>1. CASE Bucket(w) = {}
      <4>1. w = u /\ u \in Bucket(w)'
        BY <3>1, <1>3, <1>7, <1>8
      <4>. QED
        BY <4>1, <3>1, <1>4, <1>5
    <3>2. CASE Bucket(w) # {}
      <4>1. PICK y \in known : THREAD_HASH_OF(y) = THREAD_HASH_OF(w)
        BY <3>2, <1>8
      <4>2. PICK x \in Bucket(y) : pred[x] = Nobody
        BY <4>1, <1>6
      <4>. QED
        BY <4>1, <4>2, <1>1, <1>4, <1>7, <1>8
    <3>. QED
      BY <3>1, <3>2
  <2>. QED
    BY <2>1, <2>2, <2>3
<1>10. Acyclic'
  <2> SUFFICES ASSUME NEW S \in SUBSET known', S # {}
               PROVE  \E w \in S : pred'[w] \notin S
    BY DEF Acyclic
  <2>1. v # u
    BY <1>1, <1>5, <1>8
  <2>2. CASE S \ {u} = {}
    <3>1. S = {u}
      BY <2>2
    <3>. QED
      BY <3>1, <2>1, <1>4
  <2>3. CASE S \ {u} # {}
    <3>1. PICK w \in S \ {u} : pred[w] \notin S \ {u}
      BY <2>3, <1>3 DEF ChainInv, Acyclic
    <3>2. w \in known /\ pred[w] # u
      BY <3>1, <1>1, <1>3, <1>6, <1>8
    <3>. QED
      BY <3>1, <3>2, <1>1, <1>4
  <2>. QED
    BY <2>2, <2>3
<1>. QED
  BY <1>9, <1>10

\* Whatever entry is unlinked, its chain stays one chain.
LEMMA UnlinkChain ==
  ASSUME ChainInv, NEW t \in Threads, FreeThread(t)
  PROVE  Chains' /\ Acyclic'
<1>1. known \subseteq Threads /\ t \in known /\ Nobody \notin Threads
  BY ThreadAssumption DEF ChainInv, TypeOK, FreeThread
<1>2. known' = known \ {t}
  BY DEF FreeThread
<1>3. \A w \in known' : pred'[w] = IF pred[w] = t THEN pred[t] ELSE pred[w]
  BY <1>1, <1>2 DEF FreeThread, Unlink
<1>4. \A w \in known : /\ pred[w] \in (Bucket(w) \ {w}) \cup {Nobody}
                       /\ \A x \in Bucket(w) \ {w} : pred[x] # pred[w]
  BY DEF ChainInv, Chains
<1>5. \A w : Bucket(w)' = Bucket(w) \ {t}
  BY <1>2 DEF Bucket
<1>6. \A w : Bucket(w) = {x \in known : THREAD_HASH_OF(x) = THREAD_HASH_OF(w)}
  BY DEF Bucket
<1>7. Acyclic'
  <2> SUFFICES ASSUME NEW S \in SUBSET known', S # {}
               PROVE  \E w \in S : pred'[w] \notin S
    BY DEF Acyclic
  <2>1. CASE \A w \in S : pred[w] # t
    <3>1. PICK w \in S : pred[w] \notin S
      BY <1>2 DEF ChainInv, Acyclic
    <3>. QED
      BY <3>1, <2>1, <1>3
  <2>2. CASE \E w \in S : pred[w] = t
    <3>1. PICK x \in S : pred[x] = t
      BY <2>2
    <3>2. PICK w \in S \cup {t} : pred[w] \notin S \cup {t}
      <4>1. S \cup {t} \in SUBSET known /\ S \cup {t} # {}
        BY <1>1, <1>2
      <4>. QED
        BY <4>1 DEF ChainInv, Acyclic
    <3>3. CASE w = t
      BY <3>1, <3>2, <3>3, <1>3
    <3>4. CASE w # t
      BY <3>2, <3>4, <1>3
    <3>. QED
      BY <3>3, <3>4
  <2>. QED
    BY <2>1, <2>2
<1>8. \A w \in known' : pred'[w] \in (Bucket(w)' \ {w}) \cup {Nobody}
  <2> SUFFICES ASSUME NEW w \in known'
               PROVE  pred'[w] \in (Bucket(w)' \ {w}) \cup {Nobody}
    OBVIOUS
  <2>1. pred'[w] # w
    <3>1. \E x \in {w} : pred'[x] \notin {w}
      BY <1>7 DEF Acyclic
    <3>. QED
      BY <3>1
  <2>. QED
    BY <2>1, <1>1, <1>2, <1>3, <1>4, <1>5, <1>6
<1>9. \A w \in known' : \A x \in Bucket(w)' \ {w} : pred'[x] # pred'[w]
  BY <1>1, <1>2, <1>3, <1>4, <1>5, <1>6
<1>10. \A w \in known' : \E x \in Bucket(w)' : pred'[x] = Nobody
  <2> SUFFICES ASSUME NEW w \in known'
               PROVE  \E x \in Bucket(w)' : pred'[x] = Nobody
    OBVIOUS
  <2>1. w \in Bucket(w)' /\ Bucket(w)' \in SUBSET known'
    BY <1>2, <1>5, <1>6
  <2>2. PICK x \in Bucket(w)' : pred'[x] \notin Bucket(w)'
    BY <2>1, <1>7 DEF Acyclic
  <2>3. Bucket(x)' = Bucket(w)'
    BY <2>2, <1>5, <1>6
  <2>. QED
    BY <2>1, <2>2, <2>3, <1>8
<1>. QED
  BY <1>7, <1>8, <1>9, <1>10 DEF Chains

\* Every step keeps the chains whole.
LEMMA ChainStep == ChainInv /\ [Next]_vars => ChainInv'
<1> SUFFICES ASSUME ChainInv, [Next]_vars PROVE ChainInv'
  OBVIOUS
<1>1. TypeOK'
  BY TypeStep DEF ChainInv
<1>2. ASSUME UNCHANGED <<known, pred>> PROVE Chains' /\ Acyclic'
  BY <1>2 DEF ChainInv, Chains, Acyclic, Bucket
<1>3. ASSUME NEW t \in Threads, LookupMiss(t) PROVE Chains' /\ Acyclic'
  BY <1>3, LinkChain
<1>4. ASSUME NEW t \in Threads, FreeThread(t) PROVE Chains' /\ Acyclic'
  BY <1>4, UnlinkChain
<1>5. \/ UNCHANGED <<known, pred>>
      \/ \E t \in Threads : LookupMiss(t) \/ FreeThread(t)
  <2>1. ASSUME NEW t \in Threads, InResource(t)
        PROVE  UNCHANGED <<known, pred>> \/ LookupMiss(t)
    BY <2>1 DEF InResource, LookupHit, ConstructSlot, ConstructDone, EndHandler,
                LoadStorage, ReadSlot
  <2>2. ASSUME NEW t \in Threads, InAllocate(t) \/ AllocateId(t)
        PROVE  UNCHANGED <<known, pred>>
    BY <2>2 DEF InAllocate, EnlargeStorage, FillStorage, AllocateDone, AllocateId
  <2>3. ASSUME NEW t \in Threads, NEW u \in Threads, NEW id \in 0..id_count,
               Fetch(t, id, u)
        PROVE  UNCHANGED <<known, pred>>
    BY <2>3 DEF Fetch
  <2>4. StartServing \/ UNCHANGED vars => UNCHANGED <<known, pred>>
    BY DEF StartServing, vars
  <2>. QED
    BY <2>1, <2>2, <2>3, <2>4 DEF Next
<1>. QED
  BY <1>1, <1>2, <1>3, <1>4, <1>5 DEF ChainInv

\* Threads may start and end in any order: a walk from the table meets each
\* entry of the chain once, in every build.
THEOREM ChainsWhole == Spec => []Chains
<1>1. Init => ChainInv
  <2> SUFFICES ASSUME Init PROVE ChainInv
    OBVIOUS
  <2>1. known = {}
    BY DEF Init
  <2>. QED
    BY <2>1, TypeInit DEF ChainInv, Chains, Acyclic
<1>2. ChainInv => Chains
  BY DEF ChainInv
<1>. QED
  BY <1>1, <1>2, ChainStep, PTL DEF Spec
=============================================================================
