------------------------------- MODULE SysVSem -------------------------------
(***************************************************************************)
(* ext/sysvsem/sysvsem.c: the counting semaphores of PHP scripts, shared   *)
(* by server processes.  Each is a System V set of three kernel            *)
(* semaphores: SEM has the free permits, USAGE counts the handles, and     *)
(* SETVAL serializes the part of sem_get() that gives SEM its first value. *)
(*                                                                         *)
(* The processes share one key.  A process serves one request after the    *)
(* other, a request may hit max_execution_time between any two steps, and  *)
(* a process may end at any moment; the kernel then undoes its operations  *)
(* semaphore by semaphore, as the comment at 218-225 has it.  EINTR is a   *)
(* retry of the same semop().                                              *)
(***************************************************************************)
EXTENDS Integers, FiniteSets, FiniteSetsExt, Functions

CONSTANTS
  Processes,    \* server processes; one that ends is replaced
  MaxAcquire,   \* the max_acquire every script passes
  Handles,      \* resource ids of a request, in the order they are handed out
  MaxSets       \* bound on the kernel sets made for the key

ASSUME SemAssumption ==
  /\ MaxAcquire \in Nat \ {0} /\ MaxSets \in Nat
  /\ Handles \subseteq Nat \ {0}
  /\ IsFiniteSet(Processes) /\ IsFiniteSet(Handles)

VARIABLES
  semid,    \* number of the latest kernel set of the key
  exists,   \* it has not been removed
  val,      \* the values of its semaphores
  undo,     \* the SEM_UNDO adjustments of each process for it
  handle,   \* the sysvsem_sem of each handle: its set and its count
  pc,       \* where each process is
  at,       \* the set or the handle it works on
  mishap    \* what has happened that sysvsem.c does not guard against

vars == <<semid, exists, val, undo, handle, pc, at, mishap>>

Sems     == {"SEM", "USAGE", "SETVAL"}
Zero     == [s \in Sems |-> 0]
NoHandle == [semid |-> 0, count |-> 0]

Init ==
  /\ semid = 0 /\ exists = FALSE /\ val = Zero
  /\ undo   = [p \in Processes |-> Zero]
  /\ handle = [p \in Processes |-> [h \in Handles |-> NoHandle]]
  /\ pc = [p \in Processes |-> "idle"] /\ at = [p \in Processes |-> 0]
  /\ mishap = {}

Open(p)  == {h \in Handles : handle[p][h] # NoHandle}
Valid(i) == exists /\ i = semid

-----------------------------------------------------------------------------
\* The adjustments a call of semop() makes to the three semaphores.
Ops(sem, usage, setval) == [SEM |-> sem, USAGE |-> usage, SETVAL |-> setval]

\* The kernel: an atomic semop() with SEM_UNDO on the set of the key.
Semop(p, op) ==
  /\ \A s \in Sems : val[s] + op[s] >= 0
  /\ val'  = [s \in Sems |-> val[s] + op[s]]
  /\ undo' = [undo EXCEPT ![p] = [s \in Sems |-> @[s] - op[s]]]

kernel == <<semid, exists, val, undo>>
Goto(p, l) == pc' = [pc EXCEPT ![p] = l]
NoMishap   == UNCHANGED mishap

(***************************************************************************)
(* sem_get()                                                               *)
(***************************************************************************)
\* semget(key, 3, perm|IPC_CREAT)
SemGet(p) ==
  /\ pc[p] = "idle" /\ Open(p) # Handles
  /\ IF exists THEN UNCHANGED kernel
     ELSE /\ semid < MaxSets /\ semid' = semid + 1 /\ exists' = TRUE
          /\ val' = Zero /\ undo' = [q \in Processes |-> Zero]
  /\ at' = [at EXCEPT ![p] = semid'] /\ Goto(p, "enter")
  /\ UNCHANGED handle /\ NoMishap

\* Mutant: waits for SETVAL to be zero, but does not raise it.
Enter_open(p) ==
  /\ pc[p] = "enter" /\ Goto(p, "getval")
  /\ IF Valid(at[p]) THEN val["SETVAL"] = 0 /\ Semop(p, Ops(0, 1, 0))
     ELSE UNCHANGED <<val, undo>>
  /\ UNCHANGED <<semid, exists, handle, at>> /\ NoMishap

\* Wait for SETVAL to be zero, raise it, raise USAGE; a warning if the set is gone.
Enter(p) ==
  /\ pc[p] = "enter" /\ Goto(p, "getval")
  /\ IF Valid(at[p]) THEN val["SETVAL"] = 0 /\ Semop(p, Ops(0, 1, 1))
     ELSE UNCHANGED <<val, undo>>
  /\ UNCHANGED <<semid, exists, handle, at>> /\ NoMishap

GetVal(p) ==
  /\ pc[p] = "getval"
  /\ Goto(p, IF Valid(at[p]) /\ val["USAGE"] = 1 THEN "setmax" ELSE "leave")
  /\ UNCHANGED <<kernel, handle, at>> /\ NoMishap

\* SETVAL of SEM; the kernel drops every process's adjustment of it.
SetMax(p) ==
  /\ pc[p] = "setmax" /\ Goto(p, "leave")
  /\ IF Valid(at[p])
       THEN /\ val'  = [val EXCEPT !["SEM"] = MaxAcquire]
            /\ undo' = [q \in Processes |-> [undo[q] EXCEPT !["SEM"] = 0]]
       ELSE UNCHANGED <<val, undo>>
  /\ UNCHANGED <<semid, exists, handle, at>> /\ NoMishap

\* The resource id that the next handle gets.
Unused(p) == {h \in Handles \ Open(p) : \A g \in Handles \ Open(p) : h <= g}

\* Mutant: SETVAL is not lowered.
Leave_shut(p) ==
  /\ pc[p] = "leave" /\ Goto(p, "idle")
  /\ UNCHANGED <<val, undo>>
  /\ \E h \in Unused(p) :
       handle' = [handle EXCEPT ![p][h] = [semid |-> at[p], count |-> 0]]
  /\ at' = [at EXCEPT ![p] = 0] /\ UNCHANGED <<semid, exists>> /\ NoMishap

\* Lower SETVAL, make the handle.
Leave(p) ==
  /\ pc[p] = "leave" /\ Goto(p, "idle")
  /\ IF Valid(at[p]) THEN Semop(p, Ops(0, 0, -1)) ELSE UNCHANGED <<val, undo>>
  /\ \E h \in Unused(p) :
       handle' = [handle EXCEPT ![p][h] = [semid |-> at[p], count |-> 0]]
  /\ at' = [at EXCEPT ![p] = 0] /\ UNCHANGED <<semid, exists>> /\ NoMishap

-----------------------------------------------------------------------------
(***************************************************************************)
(* sem_acquire(), sem_release(), sem_remove()                              *)
(***************************************************************************)
\* A script that waits for a semaphore it holds waits for itself: scripts don't.
SemAcquire(p, h) ==
  /\ pc[p] = "idle" /\ h \in Open(p)
  /\ \A g \in Open(p) : handle[p][g].count <= 0
  /\ Goto(p, "acquire") /\ at' = [at EXCEPT ![p] = h]
  /\ UNCHANGED <<kernel, handle>> /\ NoMishap

\* semop(), which waits for a permit; FALSE if the set has been removed.
Acquire(p) ==
  /\ pc[p] = "acquire"
  /\ IF Valid(handle[p][at[p]].semid)
       THEN Semop(p, Ops(-1, 0, 0)) /\ Goto(p, "acquired") /\ UNCHANGED at
       ELSE UNCHANGED <<val, undo>> /\ Goto(p, "idle") /\ at' = [at EXCEPT ![p] = 0]
  /\ UNCHANGED <<semid, exists, handle>> /\ NoMishap

\* Mutant: does not look at the count.
SemRelease_uncounted(p, h) ==
  /\ pc[p] = "idle" /\ h \in Open(p) /\ Valid(handle[p][h].semid)
  /\ Semop(p, Ops(1, 0, 0)) /\ Goto(p, "released") /\ at' = [at EXCEPT ![p] = h]
  /\ UNCHANGED <<semid, exists, handle>> /\ NoMishap

SemRelease(p, h) ==
  /\ pc[p] = "idle" /\ h \in Open(p) /\ Valid(handle[p][h].semid)
  /\ handle[p][h].count # 0
  /\ Semop(p, Ops(1, 0, 0)) /\ Goto(p, "released") /\ at' = [at EXCEPT ![p] = h]
  /\ UNCHANGED <<semid, exists, handle>> /\ NoMishap

\* sem_ptr->count follows the semop().
Count(p) ==
  /\ pc[p] \in {"acquired", "released"} /\ Goto(p, "idle")
  /\ handle' = [handle EXCEPT ![p][at[p]] =
                  [semid |-> @.semid,
                   count |-> IF pc[p] = "acquired" THEN @.count + 1 ELSE @.count - 1]]
  /\ at' = [at EXCEPT ![p] = 0] /\ UNCHANGED kernel /\ NoMishap

SemRemove(p, h) ==
  /\ pc[p] = "idle" /\ h \in Open(p) /\ Valid(handle[p][h].semid)
  /\ exists' = FALSE /\ val' = Zero /\ undo' = [q \in Processes |-> Zero]
  /\ handle' = [handle EXCEPT ![p][h].count = -1]
  /\ UNCHANGED <<semid, pc, at>> /\ NoMishap

-----------------------------------------------------------------------------
(***************************************************************************)
(* The end of a request: release_sysvsem_sem() of every handle.            *)
(***************************************************************************)
RequestEnd(p) ==
  /\ pc[p] = "idle" /\ Open(p) # {} /\ Goto(p, "cleanup")
  /\ UNCHANGED <<kernel, handle, at>> /\ NoMishap

\* Resources are destroyed in the reverse order of their creation.
Last(p) == {h \in Open(p) : \A g \in Open(p) : g <= h}

\* Mutant: the handle stays in use.
Cleanup_uses(p) ==
  \E h \in Last(p) : LET c == handle[p][h].count IN
    /\ pc[p] = "cleanup"
    /\ IF Valid(handle[p][h].semid) /\ c # -1 THEN Semop(p, Ops(c, 0, 0))
       ELSE UNCHANGED <<val, undo>>
    /\ handle' = [handle EXCEPT ![p][h] = NoHandle]
    /\ UNCHANGED <<semid, exists, pc, at>> /\ NoMishap

Cleanup(p) ==
  \E h \in Last(p) : LET c == handle[p][h].count IN
    /\ pc[p] = "cleanup"
    /\ IF Valid(handle[p][h].semid) /\ c # -1
         THEN Semop(p, Ops(c, -1, 0)) ELSE UNCHANGED <<val, undo>>
    /\ handle' = [handle EXCEPT ![p][h] = NoHandle]
    /\ UNCHANGED <<semid, exists, pc, at>> /\ NoMishap

CleanupDone(p) ==
  /\ pc[p] = "cleanup" /\ Open(p) = {} /\ Goto(p, "idle")
  /\ UNCHANGED <<kernel, handle, at>> /\ NoMishap

\* The first thing that goes wrong is enough: MaxMishaps = 1.
MaxMishaps == 1
Suffer(m) == /\ m # {} => Cardinality(mishap) < MaxMishaps
             /\ mishap' = mishap \cup m

\* zend_timeout() longjmps out of the function that runs.
Timeout(p) ==
  /\ pc[p] \notin {"idle", "cleanup", "exit"} /\ Goto(p, "cleanup")
  /\ at' = [at EXCEPT ![p] = 0] /\ UNCHANGED <<kernel, handle>>
  /\ Suffer(IF pc[p] \in {"enter", "acquire"} THEN {} ELSE {"timeout"})

\* The process ends: killed, crashed, or MaxRequestsPerChild.
Exit(p) ==
  /\ pc[p] # "exit" /\ Goto(p, "exit")
  /\ handle' = [handle EXCEPT ![p] = [h \in Handles |-> NoHandle]]
  /\ at' = [at EXCEPT ![p] = 0] /\ UNCHANGED kernel
  /\ Suffer(IF pc[p] \in {"getval", "setmax"} THEN {"exit"} ELSE {})

\* The kernel applies its adjustments, one semaphore at a time.
Undo(p) ==
  /\ pc[p] = "exit" /\ undo[p] # Zero
  /\ \E s \in Sems :
       /\ undo[p][s] # 0
       /\ val'  = [val EXCEPT ![s] = Max({0, @ + undo[p][s]})]
       /\ undo' = [undo EXCEPT ![p][s] = 0]
  /\ UNCHANGED <<semid, exists, handle, pc, at>> /\ NoMishap

Fork(p) ==
  /\ pc[p] = "exit" /\ undo[p] = Zero /\ Goto(p, "idle")
  /\ UNCHANGED <<kernel, handle, at>> /\ NoMishap

-----------------------------------------------------------------------------
Script(p) == \/ SemGet(p) \/ RequestEnd(p)
             \/ \E h \in Handles : SemAcquire(p, h) \/ SemRelease(p, h) \/ SemRemove(p, h)
Runs(p)   == \/ Enter(p) \/ GetVal(p) \/ SetMax(p) \/ Leave(p) \/ Acquire(p)
             \/ Count(p) \/ Cleanup(p) \/ CleanupDone(p) \/ Undo(p) \/ Fork(p)

Next == \E p \in Processes : Script(p) \/ Runs(p) \/ Timeout(p) \/ Exit(p)
Spec == Init /\ [][Next]_vars

\* A process runs on, its requests end, and the kernel serves the processes that
\* wait for a semaphore in turn.
Fairness == \A p \in Processes :
  WF_vars(Runs(p)) /\ WF_vars(RequestEnd(p)) /\ SF_vars(Enter(p)) /\ SF_vars(Acquire(p))
FairSpec == Spec /\ Fairness

-----------------------------------------------------------------------------
TypeOK ==
  /\ semid \in 0..MaxSets /\ exists \in BOOLEAN
  /\ val \in [Sems -> Nat] /\ undo \in [Processes -> [Sems -> Int]]
  /\ handle \in [Processes -> [Handles ->
                   [semid : 0..MaxSets, count : Nat \cup {-1}]]]
  /\ pc \in [Processes -> {"idle", "enter", "getval", "setmax", "leave", "acquire",
                           "acquired", "released", "cleanup", "exit"}]
  /\ at \in [Processes -> Nat]
  /\ mishap \subseteq {"timeout", "exit"}

InUse == {x \in Processes \X Handles :
            handle[x[1]][x[2]].semid = semid /\ handle[x[1]][x[2]].count >= 0}
InFunction(ls) == {p \in Processes : pc[p] \in ls}
Getting == {p \in InFunction({"getval", "setmax", "leave"}) : at[p] = semid}
Working(l) == {p \in InFunction({l}) : handle[p][at[p]].semid = semid}

Counts      == [x \in Processes \X Handles |-> handle[x[1]][x[2]].count]
Counted(ps) == SumFunctionOnSet(Counts, {x \in InUse : x[1] \in ps})

\* The permits running scripts have: those their handles count, corrected by the
\* steps that are not counted yet.
Held == Counted(Processes \ InFunction({"cleanup"}))
        + Cardinality(Working("acquired")) - Cardinality(Working("released"))

\* What the kernel still owes to semaphore s for processes that have ended.
Undos(s) == [p \in Processes |-> undo[p][s]]
Owed(s)  == SumFunctionOnSet(Undos(s), InFunction({"exit"}))

\* "allow max_acquire processes to acquire it simultaneously" (157): no more permits
\* are held than there are, through crashes and removals, as long as no timeout has
\* hit between a semop() and the count of it.
PermitsBounded == "timeout" \notin mishap /\ exists => Held <= MaxAcquire

\* USAGE counts the handles in use and the calls of sem_get() about to make one:
\* the test for 1 that decides who sets SEM depends on it.
UsageExact ==
  "timeout" \notin mishap /\ exists =>
    val["USAGE"] + Owed("USAGE") = Cardinality(InUse) + Cardinality(Getting)

\* Once sem_get() has returned to anybody, every permit is free, held, or about to
\* be given back for a process that has ended: none is lost, although the first
\* value of SEM is set by whoever finds itself alone, which USAGE tells it.
PermitsExact ==
  /\ UsageExact
  /\ mishap = {} /\ exists /\ (InUse # {} \/ InFunction({"leave"}) \cap Getting # {}) =>
       val["SEM"] + Held + Counted(InFunction({"cleanup"})) + Owed("SEM") = MaxAcquire

\* One process at a time is in the part of sem_get() that gives SEM its first
\* value, through crashes, timeouts and removals.
Serialized == exists => \A p, q \in Getting : p = q

-----------------------------------------------------------------------------
(***************************************************************************)
(* The inductive invariant in Counting_proofs.                             *)
(***************************************************************************)
\* What a process works on, as its place says.
Placed ==
  \A p \in Processes :
    /\ pc[p] \in {"enter", "getval", "setmax", "leave"} => at[p] \in 1..semid
    /\ pc[p] \in {"acquire", "acquired", "released"} => at[p] \in Handles
    /\ pc[p] = "acquired" => handle[p][at[p]].count >= 0
    /\ pc[p] = "released" => handle[p][at[p]].count >= 1

\* Handles are of sets that have been made; sem_remove() of one leaves no set.
HandlesMade ==
  /\ exists => semid >= 1
  /\ \A p \in Processes, h \in Handles :
       /\ handle[p][h].semid <= semid
       /\ Valid(handle[p][h].semid) => handle[p][h].count >= 0

\* SETVAL is raised by at most one process, alive or not, which owes the kernel
\* the opposite.
Raised(p) == undo[p]["SETVAL"] # 0
OneRaises ==
  /\ \A p \in Processes : undo[p]["SETVAL"] \in {0, -1}
  /\ \A p, q \in Processes : Raised(p) /\ Raised(q) => p = q
  /\ val["SETVAL"] = IF \E p \in Processes : Raised(p) THEN 1 ELSE 0
  /\ exists => \A p \in Getting : Raised(p)

SerialInv == TypeOK /\ Placed /\ HandlesMade /\ OneRaises

(***************************************************************************)
(* The part of it that counts permits and handles.                         *)
(***************************************************************************)
\* What a process has of the current set: handles, with the one a sem_get() is
\* about to make, and permits.
Of(p)  == {x \in InUse : x[1] = p}
One(b) == IF b THEN 1 ELSE 0
Got(p) == Cardinality(Of(p)) + One(p \in Getting)
Has(p) == SumFunctionOnSet(Counts, Of(p))
            + One(p \in Working("acquired")) - One(p \in Working("released"))

\* Its adjustments are the opposite: alive, exactly; ended, at least in their sign.
Balanced(p) ==
  IF pc[p] = "exit" THEN undo[p]["USAGE"] <= 0 /\ undo[p]["SEM"] >= 0
  ELSE undo[p]["USAGE"] + Got(p) = 0 /\ undo[p]["SEM"] = Has(p)

Total(s) == val[s] + SumFunctionOnSet(Undos(s), Processes)

\* Who sees USAGE at 1 is alone, and stays so up to its SETVAL of SEM.
Alone == \A p \in Getting : pc[p] = "setmax" =>
           Of(p) = {} /\ \A q \in Processes \ {p} : undo[q]["USAGE"] = 0

\* Before that nobody has a handle.
Unset == mishap = {} /\ Total("SEM") = 0 =>
           \A p \in Processes : undo[p]["USAGE"] # 0 =>
             p \in Getting /\ pc[p] \in {"getval", "setmax"} /\ Of(p) = {}

Books == /\ \A p \in Processes : Balanced(p)
         /\ Total("USAGE") = 0 /\ Total("SEM") \in {0, MaxAcquire}
         /\ Alone /\ Unset

PermitInv ==
  /\ \A p \in Processes : pc[p] = "exit" => Open(p) = {}
  /\ "timeout" \notin mishap /\ exists => Books

-----------------------------------------------------------------------------
\* Whoever waits in sem_get() or sem_acquire() goes on, whoever crashes meanwhile.
WaitsEnd ==
  \A p \in Processes, l \in {"enter", "acquire"} :
    pc[p] = l ~> (pc[p] # l \/ mishap # {})
=============================================================================
