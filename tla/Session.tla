------------------------------- MODULE Session -------------------------------
(***************************************************************************)
(* ext/session: the life of a session in a request (session.c) and its     *)
(* "files" handler (mod_files.c).  Server processes, each serving one      *)
(* request after another, share a directory with one file per session id;  *)
(* a request holds an flock() on the file from the read to the save.       *)
(*                                                                         *)
(* Each system call on a shared file is a step.  A process may crash at    *)
(* any point.  The kernel keeps an unlinked file for those who have it     *)
(* open, and drops the lock of a descriptor that is closed.                *)
(***************************************************************************)
EXTENDS Naturals, Sequences, FiniteSets

CONSTANTS
  Process,   \* server processes
  Key,       \* session ids
  Inode,     \* session files that can exist at one time
  Byte,      \* what encoded sessions are made of
  Val,       \* the encoded sessions that scripts save
  Faults,    \* the system calls that may fail: "open", "read", "write"
  None

ASSUME SessionAssumption ==
  /\ Val \subseteq Seq(Byte)
  /\ None \notin Process \cup Key \cup Inode \cup Seq(Byte)

VARIABLES
  pc,       \* where each process is
  op,       \* what it opens a file for: to read, or to save in mid-request or at its end
  ps,       \* its PS() globals and ps_files
  val,      \* the encoded session it is saving
  victim,   \* the id whose file its gc is about to unlink
  unread,   \* the directory entries its gc has not come to
  dir,      \* the file of each id
  content, owner,     \* of each file: its bytes, the process with the lock
  seen,     \* what each process has read through its descriptor
  blind     \* files last saved to by a process that had not read them, or in part

process == <<pc, op, ps, val, victim, unread>>
files   == <<dir, content, owner>>
history == <<seen, blind>>
vbls    == <<process, files, history>>

Sessions == Val \cup {<<>>}   \* a file is created empty

PsNone == [status |-> "none", id |-> None, mod |-> FALSE,
           fd |-> None, lastkey |-> None, st_size |-> 0]

Init ==
  /\ pc = [p \in Process |-> "idle"] /\ op = [p \in Process |-> "read"]
  /\ ps = [p \in Process |-> PsNone]
  /\ val = [p \in Process |-> <<>>] /\ victim = [p \in Process |-> None]
  /\ unread = [p \in Process |-> Key]
  /\ dir = [k \in Key |-> None] /\ content = [i \in Inode |-> <<>>]
  /\ owner = [i \in Inode |-> None]
  /\ seen = [p \in Process |-> None] /\ blind = {}

-----------------------------------------------------------------------------
Goto(p, l) == pc' = [pc EXCEPT ![p] = l]

InUse(i) == (\E k \in Key : dir[k] = i) \/ (\E p \in Process : ps[p].fd = i)

\* The kernel: contents c of the files that are still linked or open.
Files(c, b) ==
  /\ content' = [i \in Inode |-> IF InUse(i)' THEN c[i] ELSE <<>>]
  /\ blind' = {i \in b : InUse(i)'}

\* The locks left when p closes the files in S.
Unlock(p, S) ==
  owner' = [i \in Inode |-> IF i \in S /\ owner[i] = p THEN None ELSE owner[i]]

\* ps_files_close() as part of a larger step; ps' and dir' are the caller's.
Close(p) ==
  /\ Unlock(p, {ps[p].fd}) /\ Files(content, blind)
  /\ seen' = [seen EXCEPT ![p] = None]

\* Bytes v written from the start of a file with contents c.
Overlay(v, c) ==
  [n \in 1 .. (IF Len(v) < Len(c) THEN Len(c) ELSE Len(v)) |-> IF n <= Len(v) THEN v[n] ELSE c[n]]

(***************************************************************************)
(* The request: php_rinit_session_globals(), and its death                 *)
(***************************************************************************)
Request(p) ==
  /\ pc[p] = "idle" /\ Goto(p, "script")
  /\ UNCHANGED <<op, ps, val, victim, unread, files, history>>

Die(p) ==
  /\ Goto(p, "idle") /\ op' = [op EXCEPT ![p] = "read"]
  /\ ps' = [ps EXCEPT ![p] = PsNone]
  /\ val' = [val EXCEPT ![p] = <<>>] /\ victim' = [victim EXCEPT ![p] = None]
  /\ unread' = [unread EXCEPT ![p] = Key]
  /\ Unlock(p, Inode) /\ UNCHANGED dir /\ Files(content, blind)
  /\ seen' = [seen EXCEPT ![p] = None]

Crash(p) == pc[p] # "idle" /\ Die(p)

(***************************************************************************)
(* ps_files_open()                                                         *)
(***************************************************************************)
\* What follows the open: the read, or the write.
OpenedFor(p) == IF op[p] = "read" THEN "read" ELSE "truncate"

\* The save is over: php_session_flush(), and at the end of the request
\* php_rshutdown_session_globals().
Saved(p) ==
  /\ ps' = [ps EXCEPT ![p] = [PsNone EXCEPT !.id = IF op[p] = "close" THEN ps[p].id ELSE None]]
  /\ val' = [val EXCEPT ![p] = <<>>] /\ op' = [op EXCEPT ![p] = "read"]
  /\ Goto(p, IF op[p] = "close" THEN "script" ELSE "idle")

\* The file could not be opened: read() and write() return FAILURE, with a warning.
NotOpen(p) ==
  IF op[p] = "read" THEN Goto(p, "gc") /\ UNCHANGED <<op, ps, val>> ELSE Saved(p)

\* open(O_RDWR)
OpenExisting(p) ==
  LET k == ps[p].id IN
  /\ pc[p] = "open"
  /\ \/ /\ dir[k] # None /\ Goto(p, "flock")
        /\ ps' = [ps EXCEPT ![p].fd = dir[k], ![p].lastkey = k]
        /\ UNCHANGED <<op, val>>
     \/ dir[k] = None /\ Goto(p, "create") /\ UNCHANGED <<op, ps, val>>
     \/ "open" \in Faults /\ NotOpen(p)
  /\ UNCHANGED <<victim, unread, files, history>>

\* open(O_EXCL|O_CREAT) after ENOENT: EEXIST when another request was faster.
Create(p) ==
  LET k == ps[p].id IN
  /\ pc[p] = "create"
  /\ IF dir[k] = None
       THEN LET i == CHOOSE j \in Inode : ~InUse(j) IN
              /\ (\E j \in Inode : ~InUse(j)) /\ dir' = [dir EXCEPT ![k] = i]
              /\ ps' = [ps EXCEPT ![p].fd = i, ![p].lastkey = k]
              /\ Goto(p, "flock") /\ UNCHANGED <<op, val>>
       ELSE NotOpen(p) /\ UNCHANGED dir
  /\ UNCHANGED <<victim, unread, content, owner, history>>

\* Mutant: LOCK_SH.
Lock_shared(p) ==
  /\ pc[p] = "flock"
  /\ owner' = [owner EXCEPT ![ps[p].fd] = p] /\ Goto(p, OpenedFor(p))
  /\ UNCHANGED <<op, ps, val, victim, unread, dir, content, history>>

\* flock(LOCK_EX); a process that has the file open twice waits for itself.
Lock(p) ==
  /\ pc[p] = "flock" /\ owner[ps[p].fd] = None
  /\ owner' = [owner EXCEPT ![ps[p].fd] = p] /\ Goto(p, OpenedFor(p))
  /\ UNCHANGED <<op, ps, val, victim, unread, dir, content, history>>

(***************************************************************************)
(* php_session_start()                                                     *)
(***************************************************************************)
\* Mutant: a second session_start() is not ignored.
Start_again(p) ==
  /\ pc[p] = "script" /\ Goto(p, "open") /\ op' = [op EXCEPT ![p] = "read"]
  /\ \E k \in (IF ps[p].id = None THEN Key ELSE {ps[p].id}) :
       ps' = [ps EXCEPT ![p] = [PsNone EXCEPT !.status = "active", !.id = k, !.mod = TRUE]]
  /\ seen' = [seen EXCEPT ![p] = None]
  /\ UNCHANGED <<val, victim, unread, files, blind>>

\* The id is the script's, the request's or a new one.  open() makes a new
\* ps_files, whatever PS(mod_data) is.
Start(p) ==
  /\ pc[p] = "script" /\ ps[p].status = "none"
  /\ Goto(p, "open") /\ op' = [op EXCEPT ![p] = "read"]
  /\ \E k \in (IF ps[p].id = None THEN Key ELSE {ps[p].id}) :
       ps' = [ps EXCEPT ![p] = [PsNone EXCEPT !.status = "active", !.id = k, !.mod = TRUE]]
  /\ seen' = [seen EXCEPT ![p] = None]
  /\ UNCHANGED <<val, victim, unread, files, blind>>

\* fstat(), pread() and php_session_decode(): a damaged session may decode in
\* part, or (wddx) not at all, and is then destroyed.
Read(p) ==
  LET i == ps[p].fd IN
  /\ pc[p] = "read"
  /\ UNCHANGED <<op, val, victim, unread, dir>>
  /\ \/ /\ ps' = [ps EXCEPT ![p].st_size = Len(content[i])]
        /\ seen' = [seen EXCEPT ![p] = content[i]]
        /\ Goto(p, "gc") /\ UNCHANGED <<content, owner, blind>>
     \/ /\ content[i] \notin Sessions
        /\ ps' = [ps EXCEPT ![p].fd = None]
        /\ Goto(p, "destroy") /\ Unlock(p, {i})
        /\ content' = [j \in Inode |-> IF InUse(j)' THEN content[j] ELSE <<>>]
        /\ blind' = {j \in blind : InUse(j)'} /\ UNCHANGED seen
     \/ /\ "read" \in Faults /\ \E n \in {0, Len(content[i])} :
             ps' = [ps EXCEPT ![p].st_size = n]
        /\ Goto(p, "gc") /\ UNCHANGED <<content, owner, blind, seen>>

\* ps_files_cleanup_dir(): stat() of an entry, which may have expired by now
\* (a request may last longer than gc.maxlifetime); unlink() of it; the end.
GcStat(p, k) ==
  /\ pc[p] = "gc" /\ k \in unread[p] /\ dir[k] # None
  /\ unread' = [unread EXCEPT ![p] = @ \ {k}]
  /\ victim' = [victim EXCEPT ![p] = k] /\ Goto(p, "unlink")
  /\ UNCHANGED <<op, ps, val, files, history>>

GcUnlink(p) ==
  /\ pc[p] = "unlink" /\ dir' = [dir EXCEPT ![victim[p]] = None]
  /\ victim' = [victim EXCEPT ![p] = None] /\ Goto(p, "gc")
  /\ UNCHANGED <<op, ps, val, unread>> /\ Files(content, blind)
  /\ UNCHANGED <<owner, seen>>

GcDone(p) ==
  /\ pc[p] = "gc" /\ Goto(p, "script") /\ unread' = [unread EXCEPT ![p] = Key]
  /\ UNCHANGED <<op, ps, val, victim, files, history>>

(***************************************************************************)
(* What a script may do: session_id(k), session_module_name("files"),      *)
(* session_destroy()                                                       *)
(***************************************************************************)
SetId(p, k) ==
  /\ pc[p] = "script" /\ ps[p].id # k /\ ps' = [ps EXCEPT ![p].id = k]
  /\ UNCHANGED <<pc, op, val, victim, unread, files, history>>

\* Mutant: the file is not closed.
ModuleName_leak(p) ==
  /\ pc[p] = "script" /\ ps[p].mod
  /\ ps' = [ps EXCEPT ![p] = [@ EXCEPT !.mod = FALSE, !.fd = None,
                                       !.lastkey = None, !.st_size = 0]]
  /\ UNCHANGED <<pc, op, val, victim, unread, dir>>
  /\ Files(content, blind) /\ seen' = [seen EXCEPT ![p] = None] /\ UNCHANGED owner

ModuleName(p) ==
  /\ pc[p] = "script" /\ ps[p].mod
  /\ ps' = [ps EXCEPT ![p] = [@ EXCEPT !.mod = FALSE, !.fd = None,
                                       !.lastkey = None, !.st_size = 0]]
  /\ UNCHANGED <<pc, op, val, victim, unread, dir>> /\ Close(p)

\* Without a ps_files, ps_files_path_create() dereferences NULL.
Destroy(p) ==
  /\ pc[p] = "script" /\ ps[p].status = "active"
  /\ \/ /\ ps[p].mod /\ ps' = [ps EXCEPT ![p].fd = None] /\ Goto(p, "destroy")
        /\ UNCHANGED <<op, val, victim, unread, dir>> /\ Close(p)
     \/ ~ps[p].mod /\ Die(p)

\* unlink(), and the session's globals are shut down and initialized.
DestroyUnlink(p) ==
  /\ pc[p] = "destroy" /\ dir' = [dir EXCEPT ![ps[p].id] = None]
  /\ ps' = [ps EXCEPT ![p] = PsNone] /\ Goto(p, "script")
  /\ UNCHANGED <<op, val, victim, unread>> /\ Files(content, blind)
  /\ UNCHANGED <<owner, seen>>

(***************************************************************************)
(* php_session_flush() and php_session_save_current_state(), called by     *)
(* session_write_close() and at the end of the request                     *)
(***************************************************************************)
\* After session_module_name() there is no ps_files to write to: a warning.
WriteCloseNothing(p) ==
  /\ pc[p] = "script" /\ ps[p].status = "active" /\ ~ps[p].mod
  /\ ps' = [ps EXCEPT ![p].status = "none"]
  /\ UNCHANGED <<pc, op, val, victim, unread, files, history>>

\* The end of a request that has nothing to save.
EndNothing(p) ==
  /\ pc[p] = "script"
  /\ ps[p].status = "none" \/ ~ps[p].mod
  /\ ps' = [ps EXCEPT ![p] = PsNone] /\ Goto(p, "idle")
  /\ UNCHANGED <<op, val, victim, unread, dir>> /\ Close(p)

\* The session is encoded; write() opens the file again if it is closed or
\* the id has changed.
Flush(p, o) ==
  /\ pc[p] = "script" /\ ps[p].status = "active" /\ ps[p].mod
  /\ op' = [op EXCEPT ![p] = o] /\ UNCHANGED <<val, victim, unread, dir>>
  /\ IF ps[p].fd # None /\ ps[p].lastkey = ps[p].id
       THEN Goto(p, "truncate") /\ UNCHANGED <<ps, content, owner, history>>
       ELSE Goto(p, "open") /\ ps' = [ps EXCEPT ![p].fd = None] /\ Close(p)

\* Mutant: the file is truncated when the new data is longer.
Truncate_longer(p) ==
  /\ pc[p] = "truncate" /\ Goto(p, "pwrite")
  /\ \E v \in Val : val' = [val EXCEPT ![p] = v]
  /\ content' = IF Len(val'[p]) > ps[p].st_size
                  THEN [content EXCEPT ![ps[p].fd] = <<>>] ELSE content
  /\ UNCHANGED <<op, ps, victim, unread, dir, owner, history>>

\* ftruncate() if the data is shorter than what read() found; pwrite(); close().
Truncate(p) ==
  /\ pc[p] = "truncate" /\ Goto(p, "pwrite")
  /\ \E v \in Val : val' = [val EXCEPT ![p] = v]
  /\ content' = IF Len(val'[p]) < ps[p].st_size
                  THEN [content EXCEPT ![ps[p].fd] = <<>>] ELSE content
  /\ UNCHANGED <<op, ps, victim, unread, dir, owner, history>>

PWrite(p) ==
  LET i == ps[p].fd IN
  /\ pc[p] = "pwrite" /\ Saved(p) /\ UNCHANGED <<victim, unread, dir>>
  /\ \E n \in {Len(val[p])} \cup (IF "write" \in Faults THEN 0 .. Len(val[p]) ELSE {}) :
       Files([content EXCEPT ![i] = Overlay(SubSeq(val[p], 1, n), @)],
             IF seen[p] = None \/ n < Len(val[p]) THEN blind \cup {i} ELSE blind)
  /\ Unlock(p, {i}) /\ seen' = [seen EXCEPT ![p] = None]

-----------------------------------------------------------------------------
Step(p) == OpenExisting(p) \/ Create(p) \/ Read(p) \/ GcUnlink(p)
           \/ GcDone(p) \/ DestroyUnlink(p) \/ Truncate(p) \/ PWrite(p)
End(p)  == EndNothing(p) \/ Flush(p, "end")

Next ==
  \/ \E p \in Process : Request(p) \/ Crash(p) \/ Step(p) \/ Lock(p)
                        \/ Start(p) \/ ModuleName(p) \/ Destroy(p) \/ End(p)
                        \/ WriteCloseNothing(p) \/ Flush(p, "close")
  \/ \E p \in Process, k \in Key : GcStat(p, k) \/ SetId(p, k)

Spec == Init /\ [][Next]_vbls

\* System calls return, a script ends, and flock() serves every waiter at last.
Fairness == \A p \in Process : WF_vbls(Step(p) \/ End(p)) /\ SF_vbls(Lock(p))
FairSpec == Spec /\ Fairness

-----------------------------------------------------------------------------
Owned(p)   == {i \in Inode : owner[i] = p}
Waiting(p) == pc[p] = "flock"

Globals == [status : {"none", "active"}, id : Key \cup {None}, mod : BOOLEAN,
            fd : Inode \cup {None}, lastkey : Key \cup {None}, st_size : Nat]

ProcessTypes ==
  /\ pc \in [Process -> {"idle", "script", "open", "create", "flock", "read", "gc",
                         "unlink", "destroy", "truncate", "pwrite"}]
  /\ op \in [Process -> {"read", "close", "end"}]
  /\ ps \in [Process -> Globals]
  /\ val \in [Process -> Sessions]
  /\ victim \in [Process -> Key \cup {None}] /\ unread \in [Process -> SUBSET Key]

FileTypes ==
  /\ content \in [Inode -> Seq(Byte)] /\ owner \in [Inode -> Process \cup {None}]
  /\ seen \in [Process -> Seq(Byte) \cup {None}] /\ blind \subseteq Inode

TypeOK == ProcessTypes /\ FileTypes /\ dir \in [Key -> Inode \cup {None}]

\* What a request has read stays what is in its file until it saves, whatever
\* the other requests, the collector and session_destroy() do: the lock is held
\* over read, script and save, so no update is lost to a concurrent one.
ReadIsCurrent ==
  \A p \in Process : seen[p] # None =>
     content[ps[p].fd] \in {seen[p]} \cup (IF pc[p] = "pwrite" THEN {<<>>} ELSE {})

\* A file holds one complete encoded session, never the head of one and the tail
\* of another, unless a request saved to it without having read it or a write
\* failed: the truncation in ps_files_write() is right for all others.
OneSession == \A i \in Inode : content[i] \in Sessions \/ i \in blind

\* A process locks no file but the one of its active session, and none between
\* requests, so it never waits for itself: every path from php_session_start()
\* to the next one closes the file.
LocksReleased ==
  \A p \in Process : /\ Owned(p) \subseteq {ps[p].fd}
                     /\ Owned(p) # {} => ~Waiting(p) /\ ps[p].status = "active"

\* The inductive invariant of Session_proofs.  The first parts relate where a
\* process is to its descriptor and to the locks; the others are what a file holds
\* for a process that has read it, and what a file nobody refers to holds.
FdOpen ==
  \A p \in Process :
     /\ pc[p] \in {"flock", "read", "truncate", "pwrite"} => ps[p].fd # None
     /\ pc[p] \in {"idle", "open", "create", "destroy"} => ps[p].fd = None
     /\ ps[p].fd # None \/ pc[p] \in {"open", "create"} =>
          ps[p].status = "active" /\ ps[p].mod
     /\ ps[p].status = "active" => ps[p].id # None
     /\ pc[p] = "unlink" => victim[p] # None

LockHeld ==
  \A p \in Process, i \in Inode : owner[i] = p <=> ps[p].fd = i /\ pc[p] # "flock"

SeenOpen ==
  \A p \in Process : seen[p] # None =>
     /\ ps[p].fd # None /\ pc[p] \in {"gc", "unlink", "script", "truncate", "pwrite"}
     /\ ps[p].st_size = Len(seen[p])
     /\ pc[p] = "pwrite" => Len(content[ps[p].fd]) <= Len(val[p])

Unused == \A i \in Inode : ~InUse(i) => content[i] = <<>>

IInv == TypeOK /\ FdOpen /\ LockHeld /\ SeenOpen /\ Unused /\ ReadIsCurrent /\ OneSession

\* NEWS:192 and the comment in ps_files_write(): no session file is a mixture.
NoMixture == \A i \in Inode : content[i] \in Sessions

\* A request that waits for its session, to read or to save it, gets it.
LockGranted == \A p \in Process : []<>~Waiting(p)
=============================================================================
