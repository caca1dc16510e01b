---------------------------- MODULE Session_proofs ----------------------------
(***************************************************************************)
(* Proofs about Session, for any number of processes, ids and files, any   *)
(* encoded sessions and any of the faults: type correctness, that what a   *)
(* request has read is what its save replaces, that only a save without a  *)
(* read or a failed write leaves a mixture, and that every lock is         *)
(* released.                                                               *)
(***************************************************************************)
EXTENDS Session, TLAPS

\* A write that covers the file leaves exactly what was written.
LEMMA OverlayCovers ==
  ASSUME NEW v \in Seq(Byte), NEW c \in Seq(Byte), Len(c) <= Len(v)
  PROVE  Overlay(v, c) = v
<1>1. Overlay(v, c) = [n \in 1 .. Len(v) |-> v[n]]
  BY DEF Overlay
<1>. QED
  BY <1>1

\* What a write leaves is bytes again.
LEMMA OverlayType ==
  ASSUME NEW v \in Seq(Byte), NEW c \in Seq(Byte)
  PROVE  Overlay(v, c) \in Seq(Byte)
<1> DEFINE m == IF Len(v) < Len(c) THEN Len(c) ELSE Len(v)
<1>1. m \in Nat
  OBVIOUS
<1>2. \A n \in 1 .. m : (IF n <= Len(v) THEN v[n] ELSE c[n]) \in Byte
  OBVIOUS
<1>. QED
  BY <1>1, <1>2 DEF Overlay

\* What a script saves, and the empty file, are byte sequences.
LEMMA SessionsAreSequences == Sessions \subseteq Seq(Byte)
<1>1. <<>> \in Seq(Byte)
  OBVIOUS
<1>. QED
  BY <1>1, SessionAssumption DEF Sessions

\* What the kernel keeps of contents c.
LEMMA FilesEffect ==
  ASSUME NEW c \in [Inode -> Seq(Byte)], NEW b \in SUBSET Inode, Files(c, b)
  PROVE  /\ content' \in [Inode -> Seq(Byte)] /\ blind' \subseteq Inode /\ Unused'
         /\ \A i \in Inode : InUse(i)' => content'[i] = c[i] /\ (i \in blind' <=> i \in b)
<1>1. <<>> \in Seq(Byte)
  OBVIOUS
<1>2. \A i \in Inode : content'[i] = IF InUse(i)' THEN c[i] ELSE <<>>
  BY DEF Files
<1>3. content' \in [Inode -> Seq(Byte)] /\ blind' \subseteq Inode
  BY <1>1 DEF Files
<1>. QED
  BY <1>2, <1>3 DEF Files, Unused

\* The facts about files and descriptors that steps preserve together.
Data == LockHeld /\ SeenOpen /\ Unused /\ ReadIsCurrent /\ OneSession

\* c and b are the contents and the blind files when p has saved to the one file it
\* has locked, or saved nothing; S is what it closes.
Replaced(p, S, c, b) ==
  /\ c \in [Inode -> Seq(Byte)] /\ b \in SUBSET Inode
  /\ \A i \in Inode : owner[i] = p => i \in S
  /\ \A i \in Inode : IF owner[i] = p THEN c[i] \in Sessions \/ i \in b
                      ELSE c[i] = content[i] /\ (i \in b <=> i \in blind)

\* p closes its file, after saving to it or not.
LEMMA CloseKeeps ==
  ASSUME IInv, NEW p \in Process, NEW S, NEW c, NEW b, Replaced(p, S, c, b),
         Files(c, b), Unlock(p, S), seen' = [seen EXCEPT ![p] = None],
         ps'[p].fd = None,
         \A q \in Process \ {p} : ps'[q] = ps[q] /\ pc'[q] = pc[q] /\ val'[q] = val[q]
  PROVE  Data' /\ FileTypes'
<1> USE SessionAssumption DEF IInv
<1>0. /\ c \in [Inode -> Seq(Byte)] /\ b \in SUBSET Inode
      /\ \A i \in Inode : owner[i] = p => i \in S
      /\ \A i \in Inode : IF owner[i] = p THEN c[i] \in Sessions \/ i \in b
                          ELSE c[i] = content[i] /\ (i \in b <=> i \in blind)
  BY DEF Replaced
<1>1. /\ content' \in [Inode -> Seq(Byte)] /\ blind' \subseteq Inode /\ Unused'
      /\ \A i \in Inode : InUse(i)' => content'[i] = c[i] /\ (i \in blind' <=> i \in b)
  BY <1>0, FilesEffect
<1>2. \A i \in Inode : owner'[i] = IF i \in S /\ owner[i] = p THEN None ELSE owner[i]
  BY DEF Unlock
<1>3. FileTypes'
  BY <1>1 DEF TypeOK, ProcessTypes, FileTypes, Globals, Unlock
<1>4. LockHeld'
  <2> SUFFICES ASSUME NEW q \in Process, NEW i \in Inode
               PROVE  owner'[i] = q <=> ps'[q].fd = i /\ pc'[q] # "flock"
    BY DEF LockHeld
  <2>1. CASE q = p
    <3>1. ps'[q].fd # i
      BY <2>1
    <3>2. owner[i] = p => i \in S
      BY <1>0
    <3>3. owner'[i] # p
      BY <1>2, <3>2
    <3>. QED
      BY <2>1, <3>1, <3>3
  <2>2. CASE q # p
    BY <1>2, <2>2 DEF LockHeld
  <2>. QED
    BY <2>1, <2>2
<1>5. ASSUME NEW q \in Process, seen'[q] # None
      PROVE  /\ q # p /\ seen'[q] = seen[q] /\ seen[q] # None
             /\ ps'[q] = ps[q] /\ pc'[q] = pc[q] /\ val'[q] = val[q]
             /\ ps[q].fd \in Inode /\ content'[ps[q].fd] = content[ps[q].fd]
  <2>1. q # p /\ seen'[q] = seen[q]
    BY <1>5 DEF TypeOK, ProcessTypes, FileTypes, Globals
  <2>2. ps'[q] = ps[q] /\ pc'[q] = pc[q] /\ val'[q] = val[q]
    BY <2>1
  <2>3. ps[q].fd # None /\ pc[q] # "flock"
    BY <1>5, <2>1 DEF SeenOpen
  <2>4. ps[q].fd \in Inode /\ owner[ps[q].fd] = q
    BY <2>3 DEF TypeOK, ProcessTypes, FileTypes, Globals, LockHeld
  <2>5. owner[ps[q].fd] # p
    BY <2>1, <2>4
  <2>6. InUse(ps[q].fd)'
    BY <2>2 DEF InUse
  <2>. QED
    BY <1>0, <1>1, <1>5, <2>1, <2>2, <2>4, <2>5, <2>6
<1>6. SeenOpen'
  BY <1>5 DEF SeenOpen
<1>7. ReadIsCurrent'
  BY <1>5 DEF ReadIsCurrent
<1>8. OneSession'
  <2> SUFFICES ASSUME NEW i \in Inode PROVE content'[i] \in Sessions \/ i \in blind'
    BY DEF OneSession
  <2>1. CASE ~InUse(i)'
    BY <1>1, <2>1 DEF Unused, Sessions
  <2>2. CASE InUse(i)'
    BY <1>0, <1>1, <2>2 DEF OneSession
  <2>. QED
    BY <2>1, <2>2
<1>. QED
  BY <1>1, <1>3, <1>4, <1>6, <1>7, <1>8 DEF Data

\* A step that opens, closes, locks, reads and writes nothing; it may unlink.
LEMMA StayKeeps ==
  ASSUME IInv, Files(content, blind) \/ UNCHANGED <<dir, content, blind>>,
         owner' = owner, seen' = seen,
         \A q \in Process :
            /\ ps'[q].fd = ps[q].fd /\ (pc'[q] = "flock" <=> pc[q] = "flock")
            /\ seen[q] # None =>
                 /\ ps'[q].st_size = ps[q].st_size
                 /\ pc'[q] \in {"gc", "unlink", "script", "truncate", "pwrite"}
                 /\ pc'[q] = "pwrite" <=> pc[q] = "pwrite"
                 /\ pc[q] = "pwrite" => val'[q] = val[q]
  PROVE  Data' /\ FileTypes'
<1> USE SessionAssumption DEF IInv
<1>1. /\ content' \in [Inode -> Seq(Byte)] /\ blind' \subseteq Inode /\ Unused'
      /\ \A i \in Inode : InUse(i)' => content'[i] = content[i] /\ (i \in blind' <=> i \in blind)
  <2>1. CASE Files(content, blind)
    BY <2>1, FilesEffect DEF TypeOK, ProcessTypes, FileTypes, Globals
  <2>2. CASE UNCHANGED <<dir, content, blind>>
    <3>1. \A i \in Inode : InUse(i)' <=> InUse(i)
      BY <2>2 DEF InUse
    <3>. QED
      BY <2>2, <3>1 DEF TypeOK, ProcessTypes, FileTypes, Globals, Unused
  <2>. QED
    BY <2>1, <2>2
<1>2. FileTypes'
  BY <1>1 DEF TypeOK, ProcessTypes, FileTypes, Globals
<1>3. LockHeld'
  BY DEF LockHeld
<1>4. ASSUME NEW q \in Process, seen[q] # None
      PROVE  ps'[q].fd = ps[q].fd /\ ps[q].fd # None /\ content'[ps[q].fd] = content[ps[q].fd]
  <2>1. ps[q].fd \in Inode /\ ps'[q].fd = ps[q].fd
    BY <1>4 DEF SeenOpen, TypeOK, ProcessTypes, FileTypes, Globals
  <2>2. InUse(ps[q].fd)'
    BY <2>1 DEF InUse
  <2>. QED
    BY <1>1, <1>4, <2>1, <2>2 DEF SeenOpen
<1>5. SeenOpen'
  <2> SUFFICES ASSUME NEW q \in Process, seen[q] # None
               PROVE  /\ ps'[q].fd # None
                      /\ pc'[q] \in {"gc", "unlink", "script", "truncate", "pwrite"}
                      /\ ps'[q].st_size = Len(seen[q])
                      /\ pc'[q] = "pwrite" => Len(content'[ps'[q].fd]) <= Len(val'[q])
    BY DEF SeenOpen
  <2>. QED
    BY <1>4 DEF SeenOpen
<1>6. ReadIsCurrent'
  <2> SUFFICES ASSUME NEW q \in Process, seen[q] # None
               PROVE  content'[ps'[q].fd]
                        \in {seen[q]} \cup (IF pc'[q] = "pwrite" THEN {<<>>} ELSE {})
    BY DEF ReadIsCurrent
  <2>1. content[ps[q].fd] \in {seen[q]} \cup (IF pc[q] = "pwrite" THEN {<<>>} ELSE {})
    BY DEF ReadIsCurrent
  <2>. QED
    BY <1>4, <2>1
<1>7. OneSession'
  <2> SUFFICES ASSUME NEW i \in Inode PROVE content'[i] \in Sessions \/ i \in blind'
    BY DEF OneSession
  <2>1. CASE ~InUse(i)'
    BY <1>1, <2>1 DEF Unused, Sessions
  <2>2. CASE InUse(i)'
    BY <1>1, <2>2 DEF OneSession
  <2>. QED
    BY <2>1, <2>2
<1>. QED
  BY <1>1, <1>2, <1>3, <1>5, <1>6, <1>7 DEF Data

\* The parts of the invariant, put together.
LEMMA Parts ==
  ASSUME ProcessTypes', dir' \in [Key -> Inode \cup {None}], FdOpen', Data', FileTypes'
  PROVE  IInv'
BY DEF Data, IInv, TypeOK

\* No process has a request, and no file exists.
LEMMA InitInv == Init => IInv
<1> SUFFICES ASSUME Init PROVE IInv
  OBVIOUS
<1> USE SessionAssumption DEF Init, PsNone, Sessions
<1>1. <<>> \in Seq(Byte)
  OBVIOUS
<1>2. TypeOK
  BY <1>1 DEF TypeOK, ProcessTypes, FileTypes, Globals
<1>3. FdOpen /\ LockHeld /\ SeenOpen /\ Unused /\ ReadIsCurrent /\ OneSession
  BY DEF FdOpen, LockHeld, SeenOpen, Unused, ReadIsCurrent, OneSession
<1>. QED
  BY <1>2, <1>3 DEF IInv


\* What the assignments to PS() and ps_files leave is again such a structure.
LEMMA GlobalsUpdates ==
  ASSUME NEW r \in Globals
  PROVE  /\ \A k \in Key : [r EXCEPT !.id = k] \in Globals
         /\ PsNone \in Globals
         /\ \A k \in Key \cup {None} : [PsNone EXCEPT !.id = k] \in Globals
         /\ \A k \in Key :
              [PsNone EXCEPT !.status = "active", !.id = k, !.mod = TRUE] \in Globals
         /\ [r EXCEPT !.status = "none"] \in Globals
         /\ [r EXCEPT !.fd = None] \in Globals
         /\ \A n \in Nat : [r EXCEPT !.st_size = n] \in Globals
         /\ [r EXCEPT !.mod = FALSE, !.fd = None, !.lastkey = None, !.st_size = 0] \in Globals
         /\ \A i \in Inode, k \in Key : [r EXCEPT !.fd = i, !.lastkey = k] \in Globals
BY DEF Globals, PsNone
\* ps_files_close() leaves contents as they are.
LEMMA CloseData ==
  ASSUME IInv, NEW p \in Process, Close(p), ps'[p].fd = None,
         \A q \in Process \ {p} : ps'[q] = ps[q] /\ pc'[q] = pc[q] /\ val'[q] = val[q]
  PROVE  Data' /\ FileTypes'
<1>1. /\ content \in [Inode -> Seq(Byte)] /\ blind \in SUBSET Inode
      /\ Files(content, blind) /\ Unlock(p, {ps[p].fd}) /\ seen' = [seen EXCEPT ![p] = None]
  BY DEF Close, IInv, TypeOK, ProcessTypes, FileTypes, Globals
<1>2. \A i \in Inode : owner[i] = p => i \in {ps[p].fd} /\ (content[i] \in Sessions \/ i \in blind)
  BY DEF IInv, LockHeld, OneSession
<1>. QED
  BY <1>1, <1>2, CloseKeeps DEF Replaced

\* A process that had no file opens one and waits for its lock.
LEMMA OpenKeeps ==
  ASSUME IInv, NEW p \in Process, ps[p].fd = None, seen[p] = None,
         ps'[p].fd \in Inode, pc'[p] = "flock",
         UNCHANGED <<content, owner, seen, blind>>,
         \A q \in Process \ {p} : ps'[q] = ps[q] /\ pc'[q] = pc[q] /\ val'[q] = val[q],
         \A j \in Inode : InUse(j) => InUse(j)'
  PROVE  Data' /\ FileTypes'
<1> USE SessionAssumption DEF IInv
<1>1. FileTypes'
  BY DEF TypeOK, ProcessTypes, FileTypes, Globals
<1>2. LockHeld'
  BY DEF LockHeld
<1>3. SeenOpen'
  BY DEF SeenOpen
<1>4. Unused'
  BY DEF Unused
<1>5. ReadIsCurrent' /\ OneSession'
  BY DEF ReadIsCurrent, OneSession
<1>. QED
  BY <1>1, <1>2, <1>3, <1>4, <1>5 DEF Data

\* The file could not be opened: nothing to close, nothing to unlock.
LEMMA NotOpenInv ==
  ASSUME IInv, NEW p \in Process, pc[p] \in {"open", "create"}, NotOpen(p),
         UNCHANGED <<victim, unread, dir, content, owner, seen, blind>>
  PROVE  IInv'
<1> USE SessionAssumption DEF IInv, NotOpen, Saved, Goto, PsNone
<1>1. ps[p].fd = None /\ seen[p] = None /\ ps[p].id \in Key
  BY DEF FdOpen, SeenOpen, TypeOK, ProcessTypes, FileTypes, Globals
<1>2. ProcessTypes' /\ dir' \in [Key -> Inode \cup {None}]
  <2>1. CASE op[p] = "read"
    BY <2>1 DEF TypeOK, ProcessTypes, FileTypes, Globals
  <2>2. CASE op[p] # "read"
    <3> DEFINE g == [PsNone EXCEPT !.id = IF op[p] = "close" THEN ps[p].id ELSE None]
    <3>1. g \in Globals
      BY <1>1, GlobalsUpdates DEF TypeOK, ProcessTypes
    <3>2. ps' = [ps EXCEPT ![p] = g]
      BY <2>2
    <3>3. ps' \in [Process -> Globals]
      BY <3>1, <3>2 DEF TypeOK, ProcessTypes
    <3>. QED
      BY <2>2, <3>3 DEF TypeOK, ProcessTypes, FileTypes, Globals, Sessions
  <2>. QED
    BY <2>1, <2>2
<1>3. FdOpen'
  <2>1. CASE op[p] = "read"
    BY <1>1, <2>1 DEF TypeOK, ProcessTypes, FileTypes, Globals, FdOpen
  <2>2. CASE op[p] # "read"
    <3>1. ps'[p].fd = None /\ ps'[p].status = "none" /\ pc'[p] \in {"script", "idle"}
      BY <2>2 DEF TypeOK, ProcessTypes, FileTypes, Globals
    <3>2. \A q \in Process \ {p} : ps'[q] = ps[q] /\ pc'[q] = pc[q]
      BY <2>2 DEF TypeOK, ProcessTypes, FileTypes, Globals
    <3>. QED
      BY <3>1, <3>2 DEF FdOpen
  <2>. QED
    BY <2>1, <2>2
<1>4. /\ owner' = owner /\ seen' = seen
      /\ Files(content, blind) \/ UNCHANGED <<dir, content, blind>>
      /\ \A q \in Process :
           /\ ps'[q].fd = ps[q].fd /\ (pc'[q] = "flock" <=> pc[q] = "flock")
           /\ seen[q] # None =>
                /\ ps'[q].st_size = ps[q].st_size
                /\ pc'[q] \in {"gc", "unlink", "script", "truncate", "pwrite"}
                /\ pc'[q] = "pwrite" <=> pc[q] = "pwrite"
                /\ pc[q] = "pwrite" => val'[q] = val[q]
  BY <1>1 DEF TypeOK, ProcessTypes, FileTypes, Globals, SeenOpen
<1>. QED
  BY <1>2, <1>3, <1>4, StayKeeps, Parts

\* Every step keeps the inductive invariant.
LEMMA StepInv == IInv /\ [Next]_vbls => IInv'
<1> SUFFICES ASSUME IInv, [Next]_vbls PROVE IInv'
  OBVIOUS
<1> USE SessionAssumption DEF IInv, Goto
<1>1. ASSUME NEW p \in Process, Request(p) PROVE IInv'
  <2>1. ProcessTypes' /\ dir' \in [Key -> Inode \cup {None}]
    BY <1>1 DEF Request, files, history, TypeOK, ProcessTypes, FileTypes, Globals
  <2>2. FdOpen'
    BY <1>1 DEF Request, files, history, TypeOK, ProcessTypes, FileTypes, Globals, FdOpen
  <2>3. /\ owner' = owner /\ seen' = seen
        /\ Files(content, blind) \/ UNCHANGED <<dir, content, blind>>
        /\ \A q \in Process :
             /\ ps'[q].fd = ps[q].fd /\ (pc'[q] = "flock" <=> pc[q] = "flock")
             /\ seen[q] # None =>
                  /\ ps'[q].st_size = ps[q].st_size
                  /\ pc'[q] \in {"gc", "unlink", "script", "truncate", "pwrite"}
                  /\ pc'[q] = "pwrite" <=> pc[q] = "pwrite"
                  /\ pc[q] = "pwrite" => val'[q] = val[q]
    BY <1>1 DEF Request, files, history, TypeOK, ProcessTypes, FileTypes, Globals, FdOpen, SeenOpen
  <2>. QED
    BY <2>1, <2>2, <2>3, StayKeeps, Parts
<1>2. ASSUME NEW p \in Process, NEW k \in Key, GcStat(p, k) PROVE IInv'
  <2>1. ProcessTypes' /\ dir' \in [Key -> Inode \cup {None}]
    BY <1>2 DEF GcStat, files, history, TypeOK, ProcessTypes, FileTypes, Globals
  <2>2. FdOpen'
    BY <1>2 DEF GcStat, files, history, TypeOK, ProcessTypes, FileTypes, Globals, FdOpen
  <2>3. /\ owner' = owner /\ seen' = seen
        /\ Files(content, blind) \/ UNCHANGED <<dir, content, blind>>
        /\ \A q \in Process :
             /\ ps'[q].fd = ps[q].fd /\ (pc'[q] = "flock" <=> pc[q] = "flock")
             /\ seen[q] # None =>
                  /\ ps'[q].st_size = ps[q].st_size
                  /\ pc'[q] \in {"gc", "unlink", "script", "truncate", "pwrite"}
                  /\ pc'[q] = "pwrite" <=> pc[q] = "pwrite"
                  /\ pc[q] = "pwrite" => val'[q] = val[q]
    BY <1>2 DEF GcStat, files, history, TypeOK, ProcessTypes, FileTypes, Globals, FdOpen, SeenOpen
  <2>. QED
    BY <2>1, <2>2, <2>3, StayKeeps, Parts
<1>3. ASSUME NEW p \in Process, GcUnlink(p) PROVE IInv'
  <2>1. ProcessTypes' /\ dir' \in [Key -> Inode \cup {None}]
    BY <1>3 DEF GcUnlink, TypeOK, ProcessTypes, FileTypes, Globals
  <2>2. FdOpen'
    BY <1>3 DEF GcUnlink, TypeOK, ProcessTypes, FileTypes, Globals, FdOpen
  <2>3. /\ owner' = owner /\ seen' = seen
        /\ Files(content, blind) \/ UNCHANGED <<dir, content, blind>>
        /\ \A q \in Process :
             /\ ps'[q].fd = ps[q].fd /\ (pc'[q] = "flock" <=> pc[q] = "flock")
             /\ seen[q] # None =>
                  /\ ps'[q].st_size = ps[q].st_size
                  /\ pc'[q] \in {"gc", "unlink", "script", "truncate", "pwrite"}
                  /\ pc'[q] = "pwrite" <=> pc[q] = "pwrite"
                  /\ pc[q] = "pwrite" => val'[q] = val[q]
    BY <1>3 DEF GcUnlink, TypeOK, ProcessTypes, FileTypes, Globals, FdOpen, SeenOpen
  <2>. QED
    BY <2>1, <2>2, <2>3, StayKeeps, Parts
<1>4. ASSUME NEW p \in Process, GcDone(p) PROVE IInv'
  <2>1. ProcessTypes' /\ dir' \in [Key -> Inode \cup {None}]
    BY <1>4 DEF GcDone, files, history, TypeOK, ProcessTypes, FileTypes, Globals
  <2>2. FdOpen'
    BY <1>4 DEF GcDone, files, history, TypeOK, ProcessTypes, FileTypes, Globals, FdOpen
  <2>3. /\ owner' = owner /\ seen' = seen
        /\ Files(content, blind) \/ UNCHANGED <<dir, content, blind>>
        /\ \A q \in Process :
             /\ ps'[q].fd = ps[q].fd /\ (pc'[q] = "flock" <=> pc[q] = "flock")
             /\ seen[q] # None =>
                  /\ ps'[q].st_size = ps[q].st_size
                  /\ pc'[q] \in {"gc", "unlink", "script", "truncate", "pwrite"}
                  /\ pc'[q] = "pwrite" <=> pc[q] = "pwrite"
                  /\ pc[q] = "pwrite" => val'[q] = val[q]
    BY <1>4 DEF GcDone, files, history, TypeOK, ProcessTypes, FileTypes, Globals, FdOpen, SeenOpen
  <2>. QED
    BY <2>1, <2>2, <2>3, StayKeeps, Parts
<1>5. ASSUME NEW p \in Process, NEW k \in Key, SetId(p, k) PROVE IInv'
  <2>1. ProcessTypes' /\ dir' \in [Key -> Inode \cup {None}]
    <3>1. ps' \in [Process -> Globals]
      <4>1. ps' = [ps EXCEPT ![p] = [ps[p] EXCEPT !.id = k]]
        BY <1>5 DEF SetId, files, history
      <4>2. [ps[p] EXCEPT !.id = k] \in Globals
        BY <1>5, GlobalsUpdates DEF TypeOK, ProcessTypes
      <4>. QED
        BY <4>1, <4>2 DEF TypeOK, ProcessTypes
    <3>. QED
      BY <1>5, <3>1 DEF SetId, files, history, TypeOK, ProcessTypes, FileTypes, Globals
  <2>2. FdOpen'
    BY <1>5 DEF SetId, files, history, TypeOK, ProcessTypes, FileTypes, Globals, FdOpen
  <2>3. /\ owner' = owner /\ seen' = seen
        /\ Files(content, blind) \/ UNCHANGED <<dir, content, blind>>
        /\ \A q \in Process :
             /\ ps'[q].fd = ps[q].fd /\ (pc'[q] = "flock" <=> pc[q] = "flock")
             /\ seen[q] # None =>
                  /\ ps'[q].st_size = ps[q].st_size
                  /\ pc'[q] \in {"gc", "unlink", "script", "truncate", "pwrite"}
                  /\ pc'[q] = "pwrite" <=> pc[q] = "pwrite"
                  /\ pc[q] = "pwrite" => val'[q] = val[q]
    BY <1>5 DEF SetId, files, history, TypeOK, ProcessTypes, FileTypes, Globals, FdOpen, SeenOpen
  <2>. QED
    BY <2>1, <2>2, <2>3, StayKeeps, Parts
<1>6. ASSUME NEW p \in Process, WriteCloseNothing(p) PROVE IInv'
  <2>1. ProcessTypes' /\ dir' \in [Key -> Inode \cup {None}]
    <3>1. ps' \in [Process -> Globals]
      <4>1. ps' = [ps EXCEPT ![p] = [ps[p] EXCEPT !.status = "none"]]
        BY <1>6 DEF WriteCloseNothing, files, history
      <4>2. [ps[p] EXCEPT !.status = "none"] \in Globals
        BY <1>6, GlobalsUpdates DEF TypeOK, ProcessTypes
      <4>. QED
        BY <4>1, <4>2 DEF TypeOK, ProcessTypes
    <3>. QED
      BY <1>6, <3>1 DEF WriteCloseNothing, files, history, TypeOK, ProcessTypes, FileTypes, Globals
  <2>2. FdOpen'
    BY <1>6 DEF WriteCloseNothing, files, history, TypeOK, ProcessTypes, FileTypes, Globals, FdOpen
  <2>3. /\ owner' = owner /\ seen' = seen
        /\ Files(content, blind) \/ UNCHANGED <<dir, content, blind>>
        /\ \A q \in Process :
             /\ ps'[q].fd = ps[q].fd /\ (pc'[q] = "flock" <=> pc[q] = "flock")
             /\ seen[q] # None =>
                  /\ ps'[q].st_size = ps[q].st_size
                  /\ pc'[q] \in {"gc", "unlink", "script", "truncate", "pwrite"}
                  /\ pc'[q] = "pwrite" <=> pc[q] = "pwrite"
                  /\ pc[q] = "pwrite" => val'[q] = val[q]
    BY <1>6 DEF WriteCloseNothing, files, history, TypeOK, ProcessTypes, FileTypes, Globals, FdOpen, SeenOpen
  <2>. QED
    BY <2>1, <2>2, <2>3, StayKeeps, Parts
<1>7. ASSUME NEW p \in Process, DestroyUnlink(p) PROVE IInv'
  <2>1. ProcessTypes' /\ dir' \in [Key -> Inode \cup {None}]
    BY <1>7 DEF DestroyUnlink, PsNone, TypeOK, ProcessTypes, FileTypes, Globals
  <2>2. FdOpen'
    BY <1>7 DEF DestroyUnlink, PsNone, TypeOK, ProcessTypes, FileTypes, Globals, FdOpen
  <2>3. /\ owner' = owner /\ seen' = seen
        /\ Files(content, blind) \/ UNCHANGED <<dir, content, blind>>
        /\ \A q \in Process :
             /\ ps'[q].fd = ps[q].fd /\ (pc'[q] = "flock" <=> pc[q] = "flock")
             /\ seen[q] # None =>
                  /\ ps'[q].st_size = ps[q].st_size
                  /\ pc'[q] \in {"gc", "unlink", "script", "truncate", "pwrite"}
                  /\ pc'[q] = "pwrite" <=> pc[q] = "pwrite"
                  /\ pc[q] = "pwrite" => val'[q] = val[q]
    BY <1>7 DEF DestroyUnlink, PsNone, TypeOK, ProcessTypes, FileTypes, Globals, FdOpen, SeenOpen
  <2>. QED
    BY <2>1, <2>2, <2>3, StayKeeps, Parts
<1>8. ASSUME NEW p \in Process, ModuleName(p) PROVE IInv'
  <2>1. ProcessTypes' /\ dir' \in [Key -> Inode \cup {None}]
    <3>1. ps' \in [Process -> Globals]
      <4>1. ps' = [ps EXCEPT ![p] = [ps[p] EXCEPT !.mod = FALSE, !.fd = None, !.lastkey = None, !.st_size = 0]]
        BY <1>8 DEF ModuleName, Close
      <4>2. [ps[p] EXCEPT !.mod = FALSE, !.fd = None, !.lastkey = None, !.st_size = 0] \in Globals
        BY <1>8, GlobalsUpdates DEF TypeOK, ProcessTypes
      <4>. QED
        BY <4>1, <4>2 DEF TypeOK, ProcessTypes
    <3>. QED
      BY <1>8, <3>1 DEF ModuleName, Close, TypeOK, ProcessTypes, FileTypes, Globals
  <2>2. FdOpen'
    BY <1>8 DEF ModuleName, Close, TypeOK, ProcessTypes, FileTypes, Globals, FdOpen
  <2>3. /\ content \in [Inode -> Seq(Byte)] /\ blind \in SUBSET Inode
        /\ Files(content, blind) /\ Unlock(p, {ps[p].fd})
        /\ seen' = [seen EXCEPT ![p] = None] /\ ps'[p].fd = None
    BY <1>8 DEF ModuleName, Close, Close, TypeOK, ProcessTypes, FileTypes, Globals
  <2>4. \A i \in Inode : owner[i] = p => i \in {ps[p].fd} /\ (content[i] \in Sessions \/ i \in blind)
    BY DEF LockHeld, OneSession
  <2>5. \A q \in Process \ {p} : ps'[q] = ps[q] /\ pc'[q] = pc[q] /\ val'[q] = val[q]
    BY <1>8 DEF ModuleName, Close, TypeOK, ProcessTypes, FileTypes, Globals
  <2>6. Data' /\ FileTypes'
    BY <2>3, <2>4, <2>5, CloseKeeps DEF Replaced
  <2>. QED
    BY <2>1, <2>2, <2>6, Parts
<1>9. ASSUME NEW p \in Process, EndNothing(p) PROVE IInv'
  <2>1. ProcessTypes' /\ dir' \in [Key -> Inode \cup {None}]
    BY <1>9 DEF EndNothing, Close, PsNone, TypeOK, ProcessTypes, FileTypes, Globals
  <2>2. FdOpen'
    BY <1>9 DEF EndNothing, Close, PsNone, TypeOK, ProcessTypes, FileTypes, Globals, FdOpen
  <2>3. /\ content \in [Inode -> Seq(Byte)] /\ blind \in SUBSET Inode
        /\ Files(content, blind) /\ Unlock(p, {ps[p].fd})
        /\ seen' = [seen EXCEPT ![p] = None] /\ ps'[p].fd = None
    BY <1>9 DEF EndNothing, Close, PsNone, Close, TypeOK, ProcessTypes, FileTypes, Globals
  <2>4. \A i \in Inode : owner[i] = p => i \in {ps[p].fd} /\ (content[i] \in Sessions \/ i \in blind)
    BY DEF LockHeld, OneSession
  <2>5. \A q \in Process \ {p} : ps'[q] = ps[q] /\ pc'[q] = pc[q] /\ val'[q] = val[q]
    BY <1>9 DEF EndNothing, Close, PsNone, TypeOK, ProcessTypes, FileTypes, Globals
  <2>6. Data' /\ FileTypes'
    BY <2>3, <2>4, <2>5, CloseKeeps DEF Replaced
  <2>. QED
    BY <2>1, <2>2, <2>6, Parts
<1>10. ASSUME NEW p \in Process, Die(p) PROVE IInv'
  <2>1. ProcessTypes' /\ dir' \in [Key -> Inode \cup {None}]
    BY <1>10 DEF Die, PsNone, Sessions, TypeOK, ProcessTypes, FileTypes, Globals
  <2>2. FdOpen'
    BY <1>10 DEF Die, PsNone, Sessions, TypeOK, ProcessTypes, FileTypes, Globals, FdOpen
  <2> DEFINE S == Inode
  <2>3. /\ content \in [Inode -> Seq(Byte)] /\ blind \in SUBSET Inode
        /\ Files(content, blind) /\ Unlock(p, S)
        /\ seen' = [seen EXCEPT ![p] = None] /\ ps'[p].fd = None
    BY <1>10 DEF Die, PsNone, Sessions, Close, TypeOK, ProcessTypes, FileTypes, Globals
  <2>4. \A i \in Inode : owner[i] = p => i \in S /\ (content[i] \in Sessions \/ i \in blind)
    BY DEF LockHeld, OneSession
  <2> HIDE DEF S
  <2>5. \A q \in Process \ {p} : ps'[q] = ps[q] /\ pc'[q] = pc[q] /\ val'[q] = val[q]
    BY <1>10 DEF Die, PsNone, Sessions, TypeOK, ProcessTypes, FileTypes, Globals
  <2>6. Data' /\ FileTypes'
    BY <2>3, <2>4, <2>5, CloseKeeps DEF Replaced
  <2>. QED
    BY <2>1, <2>2, <2>6, Parts
<1>11. ASSUME NEW p \in Process, Start(p) PROVE IInv'
  <2>1. ps[p].fd = None /\ seen[p] = None
    BY <1>11 DEF Start, FdOpen, SeenOpen
  <2>2. ProcessTypes' /\ dir' \in [Key -> Inode \cup {None}]
    <3>1. PICK k \in Key :
             ps' = [ps EXCEPT ![p] = [PsNone EXCEPT !.status = "active", !.id = k, !.mod = TRUE]]
      BY <1>11 DEF Start, TypeOK, ProcessTypes, FileTypes, Globals
    <3>2. [PsNone EXCEPT !.status = "active", !.id = k, !.mod = TRUE] \in Globals
      BY GlobalsUpdates DEF TypeOK, ProcessTypes
    <3>3. ps' \in [Process -> Globals]
      BY <3>1, <3>2 DEF TypeOK, ProcessTypes
    <3>. QED
      BY <1>11, <3>3 DEF Start, files, TypeOK, ProcessTypes, FileTypes, Globals
  <2>3. FdOpen'
    BY <1>11 DEF Start, files, PsNone, TypeOK, ProcessTypes, FileTypes, Globals, FdOpen
  <2>4. seen' = seen
    BY <1>11, <2>1 DEF Start, TypeOK, ProcessTypes, FileTypes, Globals
  <2>5. /\ owner' = owner /\ seen' = seen
        /\ Files(content, blind) \/ UNCHANGED <<dir, content, blind>>
        /\ \A q \in Process :
             /\ ps'[q].fd = ps[q].fd /\ (pc'[q] = "flock" <=> pc[q] = "flock")
             /\ seen[q] # None =>
                  /\ ps'[q].st_size = ps[q].st_size
                  /\ pc'[q] \in {"gc", "unlink", "script", "truncate", "pwrite"}
                  /\ pc'[q] = "pwrite" <=> pc[q] = "pwrite"
                  /\ pc[q] = "pwrite" => val'[q] = val[q]
    BY <1>11, <2>1, <2>4 DEF Start, files, PsNone, TypeOK, ProcessTypes, FileTypes, Globals, SeenOpen
  <2>. QED
    BY <2>2, <2>3, <2>5, StayKeeps, Parts
<1>12. ASSUME NEW p \in Process, OpenExisting(p) PROVE IInv'
  <2> DEFINE k == ps[p].id
  <2>1. k \in Key /\ ps[p].fd = None /\ pc[p] = "open" /\ seen[p] = None /\ UNCHANGED <<files, history>>
    BY <1>12 DEF OpenExisting, FdOpen, SeenOpen, TypeOK, ProcessTypes, FileTypes, Globals
  <2>2. CASE /\ dir[k] # None /\ Goto(p, "flock") /\ UNCHANGED <<op, val>>
             /\ ps' = [ps EXCEPT ![p].fd = dir[k], ![p].lastkey = k]
    <3>1. dir[k] \in Inode
      BY <2>1, <2>2 DEF TypeOK, ProcessTypes, FileTypes, Globals
    <3>2. ps' = [ps EXCEPT ![p] = [ps[p] EXCEPT !.fd = dir[k], !.lastkey = k]]
      BY <2>2
    <3>3. [ps[p] EXCEPT !.fd = dir[k], !.lastkey = k] \in Globals
      BY <2>1, <3>1, GlobalsUpdates DEF TypeOK, ProcessTypes
    <3>4. ps' \in [Process -> Globals]
      BY <3>2, <3>3 DEF TypeOK, ProcessTypes
    <3>5. ProcessTypes' /\ dir' \in [Key -> Inode \cup {None}]
      BY <1>12, <2>1, <2>2, <3>4 DEF OpenExisting, files, TypeOK, ProcessTypes, FileTypes, Globals
    <3>6. FdOpen'
      BY <1>12, <2>1, <2>2, <3>1 DEF OpenExisting, TypeOK, ProcessTypes, FileTypes, Globals, FdOpen
    <3>7. /\ ps'[p].fd = dir[k] /\ pc'[p] = "flock"
          /\ \A q \in Process \ {p} : ps'[q] = ps[q] /\ pc'[q] = pc[q] /\ val'[q] = val[q]
      BY <2>2 DEF TypeOK, ProcessTypes, FileTypes, Globals
    <3>8. \A j \in Inode : InUse(j) => InUse(j)'
      BY <2>1, <3>7 DEF InUse, files
    <3>. QED
      BY <2>1, <3>1, <3>5, <3>6, <3>7, <3>8, OpenKeeps, Parts DEF files, history
  <2>3. CASE dir[k] = None /\ Goto(p, "create") /\ UNCHANGED <<op, ps, val>>
    <3>1. ProcessTypes' /\ dir' \in [Key -> Inode \cup {None}]
      BY <1>12, <2>1, <2>3 DEF OpenExisting, files, TypeOK, ProcessTypes, FileTypes, Globals
    <3>2. FdOpen'
      BY <1>12, <2>1, <2>3 DEF OpenExisting, TypeOK, ProcessTypes, FileTypes, Globals, FdOpen
    <3>3. /\ owner' = owner /\ seen' = seen
          /\ Files(content, blind) \/ UNCHANGED <<dir, content, blind>>
          /\ \A q \in Process :
               /\ ps'[q].fd = ps[q].fd /\ (pc'[q] = "flock" <=> pc[q] = "flock")
               /\ seen[q] # None =>
                    /\ ps'[q].st_size = ps[q].st_size
                    /\ pc'[q] \in {"gc", "unlink", "script", "truncate", "pwrite"}
                    /\ pc'[q] = "pwrite" <=> pc[q] = "pwrite"
                    /\ pc[q] = "pwrite" => val'[q] = val[q]
      BY <2>1, <2>3 DEF files, history, TypeOK, ProcessTypes, FileTypes, Globals, SeenOpen
    <3>. QED
      BY <3>1, <3>2, <3>3, StayKeeps, Parts
  <2>4. CASE NotOpen(p)
    BY <1>12, <2>1, <2>4, NotOpenInv DEF OpenExisting, files, history
  <2>. QED
    BY <1>12, <2>2, <2>3, <2>4 DEF OpenExisting
<1>13. ASSUME NEW p \in Process, Create(p) PROVE IInv'
  <2> DEFINE k == ps[p].id
  <2>1. /\ k \in Key /\ ps[p].fd = None /\ pc[p] = "create" /\ seen[p] = None
        /\ UNCHANGED <<victim, unread, content, owner, history>>
    BY <1>13 DEF Create, FdOpen, SeenOpen, TypeOK, ProcessTypes, FileTypes, Globals
  <2>2. CASE dir[k] = None
    <3> DEFINE i == CHOOSE j \in Inode : ~InUse(j)
    <3>1. i \in Inode /\ ~InUse(i)
      BY <1>13, <2>2 DEF Create
    <3>2. /\ dir' = [dir EXCEPT ![k] = i] /\ Goto(p, "flock") /\ UNCHANGED <<op, val>>
          /\ ps' = [ps EXCEPT ![p] = [ps[p] EXCEPT !.fd = i, !.lastkey = k]]
      BY <1>13, <2>2 DEF Create
    <3> HIDE DEF i
    <3>3. [ps[p] EXCEPT !.fd = i, !.lastkey = k] \in Globals
      BY <2>1, <3>1, GlobalsUpdates DEF TypeOK, ProcessTypes
    <3>4. ps' \in [Process -> Globals]
      BY <3>2, <3>3 DEF TypeOK, ProcessTypes
    <3>5. ProcessTypes' /\ dir' \in [Key -> Inode \cup {None}]
      BY <2>1, <3>1, <3>2, <3>4 DEF TypeOK, ProcessTypes, FileTypes, Globals
    <3>6. FdOpen'
      BY <2>1, <3>1, <3>2 DEF TypeOK, ProcessTypes, FileTypes, Globals, FdOpen
    <3>7. /\ ps'[p].fd = i /\ pc'[p] = "flock"
          /\ \A q \in Process \ {p} : ps'[q] = ps[q] /\ pc'[q] = pc[q] /\ val'[q] = val[q]
      BY <3>2 DEF TypeOK, ProcessTypes, FileTypes, Globals
    <3>8. \A j \in Inode : InUse(j) => InUse(j)'
      BY <2>1, <2>2, <3>2, <3>7 DEF InUse, TypeOK, ProcessTypes, FileTypes, Globals
    <3>. QED
      BY <2>1, <3>1, <3>5, <3>6, <3>7, <3>8, OpenKeeps, Parts DEF history
  <2>3. CASE dir[k] # None
    BY <1>13, <2>1, <2>3, NotOpenInv DEF Create, history
  <2>. QED
    BY <2>2, <2>3
<1>14. ASSUME NEW p \in Process, Lock(p) PROVE IInv'
  <2> DEFINE i == ps[p].fd
  <2>1. i \in Inode /\ owner[i] = None /\ pc[p] = "flock" /\ seen[p] = None
    BY <1>14 DEF Lock, FdOpen, SeenOpen, TypeOK, ProcessTypes, FileTypes, Globals
  <2>2. ProcessTypes' /\ FileTypes' /\ dir' \in [Key -> Inode \cup {None}]
    BY <1>14, <2>1 DEF Lock, OpenedFor, history, TypeOK, ProcessTypes, FileTypes, Globals
  <2>3. FdOpen'
    BY <1>14, <2>1 DEF Lock, OpenedFor, TypeOK, ProcessTypes, FileTypes, Globals, FdOpen
  <2>4. LockHeld'
    <3> SUFFICES ASSUME NEW q \in Process, NEW j \in Inode
                 PROVE  owner'[j] = q <=> ps'[q].fd = j /\ pc'[q] # "flock"
      BY DEF LockHeld
    <3>1. owner'[j] = IF j = i THEN p ELSE owner[j]
      BY <1>14, <2>1 DEF Lock, TypeOK, ProcessTypes, FileTypes, Globals
    <3>2. ps' = ps /\ pc'[p] # "flock" /\ (q # p => pc'[q] = pc[q])
      BY <1>14 DEF Lock, OpenedFor, TypeOK, ProcessTypes, FileTypes, Globals
    <3>. QED
      BY <2>1, <3>1, <3>2 DEF LockHeld
  <2>5. SeenOpen' /\ ReadIsCurrent'
    BY <1>14, <2>1 DEF Lock, history, TypeOK, ProcessTypes, FileTypes, Globals, SeenOpen, ReadIsCurrent
  <2>6. Unused' /\ OneSession'
    BY <1>14 DEF Lock, history, Unused, InUse, OneSession
  <2>. QED
    BY <2>2, <2>3, <2>4, <2>5, <2>6, Parts DEF Data
<1>15. ASSUME NEW p \in Process, Read(p) PROVE IInv'
  <2> DEFINE i == ps[p].fd
  <2>1. /\ i \in Inode /\ owner[i] = p /\ pc[p] = "read" /\ seen[p] = None
        /\ content[i] \in Seq(Byte) /\ Len(content[i]) \in Nat /\ ps[p] \in Globals
        /\ UNCHANGED <<op, val, victim, unread, dir>>
    <3>1. pc[p] = "read" /\ UNCHANGED <<op, val, victim, unread, dir>>
      BY <1>15 DEF Read
    <3>2. ps[p] \in Globals /\ seen[p] = None
      BY <3>1 DEF SeenOpen, TypeOK, ProcessTypes
    <3>3. i \in Inode
      BY <3>1 DEF FdOpen, TypeOK, ProcessTypes, FileTypes, Globals
    <3>4. owner[i] = p /\ content[i] \in Seq(Byte) /\ Len(content[i]) \in Nat
      BY <3>1, <3>3 DEF LockHeld, TypeOK, ProcessTypes, FileTypes, Globals
    <3>. QED
      BY <3>1, <3>2, <3>3, <3>4
  <2>2. CASE /\ ps' = [ps EXCEPT ![p].st_size = Len(content[i])]
             /\ seen' = [seen EXCEPT ![p] = content[i]]
             /\ Goto(p, "gc") /\ UNCHANGED <<content, owner, blind>>
    <3>1. ps' = [ps EXCEPT ![p] = [ps[p] EXCEPT !.st_size = Len(content[i])]]
      BY <2>2
    <3>2. [ps[p] EXCEPT !.st_size = Len(content[i])] \in Globals
      BY <2>1, GlobalsUpdates
    <3>3. ps' \in [Process -> Globals]
      BY <3>1, <3>2 DEF TypeOK, ProcessTypes
    <3>4. ProcessTypes' /\ FileTypes' /\ dir' \in [Key -> Inode \cup {None}]
      BY <2>1, <2>2, <3>3 DEF TypeOK, ProcessTypes, FileTypes, Globals
    <3>5. /\ ps'[p].fd = i /\ ps'[p].st_size = Len(content[i]) /\ pc'[p] = "gc"
          /\ ps'[p].status = ps[p].status /\ ps'[p].mod = ps[p].mod /\ ps'[p].id = ps[p].id
          /\ seen'[p] = content[i]
          /\ \A q \in Process \ {p} : ps'[q] = ps[q] /\ pc'[q] = pc[q] /\ seen'[q] = seen[q]
      BY <2>2 DEF TypeOK, ProcessTypes, FileTypes, Globals
    <3>6. FdOpen'
      BY <2>1, <3>5 DEF FdOpen
    <3>7. LockHeld'
      BY <2>1, <2>2, <3>5 DEF LockHeld
    <3>8. SeenOpen' /\ ReadIsCurrent'
      BY <2>1, <2>2, <3>5 DEF SeenOpen, ReadIsCurrent
    <3>9. Unused' /\ OneSession'
      <4>1. \A q \in Process : ps'[q].fd = ps[q].fd
        BY <3>5
      <4>. QED
        BY <2>1, <2>2, <4>1 DEF Unused, InUse, OneSession
    <3>. QED
      BY <3>4, <3>6, <3>7, <3>8, <3>9, Parts DEF Data
  <2>3. CASE /\ ps' = [ps EXCEPT ![p].fd = None] /\ Goto(p, "destroy") /\ Unlock(p, {i})
             /\ content' = [j \in Inode |-> IF InUse(j)' THEN content[j] ELSE <<>>]
             /\ blind' = {j \in blind : InUse(j)'} /\ UNCHANGED seen
    <3>1. ps' = [ps EXCEPT ![p] = [ps[p] EXCEPT !.fd = None]]
      BY <2>3
    <3>2. [ps[p] EXCEPT !.fd = None] \in Globals
      BY <2>1, GlobalsUpdates
    <3>3. ps' \in [Process -> Globals]
      BY <3>1, <3>2 DEF TypeOK, ProcessTypes
    <3>4. ProcessTypes' /\ dir' \in [Key -> Inode \cup {None}]
      BY <2>1, <2>3, <3>3 DEF TypeOK, ProcessTypes, FileTypes, Globals
    <3>5. FdOpen'
      BY <2>1, <2>3 DEF TypeOK, ProcessTypes, FileTypes, Globals, FdOpen
    <3>6. /\ content \in [Inode -> Seq(Byte)] /\ blind \in SUBSET Inode
          /\ Files(content, blind) /\ Unlock(p, {i})
          /\ seen' = [seen EXCEPT ![p] = None] /\ ps'[p].fd = None
      BY <2>1, <2>3 DEF Files, TypeOK, ProcessTypes, FileTypes, Globals
    <3>7. \A j \in Inode : owner[j] = p => j \in {i} /\ (content[j] \in Sessions \/ j \in blind)
      BY DEF LockHeld, OneSession
    <3>8. \A q \in Process \ {p} : ps'[q] = ps[q] /\ pc'[q] = pc[q] /\ val'[q] = val[q]
      BY <2>1, <2>3 DEF TypeOK, ProcessTypes, FileTypes, Globals
    <3>9. Data' /\ FileTypes'
      BY <3>6, <3>7, <3>8, CloseKeeps DEF Replaced
    <3>. QED
      BY <3>4, <3>5, <3>9, Parts
  <2>4. CASE /\ \E m \in {0, Len(content[i])} : ps' = [ps EXCEPT ![p].st_size = m]
             /\ Goto(p, "gc") /\ UNCHANGED <<content, owner, blind, seen>>
    <3>1. PICK m \in {0, Len(content[i])} : ps' = [ps EXCEPT ![p] = [ps[p] EXCEPT !.st_size = m]]
      BY <2>4
    <3>2. [ps[p] EXCEPT !.st_size = m] \in Globals
      BY <2>1, GlobalsUpdates
    <3>3. ps' \in [Process -> Globals]
      BY <3>1, <3>2 DEF TypeOK, ProcessTypes
    <3>4. ProcessTypes' /\ dir' \in [Key -> Inode \cup {None}]
      BY <2>1, <2>4, <3>3 DEF TypeOK, ProcessTypes, FileTypes, Globals
    <3>5. FdOpen'
      BY <2>1, <2>4 DEF TypeOK, ProcessTypes, FileTypes, Globals, FdOpen
    <3>6. /\ owner' = owner /\ seen' = seen
          /\ Files(content, blind) \/ UNCHANGED <<dir, content, blind>>
          /\ \A q \in Process :
               /\ ps'[q].fd = ps[q].fd /\ (pc'[q] = "flock" <=> pc[q] = "flock")
               /\ seen[q] # None =>
                    /\ ps'[q].st_size = ps[q].st_size
                    /\ pc'[q] \in {"gc", "unlink", "script", "truncate", "pwrite"}
                    /\ pc'[q] = "pwrite" <=> pc[q] = "pwrite"
                    /\ pc[q] = "pwrite" => val'[q] = val[q]
      BY <2>1, <2>4 DEF TypeOK, ProcessTypes, FileTypes, Globals, SeenOpen
    <3>. QED
      BY <3>4, <3>5, <3>6, StayKeeps, Parts
  <2>. QED
    BY <1>15, <2>2, <2>3, <2>4 DEF Read
<1>16. ASSUME NEW p \in Process, Destroy(p) PROVE IInv'
  <2>1. CASE /\ pc[p] = "script" /\ ps[p].mod /\ ps' = [ps EXCEPT ![p].fd = None] /\ Goto(p, "destroy")
             /\ UNCHANGED <<op, val, victim, unread, dir>> /\ Close(p)
    <3>1. ps' = [ps EXCEPT ![p] = [ps[p] EXCEPT !.fd = None]]
      BY <2>1
    <3>2. [ps[p] EXCEPT !.fd = None] \in Globals
      BY GlobalsUpdates DEF TypeOK, ProcessTypes
    <3>3. ps' \in [Process -> Globals]
      BY <3>1, <3>2 DEF TypeOK, ProcessTypes
    <3>4. ProcessTypes' /\ dir' \in [Key -> Inode \cup {None}]
      BY <2>1, <3>3 DEF TypeOK, ProcessTypes, FileTypes, Globals
    <3>5. FdOpen'
      BY <2>1 DEF TypeOK, ProcessTypes, FileTypes, Globals, FdOpen
    <3>6. /\ ps'[p].fd = None
          /\ \A q \in Process \ {p} : ps'[q] = ps[q] /\ pc'[q] = pc[q] /\ val'[q] = val[q]
      BY <2>1 DEF TypeOK, ProcessTypes, FileTypes, Globals
    <3>7. Data' /\ FileTypes'
      BY <2>1, <3>6, CloseData
    <3>. QED
      BY <3>4, <3>5, <3>7, Parts
  <2>2. CASE Die(p)
    BY <2>2, <1>10
  <2>. QED
    BY <1>16, <2>1, <2>2 DEF Destroy
<1>17. ASSUME NEW p \in Process, NEW o \in {"close", "end"}, Flush(p, o) PROVE IInv'
  <2>1. /\ pc[p] = "script" /\ ps[p].mod /\ ps[p].status = "active" /\ op' = [op EXCEPT ![p] = o]
        /\ UNCHANGED <<val, victim, unread, dir>> /\ ps[p] \in Globals
    BY <1>17 DEF Flush, TypeOK, ProcessTypes
  <2>2. CASE /\ ps[p].fd # None /\ ps[p].lastkey = ps[p].id
             /\ Goto(p, "truncate") /\ UNCHANGED <<ps, content, owner, history>>
    <3>1. ProcessTypes' /\ dir' \in [Key -> Inode \cup {None}]
      BY <2>1, <2>2 DEF TypeOK, ProcessTypes, FileTypes, Globals
    <3>2. FdOpen'
      BY <2>1, <2>2 DEF TypeOK, ProcessTypes, FileTypes, Globals, FdOpen
    <3>3. /\ owner' = owner /\ seen' = seen
          /\ Files(content, blind) \/ UNCHANGED <<dir, content, blind>>
          /\ \A q \in Process :
               /\ ps'[q].fd = ps[q].fd /\ (pc'[q] = "flock" <=> pc[q] = "flock")
               /\ seen[q] # None =>
                    /\ ps'[q].st_size = ps[q].st_size
                    /\ pc'[q] \in {"gc", "unlink", "script", "truncate", "pwrite"}
                    /\ pc'[q] = "pwrite" <=> pc[q] = "pwrite"
                    /\ pc[q] = "pwrite" => val'[q] = val[q]
      BY <2>1, <2>2 DEF TypeOK, ProcessTypes, FileTypes, Globals, SeenOpen, history
    <3>. QED
      BY <3>1, <3>2, <3>3, StayKeeps, Parts
  <2>3. CASE Goto(p, "open") /\ ps' = [ps EXCEPT ![p].fd = None] /\ Close(p)
    <3>1. ps' = [ps EXCEPT ![p] = [ps[p] EXCEPT !.fd = None]]
      BY <2>3
    <3>2. [ps[p] EXCEPT !.fd = None] \in Globals
      BY GlobalsUpdates DEF TypeOK, ProcessTypes
    <3>3. ps' \in [Process -> Globals]
      BY <3>1, <3>2 DEF TypeOK, ProcessTypes
    <3>4. ProcessTypes' /\ dir' \in [Key -> Inode \cup {None}]
      BY <2>1, <2>3, <3>3 DEF TypeOK, ProcessTypes, FileTypes, Globals
    <3>5. FdOpen'
      BY <2>1, <2>3 DEF TypeOK, ProcessTypes, FileTypes, Globals, FdOpen
    <3>6. /\ ps'[p].fd = None
          /\ \A q \in Process \ {p} : ps'[q] = ps[q] /\ pc'[q] = pc[q] /\ val'[q] = val[q]
      BY <2>1, <2>3 DEF TypeOK, ProcessTypes, FileTypes, Globals
    <3>7. Data' /\ FileTypes'
      BY <2>3, <3>6, CloseData
    <3>. QED
      BY <3>4, <3>5, <3>7, Parts
  <2>. QED
    BY <1>17, <2>2, <2>3 DEF Flush
<1>18. ASSUME NEW p \in Process, Truncate(p) PROVE IInv'
  <2> DEFINE i == ps[p].fd
  <2>1. /\ pc[p] = "truncate" /\ Goto(p, "pwrite")
        /\ UNCHANGED <<op, ps, victim, unread, dir, owner, history>>
    BY <1>18 DEF Truncate
  <2>2. i \in Inode /\ owner[i] = p /\ ps[p].st_size \in Nat
    BY <2>1 DEF FdOpen, LockHeld, TypeOK, ProcessTypes, FileTypes, Globals
  <2>3. PICK v \in Val : /\ val' = [val EXCEPT ![p] = v]
                          /\ content' = IF Len(val'[p]) < ps[p].st_size
                                           THEN [content EXCEPT ![i] = <<>>] ELSE content
    BY <1>18 DEF Truncate
  <2>4. v \in Seq(Byte) /\ Len(v) \in Nat /\ <<>> \in Seq(Byte) /\ v \in Sessions
    BY DEF Sessions
  <2>5. val' \in [Process -> Sessions] /\ val'[p] = v /\ \A q \in Process \ {p} : val'[q] = val[q]
    BY <2>3, <2>4 DEF TypeOK, ProcessTypes
  <2>6. /\ content' \in [Inode -> Seq(Byte)]
        /\ content'[i] = IF Len(v) < ps[p].st_size THEN <<>> ELSE content[i]
        /\ \A j \in Inode \ {i} : content'[j] = content[j]
    BY <2>2, <2>3, <2>4, <2>5 DEF TypeOK, FileTypes
  <2>7. ProcessTypes' /\ FileTypes' /\ dir' \in [Key -> Inode \cup {None}]
    BY <2>1, <2>5, <2>6 DEF history, TypeOK, ProcessTypes, FileTypes, Globals
  <2>8. FdOpen' /\ LockHeld'
    BY <2>1 DEF TypeOK, ProcessTypes, FileTypes, Globals, FdOpen, LockHeld
  <2>9. ASSUME NEW q \in Process, q # p, seen[q] # None
        PROVE  ps[q].fd \in Inode \ {i} /\ content'[ps[q].fd] = content[ps[q].fd]
    <3>1. ps[q].fd # None /\ pc[q] # "flock"
      BY <2>9 DEF SeenOpen
    <3>2. ps[q].fd \in Inode
      BY <3>1 DEF TypeOK, ProcessTypes, Globals
    <3>3. owner[ps[q].fd] = q
      BY <3>1, <3>2 DEF LockHeld
    <3>. QED
      BY <2>2, <2>6, <2>9, <3>2, <3>3
  <2>10. seen[p] # None => content[i] = seen[p] /\ ps[p].st_size = Len(seen[p])
    BY <2>1 DEF ReadIsCurrent, SeenOpen
  <2>11. SeenOpen'
    <3> SUFFICES ASSUME NEW q \in Process, seen[q] # None
                 PROVE  /\ ps[q].fd # None
                        /\ pc'[q] \in {"gc", "unlink", "script", "truncate", "pwrite"}
                        /\ ps[q].st_size = Len(seen[q])
                        /\ pc'[q] = "pwrite" => Len(content'[ps[q].fd]) <= Len(val'[q])
      BY <2>1 DEF SeenOpen, history
    <3>1. CASE q # p
      BY <2>1, <2>5, <2>9, <3>1 DEF SeenOpen, TypeOK, ProcessTypes, FileTypes, Globals
    <3>2. CASE q = p
      BY <2>1, <2>2, <2>4, <2>5, <2>6, <2>10, <3>2 DEF SeenOpen, TypeOK, ProcessTypes, FileTypes, Globals
    <3>. QED
      BY <3>1, <3>2
  <2>12. ReadIsCurrent'
    <3> SUFFICES ASSUME NEW q \in Process, seen[q] # None
                 PROVE  content'[ps[q].fd] \in {seen[q]} \cup (IF pc'[q] = "pwrite" THEN {<<>>} ELSE {})
      BY <2>1 DEF ReadIsCurrent, history
    <3>1. CASE q # p
      BY <2>1, <2>9, <3>1 DEF ReadIsCurrent, TypeOK, ProcessTypes, FileTypes, Globals
    <3>2. CASE q = p
      BY <2>1, <2>6, <2>10, <3>2 DEF TypeOK, ProcessTypes, FileTypes, Globals
    <3>. QED
      BY <3>1, <3>2
  <2>13. Unused' /\ OneSession'
    <3>1. \A j \in Inode : InUse(j)' <=> InUse(j)
      BY <2>1 DEF InUse
    <3>. QED
      BY <2>1, <2>6, <3>1 DEF Unused, OneSession, history, Sessions
  <2>. QED
    BY <2>7, <2>8, <2>11, <2>12, <2>13, Parts DEF Data
<1>19. ASSUME NEW p \in Process, PWrite(p) PROVE IInv'
  <2> DEFINE i == ps[p].fd
             w(m) == Overlay(SubSeq(val[p], 1, m), content[i])
             c(m) == [content EXCEPT ![i] = w(m)]
             b(m) == IF seen[p] = None \/ m < Len(val[p]) THEN blind \cup {i} ELSE blind
  <2>1. /\ pc[p] = "pwrite" /\ Saved(p) /\ UNCHANGED <<victim, unread, dir>>
        /\ Unlock(p, {i}) /\ seen' = [seen EXCEPT ![p] = None]
    BY <1>19 DEF PWrite
  <2>2. i \in Inode /\ content[i] \in Seq(Byte) /\ val[p] \in Seq(Byte) /\ val[p] \in Sessions
    <3>1. i # None
      BY <2>1 DEF FdOpen
    <3>2. i \in Inode
      BY <3>1 DEF TypeOK, ProcessTypes, Globals
    <3>3. content[i] \in Seq(Byte)
      BY <3>2 DEF TypeOK, FileTypes
    <3>4. val[p] \in Sessions
      BY DEF TypeOK, ProcessTypes
    <3>5. val[p] \in Seq(Byte)
      BY <3>4, SessionsAreSequences
    <3>. QED
      BY <3>2, <3>3, <3>4, <3>5
  <2>3. PICK m \in 0 .. Len(val[p]) : Files(c(m), b(m))
    <3>1. Len(val[p]) \in Nat
      BY <2>2
    <3>2. PICK m \in {Len(val[p])} \cup (IF "write" \in Faults THEN 0 .. Len(val[p]) ELSE {}) :
             Files(c(m), b(m))
      BY <1>19 DEF PWrite
    <3>. QED
      BY <3>1, <3>2
  <2>4. SubSeq(val[p], 1, m) \in Seq(Byte) /\ (m = Len(val[p]) => SubSeq(val[p], 1, m) = val[p])
    BY <2>2
  <2>5. w(m) \in Seq(Byte)
    BY <2>2, <2>4, OverlayType
  <2>6. w(m) \in Sessions \/ i \in b(m)
    <3> SUFFICES ASSUME seen[p] # None, m = Len(val[p]) PROVE w(m) \in Sessions
      BY <2>2
    <3>1. Len(content[i]) <= Len(val[p])
      BY <2>1 DEF SeenOpen
    <3>2. w(m) = val[p]
      BY <2>2, <2>4, <3>1, OverlayCovers
    <3>. QED
      BY <2>2, <3>2
  <2> HIDE DEF w
  <2>7. /\ c(m) \in [Inode -> Seq(Byte)] /\ b(m) \in SUBSET Inode
        /\ \A j \in Inode : IF owner[j] = p THEN c(m)[j] \in Sessions \/ j \in b(m)
                            ELSE c(m)[j] = content[j] /\ (j \in b(m) <=> j \in blind)
    <3>1. owner[i] = p /\ \A j \in Inode : owner[j] = p => j = i
      BY <2>1, <2>2 DEF LockHeld
    <3>2. c(m) \in [Inode -> Seq(Byte)] /\ b(m) \in SUBSET Inode
      BY <2>2, <2>5 DEF TypeOK, FileTypes
    <3>. QED
      BY <2>2, <2>6, <3>1, <3>2 DEF TypeOK, FileTypes
  <2> HIDE DEF c, b
  <2>8. PICK cc, bb : cc = c(m) /\ bb = b(m)
    OBVIOUS
  <2> DEFINE g == [PsNone EXCEPT !.id = IF op[p] = "close" THEN ps[p].id ELSE None]
  <2>9. g \in Globals
    <3>1. ps[p].id \in Key \cup {None}
      BY DEF TypeOK, ProcessTypes, Globals
    <3>. QED
      BY <3>1 DEF PsNone, Globals
  <2>10. ps' = [ps EXCEPT ![p] = g] /\ ps' \in [Process -> Globals]
    <3>1. ps' = [ps EXCEPT ![p] = g]
      BY <2>1 DEF Saved
    <3>. HIDE DEF g
    <3>. QED
      BY <2>9, <3>1 DEF TypeOK, ProcessTypes
  <2>11. ProcessTypes' /\ dir' \in [Key -> Inode \cup {None}]
    BY <2>1, <2>10 DEF Saved, Sessions, TypeOK, ProcessTypes, FileTypes, Globals
  <2>12. /\ ps'[p].fd = None /\ ps'[p].status = "none" /\ pc'[p] \in {"script", "idle"}
         /\ \A q \in Process \ {p} : ps'[q] = ps[q] /\ pc'[q] = pc[q] /\ val'[q] = val[q]
    BY <2>1, <2>10 DEF Saved, PsNone, TypeOK, ProcessTypes, FileTypes, Globals
  <2>13. FdOpen'
    BY <2>1, <2>12 DEF FdOpen
  <2>14. Data' /\ FileTypes'
    <3>1. /\ cc \in [Inode -> Seq(Byte)] /\ bb \in SUBSET Inode /\ Files(cc, bb)
          /\ \A j \in Inode : IF owner[j] = p THEN cc[j] \in Sessions \/ j \in bb
                              ELSE cc[j] = content[j] /\ (j \in bb <=> j \in blind)
      BY <2>3, <2>7, <2>8
    <3>2. PICK S : S = {i}
      OBVIOUS
    <3>3. Unlock(p, S) /\ \A j \in Inode : owner[j] = p => j \in S
      BY <2>1, <3>2 DEF LockHeld
    <3>6. Replaced(p, S, cc, bb) /\ Files(cc, bb)
      BY <3>1, <3>3 DEF Replaced
    <3>4. seen' = [seen EXCEPT ![p] = None]
      BY <2>1
    <3>5. /\ ps'[p].fd = None
          /\ \A q \in Process \ {p} : ps'[q] = ps[q] /\ pc'[q] = pc[q] /\ val'[q] = val[q]
      BY <2>12
    <3>. HIDE DEF i, IInv, g
    <3>. QED
      BY <3>3, <3>4, <3>5, <3>6, CloseKeeps
  <2>. QED
    BY <2>11, <2>13, <2>14, Parts
<1>20. CASE UNCHANGED vbls
  <2>1. UNCHANGED <<pc, op, ps, val, victim, unread, dir, content, owner, seen, blind>>
    BY <1>20 DEF vbls, process, files, history
  <2>2. ProcessTypes' /\ FileTypes' /\ dir' \in [Key -> Inode \cup {None}]
    BY <2>1 DEF TypeOK, ProcessTypes, FileTypes
  <2>3. FdOpen' /\ LockHeld' /\ SeenOpen' /\ ReadIsCurrent' /\ OneSession' /\ Unused'
    BY <2>1 DEF FdOpen, LockHeld, SeenOpen, ReadIsCurrent, OneSession, Unused, InUse
  <2>. QED
    BY <2>2, <2>3, Parts DEF Data
<1>. QED
  BY <1>1, <1>2, <1>3, <1>4, <1>5, <1>6, <1>7, <1>8, <1>9, <1>10, <1>11, <1>12, <1>13, <1>14, <1>15, <1>16, <1>17, <1>18, <1>19, <1>20
     DEF Next, Step, End, Crash

\* With any number of processes, ids and files, and any faults: the inductive
\* invariant, of which the properties below are parts or consequences.
THEOREM Invariant == Spec => []IInv
<1>1. Init => IInv
  BY InitInv
<1>2. IInv /\ [Next]_vbls => IInv'
  BY StepInv
<1>. QED
  BY <1>1, <1>2, PTL DEF Spec

\* No update is lost: what a request read through php_session_start() is what is
\* in its file when ps_files_write() replaces it, or its own truncation of it.
THEOREM NoLostUpdate == Spec => []ReadIsCurrent
<1>1. IInv => ReadIsCurrent
  BY DEF IInv
<1>. QED
  BY <1>1, Invariant, PTL

\* Only a save without a read, or a failed write, can leave a file that is not
\* one encoded session.
THEOREM FilesWhole == Spec => []OneSession
<1>1. IInv => OneSession
  BY DEF IInv
<1>. QED
  BY <1>1, Invariant, PTL

\* Every path of a request releases the lock before the next session is opened.
THEOREM NoLockLeft == Spec => []LocksReleased
<1>1. IInv => LocksReleased
  BY SessionAssumption DEF IInv, LockHeld, FdOpen, LocksReleased, Owned, Waiting
<1>. QED
  BY <1>1, Invariant, PTL
=============================================================================
