---------------------------- MODULE Ini_proofs ----------------------------
(***************************************************************************)
(* Proofs about Ini, for any directives, handlers and texts: between       *)
(* requests every directive has its configured value; a script moves a     *)
(* directive it may not change only back to that value; and the strings of *)
(* directives and globals are allocated, have one owner, and agree.        *)
(***************************************************************************)
EXTENDS Ini, TLAPS

\* The part of TypeOK the arguments need.
Shape ==
  /\ entry \in [Directive -> [value : Pointer, orig : Pointer, modified : BOOLEAN]]
  /\ call \in Calls \cup {Null} /\ stage \in Stages

PInv == Shape /\ IInv

\* The entries and calls of the program: the configuration never changes.
LEMMA OrigFixed ==
  ASSUME UNCHANGED fixed, NEW d \in Directive
  PROVE  Orig(d)' = Orig(d) /\ Orig(d) \in Pointer
BY DEF fixed, Orig, Config, BuiltIn, Rejects, Pointer

\* No step of the code changes the handlers or php.ini.
LEMMA FixedStep == ASSUME [Next]_vars PROVE UNCHANGED fixed
<1>1. CASE OnModify BY <1>1 DEF OnModify
<1>2. CASE Keep BY <1>2 DEF Keep
<1>3. CASE ModulesShutdown BY <1>3 DEF ModulesShutdown
<1>4. QED
  BY <1>1, <1>2, <1>3 DEF Next, vars, Activate, Decline, Begin, ScriptEnds, FunctionsEnd,
     MemoryShutdown, SweepNext, SweepEnds, Alter, IniRestore, Discard, Assign, Timeout,
     Restart, Quiet, Settled

\* The program starts with no directive modified.
LEMMA InitInv == Init => PInv
<1> SUFFICES ASSUME Init PROVE PInv
  OBVIOUS
<1>1. \A d \in Directive : Orig(d) \in Pointer
  BY DEF Orig, Config, BuiltIn, Rejects, Pointer
<1>2. Shape
  BY <1>1 DEF Init, Shape, Unmodified, Stages, Idle, Pointer
<1>3. \A d \in Directive : ~entry[d].modified /\ entry[d].value = Orig(d)
  BY DEF Init, Unmodified
<1>4. Modified = {}
  BY <1>3 DEF Modified
<1> QED
  BY <1>2, <1>3, <1>4, IniAssumption
  DEF Init, PInv, IInv, OrigIsConfigured, CallInv, SweepInv, Idle

\* A step that leaves the entries and the call alone keeps the invariant, when
\* a request that is swept, or ended, is swept in full.
LEMMA Outside ==
  ASSUME PInv, UNCHANGED <<fixed, entry, call>>, stage' \in Stages,
         call # Null => stage' = stage /\ sweep' = sweep /\ cut' = cut,
         stage' \in {"declined", "deactivate"} =>
           \/ sweep' = Directive
           \/ stage' = stage /\ sweep' = sweep,
         stage' \in {"memory", Idle} =>
           cut' \/ Modified = {} \/ (stage \in {"memory", Idle} /\ cut' = cut)
  PROVE  PInv'
<1>1. Shape' BY DEF PInv, Shape
<1>2. \A d \in Directive : Orig(d)' = Orig(d) BY OrigFixed
<1>3. Modified' = Modified /\ Modified \subseteq Directive BY DEF Modified
<1>4. CallInv' BY <1>2, IniAssumption DEF PInv, IInv, CallInv, Changeable, Shape, Calls
<1>5. SweepInv' BY <1>3 DEF PInv, IInv, SweepInv
<1>6. QED BY <1>1, <1>2, <1>4, <1>5 DEF PInv, IInv, OrigIsConfigured

\* A bailout keeps it: what is left modified is recorded as cut off.
LEMMA BailoutKeeps == ASSUME PInv, Bailout, UNCHANGED fixed PROVE PInv'
<1>1. Shape' BY DEF PInv, Shape, Bailout, Stages, Idle
<1>2. \A d \in Directive : Orig(d)' = Orig(d) BY OrigFixed
<1>3. Modified' = Modified BY DEF Modified, Bailout
<1>4. CallInv' BY DEF CallInv, Bailout
<1>5. stage' \notin {"declined", "deactivate"} BY DEF Bailout, Idle
<1>6. stage' \in {"memory", Idle} => stage \notin {"run", "functions"}
  BY DEF Bailout, Idle
<1>7. SweepInv' BY <1>3, <1>5, <1>6 DEF SweepInv, Bailout
<1>8. QED BY <1>1, <1>2, <1>4, <1>7 DEF PInv, IInv, OrigIsConfigured, Bailout

\* So does an efree() of freed memory, after which nothing is promised.
LEMMA UndefinedKeeps == ASSUME PInv, Undefined, UNCHANGED fixed PROVE PInv'
<1>1. Shape' BY DEF PInv, Shape, Undefined, state, Stages
<1>2. \A d \in Directive : Orig(d)' = Orig(d) BY OrigFixed
<1>3. CallInv' /\ SweepInv' BY DEF CallInv, SweepInv, Undefined, Idle
<1>4. QED BY <1>1, <1>2, <1>3 DEF PInv, IInv, OrigIsConfigured, Undefined, state

\* A handler that returns keeps it, whatever it answers.
LEMMA Handled ==
  ASSUME PInv, call # Null, call.at = "notify", UNCHANGED <<fixed, entry, stage, sweep, cut>>,
         NEW at \in {"keep", "discard"}, call' = [call EXCEPT !.at = at],
         at = "discard" => call.what = "alter"
  PROVE  PInv'
<1>1. call \in Calls BY DEF PInv, Shape
<1>2. call' \in Calls /\ call'.d = call.d /\ call'.what = call.what /\ call'.at = at
  BY <1>1 DEF Calls
<1>3. Shape' BY <1>2 DEF PInv, Shape
<1>4. \A d \in Directive : Orig(d)' = Orig(d) BY OrigFixed
<1>5. Modified' = Modified BY DEF Modified
<1>6. CallInv' BY <1>1, <1>2 DEF PInv, IInv, CallInv, Changeable, Calls
<1>7. call' # Null BY <1>2, IniAssumption
<1>8. SweepInv' BY <1>2, <1>5, <1>7 DEF PInv, IInv, SweepInv
<1>9. QED BY <1>3, <1>4, <1>6, <1>8 DEF PInv, IInv, OrigIsConfigured

\* Every handler returns, or bails out, or runs into freed memory.
LEMMA OnModifyKeeps == ASSUME PInv, OnModify PROVE PInv'
<1> DEFINE s == Str(call.d, call.new)
<1>1. UNCHANGED fixed /\ call # Null /\ call.at = "notify" BY DEF OnModify
<1>2. ASSUME Unaffected, Past("keep") \/ (Past("discard") /\ call.what = "alter")
      PROVE  PInv'
  BY <1>1, <1>2, Handled DEF Unaffected, Past
<1>3. CASE OnUpdateString(call.d, call.new)
  BY <1>2, <1>3 DEF OnUpdateString, Set
<1>4. CASE OnUpdateStringUnempty(call.d, call.new, s)
  BY <1>2, <1>4 DEF OnUpdateStringUnempty, Set, Refuses
<1>5. CASE OnUpdateInt(call.d, s)
  BY <1>2, <1>5 DEF OnUpdateInt, Set
<1>6. CASE OnUpdateSerializer(call.d, s)
  BY <1>1, <1>2, <1>6, BailoutKeeps DEF OnUpdateSerializer, Set
<1>7. CASE OnUpdateEncoding(call.d, s)
  BY <1>2, <1>7 DEF OnUpdateEncoding, Set, LeavesIt, Refuses
<1>8. CASE OnChangeCallback(call.d, s)
  BY <1>1, <1>2, <1>8, UndefinedKeeps DEF OnChangeCallback, Set
<1>9. QED BY <1>3, <1>4, <1>5, <1>6, <1>7, <1>8 DEF OnModify

\* zend_alter_ini_entry() saves a value that is the configured one, and keeps
\* it over further alterations.
LEMMA KeepKeeps == ASSUME PInv, Keep PROVE PInv'
<1> DEFINE d == call.d
<1>1. UNCHANGED fixed /\ call # Null /\ call.at = "keep" /\ call \in Calls /\ d \in Directive
  BY DEF Keep, PInv, Shape, Calls
<1>2. \A e \in Directive : Orig(e)' = Orig(e) /\ Orig(e) \in Pointer BY <1>1, OrigFixed
<1>3. CASE d \in stale /\ entry[d].modified
  BY <1>1, <1>3, UndefinedKeeps DEF Keep
<1>4. CASE ~(d \in stale /\ entry[d].modified)
  <2>1. Past("assign") /\ Settled BY <1>4 DEF Keep
  <2>2. call' \in Calls /\ call'.d = d /\ call'.what = call.what /\ call' # Null
    BY <1>1, <2>1, IniAssumption DEF Past, Calls
  <2>3. \A e \in Directive :
          /\ entry'[e].value = entry[e].value /\ entry'[e].modified = entry[e].modified
          /\ entry'[e].orig = IF e = d /\ ~entry[d].modified THEN entry[e].value
                              ELSE entry[e].orig
    BY <1>1, <1>4 DEF Keep, PInv, Shape
  <2>4. entry' \in [Directive -> [value : Pointer, orig : Pointer, modified : BOOLEAN]]
    BY <1>1, <1>4 DEF Keep, PInv, Shape
  <2>5. Shape' BY <2>1, <2>2, <2>4 DEF PInv, Shape, Settled
  <2>6. Modified' = Modified BY <2>3 DEF Modified
  <2>7. OrigIsConfigured' BY <1>2, <2>3 DEF PInv, IInv, OrigIsConfigured
  <2>8. entry'[d].orig = Orig(d)
    BY <1>1, <2>3 DEF PInv, IInv, OrigIsConfigured
  <2>9. CallInv'
    BY <1>1, <2>1, <2>2, <2>3, <2>8
    DEF PInv, IInv, CallInv, Changeable, Settled, Past, Orig, Config, BuiltIn, Rejects, fixed
  <2>10. SweepInv' BY <2>1, <2>2, <2>6 DEF PInv, IInv, SweepInv, Settled
  <2>11. QED BY <1>2, <2>3, <2>5, <2>7, <2>9, <2>10 DEF PInv, IInv
<1>5. QED BY <1>3, <1>4

\* The end of an alteration, or of a restoration.
LEMMA AssignKeeps == ASSUME PInv, Assign PROVE PInv'
<1> DEFINE d == call.d
<1>1. UNCHANGED <<fixed, stage, sweep, cut>> /\ call' = Null BY DEF Assign, Settled
<1>2. call # Null /\ call.at = "assign" /\ call \in Calls /\ d \in Directive
  BY DEF Assign, PInv, Shape, Calls
<1>3. \A e \in Directive : Orig(e)' = Orig(e) /\ Orig(e) \in Pointer BY <1>1, OrigFixed
<1>4. call.what \in {"alter", "restore"} /\ call.new \in Pointer BY <1>2 DEF Calls
<1>5. \A e \in Directive : e # d => entry'[e] = entry[e]
  BY <1>2 DEF Assign, PInv, Shape
<1>6. CASE call.what = "alter"
  <2>1. entry'[d] = [value |-> call.new, orig |-> entry[d].orig, modified |-> TRUE]
    BY <1>2, <1>6 DEF Assign, PInv, Shape
  <2>2. entry' \in [Directive -> [value : Pointer, orig : Pointer, modified : BOOLEAN]]
    BY <1>2, <1>4, <1>6 DEF Assign, PInv, Shape
  <2>3. entry[d].orig = Orig(d) BY <1>2, <1>6 DEF PInv, IInv, CallInv
  <2>4. stage \in {"activate", "run", "functions"}
    BY <1>2, <1>6 DEF PInv, IInv, CallInv
  <2>5. CallInv' /\ SweepInv' BY <1>1, <2>4 DEF CallInv, SweepInv, Idle
  <2>6. \A e \in Directive : ~entry'[e].modified => entry'[e].value = Orig(e)'
    BY <1>3, <1>5, <2>1 DEF PInv, IInv
  <2>7. OrigIsConfigured'
    BY <1>3, <1>5, <2>1, <2>3 DEF PInv, IInv, OrigIsConfigured
  <2>8. Shape' BY <1>1, <2>2 DEF PInv, Shape
  <2>9. QED BY <2>5, <2>6, <2>7, <2>8 DEF PInv, IInv
<1>7. CASE call.what = "restore"
  <2>1. entry'[d] = [value |-> entry[d].orig, orig |-> Null, modified |-> FALSE]
    BY <1>2, <1>7 DEF Assign, PInv, Shape
  <2>2. entry' \in [Directive -> [value : Pointer, orig : Pointer, modified : BOOLEAN]]
    BY <1>2, <1>7 DEF Assign, PInv, Shape, Pointer
  <2>3. entry[d].orig = Orig(d)
    BY <1>2, <1>7 DEF PInv, IInv, CallInv, OrigIsConfigured
  <2>4. \A e \in Directive : ~entry'[e].modified => entry'[e].value = Orig(e)'
    BY <1>3, <1>5, <2>1, <2>3 DEF PInv, IInv
  <2>5. OrigIsConfigured'
    BY <1>3, <1>5, <2>1 DEF PInv, IInv, OrigIsConfigured
  <2>6. Modified' = Modified \ {d} BY <1>2, <1>5, <2>1 DEF Modified
  <2>7. CallInv' /\ SweepInv'
    BY <1>1, <1>2, <2>6 DEF CallInv, SweepInv, PInv, IInv
  <2>8. Shape' BY <1>1, <2>2 DEF PInv, Shape
  <2>9. QED BY <2>4, <2>5, <2>7, <2>8 DEF PInv, IInv
<1>8. QED BY <1>4, <1>6, <1>7

\* The end of an alteration that the handler has refused.
LEMMA DiscardKeeps == ASSUME PInv, Discard PROVE PInv'
<1>1. call' = Null /\ UNCHANGED <<fixed, stage, sweep, cut, entry>> BY DEF Discard, Settled
<1>2. stage \in {"activate", "run", "functions"}
  BY DEF Discard, PInv, IInv, CallInv
<1>3. \A e \in Directive : Orig(e)' = Orig(e) BY <1>1, OrigFixed
<1>4. CallInv' /\ SweepInv' BY <1>1, <1>2 DEF CallInv, SweepInv, Idle
<1>5. QED BY <1>1, <1>3, <1>4 DEF PInv, Shape, IInv, OrigIsConfigured

\* The start of an alteration.
LEMMA AlterKeeps ==
  ASSUME PInv, NEW d \in Directive, NEW s \in Texts, Alter(d, s) PROVE PInv'
<1>1. PICK a \in Addr : call' = [what |-> "alter", d |-> d, new |-> a, at |-> "notify"]
  BY DEF Alter
<1>2. UNCHANGED <<fixed, stage, sweep, cut, entry>> BY DEF Alter, Settled
<1>3. stage \in {"activate", "run", "functions"} BY DEF Alter
<1>4. call' \in Calls BY <1>1 DEF Calls, Pointer
<1>5. \A e \in Directive : Orig(e)' = Orig(e) BY <1>2, OrigFixed
<1>6. CallInv' BY <1>1, <1>2, <1>3 DEF CallInv, Alter, Changeable
<1>7. SweepInv' BY <1>2, <1>3 DEF SweepInv, Idle
<1>8. QED BY <1>2, <1>4, <1>5, <1>6, <1>7 DEF PInv, Shape, IInv, OrigIsConfigured

\* A directive that is to be restored is modified, and has its configured value.
LEMMA RestoringCall ==
  ASSUME PInv, NEW d \in Directive, entry[d].modified, Restoring(d)
  PROVE  /\ call' \in Calls /\ call' # Null
         /\ call'.d = d /\ call'.what = "restore" /\ call'.at = "notify"
<1>1. entry[d].orig \in Pointer BY DEF PInv, Shape
<1>2. call' \in Calls BY <1>1 DEF Restoring, Calls
<1>3. QED BY <1>2, IniAssumption DEF Restoring

LEMMA IniRestoreKeeps ==
  ASSUME PInv, NEW d \in Directive, IniRestore(d) PROVE PInv'
<1>1. UNCHANGED <<fixed, stage, sweep, cut, entry>> /\ entry[d].modified /\ Restoring(d)
  BY DEF IniRestore, Settled, state
<1>2. stage \in {"run", "functions"} BY DEF IniRestore
<1>3. /\ call' \in Calls /\ call'.d = d /\ call'.what = "restore"
      /\ call'.at = "notify"
  BY <1>1, RestoringCall
<1>4. \A e \in Directive : Orig(e)' = Orig(e) BY <1>1, OrigFixed
<1>5. CallInv' BY <1>1, <1>2, <1>3 DEF CallInv
<1>6. SweepInv' BY <1>1, <1>2 DEF SweepInv, Idle
<1>7. QED BY <1>1, <1>3, <1>4, <1>5, <1>6 DEF PInv, Shape, IInv, OrigIsConfigured

\* The sweep goes through the table in its order: what it passes over is not
\* modified.
LEMMA SweepNextKeeps == ASSUME PInv, SweepNext PROVE PInv'
<1>1. PICK d \in sweep \cap Modified :
        /\ \A e \in sweep \cap Modified : Rank[d] <= Rank[e]
        /\ sweep' = {e \in sweep : Rank[e] > Rank[d]} /\ Restoring(d)
  BY DEF SweepNext
<1>2. UNCHANGED <<fixed, stage, cut, entry>> BY DEF SweepNext, state
<1>3. call = Null /\ stage \in {"deactivate", "declined"} BY DEF SweepNext, Sweeping
<1>4. d \in Directive /\ entry[d].modified BY DEF Modified
<1>5. /\ call' \in Calls /\ call'.d = d /\ call'.what = "restore" /\ call' # Null
      /\ call'.at = "notify"
  BY <1>1, <1>4, RestoringCall
<1>6. \A e \in Directive : Orig(e)' = Orig(e) BY <1>2, OrigFixed
<1>7. CallInv' BY <1>2, <1>3, <1>4, <1>5 DEF CallInv
<1>8. \A e \in Modified : e \in sweep' \/ e = d
  <2> SUFFICES ASSUME NEW e \in Modified, e # d PROVE e \in sweep'
    OBVIOUS
  <2>1. e \in Directive /\ e \in sweep BY <1>3 DEF Modified, PInv, IInv, SweepInv
  <2>2. Rank[d] <= Rank[e] BY <1>1, <2>1
  <2>3. Rank[d] # Rank[e] /\ Rank[d] \in Nat /\ Rank[e] \in Nat
    BY <1>4, <2>1, IniAssumption
  <2>4. QED BY <1>1, <2>1, <2>2, <2>3
<1>9. Modified' = Modified BY <1>2 DEF Modified
<1>10. SweepInv' BY <1>2, <1>3, <1>5, <1>8, <1>9 DEF SweepInv, Idle
<1>11. QED BY <1>2, <1>5, <1>6, <1>7, <1>10 DEF PInv, Shape, IInv, OrigIsConfigured

\* A new process starts like the first.
LEMMA RestartKeeps == ASSUME PInv, Restart PROVE PInv'
<1>1. UNCHANGED <<fixed, call>> /\ stage = "undefined" /\ stage' = Idle BY DEF Restart
<1>2. \A d \in Directive : Orig(d)' = Orig(d) /\ Orig(d) \in Pointer BY <1>1, OrigFixed
<1>3. entry' = [d \in Directive |-> Unmodified(d)] BY DEF Restart
<1>4. entry' \in [Directive -> [value : Pointer, orig : Pointer, modified : BOOLEAN]]
  BY <1>2, <1>3 DEF Unmodified, Pointer
<1>5. \A d \in Directive : ~entry'[d].modified /\ entry'[d].value = Orig(d)
  BY <1>3 DEF Unmodified
<1>6. call = Null BY <1>1 DEF PInv, IInv, CallInv
<1>7. Modified' = {} BY <1>5 DEF Modified
<1>8. Shape' BY <1>1, <1>4, <1>6 DEF Shape, Stages
<1>9. CallInv' /\ SweepInv' BY <1>1, <1>6, <1>7 DEF CallInv, SweepInv, Idle
<1>10. QED BY <1>2, <1>5, <1>8, <1>9 DEF PInv, IInv, OrigIsConfigured

\* Every step of the program keeps the invariant.
LEMMA StepInv == PInv /\ [Next]_vars => PInv'
<1> SUFFICES ASSUME PInv, [Next]_vars PROVE PInv'
  OBVIOUS
<1>0. UNCHANGED fixed BY FixedStep
<1>1. CASE Activate
  BY <1>0, <1>1, Outside DEF Activate, Quiet, state, Stages, Idle
<1>2. CASE Decline
  BY <1>0, <1>2, Outside DEF Decline, Quiet, state, Stages, Idle
<1>3. CASE Begin
  BY <1>0, <1>3, Outside DEF Begin, Quiet, state, Stages, Idle
<1>4. CASE ScriptEnds
  BY <1>0, <1>4, Outside DEF ScriptEnds, Quiet, state, Stages, Idle
<1>5. CASE FunctionsEnd
  BY <1>0, <1>5, Outside DEF FunctionsEnd, Quiet, state, Stages, Idle
<1>6. CASE ModulesShutdown
  <2>1. CASE \E d \in Callbacks \cap stale : global[d] # Null
    BY <1>0, <1>6, <2>1, UndefinedKeeps DEF ModulesShutdown
  <2>2. CASE ~ \E d \in Callbacks \cap stale : global[d] # Null
    <3>1. /\ stage = "modules" /\ stage' = "deactivate" /\ sweep' = Directive
          /\ UNCHANGED <<entry, call, cut>>
      BY <1>6, <2>2 DEF ModulesShutdown
    <3>2. call = Null BY <3>1 DEF PInv, IInv, CallInv
    <3>3. QED BY <1>0, <3>1, <3>2, Outside DEF Stages, Idle
  <2>3. QED BY <2>1, <2>2
<1>7. CASE MemoryShutdown
  <2>1. /\ stage = "memory" /\ stage' = Idle /\ UNCHANGED <<entry, call, sweep, cut>>
    BY <1>7 DEF MemoryShutdown
  <2>2. call = Null BY <2>1 DEF PInv, IInv, CallInv
  <2>3. QED BY <1>0, <2>1, <2>2, Outside DEF Stages, Idle
<1>8. CASE SweepNext BY <1>8, SweepNextKeeps
<1>9. CASE SweepEnds
  <2>1. /\ call = Null /\ UNCHANGED <<entry, call>>
        /\ stage \in {"declined", "deactivate"} /\ stage' \in {"memory", Idle}
    BY <1>9 DEF SweepEnds, Sweeping, state
  <2>2. Modified = {}
    BY <1>9, <2>1 DEF SweepEnds, PInv, IInv, SweepInv
  <2>3. QED BY <1>0, <2>1, <2>2, Outside DEF Stages, Idle
<1>10. CASE \E d \in Directive, s \in Texts : Alter(d, s) BY <1>10, AlterKeeps
<1>11. CASE \E d \in Directive : IniRestore(d) BY <1>11, IniRestoreKeeps
<1>12. CASE OnModify BY <1>12, OnModifyKeeps
<1>13. CASE Keep BY <1>13, KeepKeeps
<1>14. CASE Discard
  BY <1>14, DiscardKeeps
<1>15. CASE Assign BY <1>15, AssignKeeps
<1>16. CASE Timeout BY <1>0, <1>16, BailoutKeeps DEF Timeout
<1>17. CASE Restart BY <1>17, RestartKeeps
<1>18. CASE UNCHANGED vars
  <2>1. UNCHANGED <<fixed, entry, call, stage, sweep, cut>> BY <1>18 DEF vars, state
  <2>2. QED BY <2>1, Outside DEF PInv, Shape
<1>19. QED
  BY <1>1, <1>2, <1>3, <1>4, <1>5, <1>6, <1>7, <1>8, <1>9, <1>10, <1>11, <1>12, <1>13,
     <1>14, <1>15, <1>16, <1>17, <1>18 DEF Next

\* Every directive's entry stays consistent, and none that is modified escapes
\* the end of the request that is not cut off.
THEOREM Invariant == Spec => []IInv
<1>1. PInv => IInv BY DEF PInv
<1>2. QED BY <1>1, InitInv, StepInv, PTL DEF Spec

\* zend_alter_ini_entry() keeps the configured value however often it is called.
THEOREM OriginalKept == Spec => []OrigIsConfigured
<1>1. IInv => OrigIsConfigured BY DEF IInv
<1>2. QED BY <1>1, Invariant, PTL

\* Between requests every directive has its configured value, unless
\* zend_ini_deactivate() was left out or cut off.
THEOREM RequestsRestore == Spec => []Restored
<1>1. IInv => Restored BY DEF IInv, SweepInv, Modified, Restored, Idle
<1>2. QED BY <1>1, Invariant, PTL

\* A step that leaves the entries alone changes no value, and the end of a
\* restoration only back.
LEMMA ValueStep ==
  ASSUME PInv, [Next]_vars, NEW d \in Directive \ UserDirective,
         stage \in {"run", "functions"}, entry'[d].value # entry[d].value
  PROVE  entry'[d].value = Orig(d)
<1>1. stage # "undefined" /\ stage # "modules" OBVIOUS
<1>2. CASE UNCHANGED entry BY <1>2
<1>3. CASE Keep
  <2>1. call.d \in Directive BY <1>3 DEF Keep, PInv, Shape, Calls
  <2>2. entry'[d].value = entry[d].value
    BY <1>3, <2>1 DEF Keep, PInv, Shape, Undefined, state
  <2>3. QED BY <2>2
<1>4. CASE Assign
  <2>1. call # Null /\ call \in Calls /\ call.d \in Directive /\ call.at = "assign"
    BY <1>4 DEF Assign, PInv, Shape, Calls
  <2>2. call.d = d BY <1>4, <2>1 DEF Assign, PInv, Shape
  <2>3. call.what # "alter" BY <2>1, <2>2 DEF PInv, IInv, CallInv, Changeable
  <2>4. entry'[d].value = entry[d].orig
    BY <1>4, <2>2, <2>3 DEF Assign, PInv, Shape
  <2>5. call.what = "restore" BY <2>1, <2>3 DEF Calls
  <2>6. entry[d].modified BY <2>1, <2>2, <2>5 DEF PInv, IInv, CallInv
  <2>7. QED BY <2>4, <2>6 DEF PInv, IInv, OrigIsConfigured
<1>5. CASE OnModify
  <2>1. UNCHANGED entry
    BY <1>5 DEF OnModify, OnUpdateString, OnUpdateStringUnempty, OnUpdateInt,
       OnUpdateSerializer, OnUpdateEncoding, OnChangeCallback, Unaffected, Bailout,
       Undefined, state
  <2>2. QED BY <1>2, <2>1
<1>6. QED
  BY <1>1, <1>2, <1>3, <1>4, <1>5
  DEF Next, vars, state, Activate, Decline, Begin, ScriptEnds, FunctionsEnd, Quiet,
      ModulesShutdown, MemoryShutdown, SweepNext, SweepEnds, Alter, IniRestore, Discard,
      Timeout, Bailout, Restart

\* A script moves a directive that is not PHP_INI_USER only back to its
\* configured value.
THEOREM ScriptsGoBack == Spec => OnlyBack
<1>1. PInv /\ [Next]_vars
        => [\A d \in Directive \ UserDirective :
              stage \in {"run", "functions"} /\ entry'[d].value # entry[d].value
                => entry'[d].value = Orig(d)]_vars
  BY ValueStep
<1>2. QED BY <1>1, InitInv, StepInv, PTL DEF Spec, OnlyBack

(***************************************************************************)
(* Memory: the strings of directives and globals                           *)
(***************************************************************************)
Data ==
  /\ handler \in [Directive -> AllHandlers] /\ ini \in [Directive -> Texts \cup {Null}]
  /\ global \in [Directive -> Pointer \cup Texts \cup {0, Native}]
  /\ heap \in [Addr -> Texts \cup {Free}]
  /\ {sweep, split, stale} \subseteq SUBSET Directive /\ {fired, cut} \subseteq BOOLEAN

LEMMA Types == TypeOK <=> Shape /\ Data
  BY DEF TypeOK, Shape, Data

Owns == OwnInv /\ NewInv /\ SaysInv

LEMMA MemParts == MemInv <=> Shape /\ Data /\ (stage # "undefined" => Owns)
  BY Types DEF MemInv, Owns

\* The configured value of a directive, and the string at an address.
LEMMA ConfigFixed ==
  ASSUME UNCHANGED fixed, NEW d \in Directive
  PROVE  /\ handler'[d] = handler[d] /\ Config(d)' = Config(d) /\ Orig(d)' = Orig(d)
         /\ Callbacks' = Callbacks
  BY DEF fixed, Config, BuiltIn, Rejects, Orig, Callbacks

LEMMA ConfigType ==
  ASSUME Data, NEW d \in Directive
  PROVE  /\ Config(d) \in Texts \cup {Null} /\ Orig(d) \in {Conf, Null}
         /\ Config(d) = Null <=> Orig(d) = Null
         /\ handler[d] = "unempty" => Config(d) # Null /\ Config(d) # Empty
         /\ handler[d] = "encoding" => Config(d) \in Known \cup {Null, Empty}
  BY IniAssumption DEF Data, Config, BuiltIn, Rejects, Orig, Calls

LEMMA PointerApart == Conf \notin Addr /\ Null \notin Addr /\ Conf # Null /\ Free \notin Texts
  BY IniAssumption

\* A step that leaves a directive alone leaves it its strings.
LEMMA OthersKeep ==
  ASSUME UNCHANGED fixed, NEW e \in Directive,
         entry'[e] = entry[e], global'[e] = global[e], e \in stale' <=> e \in stale,
         call # Null => call.d # e, call' # Null => call'.d # e
  PROVE  /\ Strings(e)' = Strings(e) /\ ~Told(e) /\ ~Told(e)'
         /\ HasValue(e)' = HasValue(e) /\ HasGlobal(e)' = HasGlobal(e)
<1>1. ~Told(e) /\ ~Told(e)' /\ ~Working(e, {"assign"}) /\ ~Working(e, {"assign"})'
  BY DEF Told, Working
<1>2. HasValue(e)' = HasValue(e) /\ HasGlobal(e)' = HasGlobal(e)
  BY <1>1, ConfigFixed DEF HasValue, HasGlobal
<1> QED
  BY <1>1, <1>2 DEF Strings

\* What a step that works on one directive d has to show of it.
OneOf(d) ==
  /\ call # Null => call.d = d
  /\ \A p \in Strings(d) : heap[p] # Free
  /\ \A e \in Directive \ {d} : Strings(d) \cap Strings(e) = {}
  /\ d \in Callbacks /\ HasValue(d) /\ HasGlobal(d) /\ global[d] \in Addr =>
       entry[d].value # global[d]
  /\ entry[d].orig \notin Addr
  /\ Told(d) => Says(d, call.new)
  /\ ~Told(d) /\ d \notin split \cup stale => Says(d, entry[d].value)

\* What it leaves alone.
Alone(d) ==
  /\ \A e \in Directive \ {d} :
       /\ entry'[e] = entry[e] /\ global'[e] = global[e]
       /\ e \in stale' <=> e \in stale
       /\ e \in split' <=> e \in split
       /\ \A p \in Strings(e) : heap'[p] = heap[p]

LEMMA OneStep ==
  ASSUME PInv, Data, Owns, UNCHANGED fixed, NEW d \in Directive,
         call # Null => call.d = d, Alone(d), OneOf(d)', NewInv'
  PROVE  Owns'
<1>1. ASSUME NEW e \in Directive \ {d}
      PROVE  /\ Strings(e)' = Strings(e) /\ ~Told(e) /\ ~Told(e)'
             /\ HasValue(e)' = HasValue(e) /\ HasGlobal(e)' = HasGlobal(e)
             /\ \A p \in Strings(e) : heap'[p] = heap[p]
  <2>1. call' # Null => call'.d = d
    BY DEF OneOf
  <2> QED
    BY <1>1, <2>1, OthersKeep DEF Alone
<1>2. ASSUME NEW e \in Directive, NEW p \in Strings(e)'
      PROVE  heap'[p] # Free
  BY <1>1, <1>2 DEF OneOf, Owns, OwnInv
<1>3. ASSUME NEW e \in Directive, NEW f \in Directive, e # f
      PROVE  Strings(e)' \cap Strings(f)' = {}
  <2>1. CASE e = d
    BY <2>1, <1>3 DEF OneOf
  <2>2. CASE f = d
    BY <2>2, <1>3 DEF OneOf
  <2>3. CASE e # d /\ f # d
    BY <1>1, <1>3, <2>3 DEF Owns, OwnInv
  <2> QED
    BY <2>1, <2>2, <2>3
<1>4. ASSUME NEW e \in Callbacks', HasValue(e)', HasGlobal(e)', global'[e] \in Addr
      PROVE  entry'[e].value # global'[e]
  <2>0. e \in Directive /\ e \in Callbacks
    BY <1>4, ConfigFixed DEF Callbacks
  <2>1. CASE e = d
    BY <1>4, <2>1 DEF OneOf
  <2>2. CASE e # d
    BY <1>1, <1>4, <2>0, <2>2 DEF Owns, OwnInv, Alone
  <2> QED
    BY <2>1, <2>2
<1>5. ASSUME NEW e \in Directive
      PROVE  entry'[e].orig \notin Addr
  BY <1>5 DEF OneOf, Alone, Owns, OwnInv
<1>6. ASSUME NEW e \in Directive
      PROVE  /\ Told(e)' => Says(e, call.new)'
             /\ (~Told(e) /\ e \notin split \cup stale => Says(e, entry[e].value))'
  <2>1. CASE e = d
    BY <2>1 DEF OneOf
  <2>2. CASE e # d
    <3>1. ~Told(e)' /\ ~Told(e) /\ HasValue(e)' = HasValue(e)
      BY <1>1, <2>2
    <3>2. ASSUME e \notin split' \cup stale'
          PROVE  Says(e, entry[e].value)'
      <4>1. e \notin split \cup stale /\ entry'[e] = entry[e] /\ global'[e] = global[e]
        BY <2>2, <3>2 DEF Alone
      <4>2. Says(e, entry[e].value)
        BY <3>1, <4>1 DEF Owns, SaysInv
      <4>3. HasValue(e)
        BY <2>2, <4>1 DEF HasValue, Working
      <4>4. entry[e].value \in Addr => heap'[entry[e].value] = heap[entry[e].value]
        BY <1>1, <2>2, <4>3 DEF Strings
      <4>5. entry[e].value \in Pointer
        BY DEF PInv, Shape
      <4>6. Str(e, entry[e].value)' = Str(e, entry[e].value)
        BY <4>1, <4>4, <4>5, ConfigFixed DEF Str, Pointer
      <4> QED
        BY <4>1, <4>2, <4>6, ConfigFixed DEF Says
    <3> QED
      BY <3>1, <3>2
  <2> QED
    BY <2>1, <2>2
<1> QED
  BY <1>2, <1>3, <1>4, <1>5, <1>6 DEF Owns, OwnInv, SaysInv

\* A step that changes neither the strings nor who refers to them.
LEMMA SameOwns ==
  ASSUME Owns, UNCHANGED <<fixed, state, call, split, stale>>
  PROVE  Owns'
  BY DEF Owns, OwnInv, NewInv, SaysInv, Strings, HasValue, HasGlobal, Told, Working, Says, Str,
     Config, BuiltIn, Rejects, Orig, Callbacks, state, fixed

\* The start of a call, and a call that ends before its handler has accepted the value.
Untold(c, d) == c # Null => c.d = d /\ c.at \in {"notify", "discard"}

LEMMA UntoldStrings ==
  ASSUME UNCHANGED <<fixed, entry, global, split, stale>>, NEW d \in Directive,
         Untold(call, d), Untold(call', d)
  PROVE  /\ ~Told(d) /\ ~Told(d)' /\ HasValue(d)' = HasValue(d) /\ HasGlobal(d)' = HasGlobal(d)
         /\ \A e \in Directive : Strings(e)' = Strings(e)
<1>1. ~Told(d) /\ ~Told(d)' /\ ~Working(d, {"assign"}) /\ ~Working(d, {"assign"})'
  BY DEF Untold, Told, Working
<1>2. HasValue(d)' = HasValue(d) /\ HasGlobal(d)' = HasGlobal(d)
  BY <1>1, ConfigFixed DEF HasValue, HasGlobal
<1>3. Strings(d)' = Strings(d)
  BY <1>2 DEF Strings
<1>4. ASSUME NEW e \in Directive, e # d
      PROVE  Strings(e)' = Strings(e)
  <2>1. (call # Null => call.d # e) /\ (call' # Null => call'.d # e)
    BY <1>4 DEF Untold
  <2> QED
    BY <2>1, OthersKeep
<1> QED
  BY <1>1, <1>2, <1>3, <1>4

LEMMA UntoldOwns ==
  ASSUME PInv, Data, Owns, UNCHANGED <<fixed, entry, global, split, stale>>, NEW d \in Directive,
         Untold(call, d), Untold(call', d),
         \A e \in Directive : \A p \in Strings(e) : heap'[p] = heap[p],
         NewInv'
  PROVE  Owns'
<1>1. /\ ~Told(d) /\ ~Told(d)' /\ HasValue(d)' = HasValue(d) /\ HasGlobal(d)' = HasGlobal(d)
      /\ \A e \in Directive : Strings(e)' = Strings(e)
  BY UntoldStrings
<1>2. (call # Null => call.d = d) /\ (call' # Null => call'.d = d)
  BY DEF Untold
<1>3. Alone(d)
  BY DEF Alone
<1>4. ASSUME d \notin split \cup stale PROVE Says(d, entry[d].value)'
  <2>1. Says(d, entry[d].value)
    BY <1>1, <1>4 DEF Owns, SaysInv
  <2>2. HasValue(d)
    BY <1>1, <1>4 DEF HasValue, Told, Working
  <2>3. entry[d].value \in Pointer
    BY DEF PInv, Shape
  <2>4. entry[d].value \in Addr => heap'[entry[d].value] = heap[entry[d].value]
    BY <2>2 DEF Strings
  <2>5. Str(d, entry[d].value)' = Str(d, entry[d].value)
    BY <2>3, <2>4, ConfigFixed DEF Str, Pointer
  <2> QED
    BY <2>1, <2>5, ConfigFixed DEF Says
<1>5. OneOf(d)'
  <2>1. \A p \in Strings(d)' : heap'[p] # Free
    BY <1>1 DEF Owns, OwnInv
  <2>2. \A e \in Directive \ {d} : Strings(d)' \cap Strings(e)' = {}
    BY <1>1 DEF Owns, OwnInv
  <2>3. d \in Callbacks' /\ HasValue(d)' /\ HasGlobal(d)' /\ global'[d] \in Addr =>
          entry'[d].value # global'[d]
    BY <1>1, ConfigFixed DEF Owns, OwnInv
  <2>4. entry'[d].orig \notin Addr
    BY DEF Owns, OwnInv
  <2> QED
    BY <1>1, <1>2, <1>4, <2>1, <2>2, <2>3, <2>4 DEF OneOf
<1> QED
  BY <1>2, <1>3, <1>5, OneStep

LEMMA RestoringOwns ==
  ASSUME PInv, Data, Owns, call = Null, NEW d \in Directive, entry[d].modified, Restoring(d),
         UNCHANGED <<fixed, state, split, stale>>
  PROVE  Owns'
<1>1. Untold(call, d) /\ Untold(call', d) /\ call'.what = "restore" /\ call' # Null
      /\ call'.new = entry[d].orig /\ call'.d = d
  BY RestoringCall DEF Untold, Restoring
<1>2. Orig(d)' = Orig(d) /\ entry[d].orig = Orig(d)
  BY ConfigFixed DEF PInv, IInv, OrigIsConfigured
<1>3. NewInv'
  BY <1>1, <1>2 DEF NewInv, Restoring
<1> QED
  BY <1>1, <1>3, UntoldOwns DEF state

LEMMA AlterOwns ==
  ASSUME PInv, Data, Owns, NEW d \in Directive, NEW s \in Texts, Alter(d, s)
  PROVE  Owns'
<1>1. call = Null /\ UNCHANGED <<fixed, entry, global, split, stale>>
  BY DEF Alter, Settled
<1>2. PICK a \in Addr :
        /\ heap[a] = Free /\ heap' = [heap EXCEPT ![a] = s]
        /\ call' = [what |-> "alter", d |-> d, new |-> a, at |-> "notify"]
  BY DEF Alter, Spare
<1>3. Untold(call, d) /\ Untold(call', d)
  BY <1>1, <1>2 DEF Untold
<1>4. \A e \in Directive : Strings(e)' = Strings(e) /\ a \notin Strings(e)
  BY <1>1, <1>2, <1>3, UntoldStrings DEF Owns, OwnInv
<1>5. \A e \in Directive : \A p \in Strings(e) : heap'[p] = heap[p]
  BY <1>2, <1>4 DEF Data, Strings
<1>6. heap'[a] # Free
  BY <1>2, PointerApart DEF Data
<1>7. ~Told(d)'
  BY <1>2 DEF Told, Working
<1>8. NewInv'
  BY <1>2, <1>4, <1>6, <1>7 DEF NewInv
<1> QED
  BY <1>1, <1>3, <1>5, <1>8, UntoldOwns

\* The call in progress works on a directive.
LEMMA CallType ==
  ASSUME PInv, call # Null
  PROVE  /\ call.d \in Directive /\ call.new \in Pointer
         /\ call.what \in {"alter", "restore"} /\ call.at \in {"notify", "keep", "discard", "assign"}
         /\ \A at \in {"notify", "keep", "discard", "assign"} :
              /\ [call EXCEPT !.at = at] # Null
              /\ [call EXCEPT !.at = at].d = call.d /\ [call EXCEPT !.at = at].new = call.new
              /\ [call EXCEPT !.at = at].what = call.what /\ [call EXCEPT !.at = at].at = at
<1>1. call \in Calls
  BY DEF PInv, Shape
<1>2. \A at \in {"notify", "keep", "discard", "assign"} : [call EXCEPT !.at = at] \in Calls
  BY <1>1 DEF Calls
<1> QED
  BY <1>1, <1>2, IniAssumption DEF Calls

LEMMA DiscardOwns ==
  ASSUME PInv, Data, Owns, Discard
  PROVE  Owns'
<1>1. /\ call # Null /\ call.at = "discard" /\ call' = Null
      /\ UNCHANGED <<fixed, entry, global, split, stale>>
      /\ heap' = [heap EXCEPT ![call.new] = Free]
  BY DEF Discard, Settled, Efree
<1>2. call.what = "alter"
  BY <1>1 DEF PInv, IInv, CallInv
<1>3. \A e \in Directive : call.new \notin Strings(e)
  BY <1>1, <1>2 DEF Owns, NewInv, Told, Working
<1>4. \A e \in Directive : \A p \in Strings(e) : heap'[p] = heap[p]
  BY <1>1, <1>3 DEF Data, Strings
<1>5. NewInv'
  BY <1>1 DEF NewInv
<1>6. Untold(call, call.d) /\ Untold(call', call.d) /\ call.d \in Directive
  BY <1>1, CallType DEF Untold
<1> QED
  BY <1>1, <1>4, <1>5, <1>6, UntoldOwns

\* A call that is cut off after its handler: its directive is split, and stale when its value
\* has been freed.
LEMMA TimeoutOwns ==
  ASSUME PInv, Data, Owns, Timeout
  PROVE  Owns'
<1>1. call' = Null /\ UNCHANGED <<fixed, entry, global, heap>>
  BY DEF Timeout, Bailout
<1>2. NewInv'
  BY <1>1 DEF NewInv
<1>3. CASE call = Null
  BY <1>1, <1>3, SameOwns DEF Timeout, state
<1>4. CASE call # Null /\ call.at \in {"notify", "discard"}
  <2>1. Untold(call, call.d) /\ Untold(call', call.d) /\ call.d \in Directive
    BY <1>1, <1>4, CallType DEF Untold
  <2>2. UNCHANGED <<split, stale>>
    BY <1>4 DEF Timeout
  <2> QED
    BY <1>1, <1>2, <2>1, <2>2, UntoldOwns
<1>5. CASE call # Null /\ call.at \in {"keep", "assign"}
  <2>0. PICK d \in Directive : d = call.d
    BY <1>5, CallType
  <2>1. /\ split' = split \cup {d}
        /\ stale' = IF call.at = "assign" /\ entry[d].modified THEN stale \cup {d} ELSE stale
    BY <1>5, <2>0 DEF Timeout
  <2>2. ~Told(d)' /\ ~Working(d, {"assign"})'
    BY <1>1 DEF Told, Working
  <2>3. HasValue(d)' => HasValue(d)
    BY <1>1, <1>5, <2>0, <2>1 DEF HasValue, Working
  <2>4. HasGlobal(d)' => HasGlobal(d)
    BY <1>1, <2>1, <2>2, ConfigFixed DEF HasGlobal
  <2>5. Strings(d)' \subseteq Strings(d)
    BY <1>1, <2>3, <2>4 DEF Strings
  <2>6. Alone(d)
    BY <1>1, <2>1 DEF Alone
  <2>7. ASSUME NEW e \in Directive \ {d}
        PROVE  Strings(d)' \cap Strings(e)' = {}
    <3>1. Strings(e)' = Strings(e)
      BY <1>1, <2>0, <2>1, <2>7, OthersKeep
    <3> QED
      BY <2>0, <2>5, <2>7, <3>1 DEF Owns, OwnInv
  <2>8. d \in Callbacks' /\ HasValue(d)' /\ HasGlobal(d)' /\ global'[d] \in Addr =>
          entry'[d].value # global'[d]
    BY <1>1, <2>0, <2>3, <2>4, ConfigFixed DEF Owns, OwnInv
  <2>9. \A p \in Strings(d)' : heap'[p] # Free
    BY <1>1, <2>0, <2>5 DEF Owns, OwnInv
  <2>10. entry'[d].orig \notin Addr
    BY <1>1, <2>0 DEF Owns, OwnInv
  <2>11. OneOf(d)'
    BY <1>1, <2>1, <2>2, <2>7, <2>8, <2>9, <2>10 DEF OneOf
  <2> QED
    BY <1>1, <1>2, <2>0, <2>6, <2>11, OneStep
<1> QED
  BY <1>3, <1>4, <1>5, CallType

\* What a call brings: a string that nobody has yet, or none.
LEMMA NewString ==
  ASSUME PInv, Data, Owns, call # Null, call.at = "notify"
  PROVE  /\ call.new \in Addr => heap[call.new] \in Texts
         /\ \A e \in Directive : call.new \notin Strings(e)
         /\ Str(call.d, call.new) \in Texts \cup {Null}
         /\ call.what = "restore" => call.new = Orig(call.d)
<1>1. CASE call.what = "alter"
  BY <1>1, PointerApart DEF Owns, NewInv, Told, Working, Data, Str
<1>2. CASE call.what = "restore"
  <2>1. call.new = Orig(call.d) /\ call.d \in Directive
    BY <1>2, CallType DEF Owns, NewInv
  <2> QED
    BY <1>2, <2>1, ConfigType, PointerApart DEF Strings, Str
<1> QED
  BY <1>1, <1>2, CallType

\* The handler accepts the value and is not the one that copies it.
LEMMA AcceptsOwns ==
  ASSUME PInv, Data, Owns, call # Null, call.at = "notify", Past("keep"),
         UNCHANGED <<fixed, entry, heap, split, stale>>,
         global' \in [Directive -> Pointer \cup Texts \cup {0, Native}],
         handler[call.d] # "callback",
         \A e \in Directive \ {call.d} : global'[e] = global[e],
         handler[call.d] \in Pointers => global'[call.d] = call.new,
         Says(call.d, call.new)'
  PROVE  Owns'
<1>0. PICK d \in Directive :
        d = call.d /\ call.new \in Pointer /\ call.what \in {"alter", "restore"}
  BY CallType
<1>1. /\ call' # Null /\ call'.d = d /\ call'.new = call.new /\ call'.what = call.what
      /\ call'.at = "keep"
  BY <1>0, CallType DEF Past
<1>2. Told(d)' /\ ~Working(d, {"assign"})' /\ ~Working(d, {"assign"}) /\ ~Told(d)
  BY <1>0, <1>1 DEF Told, Working
<1>3. HasValue(d)' = HasValue(d)
  BY <1>2 DEF HasValue
<1>4. HasGlobal(d)' => handler[d] \in Pointers
  BY <1>0, ConfigFixed DEF HasGlobal
<1>5. \A p \in Strings(d)' : p \in Strings(d) \/ (p = call.new /\ p \in Addr)
  BY <1>0, <1>3, <1>4, ConfigFixed DEF Strings
<1>6. \A e \in Directive \ {d} : Strings(e)' = Strings(e)
  BY <1>0, <1>1, OthersKeep
<1>7. Alone(d)
  BY <1>0 DEF Alone
<1>8. \A e \in Directive : call.new \notin Strings(e)
  BY NewString
<1>9. \A p \in Strings(d)' : heap'[p] # Free
  BY <1>0, <1>5, NewString, PointerApart DEF Owns, OwnInv
<1>10. \A e \in Directive \ {d} : Strings(d)' \cap Strings(e)' = {}
  BY <1>0, <1>5, <1>6, <1>8 DEF Owns, OwnInv
<1>11. d \notin Callbacks'
  BY <1>0, ConfigFixed DEF Callbacks
<1>12. entry'[d].orig \notin Addr
  BY <1>0 DEF Owns, OwnInv
<1>13. OneOf(d)'
  BY <1>0, <1>1, <1>2, <1>9, <1>10, <1>11, <1>12 DEF OneOf, Says
<1>14. NewInv'
  <2>1. call.what = "restore" => call.new = Orig(d)'
    BY <1>0, NewString, ConfigFixed
  <2>2. call.what = "alter" => call.new \in Addr /\ heap'[call.new] # Free
    BY <1>0 DEF Owns, NewInv
  <2>3. \A e \in Directive : call.new \in Strings(e)' => e = d /\ Told(e)'
    BY <1>2, <1>6, <1>8
  <2>4. call.what = "alter" /\ HasValue(d)' => entry'[d].value # call.new
    BY <1>0, <1>3, <1>8, <2>2 DEF Strings
  <2>5. handler'[d] # "callback"
    BY <1>0, ConfigFixed
  <2> QED
    BY <1>1, <2>1, <2>2, <2>3, <2>4, <2>5 DEF NewInv
<1> QED
  BY <1>0, <1>7, <1>13, <1>14, OneStep

\* A handler that refuses the value of ini_set() leaves its global alone.
LEMMA RefusesOwns ==
  ASSUME PInv, Data, Owns, call # Null, call.at = "notify", Past("discard"),
         UNCHANGED <<fixed, entry, global, heap, split, stale>>
  PROVE  Owns'
<1>0. PICK d \in Directive : d = call.d
  BY CallType
<1>1. /\ call' # Null /\ call'.d = d /\ call'.new = call.new /\ call'.what = call.what
      /\ call'.at = "discard"
  BY <1>0, CallType DEF Past
<1>2. Untold(call, d) /\ Untold(call', d)
  BY <1>0, <1>1 DEF Untold
<1>3. \A e \in Directive : Strings(e)' = Strings(e)
  BY <1>2, UntoldStrings
<1>4. ~Told(d)'
  BY <1>1 DEF Told, Working
<1>5. Orig(d)' = Orig(d)
  BY ConfigFixed
<1>6. NewInv'
  <2>1. call.what = "restore" => call.new = Orig(d)'
    BY <1>0, <1>5, NewString
  <2>2. call.what = "alter" => call.new \in Addr /\ heap'[call.new] # Free
    BY DEF Owns, NewInv
  <2>3. \A e \in Directive : call.new \notin Strings(e)'
    BY <1>3, NewString
  <2> QED
    BY <1>1, <1>4, <2>1, <2>2, <2>3 DEF NewInv
<1> QED
  BY <1>2, <1>6, UntoldOwns

\* An E_ERROR of the serializer's handler.
LEMMA ErrorOwns ==
  ASSUME PInv, Data, Owns, call # Null, call.at = "notify", call' = Null,
         UNCHANGED <<fixed, entry, heap, stale>>, handler[call.d] = "serializer",
         global' = [global EXCEPT ![call.d] = Null], split' = split \cup {call.d}
  PROVE  Owns'
<1>0. PICK d \in Directive : d = call.d
  BY CallType
<1>1. ~Told(d)' /\ ~Working(d, {"assign"})' /\ ~Told(d) /\ ~Working(d, {"assign"})
  BY <1>0 DEF Told, Working
<1>2. HasValue(d)' = HasValue(d)
  BY <1>1 DEF HasValue
<1>3. ~HasGlobal(d)'
  BY <1>0, ConfigFixed DEF HasGlobal, Pointers
<1>4. Strings(d)' \subseteq Strings(d)
  BY <1>2, <1>3 DEF Strings
<1>5. \A e \in Directive \ {d} : global'[e] = global[e]
  BY <1>0 DEF Data
<1>6. Alone(d)
  BY <1>0, <1>5 DEF Alone
<1>7. \A e \in Directive \ {d} : Strings(e)' = Strings(e)
  BY <1>0, <1>5, OthersKeep
<1>8. \A p \in Strings(d)' : heap'[p] # Free
  BY <1>4 DEF Owns, OwnInv
<1>9. \A e \in Directive \ {d} : Strings(d)' \cap Strings(e)' = {}
  BY <1>4, <1>7 DEF Owns, OwnInv
<1>10. entry'[d].orig \notin Addr
  BY DEF Owns, OwnInv
<1>11. OneOf(d)'
  BY <1>0, <1>1, <1>3, <1>8, <1>9, <1>10 DEF OneOf
<1>12. NewInv'
  BY DEF NewInv
<1> QED
  BY <1>0, <1>6, <1>11, <1>12, OneStep

\* assert's handler frees its copy and makes another, perhaps in the same place.
LEMMA CopyOwns ==
  ASSUME PInv, Data, Owns, call # Null, call.at = "notify", Past("keep"),
         UNCHANGED <<fixed, entry, split, stale>>,
         handler[call.d] = "callback", global[call.d] = Null \/ call.d \notin stale,
         NEW a \in Addr, NEW t \in Texts, NEW kept,
         kept = IF global[call.d] = Null THEN heap ELSE [heap EXCEPT ![global[call.d]] = Free],
         kept[a] = Free, global' = [global EXCEPT ![call.d] = a], heap' = [kept EXCEPT ![a] = t]
  PROVE  Owns'
<1>0. PICK d \in Directive :
        d = call.d /\ call.new \in Pointer /\ call.what \in {"alter", "restore"}
  BY CallType
<1>1. /\ call' # Null /\ call'.d = d /\ call'.new = call.new /\ call'.what = call.what
      /\ call'.at = "keep"
  BY <1>0, CallType DEF Past
<1>2. Told(d)' /\ ~Working(d, {"assign"})' /\ ~Working(d, {"assign"}) /\ ~Told(d)
  BY <1>0, <1>1 DEF Told, Working
<1>3. HasValue(d)' = HasValue(d)
  BY <1>2 DEF HasValue
<1>4. global'[d] = a /\ \A e \in Directive \ {d} : global'[e] = global[e]
  BY <1>0 DEF Data
<1>5. \A e \in Directive \ {d} : Strings(e)' = Strings(e)
  BY <1>0, <1>1, <1>4, OthersKeep
<1>6. handler[d] = "callback" /\ d \in Callbacks /\ handler'[d] = "callback"
  BY <1>0, ConfigFixed DEF Callbacks
<1>7. ASSUME global[d] # Null, global[d] \in Addr
      PROVE  HasGlobal(d) /\ global[d] \in Strings(d)
  BY <1>0, <1>6, <1>7 DEF HasGlobal, Strings
\* What others see stays, and so does the value.
<1>8. ASSUME NEW p \in Addr, heap[p] # Free, p # global[d]
      PROVE  p # a /\ heap'[p] = heap[p]
  <2>1. kept[p] = heap[p] /\ kept \in [Addr -> Texts \cup {Free}]
    BY <1>0, <1>8 DEF Data
  <2> QED
    BY <1>8, <2>1
<1>9. ASSUME NEW e \in Directive \ {d}, NEW p \in Strings(e)
      PROVE  p # a /\ heap'[p] = heap[p] /\ heap'[p] # Free
  <2>1. p \in Addr /\ heap[p] # Free
    BY DEF Owns, OwnInv, Strings
  <2>2. p # global[d]
    BY <1>7, <2>1, PointerApart DEF Owns, OwnInv
  <2> QED
    BY <1>8, <2>1, <2>2
<1>10. ASSUME HasValue(d), entry[d].value \in Addr
       PROVE  /\ entry[d].value # a /\ heap'[entry[d].value] # Free
              /\ \A e \in Directive \ {d} : entry[d].value \notin Strings(e)
  <2>1. entry[d].value \in Strings(d)
    BY <1>10 DEF Strings
  <2>2. entry[d].value # global[d]
    BY <1>6, <1>7, <1>10, PointerApart DEF Owns, OwnInv
  <2> QED
    BY <1>8, <1>10, <2>1, <2>2 DEF Owns, OwnInv
<1>11. ASSUME call.new \in Addr
       PROVE  call.new # a /\ heap'[call.new] # Free /\ heap'[call.new] = heap[call.new]
  <2>1. heap[call.new] # Free
    BY <1>11, NewString, PointerApart
  <2>2. call.new # global[d]
    BY <1>7, <1>11, NewString, PointerApart
  <2> QED
    BY <1>8, <1>11, <2>1, <2>2
<1>12. heap'[a] # Free
  <2>1. kept \in [Addr -> Texts \cup {Free}]
    BY DEF Data
  <2> QED
    BY <2>1, PointerApart
<1>13. \A p \in Strings(d)' : p = a \/ (HasValue(d) /\ p = entry[d].value /\ p \in Addr)
  BY <1>3, <1>4 DEF Strings
<1>14. \A p \in Strings(d)' : heap'[p] # Free
  BY <1>10, <1>12, <1>13
<1>15. \A e \in Directive \ {d} : Strings(d)' \cap Strings(e)' = {}
  BY <1>5, <1>9, <1>10, <1>13
<1>16. Alone(d)
  BY <1>0, <1>4, <1>9 DEF Alone
<1>17. Says(d, call.new)'
  BY <1>6 DEF Says, Pointers
<1>18. HasValue(d)' /\ global'[d] \in Addr => entry'[d].value # global'[d]
  BY <1>3, <1>4, <1>10
<1>19. entry'[d].orig \notin Addr
  BY DEF Owns, OwnInv
<1>20. OneOf(d)'
  BY <1>1, <1>2, <1>14, <1>15, <1>17, <1>18, <1>19 DEF OneOf
<1>21. NewInv'
  <2>1. call.what = "restore" => call.new = Orig(d)'
    BY <1>0, NewString, ConfigFixed
  <2>2. call.what = "alter" => call.new \in Addr /\ heap'[call.new] # Free /\ global'[d] # call.new
    BY <1>0, <1>4, <1>11 DEF Owns, NewInv
  <2>3. \A e \in Directive : call.new \in Strings(e)' => e = d /\ Told(e)'
    BY <1>2, <1>5, NewString
  <2>4. call.what = "alter" /\ HasValue(d)' => entry'[d].value # call.new
    BY <1>0, <1>3, <2>2, NewString DEF Strings
  <2> QED
    BY <1>1, <2>1, <2>2, <2>3, <2>4 DEF NewInv
<1> QED
  BY <1>0, <1>16, <1>20, <1>21, OneStep

LEMMA OnModifyOwns ==
  ASSUME PInv, Data, Owns, OnModify, stage' # "undefined"
  PROVE  Owns'
<1> DEFINE s == Str(call.d, call.new)
<1>0. PICK d \in Directive : d = call.d
  BY CallType DEF OnModify
<1>1. UNCHANGED fixed /\ call # Null /\ call.at = "notify" BY DEF OnModify
<1>2. s \in Texts \cup {Null} /\ call.new \in Pointer
  BY <1>1, NewString, CallType
<1>3. ASSUME Past("keep") PROVE call'.d = d /\ call'.new = call.new
  BY <1>0, <1>1, <1>3, CallType DEF Past
<1>5. ASSUME Past("keep"), Unaffected, UNCHANGED heap, NEW g \in Pointer \cup Texts \cup {0},
             global' = [global EXCEPT ![d] = g], handler[d] # "callback",
             handler[d] \in Pointers => g = call.new,
             handler[d] = "int" => g = Number(s),
             handler[d] = "serializer" => g = IF s \in Known THEN s ELSE Null,
             handler[d] = "encoding" /\ s \in Known => g = s
      PROVE  Owns'
  <2>1. global' \in [Directive -> Pointer \cup Texts \cup {0, Native}] /\ global'[d] = g
        /\ \A e \in Directive \ {d} : global'[e] = global[e]
    BY <1>5 DEF Data
  <2>2. call'.d = d /\ call'.new = call.new /\ handler'[d] = handler[d] /\ Config(d)' = Config(d)
    BY <1>1, <1>3, <1>5, ConfigFixed
  <2>3. Str(call.d, call.new)' = s
    BY <1>0, <1>5, <2>2 DEF Str
  <2>4. Says(call.d, call.new)'
    BY <1>0, <1>5, <2>1, <2>2, <2>3 DEF Says
  <2> QED
    BY <1>0, <1>1, <1>5, <2>1, <2>4, AcceptsOwns DEF Unaffected
<1>6. CASE OnUpdateString(call.d, call.new)
  BY <1>0, <1>2, <1>5, <1>6 DEF OnUpdateString, Set
<1>7. CASE OnUpdateStringUnempty(call.d, call.new, s)
  <2>1. CASE s # Empty
    BY <1>0, <1>2, <1>5, <1>7, <2>1 DEF OnUpdateStringUnempty, Set
  <2>2. CASE s = Empty
    <3>1. call.what # "restore"
      BY <1>0, <1>1, <1>7, <2>2, NewString, ConfigType, PointerApart
      DEF OnUpdateStringUnempty, Str
    <3> QED
      BY <1>1, <1>7, <2>2, <3>1, RefusesOwns, CallType
      DEF OnUpdateStringUnempty, Refuses, Unaffected
  <2> QED
    BY <2>1, <2>2
<1>8. CASE OnUpdateInt(call.d, s)
  <2>1. Number(s) \in Texts \cup {0}
    BY <1>2, IniAssumption DEF Number
  <2> QED
    BY <1>0, <1>5, <1>8, <2>1 DEF OnUpdateInt, Set, Pointers
<1>9. CASE OnUpdateSerializer(call.d, s)
  <2>1. CASE s \in Known
    BY <1>0, <1>2, <1>5, <1>9, <2>1, IniAssumption DEF OnUpdateSerializer, Set, Pointers
  <2>2. CASE s \notin Known
    BY <1>1, <1>9, <2>2, ErrorOwns DEF OnUpdateSerializer, Bailout
  <2> QED
    BY <2>1, <2>2
<1>10. CASE OnUpdateEncoding(call.d, s)
  <2>1. CASE s \in Known
    BY <1>0, <1>2, <1>5, <1>10, <2>1, IniAssumption DEF OnUpdateEncoding, Set, Pointers
  <2>2. CASE s \in {Null, Empty}
    <3>1. s \notin Known
      BY <2>2, IniAssumption
    <3>2. Past("keep") /\ UNCHANGED <<global, heap>> /\ Unaffected /\ handler[d] = "encoding"
      BY <1>0, <1>10, <2>2, <3>1 DEF OnUpdateEncoding, LeavesIt
    <3>3. call'.d = d /\ call'.new = call.new /\ handler'[d] = handler[d] /\ Config(d)' = Config(d)
      BY <1>1, <1>3, <3>2, ConfigFixed
    <3>4. Str(call.d, call.new)' = s
      BY <1>0, <3>2, <3>3 DEF Str
    <3>5. Says(call.d, call.new)'
      BY <1>0, <3>1, <3>2, <3>3, <3>4 DEF Says, Pointers
    <3> QED
      BY <1>0, <1>1, <3>2, <3>5, AcceptsOwns DEF Unaffected, Data, Pointers
  <2>3. CASE s \notin Known \cup {Null, Empty}
    <3>1. call.what # "restore"
      BY <1>0, <1>1, <1>10, <2>3, NewString, ConfigType, PointerApart
      DEF OnUpdateEncoding, Str
    <3> QED
      BY <1>1, <1>10, <2>3, <3>1, RefusesOwns, CallType
      DEF OnUpdateEncoding, Refuses, Unaffected
  <2> QED
    BY <2>1, <2>2, <2>3
<1>11. CASE OnChangeCallback(call.d, s)
  <2> DEFINE kept == IF global[call.d] = Null THEN heap ELSE [heap EXCEPT ![global[call.d]] = Free]
             t == IF s = Null THEN Empty ELSE s
  <2>1. global[call.d] = Null \/ call.d \notin stale
    BY <1>11 DEF OnChangeCallback, Undefined
  <2>2. PICK a \in Addr :
          /\ kept[a] = Free /\ global' = [global EXCEPT ![call.d] = a] /\ Past("keep")
          /\ heap' = [kept EXCEPT ![a] = t] /\ Unaffected
    BY <1>11, <2>1 DEF OnChangeCallback, Set
  <2>3. t \in Texts
    BY <1>2, IniAssumption
  <2>4. handler[call.d] = "callback"
    BY <1>11 DEF OnChangeCallback
  <2> QED
    BY <1>1, <2>1, <2>2, <2>3, <2>4, CopyOwns DEF Unaffected
<1> QED
  BY <1>6, <1>7, <1>8, <1>9, <1>10, <1>11 DEF OnModify

\* The original value is saved, or the one that is replaced freed.
LEMMA KeepOwns ==
  ASSUME PInv, Data, Owns, Keep, stage' # "undefined"
  PROVE  Owns'
<1>1. UNCHANGED fixed /\ call # Null /\ call.at = "keep"
  BY DEF Keep
<1>0. PICK d \in Directive :
        d = call.d /\ call.new \in Pointer /\ call.what \in {"alter", "restore"}
  BY <1>1, CallType
<1>2. Past("assign") /\ UNCHANGED <<global, split, stale>>
  BY DEF Keep, Undefined, Settled
<1>3. /\ call' # Null /\ call'.d = d /\ call'.new = call.new /\ call'.what = call.what
      /\ call'.at = "assign"
  BY <1>0, <1>1, <1>2, CallType DEF Past
<1>4. /\ \A e \in Directive \ {d} : entry'[e] = entry[e]
      /\ entry'[d].value = entry[d].value /\ entry'[d].modified = entry[d].modified
      /\ entry'[d].orig \notin Addr
  <2>1. CASE ~entry[d].modified
    <3>1. entry' = [entry EXCEPT ![d].orig = entry[d].value]
      BY <1>0, <2>1 DEF Keep, Undefined
    <3>2. entry[d].value \in {Conf, Null}
      BY <2>1, ConfigType DEF PInv, IInv
    <3> QED
      BY <3>1, <3>2, PointerApart DEF PInv, Shape
  <2>2. CASE entry[d].modified
    BY <1>0, <2>2 DEF Keep, Undefined, Owns, OwnInv
  <2> QED
    BY <2>1, <2>2
<1>5. Told(d) /\ Told(d)' /\ ~Working(d, {"assign"}) /\ Working(d, {"assign"})'
  BY <1>0, <1>1, <1>3 DEF Told, Working
<1>6. HasGlobal(d)' = HasGlobal(d)
  BY <1>1, <1>2, <1>5, ConfigFixed DEF HasGlobal
<1>7. HasValue(d)' => HasValue(d) /\ ~entry[d].modified
  BY <1>2, <1>4, <1>5 DEF HasValue
<1>8. Strings(d)' \subseteq Strings(d)
  BY <1>2, <1>4, <1>6, <1>7 DEF Strings
<1>9. \A e \in Directive \ {d} : Strings(e)' = Strings(e)
  BY <1>0, <1>1, <1>2, <1>3, <1>4, OthersKeep
<1>10. Says(d, call.new)
  BY <1>0, <1>5 DEF Owns, SaysInv
\* What is freed is the old value, which nobody else uses.
<1>11. ASSUME NEW p \in Addr, heap[p] # Free, HasValue(d) => p # entry[d].value
       PROVE  heap'[p] = heap[p]
  <2>1. CASE ~entry[d].modified
    BY <1>0, <2>1 DEF Keep, Undefined
  <2>2. CASE entry[d].modified
    <3>1. heap' = [heap EXCEPT ![entry[d].value] = Free] /\ d \notin stale
      BY <1>0, <2>2 DEF Keep, Undefined, Efree
    <3>2. HasValue(d)
      BY <1>5, <3>1 DEF HasValue
    <3> QED
      BY <1>11, <3>1, <3>2 DEF Data
  <2> QED
    BY <2>1, <2>2
<1>12. ASSUME HasValue(d), entry[d].value \in Addr
       PROVE  entry[d].value \in Strings(d)
  BY <1>12 DEF Strings
<1>13. ASSUME NEW e \in Directive \ {d}, NEW p \in Strings(e)
       PROVE  heap'[p] = heap[p]
  BY <1>11, <1>12 DEF Owns, OwnInv, Strings
<1>14. ASSUME NEW p \in Strings(d)'
       PROVE  heap'[p] # Free
  <2>1. p \in Addr /\ heap[p] # Free /\ p \in Strings(d)
    BY <1>8 DEF Owns, OwnInv, Strings
  <2>2. CASE HasValue(d)' /\ p = entry[d].value
    <3>1. ~entry[d].modified
      BY <1>7, <2>2
    <3>2. heap' = heap
      BY <1>0, <3>1 DEF Keep, Undefined
    <3> QED
      BY <2>1, <3>2
  <2>3. CASE HasGlobal(d) /\ p = global[d]
    <3>1. CASE handler[d] = "callback"
      <4>1. HasValue(d) => p # entry[d].value
        BY <2>1, <2>3, <3>1 DEF Owns, OwnInv, Callbacks
      <4> QED
        BY <1>11, <2>1, <4>1
    <3>2. CASE handler[d] \in Pointers
      <4>1. p = call.new
        BY <1>10, <2>3, <3>2 DEF Says
      <4>2. call.what = "alter"
        BY <1>0, <2>1, <4>1, ConfigType, PointerApart, <1>1 DEF Owns, NewInv
      <4>3. HasValue(d) => p # entry[d].value
        BY <1>0, <1>1, <4>1, <4>2 DEF Owns, NewInv
      <4> QED
        BY <1>11, <2>1, <4>3
    <3> QED
      BY <2>3, <3>1, <3>2 DEF HasGlobal
  <2> QED
    BY <1>2, <1>4, <1>6, <2>2, <2>3 DEF Strings
<1>15. Alone(d)
  BY <1>2, <1>4, <1>13 DEF Alone
<1>16. call.new \in Addr => call.what = "alter" /\ heap'[call.new] = heap[call.new]
                            /\ heap[call.new] # Free
  <2>1. call.new \in Addr => call.what = "alter"
    BY <1>0, <1>1, ConfigType, PointerApart DEF Owns, NewInv
  <2> QED
    BY <1>0, <1>1, <1>11, <2>1 DEF Owns, NewInv
<1>17. Says(d, call.new)'
  <2>1. Str(d, call.new)' = Str(d, call.new)
    BY <1>0, <1>1, <1>3, <1>16, ConfigFixed DEF Str, Pointer
  <2> QED
    BY <1>1, <1>2, <1>3, <1>10, <2>1, ConfigFixed DEF Says
<1>18. \A e \in Directive \ {d} : Strings(d)' \cap Strings(e)' = {}
  BY <1>8, <1>9 DEF Owns, OwnInv
<1>19. d \in Callbacks' /\ HasValue(d)' /\ HasGlobal(d)' /\ global'[d] \in Addr =>
         entry'[d].value # global'[d]
  BY <1>1, <1>2, <1>4, <1>6, <1>7, ConfigFixed DEF Owns, OwnInv
<1>20. OneOf(d)'
  BY <1>3, <1>4, <1>5, <1>14, <1>17, <1>18, <1>19 DEF OneOf
<1>21. NewInv'
  <2>1. call.what = "restore" => call.new = Orig(d)'
    BY <1>0, <1>1, ConfigFixed DEF Owns, NewInv
  <2>2. call.what = "alter" => call.new \in Addr /\ heap'[call.new] # Free
    BY <1>1, <1>16 DEF Owns, NewInv
  <2>3. \A e \in Directive : call.what = "alter" /\ call.new \in Strings(e)' => e = d /\ Told(e)'
    BY <1>0, <1>1, <1>5, <1>8, <1>9 DEF Owns, NewInv
  <2>4. call.what = "alter" /\ handler'[d] = "callback" => global'[d] # call.new
    BY <1>0, <1>1, <1>2, <1>5, ConfigFixed DEF Owns, NewInv
  <2> QED
    BY <1>3, <2>1, <2>2, <2>3, <2>4 DEF NewInv
<1> QED
  BY <1>0, <1>1, <1>15, <1>20, <1>21, OneStep

\* The new value is the directive's, or the configured one is again.
LEMMA AssignOwns ==
  ASSUME PInv, Data, Owns, Assign
  PROVE  Owns'
<1>1. UNCHANGED <<fixed, global, heap>> /\ call # Null /\ call.at = "assign" /\ call' = Null
  BY DEF Assign, Settled
<1>0. PICK d \in Directive :
        d = call.d /\ call.new \in Pointer /\ call.what \in {"alter", "restore"}
  BY <1>1, CallType
<1>2. split' = split \ {d} /\ stale' = stale \ {d}
  BY <1>0 DEF Assign
<1>3. /\ \A e \in Directive \ {d} : entry'[e] = entry[e]
      /\ entry'[d].value = call.new /\ entry'[d].orig \notin Addr
  <2>1. CASE call.what = "alter"
    <3>1. entry' = [entry EXCEPT ![d] = [value |-> call.new, orig |-> @.orig, modified |-> TRUE]]
      BY <1>0, <2>1 DEF Assign, PInv, Shape
    <3> QED
      BY <3>1 DEF PInv, Shape, Owns, OwnInv
  <2>2. CASE call.what = "restore"
    <3>1. entry' = [entry EXCEPT ![d] = [value |-> @.orig, orig |-> Null, modified |-> FALSE]]
      BY <1>0, <2>2 DEF Assign, PInv, Shape
    <3>2. entry[d].orig = Orig(d) /\ call.new = Orig(d)
      BY <1>0, <1>1, <2>2 DEF PInv, IInv, CallInv, OrigIsConfigured, Owns, NewInv
    <3> QED
      BY <3>1, <3>2, PointerApart DEF PInv, Shape
  <2> QED
    BY <1>0, <2>1, <2>2
<1>4. Told(d) /\ ~Told(d)' /\ ~Working(d, {"assign"})'
  BY <1>0, <1>1 DEF Told, Working
<1>5. HasGlobal(d)' => HasGlobal(d)
  BY <1>1, <1>4, ConfigFixed DEF HasGlobal
<1>6. call.new \in Addr =>
        /\ call.what = "alter" /\ heap[call.new] # Free
        /\ \A e \in Directive \ {d} : call.new \notin Strings(e)
        /\ handler[d] = "callback" => global[d] # call.new
  <2>1. call.new \in Addr => call.what = "alter"
    BY <1>0, <1>1, ConfigType, PointerApart DEF Owns, NewInv
  <2> QED
    BY <1>0, <1>1, <1>4, <2>1 DEF Owns, NewInv
<1>7. \A p \in Strings(d)' : (p = call.new /\ p \in Addr) \/ p \in Strings(d)
  BY <1>1, <1>3, <1>5 DEF Strings
<1>8. \A e \in Directive \ {d} : Strings(e)' = Strings(e)
  BY <1>0, <1>1, <1>2, <1>3, OthersKeep
<1>9. \A p \in Strings(d)' : heap'[p] # Free
  BY <1>1, <1>6, <1>7 DEF Owns, OwnInv
<1>10. \A e \in Directive \ {d} : Strings(d)' \cap Strings(e)' = {}
  BY <1>6, <1>7, <1>8 DEF Owns, OwnInv
<1>11. d \in Callbacks' /\ global'[d] \in Addr => entry'[d].value # global'[d]
  BY <1>1, <1>3, <1>6, ConfigFixed DEF Callbacks
<1>12. Says(d, entry[d].value)'
  <2>1. Says(d, call.new)
    BY <1>0, <1>4 DEF Owns, SaysInv
  <2>2. Str(d, entry[d].value)' = Str(d, call.new)
    BY <1>1, <1>3, ConfigFixed DEF Str
  <2> QED
    BY <1>1, <1>3, <2>1, <2>2, ConfigFixed DEF Says
<1>13. OneOf(d)'
  BY <1>1, <1>3, <1>4, <1>9, <1>10, <1>11, <1>12 DEF OneOf
<1>14. Alone(d)
  BY <1>1, <1>2, <1>3 DEF Alone
<1>15. NewInv'
  BY <1>1 DEF NewInv
<1> QED
  BY <1>0, <1>1, <1>13, <1>14, <1>15, OneStep

\* RSHUTDOWN frees the copies, which no value is kept in.
LEMMA ModulesShutdownOwns ==
  ASSUME PInv, Data, Owns, ModulesShutdown, stage' # "undefined"
  PROVE  Owns'
<1>1. /\ stage = "modules" /\ UNCHANGED <<fixed, entry, call, split, stale>>
      /\ heap' = [a \in Addr |-> IF \E d \in Callbacks : global[d] = a THEN Free ELSE heap[a]]
      /\ global' = [d \in Directive |-> IF d \in Callbacks THEN Null ELSE global[d]]
      /\ \A d \in Callbacks \cap stale : global[d] = Null
  BY DEF ModulesShutdown, Undefined
<1>2. call = Null /\ call' = Null
  BY <1>1 DEF PInv, IInv, CallInv
<1>3. ASSUME NEW d \in Directive
      PROVE  /\ ~Told(d) /\ ~Told(d)' /\ HasValue(d)' = HasValue(d) /\ HasGlobal(d)' = HasGlobal(d)
             /\ HasValue(d) <=> d \notin stale
             /\ \A p \in Strings(d)' : p \in Strings(d) /\ (p = entry[d].value \/ d \notin Callbacks)
  <2>1. /\ ~Told(d) /\ ~Told(d)' /\ HasValue(d)' = HasValue(d) /\ HasGlobal(d)' = HasGlobal(d)
        /\ HasValue(d) <=> d \notin stale
    BY <1>1, <1>2, ConfigFixed DEF Told, Working, HasValue, HasGlobal
  <2> QED
    BY <1>1, <2>1, PointerApart DEF Strings
<1>4. ASSUME NEW d \in Directive, NEW p \in Strings(d),
             p = entry[d].value \/ d \notin Callbacks, HasValue(d)
      PROVE  heap'[p] = heap[p]
  <2>1. p \in Addr
    BY DEF Strings
  <2>2. ASSUME NEW e \in Callbacks, global[e] = p
        PROVE  FALSE
    <3>1. e \notin stale
      BY <1>1, <2>1, <2>2, PointerApart
    <3>2. e \in Directive /\ HasGlobal(e) /\ p \in Strings(e)
      BY <2>1, <2>2, <3>1 DEF HasGlobal, Strings, Callbacks
    <3>3. e = d
      BY <3>2 DEF Owns, OwnInv
    <3> QED
      BY <1>4, <2>1, <2>2, <3>2, <3>3 DEF Owns, OwnInv
  <2> QED
    BY <1>1, <2>1, <2>2
<1>5. ASSUME NEW d \in Directive, NEW p \in Strings(d)'
      PROVE  heap'[p] # Free
  <2>1. HasValue(d) \/ HasGlobal(d)
    BY <1>3, <1>5 DEF Strings
  <2>2. HasValue(d)
    BY <1>3, <2>1 DEF HasGlobal
  <2> QED
    BY <1>3, <1>4, <1>5, <2>2 DEF Owns, OwnInv
<1>6. \A d, e \in Directive : d # e => Strings(d)' \cap Strings(e)' = {}
  BY <1>3 DEF Owns, OwnInv
<1>7. \A d \in Callbacks' : global'[d] \notin Addr
  BY <1>1, PointerApart, ConfigFixed DEF Callbacks
<1>8. \A d \in Directive : entry'[d].orig \notin Addr
  BY <1>1 DEF Owns, OwnInv
<1>9. ASSUME NEW d \in Directive, d \notin split' \cup stale'
      PROVE  Says(d, entry[d].value)'
  <2>1. Says(d, entry[d].value) /\ HasValue(d) /\ entry[d].value \in Pointer
    BY <1>1, <1>3, <1>9 DEF Owns, SaysInv, PInv, Shape
  <2>2. entry[d].value \in Addr => heap'[entry[d].value] = heap[entry[d].value]
    BY <1>4, <2>1 DEF Strings
  <2>3. Str(d, entry[d].value)' = Str(d, entry[d].value)
    BY <1>1, <2>1, <2>2, ConfigFixed DEF Str, Pointer
  <2>4. d \notin Callbacks => global'[d] = global[d]
    BY <1>1
  <2> QED
    BY <1>1, <2>1, <2>3, <2>4, ConfigFixed DEF Says, Callbacks, Pointers
<1>10. NewInv'
  BY <1>2 DEF NewInv
<1> QED
  BY <1>3, <1>5, <1>6, <1>7, <1>8, <1>9, <1>10 DEF Owns, OwnInv, SaysInv

\* When nothing is in request memory, nobody refers to it but those recorded as stale.
LEMMA MemoryShutdownOwns ==
  ASSUME PInv, Data, Owns, MemoryShutdown
  PROVE  Owns'
<1>1. /\ stage = "memory" /\ UNCHANGED <<fixed, entry, global, call, split>>
      /\ stale' = stale \cup (IF cut THEN Modified ELSE {})
                        \cup {d \in split \cup Callbacks : global[d] \in Addr}
  BY DEF MemoryShutdown
<1>2. call = Null /\ call' = Null
  BY <1>1 DEF PInv, IInv, CallInv
<1>3. ASSUME NEW d \in Directive, d \notin stale'
      PROVE  /\ entry[d].value \in {Conf, Null} /\ d \notin stale /\ ~Told(d)
             /\ handler[d] \in Pointers \cup {"callback"} => global[d] \notin Addr
  <2>1. d \notin stale /\ ~Told(d)
    BY <1>1, <1>2, <1>3 DEF Told, Working
  <2>2. ~entry[d].modified
    BY <1>1, <1>3 DEF Modified, PInv, IInv, SweepInv
  <2>3. entry[d].value \in {Conf, Null}
    BY <2>2, ConfigType DEF PInv, IInv
  <2>4. CASE d \in split \/ d \in Callbacks
    BY <1>1, <1>3, <2>1, <2>3, <2>4
  <2>5. CASE d \notin split /\ d \notin Callbacks
    <3>1. Says(d, entry[d].value)
      BY <2>1, <2>5 DEF Owns, SaysInv
    <3> QED
      BY <2>1, <2>3, <2>5, <3>1, PointerApart DEF Says, Callbacks
  <2> QED
    BY <2>1, <2>3, <2>4, <2>5
<1>4. ASSUME NEW d \in Directive
      PROVE  Strings(d)' = {} /\ ~Told(d)'
  <2>1. ~Told(d)'
    BY <1>2 DEF Told, Working
  <2>2. HasValue(d)' => d \notin stale'
    BY DEF HasValue
  <2>3. HasGlobal(d)' => d \notin stale' /\ handler[d] \in Pointers \cup {"callback"}
    BY <1>1, <2>1, ConfigFixed DEF HasGlobal
  <2> QED
    BY <1>1, <1>3, <2>1, <2>2, <2>3, PointerApart DEF Strings
<1>5. \A d \in Callbacks' : HasGlobal(d)' => global'[d] \notin Addr
  BY <1>1, <1>3, <1>4, ConfigFixed DEF HasGlobal, Callbacks
<1>6. \A d \in Directive : entry'[d].orig \notin Addr
  BY <1>1 DEF Owns, OwnInv
<1>7. ASSUME NEW d \in Directive, d \notin split' \cup stale'
      PROVE  Says(d, entry[d].value)'
  <2>1. Says(d, entry[d].value) /\ entry[d].value \in {Conf, Null}
    BY <1>1, <1>3, <1>7 DEF Owns, SaysInv
  <2>2. Str(d, entry[d].value)' = Str(d, entry[d].value)
    BY <1>1, <2>1, ConfigFixed DEF Str
  <2> QED
    BY <1>1, <2>1, <2>2, ConfigFixed DEF Says
<1>8. NewInv'
  BY <1>2 DEF NewInv
<1> QED
  BY <1>4, <1>5, <1>6, <1>7, <1>8 DEF Owns, OwnInv, SaysInv

\* A process that has registered its directives.
Started ==
  /\ handler \in [Directive -> AllHandlers] /\ ini \in [Directive -> Texts \cup {Null}]
  /\ entry = [d \in Directive |-> Unmodified(d)]
  /\ \E copy \in [Callbacks -> Addr] :
       /\ Injective(copy) /\ heap = Copies(copy)
       /\ global = [d \in Directive |-> AtStartup(d, copy)]
  /\ call = Null /\ sweep = {} /\ fired = FALSE /\ cut = FALSE
  /\ split = {d \in Directive : Rejects(d, ini[d])} /\ stale = {}

LEMMA StartedOwns == Started => Data /\ Owns
<1> SUFFICES ASSUME Started PROVE Data /\ Owns
  OBVIOUS
<1>1. PICK copy \in [Callbacks -> Addr] :
        /\ Injective(copy) /\ heap = Copies(copy)
        /\ global = [d \in Directive |-> AtStartup(d, copy)]
  BY DEF Started
<1>2. ASSUME NEW d \in Directive
      PROVE  /\ Config(d) \in Texts \cup {Null} /\ Orig(d) \in {Conf, Null}
             /\ Config(d) = Null <=> Orig(d) = Null
  BY <1>2, IniAssumption DEF Started, Config, BuiltIn, Rejects, Orig, Calls
<1>3. \A d \in Directive : Copied(d) \in Texts
  BY <1>2, IniAssumption DEF Copied
<1>4. ASSUME NEW a \in Addr
      PROVE  /\ heap[a] \in Texts \cup {Free}
             /\ (\E d \in Callbacks : copy[d] = a) => heap[a] \in Texts
  <2> DEFINE c == CHOOSE d \in DOMAIN copy : copy[d] = a
  <2>1. heap[a] = IF \E d \in DOMAIN copy : copy[d] = a THEN Copied(c) ELSE Free
    BY <1>1 DEF Copies
  <2>2. ASSUME \E d \in DOMAIN copy : copy[d] = a PROVE c \in DOMAIN copy
    BY <2>2
  <2>3. DOMAIN copy = Callbacks /\ Callbacks \subseteq Directive
    BY <1>1 DEF Callbacks
  <2> HIDE DEF c
  <2> QED
    BY <1>3, <2>1, <2>2, <2>3
<1>5. heap \in [Addr -> Texts \cup {Free}]
  BY <1>1, <1>4 DEF Copies
<1>6. ASSUME NEW d \in Directive
      PROVE  /\ global[d] \in Pointer \cup Texts \cup {0, Native}
             /\ handler[d] \in Pointers => global[d] \in {Conf, Null}
             /\ handler[d] = "callback" =>
                  global[d] \in Addr /\ global[d] = copy[d] /\ d \in Callbacks
  <2>1. global[d] = AtStartup(d, copy) /\ handler[d] \in AllHandlers
    BY <1>1 DEF Started
  <2>2. CASE handler[d] = "callback"
    BY <1>1, <2>1, <2>2 DEF AtStartup, Callbacks, Pointer, Pointers
  <2>3. CASE handler[d] \in Pointers
    BY <1>2, <2>1, <2>3 DEF AtStartup, Pointer, Pointers
  <2>4. CASE handler[d] \in {"int", "serializer", "encoding"}
    BY <1>2, <2>1, <2>4, IniAssumption DEF AtStartup, Pointer, Pointers, Number
  <2> QED
    BY <2>1, <2>2, <2>3, <2>4 DEF AllHandlers, Pointers
<1>7. Data
  BY <1>1, <1>5, <1>6 DEF Data, Started
<1>8. \A d \in Directive : entry[d].value = Orig(d) /\ entry[d].orig = Null
  BY DEF Started, Unmodified
<1>8a. \A d \in Directive : ~Told(d)
  BY DEF Started, Told, Working
<1>9. ASSUME NEW d \in Directive, NEW p \in Strings(d)
      PROVE  d \in Callbacks /\ p = copy[d] /\ heap[p] # Free
  <2>1. entry[d].value \notin Addr
    BY <1>2, <1>8, PointerApart
  <2>2. d \in Callbacks /\ p = global[d]
    BY <1>6, <2>1, PointerApart DEF Strings, HasGlobal
  <2>3. p = copy[d] /\ p \in Addr
    BY <1>6, <2>2 DEF Callbacks
  <2> QED
    BY <1>4, <2>2, <2>3, PointerApart
<1>10. \A d, e \in Directive : d # e => Strings(d) \cap Strings(e) = {}
  BY <1>1, <1>9 DEF Injective
<1>11. \A d \in Directive : entry[d].value \notin Addr /\ entry[d].orig \notin Addr
  BY <1>2, <1>8, PointerApart
<1>12. ASSUME NEW d \in Directive, d \notin split
       PROVE  Says(d, entry[d].value)
  <2>1. global[d] = AtStartup(d, copy) /\ handler[d] \in AllHandlers /\ ~Rejects(d, ini[d])
    BY <1>1, <1>12 DEF Started
  <2>2. entry[d].value = Orig(d)
    BY <1>8
  <2>3. Str(d, Orig(d)) = Config(d)
    BY <1>2, PointerApart DEF Str
  <2>4. CASE handler[d] = "callback"
    BY <2>4 DEF Says, Pointers
  <2>5. CASE handler[d] \in Pointers
    BY <2>1, <2>2, <2>5 DEF Says, AtStartup, Pointers
  <2>6. CASE handler[d] \in {"int", "serializer", "encoding"}
    BY <2>1, <2>2, <2>3, <2>6 DEF Says, AtStartup, Pointers
  <2> QED
    BY <2>1, <2>4, <2>5, <2>6 DEF AllHandlers, Pointers
<1>13. NewInv
  BY DEF NewInv, Started
<1>14. OwnInv
  BY <1>9, <1>10, <1>11 DEF OwnInv, Callbacks
<1>15. SaysInv
  BY <1>12, <1>8a DEF SaysInv
<1> QED
  BY <1>7, <1>13, <1>14, <1>15 DEF Owns

LEMMA InitOwns == Init => Data /\ Owns
<1>1. Init => Started
  BY DEF Init, Started
<1> QED
  BY <1>1, StartedOwns

LEMMA RestartOwns == Data /\ Restart /\ call = Null => Data' /\ Owns'
<1>1. Data /\ Restart /\ call = Null => Started'
  <2> SUFFICES ASSUME Data, Restart, call = Null PROVE Started'
    OBVIOUS
  <2>1. UNCHANGED fixed /\ Callbacks' = Callbacks
    BY DEF Restart, fixed, Callbacks
  <2>2. \A d \in Directive : Unmodified(d)' = Unmodified(d)
    BY <2>1, ConfigFixed DEF Unmodified
  <2>3. \A copy \in [Callbacks -> Addr] :
          /\ Copies(copy)' = Copies(copy)
          /\ [d \in Directive |-> AtStartup(d, copy)]' = [d \in Directive |-> AtStartup(d, copy)]
    BY <2>1 DEF Copies, Copied, AtStartup, Config, BuiltIn, Rejects, Orig, fixed
  <2>4. {d \in Directive : Rejects(d, ini[d])}' = {d \in Directive : Rejects(d, ini[d])}
    BY <2>1 DEF Rejects, fixed
  <2>5. entry' = [d \in Directive |-> Unmodified(d)]'
    BY <2>2 DEF Restart
  <2> QED
    BY <2>1, <2>3, <2>4, <2>5 DEF Restart, Started, Data, fixed
<1> QED
  BY <1>1, StartedOwns, PTL

\* Every step keeps the types, the handler's copies included.
LEMMA DataStep ==
  ASSUME PInv, Data, stage # "undefined" => Owns, [Next]_vars
  PROVE  Data'
<1>0. UNCHANGED fixed
  BY FixedStep
<1>1. \A d \in Directive : Orig(d) \in Pointer
  BY ConfigType DEF Pointer
<1>2. CASE OnModify
  <2>1. call # Null /\ call.at = "notify" /\ stage # "undefined"
    BY <1>2 DEF OnModify, PInv, IInv, CallInv
  <2>2. Owns /\ call.d \in Directive /\ call.new \in Pointer
    BY <2>1, CallType
  <2> DEFINE s == Str(call.d, call.new)
  <2>3. s \in Texts \cup {Null}
    BY <2>1, <2>2, NewString
  <2>4. Number(s) \in Texts \cup {0}
    BY <2>3, IniAssumption DEF Number
  <2>5. {sweep', split', stale'} \subseteq SUBSET Directive /\ {fired', cut'} \subseteq BOOLEAN
    <3>1. CASE Unaffected \/ Undefined
      BY <3>1 DEF Unaffected, Undefined, Data
    <3>2. CASE Bailout /\ UNCHANGED <<fired, stale>> /\ split' = split \cup {call.d}
      BY <2>2, <3>2 DEF Bailout, Data
    <3> QED
      BY <1>2, <3>1, <3>2 DEF OnModify, OnUpdateString, OnUpdateStringUnempty, OnUpdateInt,
         OnUpdateSerializer, OnUpdateEncoding, OnChangeCallback
  <2>6. ASSUME NEW g \in Pointer \cup Texts \cup {0}, global' = [global EXCEPT ![call.d] = g]
        PROVE  global' \in [Directive -> Pointer \cup Texts \cup {0, Native}]
    BY <2>2, <2>6 DEF Data
  <2>7. CASE OnChangeCallback(call.d, s)
    <3>1. CASE Undefined
      BY <1>0, <2>5, <3>1 DEF Undefined, state, Data, fixed
    <3>2. CASE ~Undefined
      <4> DEFINE kept == IF global[call.d] = Null THEN heap
                         ELSE [heap EXCEPT ![global[call.d]] = Free]
      <4>1. PICK a \in Addr :
              /\ global' = [global EXCEPT ![call.d] = a]
              /\ heap' = [kept EXCEPT ![a] = IF s = Null THEN Empty ELSE s]
        BY <2>7, <3>2 DEF OnChangeCallback, Set
      <4>2. kept \in [Addr -> Texts \cup {Free}]
        BY DEF Data
      <4>3. heap' \in [Addr -> Texts \cup {Free}]
        BY <2>3, <4>1, <4>2, IniAssumption
      <4>4. a \in Pointer
        BY DEF Pointer
      <4> QED
        BY <1>0, <2>5, <2>6, <4>1, <4>3, <4>4 DEF Data, fixed
    <3> QED
      BY <3>1, <3>2
  <2>8. CASE ~OnChangeCallback(call.d, s)
    <3>1. heap' = heap
      BY <1>2, <2>8 DEF OnModify, OnUpdateString, OnUpdateStringUnempty, OnUpdateInt,
         OnUpdateSerializer, OnUpdateEncoding
    <3>2. global' = global \/ \E g \in Pointer \cup Texts \cup {0} :
                                global' = [global EXCEPT ![call.d] = g]
      BY <1>2, <2>2, <2>3, <2>4, <2>8, IniAssumption DEF OnModify, OnUpdateString, OnUpdateStringUnempty,
         OnUpdateInt, OnUpdateSerializer, OnUpdateEncoding, Set, Refuses, LeavesIt, Pointer
    <3> QED
      BY <1>0, <2>5, <2>6, <3>1, <3>2 DEF Data, fixed
  <2> QED
    BY <2>7, <2>8
<1>3. CASE ModulesShutdown
  BY <1>0, <1>3 DEF ModulesShutdown, Undefined, state, Data, fixed, Pointer, Idle
<1>4. CASE MemoryShutdown
  BY <1>0, <1>4 DEF MemoryShutdown, Data, fixed, Modified, Callbacks
<1>5. CASE Timeout
  <2>1. call # Null => call.d \in Directive
    BY CallType
  <2> QED
    BY <1>0, <1>5, <2>1 DEF Timeout, Bailout, Data, fixed
<1>6. CASE Restart
  <2>1. call = Null
    BY <1>6 DEF Restart, PInv, IInv, CallInv
  <2> QED
    BY <1>6, <2>1, RestartOwns
<1>7. CASE Keep
  BY <1>0, <1>7 DEF Keep, Undefined, Settled, Efree, state, Data, fixed
<1>8. CASE Assign
  BY <1>0, <1>8 DEF Assign, Settled, Data, fixed
<1>9. CASE Discard
  BY <1>0, <1>9 DEF Discard, Settled, Efree, Data, fixed
<1>10. CASE \E d \in Directive, s \in Texts : Alter(d, s)
  BY <1>0, <1>10 DEF Alter, Settled, Data, fixed
<1>11. CASE \E d \in Directive : IniRestore(d)
  BY <1>0, <1>11 DEF IniRestore, Settled, state, Data, fixed
<1>12. CASE SweepNext
  BY <1>0, <1>12 DEF SweepNext, state, Data, fixed
<1>13. CASE SweepEnds
  BY <1>0, <1>13 DEF SweepEnds, state, Data, fixed
<1>14. CASE Activate \/ Decline \/ Begin \/ ScriptEnds \/ FunctionsEnd
  BY <1>0, <1>14 DEF Activate, Decline, Begin, ScriptEnds, FunctionsEnd, Quiet, state, Data, fixed
<1>15. CASE UNCHANGED vars
  BY <1>15 DEF vars, state, fixed, Data
<1> QED
  BY <1>2, <1>3, <1>4, <1>5, <1>6, <1>7, <1>8, <1>9, <1>10, <1>11, <1>12, <1>13, <1>14, <1>15
  DEF Next

\* Every step leaves each string to the one that owns it.
LEMMA OwnsStep ==
  ASSUME PInv, Data, stage # "undefined" => Owns, [Next]_vars, stage' # "undefined"
  PROVE  Owns'
<1>1. CASE Restart
  <2>1. call = Null
    BY <1>1 DEF Restart, PInv, IInv, CallInv
  <2> QED
    BY <1>1, <2>1, RestartOwns
<1>2. CASE ~Restart /\ [Next]_vars
  <2>0. stage # "undefined"
    <3>1. call # Null => stage # "undefined"
      BY DEF PInv, IInv, CallInv
    <3> QED
      BY <1>2, <3>1 DEF Next, Activate, Decline, Begin, ScriptEnds, FunctionsEnd, ModulesShutdown,
         MemoryShutdown, SweepNext, SweepEnds, Sweeping, Alter, IniRestore, OnModify, Keep,
         Discard, Assign, Timeout, Idle, vars
  <2>1. CASE OnModify
    BY <2>0, <2>1, OnModifyOwns
  <2>2. CASE Keep
    BY <2>0, <2>2, KeepOwns
  <2>3. CASE Assign
    BY <2>0, <2>3, AssignOwns
  <2>4. CASE Discard
    BY <2>0, <2>4, DiscardOwns
  <2>5. CASE Timeout
    BY <2>0, <2>5, TimeoutOwns
  <2>6. CASE \E d \in Directive, s \in Texts : Alter(d, s)
    BY <2>0, <2>6, AlterOwns
  <2>7. CASE \E d \in Directive : IniRestore(d)
    <3>1. PICK d \in Directive : IniRestore(d)
      BY <2>7
    <3> QED
      BY <2>0, <3>1, RestoringOwns DEF IniRestore, Settled
  <2>8. CASE SweepNext
    <3>1. PICK d \in Modified : Restoring(d)
      BY <2>8 DEF SweepNext
    <3>2. call = Null /\ UNCHANGED <<fixed, state, split, stale>>
      BY <2>8 DEF SweepNext, Sweeping
    <3>3. d \in Directive /\ entry[d].modified
      BY DEF Modified
    <3> QED
      BY <2>0, <3>1, <3>2, <3>3, RestoringOwns
  <2>9. CASE ModulesShutdown
    BY <2>0, <2>9, ModulesShutdownOwns
  <2>10. CASE MemoryShutdown
    BY <2>0, <2>10, MemoryShutdownOwns
  <2>11. CASE Activate \/ Decline \/ Begin \/ ScriptEnds \/ FunctionsEnd \/ SweepEnds
    <3>1. UNCHANGED <<fixed, state, call, split, stale>>
      BY <2>11 DEF Activate, Decline, Begin, ScriptEnds, FunctionsEnd, SweepEnds, Quiet
    <3> QED
      BY <2>0, <3>1, SameOwns
  <2>12. CASE UNCHANGED vars
    BY <2>0, <2>12, SameOwns DEF vars
  <2> QED
    BY <1>2, <2>1, <2>2, <2>3, <2>4, <2>5, <2>6, <2>7, <2>8, <2>9, <2>10, <2>11, <2>12 DEF Next
<1> QED
  BY <1>1, <1>2

\* Strings of directives and globals are allocated, have one owner, and are what the
\* globals say, whatever the handlers, timeouts and requests.
THEOREM Memory == Spec => []MemInv
<1> DEFINE Inv == PInv /\ Data /\ (stage # "undefined" => Owns)
<1>1. Init => Inv
  BY InitInv, InitOwns
<1>2. Inv /\ [Next]_vars => Inv'
  BY StepInv, DataStep, OwnsStep
<1>3. Inv => MemInv
  BY MemParts DEF PInv
<1> QED
  BY <1>1, <1>2, <1>3, PTL DEF Spec

\* No directive or global keeps a string that has been freed, and none is freed by two.
THEOREM StringsStaySound == Spec => []StringsSound
<1>1. MemInv => StringsSound
  <2> SUFFICES ASSUME MemInv PROVE StringsSound
    OBVIOUS
  <2>1. ASSUME stage # "undefined", NEW d \in Directive, Untouched(d)
        PROVE  /\ HasValue(d) /\ (handler[d] \in Pointers \cup {"callback"} => HasGlobal(d))
    BY <2>1 DEF Untouched, HasValue, HasGlobal, Working
  <2>2. NoDangling
    BY <2>1 DEF NoDangling, Allocated, MemInv, OwnInv, Strings
  <2>3. ASSUME stage # "undefined", NEW d \in Directive, Untouched(d)
        PROVE  Owned(d) \cap Addr \subseteq Strings(d)
    BY <2>1, <2>3 DEF Owned, Strings
  <2>4. OneOwner
    BY <2>3 DEF OneOwner, MemInv, OwnInv
  <2> QED
    BY <2>2, <2>4 DEF StringsSound, MemInv
<1> QED
  BY <1>1, Memory, PTL

\* Each global says what its directive says, outside of an alteration, unless one was
\* cut off.
THEOREM GlobalsFollow == Spec => []InForce
<1>1. MemInv => InForce
  BY DEF MemInv, InForce, SaysInv, Untouched, Told, Working
<1> QED
  BY <1>1, Memory, PTL

=============================================================================
