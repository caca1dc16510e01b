------------------------------- MODULE Ini -------------------------------
(***************************************************************************)
(* Configuration directives (Zend/zend_ini.c): each has a value, and a     *)
(* handler that copies it to the global the code reads.  Per-directory     *)
(* settings and scripts change values for the length of a request; the end *)
(* of the request puts them back, before its memory is freed.              *)
(***************************************************************************)
EXTENDS Integers, FiniteSets

CONSTANTS
  Directive,
  UserDirective,   \* those that scripts may change: PHP_INI_USER
  Rank,            \* the place of each in the hash table
  Handlers,        \* the kinds of on_modify handler that each may have
  Addr,            \* request memory
  Texts, Empty,    \* values of directives, and the empty string
  Known,           \* those that name a serializer or an encoding, or spell a number
  Default,         \* the value the code gives directives that cannot do without
  Native,          \* the encoding before anything is configured
  Free, Null, Conf

AllHandlers == {"string", "unempty", "int", "serializer", "encoding", "callback"}

Pointer == Addr \cup {Null, Conf}
Calls   == [what : {"alter", "restore"}, d : Directive, new : Pointer,
           at : {"notify", "keep", "discard", "assign"}]

ASSUME IniAssumption ==
  /\ UserDirective \subseteq Directive /\ Handlers \in [Directive -> SUBSET AllHandlers]
  /\ Rank \in [Directive -> Nat]
  /\ \A d, e \in Directive : Rank[d] = Rank[e] => d = e
  /\ Empty \in Texts /\ Known \subseteq Texts \ {Empty} /\ Default \in Known
  /\ Free \notin Texts /\ Null \notin Texts \cup Addr \cup Calls /\ Conf \notin Addr \cup {Null}

VARIABLES
  handler,   \* on_modify of each directive
  ini,       \* what php.ini has for it; Null when it has nothing
  stage,     \* how far the request is; "undefined" after an efree() of freed memory
  entry,     \* value, orig_value and modified of each directive
  global,    \* what its handler maintains
  heap,      \* the strings in request memory
  call,      \* the zend_alter_ini_entry() or zend_restore_ini_entry_cb() in progress
  sweep,     \* the directives zend_ini_deactivate() has not reached
  fired,     \* the timeout of this request has gone off
  split,     \* directives whose handler or alteration was cut off, or whose
             \* value of php.ini was rejected
  stale,     \* directives left with a pointer to memory that is freed
  cut        \* the last zend_ini_deactivate() was not run, or not to its end

fixed == <<handler, ini>>
state == <<entry, global, heap>>
vars  == <<fixed, state, stage, call, sweep, fired, split, stale, cut>>

Idle     == "idle"
Pointers == {"string", "unempty"}

(***************************************************************************)
(* zend_register_ini_entries(), from the startup of each module.           *)
(***************************************************************************)
\* The handlers that return FAILURE.
Rejects(d, s) ==
  \/ handler[d] = "unempty" /\ s = Empty
  \/ handler[d] = "encoding" /\ s \in Texts \ (Known \cup {Empty})

BuiltIn(d) ==
  IF handler[d] \in {"unempty", "int", "serializer"} THEN Default ELSE Null
Config(d) ==
  IF ini[d] = Null \/ Rejects(d, ini[d]) THEN BuiltIn(d) ELSE ini[d]
Orig(d)   == IF Config(d) = Null THEN Null ELSE Conf
Str(d, p) == IF p = Conf THEN Config(d) ELSE IF p = Null THEN Null ELSE heap[p]

Unmodified(d) == [value |-> Orig(d), orig |-> Null, modified |-> FALSE]
Callbacks == {d \in Directive : handler[d] = "callback"}

\* What OnUpdateInt() makes of a value.
Number(s) == IF s \in Known THEN s ELSE 0

\* A global whose value of php.ini is rejected is left alone.  An E_ERROR of a
\* handler returns, before module_initialized.
AtStartup(d, copy) ==
  CASE handler[d] = "string"     -> Orig(d)
    [] handler[d] = "unempty"    -> IF Rejects(d, ini[d]) THEN Null ELSE Orig(d)
    [] handler[d] = "int"        -> Number(Config(d))
    [] handler[d] = "serializer" -> IF Config(d) \in Known THEN Config(d) ELSE Null
    [] handler[d] = "encoding"   -> IF Config(d) \in Known THEN Config(d) ELSE Native
    [] OTHER                     -> copy[d]

Copied(d)       == IF Config(d) = Null THEN Empty ELSE Config(d)
Injective(copy) == \A d, e \in DOMAIN copy : copy[d] = copy[e] => d = e
Copies(copy)    == [a \in Addr |-> IF \E d \in DOMAIN copy : copy[d] = a
                                     THEN Copied(CHOOSE d \in DOMAIN copy : copy[d] = a)
                                     ELSE Free]

Init ==
  /\ handler \in [Directive -> AllHandlers]
  /\ \A d \in Directive : handler[d] \in Handlers[d]
  /\ ini \in [Directive -> Texts \cup {Null}]
  /\ entry = [d \in Directive |-> Unmodified(d)]
  /\ \E copy \in [Callbacks -> Addr] :
       /\ Injective(copy) /\ heap = Copies(copy)
       /\ global = [d \in Directive |-> AtStartup(d, copy)]
  /\ stage = Idle /\ call = Null /\ sweep = {} /\ fired = FALSE /\ cut = FALSE
  /\ split = {d \in Directive : Rejects(d, ini[d])} /\ stale = {}

-----------------------------------------------------------------------------
(***************************************************************************)
(* Memory of the request.  What happens after an efree() of memory that is *)
(* free is undefined, until another process takes over.                    *)
(***************************************************************************)
Undefined ==
  /\ stage' = "undefined" /\ call' = Null
  /\ UNCHANGED <<state, sweep, fired, split, stale, cut>>

Efree(p) == heap' = [heap EXCEPT ![p] = Free]

Restart ==
  /\ stage = "undefined" /\ stage' = Idle
  /\ entry' = [d \in Directive |-> Unmodified(d)]
  /\ \E copy \in [Callbacks -> Addr] :
       /\ Injective(copy) /\ heap' = Copies(copy)
       /\ global' = [d \in Directive |-> AtStartup(d, copy)]
  /\ sweep' = {} /\ fired' = FALSE /\ cut' = FALSE
  /\ split' = {d \in Directive : Rejects(d, ini[d])} /\ stale' = {}
  /\ UNCHANGED <<fixed, call>>

(***************************************************************************)
(* _zend_bailout(), out of an E_ERROR of a handler or of the timeout's     *)
(* signal: the script's to its shutdown functions, theirs to the rest of   *)
(* php_request_shutdown(), zend_ini_deactivate()'s to what follows it, and *)
(* that of a per-directory setting out of send_php(), past both.           *)
(***************************************************************************)
Modified == {d \in Directive : entry[d].modified}

Bailout ==
  /\ stage' = CASE stage = "run"        -> "functions"
                [] stage = "functions"  -> "modules"
                [] stage = "deactivate" -> "memory"
                [] OTHER                -> Idle
  /\ call' = Null /\ sweep' = {}
  /\ cut' = IF stage \in {"run", "functions"} THEN cut ELSE Modified # {}
  /\ UNCHANGED entry

\* The call was past its handler; or past its efree() as well.
Timeout ==
  /\ stage \in {"run", "functions", "deactivate"} /\ ~fired /\ fired' = TRUE
  /\ split' = IF call # Null /\ call.at \in {"keep", "assign"}
                THEN split \cup {call.d} ELSE split
  /\ stale' = IF call # Null /\ call.at = "assign" /\ entry[call.d].modified
                THEN stale \cup {call.d} ELSE stale
  /\ Bailout /\ UNCHANGED <<fixed, global, heap>>

(***************************************************************************)
(* on_modify(): the directive is given s, the string that p points to.     *)
(***************************************************************************)
Past(at)      == call' = [call EXCEPT !.at = at]
Unaffected    == UNCHANGED <<stage, sweep, fired, split, stale, cut, entry>>
Set(d, g)     == global' = [global EXCEPT ![d] = g] /\ Past("keep")
LeavesIt      == UNCHANGED global /\ Past("keep")

\* Mutant: FAILURE is not looked at.
Refuses_ignored == UNCHANGED global /\ Past("keep")

\* Of a restored value, FAILURE is not looked at.
Refuses ==
  /\ UNCHANGED global
  /\ Past(IF call.what = "alter" THEN "discard" ELSE "keep")

OnUpdateString(d, p) ==
  /\ handler[d] = "string" /\ Set(d, p) /\ UNCHANGED heap /\ Unaffected

OnUpdateStringUnempty(d, p, s) ==
  /\ handler[d] = "unempty" /\ UNCHANGED heap /\ Unaffected
  /\ IF s = Empty THEN Refuses ELSE Set(d, p)

OnUpdateInt(d, s) ==
  /\ handler[d] = "int" /\ Set(d, Number(s)) /\ UNCHANGED heap /\ Unaffected

OnUpdateSerializer(d, s) ==
  /\ handler[d] = "serializer" /\ UNCHANGED heap
  /\ IF s \in Known
       THEN Set(d, s) /\ Unaffected
       ELSE /\ global' = [global EXCEPT ![d] = Null] /\ split' = split \cup {d}
            /\ Bailout /\ UNCHANGED <<fired, stale>>

OnUpdateEncoding(d, s) ==
  /\ handler[d] = "encoding" /\ UNCHANGED heap /\ Unaffected
  /\ IF s \in Known THEN Set(d, s)
     ELSE IF s \in {Null, Empty} THEN LeavesIt ELSE Refuses

OnChangeCallback(d, s) ==
  /\ handler[d] = "callback"
  /\ IF global[d] # Null /\ d \in stale
       THEN Undefined
       ELSE LET kept == IF global[d] = Null THEN heap
                        ELSE [heap EXCEPT ![global[d]] = Free] IN
            \E a \in Addr :
              /\ kept[a] = Free /\ Set(d, a)
              /\ heap' = [kept EXCEPT ![a] = IF s = Null THEN Empty ELSE s]
              /\ Unaffected

OnModify ==
  /\ call # Null /\ call.at = "notify"
  /\ LET s == Str(call.d, call.new) IN
       \/ OnUpdateString(call.d, call.new)
       \/ OnUpdateStringUnempty(call.d, call.new, s)
       \/ OnUpdateInt(call.d, s)
       \/ OnUpdateSerializer(call.d, s)
       \/ OnUpdateEncoding(call.d, s)
       \/ OnChangeCallback(call.d, s)
  /\ UNCHANGED fixed

(***************************************************************************)
(* zend_alter_ini_entry(), for Apache's per-directory settings and for     *)
(* ini_set(), session_name() and the like.                                 *)
(***************************************************************************)
Settled == UNCHANGED <<fixed, stage, sweep, fired, cut>>

\* Bound: there is memory left for the handler.
Spare(a) == heap[a] = Free /\ \E b \in Addr \ {a} : heap[b] = Free

Changeable(d) == stage = "activate" \/ d \in UserDirective

\* Mutant: modifyable is not looked at.
Alter_any(d, s) ==
  /\ stage \in {"activate", "run", "functions"} /\ call = Null
  /\ \E a \in Addr :
       /\ Spare(a) /\ heap' = [heap EXCEPT ![a] = s]
       /\ call' = [what |-> "alter", d |-> d, new |-> a, at |-> "notify"]
  /\ Settled /\ UNCHANGED <<entry, global, split, stale>>

Alter(d, s) ==
  /\ stage \in {"activate", "run", "functions"} /\ call = Null /\ Changeable(d)
  /\ \E a \in Addr :
       /\ Spare(a) /\ heap' = [heap EXCEPT ![a] = s]
       /\ call' = [what |-> "alter", d |-> d, new |-> a, at |-> "notify"]
  /\ Settled /\ UNCHANGED <<entry, global, split, stale>>

Discard ==
  /\ call # Null /\ call.at = "discard"
  /\ Efree(call.new) /\ call' = Null
  /\ Settled /\ UNCHANGED <<entry, global, split, stale>>

\* Mutant: the new value is freed for the old one.
Keep_freesnew ==
  /\ call # Null /\ call.at = "keep" /\ Past("assign")
  /\ Settled /\ UNCHANGED <<global, split, stale>>
  /\ IF entry[call.d].modified
       THEN Efree(call.new) /\ UNCHANGED entry
       ELSE /\ entry' = [entry EXCEPT ![call.d].orig = entry[call.d].value]
            /\ UNCHANGED heap

\* The original value is saved, or the changed one freed.
Keep ==
  /\ call # Null /\ call.at = "keep" /\ UNCHANGED fixed
  /\ LET d == call.d IN
     IF ~entry[d].modified
       THEN /\ entry' = [entry EXCEPT ![d].orig = entry[d].value]
            /\ Past("assign") /\ Settled /\ UNCHANGED <<heap, global, split, stale>>
     ELSE IF d \in stale THEN Undefined
     ELSE /\ Efree(entry[d].value)
          /\ Past("assign") /\ Settled /\ UNCHANGED <<entry, global, split, stale>>

\* The directive is consistent again.
Assign ==
  /\ call # Null /\ call.at = "assign" /\ call' = Null
  /\ entry' = [entry EXCEPT ![call.d] =
       IF call.what = "alter"
         THEN [value |-> call.new, orig |-> @.orig, modified |-> TRUE]
         ELSE [value |-> @.orig, orig |-> Null, modified |-> FALSE]]
  /\ split' = split \ {call.d} /\ stale' = stale \ {call.d}
  /\ Settled /\ UNCHANGED <<global, heap>>

(***************************************************************************)
(* zend_restore_ini_entry_cb(), which does not look at modifyable: for     *)
(* ini_restore(), and for all directives in zend_ini_deactivate().         *)
(***************************************************************************)
Restoring(d) ==
  call' = [what |-> "restore", d |-> d, new |-> entry[d].orig, at |-> "notify"]

IniRestore(d) ==
  /\ stage \in {"run", "functions"} /\ call = Null /\ entry[d].modified
  /\ Restoring(d) /\ Settled /\ UNCHANGED <<state, split, stale>>

Sweeping == stage \in {"deactivate", "declined"} /\ call = Null

SweepNext ==
  /\ Sweeping
  /\ \E d \in sweep \cap Modified :
       /\ \A e \in sweep \cap Modified : Rank[d] <= Rank[e]
       /\ sweep' = {e \in sweep : Rank[e] > Rank[d]} /\ Restoring(d)
  /\ UNCHANGED <<fixed, state, stage, fired, split, stale, cut>>

SweepEnds ==
  /\ Sweeping /\ sweep \cap Modified = {} /\ sweep' = {} /\ cut' = FALSE
  /\ stage' = IF stage = "declined" THEN Idle ELSE "memory"
  /\ UNCHANGED <<fixed, state, call, fired, split, stale>>

(***************************************************************************)
(* send_php() and php_request_startup() to php_request_shutdown().         *)
(***************************************************************************)
Quiet == call = Null /\ UNCHANGED <<fixed, state, call, split, stale, cut>>

Activate == stage = Idle /\ stage' = "activate" /\ UNCHANGED <<sweep, fired>> /\ Quiet
\* Mutant: the settings of a declined request stay.
Decline_direct ==
  stage = "activate" /\ stage' = Idle /\ UNCHANGED <<sweep, fired>> /\ Quiet

Decline  == /\ stage = "activate" /\ stage' = "declined" /\ sweep' = Directive
            /\ UNCHANGED fired /\ Quiet
Begin    == /\ stage \in {Idle, "activate"} /\ stage' = "run" /\ fired' = FALSE
            /\ UNCHANGED sweep /\ Quiet
ScriptEnds    == stage = "run" /\ stage' = "functions" /\ UNCHANGED <<sweep, fired>> /\ Quiet
FunctionsEnd  == stage = "functions" /\ stage' = "modules" /\ UNCHANGED <<sweep, fired>> /\ Quiet

\* RSHUTDOWN: assert's callback is freed.
ModulesShutdown ==
  /\ stage = "modules" /\ UNCHANGED fixed
  /\ IF \E d \in Callbacks \cap stale : global[d] # Null
       THEN Undefined
       ELSE /\ stage' = "deactivate" /\ sweep' = Directive
            /\ heap' = [a \in Addr |-> IF \E d \in Callbacks : global[d] = a
                                         THEN Free ELSE heap[a]]
            /\ global' = [d \in Directive |-> IF d \in Callbacks THEN Null ELSE global[d]]
            /\ UNCHANGED <<entry, call, fired, split, stale, cut>>

\* shutdown_memory_manager()
MemoryShutdown ==
  /\ stage = "memory" /\ stage' = Idle /\ heap' = [a \in Addr |-> Free]
  /\ stale' = stale \cup (IF cut THEN Modified ELSE {})
                   \cup {d \in split \cup Callbacks : global[d] \in Addr}
  /\ UNCHANGED <<fixed, entry, global, call, sweep, fired, split, cut>>

Next ==
  \/ Activate \/ Decline \/ Begin \/ ScriptEnds \/ FunctionsEnd
  \/ ModulesShutdown \/ MemoryShutdown \/ SweepNext \/ SweepEnds
  \/ \E d \in Directive, s \in Texts : Alter(d, s)
  \/ \E d \in Directive : IniRestore(d)
  \/ OnModify \/ Keep \/ Discard \/ Assign \/ Timeout \/ Restart

Spec == Init /\ [][Next]_vars

-----------------------------------------------------------------------------
Stages == {Idle, "activate", "declined", "run", "functions", "modules",
           "deactivate", "memory", "undefined"}

\* The variables have their types.
TypeOK ==
  /\ handler \in [Directive -> AllHandlers] /\ ini \in [Directive -> Texts \cup {Null}]
  /\ stage \in Stages /\ call \in Calls \cup {Null}
  /\ entry \in [Directive -> [value : Pointer, orig : Pointer, modified : BOOLEAN]]
  /\ global \in [Directive -> Pointer \cup Texts \cup {0, Native}]
  /\ heap \in [Addr -> Texts \cup {Free}]
  /\ {sweep, split, stale} \subseteq SUBSET Directive /\ {fired, cut} \subseteq BOOLEAN

Untouched(d) == (call # Null => call.d # d) /\ d \notin split \cup stale

\* The global of d says what a value p of it does.
Says(d, p) ==
  LET s == Str(d, p) IN
  /\ handler[d] \in Pointers => global[d] = p
  /\ handler[d] = "int" => global[d] = Number(s)
  /\ handler[d] = "serializer" => global[d] = IF s \in Known THEN s ELSE Null
  /\ handler[d] = "encoding" /\ s \in Known => global[d] = s

\* Each global says what its directive says: ini_set() and ini_restore() leave
\* none behind, whatever the handler answers, and so does the end of a request.
\* Not so after a timeout inside zend_alter_ini_entry() or
\* zend_restore_ini_entry_cb(), or an E_ERROR of the handler; and an encoding
\* stays when its directive goes back to no value (mbstring.c:345-350).
InForce ==
  stage # "undefined" =>
    \A d \in Directive : Untouched(d) => Says(d, entry[d].value)

Allocated(p) == p \in Addr => heap[p] # Free

\* No directive, and no global, keeps a string that has been freed: a value
\* that replaces another is in force before the other is freed, and what a
\* request has set is gone before its memory is.  Except for what a timeout has
\* cut off, and for assert's callback in the requests after one that set it.
NoDangling ==
  stage # "undefined" =>
    \A d \in Directive : Untouched(d) =>
      /\ Allocated(entry[d].value) /\ Allocated(entry[d].orig)
      /\ handler[d] \in Pointers \cup {"callback"} => Allocated(global[d])

Owned(d) == {entry[d].value} \cup (IF handler[d] = "callback" THEN {global[d]} ELSE {})

\* No two directives own one string: none can free another's.
OneOwner ==
  stage # "undefined" =>
    \A d, e \in Directive :
      d # e /\ Untouched(d) /\ Untouched(e) => Owned(d) \cap Owned(e) \cap Addr = {}

\* The strings of the directives and of their globals are allocated, and each is
\* freed by one.
StringsSound == TypeOK /\ NoDangling /\ OneOwner

\* Between requests every directive has its configured value, after a timeout in
\* the script too: unless zend_ini_deactivate() was left out or cut off.
Restored ==
  stage = Idle /\ ~cut =>
    \A d \in Directive : entry[d].value = Orig(d) /\ ~entry[d].modified

\* What an alteration saves is the configured value, however often the value
\* has been changed.
OrigIsConfigured ==
  \A d \in Directive : entry[d].modified => entry[d].orig = Orig(d)

\* What makes Restored inductive: the call in progress, and the directives that
\* zend_ini_deactivate() has still to reach.
CallInv ==
  call # Null =>
    /\ stage \in {"activate", "declined", "run", "functions", "deactivate"}
    /\ stage \in {"declined", "deactivate"} => call.what = "restore"
    /\ call.what = "restore" => entry[call.d].modified
    /\ call.at = "discard" => call.what = "alter"
    /\ call.what = "alter" => Changeable(call.d)
    /\ call.what = "alter" /\ call.at = "assign" => entry[call.d].orig = Orig(call.d)

SweepInv ==
  /\ stage \in {"declined", "deactivate"} =>
       \A d \in Modified : d \in sweep \/ (call # Null /\ call.d = d)
  /\ stage \in {"memory", Idle} /\ ~cut => Modified = {}

\* An entry that is not modified has its configured value, one that is has kept
\* it, and no modified entry escapes zend_ini_deactivate() unless it is cut off.
IInv ==
  /\ \A d \in Directive : ~entry[d].modified => entry[d].value = Orig(d)
  /\ OrigIsConfigured /\ CallInv /\ SweepInv

\* What makes StringsSound and InForce inductive.  Told: the handler of d has accepted
\* the new value.  A stale directive has no value to use, nor has one whose value the
\* call in progress has freed; the global of one that has been told is a new one.
Working(d, S) == call # Null /\ call.d = d /\ call.at \in S
Told(d)       == Working(d, {"keep", "assign"})
HasValue(d)   == d \notin stale /\ ~(Working(d, {"assign"}) /\ entry[d].modified)
HasGlobal(d)  == handler[d] \in Pointers \cup {"callback"} /\ (d \notin stale \/ Told(d))

Strings(d) ==
  {p \in Addr : (HasValue(d) /\ p = entry[d].value) \/ (HasGlobal(d) /\ p = global[d])}

\* The directives that a timeout has left split own what they refer to as well.
OwnInv ==
  /\ \A d \in Directive : \A p \in Strings(d) : heap[p] # Free
  /\ \A d, e \in Directive : d # e => Strings(d) \cap Strings(e) = {}
  /\ \A d \in Callbacks :
       HasValue(d) /\ HasGlobal(d) /\ global[d] \in Addr => entry[d].value # global[d]
  /\ \A d \in Directive : entry[d].orig \notin Addr

\* The string that the call has made is not yet its directive's, and nobody else's.
NewInv ==
  /\ call # Null /\ call.what = "restore" => call.new = Orig(call.d)
  /\ call # Null /\ call.what = "alter" =>
       /\ call.new \in Addr /\ heap[call.new] # Free
       /\ \A e \in Directive : call.new \in Strings(e) => e = call.d /\ Told(e)
       /\ call.at = "keep" /\ HasValue(call.d) => entry[call.d].value # call.new
       /\ Told(call.d) /\ handler[call.d] = "callback" => global[call.d] # call.new

\* Once its handler has accepted a value, a global says what the new value does.
SaysInv ==
  \A d \in Directive :
    /\ Told(d) => Says(d, call.new)
    /\ ~Told(d) /\ d \notin split \cup stale => Says(d, entry[d].value)

MemInv == TypeOK /\ (stage # "undefined" => OwnInv /\ NewInv /\ SaysInv)

\* A script changes a directive that is not PHP_INI_USER in one way only: back
\* to its configured value, by ini_restore().
OnlyBack ==
  [][\A d \in Directive \ UserDirective :
       stage \in {"run", "functions"} /\ entry'[d].value # entry[d].value
         => entry'[d].value = Orig(d)]_vars
=============================================================================
