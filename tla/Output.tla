------------------------------- MODULE Output -------------------------------
(***************************************************************************)
(* The output of a request: buffers and their handlers (main/output.c),    *)
(* the response headers (main/SAPI.c), and the order in which              *)
(* php_request_shutdown() ends both (main/main.c).                         *)
(*                                                                         *)
(* A handler is PHP code that runs inside php_end_ob_buffer(), and may     *)
(* write, start and end buffers, or end the request.  So that its effects  *)
(* come in the code's order the pending C calls are kept on a stack.       *)
(***************************************************************************)
EXTENDS Integers, Sequences, FiniteSets

CONSTANTS
  Chunk,       \* the chunk_size of the buffers that have one
  MaxWrites,   \* bound: on what is written in a request
  MaxLevel,    \* bound: on the buffers inside one another
  MaxText,     \* how much a buffer holds when memory_limit is reached
  MaxCalls     \* how deep calls nest when the C stack is full

\* A process has room for one buffer, and for a write in a handler.
ASSUME OutputAssumption ==
  /\ Chunk \in Nat \ {0} /\ {MaxWrites, MaxLevel, MaxText, MaxCalls} \subseteq Nat
  /\ MaxLevel > 0 /\ MaxCalls > 3

VARIABLES
  stage,         \* how far the request is
  calls,         \* the pending C calls, the innermost first
  level,         \* OG(ob_nesting_level)
  active,        \* OG(active_ob_buffer)
  stack,         \* OG(ob_buffers)
  body,          \* OG(php_body_write): "b", "ub" or "no_header"
  lock,          \* OG(ob_lock)
  sapi,          \* headers_sent, headers_only, disable_output, ignore_user_abort, modules_activated
  client,        \* what the server has sent: 0 is the headers, n the n-th write
  written,       \* how much the code has written
  dropped,       \* the writes that were discarded
  torn           \* a buffer was flushed into itself, or by its own handler

buffers == <<level, active, stack, body, lock>>
ghosts  == <<client, written, dropped, torn>>
vbls    == <<stage, calls, buffers, sapi, ghosts>>

Buffer == [text |-> <<>>, chunk |-> 0, handler |-> FALSE]
Kinds  == [chunk : {0, Chunk}, handler : BOOLEAN]

Init ==
  /\ stage = "idle" /\ calls = <<>>
  /\ level = 0 /\ active = Buffer /\ stack = <<>> /\ body = "ub" /\ lock = FALSE
  /\ sapi = [sent |-> FALSE, only |-> FALSE, disabled |-> FALSE, ignore |-> FALSE,
             modules |-> FALSE]
  /\ client = <<>> /\ written = 0 /\ dropped = {} /\ torn = FALSE

-----------------------------------------------------------------------------
Elements(s) == {s[i] : i \in DOMAIN s}
Top         == Head(calls)
In(fn)      == Len(calls) \in 1 .. MaxCalls - 1 /\ Top.fn = fn
Push(c)     == calls' = <<c>> \o calls

\* PHP code is running: the script, a function called at shutdown, or a handler.
\* Once output is torn only what the C code still does is followed.
Running == ~torn /\ IF calls = <<>> THEN stage \in {"script", "functions", "modules"}
                    ELSE Top.fn = "handler"

\* The steps of php_request_shutdown() that concern output.
After(s) ==
  CASE s = "script"    -> "buffers"
    [] s = "buffers"   -> "headers"
    [] s = "sending"   -> IF sapi.modules THEN "functions" ELSE "idle"
    [] s = "functions" -> "modules"
    [] s = "modules"   -> "idle"

\* zend_bailout(): the zend_try around this step catches it, the next step follows.
Bailout == calls' = <<>> /\ stage' = After(stage)

\* Mutant: php_output_activate() leaves ob_lock alone.
Start_locked ==
  /\ stage = "idle" /\ calls' = <<>> /\ stack' = <<>> /\ UNCHANGED lock
  /\ level' = 0 /\ active' = Buffer /\ body' = "ub"
  /\ sapi' = [sent |-> FALSE, only |-> FALSE, disabled |-> FALSE, ignore |-> FALSE,
              modules |-> TRUE]
  /\ stage' = "script"
  /\ client' = <<>> /\ written' = 0 /\ dropped' = {} /\ torn' = FALSE

(***************************************************************************)
(* php_request_startup(): php_output_activate(), sapi_activate(), and the  *)
(* buffer of output_handler or output_buffering; a module may fail.        *)
(***************************************************************************)
Start ==
  /\ stage = "idle" /\ calls' = <<>> /\ stack' = <<>> /\ lock' = FALSE
  /\ \/ level' = 0 /\ active' = Buffer /\ body' = "ub"
     \/ /\ level' = 1 /\ body' = "b"
        /\ active' \in {Buffer, [Buffer EXCEPT !.chunk = Chunk], [Buffer EXCEPT !.handler = TRUE]}
  /\ \E only, ignore, modules \in BOOLEAN :
        /\ sapi' = [sent |-> FALSE, only |-> only, disabled |-> FALSE, ignore |-> ignore,
                    modules |-> modules]
        /\ stage' = IF modules THEN "script" ELSE "buffers"
  /\ client' = <<>> /\ written' = 0 /\ dropped' = {} /\ torn' = FALSE

(***************************************************************************)
(* What reaches the client: sapi_send_headers(), and php_ub_body_write()   *)
(***************************************************************************)
Drop(text) == dropped' = dropped \cup Elements(text)

\* php_handle_aborted_connection(), in a call of sapi_module.ub_write().
Aborted(s) ==
  /\ sapi' = [s EXCEPT !.disabled = TRUE]
  /\ IF s.ignore THEN calls' = Tail(calls) /\ UNCHANGED stage ELSE Bailout

\* sapi_send_headers(): headers_sent is set first, so that an error in it does not
\* send them again; a server module may report that they could not be sent.
SendHeaders ==
  /\ In("headers") /\ UNCHANGED <<buffers, written, dropped, torn>>
  /\ \/ /\ sapi.sent /\ calls' = Tail(calls) /\ UNCHANGED <<stage, sapi, client>>
     \/ /\ ~sapi.sent /\ sapi' = [sapi EXCEPT !.sent = TRUE]
        /\ client' = IF sapi.disabled THEN client ELSE Append(client, 0)
        /\ calls' = Tail(calls) /\ UNCHANGED stage
     \/ ~sapi.sent /\ ~sapi.disabled /\ Aborted([sapi EXCEPT !.sent = TRUE]) /\ UNCHANGED client
     \/ ~sapi.sent /\ calls' = Tail(calls) /\ UNCHANGED <<stage, sapi, client>>

\* php_ub_body_write() after php_header(): a HEAD request ends here.
AfterHeaders ==
  /\ In("ub") /\ UNCHANGED <<level, active, stack, lock, sapi, client, written, torn>>
  /\ \/ sapi.only /\ Bailout /\ UNCHANGED <<body, dropped>>
     \/ /\ ~sapi.only /\ ~sapi.sent /\ Drop(Top.text)
        /\ calls' = Tail(calls) /\ UNCHANGED <<stage, body>>
     \/ /\ ~sapi.only /\ sapi.sent /\ body' = "no_header"
        /\ calls' = <<[Top EXCEPT !.fn = "body_write"]>> \o Tail(calls) /\ UNCHANGED <<stage, dropped>>

(***************************************************************************)
(* OG(php_body_write)()                                                    *)
(***************************************************************************)
Call(fn, text) == [fn |-> fn, text |-> text, send |-> TRUE, flush |-> TRUE]
End(send, flush) == [fn |-> "end", text |-> <<>>, send |-> send, flush |-> flush]

\* php_ob_append(): when a chunk is complete it is flushed.  When memory_limit is
\* reached the length has been raised, and the buffer may have moved.
AppendTo ==
  LET t == active.text \o Top.text IN
  /\ In("body_write") /\ body = "b"
  /\ active' = [active EXCEPT !.text = t]
  /\ UNCHANGED <<level, stack, body, lock, sapi, client, written, dropped>>
  /\ IF Len(t) > MaxText THEN Bailout /\ torn' = TRUE
     ELSE /\ UNCHANGED <<stage, torn>>
          /\ calls' = (IF active.chunk # 0 /\ Len(t) >= active.chunk
                         THEN <<End(TRUE, TRUE)>> ELSE <<>>) \o Tail(calls)

WriteUnbuffered ==
  /\ In("body_write") /\ body = "ub"
  /\ calls' = <<Call("headers", <<>>), [Top EXCEPT !.fn = "ub"]>> \o Tail(calls)
  /\ UNCHANGED <<stage, buffers, sapi, ghosts>>

WriteNoHeader ==
  /\ In("body_write") /\ body = "no_header" /\ UNCHANGED <<buffers, written, dropped, torn>>
  /\ \/ sapi.disabled /\ calls' = Tail(calls) /\ UNCHANGED <<stage, sapi, client>>
     \/ /\ ~sapi.disabled /\ client' = client \o Top.text /\ calls' = Tail(calls)
        /\ UNCHANGED <<stage, sapi>>
     \/ ~sapi.disabled /\ Aborted(sapi) /\ UNCHANGED client

(***************************************************************************)
(* php_end_ob_buffer(): the handler, then the rest                         *)
(***************************************************************************)
\* What body_write becomes when the outermost buffer is ended or flushed.
Unbuffered == IF sapi.sent /\ ~sapi.only THEN "no_header" ELSE "ub"

\* The rest, for the handled text: the buffer is popped (or emptied, after the
\* write), and the text is written.
Finish(send, flush, text) ==
  /\ body' = IF level = 1 THEN Unbuffered ELSE body
  /\ IF flush THEN UNCHANGED <<level, active, stack>>
     ELSE /\ level' = level - 1
          /\ IF level > 1
               THEN active' = stack[Len(stack)] /\ stack' = SubSeq(stack, 1, Len(stack) - 1)
               ELSE active' = Buffer /\ UNCHANGED stack
  /\ calls' = (IF send THEN <<Call("body_write", text)>> ELSE <<>>)
              \o (IF flush THEN <<Call("flushed", <<>>)>> ELSE <<>>) \o Tail(calls)
  /\ dropped' = dropped \cup {n \in Elements(active.text) : send => n \notin Elements(text)}
  /\ UNCHANGED <<stage, sapi, client, written>>

EndBuffer ==
  /\ In("end")
  /\ \/ level = 0 /\ calls' = Tail(calls) /\ UNCHANGED <<stage, buffers, sapi, ghosts>>
     \/ /\ level # 0 /\ active.handler /\ lock' = TRUE
        /\ calls' = <<[Top EXCEPT !.fn = "handler", !.text = active.text]>> \o Tail(calls)
        /\ torn' = (torn \/ \E i \in DOMAIN calls : calls[i].fn = "handler")
        /\ UNCHANGED <<stage, level, active, stack, body, sapi, client, written, dropped>>
     \/ /\ level # 0 /\ ~active.handler
        /\ Finish(Top.send, Top.flush, active.text) /\ UNCHANGED lock
        /\ torn' = (torn \/ (Top.flush /\ level > 1))

\* The handler returns a text of its own, or what it was given; or it cannot be
\* called, and the buffer is sent as it is.
HandlerReturns ==
  /\ In("handler") /\ level # 0 /\ lock' = FALSE
  /\ \E text \in {<<>>, Top.text, active.text} : Finish(Top.send, Top.flush, text)
  /\ torn' = (torn \/ (Top.flush /\ level > 1))

\* Mutant: the text is not reset.
Flushed_again ==
  /\ In("flushed") /\ calls' = Tail(calls) /\ body' = "b"
  /\ UNCHANGED <<stage, level, active, stack, lock, sapi, ghosts>>

\* The end of a flush.
Flushed ==
  /\ In("flushed") /\ calls' = Tail(calls)
  /\ active' = [active EXCEPT !.text = <<>>] /\ body' = "b"
  /\ UNCHANGED <<stage, level, stack, lock, sapi, ghosts>>

(***************************************************************************)
(* What PHP code does: echo, ob_start(), ob_end_flush(), ob_end_clean(),   *)
(* flush(), exit                                                           *)
(***************************************************************************)
Echo ==
  /\ Running /\ written < MaxWrites /\ written' = written + 1
  /\ Push(Call("body_write", <<written + 1>>))
  /\ UNCHANGED <<stage, buffers, sapi, client, dropped, torn>>

\* Mutant: the new buffer is initialized before the active one is pushed.
ObStart_overwrites(kind) ==
  /\ Running /\ ~lock /\ level < MaxLevel
  /\ active' = [text |-> <<>>, chunk |-> kind.chunk, handler |-> kind.handler]
  /\ stack' = IF level = 0 THEN <<>> ELSE IF level = 1 THEN <<active'>> ELSE Append(stack, active')
  /\ level' = level + 1 /\ body' = "b"
  /\ UNCHANGED <<stage, calls, lock, sapi, ghosts>>

\* php_start_ob_buffer()
ObStart(kind) ==
  /\ Running /\ ~lock /\ level < MaxLevel
  /\ stack' = IF level = 0 THEN <<>> ELSE IF level = 1 THEN <<active>> ELSE Append(stack, active)
  /\ level' = level + 1 /\ body' = "b"
  /\ active' = [text |-> <<>>, chunk |-> kind.chunk, handler |-> kind.handler]
  /\ UNCHANGED <<stage, calls, lock, sapi, ghosts>>

\* "Cannot use output buffering in output buffering display handlers": an E_ERROR.
\* All buffers are forgotten.
ObStartFails ==
  /\ Running /\ lock /\ level' = 0 /\ body' = Unbuffered /\ Bailout
  /\ dropped' = dropped \cup ((1 .. written) \ Elements(client))
  /\ active' = Buffer /\ stack' = <<>> /\ UNCHANGED <<lock, sapi, client, written, torn>>

ObEnd(send) ==
  /\ Running /\ Push(End(send, FALSE)) /\ UNCHANGED <<stage, buffers, sapi, ghosts>>

\* flush() finds the connection closed.
FlushAborted ==
  /\ Running /\ ~sapi.disabled /\ sapi' = [sapi EXCEPT !.disabled = TRUE]
  /\ IF sapi.ignore THEN UNCHANGED <<calls, stage>> ELSE Bailout
  /\ UNCHANGED <<buffers, ghosts>>

\* exit, a fatal error, or max_execution_time.
Exit == Running /\ Bailout /\ UNCHANGED <<buffers, sapi, ghosts>>

\* The process dies: the C stack is full, or the buffer of a handler that has ended
\* all buffers is ended, and freed, a second time.
Crash ==
  /\ Len(calls) >= MaxCalls \/ (In("handler") /\ level = 0)
  /\ calls' = <<>> /\ stage' = "idle" /\ UNCHANGED <<buffers, sapi, ghosts>>

(***************************************************************************)
(* php_request_shutdown(): php_end_ob_buffers(), sapi_send_headers(), the  *)
(* functions registered for shutdown, zend_deactivate_modules()            *)
(***************************************************************************)
EndStage ==
  /\ calls = <<>> /\ stage \in {"script", "sending", "functions", "modules"} /\ stage' = After(stage)
  /\ UNCHANGED <<calls, buffers, sapi, ghosts>>

\* Mutant: the buffers are flushed, not ended.
EndBuffers_flush ==
  /\ calls = <<>> /\ stage = "buffers"
  /\ IF level # 0 THEN Push(End(~sapi.only, TRUE)) /\ UNCHANGED stage
     ELSE stage' = After(stage) /\ UNCHANGED calls
  /\ UNCHANGED <<buffers, sapi, ghosts>>

EndBuffers ==
  /\ calls = <<>> /\ stage = "buffers"
  /\ IF level # 0 THEN Push(End(~sapi.only, FALSE)) /\ UNCHANGED stage
     ELSE stage' = After(stage) /\ UNCHANGED calls
  /\ UNCHANGED <<buffers, sapi, ghosts>>

EndHeaders ==
  /\ calls = <<>> /\ stage = "headers"
  /\ stage' = "sending" /\ Push(Call("headers", <<>>)) /\ UNCHANGED <<buffers, sapi, ghosts>>

Next ==
  \/ Start \/ SendHeaders \/ AfterHeaders \/ AppendTo \/ WriteUnbuffered \/ WriteNoHeader
  \/ EndBuffer \/ HandlerReturns \/ Flushed
  \/ Echo \/ (\E kind \in Kinds : ObStart(kind)) \/ ObStartFails
  \/ (\E send \in BOOLEAN : ObEnd(send)) \/ FlushAborted \/ Exit \/ Crash
  \/ EndStage \/ EndBuffers \/ EndHeaders

Spec == Init /\ [][Next]_vbls

\* C code runs to its end, handlers return, and so does other PHP code.
Step == \/ SendHeaders \/ AfterHeaders \/ AppendTo \/ WriteUnbuffered \/ WriteNoHeader
        \/ EndBuffer \/ HandlerReturns \/ Flushed \/ Crash
        \/ EndStage \/ EndBuffers \/ EndHeaders
FairSpec == Spec /\ WF_vbls(Step)

-----------------------------------------------------------------------------
Pending == UNION {Elements(calls[i].text) : i \in DOMAIN calls}
Held    == UNION ({IF level > 0 THEN Elements(active.text) ELSE {}}
                  \cup {Elements(stack[i].text) : i \in DOMAIN stack})
HandlerRuns == \E i \in DOMAIN calls : calls[i].fn = "handler"

TypeOK ==
  /\ stage \in {"idle", "script", "buffers", "headers", "sending", "functions", "modules"}
  /\ body \in {"b", "ub", "no_header"} /\ lock \in BOOLEAN
  /\ level \in 0 .. MaxLevel /\ Len(stack) = IF level > 1 THEN level - 1 ELSE 0

\* The client receives every write at most once and in the order of the writes,
\* through any nesting of buffers, chunks and handlers, bailouts and shutdown,
\* unless a chunk was flushed inside another buffer or a handler ended a buffer.
InOrder == torn \/ \A i, j \in DOMAIN client : i < j => client[i] < client[j]

\* No write disappears: it is at the client, in a buffer or on its way, or it was
\* cleaned, replaced by a handler, or cut off by a fatal error of one.
Conserved ==
  torn \/ sapi.disabled \/ sapi.only
  \/ 1 .. written \subseteq Elements(client) \cup dropped \cup Held \cup Pending

\* php_body_write never goes to a buffer that has been freed.
BufferOpen == body = "b" => level > 0

\* The headers come before the body, once.
HeadersFirst == client # <<>> => client[1] = 0

\* Buffers can be started except in a handler: ob_lock is set while one runs, and
\* is not left set for the rest of the script or for the next request.
LockIsHandler == /\ HandlerRuns /\ ~torn => lock
                 /\ lock /\ stage = "script" => HandlerRuns

\* When php_end_ob_buffers() has returned, all that was written has been sent.
Delivered ==
  stage \in {"headers", "sending"} /\ ~lock /\ ~sapi.disabled /\ ~sapi.only /\ ~torn
    => 1 .. written \subseteq Elements(client) \cup dropped

\* The response to a HEAD request has no body.
NoBodyForHead == sapi.only => Elements(client) \subseteq {0}

\* What the client gets: the headers once and first, and then, unless it asked for
\* them only, the writes, none twice and none before an earlier one.
Response == HeadersFirst /\ InOrder /\ NoBodyForHead

\* No write is lost on the way to the client, and none is still on its way when the
\* buffers have been ended.
NothingLost == Conserved /\ Delivered

\* The buffers' globals agree: writes go to a buffer only when there is one, and
\* ob_lock says that a handler runs.
BuffersSound == TypeOK /\ BufferOpen /\ LockIsHandler

\* php_end_ob_buffers() ends, whatever the handlers do.
ShutdownEnds == stage = "buffers" ~> stage # "buffers"

-----------------------------------------------------------------------------
(***************************************************************************)
(* The inductive invariant of Output_proofs.                               *)
(***************************************************************************)
Frames  == [fn : {"headers", "ub", "body_write", "end", "handler", "flushed"},
            text : Seq(Nat), send : BOOLEAN, flush : BOOLEAN]
Buffers == [text : Seq(Nat), chunk : {0, Chunk}, handler : BOOLEAN]

StateOK ==
  /\ TypeOK /\ calls \in Seq(Frames) /\ active \in Buffers /\ stack \in Seq(Buffers)
  /\ sapi \in [sent : BOOLEAN, only : BOOLEAN, disabled : BOOLEAN, ignore : BOOLEAN,
               modules : BOOLEAN]
  /\ client \in Seq(Nat) /\ written \in Nat /\ dropped \subseteq Nat /\ torn \in BOOLEAN
  /\ calls # <<>> => stage \in {"script", "buffers", "sending", "functions", "modules"}
  /\ stage = "sending" => \A i \in DOMAIN calls : calls[i].fn = "headers"
  /\ \A i \in DOMAIN calls : calls[i].fn \in {"headers", "end", "flushed"} => calls[i].text = <<>>
  /\ level = 0 => active.text = <<>>

FlushRuns == \E i \in DOMAIN calls : calls[i].fn = "flushed"

\* Which calls are made, at whatever depth, from which, as long as output is not torn: a
\* handler is called from no other, and a flush that has been written makes none.
Inside(inner, outer) ==
  \/ inner = "headers" /\ outer = "ub"
  \/ inner \in {"headers", "ub", "body_write"} /\ outer \in {"flushed", "handler"}
  \/ inner = "end" /\ outer = "handler"

Nesting ==
  /\ FlushRuns => level > 0
  /\ \A i, j \in DOMAIN calls : i < j =>
       /\ calls[j].fn = "flushed" /\ calls[i].fn \in {"end", "handler"} => calls[i].flush
       /\ torn \/ Inside(calls[i].fn, calls[j].fn)
  /\ FlushRuns => torn \/ (body # "b" /\ level = 1)
  /\ HandlerRuns => torn \/ (active.handler /\ level > 0)

Sound == StateOK /\ Nesting /\ BufferOpen /\ LockIsHandler

\* The headers have been sent when anything is, and the body goes without them only then.
Headers ==
  /\ ~sapi.sent => client = <<>>
  /\ sapi.sent /\ ~sapi.disabled => client # <<>>
  /\ body = "no_header" => sapi.sent /\ ~sapi.only

\* Writes are in flight to a client that is there and wants them.
Flowing == ~torn /\ ~sapi.disabled /\ ~sapi.only

Ordered(s)    == \A i, j \in DOMAIN s : i < j => s[i] < s[j]
Precede(s, t) == \A m \in Elements(s), n \in Elements(t) : m < n

\* What is on its way, from the client to the latest write: client, the outer buffers,
\* the active one, the text of the call that writes.  A buffer that is being flushed
\* counts no more.
InLine ==
  /\ level > 0 => FlushRuns \/ body = "b"
  /\ \A i \in DOMAIN stack :
       /\ Ordered(stack[i].text) /\ Elements(stack[i].text) \subseteq 1 .. written
       /\ Precede(client, stack[i].text) /\ Precede(stack[i].text, active.text)
       /\ \A j \in DOMAIN stack : i < j => Precede(stack[i].text, stack[j].text)
  /\ Ordered(active.text) /\ Elements(active.text) \subseteq 1 .. written
  /\ FlushRuns \/ Precede(client, active.text)
  /\ \A k \in DOMAIN calls :
       /\ Ordered(calls[k].text) /\ Elements(calls[k].text) \subseteq 1 .. written
       /\ calls[k].fn = "handler" => Elements(calls[k].text) \subseteq Elements(active.text)
       /\ calls[k].fn = "ub" => body # "b"
       /\ calls[k].fn \in {"ub", "body_write"} =>
            /\ Precede(client, calls[k].text)
            /\ \A i \in DOMAIN stack : Precede(stack[i].text, calls[k].text)
            /\ FlushRuns \/ Precede(active.text, calls[k].text)
  /\ Elements(client) \subseteq 0 .. written

InStack  == UNION {Elements(stack[i].text) : i \in DOMAIN stack}
InActive == IF FlushRuns THEN {} ELSE Elements(active.text)

Kept == 1 .. written \subseteq Elements(client) \cup dropped \cup Pending \cup InStack \cup InActive

IInv == Sound /\ Headers /\ Response /\ Delivered /\ (Flowing => InLine /\ Kept)
=============================================================================
