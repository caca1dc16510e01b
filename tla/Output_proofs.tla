--------------------------- MODULE Output_proofs ---------------------------
(***************************************************************************)
(* Proofs about Output, for any chunk sizes, texts and nesting of buffers: *)
(* the buffers' globals agree, the client gets the headers first and every *)
(* write once and in order, and no write is lost on the way.               *)
(***************************************************************************)
EXTENDS Output, SequenceTheorems, TLAPS

(***************************************************************************)
(* The stack of calls                                                      *)
(***************************************************************************)
\* The k innermost calls of s have been replaced by those of front.
Goes(s, t, front, k) ==
  /\ t \in Seq(Frames) /\ Len(t) = Len(front) + Len(s) - k
  /\ \A i \in 1 .. Len(front) : t[i] = front[i]
  /\ \A i \in 1 .. Len(s) - k : t[Len(front) + i] = s[k + i]

LEMMA Pushes ==
  ASSUME NEW s \in Seq(Frames), NEW front \in Seq(Frames)
  PROVE  Goes(s, front \o s, front, 0)
<1>1. /\ front \o s \in Seq(Frames) /\ Len(front \o s) = Len(front) + Len(s)
      /\ \A i \in 1 .. Len(front) + Len(s) :
           (front \o s)[i] = IF i <= Len(front) THEN front[i] ELSE s[i - Len(front)]
  BY ConcatProperties
<1>2. Len(front) \in Nat /\ Len(s) \in Nat
  BY LenProperties
<1> QED
  BY <1>1, <1>2 DEF Goes

LEMMA Replaces ==
  ASSUME NEW s \in Seq(Frames), s # <<>>, NEW front \in Seq(Frames)
  PROVE  Goes(s, front \o Tail(s), front, 1)
<1>1. /\ Tail(s) \in Seq(Frames) /\ Len(Tail(s)) = Len(s) - 1
      /\ \A i \in 1 .. Len(Tail(s)) : Tail(s)[i] = s[i + 1]
  BY HeadTailProperties
<1>2. /\ front \o Tail(s) \in Seq(Frames) /\ Len(front \o Tail(s)) = Len(front) + Len(Tail(s))
      /\ \A i \in 1 .. Len(front) + Len(Tail(s)) :
           (front \o Tail(s))[i] = IF i <= Len(front) THEN front[i] ELSE Tail(s)[i - Len(front)]
  BY <1>1, ConcatProperties
<1>3. Len(front) \in Nat /\ Len(s) \in Nat
  BY LenProperties
<1> QED
  BY <1>1, <1>2, <1>3 DEF Goes

LEMMA Pops ==
  ASSUME NEW s \in Seq(Frames), s # <<>>
  PROVE  Goes(s, Tail(s), <<>>, 1)
<1>1. /\ Tail(s) \in Seq(Frames) /\ Len(Tail(s)) = Len(s) - 1
      /\ \A i \in 1 .. Len(Tail(s)) : Tail(s)[i] = s[i + 1]
  BY HeadTailProperties
<1>2. Len(<<>>) = 0 /\ Len(s) \in Nat
  BY LenProperties
<1> QED
  BY <1>1, <1>2 DEF Goes

Runs(fn, s) == \E i \in DOMAIN s : s[i].fn = fn

LEMMA RunsAre == (HandlerRuns <=> Runs("handler", calls)) /\ (FlushRuns <=> Runs("flushed", calls))
  BY DEF HandlerRuns, FlushRuns, Runs

\* The calls of the new stack.
LEMMA CallsOf ==
  ASSUME NEW s \in Seq(Frames), NEW t, NEW front \in Seq(Frames), NEW k \in {0, 1},
         k <= Len(s), Goes(s, t, front, k), NEW i \in DOMAIN t
  PROVE  \/ i \in DOMAIN front /\ t[i] = front[i]
         \/ /\ i > Len(front) /\ i - Len(front) + k \in DOMAIN s
            /\ t[i] = s[i - Len(front) + k]
<1>1. Len(front) \in Nat /\ Len(s) \in Nat /\ Len(t) \in Nat
      /\ DOMAIN front = 1 .. Len(front) /\ DOMAIN s = 1 .. Len(s) /\ DOMAIN t = 1 .. Len(t)
  BY LenProperties DEF Goes
<1>2. CASE i <= Len(front)
  BY <1>1, <1>2 DEF Goes
<1>3. CASE i > Len(front)
  <2> DEFINE n == i - Len(front)
  <2>1. n \in 1 .. Len(s) - k /\ i = Len(front) + n
    BY <1>1, <1>3 DEF Goes
  <2>2. t[Len(front) + n] = s[k + n]
    BY <2>1 DEF Goes
  <2> QED
    BY <1>1, <1>3, <2>1, <2>2
<1> QED
  BY <1>1, <1>2, <1>3

\* What becomes of the old ones.
LEMMA CallsStay ==
  ASSUME NEW s \in Seq(Frames), NEW t, NEW front \in Seq(Frames), NEW k \in {0, 1},
         k <= Len(s), Goes(s, t, front, k), NEW j \in DOMAIN s, j > k
  PROVE  Len(front) + j - k \in DOMAIN t /\ t[Len(front) + j - k] = s[j]
<1>1. Len(front) \in Nat /\ Len(s) \in Nat /\ Len(t) \in Nat
      /\ DOMAIN front = 1 .. Len(front) /\ DOMAIN s = 1 .. Len(s) /\ DOMAIN t = 1 .. Len(t)
  BY LenProperties DEF Goes
<1> DEFINE n == j - k
<1>2. n \in 1 .. Len(s) - k /\ k + n = j
  BY <1>1
<1>3. t[Len(front) + n] = s[k + n]
  BY <1>2 DEF Goes
<1>4. Len(t) = Len(front) + Len(s) - k
  BY DEF Goes
<1>5. j \in Nat /\ j >= 1 + k /\ j <= Len(s)
  BY <1>1
<1>6. Len(front) + n = Len(front) + j - k
  BY <1>1, <1>5
<1>7. Len(front) + n \in 1 .. Len(t)
  BY <1>1, <1>4, <1>5
<1> QED
  BY <1>1, <1>3, <1>6, <1>7

LEMMA FrontStays ==
  ASSUME NEW s \in Seq(Frames), NEW t, NEW front \in Seq(Frames), NEW k \in {0, 1},
         k <= Len(s), Goes(s, t, front, k), NEW j \in DOMAIN front
  PROVE  j \in DOMAIN t /\ t[j] = front[j]
<1>1. Len(front) \in Nat /\ Len(s) \in Nat /\ Len(t) \in Nat
      /\ DOMAIN front = 1 .. Len(front) /\ DOMAIN s = 1 .. Len(s) /\ DOMAIN t = 1 .. Len(t)
  BY LenProperties DEF Goes
<1> QED
  BY <1>1 DEF Goes

LEMMA RunsStep ==
  ASSUME NEW s \in Seq(Frames), NEW t, NEW front \in Seq(Frames), NEW k \in {0, 1},
         k <= Len(s), Goes(s, t, front, k), NEW fn
  PROVE  /\ Runs(fn, t) => Runs(fn, front) \/ \E j \in DOMAIN s : j > k /\ s[j].fn = fn
         /\ Runs(fn, front) => Runs(fn, t)
         /\ (\E j \in DOMAIN s : j > k /\ s[j].fn = fn) => Runs(fn, t)
<1>1. ASSUME Runs(fn, t)
      PROVE  Runs(fn, front) \/ \E j \in DOMAIN s : j > k /\ s[j].fn = fn
  <2>1. PICK i \in DOMAIN t : t[i].fn = fn
    BY <1>1 DEF Runs
  <2>2. Len(front) \in Nat /\ i \in Int
    BY LenProperties DEF Goes
  <2>3. CASE i \in DOMAIN front /\ t[i] = front[i]
    BY <2>1, <2>3 DEF Runs
  <2>4. CASE /\ i > Len(front) /\ i - Len(front) + k \in DOMAIN s
             /\ t[i] = s[i - Len(front) + k]
    <3>1. i - Len(front) + k > k
      BY <2>2, <2>4
    <3> QED
      BY <2>1, <2>4, <3>1
  <2> QED
    BY <2>1, <2>3, <2>4, CallsOf
<1>2. Runs(fn, front) => Runs(fn, t)
  BY FrontStays DEF Runs
<1>3. (\E j \in DOMAIN s : j > k /\ s[j].fn = fn) => Runs(fn, t)
  BY CallsStay DEF Runs
<1> QED
  BY <1>1, <1>2, <1>3

LEMMA None ==
  <<>> \in Seq(Frames) /\ Len(<<>>) = 0 /\ DOMAIN <<>> = {}
  OBVIOUS

Names == {"headers", "ub", "body_write", "end", "handler", "flushed"}

LEMMA FrameOf ==
  ASSUME NEW fn \in Names, NEW text \in Seq(Nat), NEW send \in BOOLEAN, NEW flush \in BOOLEAN
  PROVE  \E c \in Frames : /\ c = [fn |-> fn, text |-> text, send |-> send, flush |-> flush]
                           /\ c.fn = fn /\ c.text = text /\ c.send = send /\ c.flush = flush
<1> DEFINE c == [fn |-> fn, text |-> text, send |-> send, flush |-> flush]
<1>1. c \in Frames
  BY DEF Frames, Names
<1>2. c.fn = fn /\ c.text = text /\ c.send = send /\ c.flush = flush
  OBVIOUS
<1> QED
  BY <1>1, <1>2

LEMMA CallOf ==
  ASSUME NEW fn \in Names, NEW text \in Seq(Nat)
  PROVE  \E c \in Frames : c = Call(fn, text) /\ c.fn = fn /\ c.text = text
<1> DEFINE c == [fn |-> fn, text |-> text, send |-> TRUE, flush |-> TRUE]
<1>1. c \in Frames
  BY DEF Frames, Names
<1>2. c.fn = fn /\ c.text = text
  OBVIOUS
<1> QED
  BY <1>1, <1>2 DEF Call

LEMMA EndOf ==
  ASSUME NEW send \in BOOLEAN, NEW flush \in BOOLEAN
  PROVE  \E c \in Frames : /\ c = End(send, flush)
                           /\ c.fn = "end" /\ c.text = <<>> /\ c.send = send /\ c.flush = flush
<1>1. <<>> \in Seq(Nat) /\ "end" \in Names
  BY DEF Names
<1>2. PICK text \in Seq(Nat) : text = <<>>
  BY <1>1
<1>3. PICK c \in Frames : /\ c = [fn |-> "end", text |-> text, send |-> send, flush |-> flush]
                          /\ c.fn = "end" /\ c.text = text /\ c.send = send /\ c.flush = flush
  BY <1>1, FrameOf
<1>4. c = End(send, flush)
  BY <1>2, <1>3 DEF End
<1> QED
  BY <1>2, <1>3, <1>4

LEMMA Renamed ==
  ASSUME NEW c \in Frames, NEW fn \in Names
  PROVE  \E d \in Frames : /\ d = [c EXCEPT !.fn = fn]
                           /\ d.fn = fn /\ d.text = c.text /\ d.send = c.send /\ d.flush = c.flush
<1> DEFINE d == [c EXCEPT !.fn = fn]
<1>1. d \in Frames
  BY DEF Frames, Names
<1>2. d.fn = fn /\ d.text = c.text /\ d.send = c.send /\ d.flush = c.flush
  BY DEF Frames
<1> QED
  BY <1>1, <1>2

LEMMA One ==
  ASSUME NEW c \in Frames
  PROVE  \E front \in Seq(Frames) : /\ front = <<c>> /\ Len(front) = 1 /\ DOMAIN front = {1}
                                    /\ front[1] = c
<1> DEFINE front == <<c>>
<1>1. front \in Seq(Frames) /\ Len(front) = 1 /\ DOMAIN front = {1} /\ front[1] = c
  OBVIOUS
<1> QED
  BY <1>1

LEMMA Two ==
  ASSUME NEW c \in Frames, NEW d \in Frames
  PROVE  \E front \in Seq(Frames) : /\ front = <<c, d>> /\ Len(front) = 2 /\ DOMAIN front = {1, 2}
                                    /\ front[1] = c /\ front[2] = d
<1> DEFINE front == <<c, d>>
<1>1. front \in Seq(Frames) /\ Len(front) = 2 /\ DOMAIN front = {1, 2}
      /\ front[1] = c /\ front[2] = d
  OBVIOUS
<1> QED
  BY <1>1

\* Nesting of a stack of calls, by output that is torn or not.
Nests(s, t) ==
  \A i, j \in DOMAIN s : i < j =>
    /\ s[j].fn = "flushed" /\ s[i].fn \in {"end", "handler"} => s[i].flush
    /\ t \/ Inside(s[i].fn, s[j].fn)

\* The calls of front are made from those of s that stay.
Fits(front, s, k, t) ==
  \A i \in DOMAIN front, j \in DOMAIN s : j > k =>
    /\ s[j].fn = "flushed" /\ front[i].fn \in {"end", "handler"} => front[i].flush
    /\ t \/ Inside(front[i].fn, s[j].fn)

LEMMA NestsStep ==
  ASSUME NEW s \in Seq(Frames), NEW t, NEW front \in Seq(Frames), NEW k \in {0, 1},
         k <= Len(s), Goes(s, t, front, k), NEW p, NEW q,
         Nests(s, p), p => q, Nests(front, q), Fits(front, s, k, q)
  PROVE  Nests(t, q)
<1> SUFFICES ASSUME NEW i \in DOMAIN t, NEW j \in DOMAIN t, i < j
             PROVE  /\ t[j].fn = "flushed" /\ t[i].fn \in {"end", "handler"} => t[i].flush
                    /\ q \/ Inside(t[i].fn, t[j].fn)
  BY DEF Nests
<1>0. Len(front) \in Nat /\ i \in Nat /\ j \in Nat /\ DOMAIN front = 1 .. Len(front)
      /\ DOMAIN s = 1 .. Len(s) /\ Len(s) \in Nat
  BY LenProperties DEF Goes
<1>1. CASE i \in DOMAIN front /\ t[i] = front[i] /\ j \in DOMAIN front /\ t[j] = front[j]
  BY <1>1 DEF Nests
<1>2. CASE /\ i \in DOMAIN front /\ t[i] = front[i]
           /\ j > Len(front) /\ j - Len(front) + k \in DOMAIN s /\ t[j] = s[j - Len(front) + k]
  <2>1. j - Len(front) + k > k
    BY <1>0, <1>2
  <2> QED
    BY <1>2, <2>1 DEF Fits
<1>3. CASE /\ i > Len(front) /\ i - Len(front) + k \in DOMAIN s /\ t[i] = s[i - Len(front) + k]
           /\ j > Len(front) /\ j - Len(front) + k \in DOMAIN s /\ t[j] = s[j - Len(front) + k]
  <2>1. i - Len(front) + k < j - Len(front) + k
    BY <1>0
  <2> QED
    BY <1>3, <2>1 DEF Nests
<1>4. CASE i > Len(front) /\ j \in DOMAIN front
  BY <1>0, <1>4
<1> QED
  BY <1>1, <1>2, <1>3, <1>4, CallsOf

(***************************************************************************)
(* The buffers' globals                                                    *)
(***************************************************************************)
Typed ==
  /\ TypeOK /\ active \in Buffers /\ stack \in Seq(Buffers)
  /\ sapi \in [sent : BOOLEAN, only : BOOLEAN, disabled : BOOLEAN, ignore : BOOLEAN,
               modules : BOOLEAN]
  /\ client \in Seq(Nat) /\ written \in Nat /\ dropped \subseteq Nat /\ torn \in BOOLEAN
  /\ level = 0 => active.text = <<>>

Plain(s) == \A i \in DOMAIN s : s[i].fn \in {"headers", "end", "flushed"} => s[i].text = <<>>

Busy == {"script", "buffers", "sending", "functions", "modules"}

CallsTyped ==
  /\ calls \in Seq(Frames) /\ Plain(calls)
  /\ calls # <<>> => stage \in Busy
  /\ stage = "sending" => \A i \in DOMAIN calls : calls[i].fn = "headers"

LEMMA StateParts == StateOK <=> Typed /\ CallsTyped
  BY DEF StateOK, Typed, CallsTyped, Plain, Busy

LEMMA NestingParts ==
  Nesting <=> /\ Nests(calls, torn)
              /\ FlushRuns => level > 0 /\ (torn \/ (body # "b" /\ level = 1))
              /\ HandlerRuns => torn \/ (active.handler /\ level > 0)
  BY DEF Nesting, Nests

LEMMA SameTyped ==
  ASSUME Typed, UNCHANGED buffers, stage' \in Busy \cup {"idle", "headers"},
         sapi' \in [sent : BOOLEAN, only : BOOLEAN, disabled : BOOLEAN, ignore : BOOLEAN,
                    modules : BOOLEAN],
         client' \in Seq(Nat), written' \in Nat, dropped' \subseteq Nat, torn' \in BOOLEAN
  PROVE  Typed'
  BY DEF Typed, TypeOK, buffers, Busy

\* The C stack is unwound.
LEMMA EmptiedSound ==
  ASSUME Typed', BufferOpen', calls' = <<>>, stage' = "script" => ~lock'
  PROVE  Sound'
<1>1. ~HandlerRuns' /\ ~FlushRuns' /\ DOMAIN calls' = {}
  BY DEF HandlerRuns, FlushRuns
<1>2. CallsTyped'
  BY <1>1 DEF CallsTyped, Plain
<1>3. StateOK'
  BY <1>2, StateParts, PTL
<1>4. Nesting'
  BY <1>1 DEF Nesting
<1>5. LockIsHandler'
  BY <1>1 DEF LockIsHandler
<1> QED
  BY <1>3, <1>4, <1>5 DEF Sound

\* Calls return, are made, or take the place of others.
LEMMA MovedSound ==
  ASSUME Sound, NEW front \in Seq(Frames), NEW k \in {0, 1}, k <= Len(calls),
         Goes(calls, calls', front, k), Typed',
         stage' = stage \/ calls = <<>>, stage' \in Busy,
         stage' = "sending" => \A i \in DOMAIN front : front[i].fn = "headers",
         Plain(front), torn => torn', Nests(front, torn'), Fits(front, calls, k, torn'),
         BufferOpen',
         FlushRuns' => level' > 0 /\ (torn' \/ (body' # "b" /\ level' = 1)),
         HandlerRuns' => torn' \/ (active'.handler /\ level' > 0 /\ lock'),
         lock' /\ stage' = "script" => HandlerRuns'
  PROVE  Sound'
<1>1. calls \in Seq(Frames) /\ Plain(calls) /\ Nests(calls, torn)
  BY StateParts, NestingParts DEF Sound, CallsTyped
<1>2. calls' \in Seq(Frames)
  BY DEF Goes
<1>3. Plain(calls')
  <2> SUFFICES ASSUME NEW i \in DOMAIN calls', calls'[i].fn \in {"headers", "end", "flushed"}
               PROVE  calls'[i].text = <<>>
    BY DEF Plain
  <2> QED
    BY <1>1, CallsOf DEF Plain
<1>4. stage' = "sending" => \A i \in DOMAIN calls' : calls'[i].fn = "headers"
  <2> SUFFICES ASSUME stage' = "sending", NEW i \in DOMAIN calls'
               PROVE  calls'[i].fn = "headers"
    OBVIOUS
  <2>1. \A j \in DOMAIN calls : calls[j].fn = "headers"
    BY None DEF Sound, StateOK
  <2> QED
    BY <1>1, <2>1, CallsOf
<1>5. CallsTyped'
  BY <1>2, <1>3, <1>4 DEF CallsTyped, Plain
<1>6. StateOK'
  BY <1>5, StateParts, PTL
<1>7. Nests(calls', torn')
  BY <1>1, NestsStep
<1>8. Nesting'
  BY <1>7 DEF Nesting, Nests
<1>9. LockIsHandler'
  BY DEF LockIsHandler
<1> QED
  BY <1>6, <1>8, <1>9 DEF Sound

LEMMA AfterIs ==
  ASSUME stage \in Busy
  PROVE  After(stage) \in {"buffers", "headers", "functions", "idle", "modules"}
  BY DEF Busy, After

\* The innermost call.
LEMMA TopIs ==
  ASSUME Sound, calls # <<>>
  PROVE  /\ calls \in Seq(Frames) /\ 1 \in DOMAIN calls /\ Top = calls[1] /\ Top \in Frames
         /\ Len(calls) \in Nat /\ 1 <= Len(calls) /\ DOMAIN calls = 1 .. Len(calls)
         /\ stage \in Busy
         /\ stage = "sending" => Top.fn = "headers"
         /\ \A j \in DOMAIN calls : j > 1 =>
              /\ calls[j].fn = "flushed" /\ Top.fn \in {"end", "handler"} => Top.flush
              /\ torn \/ Inside(Top.fn, calls[j].fn)
<1>1. CallsTyped /\ Nests(calls, torn)
  BY StateParts, NestingParts DEF Sound
<1>2. Len(calls) \in Nat /\ Len(calls) # 0 /\ DOMAIN calls = 1 .. Len(calls)
  BY <1>1, LenProperties, EmptySeq DEF CallsTyped
<1>3. Top = calls[1] /\ calls[1] \in Frames
  BY <1>1, <1>2 DEF CallsTyped, Top
<1> QED
  BY <1>1, <1>2, <1>3 DEF CallsTyped, Nests

\* A call that is neither a handler nor a flush returns.
LEMMA ReturnSound ==
  ASSUME Sound, calls # <<>>, calls' = Tail(calls), Top.fn \notin {"handler", "flushed"},
         UNCHANGED <<stage, buffers, torn>>, Typed'
  PROVE  Sound'
<1>1. Goes(calls, calls', <<>>, 1)
  BY TopIs, Pops
<1>2. (HandlerRuns' => HandlerRuns) /\ (FlushRuns' => FlushRuns) /\ (HandlerRuns => HandlerRuns')
  <2>1. (HandlerRuns' <=> Runs("handler", calls')) /\ (FlushRuns' <=> Runs("flushed", calls'))
    BY DEF Runs, HandlerRuns, FlushRuns
  <2>2. \A fn : /\ Runs(fn, calls') => \E j \in DOMAIN calls : j > 1 /\ calls[j].fn = fn
                /\ (\E j \in DOMAIN calls : j > 1 /\ calls[j].fn = fn) => Runs(fn, calls')
    <3> TAKE fn
    <3>1. PICK front \in Seq(Frames) : front = <<>>
      BY None
    <3>2. 1 <= Len(calls) /\ calls \in Seq(Frames) /\ Goes(calls, calls', front, 1)
      BY <1>1, <3>1, TopIs
    <3>3. Runs(fn, calls') => Runs(fn, front) \/ \E j \in DOMAIN calls : j > 1 /\ calls[j].fn = fn
      BY <3>2, RunsStep
    <3>4. ~Runs(fn, front)
      BY <3>1, None DEF Runs
    <3>5. (\E j \in DOMAIN calls : j > 1 /\ calls[j].fn = fn) => Runs(fn, calls')
      BY <3>2, RunsStep
    <3> QED
      BY <3>3, <3>4, <3>5
  <2>3. \A j \in DOMAIN calls : j > 1 \/ j = 1
    BY TopIs
  <2> QED
    BY <2>1, <2>2, <2>3, TopIs DEF HandlerRuns, FlushRuns
<1>3. Nests(<<>>, torn') /\ Fits(<<>>, calls, 1, torn') /\ Plain(<<>>)
  BY None DEF Nests, Fits, Plain
<1>4. /\ FlushRuns' => level' > 0 /\ (torn' \/ (body' # "b" /\ level' = 1))
      /\ HandlerRuns' => torn' \/ (active'.handler /\ level' > 0 /\ lock')
      /\ lock' /\ stage' = "script" => HandlerRuns'
      /\ BufferOpen'
  BY <1>2 DEF Sound, Nesting, LockIsHandler, BufferOpen, buffers
<1> QED
  BY <1>1, <1>3, <1>4, TopIs, None, MovedSound

\* A call that other calls wait for.
Outer(fn) == \E j \in DOMAIN calls : j > 1 /\ calls[j].fn = fn

LEMMA Replaced ==
  ASSUME Sound, calls # <<>>, NEW front \in Seq(Frames), calls' = front \o Tail(calls)
  PROVE  /\ Goes(calls, calls', front, 1)
         /\ HandlerRuns' <=> Runs("handler", front) \/ Outer("handler")
         /\ FlushRuns' <=> Runs("flushed", front) \/ Outer("flushed")
<1>1. calls \in Seq(Frames) /\ 1 <= Len(calls)
  BY TopIs
<1>2. Goes(calls, calls', front, 1)
  BY <1>1, Replaces
<1>3. ASSUME NEW fn PROVE Runs(fn, calls') <=> Runs(fn, front) \/ Outer(fn)
  BY <1>1, <1>2, RunsStep DEF Outer
<1>4. (HandlerRuns' <=> Runs("handler", calls')) /\ (FlushRuns' <=> Runs("flushed", calls'))
  BY DEF Runs, HandlerRuns, FlushRuns
<1> QED
  BY <1>2, <1>3, <1>4

LEMMA Pushed ==
  ASSUME Sound, NEW front \in Seq(Frames), calls' = front \o calls
  PROVE  /\ Goes(calls, calls', front, 0)
         /\ HandlerRuns' <=> Runs("handler", front) \/ HandlerRuns
         /\ FlushRuns' <=> Runs("flushed", front) \/ FlushRuns
<1>1. calls \in Seq(Frames) /\ 0 <= Len(calls) /\ DOMAIN calls = 1 .. Len(calls)
  BY StateParts, LenProperties DEF Sound, CallsTyped
<1>2. Goes(calls, calls', front, 0)
  BY <1>1, Pushes
<1>3. ASSUME NEW fn PROVE Runs(fn, calls') <=> Runs(fn, front) \/ Runs(fn, calls)
  <2>1. Runs(fn, calls) <=> \E j \in DOMAIN calls : j > 0 /\ calls[j].fn = fn
    BY <1>1 DEF Runs
  <2> QED
    BY <1>1, <1>2, <2>1, RunsStep
<1>4. (HandlerRuns' <=> Runs("handler", calls')) /\ (FlushRuns' <=> Runs("flushed", calls'))
      /\ (HandlerRuns <=> Runs("handler", calls)) /\ (FlushRuns <=> Runs("flushed", calls))
  BY DEF Runs, HandlerRuns, FlushRuns
<1> QED
  BY <1>2, <1>3, <1>4

\* The code that runs calls: it is a handler that nothing waits for, or no C code.
LEMMA Callers ==
  ASSUME Sound, Running
  PROVE  /\ ~torn /\ stage \in Busy /\ stage # "sending"
         /\ \A j \in DOMAIN calls : j = 1 /\ calls[j].fn = "handler"
         /\ ~FlushRuns
<1>1. ~torn
  BY DEF Running
<1>2. CASE calls = <<>>
  <2>1. DOMAIN calls = {}
    BY <1>2
  <2> QED
    BY <1>1, <1>2, <2>1 DEF Running, Busy, FlushRuns
<1>3. CASE calls # <<>>
  <2>1. Top.fn = "handler"
    BY <1>3 DEF Running
  <2>2. \A j \in DOMAIN calls : j > 1 => FALSE
    BY <1>1, <1>3, <2>1, TopIs DEF Inside
  <2>3. \A j \in DOMAIN calls : j = 1
    BY <1>3, <2>2, TopIs
  <2> QED
    BY <1>1, <1>3, <2>1, <2>3, TopIs DEF FlushRuns
<1> QED
  BY <1>2, <1>3

\* PHP code, or the shutdown of the request, calls.
LEMMA CallSound ==
  ASSUME Sound, ~FlushRuns, NEW c \in Frames, calls' = <<c>> \o calls,
         \A j \in DOMAIN calls : calls[j].fn = "handler" /\ Inside(c.fn, "handler"),
         c.fn \notin {"handler", "flushed"},
         c.fn \in {"headers", "end"} => c.text = <<>>,
         UNCHANGED <<buffers, torn>>, Typed', stage' = stage \/ calls = <<>>, stage' \in Busy,
         stage' = "script" => stage = "script", stage' = "sending" => c.fn = "headers"
  PROVE  Sound'
<1>1. PICK front \in Seq(Frames) : /\ front = <<c>> /\ Len(front) = 1
                                   /\ DOMAIN front = {1} /\ front[1] = c
  BY One
<1>2. calls \in Seq(Frames) /\ 0 <= Len(calls)
  BY StateParts, LenProperties DEF Sound, CallsTyped
<1>3. /\ Goes(calls, calls', front, 0)
      /\ HandlerRuns' <=> Runs("handler", front) \/ HandlerRuns
      /\ FlushRuns' <=> Runs("flushed", front) \/ FlushRuns
  BY <1>1, Pushed
<1>4. /\ ~Runs("handler", front) /\ ~Runs("flushed", front)
      /\ Nests(front, torn') /\ Plain(front)
  BY <1>1 DEF Runs, Nests, Plain
<1>5. Fits(front, calls, 0, torn')
  BY <1>1 DEF Fits
<1>6. /\ FlushRuns' => level' > 0 /\ (torn' \/ (body' # "b" /\ level' = 1))
      /\ HandlerRuns' => torn' \/ (active'.handler /\ level' > 0 /\ lock')
      /\ lock' /\ stage' = "script" => HandlerRuns'
      /\ BufferOpen'
  BY <1>3, <1>4 DEF Sound, Nesting, LockIsHandler, BufferOpen, buffers
<1> QED
  BY <1>1, <1>2, <1>3, <1>4, <1>5, <1>6, MovedSound

\* The zend_try around a step of the shutdown, or around the script, catches it.
LEMMA BailoutSound ==
  ASSUME Sound, Bailout, stage \in Busy, Typed', BufferOpen'
  PROVE  Sound'
  BY AfterIs, EmptiedSound DEF Bailout

LEMMA SameOpen ==
  ASSUME Sound, UNCHANGED buffers
  PROVE  BufferOpen'
  BY DEF Sound, BufferOpen, buffers

LEMMA StartSound ==
  ASSUME Sound, Start
  PROVE  Sound'
<1>1. /\ calls' = <<>> /\ stack' = <<>> /\ lock' = FALSE
      /\ client' = <<>> /\ written' = 0 /\ dropped' = {} /\ torn' = FALSE
  BY DEF Start
<1>2. \/ level' = 0 /\ active' = Buffer /\ body' = "ub"
      \/ /\ level' = 1 /\ body' = "b"
         /\ active' \in {Buffer, [Buffer EXCEPT !.chunk = Chunk], [Buffer EXCEPT !.handler = TRUE]}
  BY DEF Start
<1>3. /\ sapi' \in [sent : BOOLEAN, only : BOOLEAN, disabled : BOOLEAN, ignore : BOOLEAN,
                    modules : BOOLEAN]
      /\ stage' \in {"script", "buffers"}
  BY DEF Start
<1>4. active' \in Buffers /\ (level' = 0 => active'.text = <<>>)
  <2>1. <<>> \in Seq(Nat) /\ Chunk \in {0, Chunk} /\ 0 \in {0, Chunk}
    OBVIOUS
  <2>2. \A text \in Seq(Nat), chunk \in {0, Chunk}, handler \in BOOLEAN :
          [text |-> text, chunk |-> chunk, handler |-> handler] \in Buffers
    BY DEF Buffers
  <2>3. Buffer \in Buffers /\ Buffer.text = <<>>
    BY <2>1, <2>2 DEF Buffer
  <2>4. /\ [Buffer EXCEPT !.chunk = Chunk] \in Buffers
        /\ [Buffer EXCEPT !.handler = TRUE] \in Buffers
    BY <2>1, <2>3 DEF Buffers
  <2>5. level' = 0 => active' = Buffer
    BY <1>2
  <2> QED
    BY <1>2, <2>3, <2>4, <2>5
<1>5. level' \in 0 .. MaxLevel /\ Len(stack') = IF level' > 1 THEN level' - 1 ELSE 0
  BY <1>1, <1>2, OutputAssumption
<1>6. stack' \in Seq(Buffers) /\ client' \in Seq(Nat)
  BY <1>1
<1>7. Typed'
  BY <1>1, <1>2, <1>3, <1>4, <1>5, <1>6 DEF Typed, TypeOK
<1>8. BufferOpen'
  BY <1>2 DEF BufferOpen
<1> QED
  BY <1>1, <1>7, <1>8, EmptiedSound

LEMMA InIs ==
  ASSUME NEW fn, In(fn)
  PROVE  calls # <<>> /\ Top.fn = fn
<1>1. Len(<<>>) = 0
  BY None
<1> QED
  BY <1>1 DEF In

LEMMA TypedIs == Sound => Typed
  BY StateParts DEF Sound

LEMMA AbortedSapi ==
  ASSUME Typed, NEW s, Aborted(s), s = sapi \/ s = [sapi EXCEPT !.sent = TRUE]
  PROVE  /\ sapi' \in [sent : BOOLEAN, only : BOOLEAN, disabled : BOOLEAN, ignore : BOOLEAN,
                       modules : BOOLEAN]
         /\ (calls' = Tail(calls) /\ UNCHANGED stage) \/ Bailout
  BY DEF Typed, Aborted

LEMMA SendHeadersSound ==
  ASSUME Sound, SendHeaders
  PROVE  Sound'
<1>1. calls # <<>> /\ Top.fn = "headers" /\ stage \in Busy
  BY InIs, TopIs DEF SendHeaders
<1>2. UNCHANGED buffers /\ UNCHANGED <<written, dropped, torn>>
  BY DEF SendHeaders
<1>3. /\ sapi' \in [sent : BOOLEAN, only : BOOLEAN, disabled : BOOLEAN, ignore : BOOLEAN,
                    modules : BOOLEAN]
      /\ client' \in Seq(Nat)
      /\ (calls' = Tail(calls) /\ UNCHANGED stage) \/ Bailout
  <2>1. CASE sapi.sent /\ calls' = Tail(calls) /\ UNCHANGED <<stage, sapi, client>>
    BY <2>1, TypedIs DEF Typed
  <2>2. CASE /\ ~sapi.sent /\ sapi' = [sapi EXCEPT !.sent = TRUE]
             /\ client' = IF sapi.disabled THEN client ELSE Append(client, 0)
             /\ calls' = Tail(calls) /\ UNCHANGED stage
    <3>1. client \in Seq(Nat) /\ 0 \in Nat
      BY TypedIs DEF Typed
    <3>2. Append(client, 0) \in Seq(Nat)
      BY <3>1, AppendProperties
    <3>3. client' \in Seq(Nat)
      BY <2>2, <3>1, <3>2
    <3>4. sapi' \in [sent : BOOLEAN, only : BOOLEAN, disabled : BOOLEAN, ignore : BOOLEAN,
                      modules : BOOLEAN]
      BY <2>2, TypedIs DEF Typed
    <3> QED
      BY <2>2, <3>3, <3>4
  <2>3. CASE Aborted([sapi EXCEPT !.sent = TRUE]) /\ UNCHANGED client
    <3>1. PICK s : s = [sapi EXCEPT !.sent = TRUE]
      OBVIOUS
    <3> QED
      BY <2>3, <3>1, TypedIs, AbortedSapi DEF Typed
  <2>4. CASE calls' = Tail(calls) /\ UNCHANGED <<stage, sapi, client>>
    BY <2>4, TypedIs DEF Typed
  <2> QED
    BY <2>1, <2>2, <2>3, <2>4 DEF SendHeaders
<1>4. stage' \in Busy \cup {"idle", "headers"}
  BY <1>1, <1>3, AfterIs DEF Bailout, Busy
<1>5. Typed'
  BY <1>2, <1>3, <1>4, TypedIs, SameTyped DEF Typed
<1>6. CASE calls' = Tail(calls) /\ UNCHANGED stage
  BY <1>1, <1>2, <1>5, <1>6, ReturnSound
<1>7. CASE Bailout
  BY <1>1, <1>2, <1>5, <1>7, SameOpen, BailoutSound
<1> QED
  BY <1>3, <1>6, <1>7

LEMMA WriteNoHeaderSound ==
  ASSUME Sound, WriteNoHeader
  PROVE  Sound'
<1>1. calls # <<>> /\ Top.fn = "body_write" /\ stage \in Busy /\ Top.text \in Seq(Nat)
  BY InIs, TopIs DEF WriteNoHeader, Frames
<1>2. UNCHANGED buffers /\ UNCHANGED <<written, dropped, torn>>
  BY DEF WriteNoHeader
<1>3. client \o Top.text \in Seq(Nat)
  BY <1>1, TypedIs, ConcatProperties DEF Typed
<1>4. /\ sapi' \in [sent : BOOLEAN, only : BOOLEAN, disabled : BOOLEAN, ignore : BOOLEAN,
                    modules : BOOLEAN]
      /\ client' \in Seq(Nat)
      /\ (calls' = Tail(calls) /\ UNCHANGED stage) \/ Bailout
  BY <1>3, TypedIs, AbortedSapi DEF WriteNoHeader, Typed
<1>5. stage' \in Busy \cup {"idle", "headers"}
  BY <1>1, <1>4, AfterIs DEF Bailout, Busy
<1>6. Typed'
  BY <1>2, <1>4, <1>5, TypedIs, SameTyped DEF Typed
<1>7. CASE calls' = Tail(calls) /\ UNCHANGED stage
  BY <1>1, <1>2, <1>6, <1>7, ReturnSound
<1>8. CASE Bailout
  BY <1>1, <1>2, <1>6, <1>8, SameOpen, BailoutSound
<1> QED
  BY <1>4, <1>7, <1>8

LEMMA ElementsOf ==
  ASSUME NEW S, NEW s \in Seq(S)
  PROVE  Elements(s) \subseteq S
  BY ElementOfSeq, LenProperties DEF Elements

\* A call takes the place of another that is neither a handler nor a flush.
LEMMA InsteadSound ==
  ASSUME Sound, calls # <<>>, Top.fn \notin {"handler", "flushed"},
         NEW front \in Seq(Frames), calls' = front \o Tail(calls),
         UNCHANGED <<stage, level, lock, torn>>, active'.handler = active.handler, Typed',
         stage # "sending", Plain(front), Nests(front, torn),
         ~Runs("handler", front), ~Runs("flushed", front),
         \A i \in DOMAIN front, j \in DOMAIN calls : j > 1 =>
           /\ calls[j].fn = "flushed" /\ front[i].fn \in {"end", "handler"} => front[i].flush
           /\ torn \/ Inside(front[i].fn, calls[j].fn),
         body' # "b" \/ body' = body
  PROVE  Sound'
<1>1. /\ Goes(calls, calls', front, 1)
      /\ HandlerRuns' <=> Outer("handler")
      /\ FlushRuns' <=> Outer("flushed")
  BY Replaced
<1>2. (Outer("handler") <=> HandlerRuns) /\ (Outer("flushed") => FlushRuns)
  BY TopIs DEF Outer, HandlerRuns, FlushRuns
<1>3. Fits(front, calls, 1, torn')
  BY DEF Fits
<1>4. /\ FlushRuns' => level' > 0 /\ (torn' \/ (body' # "b" /\ level' = 1))
      /\ HandlerRuns' => torn' \/ (active'.handler /\ level' > 0 /\ lock')
      /\ lock' /\ stage' = "script" => HandlerRuns'
      /\ BufferOpen'
  BY <1>1, <1>2 DEF Sound, Nesting, LockIsHandler, BufferOpen
<1>5. 1 <= Len(calls) /\ stage \in Busy
  BY TopIs
<1> QED
  BY <1>1, <1>3, <1>4, <1>5, MovedSound

LEMMA OneCall ==
  ASSUME NEW front \in Seq(Frames), NEW c \in Frames, DOMAIN front = {1}, front[1] = c,
         c.fn \in {"headers", "end"} => c.text = <<>>, c.fn \notin {"handler", "flushed"},
         NEW t
  PROVE  Plain(front) /\ Nests(front, t) /\ ~Runs("handler", front) /\ ~Runs("flushed", front)
<1>1. \A i \in DOMAIN front : i = 1 /\ front[i] = c
  OBVIOUS
<1>2. Plain(front)
  BY <1>1 DEF Plain
<1>3. Nests(front, t)
  BY <1>1 DEF Nests
<1> QED
  BY <1>1, <1>2, <1>3 DEF Runs

LEMMA TwoCalls ==
  ASSUME NEW front \in Seq(Frames), NEW c \in Frames, NEW d \in Frames,
         DOMAIN front = {1, 2}, front[1] = c, front[2] = d,
         c.fn = "headers" /\ c.text = <<>> /\ d.fn = "ub", NEW t
  PROVE  Plain(front) /\ Nests(front, t) /\ ~Runs("handler", front) /\ ~Runs("flushed", front)
<1>1. \A i \in DOMAIN front : (i = 1 /\ front[i] = c) \/ (i = 2 /\ front[i] = d)
  OBVIOUS
<1>2. Plain(front)
  BY <1>1 DEF Plain
<1>3. Nests(front, t)
  <2> SUFFICES ASSUME NEW i \in DOMAIN front, NEW j \in DOMAIN front, i < j
               PROVE  front[j].fn = "ub" /\ Inside(front[i].fn, front[j].fn)
    BY DEF Nests
  <2>1. i = 1 /\ j = 2
    OBVIOUS
  <2> QED
    BY <2>1 DEF Inside
<1> QED
  BY <1>1, <1>2, <1>3 DEF Runs

LEMMA AfterHeadersSound ==
  ASSUME Sound, AfterHeaders
  PROVE  Sound'
<1>1. /\ calls # <<>> /\ Top.fn = "ub" /\ stage \in Busy /\ Top \in Frames /\ stage # "sending"
      /\ Top.text \in Seq(Nat)
  BY InIs, TopIs DEF AfterHeaders, Frames
<1>2. UNCHANGED <<level, active, stack, lock, sapi, client, written, torn>>
  BY DEF AfterHeaders
<1>3. /\ body' \in {body, "no_header"} /\ stage' \in {stage, After(stage)}
      /\ dropped' = dropped \/ Drop(Top.text)
  BY DEF AfterHeaders, Bailout
<1>4. dropped' \subseteq Nat
  BY <1>1, <1>3, ElementsOf, TypedIs DEF Drop, Typed
<1>5. stage' \in Busy \cup {"idle", "headers"}
  BY <1>1, <1>3, AfterIs DEF Busy
<1>6. Typed'
  BY <1>2, <1>3, <1>4, <1>5, TypedIs DEF Typed, TypeOK, Busy
<1>7. CASE Bailout /\ UNCHANGED <<body, dropped>>
  BY <1>1, <1>2, <1>6, <1>7, SameOpen, BailoutSound DEF buffers
<1>8. CASE calls' = Tail(calls) /\ UNCHANGED <<stage, body>>
  BY <1>1, <1>2, <1>6, <1>8, ReturnSound DEF buffers
<1>9. CASE /\ body' = "no_header" /\ UNCHANGED stage
           /\ calls' = <<[Top EXCEPT !.fn = "body_write"]>> \o Tail(calls)
  <2>1. PICK c \in Frames : c = [Top EXCEPT !.fn = "body_write"] /\ c.fn = "body_write"
    BY <1>1, Renamed DEF Names
  <2>2. PICK front \in Seq(Frames) : /\ front = <<c>> /\ Len(front) = 1
                                     /\ DOMAIN front = {1} /\ front[1] = c
    BY One
  <2>3. calls' = front \o Tail(calls)
    BY <1>9, <2>1, <2>2
  <2>4. Plain(front) /\ Nests(front, torn) /\ ~Runs("handler", front) /\ ~Runs("flushed", front)
    BY <2>1, <2>2, OneCall
  <2>5. \A i \in DOMAIN front, j \in DOMAIN calls : j > 1 =>
           /\ calls[j].fn = "flushed" /\ front[i].fn \in {"end", "handler"} => front[i].flush
           /\ torn \/ Inside(front[i].fn, calls[j].fn)
    BY <1>1, <2>1, <2>2, TopIs DEF Inside
  <2> QED
    BY <1>1, <1>2, <1>6, <1>9, <2>3, <2>4, <2>5, InsteadSound
<1> QED
  BY <1>7, <1>8, <1>9 DEF AfterHeaders

LEMMA WriteUnbufferedSound ==
  ASSUME Sound, WriteUnbuffered
  PROVE  Sound'
<1>1. /\ calls # <<>> /\ Top.fn = "body_write" /\ stage \in Busy /\ Top \in Frames
      /\ stage # "sending"
  BY InIs, TopIs DEF WriteUnbuffered
<1>2. PICK c \in Frames : /\ c = Call("headers", <<>>) /\ c.fn = "headers" /\ c.text = <<>>
  <2>1. <<>> \in Seq(Nat) /\ "headers" \in Names
    BY DEF Names
  <2> QED
    BY <2>1, CallOf
<1>3. PICK d \in Frames : d = [Top EXCEPT !.fn = "ub"] /\ d.fn = "ub"
  BY <1>1, Renamed DEF Names
<1>4. PICK front \in Seq(Frames) : /\ front = <<c, d>> /\ Len(front) = 2
                                   /\ DOMAIN front = {1, 2} /\ front[1] = c /\ front[2] = d
  BY Two
<1>5. calls' = front \o Tail(calls)
  BY <1>2, <1>3, <1>4 DEF WriteUnbuffered
<1>6. Plain(front) /\ Nests(front, torn) /\ ~Runs("handler", front) /\ ~Runs("flushed", front)
  BY <1>2, <1>3, <1>4, TwoCalls
<1>7. \A i \in DOMAIN front, j \in DOMAIN calls : j > 1 =>
           /\ calls[j].fn = "flushed" /\ front[i].fn \in {"end", "handler"} => front[i].flush
           /\ torn \/ Inside(front[i].fn, calls[j].fn)
  <2>1. \A i \in DOMAIN front : front[i].fn \in {"headers", "ub"}
    BY <1>2, <1>3, <1>4
  <2>2. \A j \in DOMAIN calls : j > 1 => torn \/ calls[j].fn \in {"flushed", "handler"}
    BY <1>1, TopIs DEF Inside
  <2> QED
    BY <2>1, <2>2 DEF Inside
<1>8. Typed'
  BY <1>1, SameTyped, TypedIs DEF WriteUnbuffered, ghosts, Typed
<1> QED
  BY <1>1, <1>5, <1>6, <1>7, <1>8, InsteadSound DEF WriteUnbuffered, buffers, ghosts

LEMMA AppendToSound ==
  ASSUME Sound, AppendTo
  PROVE  Sound'
<1> DEFINE t == active.text \o Top.text
<1>1. /\ calls # <<>> /\ Top.fn = "body_write" /\ stage \in Busy /\ Top.text \in Seq(Nat)
      /\ stage # "sending" /\ body = "b" /\ level > 0
  BY InIs, TopIs DEF AppendTo, Frames, Sound, BufferOpen
<1>2. active.text \in Seq(Nat) /\ active \in Buffers
  BY TypedIs DEF Typed, Buffers
<1>3. t \in Seq(Nat)
  BY <1>1, <1>2, ConcatProperties
<1>4. UNCHANGED <<level, stack, body, lock, sapi, client, written, dropped>>
  BY DEF AppendTo
<1>5. active' = [active EXCEPT !.text = t]
  BY DEF AppendTo
<1>6. active' \in Buffers /\ active'.handler = active.handler
  BY <1>2, <1>3, <1>5 DEF Buffers
<1>7. ASSUME stage' \in Busy \cup {"idle", "headers"}, torn' \in BOOLEAN
      PROVE  Typed'
  BY <1>1, <1>4, <1>6, <1>7, TypedIs DEF Typed, TypeOK, Busy
<1>8. CASE Len(t) > MaxText
  <2>1. Bailout /\ torn' = TRUE
    BY <1>8 DEF AppendTo
  <2>2. stage' \in Busy \cup {"idle", "headers"}
    BY <1>1, <2>1, AfterIs DEF Bailout, Busy
  <2>3. BufferOpen'
    BY <1>1, <1>4 DEF BufferOpen
  <2> QED
    BY <1>1, <1>7, <2>1, <2>2, <2>3, BailoutSound
<1>9. CASE ~(Len(t) > MaxText)
  <2>1. UNCHANGED <<stage, torn>>
    BY <1>9 DEF AppendTo
  <2>2. Typed'
    BY <1>1, <1>7, <2>1, TypedIs DEF Typed
  <2>3. PICK front \in Seq(Frames) :
          /\ calls' = front \o Tail(calls)
          /\ Plain(front) /\ Nests(front, torn) /\ ~Runs("handler", front) /\ ~Runs("flushed", front)
          /\ \A i \in DOMAIN front : front[i].fn = "end" /\ front[i].flush
    <3>1. CASE active.chunk # 0 /\ Len(t) >= active.chunk
      <4>1. PICK c \in Frames : c = End(TRUE, TRUE) /\ c.fn = "end" /\ c.text = <<>> /\ c.flush
        BY EndOf
      <4>2. PICK front \in Seq(Frames) : /\ front = <<c>> /\ Len(front) = 1
                                         /\ DOMAIN front = {1} /\ front[1] = c
        BY One
      <4>3. calls' = front \o Tail(calls)
        BY <1>9, <3>1, <4>1, <4>2 DEF AppendTo
      <4> QED
        BY <4>1, <4>2, <4>3, OneCall
    <3>2. CASE ~(active.chunk # 0 /\ Len(t) >= active.chunk)
      <4>1. PICK front \in Seq(Frames) : front = <<>> /\ DOMAIN front = {}
        BY None
      <4>2. calls' = front \o Tail(calls)
        BY <1>9, <3>2, <4>1 DEF AppendTo
      <4> QED
        BY <4>1, <4>2 DEF Plain, Nests, Runs
    <3> QED
      BY <3>1, <3>2
  <2>4. \A i \in DOMAIN front, j \in DOMAIN calls : j > 1 =>
           /\ calls[j].fn = "flushed" /\ front[i].fn \in {"end", "handler"} => front[i].flush
           /\ torn \/ Inside(front[i].fn, calls[j].fn)
    <3>1. \A j \in DOMAIN calls : j > 1 => torn \/ calls[j].fn = "handler"
      BY <1>1, TopIs DEF Inside, Sound, Nesting, FlushRuns
    <3> QED
      BY <2>3, <3>1 DEF Inside
  <2> QED
    BY <1>1, <1>4, <1>6, <2>1, <2>2, <2>3, <2>4, InsteadSound
<1> QED
  BY <1>8, <1>9

LEMMA FlushedSound ==
  ASSUME Sound, Flushed
  PROVE  Sound'
<1>1. /\ calls # <<>> /\ Top.fn = "flushed" /\ stage \in Busy /\ stage # "sending"
      /\ 1 <= Len(calls)
  BY InIs, TopIs DEF Flushed
<1>2. /\ UNCHANGED <<stage, level, stack, lock, sapi, client, written, dropped, torn>>
      /\ body' = "b" /\ active' = [active EXCEPT !.text = <<>>]
  BY DEF Flushed, ghosts
<1>3. FlushRuns /\ level > 0
  BY <1>1, TopIs DEF FlushRuns, Sound, Nesting
<1>4. active' \in Buffers
  <2>1. <<>> \in Seq(Nat)
    OBVIOUS
  <2> QED
    BY <1>2, <2>1, TypedIs DEF Buffers, Typed
<1>5. Typed'
  BY <1>2, <1>3, <1>4, TypedIs DEF Typed, TypeOK
<1>6. PICK front \in Seq(Frames) : front = <<>> /\ DOMAIN front = {}
  BY None
<1>7. calls' = front \o Tail(calls)
  BY <1>1, <1>6, TopIs, HeadTailProperties DEF Flushed
<1>8. /\ Goes(calls, calls', front, 1)
      /\ HandlerRuns' <=> Outer("handler")
      /\ FlushRuns' <=> Outer("flushed")
  BY <1>1, <1>6, <1>7, Replaced DEF Runs
<1>9. Outer("handler") \/ Outer("flushed") => torn
  BY <1>1, TopIs DEF Outer, Inside
<1>10. lock' /\ stage' = "script" => HandlerRuns'
  <2>1. HandlerRuns => Outer("handler")
    BY <1>1, TopIs DEF HandlerRuns, Outer
  <2> QED
    BY <1>2, <1>8, <2>1 DEF Sound, LockIsHandler
<1>11. BufferOpen'
  BY <1>2, <1>3 DEF BufferOpen
<1>12. Nests(front, torn') /\ Fits(front, calls, 1, torn') /\ Plain(front)
  BY <1>6 DEF Nests, Fits, Plain
<1> QED
  BY <1>1, <1>2, <1>3, <1>5, <1>8, <1>9, <1>10, <1>11, <1>12, MovedSound

(***************************************************************************)
(* The end, or flush, of a buffer                                          *)
(***************************************************************************)
LEMMA FinishTyped ==
  ASSUME Typed, level # 0, NEW send \in BOOLEAN, NEW flush \in BOOLEAN, NEW text \in Seq(Nat),
         Finish(send, flush, text), lock' \in BOOLEAN, torn' \in BOOLEAN
  PROVE  Typed'
<1>1. /\ level \in 0 .. MaxLevel /\ Len(stack) = IF level > 1 THEN level - 1 ELSE 0
      /\ stack \in Seq(Buffers) /\ active \in Buffers
  BY DEF Typed, TypeOK
<1>2. dropped' \subseteq Nat
  BY <1>1, ElementsOf DEF Finish, Typed, Buffers
<1>3. body' \in {"b", "ub", "no_header"}
  BY DEF Finish, Unbuffered, Typed, TypeOK
<1>4. UNCHANGED <<stage, sapi, client, written>>
  BY DEF Finish
<1>5. /\ level' \in 0 .. MaxLevel /\ Len(stack') = IF level' > 1 THEN level' - 1 ELSE 0
      /\ stack' \in Seq(Buffers) /\ active' \in Buffers
      /\ level' = 0 => active'.text = <<>>
  <2>1. CASE flush
    BY <1>1, <2>1 DEF Finish
  <2>2. CASE ~flush /\ level > 1
    <3>1. level' = level - 1 /\ active' = stack[Len(stack)]
          /\ stack' = SubSeq(stack, 1, Len(stack) - 1)
      BY <2>2 DEF Finish
    <3>2. Len(stack) \in Nat /\ Len(stack) >= 1 /\ Len(stack) \in 1 .. Len(stack)
      BY <1>1, <2>2, OutputAssumption
    <3>3. active' \in Buffers
      BY <1>1, <3>1, <3>2, ElementOfSeq
    <3>4. stack' \in Seq(Buffers) /\ Len(stack') = Len(stack) - 1
      BY <1>1, <3>1, <3>2, SubSeqProperties
    <3> QED
      BY <1>1, <2>2, <3>1, <3>3, <3>4, OutputAssumption
  <2>3. CASE ~flush /\ level = 1
    <3>1. level' = 0 /\ active' = Buffer /\ UNCHANGED stack
      BY <2>3 DEF Finish
    <3>2. Buffer \in Buffers /\ Buffer.text = <<>>
      <4>1. <<>> \in Seq(Nat)
        OBVIOUS
      <4> QED
        BY <4>1 DEF Buffer, Buffers
    <3> QED
      BY <1>1, <2>3, <3>1, <3>2, OutputAssumption
  <2> QED
    BY <1>1, <2>1, <2>2, <2>3, OutputAssumption
<1> QED
  BY <1>2, <1>3, <1>4, <1>5 DEF Typed, TypeOK

\* The calls that are made: the text is written, then a flush ends.
Remains(front, send, flush, text, t) ==
  /\ Plain(front) /\ Nests(front, t) /\ ~Runs("handler", front)
  /\ Runs("flushed", front) <=> flush
  /\ \A i \in DOMAIN front :
       \/ front[i].fn = "body_write" /\ front[i].text = text /\ send
       \/ front[i].fn = "flushed" /\ front[i].text = <<>> /\ flush
  /\ send => \E i \in DOMAIN front : front[i].text = text

LEMMA FinishCalls ==
  ASSUME NEW send \in BOOLEAN, NEW flush \in BOOLEAN, NEW text \in Seq(Nat),
         Finish(send, flush, text), NEW t
  PROVE  \E front \in Seq(Frames) :
           calls' = front \o Tail(calls) /\ Remains(front, send, flush, text, t)
<1> DEFINE front == (IF send THEN <<Call("body_write", text)>> ELSE <<>>)
                    \o (IF flush THEN <<Call("flushed", <<>>)>> ELSE <<>>)
<1>1. PICK c \in Frames : c = Call("body_write", text) /\ c.fn = "body_write" /\ c.text = text
  BY CallOf DEF Names
<1>2. PICK d \in Frames : d = Call("flushed", <<>>) /\ d.fn = "flushed" /\ d.text = <<>>
  <2>1. <<>> \in Seq(Nat) /\ "flushed" \in Names
    BY DEF Names
  <2> QED
    BY <2>1, CallOf
<1>3. calls' = front \o Tail(calls)
  BY DEF Finish
<1>4. <<c>> \in Seq(Frames) /\ <<d>> \in Seq(Frames) /\ <<>> \in Seq(Frames)
  OBVIOUS
<1>5. CASE send /\ flush
  <2>1. PICK s \in Seq(Frames) : /\ s = <<c>> \o <<d>>
                                 /\ DOMAIN s = {1, 2} /\ s[1] = c /\ s[2] = d
    <3>1. PICK a \in Seq(Frames) : a = <<c>> /\ Len(a) = 1 /\ a[1] = c
      BY One
    <3>2. PICK b \in Seq(Frames) : b = <<d>> /\ Len(b) = 1 /\ b[1] = d
      BY One
    <3>3. /\ a \o b \in Seq(Frames) /\ Len(a \o b) = 1 + 1
          /\ \A i \in 1 .. 1 + 1 : (a \o b)[i] = IF i <= 1 THEN a[i] ELSE b[i - 1]
      BY <3>1, <3>2, ConcatProperties
    <3>4. (a \o b)[1] = c /\ (a \o b)[2] = d /\ DOMAIN (a \o b) = {1, 2}
      BY <3>1, <3>2, <3>3
    <3> QED
      BY <3>1, <3>2, <3>3, <3>4
  <2>3. calls' = s \o Tail(calls)
    BY <1>1, <1>2, <1>3, <1>5, <2>1
  <2>4. \A i \in DOMAIN s : (i = 1 /\ s[i] = c) \/ (i = 2 /\ s[i] = d)
    BY <2>1
  <2>5. Nests(s, t)
    <3> SUFFICES ASSUME NEW i \in DOMAIN s, NEW j \in DOMAIN s, i < j
                 PROVE  /\ s[i].fn \notin {"end", "handler"}
                        /\ Inside(s[i].fn, s[j].fn)
      BY DEF Nests
    <3>1. i = 1 /\ j = 2 /\ s[i] = c /\ s[j] = d
      BY <2>1
    <3>2. s[i].fn = "body_write" /\ s[j].fn = "flushed"
      BY <1>1, <1>2, <3>1
    <3> QED
      BY <3>2 DEF Inside
  <2>6. Plain(s) /\ ~Runs("handler", s)
    BY <1>1, <1>2, <2>4 DEF Plain, Runs
  <2>7. \E i \in DOMAIN s : s[i].text = text
    BY <1>1, <2>1
  <2>8. Runs("flushed", s)
    BY <1>2, <2>1 DEF Runs
  <2> QED
    BY <1>1, <1>2, <1>5, <2>3, <2>4, <2>5, <2>6, <2>7, <2>8 DEF Remains
<1>6. CASE send /\ ~flush
  <2>1. PICK s \in Seq(Frames) : /\ s = <<c>> /\ DOMAIN s = {1} /\ s[1] = c
    BY One
  <2>2. calls' = s \o Tail(calls)
    BY <1>1, <1>3, <1>4, <1>6, <2>1
  <2>3. \A i \in DOMAIN s : i = 1 /\ s[i] = c
    BY <2>1
  <2>4. Plain(s) /\ Nests(s, t) /\ ~Runs("handler", s) /\ ~Runs("flushed", s)
    BY <1>1, <2>1, OneCall
  <2>5. \E i \in DOMAIN s : s[i].text = text
    BY <1>1, <2>1
  <2> QED
    BY <1>1, <1>6, <2>2, <2>3, <2>4, <2>5 DEF Remains
<1>7. CASE ~send /\ flush
  <2>1. PICK s \in Seq(Frames) : /\ s = <<d>> /\ DOMAIN s = {1} /\ s[1] = d
    BY One
  <2>2. calls' = s \o Tail(calls)
    BY <1>2, <1>3, <1>4, <1>7, <2>1
  <2>3. \A i \in DOMAIN s : i = 1 /\ s[i] = d
    BY <2>1
  <2>4. Plain(s) /\ Nests(s, t) /\ ~Runs("handler", s)
    BY <1>2, <2>3 DEF Plain, Nests, Runs
  <2>5. Runs("flushed", s)
    BY <1>2, <2>1 DEF Runs
  <2> QED
    BY <1>2, <1>7, <2>2, <2>3, <2>4, <2>5 DEF Remains
<1>8. CASE ~send /\ ~flush
  <2>1. PICK s \in Seq(Frames) : s = <<>> /\ DOMAIN s = {}
    BY None
  <2>2. calls' = s \o Tail(calls)
    BY <1>3, <1>4, <1>8, <2>1
  <2>3. Plain(s) /\ Nests(s, t) /\ ~Runs("handler", s) /\ ~Runs("flushed", s)
    BY <2>1 DEF Plain, Nests, Runs
  <2> QED
    BY <1>8, <2>1, <2>2, <2>3 DEF Remains
<1> QED
  BY <1>5, <1>6, <1>7, <1>8

\* A call whose buffer is ended, or flushed, and that no handler waits for unless output is
\* torn.
LEMMA FinishSound ==
  ASSUME Sound, calls # <<>>, Top.fn \in {"end", "handler"}, level # 0, NEW text \in Seq(Nat),
         Finish(Top.send, Top.flush, text), torn' = (torn \/ (Top.flush /\ level > 1)),
         lock' \in BOOLEAN, lock' /\ stage = "script" => Outer("handler"),
         ~torn => \A j \in DOMAIN calls : j = 1
  PROVE  Sound'
<1>1. /\ Top \in Frames /\ 1 <= Len(calls) /\ stage \in Busy /\ stage # "sending"
      /\ Top.send \in BOOLEAN /\ Top.flush \in BOOLEAN
  BY TopIs DEF Frames
<1>2. PICK front \in Seq(Frames) :
           /\ calls' = front \o Tail(calls)
           /\ Plain(front) /\ Nests(front, torn') /\ ~Runs("handler", front)
           /\ Runs("flushed", front) => Top.flush
           /\ \A i \in DOMAIN front : front[i].fn \in {"body_write", "flushed"}
  <2>1. \E front \in Seq(Frames) :
          calls' = front \o Tail(calls) /\ Remains(front, Top.send, Top.flush, text, torn')
    BY <1>1, FinishCalls
  <2>2. PICK front \in Seq(Frames) :
          calls' = front \o Tail(calls) /\ Remains(front, Top.send, Top.flush, text, torn')
    BY <2>1
  <2>3. \A i \in DOMAIN front : front[i].fn \in {"body_write", "flushed"}
    BY <2>2 DEF Remains
  <2> QED
    BY <2>2, <2>3 DEF Remains
<1>3. torn' \in BOOLEAN /\ (torn => torn')
  BY TypedIs DEF Typed
<1>4. Typed'
  BY <1>1, <1>3, TypedIs, FinishTyped
<1>5. /\ Goes(calls, calls', front, 1)
      /\ HandlerRuns' <=> Outer("handler")
      /\ FlushRuns' <=> Runs("flushed", front) \/ Outer("flushed")
  BY <1>2, Replaced
<1>6. ~torn => ~Outer("handler") /\ ~Outer("flushed")
  BY TopIs DEF Outer
<1>7. Outer("flushed") => Top.flush
  BY TopIs DEF Outer
<1>8. level \in Nat /\ level > 0 /\ (Top.flush => level' = level) /\ level' >= level - 1
      /\ level' \in Nat
  <2>1. level \in Nat /\ level > 0
    BY TypedIs, OutputAssumption DEF Typed, TypeOK
  <2>2. (Top.flush => level' = level) /\ (~Top.flush => level' = level - 1)
    BY DEF Finish
  <2> QED
    BY <1>1, <2>1, <2>2
<1>9. FlushRuns' => level' > 0 /\ (torn' \/ (body' # "b" /\ level' = 1))
  <2> SUFFICES ASSUME Top.flush
               PROVE  level' > 0 /\ (torn' \/ (body' # "b" /\ level' = 1))
    BY <1>2, <1>5, <1>7
  <2>1. level' = level /\ level > 0
    BY <1>8
  <2>2. ASSUME ~torn' PROVE level = 1 /\ body' # "b"
    <3>1. ~(level > 1) /\ level > 0 /\ level \in Nat
      BY <1>8, <2>2
    <3>2. level = 1
      BY <3>1
    <3> QED
      BY <3>2 DEF Finish, Unbuffered
  <2> QED
    BY <2>1, <2>2
<1>10. HandlerRuns' => torn'
  BY <1>3, <1>5, <1>6
<1>11. BufferOpen'
  <2> SUFFICES ASSUME body' = "b" PROVE level' > 0
    BY DEF BufferOpen
  <2>1. level # 1
    BY DEF Finish, Unbuffered
  <2> QED
    BY <1>8, <2>1
<1>12. Fits(front, calls, 1, torn')
  <2>1. ~torn' => \A j \in DOMAIN calls : j = 1
    BY <1>3
  <2>2. \A i \in DOMAIN front : front[i].fn \notin {"end", "handler"}
    BY <1>2
  <2>3. \A j \in DOMAIN calls : j > 1 => j # 1
    BY TopIs
  <2> QED
    BY <2>1, <2>2, <2>3 DEF Fits
<1>13. stage' = stage
  BY DEF Finish
<1> QED
  BY <1>1, <1>2, <1>3, <1>4, <1>5, <1>9, <1>10, <1>11, <1>12, <1>13, MovedSound

LEMMA EndBufferSound ==
  ASSUME Sound, EndBuffer
  PROVE  Sound'
<1>1. /\ calls # <<>> /\ Top.fn = "end" /\ stage \in Busy /\ stage # "sending"
      /\ Top \in Frames /\ 1 <= Len(calls) /\ calls \in Seq(Frames) /\ DOMAIN calls = 1 .. Len(calls)
  BY InIs, TopIs DEF EndBuffer
<1>2. HandlerRuns => Outer("handler")
  BY <1>1, TopIs DEF HandlerRuns, Outer
<1>3. active.text \in Seq(Nat) /\ active \in Buffers
  BY TypedIs DEF Typed, Buffers
<1>4. CASE calls' = Tail(calls) /\ UNCHANGED <<stage, buffers, sapi, ghosts>>
  <2>1. Typed'
    BY <1>1, <1>4, SameTyped, TypedIs DEF ghosts, Typed
  <2> QED
    BY <1>1, <1>4, <2>1, ReturnSound DEF ghosts
<1>5. CASE level # 0 /\ ~active.handler
  <2>1. Finish(Top.send, Top.flush, active.text) /\ torn' = (torn \/ (Top.flush /\ level > 1))
        /\ UNCHANGED lock
    BY <1>5 DEF EndBuffer
  <2>2. HandlerRuns => torn
    BY <1>5 DEF Sound, Nesting
  <2>3. ~torn => \A j \in DOMAIN calls : j = 1
    <3>1. \A j \in DOMAIN calls : j > 1 => torn \/ calls[j].fn = "handler"
      BY <1>1, TopIs DEF Inside
    <3>2. \A j \in DOMAIN calls : j > 1 => torn
      BY <2>2, <3>1 DEF HandlerRuns
    <3> QED
      BY <1>1, <3>2
  <2>4. lock' \in BOOLEAN /\ (lock' /\ stage = "script" => Outer("handler"))
    BY <1>2, <2>1, TypedIs DEF Typed, TypeOK, Sound, LockIsHandler
  <2> QED
    BY <1>1, <1>3, <1>5, <2>1, <2>3, <2>4, FinishSound
<1>6. CASE /\ level # 0 /\ active.handler /\ lock' = TRUE
           /\ calls' = <<[Top EXCEPT !.fn = "handler", !.text = active.text]>> \o Tail(calls)
           /\ torn' = (torn \/ \E i \in DOMAIN calls : calls[i].fn = "handler")
           /\ UNCHANGED <<stage, level, active, stack, body, sapi, client, written, dropped>>
  <2>1. PICK c \in Frames : /\ c = [Top EXCEPT !.fn = "handler", !.text = active.text]
                            /\ c.fn = "handler" /\ c.flush = Top.flush
    <3> DEFINE c == [Top EXCEPT !.fn = "handler", !.text = active.text]
    <3>1. c \in Frames
      BY <1>1, <1>3 DEF Frames
    <3>2. c.fn = "handler" /\ c.flush = Top.flush
      BY <1>1 DEF Frames
    <3> QED
      BY <3>1, <3>2
  <2>2. PICK front \in Seq(Frames) : front = <<c>> /\ DOMAIN front = {1} /\ front[1] = c
    BY One
  <2>3. calls' = front \o Tail(calls)
    BY <1>6, <2>1, <2>2
  <2>4. \A i \in DOMAIN front : i = 1 /\ front[i] = c
    BY <2>2
  <2>5. /\ Plain(front) /\ Nests(front, torn') /\ Runs("handler", front)
        /\ ~Runs("flushed", front)
    <3>1. Plain(front)
      BY <2>1, <2>4 DEF Plain
    <3>2. Nests(front, torn')
      BY <2>4 DEF Nests
    <3>3. 1 \in DOMAIN front /\ front[1].fn = "handler"
      BY <2>1, <2>2
    <3> QED
      BY <2>1, <2>4, <3>1, <3>2, <3>3 DEF Runs
  <2>6. /\ Goes(calls, calls', front, 1)
        /\ HandlerRuns' <=> Runs("handler", front) \/ Outer("handler")
        /\ FlushRuns' <=> Runs("flushed", front) \/ Outer("flushed")
    BY <1>1, <2>3, Replaced
  <2>7. Fits(front, calls, 1, torn')
    <3>1. \A j \in DOMAIN calls : j > 1 => torn \/ calls[j].fn = "handler"
      BY <1>1, TopIs DEF Inside
    <3>2. \A j \in DOMAIN calls : j > 1 => torn'
      BY <1>6, <3>1
    <3>3. \A j \in DOMAIN calls : j > 1 /\ calls[j].fn = "flushed" => Top.flush
      BY <1>1, TopIs
    <3> QED
      BY <2>1, <2>4, <3>2, <3>3 DEF Fits
  <2>8. level' > 0
    BY <1>6, TypedIs, OutputAssumption DEF Typed, TypeOK
  <2>9. torn' \in BOOLEAN /\ (torn => torn')
    BY <1>6, TypedIs DEF Typed
  <2>10. FlushRuns' => level' > 0 /\ (torn' \/ (body' # "b" /\ level' = 1))
    <3>1. Outer("flushed") => FlushRuns
      BY DEF Outer, FlushRuns
    <3> QED
      BY <1>6, <2>5, <2>6, <2>9, <3>1 DEF Sound, Nesting
  <2>11. Typed'
    BY <1>6, <2>9, TypedIs DEF Typed, TypeOK
  <2>12. BufferOpen'
    BY <1>6 DEF Sound, BufferOpen
  <2>13. active'.handler /\ lock' /\ stage' = stage
    BY <1>6
  <2>14. HandlerRuns'
    BY <2>5, <2>6
  <2> QED
    BY <1>1, <2>5, <2>6, <2>7, <2>8, <2>9, <2>10, <2>11, <2>12, <2>13, <2>14, MovedSound
<1> QED
  BY <1>4, <1>5, <1>6 DEF EndBuffer

LEMMA HandlerReturnsSound ==
  ASSUME Sound, HandlerReturns
  PROVE  Sound'
<1>1. calls # <<>> /\ Top.fn = "handler" /\ Top \in Frames /\ level # 0
  BY InIs, TopIs DEF HandlerReturns
<1>2. lock' = FALSE /\ torn' = (torn \/ (Top.flush /\ level > 1))
  BY DEF HandlerReturns
<1>3. PICK text \in {<<>>, Top.text, active.text} : Finish(Top.send, Top.flush, text)
  BY DEF HandlerReturns
<1>4. text \in Seq(Nat)
  <2>1. <<>> \in Seq(Nat) /\ Top.text \in Seq(Nat)
    BY <1>1 DEF Frames
  <2>2. active.text \in Seq(Nat)
    BY TypedIs DEF Typed, Buffers
  <2> QED
    BY <1>3, <2>1, <2>2
<1>5. ~torn => \A j \in DOMAIN calls : j = 1
  <2>1. \A j \in DOMAIN calls : j > 1 => torn
    BY <1>1, TopIs DEF Inside
  <2> QED
    BY <1>1, <2>1, TopIs
<1> QED
  BY <1>1, <1>2, <1>3, <1>4, <1>5, FinishSound

(***************************************************************************)
(* PHP code, and the shutdown                                              *)
(***************************************************************************)
LEMMA EchoSound ==
  ASSUME Sound, Echo
  PROVE  Sound'
<1>1. /\ ~torn /\ stage \in Busy /\ stage # "sending" /\ ~FlushRuns
      /\ \A j \in DOMAIN calls : j = 1 /\ calls[j].fn = "handler"
  BY Callers DEF Echo
<1>2. written \in Nat
  BY TypedIs DEF Typed
<1>3. PICK c \in Frames : c = Call("body_write", <<written + 1>>) /\ c.fn = "body_write"
  <2>1. PICK text \in Seq(Nat) : text = <<written + 1>>
    <3>1. <<written + 1>> \in Seq(Nat)
      BY <1>2
    <3> QED
      BY <3>1
  <2>2. \E c \in Frames : c = Call("body_write", text) /\ c.fn = "body_write"
    BY CallOf DEF Names
  <2> QED
    BY <2>1, <2>2
<1>4. calls' = <<c>> \o calls
  BY <1>3 DEF Echo, Push
<1>5. /\ UNCHANGED <<stage, buffers, sapi, client, dropped, torn>> /\ written' \in Nat
  BY <1>2 DEF Echo
<1>6. Typed'
  BY <1>1, <1>5, SameTyped, TypedIs DEF Typed
<1> QED
  BY <1>1, <1>3, <1>4, <1>5, <1>6, CallSound DEF Inside

LEMMA ObEndSound ==
  ASSUME Sound, NEW send \in BOOLEAN, ObEnd(send)
  PROVE  Sound'
<1>1. /\ ~torn /\ stage \in Busy /\ stage # "sending" /\ ~FlushRuns
      /\ \A j \in DOMAIN calls : j = 1 /\ calls[j].fn = "handler"
  BY Callers DEF ObEnd
<1>2. PICK c \in Frames : c = End(send, FALSE) /\ c.fn = "end" /\ c.text = <<>>
  BY EndOf
<1>3. calls' = <<c>> \o calls /\ UNCHANGED <<stage, buffers, sapi, ghosts>>
  BY <1>2 DEF ObEnd, Push
<1>4. Typed'
  BY <1>1, <1>3, SameTyped, TypedIs DEF Typed, ghosts
<1> QED
  BY <1>1, <1>2, <1>3, <1>4, CallSound DEF Inside, ghosts

LEMMA ObStartSound ==
  ASSUME Sound, NEW kind \in Kinds, ObStart(kind)
  PROVE  Sound'
<1>1. ~torn /\ stage \in Busy /\ \A j \in DOMAIN calls : calls[j].fn = "handler"
  BY Callers DEF ObStart
<1>2. /\ ~lock /\ level < MaxLevel /\ level' = level + 1 /\ body' = "b"
      /\ stack' = IF level = 0 THEN <<>> ELSE IF level = 1 THEN <<active>> ELSE Append(stack, active)
      /\ active' = [text |-> <<>>, chunk |-> kind.chunk, handler |-> kind.handler]
      /\ UNCHANGED <<stage, calls, lock, sapi, client, written, dropped, torn>>
  BY DEF ObStart, ghosts
<1>3. calls = <<>>
  <2>1. ~HandlerRuns
    BY <1>1, <1>2 DEF Sound, LockIsHandler
  <2> QED
    BY <1>1, <2>1, TopIs DEF HandlerRuns
<1>4. /\ level \in 0 .. MaxLevel /\ Len(stack) = IF level > 1 THEN level - 1 ELSE 0
      /\ stack \in Seq(Buffers) /\ active \in Buffers
  BY TypedIs DEF Typed, TypeOK
<1>5. active' \in Buffers
  <2>1. <<>> \in Seq(Nat)
    OBVIOUS
  <2> QED
    BY <1>2, <2>1 DEF Buffers, Kinds
<1>6. stack' \in Seq(Buffers) /\ Len(stack') = IF level' > 1 THEN level' - 1 ELSE 0
  <2>1. CASE level = 0
    BY <1>2, <2>1
  <2>2. CASE level = 1
    <3>1. stack' = <<active>>
      BY <1>2, <2>2
    <3> QED
      BY <1>2, <1>4, <2>2, <3>1
  <2>3. CASE level > 1
    <3>1. stack' = Append(stack, active)
      BY <1>2, <2>3, <1>4, OutputAssumption
    <3>2. stack' \in Seq(Buffers) /\ Len(stack') = Len(stack) + 1
      BY <1>4, <3>1, AppendProperties
    <3> QED
      BY <1>2, <1>4, <2>3, <3>2, OutputAssumption
  <2> QED
    BY <1>4, <2>1, <2>2, <2>3, OutputAssumption
<1>7. level' \in 1 .. MaxLevel
  BY <1>2, <1>4, OutputAssumption
<1>8. Typed' /\ BufferOpen'
  BY <1>2, <1>5, <1>6, <1>7, TypedIs DEF Typed, TypeOK, BufferOpen
<1> QED
  BY <1>2, <1>3, <1>8, EmptiedSound

LEMMA ObStartFailsSound ==
  ASSUME Sound, ObStartFails
  PROVE  Sound'
<1>1. stage \in Busy
  BY Callers DEF ObStartFails
<1>2. /\ level' = 0 /\ body' \in {"ub", "no_header"} /\ Bailout
      /\ dropped' = dropped \cup ((1 .. written) \ Elements(client))
      /\ active' = Buffer /\ stack' = <<>> /\ UNCHANGED <<lock, sapi, client, written, torn>>
  BY DEF ObStartFails, Unbuffered
<1>3. dropped' \subseteq Nat
  BY <1>2, TypedIs DEF Typed
<1>4. active' \in Buffers /\ active'.text = <<>>
  <2>1. <<>> \in Seq(Nat)
    OBVIOUS
  <2> QED
    BY <1>2, <2>1 DEF Buffer, Buffers
<1>5. stage' \in Busy \cup {"idle", "headers"}
  BY <1>1, <1>2, AfterIs DEF Bailout, Busy
<1>6. stack' \in Seq(Buffers) /\ Len(stack') = 0
  BY <1>2
<1>7. Typed' /\ BufferOpen'
  BY <1>2, <1>3, <1>4, <1>5, <1>6, TypedIs, OutputAssumption DEF Typed, TypeOK, BufferOpen, Busy
<1> QED
  BY <1>1, <1>2, <1>7, BailoutSound

LEMMA FlushAbortedSound ==
  ASSUME Sound, FlushAborted
  PROVE  Sound'
<1>1. stage \in Busy
  BY Callers DEF FlushAborted
<1>2. /\ sapi' = [sapi EXCEPT !.disabled = TRUE] /\ UNCHANGED <<buffers, ghosts>>
      /\ UNCHANGED <<calls, stage>> \/ Bailout
  BY DEF FlushAborted
<1>3. stage' \in Busy \cup {"idle", "headers"}
  BY <1>1, <1>2, AfterIs DEF Bailout, Busy
<1>4. Typed'
  BY <1>2, <1>3, SameTyped, TypedIs DEF Typed, ghosts
<1>5. CASE UNCHANGED <<calls, stage>>
  <2>1. StateOK'
    <3>1. CallsTyped'
      BY <1>5, StateParts DEF Sound, CallsTyped, Plain
    <3> QED
      BY <1>4, <3>1, StateParts, PTL
  <2>2. Nesting' /\ LockIsHandler' /\ BufferOpen'
    BY <1>2, <1>5 DEF Sound, Nesting, LockIsHandler, BufferOpen, HandlerRuns, FlushRuns, buffers,
                      ghosts
  <2> QED
    BY <2>1, <2>2 DEF Sound
<1>6. CASE Bailout
  BY <1>1, <1>2, <1>4, <1>6, SameOpen, BailoutSound
<1> QED
  BY <1>2, <1>5, <1>6

LEMMA ExitSound ==
  ASSUME Sound, Exit
  PROVE  Sound'
<1>1. stage \in Busy /\ Bailout /\ UNCHANGED <<buffers, sapi, ghosts>>
  BY Callers DEF Exit
<1>2. stage' \in Busy \cup {"idle", "headers"}
  BY <1>1, AfterIs DEF Bailout, Busy
<1>3. Typed'
  BY <1>1, <1>2, SameTyped, TypedIs DEF Typed, ghosts
<1> QED
  BY <1>1, <1>3, SameOpen, BailoutSound

LEMMA CrashSound ==
  ASSUME Sound, Crash
  PROVE  Sound'
<1>1. calls' = <<>> /\ stage' = "idle" /\ UNCHANGED <<buffers, sapi, ghosts>>
  BY DEF Crash
<1>2. Typed'
  BY <1>1, SameTyped, TypedIs DEF Typed, ghosts
<1> QED
  BY <1>1, <1>2, SameOpen, EmptiedSound

LEMMA EndStageSound ==
  ASSUME Sound, EndStage
  PROVE  Sound'
<1>1. /\ stage \in Busy /\ stage' = After(stage) /\ calls' = <<>>
      /\ UNCHANGED <<buffers, sapi, ghosts>>
  BY DEF EndStage, Busy
<1>2. stage' \in Busy \cup {"idle", "headers"} /\ stage' # "script"
  BY <1>1, AfterIs DEF Busy
<1>3. Typed'
  BY <1>1, <1>2, SameTyped, TypedIs DEF Typed, ghosts
<1> QED
  BY <1>1, <1>2, <1>3, SameOpen, EmptiedSound

LEMMA EndBuffersSound ==
  ASSUME Sound, EndBuffers
  PROVE  Sound'
<1>1. calls = <<>> /\ stage = "buffers" /\ UNCHANGED <<buffers, sapi, ghosts>>
  BY DEF EndBuffers
<1>2. ~FlushRuns /\ \A j \in DOMAIN calls : FALSE
  BY <1>1 DEF FlushRuns
<1>3. CASE level # 0
  <2>1. sapi.only \in BOOLEAN
    BY TypedIs DEF Typed
  <2>2. PICK c \in Frames : c = End(~sapi.only, FALSE) /\ c.fn = "end" /\ c.text = <<>>
    BY <2>1, EndOf
  <2>3. calls' = <<c>> \o calls /\ stage' = stage
    BY <1>3, <2>2 DEF EndBuffers, Push
  <2>4. Typed'
    BY <1>1, <2>3, SameTyped, TypedIs DEF Typed, ghosts, Busy
  <2> QED
    BY <1>1, <1>2, <2>2, <2>3, <2>4, CallSound DEF ghosts, Busy
<1>4. CASE ~(level # 0)
  <2>1. stage' = "headers" /\ calls' = <<>>
    BY <1>1, <1>4 DEF EndBuffers, After
  <2>2. Typed'
    BY <1>1, <2>1, SameTyped, TypedIs DEF Typed, ghosts
  <2> QED
    BY <1>1, <2>1, <2>2, SameOpen, EmptiedSound
<1> QED
  BY <1>3, <1>4

LEMMA EndHeadersSound ==
  ASSUME Sound, EndHeaders
  PROVE  Sound'
<1>1. calls = <<>> /\ stage' = "sending" /\ UNCHANGED <<buffers, sapi, ghosts>>
  BY DEF EndHeaders
<1>2. ~FlushRuns /\ \A j \in DOMAIN calls : FALSE
  BY <1>1 DEF FlushRuns
<1>3. PICK c \in Frames : c = Call("headers", <<>>) /\ c.fn = "headers" /\ c.text = <<>>
  <2>1. <<>> \in Seq(Nat) /\ "headers" \in Names
    BY DEF Names
  <2> QED
    BY <2>1, CallOf
<1>4. calls' = <<c>> \o calls
  BY <1>3 DEF EndHeaders, Push
<1>5. Typed'
  BY <1>1, SameTyped, TypedIs DEF Typed, ghosts, Busy
<1> QED
  BY <1>1, <1>2, <1>3, <1>4, <1>5, CallSound DEF ghosts, Busy

LEMMA InitSound == Init => Sound
<1> SUFFICES ASSUME Init PROVE Sound
  OBVIOUS
<1>1. <<>> \in Seq(Nat) /\ <<>> \in Seq(Buffers) /\ <<>> \in Seq(Frames) /\ DOMAIN <<>> = {}
      /\ Len(<<>>) = 0
  OBVIOUS
<1>2. active \in Buffers /\ active.text = <<>>
  BY <1>1 DEF Init, Buffer, Buffers
<1>3. Typed
  <2>1. stack \in Seq(Buffers) /\ Len(stack) = 0 /\ client \in Seq(Nat)
    BY <1>1 DEF Init
  <2>2. level = 0 /\ level \in 0 .. MaxLevel
    BY OutputAssumption DEF Init
  <2>3. sapi \in [sent : BOOLEAN, only : BOOLEAN, disabled : BOOLEAN, ignore : BOOLEAN,
                   modules : BOOLEAN]
    BY DEF Init
  <2> QED
    <3>1. stage = "idle" /\ body = "ub" /\ lock = FALSE /\ written = 0 /\ dropped = {}
          /\ torn = FALSE
      BY DEF Init
    <3>2. TypeOK
      <4>1. ~(level > 1)
        BY <2>2
      <4> QED
        BY <2>1, <2>2, <3>1, <4>1 DEF TypeOK
    <3> QED
      BY <1>2, <2>1, <2>3, <3>1, <3>2 DEF Typed
<1>4. ~HandlerRuns /\ ~FlushRuns /\ CallsTyped /\ Nesting
  BY <1>1 DEF Init, HandlerRuns, FlushRuns, CallsTyped, Plain, Nesting
<1> QED
  BY <1>3, <1>4, StateParts DEF Init, Sound, BufferOpen, LockIsHandler

LEMMA SoundStep == Sound /\ [Next]_vbls => Sound'
<1> SUFFICES ASSUME Sound, [Next]_vbls PROVE Sound'
  OBVIOUS
<1>1. CASE UNCHANGED vbls
  BY <1>1 DEF vbls, buffers, ghosts, Sound, StateOK, TypeOK, Nesting, BufferOpen, LockIsHandler,
              HandlerRuns, FlushRuns
<1>2. CASE Start
  BY <1>2, StartSound
<1>3. CASE SendHeaders \/ AfterHeaders
  BY <1>3, SendHeadersSound, AfterHeadersSound
<1>4. CASE AppendTo \/ WriteUnbuffered \/ WriteNoHeader
  BY <1>4, AppendToSound, WriteUnbufferedSound, WriteNoHeaderSound
<1>5. CASE EndBuffer \/ HandlerReturns \/ Flushed
  BY <1>5, EndBufferSound, HandlerReturnsSound, FlushedSound
<1>6. CASE Echo \/ (\E send \in BOOLEAN : ObEnd(send)) \/ FlushAborted \/ Exit
  BY <1>6, EchoSound, ObEndSound, FlushAbortedSound, ExitSound
<1>7. CASE (\E kind \in Kinds : ObStart(kind)) \/ ObStartFails
  BY <1>7, ObStartSound, ObStartFailsSound
<1>8. CASE Crash \/ EndStage \/ EndBuffers \/ EndHeaders
  BY <1>8, CrashSound, EndStageSound, EndBuffersSound, EndHeadersSound
<1> QED
  BY <1>1, <1>2, <1>3, <1>4, <1>5, <1>6, <1>7, <1>8 DEF Next

LEMMA SoundAlways == Spec => []Sound
  BY InitSound, SoundStep, PTL DEF Spec

\* In every request, whatever the handlers do and wherever it is cut off: php_body_write
\* writes to a buffer only while there is one, ob_lock is set while a handler runs, and the
\* script can start buffers whenever none does.
THEOREM BuffersStaySound == Spec => []BuffersSound
<1>1. Sound => BuffersSound
  BY DEF Sound, StateOK, BuffersSound
<1> QED
  BY <1>1, SoundAlways, PTL

(***************************************************************************)
(* Texts                                                                   *)
(***************************************************************************)
LEMMA NoElements ==
  Elements(<<>>) = {} /\ Ordered(<<>>)
  BY None DEF Elements, Ordered

LEMMA OneElement ==
  ASSUME NEW n
  PROVE  Elements(<<n>>) = {n} /\ Ordered(<<n>>)
<1>1. DOMAIN <<n>> = {1} /\ <<n>>[1] = n
  OBVIOUS
<1> QED
  BY <1>1 DEF Elements, Ordered

LEMMA ElementsJoin ==
  ASSUME NEW s \in Seq(Nat), NEW t \in Seq(Nat)
  PROVE  Elements(s \o t) = Elements(s) \cup Elements(t)
<1>1. /\ Len(s \o t) = Len(s) + Len(t) /\ s \o t \in Seq(Nat)
      /\ \A i \in 1 .. Len(s) + Len(t) : (s \o t)[i] = IF i <= Len(s) THEN s[i] ELSE t[i - Len(s)]
  BY ConcatProperties
<1>2. /\ Len(s) \in Nat /\ Len(t) \in Nat /\ DOMAIN s = 1 .. Len(s) /\ DOMAIN t = 1 .. Len(t)
      /\ DOMAIN (s \o t) = 1 .. Len(s) + Len(t)
  BY <1>1, LenProperties
<1>3. ASSUME NEW n \in Elements(s \o t)
      PROVE  n \in Elements(s) \cup Elements(t)
  <2>1. PICK i \in 1 .. Len(s) + Len(t) : n = (s \o t)[i]
    BY <1>2, <1>3 DEF Elements
  <2>2. CASE i <= Len(s)
    BY <1>1, <1>2, <2>1, <2>2 DEF Elements
  <2>3. CASE ~(i <= Len(s))
    <3>1. i - Len(s) \in DOMAIN t /\ n = t[i - Len(s)]
      BY <1>1, <1>2, <2>1, <2>3
    <3> QED
      BY <3>1 DEF Elements
  <2> QED
    BY <2>2, <2>3
<1>4. ASSUME NEW n \in Elements(s)
      PROVE  n \in Elements(s \o t)
  <2>1. PICK i \in 1 .. Len(s) : n = s[i]
    BY <1>2, <1>4 DEF Elements
  <2>2. i \in DOMAIN (s \o t) /\ (s \o t)[i] = n
    BY <1>1, <1>2, <2>1
  <2> QED
    BY <2>2 DEF Elements
<1>5. ASSUME NEW n \in Elements(t)
      PROVE  n \in Elements(s \o t)
  <2>1. PICK i \in 1 .. Len(t) : n = t[i]
    BY <1>2, <1>5 DEF Elements
  <2> DEFINE j == Len(s) + i
  <2>2. j \in 1 .. Len(s) + Len(t) /\ ~(j <= Len(s)) /\ j - Len(s) = i
    BY <1>2
  <2>3. (s \o t)[j] = t[i]
    BY <1>1, <2>2
  <2> QED
    BY <1>2, <2>1, <2>2, <2>3 DEF Elements
<1> QED
  BY <1>3, <1>4, <1>5

LEMMA OrderedJoin ==
  ASSUME NEW s \in Seq(Nat), NEW t \in Seq(Nat), Ordered(s), Ordered(t), Precede(s, t)
  PROVE  Ordered(s \o t)
<1>1. /\ Len(s \o t) = Len(s) + Len(t) /\ s \o t \in Seq(Nat)
      /\ \A i \in 1 .. Len(s) + Len(t) : (s \o t)[i] = IF i <= Len(s) THEN s[i] ELSE t[i - Len(s)]
  BY ConcatProperties
<1>2. /\ Len(s) \in Nat /\ Len(t) \in Nat /\ DOMAIN s = 1 .. Len(s) /\ DOMAIN t = 1 .. Len(t)
      /\ DOMAIN (s \o t) = 1 .. Len(s) + Len(t)
  BY <1>1, LenProperties
<1> SUFFICES ASSUME NEW i \in 1 .. Len(s) + Len(t), NEW j \in 1 .. Len(s) + Len(t), i < j
             PROVE  (s \o t)[i] < (s \o t)[j]
  BY <1>2 DEF Ordered
<1>3. CASE j <= Len(s)
  <2>1. i \in DOMAIN s /\ j \in DOMAIN s /\ (s \o t)[i] = s[i] /\ (s \o t)[j] = s[j]
    BY <1>1, <1>2, <1>3
  <2> QED
    BY <2>1 DEF Ordered
<1>4. CASE i <= Len(s) /\ ~(j <= Len(s))
  <2>1. /\ i \in DOMAIN s /\ (s \o t)[i] = s[i]
        /\ j - Len(s) \in DOMAIN t /\ (s \o t)[j] = t[j - Len(s)]
    BY <1>1, <1>2, <1>4
  <2>2. (s \o t)[i] \in Elements(s) /\ (s \o t)[j] \in Elements(t)
    BY <2>1 DEF Elements
  <2> QED
    BY <2>2 DEF Precede
<1>5. CASE ~(i <= Len(s))
  <2>1. /\ i - Len(s) \in DOMAIN t /\ (s \o t)[i] = t[i - Len(s)]
        /\ j - Len(s) \in DOMAIN t /\ (s \o t)[j] = t[j - Len(s)]
        /\ i - Len(s) < j - Len(s)
    BY <1>1, <1>2, <1>5
  <2> QED
    BY <2>1 DEF Ordered
<1> QED
  BY <1>2, <1>3, <1>4, <1>5

(***************************************************************************)
(* The headers                                                             *)
(***************************************************************************)
HeadersSound == Headers /\ HeadersFirst /\ NoBodyForHead

LEMMA HeadersSame ==
  ASSUME Typed, HeadersSound, UNCHANGED client, body' \in {body, "b", "ub", Unbuffered},
         sapi' = sapi \/ sapi' = [sapi EXCEPT !.disabled = TRUE]
  PROVE  HeadersSound'
<1>1. sapi'.sent = sapi.sent /\ sapi'.only = sapi.only /\ (sapi.disabled => sapi'.disabled)
  BY DEF Typed
<1>2. Unbuffered = "no_header" => sapi.sent /\ ~sapi.only
  BY DEF Unbuffered
<1>3. body' = "no_header" => sapi.sent /\ ~sapi.only
  BY <1>2 DEF HeadersSound, Headers
<1>4. Headers'
  BY <1>1, <1>3 DEF HeadersSound, Headers
<1>5. HeadersFirst' /\ NoBodyForHead'
  BY <1>1 DEF HeadersSound, HeadersFirst, NoBodyForHead
<1> QED
  BY <1>4, <1>5 DEF HeadersSound

LEMMA HeadersSent ==
  ASSUME Sound, HeadersSound, SendHeaders
  PROVE  HeadersSound'
<1>1. Typed /\ client \in Seq(Nat) /\ body' = body
  BY TypedIs DEF Typed, SendHeaders, buffers
<1>2. CASE sapi' = sapi /\ client' = client
  BY <1>1, <1>2, HeadersSame
<1>3. CASE /\ ~sapi.sent /\ sapi' = [sapi EXCEPT !.sent = TRUE]
           /\ client' = IF sapi.disabled THEN client ELSE Append(client, 0)
  <2>1. /\ sapi'.sent = TRUE /\ sapi'.only = sapi.only /\ sapi'.disabled = sapi.disabled
        /\ client = <<>>
    BY <1>1, <1>3 DEF Typed, HeadersSound, Headers
  <2>2. client' = IF sapi.disabled THEN <<>> ELSE <<0>>
    BY <1>3, <2>1
  <2>3. <<0>> # <<>> /\ <<0>>[1] = 0 /\ Elements(<<0>>) = {0} /\ Elements(<<>>) = {}
    BY OneElement, NoElements
  <2>4. ~(body = "no_header")
    BY <1>3 DEF HeadersSound, Headers
  <2>5. Headers'
    BY <1>1, <2>1, <2>2, <2>3, <2>4 DEF Headers
  <2>6. HeadersFirst'
    BY <2>2, <2>3 DEF HeadersFirst
  <2>7. NoBodyForHead'
    BY <2>2, <2>3 DEF NoBodyForHead
  <2> QED
    BY <2>5, <2>6, <2>7 DEF HeadersSound
<1>4. CASE ~sapi.sent /\ Aborted([sapi EXCEPT !.sent = TRUE]) /\ UNCHANGED client
  <2>1. sapi'.sent = TRUE /\ sapi'.only = sapi.only /\ sapi'.disabled = TRUE /\ client' = <<>>
    BY <1>1, <1>4 DEF Typed, HeadersSound, Headers, Aborted
  <2>2. ~(body = "no_header")
    BY <1>4 DEF HeadersSound, Headers
  <2> QED
    BY <1>1, <2>1, <2>2, NoElements DEF HeadersSound, Headers, HeadersFirst, NoBodyForHead
<1> QED
  BY <1>2, <1>3, <1>4 DEF SendHeaders

LEMMA HeadersBeforeBody ==
  ASSUME Sound, HeadersSound, WriteNoHeader
  PROVE  HeadersSound'
<1>1. Typed /\ client \in Seq(Nat) /\ body' = body
  BY TypedIs DEF Typed, WriteNoHeader, buffers
<1>2. CASE client' = client
  <2>1. sapi' = sapi \/ sapi' = [sapi EXCEPT !.disabled = TRUE]
    BY DEF WriteNoHeader, Aborted
  <2> QED
    BY <1>1, <1>2, <2>1, HeadersSame
<1>3. CASE ~sapi.disabled /\ client' = client \o Top.text /\ UNCHANGED sapi
  <2>1. sapi.sent /\ ~sapi.only /\ client # <<>>
    BY <1>3 DEF WriteNoHeader, HeadersSound, Headers
  <2>2. Top.text \in Seq(Nat)
    BY InIs, TopIs DEF WriteNoHeader, Frames
  <2>3. Len(client) >= 1 /\ Len(client) \in Nat
    BY <1>1, <2>1, EmptySeq, LenProperties
  <2>4. /\ Len(client') = Len(client) + Len(Top.text) /\ client' \in Seq(Nat)
        /\ \A i \in 1 .. Len(client) + Len(Top.text) : i <= Len(client) => client'[i] = client[i]
    BY <1>1, <1>3, <2>2, ConcatProperties
  <2>5. client'[1] = client[1] /\ client' # <<>>
    BY <2>2, <2>3, <2>4, LenProperties, None
  <2> QED
    BY <1>1, <1>3, <2>1, <2>5 DEF HeadersSound, Headers, HeadersFirst, NoBodyForHead
<1> QED
  BY <1>2, <1>3 DEF WriteNoHeader

LEMMA HeadersStep ==
  ASSUME Sound, HeadersSound, [Next]_vbls
  PROVE  HeadersSound'
<1>0. Typed
  BY TypedIs
<1>1. CASE UNCHANGED vbls
  BY <1>0, <1>1, HeadersSame DEF vbls, buffers, ghosts
<1>2. CASE Start
  <2>1. client' = <<>> /\ sapi'.sent = FALSE /\ body' # "no_header"
    BY <1>2 DEF Start
  <2> QED
    BY <2>1, NoElements DEF HeadersSound, Headers, HeadersFirst, NoBodyForHead
<1>3. CASE SendHeaders \/ WriteNoHeader
  BY <1>3, HeadersSent, HeadersBeforeBody
<1>4. CASE AfterHeaders
  <2>1. client' = client /\ sapi' = sapi /\ (body' = body \/ (body' = "no_header" /\ sapi.sent /\ ~sapi.only))
    BY <1>4 DEF AfterHeaders
  <2> QED
    BY <2>1 DEF HeadersSound, Headers, HeadersFirst, NoBodyForHead
<1>5. CASE AppendTo \/ WriteUnbuffered \/ Flushed
  BY <1>0, <1>5, HeadersSame DEF AppendTo, WriteUnbuffered, Flushed, buffers, ghosts
<1>6. CASE EndBuffer \/ HandlerReturns
  <2>1. UNCHANGED <<client, sapi>> /\ body' \in {body, Unbuffered}
    BY <1>6 DEF EndBuffer, HandlerReturns, Finish, buffers, ghosts
  <2> QED
    BY <1>0, <2>1, HeadersSame
<1>7. CASE Echo \/ (\E send \in BOOLEAN : ObEnd(send)) \/ FlushAborted \/ Exit
  BY <1>0, <1>7, HeadersSame DEF Echo, ObEnd, FlushAborted, Exit, buffers, ghosts
<1>8. CASE (\E kind \in Kinds : ObStart(kind)) \/ ObStartFails
  BY <1>0, <1>8, HeadersSame DEF ObStart, ObStartFails, ghosts
<1>9. CASE Crash \/ EndStage \/ EndBuffers \/ EndHeaders
  BY <1>0, <1>9, HeadersSame DEF Crash, EndStage, EndBuffers, EndHeaders, buffers, ghosts
<1> QED
  BY <1>1, <1>2, <1>3, <1>4, <1>5, <1>6, <1>7, <1>8, <1>9 DEF Next

LEMMA HeadersInit == Init => HeadersSound
  BY NoElements DEF Init, HeadersSound, Headers, HeadersFirst, NoBodyForHead

(***************************************************************************)
(* What is on its way to the client                                        *)
(***************************************************************************)
BuffersInLine ==
  /\ level > 0 => FlushRuns \/ body = "b"
  /\ \A i \in DOMAIN stack :
       /\ Ordered(stack[i].text) /\ Elements(stack[i].text) \subseteq 1 .. written
       /\ Precede(client, stack[i].text) /\ Precede(stack[i].text, active.text)
       /\ \A j \in DOMAIN stack : i < j => Precede(stack[i].text, stack[j].text)
  /\ Ordered(active.text) /\ Elements(active.text) \subseteq 1 .. written
  /\ FlushRuns \/ Precede(client, active.text)
  /\ Elements(client) \subseteq 0 .. written

CallInLine(c) ==
  /\ Ordered(c.text) /\ Elements(c.text) \subseteq 1 .. written
  /\ c.fn = "handler" => Elements(c.text) \subseteq Elements(active.text)
  /\ c.fn = "ub" => body # "b"
  /\ c.fn \in {"ub", "body_write"} =>
       /\ Precede(client, c.text)
       /\ \A i \in DOMAIN stack : Precede(stack[i].text, c.text)
       /\ FlushRuns \/ Precede(active.text, c.text)

LEMMA LineParts ==
  InLine <=> BuffersInLine /\ \A k \in DOMAIN calls : CallInLine(calls[k])
  BY DEF InLine, BuffersInLine, CallInLine

LEMMA LineNext ==
  ASSUME BuffersInLine', \A i \in DOMAIN calls' : \A c : c = calls'[i] => CallInLine(c)'
  PROVE  InLine'
<1>1. \A i \in DOMAIN calls' :
        /\ Ordered(calls'[i].text) /\ Elements(calls'[i].text) \subseteq 1 .. written'
        /\ calls'[i].fn = "handler" => Elements(calls'[i].text) \subseteq Elements(active'.text)
        /\ calls'[i].fn = "ub" => body' # "b"
        /\ calls'[i].fn \in {"ub", "body_write"} =>
             /\ Precede(client', calls'[i].text)
             /\ \A j \in DOMAIN stack' : Precede(stack'[j].text, calls'[i].text)
             /\ FlushRuns' \/ Precede(active'.text, calls'[i].text)
  BY DEF CallInLine
<1> QED
  BY <1>1 DEF InLine, BuffersInLine

\* Where a write is.
Somewhere(n) ==
  \/ n \in Elements(client) \/ n \in dropped
  \/ \E k \in DOMAIN calls : n \in Elements(calls[k].text)
  \/ \E i \in DOMAIN stack : n \in Elements(stack[i].text)
  \/ ~FlushRuns /\ n \in Elements(active.text)

LEMMA KeptIs == Kept <=> \A n \in 1 .. written : Somewhere(n)
<1>1. \A n : n \in Pending <=> \E k \in DOMAIN calls : n \in Elements(calls[k].text)
  BY DEF Pending
<1>2. \A n : n \in InStack <=> \E i \in DOMAIN stack : n \in Elements(stack[i].text)
  BY DEF InStack
<1>3. \A n : n \in InActive <=> ~FlushRuns /\ n \in Elements(active.text)
  BY DEF InActive
<1>4. Kept <=> \A n \in 1 .. written :
                 \/ n \in Elements(client) \/ n \in dropped \/ n \in Pending
                 \/ n \in InStack \/ n \in InActive
  BY DEF Kept
<1> QED
  BY <1>1, <1>2, <1>3, <1>4 DEF Somewhere

LEMMA KeptNext ==
  ASSUME \A n \in 1 .. written' : Somewhere(n)'
  PROVE  Kept'
<1>1. (\A n \in 1 .. written : Somewhere(n))'
  OBVIOUS
<1> QED
  BY <1>1, KeptIs, PTL

\* The texts of the calls that remain.
LEMMA InFlight ==
  ASSUME Sound, NEW front \in Seq(Frames), NEW k \in {0, 1}, k <= Len(calls),
         Goes(calls, calls', front, k), NEW n
  PROVE  /\ (\E i \in DOMAIN front : n \in Elements(front[i].text))
              => \E i \in DOMAIN calls' : n \in Elements(calls'[i].text)
         /\ (\E j \in DOMAIN calls : j > k /\ n \in Elements(calls[j].text))
              => \E i \in DOMAIN calls' : n \in Elements(calls'[i].text)
<1>1. calls \in Seq(Frames)
  BY StateParts DEF Sound, CallsTyped
<1>2. ASSUME NEW i \in DOMAIN front, n \in Elements(front[i].text)
      PROVE  \E j \in DOMAIN calls' : n \in Elements(calls'[j].text)
  <2>1. i \in DOMAIN calls' /\ calls'[i] = front[i]
    BY <1>1, FrontStays
  <2> QED
    BY <1>2, <2>1
<1>3. ASSUME NEW j \in DOMAIN calls, j > k, n \in Elements(calls[j].text)
      PROVE  \E i \in DOMAIN calls' : n \in Elements(calls'[i].text)
  <2>1. Len(front) + j - k \in DOMAIN calls' /\ calls'[Len(front) + j - k] = calls[j]
    BY <1>1, <1>3, CallsStay
  <2> QED
    BY <1>3, <2>1
<1> QED
  BY <1>2, <1>3

\* Nothing but the headers is new at the client.
MoreSent ==
  /\ Elements(client) \subseteq Elements(client')
  /\ Elements(client') \subseteq Elements(client) \cup {0}

MoreWritten == written \in Nat /\ (written' = written \/ written' = written + 1)

LEMMA PrecedeSent ==
  ASSUME MoreSent, NEW t, Precede(client, t), Elements(t) \subseteq 1 .. written
  PROVE  Precede(client', t)
  BY DEF Precede, MoreSent

\* A call, and the buffers, are in line as they were.
LEMMA CallStays ==
  ASSUME NEW c, CallInLine(c), UNCHANGED <<active, stack>>, MoreSent, MoreWritten,
         FlushRuns => FlushRuns', body' = "b" => body = "b"
  PROVE  CallInLine(c)'
<1>1. Ordered(c.text) /\ Elements(c.text) \subseteq 1 .. written'
  BY DEF CallInLine, MoreWritten
<1>2. c.fn \in {"ub", "body_write"} => Precede(client', c.text)
  BY PrecedeSent DEF CallInLine
<1> QED
  BY <1>1, <1>2 DEF CallInLine

LEMMA BuffersStay ==
  ASSUME BuffersInLine, UNCHANGED <<level, active, stack>>, MoreSent, MoreWritten,
         FlushRuns => FlushRuns', body = "b" => body' = "b"
  PROVE  BuffersInLine'
<1>1. \A i \in DOMAIN stack : /\ Elements(stack[i].text) \subseteq 1 .. written'
                              /\ Precede(client', stack[i].text)
  BY PrecedeSent DEF BuffersInLine, MoreWritten
<1>2. /\ Elements(active.text) \subseteq 1 .. written'
      /\ FlushRuns \/ Precede(client', active.text)
  BY PrecedeSent DEF BuffersInLine, MoreWritten
<1>3. Elements(client') \subseteq 0 .. written'
  BY DEF BuffersInLine, MoreWritten, MoreSent
<1> QED
  BY <1>1, <1>2, <1>3 DEF BuffersInLine

\* Calls return, are made, or take the place of others, and what the one that has gone was
\* to write is kept.
LEMMA MovedLine ==
  ASSUME Sound, InLine, Kept,
         NEW front \in Seq(Frames), NEW k \in {0, 1}, k <= Len(calls),
         Goes(calls, calls', front, k),
         UNCHANGED <<level, active, stack>>, MoreSent, MoreWritten, dropped \subseteq dropped',
         FlushRuns' <=> FlushRuns, body' = "b" <=> body = "b",
         \A i \in DOMAIN front : CallInLine(front[i])',
         k = 1 => \A n \in Elements(Top.text) :
                    \/ n \in dropped'
                    \/ \E i \in DOMAIN front : n \in Elements(front[i].text)
                    \/ ~FlushRuns /\ n \in Elements(active.text),
         written' # written => \E i \in DOMAIN front : written' \in Elements(front[i].text)
  PROVE  InLine' /\ Kept'
<1>1. BuffersInLine' 
  BY LineParts, BuffersStay
<1>2. ASSUME NEW i \in DOMAIN calls', NEW c, c = calls'[i]
      PROVE  CallInLine(c)'
  <2>1. CASE i \in DOMAIN front /\ calls'[i] = front[i]
    <3>1. PICK j \in DOMAIN front : c = front[j]
      BY <1>2, <2>1
    <3>2. CallInLine(front[j])'
      OBVIOUS
    <3> QED
      BY <3>1, <3>2
  <2>2. CASE i - Len(front) + k \in DOMAIN calls /\ calls'[i] = calls[i - Len(front) + k]
    <3>1. CallInLine(c)
      BY <1>2, <2>2, LineParts
    <3> QED
      BY <3>1, CallStays
  <2> QED
    BY <2>1, <2>2, CallsOf, StateParts DEF Sound, CallsTyped
<1>3. ASSUME NEW n \in 1 .. written'
      PROVE  Somewhere(n)'
  <2>1. CASE n \notin 1 .. written
    <3>1. n = written' /\ written' # written
      BY <2>1 DEF MoreWritten
    <3> QED
      BY <3>1, InFlight DEF Somewhere
  <2>2. CASE n \in 1 .. written
    <3>1. Somewhere(n)
      BY <2>2, KeptIs
    <3>2. CASE n \in Elements(client) \/ n \in dropped
      BY <3>2 DEF Somewhere, MoreSent
    <3>3. CASE \E i \in DOMAIN stack : n \in Elements(stack[i].text)
      BY <3>3 DEF Somewhere
    <3>4. CASE ~FlushRuns /\ n \in Elements(active.text)
      BY <3>4 DEF Somewhere
    <3>5. CASE \E j \in DOMAIN calls : n \in Elements(calls[j].text)
      <4>1. PICK j \in DOMAIN calls : n \in Elements(calls[j].text)
        BY <3>5
      <4>2. CASE j > k
        BY <4>1, <4>2, InFlight DEF Somewhere
      <4>3. CASE ~(j > k)
        <5>1. k = 1 /\ j = 1 /\ n \in Elements(Top.text)
          BY <4>1, <4>3, LenProperties, TopIs, StateParts DEF Sound, CallsTyped
        <5> QED
          BY <5>1, InFlight DEF Somewhere
      <4> QED
        BY <4>2, <4>3
    <3> QED
      BY <3>1, <3>2, <3>3, <3>4, <3>5 DEF Somewhere
  <2> QED
    BY <2>1, <2>2
<1>4. InLine'
  BY <1>1, <1>2, LineNext
<1>5. Kept'
  BY <1>3, KeptNext
<1> QED
  BY <1>4, <1>5

LEMMA RunsOr ==
  ASSUME Sound, calls # <<>>
  PROVE  /\ FlushRuns <=> Top.fn = "flushed" \/ Outer("flushed")
         /\ HandlerRuns <=> Top.fn = "handler" \/ Outer("handler")
<1>1. 1 \in DOMAIN calls /\ Top = calls[1] /\ \A j \in DOMAIN calls : j = 1 \/ j > 1
  BY TopIs
<1>2. FlushRuns <=> Top.fn = "flushed" \/ Outer("flushed")
  BY <1>1 DEF FlushRuns, Outer
<1>3. HandlerRuns <=> Top.fn = "handler" \/ Outer("handler")
  BY <1>1 DEF HandlerRuns, Outer
<1> QED
  BY <1>2, <1>3

LEMMA InsteadLine ==
  ASSUME Sound, InLine, Kept, calls # <<>>, Top.fn # "flushed",
         NEW front \in Seq(Frames), calls' = front \o Tail(calls), ~Runs("flushed", front),
         UNCHANGED <<level, active, stack, written>>, MoreSent, dropped \subseteq dropped',
         body' = "b" <=> body = "b",
         \A i \in DOMAIN front : CallInLine(front[i])',
         \A n \in Elements(Top.text) :
           \/ n \in dropped'
           \/ \E i \in DOMAIN front : n \in Elements(front[i].text)
           \/ ~FlushRuns /\ n \in Elements(active.text)
  PROVE  InLine' /\ Kept'
<1>1. Goes(calls, calls', front, 1) /\ (FlushRuns' <=> Outer("flushed"))
  BY Replaced
<1>2. FlushRuns' <=> FlushRuns
  BY <1>1, RunsOr
<1>3. 1 <= Len(calls) /\ MoreWritten
  BY TopIs, TypedIs DEF MoreWritten, Typed
<1> QED
  BY <1>1, <1>2, <1>3, MovedLine

LEMMA ReturnLine ==
  ASSUME Sound, InLine, Kept, calls # <<>>, Top.fn # "flushed", calls' = Tail(calls),
         UNCHANGED <<level, active, stack, written, body>>, MoreSent, dropped \subseteq dropped',
         \A n \in Elements(Top.text) : n \in dropped'
  PROVE  InLine' /\ Kept'
<1>1. PICK front \in Seq(Frames) : front = <<>> /\ DOMAIN front = {}
  BY None
<1>2. calls' = front \o Tail(calls)
  BY <1>1, TopIs, HeadTailProperties
<1> QED
  BY <1>1, <1>2, InsteadLine DEF Runs

LEMMA SameSent ==
  ASSUME UNCHANGED client
  PROVE  MoreSent
  BY DEF MoreSent

LEMMA SendHeadersLine ==
  ASSUME Sound, HeadersSound, Flowing', InLine, Kept, SendHeaders
  PROVE  InLine' /\ Kept'
<1>1. calls # <<>> /\ Top.fn = "headers" /\ Top.text = <<>>
  BY InIs, TopIs, StateParts DEF SendHeaders, Sound, CallsTyped, Plain
<1>2. calls' = Tail(calls)
  BY TypedIs DEF SendHeaders, Aborted, Flowing, Typed
<1>3. MoreSent
  <2>1. CASE UNCHANGED client
    BY <2>1, SameSent
  <2>2. CASE ~sapi.sent /\ client' = Append(client, 0)
    <3>1. client = <<>>
      BY <2>2 DEF HeadersSound, Headers
    <3>2. client' = <<0>>
      BY <2>2, <3>1
    <3> QED
      BY <3>1, <3>2, NoElements, OneElement DEF MoreSent
  <2> QED
    BY <2>1, <2>2 DEF SendHeaders
<1>4. UNCHANGED <<level, active, stack, written, body, dropped>>
  BY DEF SendHeaders, buffers
<1> QED
  BY <1>1, <1>2, <1>3, <1>4, NoElements, ReturnLine

LEMMA AfterHeadersLine ==
  ASSUME Sound, Flowing, InLine, Kept, AfterHeaders
  PROVE  InLine' /\ Kept'
<1>1. /\ calls # <<>> /\ Top.fn = "ub" /\ Top \in Frames /\ calls[1] = Top /\ 1 \in DOMAIN calls
  BY InIs, TopIs DEF AfterHeaders
<1>2. ~sapi.only /\ UNCHANGED <<level, active, stack, lock, sapi, client, written, torn>>
  BY DEF AfterHeaders, Flowing
<1>3. CallInLine(Top) /\ body # "b"
  BY <1>1, LineParts DEF CallInLine
<1>4. CASE Drop(Top.text) /\ calls' = Tail(calls) /\ UNCHANGED <<stage, body>>
  <2>1. dropped \subseteq dropped' /\ \A n \in Elements(Top.text) : n \in dropped'
    BY <1>4 DEF Drop
  <2> QED
    BY <1>1, <1>2, <1>4, <2>1, SameSent, ReturnLine
<1>5. CASE /\ body' = "no_header" /\ UNCHANGED <<stage, dropped>>
           /\ calls' = <<[Top EXCEPT !.fn = "body_write"]>> \o Tail(calls)
  <2>1. PICK c \in Frames : /\ c = [Top EXCEPT !.fn = "body_write"]
                            /\ c.fn = "body_write" /\ c.text = Top.text
    BY <1>1, Renamed DEF Names
  <2>2. PICK front \in Seq(Frames) : /\ front = <<c>> /\ Len(front) = 1
                                     /\ DOMAIN front = {1} /\ front[1] = c
    BY One
  <2>3. calls' = front \o Tail(calls)
    BY <1>5, <2>1, <2>2
  <2>4. ~Runs("flushed", front)
    BY <2>1, <2>2 DEF Runs
  <2>5. FlushRuns <=> FlushRuns'
    BY <1>1, <2>3, <2>4, Replaced, RunsOr
  <2>6. CallInLine(c)'
    BY <1>1, <1>2, <1>3, <2>1, <2>5 DEF CallInLine
  <2>7. \A i \in DOMAIN front : CallInLine(front[i])'
    <3> SUFFICES ASSUME NEW i \in DOMAIN front PROVE CallInLine(front[i])'
      OBVIOUS
    <3>1. front[i] = c
      BY <2>2
    <3> QED
      BY <2>6, <3>1
  <2>8. \A n \in Elements(Top.text) : \E i \in DOMAIN front : n \in Elements(front[i].text)
    BY <2>1, <2>2
  <2> QED
    BY <1>1, <1>2, <1>3, <1>5, <2>3, <2>4, <2>7, <2>8, SameSent, InsteadLine
<1> QED
  BY <1>2, <1>4, <1>5 DEF AfterHeaders

LEMMA EmptyCall ==
  ASSUME NEW c, c.text = <<>>, c.fn \in {"headers", "end", "flushed"}
  PROVE  CallInLine(c)'
  BY NoElements DEF CallInLine, Precede

LEMMA WriteUnbufferedLine ==
  ASSUME Sound, InLine, Kept, WriteUnbuffered
  PROVE  InLine' /\ Kept'
<1>1. /\ calls # <<>> /\ Top.fn = "body_write" /\ Top \in Frames /\ calls[1] = Top
      /\ 1 \in DOMAIN calls /\ body = "ub"
  BY InIs, TopIs DEF WriteUnbuffered
<1>2. UNCHANGED <<level, active, stack, written, client, body, dropped>>
  BY DEF WriteUnbuffered, buffers, ghosts
<1>3. PICK c \in Frames : /\ c = Call("headers", <<>>) /\ c.fn = "headers" /\ c.text = <<>>
  <2>1. <<>> \in Seq(Nat) /\ "headers" \in Names
    BY DEF Names
  <2> QED
    BY <2>1, CallOf
<1>4. PICK d \in Frames : d = [Top EXCEPT !.fn = "ub"] /\ d.fn = "ub" /\ d.text = Top.text
  BY <1>1, Renamed DEF Names
<1>5. PICK front \in Seq(Frames) : /\ front = <<c, d>> /\ Len(front) = 2
                                   /\ DOMAIN front = {1, 2} /\ front[1] = c /\ front[2] = d
  BY Two
<1>6. calls' = front \o Tail(calls)
  BY <1>3, <1>4, <1>5 DEF WriteUnbuffered
<1>7. \A i \in DOMAIN front : front[i] = c \/ front[i] = d
  BY <1>5
<1>8. ~Runs("flushed", front)
  BY <1>3, <1>4, <1>7 DEF Runs
<1>9. FlushRuns' <=> FlushRuns
  BY <1>1, <1>6, <1>8, Replaced, RunsOr
<1>10. CallInLine(c)'
  BY <1>3, EmptyCall
<1>11. CallInLine(d)'
  <2>1. CallInLine(Top)
    BY <1>1, LineParts
  <2> QED
    BY <1>1, <1>2, <1>4, <1>9, <2>1 DEF CallInLine
<1>12. \A i \in DOMAIN front : CallInLine(front[i])'
  <2> SUFFICES ASSUME NEW i \in DOMAIN front PROVE CallInLine(front[i])'
    OBVIOUS
  <2> QED
    BY <1>7, <1>10, <1>11
<1>13. \A n \in Elements(Top.text) : \E i \in DOMAIN front : n \in Elements(front[i].text)
  BY <1>4, <1>5
<1> QED
  BY <1>1, <1>2, <1>6, <1>8, <1>12, <1>13, SameSent, InsteadLine

LEMMA AppendToLine ==
  ASSUME Sound, Flowing, Flowing', InLine, Kept, AppendTo
  PROVE  InLine' /\ Kept'
<1> DEFINE t == active.text \o Top.text
<1>1. /\ calls # <<>> /\ Top.fn = "body_write" /\ Top.text \in Seq(Nat) /\ body = "b"
      /\ calls[1] = Top /\ 1 \in DOMAIN calls /\ calls \in Seq(Frames)
      /\ DOMAIN calls = 1 .. Len(calls) /\ Len(calls) \in Nat
  BY InIs, TopIs DEF AppendTo, Frames
<1>2. ~torn /\ ~FlushRuns
  BY <1>1 DEF Flowing, Sound, Nesting
<1>3. active.text \in Seq(Nat) /\ active \in Buffers /\ written \in Nat
  BY TypedIs DEF Typed, Buffers
<1>4. UNCHANGED <<level, stack, body, lock, sapi, client, written, dropped>>
  BY DEF AppendTo
<1>5. Len(t) > MaxText => torn'
  BY DEF AppendTo
<1>6. ~(Len(t) > MaxText)
  BY <1>5 DEF Flowing
<1>7. active'.text = t
  BY <1>3 DEF AppendTo, Buffers
<1>8. Elements(active'.text) = Elements(active.text) \cup Elements(Top.text)
  BY <1>1, <1>3, <1>7, ElementsJoin
<1>9. CallInLine(Top) /\ BuffersInLine
  BY <1>1, LineParts
<1>10. Ordered(active'.text)
  BY <1>1, <1>2, <1>3, <1>7, <1>9, OrderedJoin DEF CallInLine, BuffersInLine
<1>11. PICK front \in Seq(Frames) :
          /\ calls' = front \o Tail(calls)
          /\ \A i \in DOMAIN front : front[i].fn = "end" /\ front[i].text = <<>>
  <2>1. CASE active.chunk # 0 /\ Len(t) >= active.chunk
    <3>1. PICK c \in Frames : c = End(TRUE, TRUE) /\ c.fn = "end" /\ c.text = <<>>
      BY EndOf
    <3>2. PICK front \in Seq(Frames) : front = <<c>> /\ DOMAIN front = {1} /\ front[1] = c
      BY One
    <3>3. calls' = front \o Tail(calls)
      BY <1>6, <2>1, <3>1, <3>2 DEF AppendTo
    <3> QED
      BY <3>1, <3>2, <3>3
  <2>2. CASE ~(active.chunk # 0 /\ Len(t) >= active.chunk)
    <3>1. PICK front \in Seq(Frames) : front = <<>> /\ DOMAIN front = {}
      BY None
    <3>2. calls' = front \o Tail(calls)
      BY <1>6, <2>2, <3>1 DEF AppendTo
    <3> QED
      BY <3>1, <3>2
  <2> QED
    BY <2>1, <2>2
<1>12. Goes(calls, calls', front, 1) /\ 1 <= Len(calls) /\ ~FlushRuns'
  <2>1. ~Runs("flushed", front)
    BY <1>11 DEF Runs
  <2>2. Goes(calls, calls', front, 1) /\ (FlushRuns' <=> Outer("flushed"))
    BY <1>1, <1>11, <2>1, Replaced
  <2> QED
    BY <1>1, <1>2, <2>2, RunsOr, TopIs
<1>13. BuffersInLine'
  <2>1. Elements(active'.text) \subseteq 1 .. written'
    BY <1>4, <1>8, <1>9 DEF BuffersInLine, CallInLine
  <2>2. \A i \in DOMAIN stack : Precede(stack[i].text, active'.text)
    BY <1>1, <1>8, <1>9 DEF BuffersInLine, CallInLine, Precede
  <2>3. Precede(client, active'.text)
    BY <1>1, <1>2, <1>8, <1>9 DEF BuffersInLine, CallInLine, Precede
  <2> QED
    BY <1>1, <1>4, <1>9, <1>10, <2>1, <2>2, <2>3 DEF BuffersInLine
<1>14. ASSUME NEW i \in DOMAIN calls', NEW c, c = calls'[i]
       PROVE  CallInLine(c)'
  <2>1. CASE i \in DOMAIN front /\ calls'[i] = front[i]
    BY <1>11, <1>14, <2>1, EmptyCall
  <2>2. ASSUME i > Len(front), i - Len(front) + 1 \in DOMAIN calls, c = calls[i - Len(front) + 1]
        PROVE  CallInLine(c)'
    <3>1. PICK j \in DOMAIN calls : j > 1 /\ c = calls[j]
      <4>1. i - Len(front) + 1 > 1
        BY <1>12, <2>2, LenProperties DEF Goes
      <4> QED
        BY <2>2, <4>1
    <3>2. c.fn = "handler"
      BY <1>1, <1>2, <3>1, TopIs DEF Inside, FlushRuns
    <3>3. CallInLine(c)
      BY <3>1, LineParts
    <3> QED
      BY <1>4, <1>8, <3>2, <3>3 DEF CallInLine
  <2> QED
    BY <1>1, <1>12, <1>14, <2>1, <2>2, CallsOf
<1>15. ASSUME NEW n \in 1 .. written'
       PROVE  Somewhere(n)'
  <2>1. Somewhere(n)
    BY <1>4, KeptIs
  <2>2. CASE n \in Elements(active.text) \/ n \in Elements(Top.text)
    BY <1>8, <1>12, <2>2 DEF Somewhere
  <2>3. CASE n \in Elements(client) \/ n \in dropped \/ \E i \in DOMAIN stack : n \in Elements(stack[i].text)
    BY <1>4, <2>3 DEF Somewhere
  <2>4. CASE \E j \in DOMAIN calls : j > 1 /\ n \in Elements(calls[j].text)
    BY <1>12, <2>4, InFlight DEF Somewhere
  <2>5. \A j \in DOMAIN calls : j = 1 \/ j > 1
    BY <1>1
  <2> QED
    BY <1>1, <2>1, <2>2, <2>3, <2>4, <2>5 DEF Somewhere
<1>16. InLine'
  BY <1>13, <1>14, LineNext
<1> QED
  BY <1>15, <1>16, KeptNext

LEMMA Sends ==
  ASSUME Sound, HeadersSound, Flowing, Flowing', InLine, WriteNoHeader
  PROVE  /\ calls # <<>> /\ Top.fn = "body_write" /\ Top.text \in Seq(Nat) /\ body = "no_header"
         /\ client \in Seq(Nat) /\ CallInLine(Top)
         /\ client' = client \o Top.text /\ calls' = Tail(calls) /\ UNCHANGED sapi
<1>1. calls # <<>> /\ Top.fn = "body_write" /\ Top.text \in Seq(Nat) /\ body = "no_header"
  BY InIs, TopIs DEF WriteNoHeader, Frames
<1>2. ~sapi.disabled /\ ~sapi'.disabled
  BY DEF Flowing
<1>3. ~Aborted(sapi)
  BY <1>2, TypedIs DEF Aborted, Typed
<1>4. CallInLine(Top)
  BY <1>1, TopIs, LineParts
<1> QED
  BY <1>1, <1>2, <1>3, <1>4, TypedIs DEF WriteNoHeader, Typed

LEMMA WriteNoHeaderLine ==
  ASSUME Sound, HeadersSound, Flowing, Flowing', InLine, Kept, WriteNoHeader
  PROVE  InLine' /\ Kept'
<1>1. /\ calls # <<>> /\ Top.fn = "body_write" /\ Top.text \in Seq(Nat) /\ body = "no_header"
      /\ client \in Seq(Nat) /\ CallInLine(Top)
      /\ client' = client \o Top.text /\ calls' = Tail(calls) /\ UNCHANGED sapi
  BY Sends
<1>2. UNCHANGED <<level, active, stack, body, written, dropped>>
  BY DEF WriteNoHeader, buffers
<1>3. BuffersInLine
  BY LineParts
<1>4. ~torn /\ (level > 0 => FlushRuns) /\ (FlushRuns => level = 1)
  BY <1>1, <1>3 DEF BuffersInLine, Flowing, Sound, Nesting
<1>5. DOMAIN stack = {} /\ (level > 0 \/ active.text = <<>>)
  <2>1. level \in Nat /\ (level = 0 \/ level = 1)
    BY <1>4, TypedIs, OutputAssumption DEF Typed, TypeOK
  <2>2. Len(stack) = 0 /\ stack \in Seq(Buffers)
    BY <2>1, TypedIs DEF Typed, TypeOK
  <2> QED
    BY <2>1, <2>2, TypedIs, LenProperties DEF Typed
<1>6. Elements(client') = Elements(client) \cup Elements(Top.text)
  BY <1>1, ElementsJoin
<1>7. PICK front \in Seq(Frames) : front = <<>> /\ DOMAIN front = {} /\ Len(front) = 0
  BY None
<1>8. calls' = front \o Tail(calls)
  BY <1>1, <1>7, TopIs, HeadTailProperties
<1>9. Goes(calls, calls', front, 1) /\ (FlushRuns' <=> FlushRuns)
  <2>1. ~Runs("flushed", front)
    BY <1>7 DEF Runs
  <2> QED
    BY <1>1, <1>8, <2>1, Replaced, RunsOr
<1>10. /\ calls \in Seq(Frames) /\ 1 \in DOMAIN calls /\ calls[1] = Top /\ 1 <= Len(calls)
       /\ \A j \in DOMAIN calls : j = 1 \/ j > 1
  BY <1>1, TopIs
<1>11. BuffersInLine'
  <2>1. FlushRuns' \/ Precede(client', active'.text)
    BY <1>2, <1>4, <1>5, <1>9, NoElements DEF Precede
  <2>2. Elements(client') \subseteq 0 .. written'
    BY <1>1, <1>2, <1>3, <1>6, TypedIs DEF BuffersInLine, CallInLine, Typed
  <2> QED
    BY <1>2, <1>3, <1>5, <1>9, <2>1, <2>2 DEF BuffersInLine
<1>12. ASSUME NEW i \in DOMAIN calls', NEW c, c = calls'[i]
       PROVE  CallInLine(c)'
  <2>1. PICK j \in DOMAIN calls : j > 1 /\ c = calls[j]
    <3>1. i > Len(front) /\ i - Len(front) + 1 \in DOMAIN calls /\ c = calls[i - Len(front) + 1]
      <4>1. \/ i \in DOMAIN front /\ calls'[i] = front[i]
            \/ /\ i > Len(front) /\ i - Len(front) + 1 \in DOMAIN calls
               /\ calls'[i] = calls[i - Len(front) + 1]
        BY <1>9, <1>10, <1>12, CallsOf
      <4> QED
        BY <1>7, <1>12, <4>1
    <3>2. i - Len(front) + 1 > 1
      BY <1>7, <1>9, <3>1, LenProperties DEF Goes
    <3> QED
      BY <3>1, <3>2
  <2>2. c.fn \in {"flushed", "handler"}
    BY <1>1, <1>4, <2>1, TopIs DEF Inside
  <2>3. CallInLine(c)
    BY <2>1, LineParts
  <2> QED
    BY <1>2, <2>2, <2>3 DEF CallInLine
<1>13. ASSUME NEW n \in 1 .. written'
       PROVE  Somewhere(n)'
  <2>1. Somewhere(n)
    BY <1>2, KeptIs
  <2>2. CASE n \in Elements(client) \/ n \in Elements(Top.text)
    BY <1>6, <2>2 DEF Somewhere
  <2>3. CASE \/ n \in dropped \/ \E i \in DOMAIN stack : n \in Elements(stack[i].text)
             \/ ~FlushRuns /\ n \in Elements(active.text)
    BY <1>2, <1>9, <2>3 DEF Somewhere
  <2>4. CASE \E j \in DOMAIN calls : j > 1 /\ n \in Elements(calls[j].text)
    BY <1>9, <1>10, <2>4, InFlight DEF Somewhere
  <2> QED
    BY <1>10, <2>1, <2>2, <2>3, <2>4 DEF Somewhere
<1> QED
  BY <1>11, <1>12, <1>13, LineNext, KeptNext

LEMMA FlushedLine ==
  ASSUME Sound, Flowing, InLine, Kept, Flushed
  PROVE  InLine' /\ Kept'
<1>1. /\ calls # <<>> /\ Top.fn = "flushed" /\ calls \in Seq(Frames) /\ calls[1] = Top
      /\ 1 \in DOMAIN calls /\ Len(calls) \in Nat /\ DOMAIN calls = 1 .. Len(calls) /\ ~torn
  BY InIs, TopIs DEF Flushed, Flowing
<1>2. \A j \in DOMAIN calls : j = 1
  BY <1>1, TopIs DEF Inside
<1>3. Len(calls) = 1
  <2>1. Len(calls) \in DOMAIN calls
    BY <1>1
  <2> QED
    BY <1>2, <2>1
<1>4. DOMAIN calls' = {}
  <2>1. calls' = Tail(calls)
    BY DEF Flushed
  <2>2. Len(calls') = 0 /\ calls' \in Seq(Frames)
    BY <1>1, <1>3, <2>1, HeadTailProperties
  <2> QED
    BY <2>2, LenProperties
<1>5. /\ UNCHANGED <<level, stack, client, written, dropped>> /\ body' = "b"
      /\ active'.text = <<>>
  BY TypedIs DEF Flushed, ghosts, Typed, Buffers
<1>6. FlushRuns /\ Top.text = <<>>
  BY <1>1, StateParts DEF FlushRuns, Sound, CallsTyped, Plain
<1>7. BuffersInLine
  BY LineParts
<1>8. BuffersInLine'
  BY <1>5, <1>7, NoElements DEF BuffersInLine, Precede
<1>9. ASSUME NEW n \in 1 .. written'
      PROVE  Somewhere(n)'
  <2>1. Somewhere(n)
    BY <1>5, KeptIs
  <2>2. ~\E k \in DOMAIN calls : n \in Elements(calls[k].text)
    BY <1>1, <1>2, <1>6, NoElements
  <2> QED
    BY <1>5, <1>6, <2>1, <2>2 DEF Somewhere
<1> QED
  BY <1>4, <1>8, <1>9, LineNext, KeptNext

\* The buffer, alone, is ended or flushed.
LEMMA FinishLine ==
  ASSUME Sound, Flowing, Flowing', InLine, Kept, calls # <<>>, Top.fn \in {"end", "handler"},
         level # 0, NEW text \in Seq(Nat), Finish(Top.send, Top.flush, text),
         ~(Top.flush /\ level > 1), \A j \in DOMAIN calls : j = 1,
         Ordered(text), Elements(text) \subseteq Elements(active.text),
         Elements(Top.text) \subseteq Elements(active.text)
  PROVE  InLine' /\ Kept'
<1>1. /\ calls \in Seq(Frames) /\ calls[1] = Top /\ 1 \in DOMAIN calls /\ Len(calls) \in Nat
      /\ DOMAIN calls = 1 .. Len(calls) /\ Top \in Frames
      /\ Top.send \in BOOLEAN /\ Top.flush \in BOOLEAN
  BY TopIs DEF Frames
<1>2. ~torn /\ ~FlushRuns /\ level > 0 /\ level \in Nat
  BY <1>1, TypedIs, OutputAssumption DEF FlushRuns, Flowing, Typed, TypeOK
<1>3. BuffersInLine /\ body = "b"
  BY <1>2, LineParts DEF BuffersInLine
<1>4. /\ stack \in Seq(Buffers) /\ Len(stack) = IF level > 1 THEN level - 1 ELSE 0
      /\ Len(stack) \in Nat /\ DOMAIN stack = 1 .. Len(stack)
  BY TypedIs, LenProperties DEF Typed, TypeOK
<1>5. PICK front \in Seq(Frames) :
        calls' = front \o Tail(calls) /\ Remains(front, Top.send, Top.flush, text, torn')
  BY <1>1, FinishCalls
<1>6. Goes(calls, calls', front, 1) /\ (FlushRuns' <=> Runs("flushed", front)) /\ 1 <= Len(calls)
  <2>1. ~Outer("flushed")
    BY <1>2, RunsOr
  <2> QED
    BY <1>1, <1>5, <2>1, Replaced, TopIs
<1>7. Runs("flushed", front) => Top.flush
  BY <1>5 DEF Remains
<1>8. UNCHANGED <<client, written>>
      /\ dropped' = dropped \cup {n \in Elements(active.text) : Top.send => n \notin Elements(text)}
  BY DEF Finish
<1>9. ASSUME NEW i \in DOMAIN calls', NEW c, c = calls'[i]
      PROVE  \/ c.fn = "body_write" /\ c.text = text /\ Top.send
             \/ c.fn = "flushed" /\ c.text = <<>>
  <2>1. \/ i \in DOMAIN front /\ calls'[i] = front[i]
        \/ i > Len(front) /\ i - Len(front) + 1 \in DOMAIN calls
    BY <1>1, <1>6, <1>9, CallsOf
  <2>2. ~(i > Len(front) /\ i - Len(front) + 1 \in DOMAIN calls)
    <3> SUFFICES ASSUME i > Len(front), i - Len(front) + 1 \in DOMAIN calls PROVE FALSE
      OBVIOUS
    <3>1. i - Len(front) + 1 = 1 /\ i \in Int /\ Len(front) \in Nat
      BY <1>6, LenProperties DEF Goes
    <3> QED
      BY <3>1
  <2> QED
    BY <1>5, <1>9, <2>1, <2>2 DEF Remains
\* What has been written by the buffer is in line with what is left.
<1>10. Precede(client, text) /\ \A i \in DOMAIN stack : Precede(stack[i].text, text)
  BY <1>2, <1>3 DEF BuffersInLine, Precede
<1>11. Elements(text) \subseteq 1 .. written
  BY <1>3 DEF BuffersInLine
<1>12. Top.send => \A n \in Elements(text) : \E i \in DOMAIN calls' : n \in Elements(calls'[i].text)
  <2> SUFFICES ASSUME Top.send, NEW n \in Elements(text)
               PROVE  \E i \in DOMAIN calls' : n \in Elements(calls'[i].text)
    OBVIOUS
  <2>1. \E i \in DOMAIN front : n \in Elements(front[i].text)
    BY <1>5 DEF Remains
  <2> QED
    BY <1>6, <2>1, InFlight
<1>13. ASSUME NEW n \in 1 .. written'
       PROVE  \/ n \in Elements(client') \/ n \in dropped'
              \/ \E k \in DOMAIN calls' : n \in Elements(calls'[k].text)
              \/ \E i \in DOMAIN stack : n \in Elements(stack[i].text)
  <2>1. Somewhere(n)
    BY <1>8, KeptIs
  <2>2. CASE n \in Elements(active.text)
    BY <1>8, <1>12, <2>2
  <2>3. CASE \E j \in DOMAIN calls : n \in Elements(calls[j].text)
    <3>1. n \in Elements(active.text)
      BY <1>1, <2>3
    <3> QED
      BY <2>2, <3>1
  <2> QED
    BY <1>8, <2>1, <2>2, <2>3 DEF Somewhere
<1>14. CASE Top.flush
  <2>1. UNCHANGED <<level, active, stack>> /\ level = 1 /\ DOMAIN stack = {} /\ body' # "b"
    <3>1. level = 1
      BY <1>2, <1>14
    <3> QED
      BY <1>4, <1>14, <3>1 DEF Finish, Unbuffered
  <2>2. FlushRuns'
    BY <1>5, <1>6, <1>14 DEF Remains
  <2>3. BuffersInLine'
    BY <1>3, <1>8, <2>1, <2>2 DEF BuffersInLine
  <2>4. ASSUME NEW i \in DOMAIN calls', NEW c, c = calls'[i]
        PROVE  CallInLine(c)'
    <3>1. CASE c.fn = "body_write" /\ c.text = text
      BY <1>8, <1>10, <1>11, <2>1, <2>2, <3>1 DEF CallInLine
    <3>2. CASE c.fn = "flushed" /\ c.text = <<>>
      BY <3>2, EmptyCall
    <3> QED
      BY <1>9, <2>4, <3>1, <3>2
  <2>5. Kept'
    BY <1>13, <2>1, KeptNext DEF Somewhere
  <2> QED
    BY <2>3, <2>4, <2>5, LineNext
<1>15. CASE ~Top.flush
  <2>1. ~FlushRuns'
    BY <1>6, <1>7, <1>15
  <2>2. CASE level > 1
    <3> DEFINE m == Len(stack)
    <3>1. /\ m \in DOMAIN stack /\ level' = level - 1 /\ active' = stack[m] /\ body' = "b"
          /\ stack' = SubSeq(stack, 1, m - 1) /\ m \in Nat /\ m >= 1
      BY <1>2, <1>3, <1>4, <1>15, <2>2 DEF Finish
    <3>2. /\ DOMAIN stack' = 1 .. m - 1
          /\ \A i \in DOMAIN stack' : i \in DOMAIN stack /\ i < m /\ stack'[i] = stack[i]
      <4>1. /\ Len(SubSeq(stack, 1, m - 1)) = m - 1 /\ SubSeq(stack, 1, m - 1) \in Seq(Buffers)
            /\ \A i \in 1 .. m - 1 : SubSeq(stack, 1, m - 1)[i] = stack[i]
        BY <1>4, <3>1, SubSeqProperties
      <4>2. DOMAIN stack' = 1 .. m - 1
        BY <3>1, <4>1, LenProperties
      <4> QED
        BY <1>4, <3>1, <4>1, <4>2
    <3> HIDE DEF m
    <3>3. /\ Ordered(active'.text) /\ Elements(active'.text) \subseteq 1 .. written
          /\ Precede(client, active'.text) /\ Precede(active'.text, text)
      BY <1>3, <1>10, <3>1 DEF BuffersInLine
    <3>4. \A i \in DOMAIN stack' :
            /\ Ordered(stack'[i].text) /\ Elements(stack'[i].text) \subseteq 1 .. written
            /\ Precede(client, stack'[i].text) /\ Precede(stack'[i].text, active'.text)
            /\ Precede(stack'[i].text, text)
            /\ \A j \in DOMAIN stack' : i < j => Precede(stack'[i].text, stack'[j].text)
      BY <1>3, <1>10, <3>1, <3>2 DEF BuffersInLine
    <3>5. BuffersInLine'
      BY <1>3, <1>8, <3>1, <3>3, <3>4 DEF BuffersInLine
    <3>6. ASSUME NEW i \in DOMAIN calls', NEW c, c = calls'[i]
          PROVE  CallInLine(c)'
      <4>1. CASE c.fn = "body_write" /\ c.text = text
        BY <1>8, <1>10, <1>11, <3>3, <3>4, <4>1 DEF CallInLine
      <4>2. CASE c.fn = "flushed" /\ c.text = <<>>
        BY <4>2, EmptyCall
      <4> QED
        BY <1>9, <3>6, <4>1, <4>2
    <3>7. ASSUME NEW n \in 1 .. written'
          PROVE  Somewhere(n)'
      <4>1. CASE \E i \in DOMAIN stack : n \in Elements(stack[i].text)
        <5>1. PICK i \in DOMAIN stack : n \in Elements(stack[i].text)
          BY <4>1
        <5>2. CASE i = m
          BY <2>1, <3>1, <5>1, <5>2 DEF Somewhere
        <5>3. CASE i # m
          <6>1. i \in DOMAIN stack' /\ stack'[i] = stack[i]
            BY <1>4, <3>1, <3>2, <5>3 DEF m
          <6> QED
            BY <5>1, <6>1 DEF Somewhere
        <5> QED
          BY <5>2, <5>3
      <4> QED
        BY <1>13, <4>1 DEF Somewhere
    <3> QED
      BY <3>5, <3>6, <3>7, LineNext, KeptNext
  <2>3. CASE ~(level > 1)
    <3>1. level' = 0 /\ active' = Buffer /\ stack' = stack /\ DOMAIN stack = {} /\ level = 1
      <4>1. level = 1
        BY <1>2, <2>3
      <4> QED
        BY <1>4, <1>15, <4>1 DEF Finish
    <3>2. active'.text = <<>>
      BY <3>1 DEF Buffer
    <3>3. BuffersInLine'
      BY <1>3, <1>8, <3>1, <3>2, NoElements DEF BuffersInLine, Precede
    <3>4. ASSUME NEW i \in DOMAIN calls', NEW c, c = calls'[i]
          PROVE  CallInLine(c)'
      <4>1. CASE c.fn = "body_write" /\ c.text = text
        BY <1>8, <1>10, <1>11, <3>1, <3>2, <4>1, NoElements DEF CallInLine, Precede
      <4>2. CASE c.fn = "flushed" /\ c.text = <<>>
        BY <4>2, EmptyCall
      <4> QED
        BY <1>9, <3>4, <4>1, <4>2
    <3>5. Kept'
      BY <1>13, <3>1, KeptNext DEF Somewhere
    <3> QED
      BY <3>3, <3>4, <3>5, LineNext
  <2> QED
    BY <2>2, <2>3
<1> QED
  BY <1>14, <1>15

LEMMA Alone ==
  ASSUME Sound, ~torn, calls # <<>>, Top.fn = "handler" \/ (Top.fn = "end" /\ ~active.handler)
  PROVE  \A j \in DOMAIN calls : j = 1
<1>1. \A j \in DOMAIN calls : j > 1 => Top.fn = "end" /\ calls[j].fn = "handler"
  BY TopIs DEF Inside
<1>2. \A j \in DOMAIN calls : j > 1 => FALSE
  BY <1>1 DEF Sound, Nesting, HandlerRuns
<1> QED
  BY <1>2, TopIs

LEMMA EndBufferLine ==
  ASSUME Sound, Flowing, Flowing', InLine, Kept, EndBuffer
  PROVE  InLine' /\ Kept'
<1>1. /\ calls # <<>> /\ Top.fn = "end" /\ Top.text = <<>> /\ Top \in Frames /\ ~torn /\ ~torn'
  BY InIs, TopIs, StateParts DEF EndBuffer, Sound, CallsTyped, Plain, Flowing
<1>2. BuffersInLine /\ active.text \in Seq(Nat)
  BY LineParts, TypedIs DEF Typed, Buffers
<1>3. CASE level = 0 /\ calls' = Tail(calls) /\ UNCHANGED <<stage, buffers, sapi, ghosts>>
  BY <1>1, <1>3, NoElements, SameSent, ReturnLine DEF buffers, ghosts
<1>4. CASE level # 0 /\ ~active.handler
  <2>1. Finish(Top.send, Top.flush, active.text) /\ torn' = (torn \/ (Top.flush /\ level > 1))
    BY <1>4 DEF EndBuffer
  <2>2. ~(Top.flush /\ level > 1)
    BY <1>1, <2>1
  <2> QED
    BY <1>1, <1>2, <1>4, <2>1, <2>2, Alone, NoElements, FinishLine DEF BuffersInLine
<1>5. CASE /\ level # 0 /\ active.handler
           /\ calls' = <<[Top EXCEPT !.fn = "handler", !.text = active.text]>> \o Tail(calls)
           /\ UNCHANGED <<stage, level, active, stack, body, sapi, client, written, dropped>>
  <2>1. PICK c \in Frames : /\ c = [Top EXCEPT !.fn = "handler", !.text = active.text]
                            /\ c.fn = "handler" /\ c.text = active.text
    <3> DEFINE c == [Top EXCEPT !.fn = "handler", !.text = active.text]
    <3>1. c \in Frames
      BY <1>1, <1>2 DEF Frames
    <3>2. c.fn = "handler" /\ c.text = active.text
      BY <1>1 DEF Frames
    <3> QED
      BY <3>1, <3>2
  <2>2. PICK front \in Seq(Frames) : front = <<c>> /\ DOMAIN front = {1} /\ front[1] = c
    BY One
  <2>3. calls' = front \o Tail(calls)
    BY <1>5, <2>1, <2>2
  <2>4. ~Runs("flushed", front)
    BY <2>1, <2>2 DEF Runs
  <2>5. CallInLine(c)'
    BY <1>2, <1>5, <2>1 DEF CallInLine, BuffersInLine
  <2>6. \A i \in DOMAIN front : CallInLine(front[i])'
    <3> SUFFICES ASSUME NEW i \in DOMAIN front PROVE CallInLine(front[i])'
      OBVIOUS
    <3>1. front[i] = c
      BY <2>2
    <3> QED
      BY <2>5, <3>1
  <2> QED
    BY <1>1, <1>5, <2>3, <2>4, <2>6, NoElements, SameSent, InsteadLine
<1> QED
  BY <1>3, <1>4, <1>5 DEF EndBuffer

LEMMA HandlerReturnsLine ==
  ASSUME Sound, Flowing, Flowing', InLine, Kept, HandlerReturns
  PROVE  InLine' /\ Kept'
<1>1. /\ calls # <<>> /\ Top.fn = "handler" /\ Top \in Frames /\ ~torn /\ ~torn'
      /\ level # 0 /\ torn' = (torn \/ (Top.flush /\ level > 1))
  BY InIs, TopIs DEF HandlerReturns, Flowing
<1>2. PICK text \in {<<>>, Top.text, active.text} : Finish(Top.send, Top.flush, text)
  BY DEF HandlerReturns
<1>3. BuffersInLine /\ CallInLine(Top)
  BY <1>1, LineParts, TopIs
<1>4. text \in Seq(Nat)
  <2>1. <<>> \in Seq(Nat) /\ Top.text \in Seq(Nat)
    BY <1>1 DEF Frames
  <2>2. active.text \in Seq(Nat)
    BY TypedIs DEF Typed, Buffers
  <2> QED
    BY <1>2, <2>1, <2>2
<1>5. /\ Ordered(text) /\ Elements(text) \subseteq Elements(active.text)
      /\ Elements(Top.text) \subseteq Elements(active.text)
  BY <1>1, <1>2, <1>3, NoElements DEF BuffersInLine, CallInLine
<1>6. ~(Top.flush /\ level > 1)
  BY <1>1
<1> QED
  BY <1>1, <1>2, <1>4, <1>5, <1>6, Alone, FinishLine

\* The C stack is not filled, and no buffer is freed twice, unless output is torn.
LEMMA NoCrash ==
  ASSUME Sound, ~torn
  PROVE  ~Crash
<1>1. calls \in Seq(Frames) /\ Len(calls) \in Nat /\ DOMAIN calls = 1 .. Len(calls)
  BY StateParts, LenProperties DEF Sound, CallsTyped
<1>2. ASSUME Len(calls) >= MaxCalls PROVE FALSE
  <2>1. 1 \in DOMAIN calls /\ 2 \in DOMAIN calls /\ 3 \in DOMAIN calls /\ 4 \in DOMAIN calls
    BY <1>1, <1>2, OutputAssumption
  <2>2. /\ Inside(calls[1].fn, calls[2].fn)
        /\ Inside(calls[2].fn, calls[3].fn)
        /\ Inside(calls[3].fn, calls[4].fn)
    BY <2>1 DEF Sound, Nesting
  <2>3. calls[3].fn = "ub"
    BY <2>2 DEF Inside
  <2>4. calls[2].fn = "headers"
    BY <2>2, <2>3 DEF Inside
  <2> QED
    BY <2>2, <2>4 DEF Inside
<1>3. ASSUME In("handler"), level = 0 PROVE FALSE
  <2>1. HandlerRuns
    BY <1>3, InIs, TopIs DEF HandlerRuns
  <2> QED
    BY <1>3, <2>1 DEF Sound, Nesting
<1> QED
  BY <1>2, <1>3 DEF Crash

\* PHP code, or C code that has ended, leaves no text behind that the buffer does not hold.
LEMMA EmptiedLine ==
  ASSUME Sound, InLine, Kept, calls' = <<>>, ~FlushRuns,
         \A k \in DOMAIN calls : calls[k].fn = "handler",
         UNCHANGED <<level, active, stack, body, client, written, dropped>>
  PROVE  InLine' /\ Kept'
<1>1. DOMAIN calls' = {} /\ ~FlushRuns'
  BY DEF FlushRuns
<1>2. BuffersInLine'
  BY <1>1, LineParts DEF BuffersInLine
<1>3. ASSUME NEW n \in 1 .. written'
      PROVE  Somewhere(n)'
  <2>1. Somewhere(n)
    BY KeptIs
  <2>2. (\E k \in DOMAIN calls : n \in Elements(calls[k].text)) => n \in Elements(active.text)
    BY LineParts DEF CallInLine
  <2> QED
    BY <1>1, <2>1, <2>2 DEF Somewhere
<1> QED
  BY <1>1, <1>2, <1>3, LineNext, KeptNext

LEMMA CallLine ==
  ASSUME Sound, InLine, Kept, NEW c \in Frames, c.fn # "flushed", calls' = <<c>> \o calls,
         UNCHANGED <<level, active, stack, body, client, dropped>>, MoreWritten, CallInLine(c)',
         written' # written => written' \in Elements(c.text)
  PROVE  InLine' /\ Kept'
<1>1. PICK front \in Seq(Frames) : /\ front = <<c>> /\ DOMAIN front = {1} /\ front[1] = c
  BY One
<1>2. ~Runs("flushed", front) /\ \A i \in DOMAIN front : front[i] = c
  BY <1>1 DEF Runs
<1>3. Goes(calls, calls', front, 0) /\ (FlushRuns' <=> FlushRuns)
  BY <1>1, <1>2, Pushed
<1>4. \A i \in DOMAIN front : CallInLine(front[i])'
  <2> SUFFICES ASSUME NEW i \in DOMAIN front PROVE CallInLine(front[i])'
    OBVIOUS
  <2> QED
    BY <1>2
<1>5. written' # written => \E i \in DOMAIN front : written' \in Elements(front[i].text)
  BY <1>1
<1>6. PICK k \in {0, 1} : k = 0
  OBVIOUS
<1>7. k <= Len(calls)
  BY <1>6, StateParts, LenProperties DEF Sound, CallsTyped
<1>8. Goes(calls, calls', front, k) /\ k # 1 /\ MoreSent /\ dropped \subseteq dropped'
  BY <1>3, <1>6, SameSent
<1> QED
  BY <1>3, <1>4, <1>5, <1>7, <1>8, MovedLine

LEMMA SameWritten ==
  ASSUME Sound, UNCHANGED written
  PROVE  MoreWritten
  BY TypedIs DEF MoreWritten, Typed

LEMMA EchoLine ==
  ASSUME Sound, InLine, Kept, Echo
  PROVE  InLine' /\ Kept'
<1>1. ~FlushRuns /\ written \in Nat
  BY Callers, TypedIs DEF Echo, Typed
<1>2. PICK c \in Frames : /\ c = Call("body_write", <<written + 1>>) /\ c.fn = "body_write"
                          /\ c.text = <<written + 1>>
  <2>1. PICK text \in Seq(Nat) : text = <<written + 1>>
    <3>1. <<written + 1>> \in Seq(Nat)
      BY <1>1
    <3> QED
      BY <3>1
  <2>2. \E c \in Frames : c = Call("body_write", text) /\ c.fn = "body_write" /\ c.text = text
    BY CallOf DEF Names
  <2> QED
    BY <2>1, <2>2
<1>3. calls' = <<c>> \o calls /\ UNCHANGED <<level, active, stack, body, client, dropped>>
      /\ written' = written + 1
  BY <1>2 DEF Echo, Push, buffers
<1>4. Elements(c.text) = {written + 1} /\ Ordered(c.text)
  BY <1>2, OneElement
<1>5. BuffersInLine
  BY LineParts
<1>6. ~FlushRuns' /\ Precede(client, c.text) /\ Precede(active.text, c.text)
      /\ \A i \in DOMAIN stack : Precede(stack[i].text, c.text)
  <2>1. ~FlushRuns'
    <3>1. PICK front \in Seq(Frames) : /\ front = <<c>> /\ DOMAIN front = {1} /\ front[1] = c
      BY One
    <3> QED
      BY <1>1, <1>2, <1>3, <3>1, Pushed DEF Runs
  <2> QED
    BY <1>1, <1>4, <1>5, <2>1 DEF BuffersInLine, Precede
<1>7. CallInLine(c)'
  <2>1. Elements(c.text) \subseteq 1 .. written'
    BY <1>1, <1>3, <1>4
  <2> QED
    BY <1>2, <1>3, <1>4, <1>6, <2>1 DEF CallInLine
<1>8. MoreWritten
  BY <1>1, <1>3 DEF MoreWritten
<1> QED
  BY <1>2, <1>3, <1>4, <1>7, <1>8, CallLine

LEMMA EndCallsLine ==
  ASSUME Sound, InLine, Kept, EndBuffers \/ EndHeaders \/ \E send \in BOOLEAN : ObEnd(send)
  PROVE  InLine' /\ Kept'
<1>1. UNCHANGED <<level, active, stack, body, client, written, dropped>>
  BY DEF EndBuffers, EndHeaders, ObEnd, buffers, ghosts
<1>2. CASE calls' = calls
  <2>1. FlushRuns' <=> FlushRuns
    BY <1>2 DEF FlushRuns
  <2> QED
    BY <1>1, <1>2, <2>1 DEF InLine, Kept, InStack, InActive, Pending
<1>3. ASSUME NEW c \in Frames, c.text = <<>>, c.fn \in {"end", "headers"}, calls' = <<c>> \o calls
      PROVE  InLine' /\ Kept'
  BY <1>1, <1>3, EmptyCall, SameWritten, CallLine
<1>4. CASE EndHeaders
  <2>1. <<>> \in Seq(Nat) /\ "headers" \in Names
    BY DEF Names
  <2>2. PICK c \in Frames : c = Call("headers", <<>>) /\ c.fn = "headers" /\ c.text = <<>>
    BY <2>1, CallOf
  <2>3. calls' = <<c>> \o calls
    BY <1>4, <2>2 DEF EndHeaders, Push
  <2> QED
    BY <1>3, <2>2, <2>3
<1>5. ASSUME NEW send \in BOOLEAN, Push(End(send, FALSE))
      PROVE  InLine' /\ Kept'
  <2>1. PICK c \in Frames : c = End(send, FALSE) /\ c.fn = "end" /\ c.text = <<>>
    BY EndOf
  <2>2. calls' = <<c>> \o calls
    BY <1>5, <2>1 DEF Push
  <2> QED
    BY <1>3, <2>1, <2>2
<1>6. CASE \E send \in BOOLEAN : ObEnd(send)
  BY <1>5, <1>6 DEF ObEnd
<1>7. CASE EndBuffers
  <2>1. PICK send \in BOOLEAN : send = ~sapi.only
    OBVIOUS
  <2> QED
    BY <1>2, <1>5, <1>7, <2>1 DEF EndBuffers
<1> QED
  BY <1>4, <1>6, <1>7

LEMMA EndsLine ==
  ASSUME Sound, InLine, Kept, Exit \/ EndStage
  PROVE  InLine' /\ Kept'
<1>1. calls' = <<>> /\ UNCHANGED <<level, active, stack, body, client, written, dropped>>
  BY DEF Exit, EndStage, Bailout, buffers, ghosts
<1>2. ~FlushRuns /\ \A k \in DOMAIN calls : calls[k].fn = "handler"
  <2>1. CASE Exit
    BY <2>1, Callers DEF Exit
  <2>2. CASE EndStage
    BY <2>2 DEF EndStage, FlushRuns
  <2> QED
    BY <2>1, <2>2
<1> QED
  BY <1>1, <1>2, EmptiedLine

LEMMA ObStartLine ==
  ASSUME Sound, InLine, Kept, NEW kind \in Kinds, ObStart(kind)
  PROVE  InLine' /\ Kept'
<1>1. /\ ~lock /\ level < MaxLevel /\ level' = level + 1 /\ body' = "b" /\ active'.text = <<>>
      /\ stack' = IF level = 0 THEN <<>> ELSE IF level = 1 THEN <<active>> ELSE Append(stack, active)
      /\ UNCHANGED <<stage, calls, lock, sapi, client, written, dropped, torn>>
  BY DEF ObStart, ghosts
<1>2. calls = <<>>
  <2>1. ~torn /\ \A j \in DOMAIN calls : calls[j].fn = "handler"
    BY Callers DEF ObStart
  <2>2. ~HandlerRuns
    BY <1>1, <2>1 DEF Sound, LockIsHandler
  <2> QED
    BY <2>1, <2>2, TopIs DEF HandlerRuns
<1>3. DOMAIN calls = {} /\ DOMAIN calls' = {} /\ ~FlushRuns /\ ~FlushRuns'
  BY <1>1, <1>2 DEF FlushRuns
<1>4. BuffersInLine
  BY LineParts
<1>5. /\ level \in Nat /\ Len(stack) = IF level > 1 THEN level - 1 ELSE 0
      /\ stack \in Seq(Buffers) /\ active \in Buffers /\ Len(stack) \in Nat
      /\ DOMAIN stack = 1 .. Len(stack)
      /\ level = 0 => active.text = <<>>
  BY TypedIs, LenProperties, OutputAssumption DEF Typed, TypeOK
<1>6. CASE level = 0
  <2>1. DOMAIN stack' = {} /\ DOMAIN stack = {}
    BY <1>1, <1>5, <1>6
  <2>2. BuffersInLine'
    BY <1>1, <1>3, <1>4, <2>1, NoElements DEF BuffersInLine, Precede
  <2>3. ASSUME NEW n \in 1 .. written' PROVE Somewhere(n)'
    BY <1>1, <1>3, <1>5, <1>6, <2>1, NoElements, KeptIs DEF Somewhere
  <2> QED
    BY <1>3, <2>2, <2>3, LineNext, KeptNext
<1>7. CASE level > 0
  <2> DEFINE m == Len(stack)
  <2>1. /\ DOMAIN stack' = 1 .. m + 1 /\ stack'[m + 1] = active
        /\ \A i \in 1 .. m : i \in DOMAIN stack /\ stack'[i] = stack[i]
    <3>1. CASE level = 1
      <4>1. stack' = <<active>> /\ m = 0
        BY <1>1, <1>5, <3>1
      <4> QED
        BY <4>1
    <3>2. CASE level # 1
      <4>1. stack' = Append(stack, active)
        BY <1>1, <1>7, <3>2, <1>5
      <4> QED
        BY <1>5, <4>1, AppendProperties
    <3> QED
      BY <3>1, <3>2
  <2>2. m \in Nat
    BY <1>5
  <2> HIDE DEF m
  <2>3. \A i \in DOMAIN stack' : (i = m + 1 /\ stack'[i] = active)
                                 \/ (i \in DOMAIN stack /\ i < m + 1 /\ stack'[i] = stack[i])
    BY <2>1, <2>2
  <2>4. \A i \in DOMAIN stack' :
          /\ Ordered(stack'[i].text) /\ Elements(stack'[i].text) \subseteq 1 .. written
          /\ Precede(client, stack'[i].text)
    BY <1>3, <1>4, <2>3 DEF BuffersInLine
  <2>5. \A i \in DOMAIN stack' : \A j \in DOMAIN stack' :
          i < j => Precede(stack'[i].text, stack'[j].text)
    <3> SUFFICES ASSUME NEW i \in DOMAIN stack', NEW j \in DOMAIN stack', i < j
                 PROVE  Precede(stack'[i].text, stack'[j].text)
      OBVIOUS
    <3>1. i \in DOMAIN stack /\ stack'[i] = stack[i]
      BY <2>1, <2>2, <2>3
    <3> QED
      BY <1>4, <2>3, <3>1 DEF BuffersInLine
  <2>6. BuffersInLine'
    BY <1>1, <1>3, <1>4, <2>4, <2>5, NoElements DEF BuffersInLine, Precede
  <2>7. ASSUME NEW n \in 1 .. written' PROVE Somewhere(n)'
    <3>1. n \in Elements(client) \/ n \in dropped \/ n \in Elements(active.text)
          \/ \E i \in DOMAIN stack : n \in Elements(stack[i].text)
      BY <1>1, <1>3, KeptIs DEF Somewhere
    <3>2. m + 1 \in DOMAIN stack' /\ \A i \in DOMAIN stack : i \in DOMAIN stack' /\ stack'[i] = stack[i]
      BY <1>5, <2>1, <2>2 DEF m
    <3> QED
      BY <1>1, <2>1, <3>1, <3>2 DEF Somewhere
  <2> QED
    BY <1>3, <2>6, <2>7, LineNext, KeptNext
<1> QED
  BY <1>5, <1>6, <1>7

LEMMA ObStartFailsLine ==
  ASSUME Sound, InLine, Kept, ObStartFails
  PROVE  InLine' /\ Kept'
<1>1. /\ level' = 0 /\ calls' = <<>> /\ stack' = <<>> /\ active'.text = <<>>
      /\ dropped' = dropped \cup ((1 .. written) \ Elements(client)) /\ UNCHANGED <<client, written>>
  BY DEF ObStartFails, Bailout, Buffer
<1>2. DOMAIN calls' = {} /\ DOMAIN stack' = {} /\ ~FlushRuns'
  BY <1>1 DEF FlushRuns
<1>3. BuffersInLine'
  BY <1>1, <1>2, NoElements, LineParts DEF BuffersInLine, Precede
<1>4. ASSUME NEW n \in 1 .. written' PROVE Somewhere(n)'
  BY <1>1 DEF Somewhere
<1> QED
  BY <1>2, <1>3, <1>4, LineNext, KeptNext

LEMMA StartLine ==
  ASSUME Start
  PROVE  InLine' /\ Kept'
<1>1. /\ calls' = <<>> /\ stack' = <<>> /\ active'.text = <<>> /\ client' = <<>> /\ written' = 0
      /\ level' > 0 => body' = "b"
  BY DEF Start, Buffer
<1>2. DOMAIN calls' = {} /\ DOMAIN stack' = {} /\ ~FlushRuns'
  BY <1>1 DEF FlushRuns
<1>3. BuffersInLine'
  BY <1>1, <1>2, NoElements DEF BuffersInLine, Precede
<1>4. ASSUME NEW n \in 1 .. written' PROVE Somewhere(n)'
  BY <1>1
<1> QED
  BY <1>2, <1>3, <1>4, LineNext, KeptNext

\* A client that has gone does not come back within a request, and torn output stays so.
LEMMA Flows ==
  ASSUME Typed, [Next]_vbls, ~Start
  PROVE  /\ torn => torn'
         /\ Flowing' => Flowing
<1>1. torn => torn'
  BY DEF Next, SendHeaders, AfterHeaders, AppendTo, WriteUnbuffered, WriteNoHeader, EndBuffer,
         HandlerReturns, Flushed, Echo, ObStart, ObStartFails, ObEnd, FlushAborted, Exit, Crash,
         EndStage, EndBuffers, EndHeaders, vbls, ghosts
<1>2. \/ sapi' = sapi \/ sapi' = [sapi EXCEPT !.sent = TRUE] \/ sapi' = [sapi EXCEPT !.disabled = TRUE]
      \/ sapi' = [[sapi EXCEPT !.sent = TRUE] EXCEPT !.disabled = TRUE]
  BY DEF Next, SendHeaders, AfterHeaders, AppendTo, WriteUnbuffered, WriteNoHeader, EndBuffer,
         HandlerReturns, Flushed, Echo, ObStart, ObStartFails, ObEnd, FlushAborted, Exit, Crash,
         EndStage, EndBuffers, EndHeaders, vbls, Finish, Aborted
<1>3. (sapi.disabled => sapi'.disabled) /\ sapi'.only = sapi.only
  BY <1>2 DEF Typed
<1> QED
  BY <1>1, <1>3 DEF Flowing

LEMMA LineStep ==
  ASSUME IInv, [Next]_vbls, Flowing'
  PROVE  InLine' /\ Kept'
<1>1. CASE Start
  BY <1>1, StartLine
<1>2. CASE ~Start
  <2>1. Sound /\ HeadersSound /\ Typed
    BY TypedIs DEF IInv, Response, HeadersSound
  <2>2. Flowing /\ ~torn
    BY <1>2, <2>1, Flows DEF Flowing
  <2>3. InLine /\ Kept
    BY <2>2 DEF IInv
  <2>4. CASE UNCHANGED vbls
    BY <2>3, <2>4 DEF vbls, buffers, ghosts, InLine, Kept, InStack, InActive, Pending, FlushRuns
  <2>5. CASE SendHeaders \/ AfterHeaders
    BY <2>1, <2>2, <2>3, <2>5, SendHeadersLine, AfterHeadersLine
  <2>6. CASE AppendTo \/ WriteUnbuffered \/ WriteNoHeader
    BY <2>1, <2>2, <2>3, <2>6, AppendToLine, WriteUnbufferedLine, WriteNoHeaderLine
  <2>7. CASE EndBuffer \/ HandlerReturns \/ Flushed
    BY <2>1, <2>2, <2>3, <2>7, EndBufferLine, HandlerReturnsLine, FlushedLine
  <2>8. CASE Echo \/ Exit \/ EndStage
    BY <2>1, <2>3, <2>8, EchoLine, EndsLine
  <2>9. CASE (\E kind \in Kinds : ObStart(kind)) \/ ObStartFails
    BY <2>1, <2>3, <2>9, ObStartLine, ObStartFailsLine
  <2>10. CASE (\E send \in BOOLEAN : ObEnd(send)) \/ EndBuffers \/ EndHeaders
    BY <2>1, <2>3, <2>10, EndCallsLine
  <2>11. ~Crash
    BY <2>1, <2>2, NoCrash
  <2>12. ~FlushAborted
    BY <2>1 DEF FlushAborted, Flowing, Typed
  <2> QED
    BY <1>2, <2>4, <2>5, <2>6, <2>7, <2>8, <2>9, <2>10, <2>11, <2>12 DEF Next
<1> QED
  BY <1>1, <1>2

\* The client changes in three actions only.
LEMMA ClientChanges ==
  ASSUME [Next]_vbls
  PROVE  client' = client \/ Start \/ SendHeaders \/ WriteNoHeader
  BY DEF Next, AfterHeaders, AppendTo, WriteUnbuffered, EndBuffer, Finish,
         HandlerReturns, Flushed, Echo, ObStart, ObStartFails, ObEnd, FlushAborted, Exit, Crash,
         EndStage, EndBuffers, EndHeaders, vbls, ghosts

LEMMA OrderStep ==
  ASSUME IInv, [Next]_vbls
  PROVE  InOrder'
<1>1. Sound /\ HeadersSound /\ Typed /\ (torn \/ Ordered(client))
  BY TypedIs DEF IInv, Response, HeadersSound, InOrder, Ordered
<1> SUFFICES ASSUME ~torn' PROVE Ordered(client')
  BY DEF InOrder, Ordered
<1>2. CASE Start
  BY <1>2, NoElements DEF Start
<1>3. CASE client' = client /\ ~Start
  BY <1>1, <1>3, Flows
<1>4. CASE SendHeaders /\ client' # client
  <2>1. ~sapi.sent /\ client' = Append(client, 0)
    BY <1>4 DEF SendHeaders
  <2>2. client = <<>>
    BY <1>1, <2>1 DEF HeadersSound, Headers
  <2>3. client' = <<0>>
    BY <2>1, <2>2
  <2> QED
    BY <2>3, OneElement
<1>5. CASE WriteNoHeader /\ client' # client
  <2>1. ~sapi.disabled /\ sapi' = sapi /\ body = "no_header"
    BY <1>5 DEF WriteNoHeader
  <2>2. ~sapi.only /\ ~torn
    BY <1>1, <1>5, <2>1 DEF HeadersSound, Headers, WriteNoHeader
  <2>3. Flowing /\ Flowing'
    BY <2>1, <2>2 DEF Flowing
  <2>4. InLine
    BY <2>3 DEF IInv
  <2>5. Top.text \in Seq(Nat) /\ client \in Seq(Nat) /\ CallInLine(Top)
        /\ client' = client \o Top.text /\ Top.fn = "body_write"
    BY <1>1, <1>5, <2>3, <2>4, Sends
  <2> QED
    BY <1>1, <2>2, <2>5, OrderedJoin DEF CallInLine
<1> QED
  BY <1>2, <1>3, <1>4, <1>5, ClientChanges

(***************************************************************************)
(* The end of the buffers                                                  *)
(***************************************************************************)
\* While the headers are sent at the end of a request, and between requests, nothing is
\* written.
LEMMA OnlyHeaders ==
  ASSUME Sound, stage \in {"headers", "sending", "idle"}, [Next]_vbls
  PROVE  /\ UNCHANGED vbls \/ Start \/ SendHeaders \/ Crash \/ EndStage \/ EndHeaders
         /\ stage = "idle" => calls = <<>>
<1>1. stage \in {"headers", "idle"} => calls = <<>>
  BY StateParts DEF Sound, CallsTyped, Busy
<1>2. calls # <<>> => Top.fn = "headers"
  BY <1>1, TopIs
<1>3. ~Running
  BY <1>2 DEF Running
<1>4. \A fn : In(fn) => fn = "headers"
  BY <1>2, InIs
<1>5. ~(AfterHeaders \/ AppendTo \/ WriteUnbuffered \/ WriteNoHeader)
  BY <1>4 DEF AfterHeaders, AppendTo, WriteUnbuffered, WriteNoHeader
<1>6. ~(EndBuffer \/ HandlerReturns \/ Flushed)
  BY <1>4 DEF EndBuffer, HandlerReturns, Flushed
<1>7. ~(Echo \/ (\E kind \in Kinds : ObStart(kind)) \/ ObStartFails)
  BY <1>3 DEF Echo, ObStart, ObStartFails
<1>8. ~((\E send \in BOOLEAN : ObEnd(send)) \/ FlushAborted \/ Exit)
  BY <1>3 DEF ObEnd, FlushAborted, Exit
<1>9. ~EndBuffers
  BY DEF EndBuffers
<1> QED
  BY <1>1, <1>5, <1>6, <1>7, <1>8, <1>9 DEF Next

LEMMA StageChanges ==
  ASSUME [Next]_vbls, stage' # stage
  PROVE  Start \/ Crash \/ EndHeaders \/ stage' = After(stage)
  BY DEF Next, SendHeaders, AfterHeaders, AppendTo, WriteUnbuffered, WriteNoHeader, EndBuffer,
         HandlerReturns, Flushed, Echo, ObStart, ObStartFails, ObEnd, FlushAborted, Exit,
         EndStage, EndBuffers, vbls, Finish, Aborted, Bailout

\* Only php_end_ob_buffers() itself leaves the buffers, unless a handler is cut off.
LEMMA OnlyEndBuffers ==
  ASSUME Sound, stage = "buffers", stage' # stage, [Next]_vbls, Flowing', ~lock'
  PROVE  EndBuffers \/ Crash
<1>1. Typed
  BY TypedIs
<1>2. Running => HandlerRuns /\ lock
  <2> SUFFICES ASSUME Running PROVE HandlerRuns /\ lock
    OBVIOUS
  <2>1. calls # <<>> /\ Top.fn = "handler" /\ ~torn
    BY DEF Running
  <2>2. HandlerRuns
    BY <2>1, TopIs DEF HandlerRuns
  <2> QED
    BY <2>1, <2>2 DEF Sound, LockIsHandler
<1>3. ~SendHeaders /\ ~WriteNoHeader
  BY <1>1 DEF SendHeaders, WriteNoHeader, Aborted, Flowing, Typed
<1>4. ~AfterHeaders /\ ~AppendTo
  BY DEF AfterHeaders, AppendTo, Flowing
<1>5. ~(WriteUnbuffered \/ EndBuffer \/ HandlerReturns \/ Flushed)
  BY DEF WriteUnbuffered, EndBuffer, HandlerReturns, Flushed, Finish
<1>6. ~(Echo \/ (\E kind \in Kinds : ObStart(kind)) \/ (\E send \in BOOLEAN : ObEnd(send)))
  BY DEF Echo, ObStart, ObEnd
<1>7. ~(ObStartFails \/ FlushAborted \/ Exit)
  <2>1. ObStartFails \/ Exit => Running /\ lock' = lock
    BY DEF ObStartFails, Exit, buffers
  <2>2. FlushAborted => sapi'.disabled
    BY <1>1 DEF FlushAborted, Typed
  <2> QED
    BY <1>2, <2>1, <2>2 DEF Flowing
<1>8. ~(Start \/ EndStage \/ EndHeaders) /\ ~UNCHANGED vbls
  BY DEF Start, EndStage, EndHeaders, vbls
<1> QED
  BY <1>3, <1>4, <1>5, <1>6, <1>7, <1>8 DEF Next

LEMMA DeliveredStep ==
  ASSUME IInv, [Next]_vbls
  PROVE  Delivered'
<1> SUFFICES ASSUME stage' \in {"headers", "sending"}, ~lock', Flowing', NEW n \in 1 .. written'
             PROVE  n \in Elements(client') \/ n \in dropped'
  BY DEF Delivered, Flowing
<1>1. Sound /\ HeadersSound /\ Typed
  BY TypedIs DEF IInv, Response, HeadersSound
<1>2. ~Start /\ ~Crash
  BY DEF Start, Crash
<1>3. Flowing /\ InLine /\ Kept /\ ~torn
  BY <1>1, <1>2, Flows DEF IInv, Flowing
<1>4. CASE stage \in {"headers", "sending"}
  <2>1. UNCHANGED vbls \/ SendHeaders \/ EndStage \/ EndHeaders
    BY <1>1, <1>2, <1>4, OnlyHeaders
  <2>2. UNCHANGED <<dropped, written, lock>>
    BY <2>1 DEF vbls, SendHeaders, EndStage, EndHeaders, buffers, ghosts
  <2>3. MoreSent
    <3>1. CASE UNCHANGED client
      BY <3>1, SameSent
    <3>2. CASE SendHeaders /\ client' # client
      <4>1. ~sapi.sent /\ client' = Append(client, 0)
        BY <3>2 DEF SendHeaders
      <4>2. client = <<>>
        BY <1>1, <4>1 DEF HeadersSound, Headers
      <4>3. client' = <<0>>
        BY <4>1, <4>2
      <4> QED
        BY <4>2, <4>3, NoElements, OneElement DEF MoreSent
    <3> QED
      BY <2>1, <3>1, <3>2 DEF vbls, EndStage, EndHeaders, ghosts
  <2> QED
    BY <1>3, <1>4, <2>2, <2>3 DEF IInv, Delivered, Flowing, MoreSent
<1>5. CASE stage \notin {"headers", "sending"}
  <2>1. stage = "buffers"
    <3>1. ~EndHeaders
      BY <1>5 DEF EndHeaders
    <3>2. stage' = After(stage)
      BY <1>2, <1>5, <3>1, StageChanges
    <3>3. stage # "idle"
      <4> SUFFICES ASSUME stage = "idle" PROVE FALSE
        OBVIOUS
      <4>1. UNCHANGED vbls \/ SendHeaders \/ EndStage \/ EndHeaders
        BY <1>1, <1>2, OnlyHeaders
      <4>2. calls = <<>>
        BY <1>1, OnlyHeaders
      <4>3. ~SendHeaders
        BY <4>2, InIs DEF SendHeaders
      <4> QED
        BY <4>1, <4>3 DEF EndStage, EndHeaders, vbls
    <3> QED
      BY <1>1, <1>5, <3>2, <3>3 DEF Typed, TypeOK, After
  <2>2. EndBuffers
    BY <1>1, <1>2, <2>1, OnlyEndBuffers
  <2>3. level = 0 /\ calls = <<>> /\ UNCHANGED <<client, dropped, written>>
    BY <2>1, <2>2 DEF EndBuffers, ghosts
  <2>4. DOMAIN calls = {} /\ DOMAIN stack = {} /\ active.text = <<>>
    <3>1. Len(stack) = 0 /\ stack \in Seq(Buffers)
      BY <1>1, <2>3 DEF Typed, TypeOK
    <3> QED
      BY <1>1, <2>3, <3>1, LenProperties DEF Typed
  <2> QED
    BY <1>3, <2>3, <2>4, NoElements, KeptIs DEF Somewhere
<1> QED
  BY <1>4, <1>5

LEMMA InvariantInit == Init => IInv
<1> SUFFICES ASSUME Init PROVE IInv
  OBVIOUS
<1>1. /\ stage = "idle" /\ calls = <<>> /\ level = 0 /\ active.text = <<>> /\ stack = <<>>
      /\ client = <<>> /\ written = 0
  BY DEF Init, Buffer
<1>2. DOMAIN calls = {} /\ DOMAIN stack = {}
  BY <1>1
<1>3. BuffersInLine
  BY <1>1, <1>2, NoElements DEF BuffersInLine, Precede
<1>4. InLine
  BY <1>2, <1>3, LineParts
<1>5. Kept
  BY <1>1, KeptIs
<1>6. Response
  BY <1>1, NoElements, HeadersInit DEF Response, HeadersSound, InOrder
<1> QED
  BY <1>1, <1>4, <1>5, <1>6, InitSound, HeadersInit DEF IInv, Delivered, HeadersSound

LEMMA InvariantStep == IInv /\ [Next]_vbls => IInv'
<1> SUFFICES ASSUME IInv, [Next]_vbls PROVE IInv'
  OBVIOUS
<1>1. Sound /\ HeadersSound
  BY DEF IInv, Response, HeadersSound
<1>2. Sound'
  BY <1>1, SoundStep
<1>3. HeadersSound'
  BY <1>1, HeadersStep
<1>4. Flowing' => InLine' /\ Kept'
  BY LineStep
<1> QED
  BY <1>2, <1>3, <1>4, OrderStep, DeliveredStep DEF IInv, Response, HeadersSound

LEMMA InvariantAlways == Spec => []IInv
  BY InvariantInit, InvariantStep, PTL DEF Spec

LEMMA KeptConserved == Sound /\ (Flowing => Kept) => Conserved
<1> SUFFICES ASSUME Sound, Flowing => Kept, ~(torn \/ sapi.disabled \/ sapi.only),
                    NEW n \in 1 .. written
             PROVE  n \in Elements(client) \/ n \in dropped \/ n \in Held \/ n \in Pending
  BY DEF Conserved
<1>1. Somewhere(n)
  BY KeptIs DEF Flowing
<1>2. (\E k \in DOMAIN calls : n \in Elements(calls[k].text)) => n \in Pending
  BY DEF Pending
<1>3. (\E i \in DOMAIN stack : n \in Elements(stack[i].text)) => n \in Held
  BY DEF Held
<1>4. n \in Elements(active.text) => n \in Held
  <2> SUFFICES ASSUME n \in Elements(active.text) PROVE n \in Held
    OBVIOUS
  <2>1. level > 0
    <3>1. level = 0 => active.text = <<>>
      BY TypedIs DEF Typed
    <3> QED
      BY <3>1, NoElements, TypedIs, OutputAssumption DEF Typed, TypeOK
  <2> QED
    BY <2>1 DEF Held
<1> QED
  BY <1>1, <1>2, <1>3, <1>4 DEF Somewhere

\* In every request, the client gets the headers once and first, and then the writes, none
\* twice and none before an earlier one, through any nesting of buffers, chunks, flushes and
\* handlers and wherever the code is cut off; and the client of a HEAD request gets no body.
THEOREM ResponseInOrder == Spec => []Response
<1>1. IInv => Response
  BY DEF IInv
<1> QED
  BY <1>1, InvariantAlways, PTL

\* No write disappears on the way through the buffers, and when php_end_ob_buffers() has ended
\* them all has been sent that was not cleaned, replaced or cut off.
THEOREM NoWriteLost == Spec => []NothingLost
<1>1. IInv => NothingLost
  BY KeptConserved DEF IInv, NothingLost
<1> QED
  BY <1>1, InvariantAlways, PTL

=============================================================================
