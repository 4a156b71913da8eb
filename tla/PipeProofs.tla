----------------------------- MODULE PipeProofs ------------------------------
(***************************************************************************)
(* What is proved of CockpitPipe, for every kind of pipe and any number of *)
(* blocks: the order of its signals, what its sources say of its state,    *)
(* that a pipe which closes without a problem has written all it was       *)
(* given, and that the bytes written and then those queued are the ones    *)
(* given.  For all but the last the queue matters only as empty or not.    *)
(***************************************************************************)
EXTENDS Pipe, SequenceTheorems, NaturalsInduction, WellFoundedInduction, TLAPS

Fields == {"in_fd", "out_fd", "in_source", "out_source", "err_source", "child",
           "connecting", "out_queue", "out_partial", "closing", "closed",
           "problem", "later", "signals", "foreign"}

Signal == {"read", "eof", "close"}

\* A record with the fields of a pipe, and the types of those that matter.
Shape(q) ==
  /\ DOMAIN q = Fields
  /\ q.in_source \in BOOLEAN /\ q.err_source \in BOOLEAN
  /\ q.child \in BOOLEAN /\ q.closing \in BOOLEAN /\ q.closed \in BOOLEAN
  /\ q.problem \in BOOLEAN /\ q.later \in BOOLEAN
  /\ q.signals \in Seq(Signal)

Has(s, x) == \E i \in 1 .. Len(s) : s[i] = x

Ordered(s) ==
  \A i, j \in 1 .. Len(s) :
    i < j => s[i] # "close" /\ (s[i] = "eof" => s[j] = "close")

\* What the signals so far say of the pipe.
Signals(q) ==
  /\ Ordered(q.signals)
  /\ Has(q.signals, "close") <=> q.closed /\ ~q.child
  /\ Has(q.signals, "eof") => ~q.in_source

\* What its sources, descriptors and queue say, for a pipe of kind k.
Sources(q, k) ==
  /\ q.closed => ~q.in_source /\ q.out_source = "none" /\ ~q.err_source
  /\ q.later => k = "failed"
  /\ k = "failed" => q.problem
  /\ q.out_fd = NoFd => q.closing \/ q.closed \/ k = "failed"
  /\ q.out_queue # <<>> /\ ~q.closed /\ k # "failed" => q.out_source # "none"
  /\ q.closed /\ ~q.problem => q.out_queue = <<>>

Good(q, k) == Shape(q) /\ Signals(q) /\ Sources(q, k)

IInv == Good(pipe, kind) /\ (disposed => pipe.closed)

-----------------------------------------------------------------------------
(* Sequences of signals. *)

\* What has been emitted after one more signal.
LEMMA AppendHas ==
  ASSUME NEW s \in Seq(Signal), NEW x \in Signal, NEW y
  PROVE  Has(Append(s, x), y) <=> Has(s, y) \/ x = y
<1>1. Len(Append(s, x)) = Len(s) + 1 /\ Len(s) \in Nat
  OBVIOUS
<1>2. \A i \in 1 .. Len(s) : Append(s, x)[i] = s[i]
  OBVIOUS
<1>3. Append(s, x)[Len(s) + 1] = x
  OBVIOUS
<1>4. \A i \in 1 .. Len(s) + 1 : i \in 1 .. Len(s) \/ i = Len(s) + 1
  BY <1>1
<1>5. \A i \in 1 .. Len(s) : i \in 1 .. Len(s) + 1
  BY <1>1
<1>6. Len(s) + 1 \in 1 .. Len(s) + 1
  BY <1>1
<1> QED
  BY <1>1, <1>2, <1>3, <1>4, <1>5, <1>6 DEF Has

\* One more signal, before any "close", and after "eof" only a "close".
LEMMA AppendOrdered ==
  ASSUME NEW s \in Seq(Signal), NEW x \in Signal,
         Ordered(s), ~Has(s, "close"), Has(s, "eof") => x = "close"
  PROVE  Ordered(Append(s, x))
<1>1. Len(Append(s, x)) = Len(s) + 1 /\ Len(s) \in Nat
  OBVIOUS
<1>2. \A i \in 1 .. Len(s) : Append(s, x)[i] = s[i]
  OBVIOUS
<1>3. Append(s, x)[Len(s) + 1] = x
  OBVIOUS
<1> DEFINE t == Append(s, x)
<1> HIDE DEF t
<1>4. ASSUME NEW i \in 1 .. Len(s) + 1, NEW j \in 1 .. Len(s) + 1, i < j
      PROVE  t[i] # "close" /\ (t[i] = "eof" => t[j] = "close")
  <2>1. i \in 1 .. Len(s)
    BY <1>1, <1>4
  <2>2. t[i] = s[i]
    BY <1>2, <2>1 DEF t
  <2>3. CASE j \in 1 .. Len(s)
    BY <1>2, <1>4, <2>1, <2>2, <2>3 DEF Ordered, t
  <2>4. CASE j = Len(s) + 1
    BY <1>3, <2>1, <2>2, <2>4 DEF Has, t
  <2> QED
    BY <1>1, <2>3, <2>4
<1> QED
  BY <1>1, <1>4 DEF Ordered, t

\* Nothing emitted yet.
LEMMA NoSignals == Ordered(<<>>) /\ \A x : ~Has(<<>>, x)
<1>1. Len(<<>>) = 0
  OBVIOUS
<1> QED
  BY <1>1 DEF Ordered, Has

-----------------------------------------------------------------------------
\* A new pipe is good.
LEMMA InitGood == Init => IInv
<1> SUFFICES ASSUME Init PROVE IInv
  OBVIOUS
<1> DEFINE q == NewPipe(kind)
<1>1. DOMAIN q = Fields
  BY DEF NewPipe, Fields
<1>2. /\ q.in_source = (kind # "failed") /\ q.err_source = (kind = "spawn")
      /\ q.child = (kind \in {"pair", "spawn", "pty"})
      /\ q.closing = FALSE /\ q.closed = FALSE
      /\ q.problem = (kind = "failed") /\ q.later = (kind = "failed")
  BY DEF NewPipe
<1>3. q.signals = <<>> /\ q.out_queue = <<>>
  BY DEF NewPipe
<1>4. q.out_fd = NoFd => kind = "failed"
  BY DEF NewPipe, NoFd
<1>5. pipe = q /\ disposed = FALSE
  BY DEF Init
<1> HIDE DEF q
<1>6. Shape(q)
  <2>1. q.signals \in Seq(Signal)
    BY <1>3
  <2>2. /\ q.in_source \in BOOLEAN /\ q.err_source \in BOOLEAN
        /\ q.child \in BOOLEAN /\ q.problem \in BOOLEAN /\ q.later \in BOOLEAN
    BY DEF q, NewPipe
  <2> QED
    BY <1>1, <1>2, <2>1, <2>2 DEF Shape
<1>7. Signals(q)
  BY <1>2, <1>3, NoSignals DEF Signals
<1>8. Sources(q, kind)
  BY <1>2, <1>3, <1>4 DEF Sources
<1> QED
  BY <1>5, <1>6, <1>7, <1>8 DEF IInv, Good

-----------------------------------------------------------------------------
(* The operations on a pipe. *)

\* close_immediately keeps a pipe good, if it has a problem or no output left.
LEMMA CloseImmediatelyGood ==
  ASSUME NEW q, NEW k, NEW b \in BOOLEAN, Good(q, k),
         b \/ q.problem \/ q.out_queue = <<>>,
         NEW r, r = CloseImmediately(q, b)
  PROVE  Good(r, k) /\ r.closed /\ r.out_queue = q.out_queue
<1>1. CASE q.closed
  BY <1>1 DEF CloseImmediately
<1>2. CASE ~q.closed
  <2>1. /\ DOMAIN r = Fields
        /\ r.closed = TRUE
        /\ r.problem = (q.problem \/ b)
        /\ r.in_source = FALSE /\ r.out_source = "none" /\ r.err_source = FALSE
        /\ r.signals = IF q.child THEN q.signals ELSE Append(q.signals, "close")
        /\ r.child = q.child /\ r.closing = q.closing /\ r.later = q.later
        /\ r.out_queue = q.out_queue
    <3> USE <1>2 DEF CloseImmediately, Good, Shape, Fields
    <3>1. DOMAIN r = Fields
      OBVIOUS
    <3>2. r.closed = TRUE
      OBVIOUS
    <3>3. r.problem = (q.problem \/ b)
      OBVIOUS
    <3>4. r.in_source = FALSE /\ r.out_source = "none" /\ r.err_source = FALSE
      OBVIOUS
    <3>5. r.signals = IF q.child THEN q.signals ELSE Append(q.signals, "close")
      OBVIOUS
    <3>6. /\ r.child = q.child /\ r.closing = q.closing /\ r.later = q.later
          /\ r.out_queue = q.out_queue
      OBVIOUS
    <3> HIDE DEF CloseImmediately, Good, Shape, Fields
    <3> QED
      BY <3>1, <3>2, <3>3, <3>4, <3>5, <3>6
  <2>2. Shape(r)
    <3>1. r.signals \in Seq(Signal)
      BY <2>1 DEF Good, Shape, Signal
    <3> QED
      BY <2>1, <3>1 DEF Good, Shape
  <2>3. Signals(r)
    <3>1. CASE q.child
      BY <1>2, <2>1, <3>1 DEF Good, Shape, Signals
    <3>2. CASE ~q.child
      <4>1. q.signals \in Seq(Signal) /\ "close" \in Signal
        BY DEF Good, Shape, Signal
      <4>2. ~Has(q.signals, "close")
        BY <1>2 DEF Good, Signals
      <4>3. Ordered(r.signals) /\ Has(r.signals, "close")
        BY <2>1, <3>2, <4>1, <4>2, AppendHas, AppendOrdered DEF Good, Signals
      <4> QED
        BY <2>1, <3>2, <4>3 DEF Signals
    <3> QED
      BY <3>1, <3>2
  <2>4. Sources(r, k)
    BY <2>1 DEF Good, Shape, Sources
  <2> QED
    BY <2>1, <2>2, <2>3, <2>4 DEF Good
<1> QED
  BY <1>1, <1>2 DEF Good, Shape

\* close_maybe keeps a pipe good.
LEMMA CloseMaybeGood ==
  ASSUME NEW q, NEW k, Good(q, k), NEW r, r = CloseMaybe(q)
  PROVE  Good(r, k) /\ r.out_queue = q.out_queue
<1>1. CASE ~q.in_source /\ q.out_source = "none" /\ ~q.err_source
  <2>1. r = CloseImmediately(q, FALSE)
    BY <1>1 DEF CloseMaybe
  <2>2. CASE q.closed
    BY <2>1, <2>2 DEF CloseImmediately
  <2>3. CASE ~q.closed
    <3>1. q.problem \/ q.out_queue = <<>>
      BY <1>1, <2>3 DEF Good, Sources
    <3> QED
      BY <2>1, <3>1, CloseImmediatelyGood
  <2> QED
    BY <2>2, <2>3 DEF Good, Shape
<1>2. CASE ~(~q.in_source /\ q.out_source = "none" /\ ~q.err_source)
  BY <1>2 DEF CloseMaybe
<1> QED
  BY <1>1, <1>2

\* close_output keeps a closing pipe good whose queue is empty.
LEMMA CloseOutputGood ==
  ASSUME NEW q, Good(q, kind), q.closing, q.out_queue = <<>>,
         NEW r \in CloseOutput(q)
  PROVE  Good(r, kind)
<1> DEFINE s == [q EXCEPT !.out_fd = NoFd,
                          !.in_fd = IF q.in_fd = q.out_fd THEN NoFd ELSE @,
                          !.in_source = @ /\ q.in_fd # q.out_fd]
<1>1. r = CloseMaybe(q) \/ r = CloseImmediately(q, TRUE) \/ r = CloseMaybe(s)
  BY DEF CloseOutput
<1>2. /\ DOMAIN s = Fields
      /\ s.out_fd = NoFd /\ s.out_source = q.out_source
      /\ s.err_source = q.err_source /\ s.child = q.child
      /\ s.out_queue = q.out_queue /\ s.closing = q.closing
      /\ s.closed = q.closed /\ s.problem = q.problem /\ s.later = q.later
      /\ s.signals = q.signals
  BY DEF Good, Shape, Fields
<1>3. s.in_source \in BOOLEAN /\ (s.in_source => q.in_source)
  BY DEF Good, Shape, Fields
<1> HIDE DEF s
<1>4. Shape(s)
  BY <1>2, <1>3 DEF Good, Shape
<1>5. Signals(s)
  BY <1>2, <1>3 DEF Good, Signals
<1>6. Sources(s, kind)
  BY <1>2, <1>3 DEF Good, Sources
<1>7. Good(s, kind)
  BY <1>4, <1>5, <1>6 DEF Good
<1>8. ASSUME r = CloseMaybe(q) PROVE Good(r, kind)
  BY <1>8, CloseMaybeGood
<1>9. ASSUME r = CloseImmediately(q, TRUE) PROVE Good(r, kind)
  BY <1>9, CloseImmediatelyGood
<1>10. ASSUME r = CloseMaybe(s) PROVE Good(r, kind)
  BY <1>7, <1>10, CloseMaybeGood
<1> QED
  BY <1>1, <1>8, <1>9, <1>10

-----------------------------------------------------------------------------
(* One lemma per group of actions: each keeps the pipe good. *)

\* cockpit_pipe_write starts a stopped output, unless it has no descriptor,
\* which only a closing, closed or failed pipe lacks.
LEMMA WriteGood ==
  ASSUME IInv, NEW len, Write(len) PROVE IInv'
<1>1. /\ DOMAIN pipe' = Fields
      /\ pipe'.in_source = pipe.in_source /\ pipe'.err_source = pipe.err_source
      /\ pipe'.child = pipe.child /\ pipe'.closing = pipe.closing
      /\ pipe'.closed = pipe.closed /\ pipe'.problem = pipe.problem
      /\ pipe'.later = pipe.later /\ pipe'.signals = pipe.signals
      /\ pipe'.out_fd = pipe.out_fd
      /\ pipe'.out_source = IF pipe.out_source = "none" /\ pipe.out_fd # NoFd
                              THEN "on" ELSE pipe.out_source
  BY DEF Write, IInv, Good, Shape, Fields
<1>2. ~pipe.closed /\ ~pipe.closing /\ ~disposed
  BY DEF Write, MayCall
<1>3. kind' = kind /\ disposed' = disposed
  BY DEF Write
<1>4. Shape(pipe')
  BY <1>1 DEF IInv, Good, Shape
<1>5. Signals(pipe')
  BY <1>1 DEF IInv, Good, Signals
<1>6. Sources(pipe', kind)
  BY <1>1, <1>2 DEF IInv, Good, Sources
<1> QED
  BY <1>2, <1>3, <1>4, <1>5, <1>6 DEF IInv, Good

\* cockpit_pipe_close
LEMMA CloseGood ==
  ASSUME IInv, CloseProblem \/ CloseOrderly PROVE IInv'
<1> DEFINE q == [pipe EXCEPT !.closing = TRUE]
<1>1. kind' = kind /\ disposed' = disposed /\ ~disposed
  BY DEF CloseProblem, CloseOrderly, MayCall
<1>2. \/ pipe' = CloseImmediately(q, TRUE)
      \/ q.out_queue = <<>> /\ pipe' \in CloseOutput(q)
      \/ pipe' = q
  BY DEF CloseProblem, CloseOrderly
<1>3. /\ DOMAIN q = Fields
      /\ q.in_source = pipe.in_source /\ q.out_source = pipe.out_source
      /\ q.err_source = pipe.err_source /\ q.child = pipe.child
      /\ q.out_fd = pipe.out_fd /\ q.out_queue = pipe.out_queue
      /\ q.closing = TRUE /\ q.closed = pipe.closed /\ q.problem = pipe.problem
      /\ q.later = pipe.later /\ q.signals = pipe.signals
  BY DEF IInv, Good, Shape, Fields
<1> HIDE DEF q
<1>4. Shape(q)
  BY <1>3 DEF IInv, Good, Shape
<1>5. Signals(q)
  BY <1>3 DEF IInv, Good, Signals
<1>6. Sources(q, kind)
  BY <1>3 DEF IInv, Good, Sources
<1>7. Good(q, kind)
  BY <1>4, <1>5, <1>6 DEF Good
<1>8. ASSUME pipe' = CloseImmediately(q, TRUE) PROVE Good(pipe', kind)
  BY <1>7, <1>8, CloseImmediatelyGood
<1>9. ASSUME q.out_queue = <<>>, pipe' \in CloseOutput(q) PROVE Good(pipe', kind)
  BY <1>3, <1>7, <1>9, CloseOutputGood
<1>10. Good(pipe', kind)
  BY <1>2, <1>7, <1>8, <1>9
<1> QED
  BY <1>1, <1>10 DEF IInv

\* cockpit_pipe_dispose
LEMMA DisposeGood ==
  ASSUME IInv, Dispose PROVE IInv'
<1> DEFINE q == CloseImmediately(pipe, TRUE)
<1>1. Good(q, kind) /\ q.closed
  BY CloseImmediatelyGood DEF IInv
<1>2. kind' = kind /\ pipe' = [q EXCEPT !.out_queue = <<>>]
  BY DEF Dispose
<1> HIDE DEF q
<1>3. /\ DOMAIN pipe' = Fields
      /\ pipe'.in_source = q.in_source /\ pipe'.out_source = q.out_source
      /\ pipe'.err_source = q.err_source /\ pipe'.child = q.child
      /\ pipe'.out_fd = q.out_fd /\ pipe'.out_queue = <<>>
      /\ pipe'.closing = q.closing /\ pipe'.closed = q.closed
      /\ pipe'.problem = q.problem
      /\ pipe'.later = q.later /\ pipe'.signals = q.signals
  BY <1>1, <1>2 DEF Good, Shape, Fields
<1>4. Shape(pipe')
  BY <1>1, <1>3 DEF Good, Shape
<1>5. Signals(pipe')
  BY <1>1, <1>3 DEF Good, Signals
<1>6. Sources(pipe', kind)
  BY <1>1, <1>3 DEF Good, Sources
<1> QED
  BY <1>1, <1>2, <1>3, <1>4, <1>5, <1>6 DEF IInv, Good

\* dispatch_input up to the emission of "read", which is for data
LEMMA InputDataGood ==
  ASSUME IInv, InputData PROVE IInv'
<1>1. /\ DOMAIN pipe' = Fields
      /\ pipe'.signals = Append(pipe.signals, "read")
      /\ pipe'.in_source = pipe.in_source /\ pipe'.out_source = pipe.out_source
      /\ pipe'.err_source = pipe.err_source /\ pipe'.child = pipe.child
      /\ pipe'.out_fd = pipe.out_fd /\ pipe'.out_queue = pipe.out_queue
      /\ pipe'.closing = pipe.closing /\ pipe'.closed = pipe.closed
      /\ pipe'.problem = pipe.problem /\ pipe'.later = pipe.later
  BY DEF InputData, IInv, Good, Shape, Fields
<1>2. kind' = kind /\ disposed' = disposed /\ ~disposed /\ pipe.in_source
  BY DEF InputData, InLoop
<1>3. pipe.signals \in Seq(Signal) /\ "read" \in Signal
  BY DEF IInv, Good, Shape, Signal
<1>4. ~Has(pipe.signals, "close") /\ ~Has(pipe.signals, "eof")
  BY <1>2 DEF IInv, Good, Signals, Sources
<1>5. pipe'.signals \in Seq(Signal)
  BY <1>1, <1>3
<1>6. Shape(pipe')
  BY <1>1, <1>5 DEF IInv, Good, Shape
<1>7. /\ Ordered(pipe'.signals)
      /\ ~Has(pipe'.signals, "close") /\ ~Has(pipe'.signals, "eof")
  BY <1>1, <1>3, <1>4, AppendHas, AppendOrdered DEF IInv, Good, Signals
<1>8. ~pipe.closed
  BY <1>2 DEF IInv, Good, Sources
<1>9. Signals(pipe')
  BY <1>1, <1>7, <1>8 DEF Signals
<1>10. Sources(pipe', kind)
  BY <1>1 DEF IInv, Good, Sources
<1> QED
  BY <1>2, <1>6, <1>9, <1>10 DEF IInv, Good

\* dispatch_input up to the emission of "read", which is for the end
LEMMA InputEndGood ==
  ASSUME IInv, InputEnd PROVE IInv'
<1>1. /\ DOMAIN pipe' = Fields
      /\ pipe'.signals = Append(pipe.signals, "eof")
      /\ pipe'.in_source = FALSE
      /\ pipe'.out_source = pipe.out_source /\ pipe'.err_source = pipe.err_source
      /\ pipe'.child = pipe.child /\ pipe'.out_fd = pipe.out_fd
      /\ pipe'.out_queue = pipe.out_queue /\ pipe'.closing = pipe.closing
      /\ pipe'.closed = pipe.closed /\ pipe'.problem = pipe.problem
      /\ pipe'.later = pipe.later
  BY DEF InputEnd, IInv, Good, Shape, Fields
<1>2. kind' = kind /\ disposed' = disposed /\ ~disposed /\ pipe.in_source
  BY DEF InputEnd, InLoop
<1>3. pipe.signals \in Seq(Signal) /\ "eof" \in Signal
  BY DEF IInv, Good, Shape, Signal
<1>4. ~Has(pipe.signals, "close") /\ ~Has(pipe.signals, "eof")
  BY <1>2 DEF IInv, Good, Signals, Sources
<1>5. pipe'.signals \in Seq(Signal)
  BY <1>1, <1>3
<1>6. Shape(pipe')
  BY <1>1, <1>5 DEF IInv, Good, Shape
<1>7. Ordered(pipe'.signals) /\ ~Has(pipe'.signals, "close")
  BY <1>1, <1>3, <1>4, AppendHas, AppendOrdered DEF IInv, Good, Signals
<1>8. ~pipe.closed
  BY <1>2 DEF IInv, Good, Sources
<1>9. Signals(pipe')
  BY <1>1, <1>7, <1>8 DEF Signals
<1>10. Sources(pipe', kind)
  BY <1>1 DEF IInv, Good, Sources
<1> QED
  BY <1>2, <1>6, <1>9, <1>10 DEF IInv, Good

\* dispatch_input that fails, and the rest of it after "read"
LEMMA InputOverGood ==
  ASSUME IInv, InputFails \/ ReadReturn PROVE IInv'
<1>1. kind' = kind /\ disposed' = disposed /\ ~disposed
  BY DEF InputFails, ReadReturn, InLoop
<1>2. \/ pipe' = CloseImmediately(pipe, TRUE)
      \/ pipe' = CloseMaybe(pipe)
      \/ pipe' = pipe
  BY DEF InputFails, ReadReturn
<1>3. Good(pipe', kind)
  BY <1>2, CloseImmediatelyGood, CloseMaybeGood DEF IInv
<1> QED
  BY <1>1, <1>3 DEF IInv

\* dispatch_error
LEMMA ErrorEndGood ==
  ASSUME IInv, ErrorEnd PROVE IInv'
<1> DEFINE q == [pipe EXCEPT !.err_source = FALSE]
<1>1. kind' = kind /\ disposed' = disposed /\ ~disposed
  BY DEF ErrorEnd, InLoop
<1>2. pipe' = CloseImmediately(pipe, TRUE) \/ pipe' = CloseMaybe(q)
  BY DEF ErrorEnd
<1>3. /\ DOMAIN q = Fields
      /\ q.err_source = FALSE
      /\ q.in_source = pipe.in_source /\ q.out_source = pipe.out_source
      /\ q.child = pipe.child /\ q.out_fd = pipe.out_fd
      /\ q.out_queue = pipe.out_queue /\ q.closing = pipe.closing
      /\ q.closed = pipe.closed /\ q.problem = pipe.problem
      /\ q.later = pipe.later /\ q.signals = pipe.signals
  BY DEF IInv, Good, Shape, Fields
<1> HIDE DEF q
<1>4. Shape(q)
  BY <1>3 DEF IInv, Good, Shape
<1>5. Signals(q)
  BY <1>3 DEF IInv, Good, Signals
<1>6. Sources(q, kind)
  BY <1>3 DEF IInv, Good, Sources
<1>7. Good(q, kind)
  BY <1>4, <1>5, <1>6 DEF Good
<1>8. ASSUME pipe' = CloseImmediately(pipe, TRUE) PROVE Good(pipe', kind)
  BY <1>8, CloseImmediatelyGood DEF IInv
<1>9. ASSUME pipe' = CloseMaybe(q) PROVE Good(pipe', kind)
  BY <1>7, <1>9, CloseMaybeGood
<1> QED
  BY <1>1, <1>2, <1>8, <1>9 DEF IInv

\* dispatch_output that writes: whatever is left of the queue, the source
\* stays unless nothing is.
LEMMA OutputWritesGood ==
  ASSUME IInv, NEW n, OutputWrites(n) PROVE IInv'
<1>1. kind' = kind /\ disposed' = disposed /\ ~disposed /\ pipe.out_source = "on"
  BY DEF OutputWrites, InLoop
<1>2. PICK c : pipe' \in OutputDone([Account(pipe, n) EXCEPT !.connecting = c])
  BY DEF OutputWrites
<1> DEFINE q == [Account(pipe, n) EXCEPT !.connecting = c]
           s == [q EXCEPT !.out_source = "none"]
<1>3. /\ DOMAIN q = Fields
      /\ q.in_source = pipe.in_source /\ q.out_source = pipe.out_source
      /\ q.err_source = pipe.err_source /\ q.child = pipe.child
      /\ q.out_fd = pipe.out_fd /\ q.closing = pipe.closing
      /\ q.closed = pipe.closed /\ q.problem = pipe.problem
      /\ q.later = pipe.later /\ q.signals = pipe.signals
  BY DEF IInv, Good, Shape, Fields, Account
<1> HIDE DEF q
<1>4. ~pipe.closed
  BY <1>1 DEF IInv, Good, Sources
<1>5. Good(q, kind)
  <2>1. Shape(q)
    BY <1>3 DEF IInv, Good, Shape
  <2>2. Signals(q)
    BY <1>3 DEF IInv, Good, Signals
  <2>3. Sources(q, kind)
    BY <1>1, <1>3, <1>4 DEF IInv, Good, Sources
  <2> QED
    BY <2>1, <2>2, <2>3 DEF Good
<1>6. \/ pipe' = q
      \/ q.out_queue = <<>> /\ s.closing /\ pipe' \in CloseOutput(s)
      \/ q.out_queue = <<>> /\ pipe' = CloseMaybe(s)
  BY <1>2 DEF OutputDone, q
<1>7. /\ DOMAIN s = Fields
      /\ s.out_source = "none"
      /\ s.in_source = q.in_source /\ s.err_source = q.err_source
      /\ s.child = q.child /\ s.out_fd = q.out_fd
      /\ s.out_queue = q.out_queue /\ s.closing = q.closing
      /\ s.closed = q.closed /\ s.problem = q.problem
      /\ s.later = q.later /\ s.signals = q.signals
  BY <1>5 DEF Good, Shape, Fields
<1> HIDE DEF s
<1>8. ASSUME q.out_queue = <<>> PROVE Good(s, kind)
  <2>1. Shape(s)
    BY <1>5, <1>7 DEF Good, Shape
  <2>2. Signals(s)
    BY <1>5, <1>7 DEF Good, Signals
  <2>3. Sources(s, kind)
    BY <1>5, <1>7, <1>8 DEF Good, Sources
  <2> QED
    BY <2>1, <2>2, <2>3 DEF Good
<1>9. ASSUME q.out_queue = <<>>, s.closing, pipe' \in CloseOutput(s)
      PROVE  Good(pipe', kind)
  BY <1>7, <1>8, <1>9, CloseOutputGood
<1>10. ASSUME q.out_queue = <<>>, pipe' = CloseMaybe(s) PROVE Good(pipe', kind)
  BY <1>8, <1>10, CloseMaybeGood
<1>11. Good(pipe', kind)
  BY <1>5, <1>6, <1>9, <1>10
<1> QED
  BY <1>1, <1>11 DEF IInv

\* dispatch_output that would block, or fails
LEMMA OutputStopsGood ==
  ASSUME IInv, OutputBlocks \/ OutputFails PROVE IInv'
<1>1. kind' = kind /\ disposed' = disposed /\ ~disposed /\ pipe.out_source = "on"
  BY DEF OutputBlocks, OutputFails, InLoop
<1>2. PICK c : \/ pipe' = [pipe EXCEPT !.out_source = "removed", !.connecting = c]
               \/ pipe' = CloseImmediately([pipe EXCEPT !.connecting = c], TRUE)
  BY DEF OutputBlocks, OutputFails
<1> DEFINE q == [pipe EXCEPT !.out_source = "removed", !.connecting = c]
           s == [pipe EXCEPT !.connecting = c]
<1>3. /\ DOMAIN q = Fields
      /\ q.out_source = "removed"
      /\ q.in_source = pipe.in_source /\ q.err_source = pipe.err_source
      /\ q.child = pipe.child /\ q.out_fd = pipe.out_fd
      /\ q.out_queue = pipe.out_queue /\ q.closing = pipe.closing
      /\ q.closed = pipe.closed /\ q.problem = pipe.problem
      /\ q.later = pipe.later /\ q.signals = pipe.signals
  BY DEF IInv, Good, Shape, Fields
<1>4. /\ DOMAIN s = Fields
      /\ s.in_source = pipe.in_source /\ s.out_source = pipe.out_source
      /\ s.err_source = pipe.err_source /\ s.child = pipe.child
      /\ s.out_fd = pipe.out_fd /\ s.out_queue = pipe.out_queue
      /\ s.closing = pipe.closing /\ s.closed = pipe.closed
      /\ s.problem = pipe.problem /\ s.later = pipe.later
      /\ s.signals = pipe.signals
  BY DEF IInv, Good, Shape, Fields
<1>5. pipe' = q \/ pipe' = CloseImmediately(s, TRUE)
  BY <1>2
<1> HIDE DEF q, s
<1>6. ~pipe.closed
  BY <1>1 DEF IInv, Good, Sources
<1>7. Good(q, kind)
  <2>1. Shape(q)
    BY <1>3 DEF IInv, Good, Shape
  <2>2. Signals(q)
    BY <1>3 DEF IInv, Good, Signals
  <2>3. Sources(q, kind)
    BY <1>3, <1>6 DEF IInv, Good, Sources
  <2> QED
    BY <2>1, <2>2, <2>3 DEF Good
<1>8. Good(s, kind)
  <2>1. Shape(s)
    BY <1>4 DEF IInv, Good, Shape
  <2>2. Signals(s)
    BY <1>4 DEF IInv, Good, Signals
  <2>3. Sources(s, kind)
    BY <1>4 DEF IInv, Good, Sources
  <2> QED
    BY <2>1, <2>2, <2>3 DEF Good
<1>9. ASSUME pipe' = CloseImmediately(s, TRUE) PROVE Good(pipe', kind)
  BY <1>8, <1>9, CloseImmediatelyGood
<1> QED
  BY <1>1, <1>5, <1>7, <1>9 DEF IInv

\* on_child_reap: the second of the two that "close" waits for
LEMMA ReapGood ==
  ASSUME IInv, Reap PROVE IInv'
<1>1. /\ DOMAIN pipe' = Fields
      /\ pipe'.child = FALSE
      /\ pipe'.signals = IF pipe.closed THEN Append(pipe.signals, "close")
                         ELSE pipe.signals
      /\ pipe'.in_source = pipe.in_source /\ pipe'.out_source = pipe.out_source
      /\ pipe'.err_source = pipe.err_source /\ pipe'.out_fd = pipe.out_fd
      /\ pipe'.out_queue = pipe.out_queue /\ pipe'.closing = pipe.closing
      /\ pipe'.closed = pipe.closed /\ pipe'.problem = pipe.problem
      /\ pipe'.later = pipe.later
  BY DEF Reap, IInv, Good, Shape, Fields
<1>2. kind' = kind /\ disposed' = disposed /\ ~disposed /\ pipe.child
  BY DEF Reap, InLoop
<1>3. pipe.signals \in Seq(Signal) /\ "close" \in Signal
  BY DEF IInv, Good, Shape, Signal
<1>4. pipe'.signals \in Seq(Signal)
  BY <1>1, <1>3
<1>5. Shape(pipe')
  BY <1>1, <1>4 DEF IInv, Good, Shape
<1>6. ~Has(pipe.signals, "close")
  BY <1>2 DEF IInv, Good, Signals
<1>7. Signals(pipe')
  <2>1. CASE pipe.closed
    <3>1. Ordered(pipe'.signals) /\ Has(pipe'.signals, "close")
      BY <1>1, <1>3, <1>6, <2>1, AppendHas, AppendOrdered DEF IInv, Good, Signals
    <3>2. ~pipe.in_source
      BY <2>1 DEF IInv, Good, Sources
    <3> QED
      BY <1>1, <2>1, <3>1, <3>2 DEF Signals
  <2>2. CASE ~pipe.closed
    BY <1>1, <1>6, <2>2 DEF IInv, Good, Signals
  <2> QED
    BY <2>1, <2>2
<1>8. Sources(pipe', kind)
  BY <1>1 DEF IInv, Good, Sources
<1> QED
  BY <1>2, <1>5, <1>7, <1>8 DEF IInv, Good

\* on_later_close, of a pipe that failed to start
LEMMA LaterCloseGood ==
  ASSUME IInv, LaterClose PROVE IInv'
<1> DEFINE q == [pipe EXCEPT !.later = FALSE]
<1>1. kind' = kind /\ disposed' = disposed /\ ~disposed /\ pipe.later
  BY DEF LaterClose, InLoop
<1>2. pipe' = CloseImmediately(q, FALSE)
  BY DEF LaterClose
<1>3. /\ DOMAIN q = Fields
      /\ q.later = FALSE
      /\ q.in_source = pipe.in_source /\ q.out_source = pipe.out_source
      /\ q.err_source = pipe.err_source /\ q.child = pipe.child
      /\ q.out_fd = pipe.out_fd /\ q.out_queue = pipe.out_queue
      /\ q.closing = pipe.closing /\ q.closed = pipe.closed
      /\ q.problem = pipe.problem /\ q.signals = pipe.signals
  BY DEF IInv, Good, Shape, Fields
<1> HIDE DEF q
<1>4. Shape(q)
  BY <1>3 DEF IInv, Good, Shape
<1>5. Signals(q)
  BY <1>3 DEF IInv, Good, Signals
<1>6. Sources(q, kind) /\ q.problem
  BY <1>1, <1>3 DEF IInv, Good, Sources
<1>7. Good(q, kind)
  BY <1>4, <1>5, <1>6 DEF Good
<1>8. Good(pipe', kind)
  BY <1>2, <1>6, <1>7, CloseImmediatelyGood
<1> QED
  BY <1>1, <1>8 DEF IInv

\* Every step keeps the invariant.
LEMMA NextGood == IInv /\ [Next]_vars => IInv'
<1> SUFFICES ASSUME IInv, [Next]_vars PROVE IInv'
  OBVIOUS
<1>1. CASE UNCHANGED vars
  BY <1>1 DEF vars, IInv
<1>2. CASE Next
  BY <1>2, WriteGood, CloseGood, DisposeGood, InputDataGood, InputEndGood,
     InputOverGood, ErrorEndGood, OutputWritesGood, OutputStopsGood, ReapGood,
     LaterCloseGood, Zenon DEF Next
<1> QED
  BY <1>1, <1>2

-----------------------------------------------------------------------------
(* The properties. *)

\* The invariant says what the properties say, in the terms of Pipe.
LEMMA InvariantImplies ==
  IInv => SignalsInOrder /\ CloseSignal /\ NormalCloseFlushed /\ SourcesMatch
<1> SUFFICES ASSUME IInv
             PROVE  /\ SignalsInOrder /\ CloseSignal
                    /\ NormalCloseFlushed /\ SourcesMatch
  OBVIOUS
<1>1. DOMAIN pipe.signals = 1 .. Len(pipe.signals)
  BY DEF IInv, Good, Shape
<1>2. SignalsInOrder
  BY <1>1 DEF IInv, Good, Signals, Ordered, SignalsInOrder
<1>3. CloseSignal
  BY <1>1 DEF IInv, Good, Signals, Has, CloseSignal, Emitted
<1>4. NormalCloseFlushed
  BY DEF IInv, Good, Sources, NormalCloseFlushed
<1>5. SourcesMatch
  BY DEF IInv, Good, Sources, SourcesMatch
<1> QED
  BY <1>2, <1>3, <1>4, <1>5

(***************************************************************************)
(* For every kind of pipe and any bounds: "close" is the last signal and   *)
(* comes once, the end of the input once and with no data after it         *)
(* (dispatch_input, close_immediately, on_child_reap).                     *)
(***************************************************************************)
THEOREM SignalOrder == Spec => []SignalsInOrder
<1>1. IInv => SignalsInOrder
  BY InvariantImplies
<1> QED
  BY <1>1, InitGood, NextGood, PTL DEF Spec

(***************************************************************************)
(* "close" is emitted exactly when the pipe is closed and its child        *)
(* reaped, whichever comes first (close_immediately, on_child_reap).       *)
(***************************************************************************)
THEOREM CloseExactly == Spec => []CloseSignal
<1>1. IInv => CloseSignal
  BY InvariantImplies
<1> QED
  BY <1>1, InitGood, NextGood, PTL DEF Spec

(***************************************************************************)
(* A pipe that closes without a problem has written its queue              *)
(* (cockpit_pipe_close, dispatch_output, close_maybe).                     *)
(***************************************************************************)
THEOREM CloseFlushes == Spec => []NormalCloseFlushed
<1>1. IInv => NormalCloseFlushed
  BY InvariantImplies
<1> QED
  BY <1>1, InitGood, NextGood, PTL DEF Spec

(***************************************************************************)
(* A queue that is not empty has its source, and a closed pipe none, as    *)
(* cockpit_pipe_finalize asserts (cockpit_pipe_write, dispatch_output,     *)
(* stop_output).                                                           *)
(***************************************************************************)
THEOREM SourcesFollow == Spec => []SourcesMatch
<1>1. IInv => SourcesMatch
  BY InvariantImplies
<1> QED
  BY <1>1, InitGood, NextGood, PTL DEF Spec

-----------------------------------------------------------------------------
(***************************************************************************)
(* The stream of bytes.  Bytes() and Wrote() are recursive; what they      *)
(* compute is proved from the least number of blocks for which it would be *)
(* wrong.                                                                  *)
(***************************************************************************)
LEMMA Least ==
  ASSUME NEW N \in SUBSET Nat, N # {}
  PROVE  \E n \in N : \A k \in N : n <= k
<1>1. PICK n \in N : \A k \in N : ~(<<k, n>> \in OpToRel(<, Nat))
  BY WFMin, NatLessThanWellFounded
<1>2. \A k \in N : ~(k < n)
  BY <1>1 DEF OpToRel
<1> QED BY <1>2

\* The bytes of one block.
Chunk(x) == [j \in 1 .. x.len |-> x.at + j]

\* g[i] has the bytes of the first i blocks.
Cats(b, n, g) ==
  g = [i \in 0 .. n |-> IF i = 0 THEN <<>> ELSE g[i - 1] \o Chunk(b[i])]

LEMMA CatsExists ==
  ASSUME NEW b, NEW n \in Nat
  PROVE  \E g : Cats(b, n, g)
<1> DEFINE N == {k \in Nat : ~\E g : Cats(b, k, g)}
<1> SUFFICES ASSUME N # {} PROVE FALSE
  OBVIOUS
<1>1. PICK m \in N : \A k \in N : m <= k
  BY Least
<1>2. CASE m = 0
  <2>1. Cats(b, m, [i \in 0 .. m |-> <<>>])
    BY <1>2 DEF Cats
  <2> QED BY <1>1, <2>1
<1>3. CASE m # 0
  <2>1. m - 1 \in Nat /\ ~(m <= m - 1)
    BY <1>3
  <2>2. PICK g : Cats(b, m - 1, g)
    BY <1>1, <2>1
  <2> DEFINE last == g[m - 1] \o Chunk(b[m])
             h == [i \in 0 .. m |-> IF i < m THEN g[i] ELSE last]
  <2>3. \A i \in 0 .. m - 1 : h[i] = g[i]
    BY <2>1
  <2>4. \A i \in 0 .. m - 1 :
          g[i] = IF i = 0 THEN <<>> ELSE g[i - 1] \o Chunk(b[i])
    BY <2>2 DEF Cats
  <2> HIDE DEF last
  <2>5. h[m] = last
    BY <2>1
  <2>6. h = [i \in 0 .. m |-> h[i]]
    OBVIOUS
  <2> HIDE DEF h
  <2>7. ASSUME NEW i \in 0 .. m
        PROVE  h[i] = IF i = 0 THEN <<>>
                      ELSE h[i - 1] \o Chunk(b[i])
    <3>1. CASE i = m
      <4>1. h[m - 1] = g[m - 1]
        BY <2>1, <2>3
      <4>2. h[i] = h[m - 1] \o Chunk(b[m])
        BY <2>5, <3>1, <4>1, Zenon DEF last
      <4> QED BY <1>3, <3>1, <4>2
    <3>2. CASE i # m
      <4>1. i \in 0 .. m - 1 /\ (i # 0 => i - 1 \in 0 .. m - 1)
        BY <3>2
      <4> QED BY <2>3, <2>4, <4>1
    <3> QED BY <3>1, <3>2
  <2>8. Cats(b, m, h)
    BY <2>6, <2>7 DEF Cats
  <2> QED BY <1>1, <2>8
<1> QED BY <1>2, <1>3

LEMMA BytesValue ==
  ASSUME NEW b, Len(b) \in Nat
  PROVE  \E g : Cats(b, Len(b), g) /\ Bytes(b) = g[Len(b)]
<1> DEFINE G == CHOOSE h : h = [i \in 0 .. Len(b) |->
                  IF i = 0 THEN <<>> ELSE h[i - 1] \o [j \in 1 .. b[i].len |-> b[i].at + j]]
<1>1. Bytes(b) = G[Len(b)]
  BY Zenon DEF Bytes
<1>2. Cats(b, Len(b), G)
  <2>1. PICK g : Cats(b, Len(b), g)
    BY CatsExists
  <2>2. g = [i \in 0 .. Len(b) |->
               IF i = 0 THEN <<>> ELSE g[i - 1] \o [j \in 1 .. b[i].len |-> b[i].at + j]]
    BY <2>1 DEF Cats, Chunk
  <2>3. G = [i \in 0 .. Len(b) |->
               IF i = 0 THEN <<>> ELSE G[i - 1] \o [j \in 1 .. b[i].len |-> b[i].at + j]]
    BY <2>2, Zenon
  <2> HIDE DEF G
  <2> QED BY <2>3 DEF Cats, Chunk
<1> QED BY <1>1, <1>2

\* One block of a writev, after which s is what the loop knows.
Step(s, len) ==
  IF s.ret = 0 THEN s
  ELSE IF s.ret >= len
    THEN [done |-> s.done + 1, partial |-> 0, ret |-> s.ret - len]
    ELSE [s EXCEPT !.partial = @ + s.ret, !.ret = 0]

\* g[i] is what the loop of dispatch_output knows after i blocks.
Accs(b, p, r, n, g) ==
  g = [i \in 0 .. n |-> IF i = 0 THEN [done |-> 0, partial |-> p, ret |-> r]
                        ELSE Step(g[i - 1], b[i].len)]

LEMMA AccsExists ==
  ASSUME NEW b, NEW p, NEW r, NEW n \in Nat
  PROVE  \E g : Accs(b, p, r, n, g)
<1> DEFINE N == {k \in Nat : ~\E g : Accs(b, p, r, k, g)}
           z == [done |-> 0, partial |-> p, ret |-> r]
<1> SUFFICES ASSUME N # {} PROVE FALSE
  OBVIOUS
<1>1. PICK m \in N : \A k \in N : m <= k
  BY Least
<1>2. CASE m = 0
  <2>1. Accs(b, p, r, m, [i \in 0 .. m |-> z])
    BY <1>2 DEF Accs
  <2> QED BY <1>1, <2>1
<1>3. CASE m # 0
  <2>1. m - 1 \in Nat /\ ~(m <= m - 1)
    BY <1>3
  <2>2. PICK g : Accs(b, p, r, m - 1, g)
    BY <1>1, <2>1
  <2> DEFINE last == Step(g[m - 1], b[m].len)
             h == [i \in 0 .. m |-> IF i < m THEN g[i] ELSE last]
  <2>3. \A i \in 0 .. m - 1 : h[i] = g[i]
    BY <2>1
  <2>4. \A i \in 0 .. m - 1 : g[i] = IF i = 0 THEN z ELSE Step(g[i - 1], b[i].len)
    BY <2>2 DEF Accs
  <2>5. h[m] = last
    OBVIOUS
  <2>6. h = [i \in 0 .. m |-> h[i]]
    OBVIOUS
  <2> HIDE DEF h
  <2>7. ASSUME NEW i \in 0 .. m
        PROVE  h[i] = IF i = 0 THEN z ELSE Step(h[i - 1], b[i].len)
    <3>1. CASE i = m
      BY <1>3, <2>3, <2>5, <3>1
    <3>2. CASE i # m
      <4>1. i \in 0 .. m - 1 /\ (i # 0 => i - 1 \in 0 .. m - 1)
        BY <3>2
      <4> QED BY <2>3, <2>4, <4>1
    <3> QED BY <3>1, <3>2
  <2>8. Accs(b, p, r, m, h)
    BY <2>6, <2>7 DEF Accs
  <2> QED BY <1>1, <2>8
<1> QED BY <1>2, <1>3

LEMMA WroteValue ==
  ASSUME NEW q, NEW n, Len(Iov(q)) \in Nat
  PROVE  \E g : /\ Accs(Iov(q), q.out_partial, n, Len(Iov(q)), g)
                /\ Wrote(q, n) = g[Len(Iov(q))]
<1> DEFINE b == Iov(q)
           G == CHOOSE h : h = [i \in 0 .. Len(b) |->
                  IF i = 0 THEN [done |-> 0, partial |-> q.out_partial, ret |-> n]
                  ELSE LET s == h[i - 1]
                       IN  IF s.ret = 0 THEN s
                           ELSE IF s.ret >= b[i].len
                             THEN [done |-> s.done + 1, partial |-> 0,
                                   ret |-> s.ret - b[i].len]
                             ELSE [s EXCEPT !.partial = @ + s.ret, !.ret = 0]]
<1>1. Wrote(q, n) = G[Len(b)]
  BY Zenon DEF Wrote
<1>2. Accs(b, q.out_partial, n, Len(b), G)
  <2> DEFINE F(h) == [i \in 0 .. Len(b) |->
                  IF i = 0 THEN [done |-> 0, partial |-> q.out_partial, ret |-> n]
                  ELSE LET s == h[i - 1]
                       IN  IF s.ret = 0 THEN s
                           ELSE IF s.ret >= b[i].len
                             THEN [done |-> s.done + 1, partial |-> 0,
                                   ret |-> s.ret - b[i].len]
                             ELSE [s EXCEPT !.partial = @ + s.ret, !.ret = 0]]
  <2>1. PICK g : Accs(b, q.out_partial, n, Len(b), g)
    BY AccsExists
  <2>2. ASSUME NEW h PROVE Accs(b, q.out_partial, n, Len(b), h) <=> h = F(h)
    BY Zenon DEF Accs, Step
  <2>3. g = F(g)
    BY <2>1, <2>2
  <2>4. G = CHOOSE h : h = F(h)
    BY Zenon
  <2> HIDE DEF G, F
  <2>5. G = F(G)
    BY <2>3, <2>4
  <2> QED BY <2>2, <2>5
<1> QED BY <1>1, <1>2

\* The bytes after the first s, n of them.
Run(s, n) == [j \in 1 .. n |-> s + j]

\* The byte at which block i ends, of blocks of which the first starts at s.
End(b, s, i) == IF i = 0 THEN s ELSE b[i].at + b[i].len

\* Each of the blocks starts where the one before it ends.
Line(b, s) ==
  /\ b \in Seq(Block) /\ s \in Nat
  /\ \A i \in 1 .. Len(b) : b[i].at = End(b, s, i - 1)

LEMMA RunsJoin ==
  ASSUME NEW s \in Nat, NEW m \in Nat, NEW n \in Nat
  PROVE  /\ Run(s, m) \o Run(s + m, n) = Run(s, m + n)
         /\ Run(s, n) \in Seq(Nat) /\ Len(Run(s, n)) = n
<1>1. \A t, k \in Nat : Run(t, k) \in Seq(Nat) /\ Len(Run(t, k)) = k
                        /\ \A j \in 1 .. k : Run(t, k)[j] = t + j
  BY DEF Run
<1>2. s + m \in Nat /\ m + n \in Nat
  OBVIOUS
<1> DEFINE a == Run(s, m)
           b == Run(s + m, n)
           c == a \o b
<1>3. a \in Seq(Nat) /\ Len(a) = m /\ b \in Seq(Nat) /\ Len(b) = n
  BY <1>1, <1>2
<1>4. \A j \in 1 .. m : a[j] = s + j
  BY <1>1
<1>5. \A j \in 1 .. n : b[j] = s + m + j
  BY <1>1, <1>2
<1> HIDE DEF a, b
<1>6. /\ c \in Seq(Nat) /\ Len(c) = m + n
      /\ \A j \in 1 .. m + n : c[j] = IF j <= m THEN a[j] ELSE b[j - m]
  BY <1>3, ConcatProperties
<1> HIDE DEF c
<1>7. ASSUME NEW j \in 1 .. m + n
      PROVE  c[j] = Run(s, m + n)[j]
  <2>1. Run(s, m + n)[j] = s + j
    BY <1>1, <1>2
  <2>2. CASE j <= m
    BY <1>4, <1>6, <2>1, <2>2
  <2>3. CASE j > m
    <3>1. j - m \in 1 .. n /\ ~(j <= m)
      BY <2>3
    <3>2. c[j] = b[j - m]
      BY <1>6, <3>1
    <3>3. b[j - m] = s + m + (j - m)
      BY <1>5, <3>1
    <3> QED BY <2>1, <3>2, <3>3
  <2> QED BY <2>2, <2>3
<1>8. Run(s, m + n) \in Seq(Nat) /\ Len(Run(s, m + n)) = m + n
  BY <1>1, <1>2
<1>9. c = Run(s, m + n)
  BY <1>6, <1>7, <1>8, SeqEqual
<1> QED BY <1>1, <1>9 DEF a, b, c

\* Bytes(): the bytes of blocks that follow one another are a run.
LEMMA BytesOfLine ==
  ASSUME NEW b, NEW s, Line(b, s)
  PROVE  /\ End(b, s, Len(b)) \in Nat /\ End(b, s, Len(b)) >= s
         /\ Bytes(b) = Run(s, End(b, s, Len(b)) - s)
<1>1. PICK g : Cats(b, Len(b), g) /\ Bytes(b) = g[Len(b)]
  BY BytesValue DEF Line
<1> DEFINE P(i) == /\ End(b, s, i) \in Nat /\ End(b, s, i) >= s
                   /\ g[i] = Run(s, End(b, s, i) - s)
           N == {i \in Nat : i <= Len(b) /\ ~P(i)}
<1>2. s \in Nat /\ Len(b) \in Nat
  BY DEF Line
<1>3. \A i \in 0 .. Len(b) : g[i] = IF i = 0 THEN <<>> ELSE g[i - 1] \o Chunk(b[i])
  BY <1>1 DEF Cats
<1>4. P(0)
  <2>1. End(b, s, 0) = s /\ g[0] = <<>>
    BY <1>2, <1>3 DEF End
  <2>2. Run(s, 0) = <<>>
    BY RunsJoin, <1>2, EmptySeq
  <2> QED BY <1>2, <2>1, <2>2
<1>5. ASSUME NEW i \in 1 .. Len(b), P(i - 1)
      PROVE  P(i)
  <2> DEFINE e == End(b, s, i - 1)
             n == b[i].len
  <2>1. e \in Nat /\ e >= s /\ g[i - 1] = Run(s, e - s)
    BY <1>5
  <2>2. b[i] \in Block /\ b[i].at = e
    BY DEF Line
  <2>3. n \in Nat /\ End(b, s, i) = e + n
    BY <2>2 DEF Block, End
  <2>4. Chunk(b[i]) = Run(e, n)
    BY <2>2 DEF Chunk, Run
  <2>5. g[i] = g[i - 1] \o Chunk(b[i])
    <3>1. i \in 0 .. Len(b) /\ i # 0
      BY <1>2
    <3> QED BY <1>3, <3>1, Zenon
  <2> HIDE DEF e, n
  <2>6. e - s \in Nat /\ s + (e - s) = e /\ (e - s) + n = (e + n) - s
    BY <1>2, <2>1, <2>3
  <2>7. Run(s, e - s) \o Run(e, n) = Run(s, (e - s) + n)
    <3>1. PICK d \in Nat : d = e - s
      BY <2>6
    <3>2. Run(s, d) \o Run(s + d, n) = Run(s, d + n)
      BY <1>2, <2>3, RunsJoin
    <3> QED BY <2>6, <3>1, <3>2
  <2> QED BY <1>2, <2>1, <2>3, <2>4, <2>5, <2>6, <2>7
<1> HIDE DEF P
<1>6. N = {}
  <2> SUFFICES ASSUME N # {} PROVE FALSE
    OBVIOUS
  <2>1. PICK m \in N : \A k \in N : m <= k
    BY Least
  <2>2. m # 0
    BY <1>4, <2>1
  <2>3. m \in 1 .. Len(b) /\ m - 1 \in Nat /\ m - 1 <= Len(b) /\ ~(m <= m - 1)
    BY <1>2, <2>1, <2>2
  <2>4. P(m - 1)
    BY <2>1, <2>3
  <2> QED BY <1>5, <2>1, <2>3, <2>4
<1>7. P(Len(b))
  BY <1>2, <1>6
<1> QED BY <1>1, <1>7 DEF P

-----------------------------------------------------------------------------
\* Byte w is the last one written, g the last one given, of which the queue
\* has the rest; p bytes of its first block are written.
Queued(Q, p, w, g) ==
  /\ p \in Nat /\ w \in Nat /\ p <= w
  /\ Line(Q, w - p)
  /\ End(Q, w - p, Len(Q)) = g
  /\ Q = <<>> => p = 0
  /\ Q # <<>> => p < Q[1].len

\* The first n blocks without what is written.
Left(Q, p, n) ==
  [i \in 1 .. n |-> LET skip == IF i = 1 THEN p ELSE 0
                    IN  [at |-> Q[i].at + skip, len |-> Q[i].len - skip]]

LEMMA LeftIsLine ==
  ASSUME NEW Q, NEW p, NEW w, NEW g, Queued(Q, p, w, g), NEW n \in 0 .. Len(Q)
  PROVE  /\ Line(Left(Q, p, n), w) /\ Len(Left(Q, p, n)) = n
         /\ \A i \in 1 .. n :
              /\ End(Left(Q, p, n), w, i) = End(Q, w - p, i)
              /\ Left(Q, p, n)[i].len = Q[i].len - (IF i = 1 THEN p ELSE 0)
<1> DEFINE b == Left(Q, p, n)
<1>1. p \in Nat /\ w \in Nat /\ p <= w /\ w - p \in Nat
  BY DEF Queued
<1>2. Len(Q) \in Nat /\ Q \in Seq(Block)
  BY DEF Queued, Line
<1>3. ASSUME NEW i \in 1 .. n
      PROVE  /\ b[i] \in Block
             /\ b[i].at = Q[i].at + (IF i = 1 THEN p ELSE 0)
             /\ b[i].len = Q[i].len - (IF i = 1 THEN p ELSE 0)
  <2>1. Q[i] \in Block
    BY <1>2
  <2>2. Q[i].at \in Nat /\ Q[i].len \in Nat \ {0}
    BY <2>1 DEF Block
  <2>3. i = 1 => p < Q[i].len
    BY <1>2 DEF Queued
  <2>4. b[i] = [at |-> Q[i].at + (IF i = 1 THEN p ELSE 0),
                len |-> Q[i].len - (IF i = 1 THEN p ELSE 0)]
    BY DEF Left
  <2> HIDE DEF b
  <2> QED BY <1>1, <2>2, <2>3, <2>4 DEF Block
<1>4. b \in Seq(Block) /\ Len(b) = n
  <2>1. b = [i \in 1 .. n |-> b[i]]
    BY DEF Left
  <2> HIDE DEF b
  <2> QED BY <1>3, <2>1
<1> HIDE DEF b
<1>5. ASSUME NEW i \in 1 .. n
      PROVE  End(b, w, i) = End(Q, w - p, i)
  <2>1. Q[i] \in Block
    BY <1>2
  <2>2. Q[i].at \in Nat /\ Q[i].len \in Nat
    BY <2>1 DEF Block
  <2>3. PICK skip \in Nat : b[i].at = Q[i].at + skip /\ b[i].len = Q[i].len - skip
    BY <1>1, <1>3
  <2>4. b[i].at + b[i].len = Q[i].at + Q[i].len
    BY <2>2, <2>3
  <2>5. i # 0
    OBVIOUS
  <2> QED BY <2>4, <2>5 DEF End
<1>6. ASSUME NEW i \in 1 .. n
      PROVE  b[i].at = End(b, w, i - 1)
  <2>1. i \in 1 .. Len(Q) /\ Q[i].at = End(Q, w - p, i - 1)
    BY <1>2 DEF Queued, Line
  <2>2. CASE i = 1
    BY <1>1, <1>3, <2>1, <2>2 DEF End
  <2>3. CASE i # 1
    <3>1. i - 1 \in 1 .. n
      BY <2>3
    <3>2. Q[i] \in Block
      BY <1>2
    <3>3. Q[i].at \in Nat
      BY <3>2 DEF Block
    <3> QED BY <1>3, <1>5, <2>1, <2>3, <3>1, <3>3
  <2> QED BY <2>2, <2>3
<1> QED BY <1>1, <1>3, <1>4, <1>5, <1>6 DEF Line, b

\* The loop of dispatch_output: p is written of the first block, ret bytes
\* after it have just been, and t is what the loop makes of i blocks b.
Found(b, p, w, ret, i, t) ==
  LET skip == IF t.done = 0 THEN p ELSE 0
  IN  /\ t \in [done : 0 .. i, partial : Nat, ret : Nat]
      /\ End(b, w, t.done) + (t.partial - skip) + t.ret = w + ret
      /\ t.done = i => t.partial = skip
      /\ t.done < i => /\ t.ret = 0 /\ skip <= t.partial
                       /\ t.partial - skip < b[t.done + 1].len

LEMMA StepFinds ==
  ASSUME NEW b, NEW w, Line(b, w), NEW p \in Nat, NEW ret \in Nat,
         NEW i \in 1 .. Len(b), NEW t, Found(b, p, w, ret, i - 1, t)
  PROVE  Found(b, p, w, ret, i, Step(t, b[i].len))
<1> DEFINE len == b[i].len
           skip == IF t.done = 0 THEN p ELSE 0
<1>1. b[i] \in Block /\ b[i].at = End(b, w, i - 1) /\ w \in Nat /\ Len(b) \in Nat
  BY DEF Line
<1>2. len \in Nat \ {0} /\ b[i].at \in Nat /\ End(b, w, i) = End(b, w, i - 1) + len
  BY <1>1 DEF Block, End
<1>3. /\ t.done \in 0 .. i - 1 /\ t.partial \in Nat /\ t.ret \in Nat
      /\ t = [done |-> t.done, partial |-> t.partial, ret |-> t.ret]
  BY DEF Found
<1>4. /\ End(b, w, t.done) + (t.partial - skip) + t.ret = w + ret
      /\ t.done = i - 1 => t.partial = skip
      /\ t.done < i - 1 => /\ t.ret = 0 /\ skip <= t.partial
                           /\ t.partial - skip < b[t.done + 1].len
  BY DEF Found
<1>5. End(b, w, i - 1) \in Nat
  BY <1>1, <1>2
<1>6. skip \in Nat
  BY <1>3
<1> HIDE DEF len, skip
<1>7. CASE t.ret = 0
  <2>1. Step(t, len) = t
    BY <1>7 DEF Step
  <2>2. t \in [done : 0 .. i, partial : Nat, ret : Nat]
    BY <1>3
  <2>3. /\ skip <= t.partial /\ t.partial - skip < b[t.done + 1].len
    <3>1. CASE t.done = i - 1
      BY <1>2, <1>3, <1>4, <1>6, <3>1 DEF len
    <3>2. CASE t.done < i - 1
      BY <1>4, <3>2
    <3> QED BY <1>3, <3>1, <3>2
  <2> QED BY <1>3, <1>4, <1>7, <2>1, <2>2, <2>3 DEF Found, len, skip
<1>8. CASE t.ret # 0
  <2>1. t.done = i - 1 /\ t.partial = skip /\ t.ret > 0
    BY <1>3, <1>4, <1>8
  <2>2. End(b, w, i - 1) + t.ret = w + ret
    BY <1>4, <1>5, <1>6, <1>3, <2>1
  <2>3. CASE t.ret >= len
    <3> DEFINE u == [done |-> t.done + 1, partial |-> 0, ret |-> t.ret - len]
    <3>1. Step(t, len) = u
      BY <1>8, <2>3 DEF Step
    <3>2. u.done = i /\ u.partial = 0 /\ u.ret = t.ret - len
      BY <2>1
    <3>3. u \in [done : 0 .. i, partial : Nat, ret : Nat]
      BY <1>2, <1>3, <2>1, <2>3
    <3> HIDE DEF u
    <3>4. End(b, w, i) + (0 - 0) + (t.ret - len) = w + ret
      BY <1>2, <1>3, <1>5, <2>2
    <3>5. Found(b, p, w, ret, i, u)
      BY <3>2, <3>3, <3>4 DEF Found
    <3> QED BY <3>1, <3>5 DEF len
  <2>4. CASE ~(t.ret >= len)
    <3> DEFINE u == [done |-> t.done, partial |-> t.partial + t.ret, ret |-> 0]
    <3>1. Step(t, len) = u
      BY <1>3, <1>8, <2>4 DEF Step
    <3>2. u.done = i - 1 /\ u.partial = skip + t.ret /\ u.ret = 0
      BY <2>1
    <3>3. u \in [done : 0 .. i, partial : Nat, ret : Nat]
      BY <1>3, <2>1
    <3> HIDE DEF u
    <3>4. skip = IF u.done = 0 THEN p ELSE 0
      BY <2>1, <3>2 DEF skip
    <3>5. End(b, w, u.done) + (u.partial - skip) + u.ret = w + ret
      BY <1>3, <1>5, <1>6, <2>2, <3>2
    <3>6. skip <= u.partial /\ u.partial - skip < b[u.done + 1].len
      BY <1>2, <1>3, <1>6, <2>4, <3>2 DEF len
    <3>7. Found(b, p, w, ret, i, u)
      BY <3>2, <3>3, <3>4, <3>5, <3>6 DEF Found
    <3> QED BY <3>1, <3>7 DEF len
  <2> QED BY <2>3, <2>4
<1> QED BY <1>7, <1>8

\* Wrote(): how far a writev of ret bytes got, in the blocks it was handed.
LEMMA WroteFinds ==
  ASSUME NEW q, NEW w, Line(Iov(q), w), q.out_partial \in Nat, NEW ret \in Nat,
         ret <= Len(Bytes(Iov(q)))
  PROVE  /\ Found(Iov(q), q.out_partial, w, ret, Len(Iov(q)), Wrote(q, ret))
         /\ Wrote(q, ret).ret = 0
<1> DEFINE b == Iov(q)
           p == q.out_partial
<1>1. Len(b) \in Nat /\ w \in Nat
  BY DEF Line
<1>2. PICK g : Accs(b, p, ret, Len(b), g) /\ Wrote(q, ret) = g[Len(b)]
  BY <1>1, WroteValue
<1>3. /\ End(b, w, Len(b)) \in Nat /\ End(b, w, Len(b)) >= w
      /\ Bytes(b) = Run(w, End(b, w, Len(b)) - w)
  BY BytesOfLine
<1>4. w + ret <= End(b, w, Len(b))
  <2>1. PICK k \in Nat : k = End(b, w, Len(b)) - w
    BY <1>1, <1>3
  <2>2. Len(Run(w, k)) = k
    BY <1>1, RunsJoin
  <2>3. ret <= k
    BY <1>3, <2>1, <2>2
  <2> QED BY <1>1, <1>3, <2>1, <2>3
<1> HIDE DEF b, p
<1> DEFINE P(i) == Found(b, p, w, ret, i, g[i])
           N == {i \in Nat : i <= Len(b) /\ ~P(i)}
<1>5. \A i \in 0 .. Len(b) :
        g[i] = IF i = 0 THEN [done |-> 0, partial |-> p, ret |-> ret]
               ELSE Step(g[i - 1], b[i].len)
  BY <1>2 DEF Accs
<1>6. P(0)
  <2>1. g[0] = [done |-> 0, partial |-> p, ret |-> ret]
    BY <1>1, <1>5
  <2>2. p \in Nat
    BY DEF p
  <2>3. g[0].done = 0 /\ g[0].partial = p /\ g[0].ret = ret
    BY <2>1
  <2>4. g[0] \in [done : 0 .. 0, partial : Nat, ret : Nat]
    BY <2>1, <2>2
  <2>5. End(b, w, 0) + (p - p) + ret = w + ret
    BY <1>1, <2>2 DEF End
  <2> QED BY <2>3, <2>4, <2>5 DEF Found
<1>7. ASSUME NEW i \in 1 .. Len(b), P(i - 1)
      PROVE  P(i)
  <2>1. i \in 0 .. Len(b) /\ i # 0
    BY <1>1
  <2>2. g[i] = Step(g[i - 1], b[i].len)
    BY <1>5, <2>1, Zenon
  <2>3. Found(b, p, w, ret, i - 1, g[i - 1]) /\ p \in Nat /\ Line(b, w)
    BY <1>7 DEF p, b
  <2> QED BY <2>2, <2>3, StepFinds
<1> HIDE DEF P
<1>8. N = {}
  <2> SUFFICES ASSUME N # {} PROVE FALSE
    OBVIOUS
  <2>1. PICK m \in N : \A k \in N : m <= k
    BY Least
  <2>2. m # 0
    BY <1>6, <2>1
  <2>3. m \in 1 .. Len(b) /\ m - 1 \in Nat /\ m - 1 <= Len(b) /\ ~(m <= m - 1)
    BY <1>1, <2>1, <2>2
  <2>4. P(m - 1)
    BY <2>1, <2>3
  <2> QED BY <1>7, <2>1, <2>3, <2>4
<1>9. Found(b, p, w, ret, Len(b), g[Len(b)])
  BY <1>1, <1>8 DEF P
<1>10. g[Len(b)].ret = 0
  <2> DEFINE t == g[Len(b)]
  <2>1. t.done \in 0 .. Len(b) /\ t.partial \in Nat /\ t.ret \in Nat
    BY <1>9 DEF Found
  <2>2. CASE t.done < Len(b)
    BY <1>9, <2>2 DEF Found
  <2>3. CASE t.done = Len(b)
    <3>1. t.partial = IF t.done = 0 THEN p ELSE 0
      BY <1>9, <2>3 DEF Found
    <3>2. End(b, w, t.done) + (t.partial - (IF t.done = 0 THEN p ELSE 0)) + t.ret = w + ret
      BY <1>9 DEF Found
    <3> HIDE DEF t
    <3>3. End(b, w, Len(b)) + (t.partial - t.partial) + t.ret = w + ret
      BY <2>3, <3>1, <3>2
    <3>4. ASSUME NEW e \in Nat, NEW x \in Nat, NEW r \in Nat,
                 e + (x - x) + r = w + ret, w + ret <= e
          PROVE  r = 0
      BY <1>1, <3>4
    <3>5. t.ret = 0
      BY <1>3, <1>4, <2>1, <3>3, <3>4
    <3> QED BY <3>5 DEF t
  <2> QED BY <1>1, <2>1, <2>2, <2>3
<1> QED BY <1>2, <1>9, <1>10 DEF b, p

\* A writev of ret bytes leaves a queue that starts with the byte after them.
LEMMA AccountQueued ==
  ASSUME NEW q, NEW w, NEW g, Queued(q.out_queue, q.out_partial, w, g),
         NEW ret \in Nat, ret <= Len(Bytes(Iov(q)))
  PROVE  Queued(SubSeq(q.out_queue, Wrote(q, ret).done + 1, Len(q.out_queue)),
                Wrote(q, ret).partial, w + ret, g)
<1> DEFINE Q == q.out_queue
           p == q.out_partial
           k == IF Len(Q) < IovMax THEN Len(Q) ELSE IovMax
           b == Iov(q)
           t == Wrote(q, ret)
           R == SubSeq(Q, t.done + 1, Len(Q))
<1>1. /\ Q \in Seq(Block) /\ Len(Q) \in Nat /\ p \in Nat /\ w \in Nat /\ p <= w
      /\ w - p \in Nat /\ (Q = <<>> => p = 0) /\ (Q # <<>> => p < Q[1].len)
      /\ End(Q, w - p, Len(Q)) = g /\ Queued(Q, p, w, g)
      /\ \A i \in 1 .. Len(Q) : Q[i].at = End(Q, w - p, i - 1)
  BY DEF Queued, Line
<1>2. k \in 0 .. Len(Q) /\ (k = 0 => Len(Q) = 0)
  BY <1>1, PipeAssumption
<1>3. b = Left(Q, p, k)
  BY DEF Iov, Left
<1> HIDE DEF k, b, Q, p
<1>4. /\ Line(b, w) /\ Len(b) = k
      /\ \A i \in 1 .. k : /\ End(b, w, i) = End(Q, w - p, i)
                           /\ b[i].len = Q[i].len - (IF i = 1 THEN p ELSE 0)
  BY <1>1, <1>2, <1>3, LeftIsLine
<1>5. Found(b, p, w, ret, k, t) /\ t.ret = 0
  BY <1>1, <1>4, WroteFinds DEF b, p
<1> HIDE DEF t
<1> DEFINE skip == IF t.done = 0 THEN p ELSE 0
<1>6. /\ t.done \in 0 .. k /\ t.partial \in Nat
      /\ End(b, w, t.done) + (t.partial - skip) = w + ret
      /\ t.done = k => t.partial = skip
      /\ t.done < k => skip <= t.partial /\ t.partial - skip < b[t.done + 1].len
  <2>1. /\ t.done \in 0 .. k /\ t.partial \in Nat
        /\ End(b, w, t.done) + (t.partial - skip) + t.ret = w + ret
        /\ t.done = k => t.partial = skip
        /\ t.done < k => skip <= t.partial /\ t.partial - skip < b[t.done + 1].len
    BY <1>5 DEF Found
  <2>2. End(b, w, t.done) \in Int
    <3>1. CASE t.done = 0
      BY <1>1, <3>1 DEF End
    <3>2. CASE t.done # 0
      <4>1. b[t.done] \in Block
        BY <1>2, <1>4, <2>1, <3>2 DEF Line
      <4> QED BY <3>2, <4>1 DEF End, Block
    <3> QED BY <3>1, <3>2
  <2>3. skip \in Nat
    BY <1>1
  <2> HIDE DEF skip
  <2> QED BY <1>5, <2>1, <2>2, <2>3
<1>7. End(b, w, t.done) = End(Q, w - p, t.done) + skip
  <2>1. CASE t.done = 0
    BY <1>1, <2>1 DEF End
  <2>2. CASE t.done # 0
    <3>1. t.done \in 1 .. k
      BY <1>2, <1>6, <2>2
    <3>2. b[t.done] \in Block
      BY <1>2, <1>4, <1>6, <2>2 DEF Line
    <3>3. End(b, w, t.done) \in Nat
      BY <2>2, <3>2 DEF End, Block
    <3> QED BY <1>4, <2>2, <3>1, <3>3
  <2> QED BY <2>1, <2>2
<1>8. End(Q, w - p, t.done) \in Nat
  <2>1. CASE t.done = 0
    BY <1>1, <2>1 DEF End
  <2>2. CASE t.done # 0
    <3>1. Q[t.done] \in Block
      BY <1>1, <1>2, <1>6, <2>2
    <3> QED BY <2>2, <3>1 DEF End, Block
  <2> QED BY <2>1, <2>2
<1>9. skip \in Nat
  BY <1>1
<1> HIDE DEF skip
<1>10. End(Q, w - p, t.done) = (w + ret) - t.partial
  BY <1>1, <1>6, <1>7, <1>8, <1>9, SMTT(40)
<1>11. t.partial <= w + ret /\ w + ret \in Nat /\ (w + ret) - t.partial \in Nat
  BY <1>1, <1>6, <1>8, <1>10
<1>12. t.done \in 0 .. Len(Q)
  BY <1>1, <1>2, <1>6
<1>13. /\ R \in Seq(Block) /\ Len(R) = Len(Q) - t.done
       /\ \A i \in 1 .. Len(Q) - t.done : R[i] = Q[t.done + i]
  <2>1. R \in Seq(Block) /\ Len(R) = Len(Q) - t.done
    BY <1>1, <1>12, SMTT(40)
  <2>2. ASSUME NEW i \in 1 .. Len(Q) - t.done PROVE R[i] = Q[t.done + i]
    <3>1. PICK m \in Int : m = t.done + 1
      BY <1>12
    <3>2. \A j \in m .. Len(Q) : Q[j] \in Block
      BY <1>1, <1>12, <3>1
    <3>3. SubSeq(Q, m, Len(Q))[i] = Q[m + i - 1]
      <4>1. i \in 1 .. Len(Q) - m + 1
        BY <1>1, <1>12, <3>1, SMTT(40)
      <4> QED BY <1>1, <3>2, <4>1, SubSeqProperties
    <3>4. m + i - 1 = t.done + i
      BY <1>12, <3>1
    <3> QED BY <3>1, <3>3, <3>4
  <2> QED BY <2>1, <2>2
<1> HIDE DEF R
<1>14. ASSUME NEW i \in 0 .. Len(R)
       PROVE  End(R, (w + ret) - t.partial, i) = End(Q, w - p, t.done + i)
  <2>1. CASE i = 0
    BY <1>10, <1>12, <2>1 DEF End
  <2>2. CASE i # 0
    <3>1. R[i] = Q[t.done + i] /\ t.done + i # 0
      BY <1>1, <1>12, <1>13, <2>2
    <3> QED BY <2>2, <3>1 DEF End
  <2> QED BY <2>1, <2>2
<1>15. ASSUME NEW i \in 1 .. Len(R)
       PROVE  R[i].at = End(R, (w + ret) - t.partial, i - 1)
  <2>1. i - 1 \in 0 .. Len(R) /\ t.done + i \in 1 .. Len(Q)
        /\ t.done + (i - 1) = (t.done + i) - 1
    <3>1. Len(Q) \in Nat /\ Len(R) = Len(Q) - t.done
      BY <1>1, <1>13
    <3> QED BY <1>12, <3>1
  <2>2. Q[t.done + i].at = End(Q, w - p, (t.done + i) - 1)
    BY <1>1, <2>1
  <2>3. R[i] = Q[t.done + i]
    BY <1>13
  <2> QED BY <1>14, <2>1, <2>2, <2>3
<1>16. Line(R, (w + ret) - t.partial)
  BY <1>11, <1>13, <1>15 DEF Line
<1>17. End(R, (w + ret) - t.partial, Len(R)) = g
  <2>1. Len(R) \in 0 .. Len(R) /\ t.done + Len(R) = Len(Q)
    BY <1>1, <1>12, <1>13
  <2> QED BY <1>1, <1>14, <2>1
<1>18. R = <<>> => t.partial = 0
  <2> SUFFICES ASSUME R = <<>> PROVE t.partial = 0
    OBVIOUS
  <2>1. t.done = Len(Q)
    BY <1>1, <1>12, <1>13
  <2>2. t.done = k
    BY <1>1, <1>2, <1>6, <2>1
  <2>3. t.done = 0 => Q = <<>>
    BY <1>1, <2>1, EmptySeq
  <2> QED BY <1>1, <1>6, <2>2, <2>3 DEF skip
<1>19. R # <<>> => t.partial < R[1].len
  <2> SUFFICES ASSUME R # <<>> PROVE t.partial < R[1].len
    OBVIOUS
  <2>1. Len(R) # 0
    BY <1>13
  <2>2. t.done + 1 \in 1 .. Len(Q) /\ R[1] = Q[t.done + 1]
    BY <1>1, <1>12, <1>13, <2>1, SMTT(40)
  <2>3. Q[t.done + 1].len \in Nat \ {0}
    <3>1. Q[t.done + 1] \in Block
      BY <1>1, <2>2
    <3> QED BY <3>1 DEF Block
  <2>4. CASE t.done = k
    <3>1. t.done # 0
      BY <1>1, <1>2, <2>2, <2>4
    <3> QED BY <1>6, <2>2, <2>3, <2>4, <3>1 DEF skip
  <2>5. CASE t.done < k
    <3>1. t.done + 1 \in 1 .. k
      BY <1>2, <1>6, <2>5
    <3>2. b[t.done + 1].len = Q[t.done + 1].len - skip
      BY <1>1, <1>4, <1>6, <2>3, <3>1, SMTT(40) DEF skip
    <3> QED BY <1>6, <1>9, <2>2, <2>3, <2>5, <3>2
  <2> QED BY <1>2, <1>6, <2>4, <2>5
<1>20. Queued(R, t.partial, w + ret, g)
  BY <1>6, <1>11, <1>16, <1>17, <1>18, <1>19 DEF Queued
<1> QED BY <1>20 DEF R, Q, t

-----------------------------------------------------------------------------
\* r is q but for what the stream does not depend on.
Keeps(q, r) ==
  r \in PipeState /\ r.out_queue = q.out_queue /\ r.out_partial = q.out_partial

LEMMA PipeFields ==
  ASSUME NEW q \in PipeState
  PROVE  /\ q.in_fd \in {NoFd, 1} /\ q.out_fd \in {NoFd, 1, 2}
         /\ q.out_source \in {"none", "on", "removed"}
         /\ q.in_source \in BOOLEAN /\ q.err_source \in BOOLEAN
         /\ q.child \in BOOLEAN /\ q.connecting \in BOOLEAN
         /\ q.out_queue \in Seq(Block) /\ q.out_partial \in Nat
         /\ q.closing \in BOOLEAN /\ q.closed \in BOOLEAN /\ q.problem \in BOOLEAN
         /\ q.later \in BOOLEAN /\ q.foreign \in BOOLEAN
         /\ q.signals \in Seq({"read", "eof", "close"})
BY DEF PipeState

LEMMA SignalsKeep ==
  ASSUME NEW u \in PipeState, NEW s \in Seq({"read", "eof", "close"})
  PROVE  Keeps(u, [u EXCEPT !.signals = s])
<1> DEFINE S == Seq({"read", "eof", "close"})
<1>1. PipeState =
  [in_fd : {NoFd, 1}, out_fd : {NoFd, 1, 2},
   in_source : BOOLEAN, out_source : {"none", "on", "removed"},
   err_source : BOOLEAN, child : BOOLEAN, connecting : BOOLEAN,
   out_queue : Seq(Block), out_partial : Nat,
   closing : BOOLEAN, closed : BOOLEAN, problem : BOOLEAN, later : BOOLEAN,
   signals : S, foreign : BOOLEAN]
  BY DEF PipeState
<1>2. s \in S
  OBVIOUS
<1> HIDE DEF S
<1> QED BY <1>1, <1>2 DEF Keeps

LEMMA CloseImmediatelyKeeps ==
  ASSUME NEW q \in PipeState, NEW problem \in BOOLEAN
  PROVE  Keeps(q, CloseImmediately(q, problem))
<1> DEFINE stopped(f) == [q EXCEPT !.in_source = f, !.out_source = "none", !.err_source = f,
                                   !.in_fd = NoFd, !.out_fd = NoFd]
<1>0. \A f \in BOOLEAN : Keeps(q, stopped(f))
  BY DEF PipeState, Keeps
<1>1. ASSUME NEW u \in PipeState, NEW t \in BOOLEAN, NEW p \in BOOLEAN,
             NEW x \in BOOLEAN, NEW s \in Seq({"read", "eof", "close"})
      PROVE  Keeps(u, [u EXCEPT !.closed = t, !.problem = p, !.foreign = x, !.signals = s])
  <2> DEFINE v == [u EXCEPT !.closed = t, !.problem = p, !.foreign = x]
  <2>1. Keeps(u, v)
    BY ZenonT(60) DEF PipeState, Keeps
  <2>2. [u EXCEPT !.closed = t, !.problem = p, !.foreign = x, !.signals = s]
          = [v EXCEPT !.signals = s]
    BY DEF PipeState
  <2> HIDE DEF v
  <2>3. Keeps(v, [v EXCEPT !.signals = s])
    BY <2>1, SignalsKeep DEF Keeps
  <2> QED BY <2>1, <2>2, <2>3 DEF Keeps
<1> DEFINE p == q.problem \/ problem
           x == q.foreign \/ (q.in_fd = q.out_fd /\ q.in_fd # NoFd)
           s == IF q.child THEN q.signals ELSE Append(q.signals, "close")
<1>2. p \in BOOLEAN /\ x \in BOOLEAN
  OBVIOUS
<1>3. s \in Seq({"read", "eof", "close"})
  <2>1. "close" \in {"read", "eof", "close"} /\ q.signals \in Seq({"read", "eof", "close"})
    BY PipeFields
  <2>2. Append(q.signals, "close") \in Seq({"read", "eof", "close"})
    BY <2>1, AppendProperties
  <2> QED BY <2>1, <2>2
<1>4. CASE q.closed
  BY <1>4 DEF CloseImmediately, Keeps
<1>5. CASE ~q.closed
  <2> DEFINE u == stopped(FALSE)
  <2>1. CloseImmediately(q, problem)
          = [u EXCEPT !.closed = TRUE, !.problem = p, !.foreign = x, !.signals = s]
    BY <1>5 DEF CloseImmediately
  <2>2. Keeps(q, u)
    BY <1>0
  <2> HIDE DEF u, p, x, s
  <2>3. u \in PipeState
    BY <2>2 DEF Keeps
  <2>4. \A t \in BOOLEAN :
          Keeps(u, [u EXCEPT !.closed = t, !.problem = p, !.foreign = x, !.signals = s])
    BY <1>1, <1>2, <1>3, <2>3
  <2>5. Keeps(u, CloseImmediately(q, problem))
    BY <2>1, <2>4
  <2> QED BY <2>2, <2>5 DEF Keeps
<1> QED BY <1>4, <1>5

LEMMA CloseMaybeKeeps ==
  ASSUME NEW q \in PipeState
  PROVE  Keeps(q, CloseMaybe(q))
<1>1. Keeps(q, CloseImmediately(q, FALSE))
  BY CloseImmediatelyKeeps
<1>2. Keeps(q, q)
  BY DEF Keeps
<1> QED BY <1>1, <1>2 DEF CloseMaybe

LEMMA CloseOutputKeeps ==
  ASSUME NEW q \in PipeState, NEW r \in CloseOutput(q)
  PROVE  Keeps(q, r)
<1> DEFINE in == IF q.in_fd = q.out_fd THEN NoFd ELSE q.in_fd
           on == q.in_source /\ q.in_fd # q.out_fd
           s == [q EXCEPT !.out_fd = NoFd, !.in_fd = in, !.in_source = on]
<1>1. in \in {NoFd, 1} /\ on \in BOOLEAN
  BY PipeFields
<1>2. r = CloseMaybe(q) \/ r = CloseImmediately(q, TRUE) \/ r = CloseMaybe(s)
  BY DEF CloseOutput
<1> HIDE DEF in, on
<1>3. Keeps(q, s)
  BY <1>1 DEF PipeState, Keeps
<1> HIDE DEF s
<1>4. Keeps(s, CloseMaybe(s))
  BY <1>3, CloseMaybeKeeps DEF Keeps
<1>5. Keeps(q, CloseMaybe(s))
  BY <1>3, <1>4 DEF Keeps
<1>6. Keeps(q, CloseMaybe(q)) /\ Keeps(q, CloseImmediately(q, TRUE))
  BY CloseMaybeKeeps, CloseImmediatelyKeeps
<1> QED BY <1>2, <1>5, <1>6

LEMMA OutputDoneKeeps ==
  ASSUME NEW q \in PipeState, NEW r \in OutputDone(q)
  PROVE  Keeps(q, r)
<1> DEFINE s == [q EXCEPT !.out_source = "none"]
<1>1. r = q \/ r = CloseMaybe(s) \/ r \in CloseOutput(s)
  BY DEF OutputDone
<1>2. Keeps(q, s)
  BY DEF PipeState, Keeps
<1> HIDE DEF s
<1>3. CASE r = q
  BY <1>3 DEF Keeps
<1>4. CASE r = CloseMaybe(s)
  <2>1. Keeps(s, r)
    BY <1>2, <1>4, CloseMaybeKeeps DEF Keeps
  <2> QED BY <1>2, <2>1 DEF Keeps
<1>5. CASE r \in CloseOutput(s)
  <2>1. Keeps(s, r)
    BY <1>2, <1>5, CloseOutputKeeps DEF Keeps
  <2> QED BY <1>2, <2>1 DEF Keeps
<1> QED BY <1>1, <1>3, <1>4, <1>5

\* The inductive invariant: the bytes written are the first ones given, and
\* the queue has those after them.
Stream ==
  /\ kind \in Kinds /\ pipe \in PipeState /\ reading \in {"none", "read", "eof"}
  /\ disposed \in BOOLEAN /\ given \in Nat
  /\ wire \in Seq(Nat) /\ wire = Run(0, Len(wire))
  /\ disposed => pipe.out_queue = <<>>
  /\ ~disposed => Queued(pipe.out_queue, pipe.out_partial, Len(wire), given)

LEMMA InitStream == Init => Stream
<1> SUFFICES ASSUME Init PROVE Stream
  OBVIOUS
<1>1. pipe \in PipeState /\ pipe.out_queue = <<>> /\ pipe.out_partial = 0
  <2> DEFINE rec(a, b, x, o, y, z, c, f) ==
        [in_fd |-> a, out_fd |-> b, in_source |-> x, out_source |-> o,
         err_source |-> y, child |-> z, connecting |-> c,
         out_queue |-> <<>>, out_partial |-> 0,
         closing |-> f, closed |-> f, problem |-> ~x, later |-> ~x,
         signals |-> <<>>, foreign |-> f]
  <2>1. ASSUME NEW a \in {NoFd, 1}, NEW b \in {NoFd, 1, 2},
               NEW o \in {"none", "on", "removed"},
               NEW x \in BOOLEAN, NEW y \in BOOLEAN, NEW z \in BOOLEAN,
               NEW c \in BOOLEAN, NEW f \in BOOLEAN
        PROVE  rec(a, b, x, o, y, z, c, f) \in PipeState
    BY DEF PipeState
  <2> DEFINE a0 == IF kind # "failed" THEN 1 ELSE NoFd
             b0 == IF ~(kind # "failed") THEN NoFd ELSE IF SameFd(kind) THEN 1 ELSE 2
             o0 == IF kind # "failed" THEN "on" ELSE "none"
             x0 == kind # "failed"
             y0 == kind = "spawn"
             z0 == kind \in {"pair", "spawn", "pty"}
             c0 == kind = "connect"
  <2>2. x0 \in BOOLEAN /\ y0 \in BOOLEAN /\ z0 \in BOOLEAN /\ c0 \in BOOLEAN
    OBVIOUS
  <2>3. a0 \in {NoFd, 1} /\ b0 \in {NoFd, 1, 2} /\ o0 \in {"none", "on", "removed"}
    OBVIOUS
  <2>4. NewPipe(kind) \in PipeState
    <3>1. NewPipe(kind) = rec(a0, b0, x0, o0, y0, z0, c0, FALSE)
      BY DEF NewPipe
    <3> HIDE DEF rec, a0, b0, o0, x0, y0, z0, c0
    <3>2. \A f \in BOOLEAN : rec(a0, b0, x0, o0, y0, z0, c0, f) \in PipeState
      BY <2>1, <2>2, <2>3
    <3> QED BY <3>1, <3>2
  <2>5. NewPipe(kind).out_queue = <<>> /\ NewPipe(kind).out_partial = 0
    BY DEF NewPipe
  <2> QED BY <2>4, <2>5 DEF Init
<1>2. Len(wire) = 0 /\ wire \in Seq(Nat) /\ given = 0 /\ wire = <<>>
  BY DEF Init
<1>3. Run(0, 0) = <<>>
  <2>1. Run(0, 0) \in Seq(Nat) /\ Len(Run(0, 0)) = 0
    BY RunsJoin
  <2> QED BY <2>1, EmptySeq
<1>4. Line(<<>>, 0) /\ End(<<>>, 0, Len(<<>>)) = 0
  BY DEF Line, End
<1>5. Queued(<<>>, 0, 0, 0)
  BY <1>4 DEF Queued
<1>6. Queued(pipe.out_queue, pipe.out_partial, Len(wire), given)
  BY <1>1, <1>2, <1>5, Zenon
<1>7. kind \in Kinds /\ reading \in {"none", "read", "eof"} /\ disposed = FALSE
  BY DEF Init
<1>8. wire = Run(0, Len(wire)) /\ given \in Nat
  BY <1>2, <1>3
<1> QED BY <1>1, <1>2, <1>6, <1>7, <1>8 DEF Stream

LEMMA KeepsStream ==
  ASSUME Stream, Keeps(pipe, pipe'), UNCHANGED <<kind, disposed, given, wire>>,
         reading' \in {"none", "read", "eof"}
  PROVE  Stream'
BY DEF Stream, Keeps

\* cockpit_pipe_write: the block goes after the last one.
LEMMA WriteStream ==
  ASSUME Stream, NEW len \in Sizes, Write(len)
  PROVE  Stream'
<1> DEFINE Q == pipe.out_queue
           p == pipe.out_partial
           w == Len(wire)
           x == [at |-> given, len |-> len]
           R == Append(Q, x)
           o == IF pipe.out_source = "none" /\ pipe.out_fd # NoFd THEN "on" ELSE pipe.out_source
<1>1. len \in Nat \ {0} /\ given \in Nat /\ w \in Nat
  BY PipeAssumption DEF Stream
<1>2. x \in Block /\ x.at = given /\ x.len = len
  BY <1>1 DEF Block
<1>3. ~disposed /\ ~disposed' /\ Queued(Q, p, w, given)
  BY DEF Write, MayCall, Stream
<1>4. /\ p \in Nat /\ p <= w /\ w - p \in Nat /\ Q \in Seq(Block) /\ Len(Q) \in Nat
      /\ End(Q, w - p, Len(Q)) = given /\ (Q = <<>> => p = 0) /\ (Q # <<>> => p < Q[1].len)
      /\ \A i \in 1 .. Len(Q) : Q[i].at = End(Q, w - p, i - 1)
  BY <1>3 DEF Queued, Line
<1>5. pipe' \in PipeState /\ pipe'.out_queue = R /\ pipe'.out_partial = p
  <2>1. R \in Seq(Block)
    BY <1>2, <1>4
  <2>2. pipe \in PipeState /\ o \in {"none", "on", "removed"}
    BY PipeFields DEF Stream
  <2>3. pipe' = [pipe EXCEPT !.out_queue = R, !.out_source = o]
    BY DEF Write
  <2> HIDE DEF R, o
  <2> QED BY <2>1, <2>2, <2>3 DEF PipeState
<1> HIDE DEF Q, p, w, x
<1>6. /\ R \in Seq(Block) /\ R # <<>> /\ Len(R) = Len(Q) + 1
      /\ (\A i \in 1 .. Len(Q) : R[i] = Q[i]) /\ R[Len(Q) + 1] = x
  BY <1>2, <1>4, AppendProperties
<1> HIDE DEF R
<1>7. \A i \in 0 .. Len(Q) : End(R, w - p, i) = End(Q, w - p, i)
  BY <1>4, <1>6 DEF End
<1>8. ASSUME NEW i \in 1 .. Len(R)
      PROVE  R[i].at = End(R, w - p, i - 1)
  <2>1. CASE i \in 1 .. Len(Q)
    <3>1. i - 1 \in 0 .. Len(Q)
      BY <1>4, <2>1
    <3> QED BY <1>4, <1>6, <1>7, <2>1, <3>1
  <2>2. CASE i = Len(Q) + 1
    <3>1. i - 1 = Len(Q) /\ Len(Q) \in 0 .. Len(Q)
      BY <1>4, <2>2
    <3> QED BY <1>2, <1>4, <1>6, <1>7, <2>2, <3>1
  <2> QED BY <1>4, <1>6, <2>1, <2>2
<1>9. Line(R, w - p)
  BY <1>4, <1>6, <1>8 DEF Line
<1>10. End(R, w - p, Len(R)) = given + len
  BY <1>2, <1>4, <1>6 DEF End
<1>11. p < R[1].len
  <2>1. CASE Q = <<>>
    <3>1. R[1] = x
      BY <1>6, <2>1
    <3> QED BY <1>1, <1>2, <1>4, <2>1, <3>1
  <2>2. CASE Q # <<>>
    <3>1. 1 \in 1 .. Len(Q)
      BY <1>4, <2>2, EmptySeq
    <3> QED BY <1>4, <1>6, <2>2, <3>1
  <2> QED BY <2>1, <2>2
<1>12. Queued(R, p, w, given + len)
  BY <1>1, <1>4, <1>6, <1>9, <1>10, <1>11 DEF Queued
<1>13. UNCHANGED <<kind, reading, disposed, wire>> /\ given' = given + len
  BY DEF Write
<1>14. Queued(pipe'.out_queue, pipe'.out_partial, Len(wire'), given')
  BY <1>5, <1>12, <1>13, Zenon DEF w
<1>15. given' \in Nat
  BY <1>1, <1>13
<1> QED BY <1>3, <1>5, <1>13, <1>14, <1>15 DEF Stream

\* cockpit_pipe_dispose drops the queue.
LEMMA DisposeStream ==
  ASSUME Stream, Dispose
  PROVE  Stream'
<1> DEFINE q == CloseImmediately(pipe, TRUE)
           e == <<>>
<1>1. q \in PipeState
  BY CloseImmediatelyKeeps DEF Stream, Keeps
<1>2. e \in Seq(Block)
  OBVIOUS
<1>3. pipe' = [q EXCEPT !.out_queue = e] /\ disposed' = TRUE
  BY DEF Dispose
<1> HIDE DEF q, e
<1>4. pipe' \in PipeState /\ pipe'.out_queue = e
  BY <1>1, <1>2, <1>3 DEF PipeState
<1> QED BY <1>3, <1>4 DEF Stream, Dispose, e

\* dispatch_output: what is written comes next in the stream.
LEMMA OutputStream ==
  ASSUME Stream, NEW n \in 0 .. MaxBytes, OutputWrites(n)
  PROVE  Stream'
<1> DEFINE Q == pipe.out_queue
           w == Len(wire)
           b == Bytes(Iov(pipe))
           k == IF Len(Q) < IovMax THEN Len(Q) ELSE IovMax
           R == SubSeq(Q, Wrote(pipe, n).done + 1, Len(Q))
           m == Wrote(pipe, n).partial
<1>1. n \in Nat /\ w \in Nat /\ n <= Len(b) /\ wire' = wire \o SubSeq(b, 1, n)
  BY PipeAssumption DEF OutputWrites, Stream
<1>2. ~disposed /\ ~disposed' /\ Queued(Q, pipe.out_partial, w, given)
  BY DEF OutputWrites, InLoop, Stream
<1>3. Queued(R, m, w + n, given)
  BY <1>1, <1>2, AccountQueued
<1>4. R \in Seq(Block) /\ m \in Nat
  BY <1>3 DEF Queued, Line
<1>5. b = Run(w, Len(b)) /\ Len(b) \in Nat
  <2>1. Len(Q) \in Nat
    BY <1>2 DEF Queued, Line
  <2>2. k \in 0 .. Len(Q)
    BY <2>1, PipeAssumption
  <2>3. Iov(pipe) = Left(Q, pipe.out_partial, k)
    BY DEF Iov, Left
  <2> HIDE DEF k, Q, w, b
  <2>4. Line(Iov(pipe), w)
    BY <1>2, <2>2, <2>3, LeftIsLine
  <2>5. PICK d \in Nat : b = Run(w, d)
    <3> DEFINE e == End(Iov(pipe), w, Len(Iov(pipe)))
    <3>1. e \in Nat /\ e >= w /\ b = Run(w, e - w)
      BY <2>4, BytesOfLine DEF b
    <3> HIDE DEF e
    <3>2. e - w \in Nat
      BY <1>1, <3>1
    <3> QED BY <3>1, <3>2
  <2>6. Len(b) = d
    BY <1>1, <2>5, RunsJoin
  <2> QED BY <2>5, <2>6
<1>6. SubSeq(b, 1, n) = Run(w, n)
  <2> HIDE DEF b, w
  <2>1. Run(w, n) \in Seq(Nat) /\ Len(Run(w, n)) = n /\ b \in Seq(Nat)
    BY <1>1, <1>5, RunsJoin
  <2>2. \A i \in 1 .. n : Run(w, n)[i] = w + i /\ b[i] = w + i
    BY <1>1, <1>5 DEF Run
  <2>3. /\ SubSeq(b, 1, n) \in Seq(Nat) /\ Len(SubSeq(b, 1, n)) = n
        /\ \A i \in 1 .. n : SubSeq(b, 1, n)[i] = b[i]
    BY <1>1, <1>5, <2>1
  <2> QED BY <2>1, <2>2, <2>3, SeqEqual
<1>7. wire' = Run(0, w + n) /\ wire' \in Seq(Nat) /\ Len(wire') = w + n
  <2> HIDE DEF b
  <2>1. wire = Run(0, w)
    BY DEF Stream
  <2> HIDE DEF w
  <2>2. wire' = Run(0, w) \o Run(w, n)
    BY <1>1, <1>6, <2>1
  <2>3. Run(0, w) \o Run(0 + w, n) = Run(0, w + n)
    BY <1>1, RunsJoin
  <2>4. 0 + w = w /\ w + n \in Nat
    BY <1>1
  <2>5. Run(0, w + n) \in Seq(Nat) /\ Len(Run(0, w + n)) = w + n
    BY <2>4, RunsJoin
  <2> QED BY <2>2, <2>3, <2>4, <2>5
<1>8. pipe' \in PipeState /\ pipe'.out_queue = R /\ pipe'.out_partial = m
  <2>1. PICK c \in {FALSE, pipe.connecting} :
           pipe' \in OutputDone([Account(pipe, n) EXCEPT !.connecting = c])
    BY DEF OutputWrites
  <2>2. pipe \in PipeState /\ c \in BOOLEAN
    BY PipeFields DEF Stream
  <2> DEFINE a == Account(pipe, n)
             q == [a EXCEPT !.connecting = c]
  <2>3. a = [pipe EXCEPT !.out_queue = R, !.out_partial = m]
    BY DEF Account
  <2> HIDE DEF a, R, m
  <2>4. a \in PipeState /\ a.out_queue = R /\ a.out_partial = m
    BY <1>4, <2>2, <2>3 DEF PipeState
  <2>5. q \in PipeState /\ q.out_queue = R /\ q.out_partial = m
    BY <2>2, <2>4 DEF PipeState
  <2>6. pipe' \in OutputDone(q)
    BY <2>1 DEF a
  <2> HIDE DEF q
  <2> QED BY <2>5, <2>6, OutputDoneKeeps DEF Keeps
<1> HIDE DEF R, m, w, b
<1> QED BY <1>1, <1>2, <1>3, <1>7, <1>8 DEF Stream, OutputWrites

LEMMA NextStream == Stream /\ [Next]_vars => Stream'
<1> SUFFICES ASSUME Stream, [Next]_vars PROVE Stream'
  OBVIOUS
<1>1. pipe \in PipeState /\ Keeps(pipe, pipe)
  BY DEF Stream, Keeps
<1>2. reading \in {"none", "read", "eof"}
  BY DEF Stream
<1>3. ASSUME NEW len \in Sizes, Write(len) PROVE Stream'
  BY <1>3, WriteStream
<1>4. CASE CloseProblem \/ CloseOrderly
  <2> DEFINE q == [pipe EXCEPT !.closing = TRUE]
  <2>1. Keeps(pipe, q)
    <3>1. \A t \in BOOLEAN : Keeps(pipe, [pipe EXCEPT !.closing = t])
      BY <1>1 DEF PipeState, Keeps
    <3> QED BY <3>1
  <2>2. \/ pipe' = CloseImmediately(q, TRUE) \/ pipe' \in CloseOutput(q) \/ pipe' = q
    BY <1>4 DEF CloseProblem, CloseOrderly
  <2>3. UNCHANGED <<kind, reading, disposed, given, wire>>
    BY <1>4 DEF CloseProblem, CloseOrderly
  <2> HIDE DEF q
  <2>4. Keeps(q, pipe')
    BY <2>1, <2>2, CloseImmediatelyKeeps, CloseOutputKeeps DEF Keeps
  <2>5. Keeps(pipe, pipe')
    BY <2>1, <2>4 DEF Keeps
  <2> QED BY <1>2, <2>3, <2>5, KeepsStream
<1>5. CASE Dispose
  BY <1>5, DisposeStream
<1>6. CASE InputData \/ InputEnd
  <2> DEFINE s == IF reading' = "read" THEN "read" ELSE "eof"
             q(f) == [pipe EXCEPT !.in_source = f]
  <2>1. reading' \in {"read", "eof"} /\ UNCHANGED <<kind, disposed, given, wire>>
    BY <1>6 DEF InputData, InputEnd
  <2>2. \A f \in BOOLEAN : Keeps(pipe, q(f))
    BY <1>1 DEF PipeState, Keeps
  <2>3. PICK u \in PipeState : /\ Keeps(pipe, u) /\ u.signals = pipe.signals
                               /\ pipe' = [u EXCEPT !.signals = Append(pipe.signals, s)]
    <3>1. CASE InputData
      BY <1>1, <3>1 DEF InputData
    <3>2. CASE InputEnd
      <4>1. Keeps(pipe, q(FALSE))
        BY <2>2
      <4>2. q(FALSE).signals = pipe.signals
        BY <1>1 DEF PipeState
      <4>3. pipe' = [q(FALSE) EXCEPT !.signals = Append(pipe.signals, s)]
        BY <1>1, <3>2 DEF InputEnd, PipeState
      <4> HIDE DEF q
      <4> QED BY <4>1, <4>2, <4>3 DEF Keeps
    <3> QED BY <1>6, <3>1, <3>2
  <2>4. Append(pipe.signals, s) \in Seq({"read", "eof", "close"})
    <3>1. s \in {"read", "eof", "close"} /\ pipe.signals \in Seq({"read", "eof", "close"})
      BY <1>1, PipeFields
    <3> HIDE DEF s
    <3> QED BY <3>1, AppendProperties
  <2> DEFINE t == Append(pipe.signals, s)
  <2> HIDE DEF s, t
  <2>5. Keeps(u, [u EXCEPT !.signals = t])
    BY <2>4, SignalsKeep DEF t
  <2>6. Keeps(pipe, pipe')
    BY <2>3, <2>5 DEF Keeps, t
  <2> QED BY <2>1, <2>6, KeepsStream
<1>7. CASE InputFails
  BY <1>1, <1>2, <1>7, CloseImmediatelyKeeps, KeepsStream DEF InputFails
<1>8. CASE ReadReturn
  BY <1>1, <1>8, CloseMaybeKeeps, KeepsStream DEF ReadReturn
<1>9. CASE ErrorEnd
  <2> DEFINE q == [pipe EXCEPT !.err_source = FALSE]
  <2>1. Keeps(pipe, q)
    <3>1. \A t \in BOOLEAN : Keeps(pipe, [pipe EXCEPT !.err_source = t])
      BY <1>1 DEF PipeState, Keeps
    <3> QED BY <3>1
  <2>2. pipe' = CloseMaybe(q) \/ pipe' = CloseImmediately(pipe, TRUE)
    BY <1>9 DEF ErrorEnd
  <2>3. UNCHANGED <<kind, reading, disposed, given, wire>>
    BY <1>9 DEF ErrorEnd
  <2> HIDE DEF q
  <2>4. Keeps(q, CloseMaybe(q)) /\ Keeps(pipe, CloseImmediately(pipe, TRUE))
    BY <1>1, <2>1, CloseMaybeKeeps, CloseImmediatelyKeeps DEF Keeps
  <2>5. Keeps(pipe, pipe')
    BY <2>1, <2>2, <2>4 DEF Keeps
  <2> QED BY <1>2, <2>3, <2>5, KeepsStream
<1>10. ASSUME NEW n \in 0 .. MaxBytes, OutputWrites(n) PROVE Stream'
  BY <1>10, OutputStream
<1>11. CASE OutputBlocks \/ OutputFails
  <2>1. PICK c \in {FALSE, pipe.connecting} :
          \/ pipe' = [pipe EXCEPT !.out_source = "removed", !.connecting = c]
          \/ pipe' = CloseImmediately([pipe EXCEPT !.connecting = c], TRUE)
    BY <1>11 DEF OutputBlocks, OutputFails
  <2>2. c \in BOOLEAN
    BY <1>1, PipeFields
  <2>3. Keeps(pipe, [pipe EXCEPT !.out_source = "removed", !.connecting = c])
    BY <1>1, <2>2 DEF PipeState, Keeps
  <2> DEFINE q == [pipe EXCEPT !.connecting = c]
  <2>4. Keeps(pipe, q)
    BY <1>1, <2>2 DEF PipeState, Keeps
  <2>5. Keeps(pipe, CloseImmediately(q, TRUE))
    <3> HIDE DEF q
    <3>1. Keeps(q, CloseImmediately(q, TRUE))
      BY <2>4, CloseImmediatelyKeeps DEF Keeps
    <3> QED BY <2>4, <3>1 DEF Keeps
  <2>6. Keeps(pipe, pipe')
    BY <2>1, <2>3, <2>5
  <2>7. UNCHANGED <<kind, reading, disposed, given, wire>>
    BY <1>11 DEF OutputBlocks, OutputFails
  <2> QED BY <1>2, <2>6, <2>7, KeepsStream
<1>12. CASE Reap
  <2> DEFINE q == [pipe EXCEPT !.child = FALSE]
             t == IF pipe.closed THEN Append(pipe.signals, "close") ELSE pipe.signals
  <2>1. Keeps(pipe, q)
    <3>1. \A f \in BOOLEAN : Keeps(pipe, [pipe EXCEPT !.child = f])
      BY <1>1 DEF PipeState, Keeps
    <3> QED BY <3>1
  <2>2. t \in Seq({"read", "eof", "close"})
    <3>1. "close" \in {"read", "eof", "close"} /\ pipe.signals \in Seq({"read", "eof", "close"})
      BY <1>1, PipeFields
    <3>2. Append(pipe.signals, "close") \in Seq({"read", "eof", "close"})
      BY <3>1, AppendProperties
    <3> QED BY <3>1, <3>2
  <2>3. pipe' = [q EXCEPT !.signals = t] /\ UNCHANGED <<kind, reading, disposed, given, wire>>
    BY <1>1, <1>12 DEF Reap, PipeState
  <2> HIDE DEF q, t
  <2>4. Keeps(q, [q EXCEPT !.signals = t])
    BY <2>1, <2>2, SignalsKeep DEF Keeps
  <2>5. Keeps(pipe, pipe')
    BY <2>1, <2>3, <2>4 DEF Keeps
  <2> QED BY <1>2, <2>3, <2>5, KeepsStream
<1>13. CASE LaterClose
  <2> DEFINE q == [pipe EXCEPT !.later = FALSE]
  <2>1. Keeps(pipe, q)
    <3>1. \A t \in BOOLEAN : Keeps(pipe, [pipe EXCEPT !.later = t])
      BY <1>1 DEF PipeState, Keeps
    <3> QED BY <3>1
  <2>2. pipe' = CloseImmediately(q, FALSE) /\ UNCHANGED <<kind, reading, disposed, given, wire>>
    BY <1>13 DEF LaterClose
  <2> HIDE DEF q
  <2>3. Keeps(q, pipe')
    BY <2>1, <2>2, CloseImmediatelyKeeps DEF Keeps
  <2>4. Keeps(pipe, pipe')
    BY <2>1, <2>3 DEF Keeps
  <2> QED BY <1>2, <2>2, <2>4, KeepsStream
<1>14. CASE UNCHANGED vars
  BY <1>14 DEF Stream, vars
<1> QED
  BY <1>3, <1>4, <1>5, <1>6, <1>7, <1>8, <1>9, <1>10, <1>11, <1>12, <1>13, <1>14
     DEF Next

LEMMA StreamTypes == Stream => TypeOK
<1> SUFFICES ASSUME Stream PROVE TypeOK
  OBVIOUS
<1>1. pipe.out_queue # <<>> => pipe.out_partial < pipe.out_queue[1].len
  BY DEF Stream, Queued
<1> QED BY <1>1 DEF Stream, TypeOK

LEMMA StreamIsIntact == Stream => StreamIntact
<1> SUFFICES ASSUME Stream, ~disposed PROVE StreamIntact
  BY DEF StreamIntact
<1> DEFINE Q == pipe.out_queue
           p == pipe.out_partial
           w == Len(wire)
           rest == Left(Q, p, Len(Q))
           e == End(rest, w, Len(rest))
<1>1. Queued(Q, p, w, given) /\ w \in Nat /\ Len(Q) \in Nat /\ given \in Nat
  BY DEF Stream, Queued, Line
<1>2. /\ Line(rest, w) /\ Len(rest) = Len(Q)
      /\ \A i \in 1 .. Len(Q) : End(rest, w, i) = End(Q, w - p, i)
  <2>1. Len(Q) \in 0 .. Len(Q)
    BY <1>1
  <2> HIDE DEF Q, p, w
  <2> QED BY <1>1, <2>1, LeftIsLine
<1>3. wire = Run(0, w)
  BY DEF Stream
<1>4. Run(0, given) = [i \in 1 .. given |-> i]
  <2>1. \A i \in 1 .. given : 0 + i = i
    BY <1>1
  <2> QED BY <2>1 DEF Run
<1>5. StreamIntact <=> wire \o Bytes(rest) = [i \in 1 .. given |-> i]
  BY DEF StreamIntact, Left
<1>6. e = given
  <2>1. CASE Len(Q) = 0
    <3>1. Q = <<>> /\ p = 0
      BY <1>1, <2>1 DEF Queued, Line
    <3>2. w - p = given
      BY <1>1, <2>1 DEF Queued, End
    <3>3. e = w
      BY <1>2, <2>1 DEF End
    <3> QED BY <1>1, <3>1, <3>2, <3>3
  <2>2. CASE Len(Q) # 0
    <3>1. Len(Q) \in 1 .. Len(Q)
      BY <1>1, <2>2
    <3> QED BY <1>1, <1>2, <3>1 DEF Queued
  <2> QED BY <2>1, <2>2
<1> HIDE DEF rest, w
<1>7. e \in Nat /\ e >= w /\ Bytes(rest) = Run(w, e - w)
  BY <1>2, BytesOfLine
<1> HIDE DEF e
<1>8. PICK d \in Nat : d = e - w
  BY <1>1, <1>7
<1>9. Run(0, w) \o Run(0 + w, d) = Run(0, w + d)
  BY <1>1, RunsJoin, ZenonT(60)
<1>10. 0 + w = w /\ w + d = given
  BY <1>1, <1>6, <1>7, <1>8
<1> QED BY <1>3, <1>4, <1>5, <1>7, <1>8, <1>9, <1>10

(***************************************************************************)
(* For any blocks and any number of them per writev: the variables have    *)
(* their types, and g_assert (partial < iov[i].iov_len) of dispatch_output *)
(* holds: what is written of the first block is less than the block.       *)
(***************************************************************************)
THEOREM PipeTypes == Spec => []TypeOK
<1> QED
  BY InitStream, NextStream, StreamTypes, PTL DEF Spec

(***************************************************************************)
(* What is on the wire and then what is queued are the bytes given to      *)
(* cockpit_pipe_write, in order, whatever part of the blocks each writev   *)
(* of dispatch_output takes.                                               *)
(***************************************************************************)
THEOREM StreamKept == Spec => []StreamIntact
<1> QED
  BY InitStream, NextStream, StreamIsIntact, PTL DEF Spec
=============================================================================
