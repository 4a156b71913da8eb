-------------------------------- MODULE Pipe ---------------------------------
(***************************************************************************)
(* CockpitPipe (src/common/cockpitpipe.c): the file descriptors of a       *)
(* process or of a socket, read and written from the main loop.  Blocks to *)
(* write are queued; a source watches each descriptor; the child process,  *)
(* if there is one, is watched too.  The "close" signal waits for all of   *)
(* them.  A "read" handler runs on the same stack and may write to or      *)
(* close the pipe.                                                         *)
(*                                                                         *)
(* Bytes are numbered in the order they are given to cockpit_pipe_write; a *)
(* block is [at, len], the bytes at + 1 .. at + len.                       *)
(***************************************************************************)
EXTENDS Integers, Sequences

CONSTANTS Kinds,         \* the kinds of pipe that may be created
          Sizes,         \* lengths of blocks
          MaxBytes,      \* bound: bytes given
          MaxReads,      \* bound: reads that return data
          IovMax,        \* blocks per writev: 4 in the code
          MayBlock       \* writev may fail with EAGAIN or EINTR

ASSUME PipeAssumption ==
  /\ Kinds \subseteq {"connect", "new", "pair", "spawn", "pty", "failed"}
  /\ Sizes \subseteq Nat \ {0}
  /\ MaxBytes \in Nat /\ MaxReads \in Nat /\ IovMax \in Nat \ {0}
  /\ MayBlock \in BOOLEAN

VARIABLES kind,          \* how the pipe was created
          pipe,          \* the CockpitPipe
          reading,       \* the "read" signal being emitted, if any
          disposed,      \* the last reference is gone
          given,         \* bytes accepted by cockpit_pipe_write
          wire           \* the bytes written, in order

vars == <<kind, pipe, reading, disposed, given, wire>>

NoFd == 0

\* in_fd and out_fd are one descriptor, which is a socket in two cases
SameFd(k) == k \in {"connect", "pair", "pty"}

IsSocket(k) == k \in {"connect", "pair"}

\* cockpit_pipe_new, _connect, _spawn, _pty, and a pipe on one end of a
\* socket pair whose other end a process has: the constructed pipe starts to
\* read and to write at once; a failed one has nothing to watch
NewPipe(k) ==
  LET up == k # "failed"
  IN  [in_fd  |-> IF up THEN 1 ELSE NoFd,
       out_fd |-> IF ~up THEN NoFd ELSE IF SameFd(k) THEN 1 ELSE 2,
       in_source  |-> up,
       out_source |-> IF up THEN "on" ELSE "none",
       err_source |-> k = "spawn",
       child      |-> k \in {"pair", "spawn", "pty"},
       connecting |-> k = "connect",
       out_queue |-> <<>>, out_partial |-> 0,
       closing |-> FALSE, closed |-> FALSE, problem |-> ~up,
       later |-> ~up,            \* cockpit_close_later
       signals |-> <<>>,         \* history: the signals emitted
       foreign |-> FALSE]        \* history: closed a number not its own

Init ==
  /\ kind \in Kinds
  /\ pipe = NewPipe(kind)
  /\ reading = "none"
  /\ disposed = FALSE
  /\ given = 0
  /\ wire = <<>>

Emitted(s) == \E i \in DOMAIN pipe.signals : pipe.signals[i] = s

-----------------------------------------------------------------------------
(* Closing. *)

\* Mutant: the close signal does not wait for the child.
CloseImmediatelyUnreaped(q, problem) ==
  IF q.closed THEN q
  ELSE [q EXCEPT !.closed = TRUE, !.problem = @ \/ problem,
                 !.in_source = FALSE, !.out_source = "none", !.err_source = FALSE,
                 !.in_fd = NoFd, !.out_fd = NoFd,
                 !.foreign = @ \/ (q.in_fd = q.out_fd /\ q.in_fd # NoFd),
                 !.signals = Append(@, "close")]

\* close_immediately
CloseImmediately(q, problem) ==
  IF q.closed THEN q
  ELSE [q EXCEPT !.closed = TRUE, !.problem = @ \/ problem,
                 !.in_source = FALSE, !.out_source = "none", !.err_source = FALSE,
                 !.in_fd = NoFd, !.out_fd = NoFd,
                 !.foreign = @ \/ (q.in_fd = q.out_fd /\ q.in_fd # NoFd),
                 !.signals = IF q.child THEN @ ELSE Append(@, "close")]

\* Mutant: output under way is not waited for.
CloseMaybeEarly(q) ==
  IF ~q.in_source /\ ~q.err_source THEN CloseImmediately(q, FALSE) ELSE q

\* close_maybe
CloseMaybe(q) ==
  IF ~q.in_source /\ q.out_source = "none" /\ ~q.err_source
    THEN CloseImmediately(q, FALSE) ELSE q

\* close_output: what the pipe may be after it.  A socket is shut down,
\* which may fail; anything else is closed.
CloseOutput(q) ==
  IF q.out_fd = NoFd THEN {CloseMaybe(q)}
  ELSE IF IsSocket(kind) THEN {CloseMaybe(q), CloseImmediately(q, TRUE)}
  ELSE {CloseMaybe([q EXCEPT !.out_fd = NoFd,
                             !.in_fd = IF q.in_fd = q.out_fd THEN NoFd ELSE @,
                             !.in_source = @ /\ q.in_fd # q.out_fd])}

-----------------------------------------------------------------------------
(* Calls of the owner, from the main loop or from a "read" handler. *)

MayCall == ~disposed /\ ~Emitted("close")

\* Mutant: a stopped output is not started again.
WriteUnstarted(len) ==
  /\ MayCall /\ ~pipe.closing
  /\ given + len <= MaxBytes
  /\ ~pipe.closed
  /\ pipe' = [pipe EXCEPT !.out_queue = Append(@, [at |-> given, len |-> len])]
  /\ given' = given + len
  /\ UNCHANGED <<kind, reading, disposed, wire>>

\* cockpit_pipe_write; dropped while the closed pipe waits for its child
Write(len) ==
  /\ MayCall /\ ~pipe.closing
  /\ given + len <= MaxBytes
  /\ ~pipe.closed
  /\ pipe' = [pipe EXCEPT !.out_queue = Append(@, [at |-> given, len |-> len]),
                          !.out_source = IF @ = "none" /\ pipe.out_fd # NoFd
                                           THEN "on" ELSE @]
  /\ given' = given + len
  /\ UNCHANGED <<kind, reading, disposed, wire>>

\* cockpit_pipe_close with a problem
CloseProblem ==
  /\ MayCall
  /\ pipe' = CloseImmediately([pipe EXCEPT !.closing = TRUE], TRUE)
  /\ UNCHANGED <<kind, reading, disposed, given, wire>>

\* cockpit_pipe_close without one
CloseOrderly ==
  /\ MayCall
  /\ LET q == [pipe EXCEPT !.closing = TRUE]
     IN  pipe' \in IF q.out_queue = <<>> THEN CloseOutput(q) ELSE {q}
  /\ UNCHANGED <<kind, reading, disposed, given, wire>>

\* cockpit_pipe_dispose
Dispose ==
  /\ ~disposed /\ reading = "none" /\ ~pipe.later
  /\ disposed' = TRUE
  /\ pipe' = [CloseImmediately(pipe, TRUE) EXCEPT !.out_queue = <<>>]
  /\ UNCHANGED <<kind, reading, given, wire>>

-----------------------------------------------------------------------------
(* Callbacks of the main loop. *)

InLoop == ~disposed /\ reading = "none"

\* dispatch_input: some data
InputData ==
  /\ InLoop /\ pipe.in_source
  /\ Len(pipe.signals) < MaxReads
  /\ pipe' = [pipe EXCEPT !.signals = Append(@, "read")]
  /\ reading' = "read"
  /\ UNCHANGED <<kind, disposed, given, wire>>

\* Mutant: the source is not stopped.
InputEndUnstopped ==
  /\ InLoop /\ pipe.in_source
  /\ pipe' = [pipe EXCEPT !.signals = Append(@, "eof")]
  /\ reading' = "eof"
  /\ UNCHANGED <<kind, disposed, given, wire>>

\* dispatch_input: the end, a hangup or a reset
InputEnd ==
  /\ InLoop /\ pipe.in_source
  /\ pipe' = [pipe EXCEPT !.in_source = FALSE, !.signals = Append(@, "eof")]
  /\ reading' = "eof"
  /\ UNCHANGED <<kind, disposed, given, wire>>

\* dispatch_input: an error
InputFails ==
  /\ InLoop /\ pipe.in_source
  /\ pipe' = CloseImmediately(pipe, TRUE)
  /\ UNCHANGED <<kind, reading, disposed, given, wire>>

\* Mutant: the end of the input is the last one noticed, and not acted on.
ReadReturnLazily ==
  /\ ~disposed /\ reading # "none"
  /\ reading' = "none"
  /\ UNCHANGED <<kind, pipe, disposed, given, wire>>

\* The handlers of "read" return.
ReadReturn ==
  /\ ~disposed /\ reading # "none"
  /\ reading' = "none"
  /\ pipe' = IF reading = "eof" THEN CloseMaybe(pipe) ELSE pipe
  /\ UNCHANGED <<kind, disposed, given, wire>>

\* dispatch_error: the end, and an error
ErrorEnd ==
  /\ InLoop /\ pipe.err_source
  /\ \/ pipe' = CloseMaybe([pipe EXCEPT !.err_source = FALSE])
     \/ pipe' = CloseImmediately(pipe, TRUE)
  /\ UNCHANGED <<kind, reading, disposed, given, wire>>

\* Mutant: the first block is handed over again from its start.
IovWhole(q) ==
  [i \in 1 .. IF Len(q.out_queue) < IovMax THEN Len(q.out_queue) ELSE IovMax |->
     q.out_queue[i]]

\* The blocks handed to writev, the first without what is written of it.
Iov(q) ==
  [i \in 1 .. IF Len(q.out_queue) < IovMax THEN Len(q.out_queue) ELSE IovMax |->
     LET skip == IF i = 1 THEN q.out_partial ELSE 0
     IN  [at |-> q.out_queue[i].at + skip, len |-> q.out_queue[i].len - skip]]

\* The bytes of blocks b, in order.
Bytes(b) ==
  LET cat[i \in 0 .. Len(b)] ==
        IF i = 0 THEN <<>>
        ELSE cat[i - 1] \o [j \in 1 .. b[i].len |-> b[i].at + j]
  IN  cat[Len(b)]

\* Mutant: what was written of a block counts for the next one too.
WroteKeepsPartial(q, n) ==
  LET b == Iov(q)
      acc[i \in 0 .. Len(b)] ==
        IF i = 0 THEN [done |-> 0, partial |-> q.out_partial, ret |-> n]
        ELSE LET s == acc[i - 1]
             IN  IF s.ret = 0 THEN s
                 ELSE IF s.ret >= b[i].len
                   THEN [done |-> s.done + 1, partial |-> s.partial,
                         ret |-> s.ret - b[i].len]
                   ELSE [s EXCEPT !.partial = @ + s.ret, !.ret = 0]
  IN  acc[Len(b)]

\* The loop that figures out what a writev of n bytes has written: blocks
\* done with, and the part of the next one.
Wrote(q, n) ==
  LET b == Iov(q)
      acc[i \in 0 .. Len(b)] ==
        IF i = 0 THEN [done |-> 0, partial |-> q.out_partial, ret |-> n]
        ELSE LET s == acc[i - 1]
             IN  IF s.ret = 0 THEN s
                 ELSE IF s.ret >= b[i].len
                   THEN [done |-> s.done + 1, partial |-> 0,
                         ret |-> s.ret - b[i].len]
                   ELSE [s EXCEPT !.partial = @ + s.ret, !.ret = 0]
  IN  acc[Len(b)]

Account(q, n) ==
  [q EXCEPT !.out_queue = SubSeq(@, Wrote(q, n).done + 1, Len(@)),
            !.out_partial = Wrote(q, n).partial]

\* The end of dispatch_output: stop once the queue is empty.
OutputDone(q) ==
  IF q.out_queue # <<>> THEN {q}
  ELSE LET s == [q EXCEPT !.out_source = "none"]
       IN  IF s.closing THEN CloseOutput(s) ELSE {CloseMaybe(s)}

\* dispatch_output: n bytes are written, possibly none for an empty queue.
\* dispatch_connect, before it, leaves a connection that is not complete.
OutputWrites(n) ==
  /\ InLoop /\ pipe.out_source = "on"
  /\ LET b == Bytes(Iov(pipe))
     IN  /\ n <= Len(b) /\ (n = 0 => b = <<>>)
         /\ wire' = wire \o SubSeq(b, 1, n)
  /\ \E c \in {FALSE, pipe.connecting} :
       pipe' \in OutputDone([Account(pipe, n) EXCEPT !.connecting = c])
  /\ UNCHANGED <<kind, reading, disposed, given>>

\* writev would block: the callback returns FALSE, which removes the source
\* from the main loop and leaves out_source set
OutputBlocks ==
  /\ MayBlock
  /\ InLoop /\ pipe.out_source = "on" /\ pipe.out_queue # <<>>
  /\ \E c \in {FALSE, pipe.connecting} :
       pipe' = [pipe EXCEPT !.out_source = "removed", !.connecting = c]
  /\ UNCHANGED <<kind, reading, disposed, given, wire>>

\* The write fails, or the connection does.
OutputFails ==
  /\ InLoop /\ pipe.out_source = "on"
  /\ pipe.out_queue # <<>> \/ pipe.connecting
  /\ \E c \in {FALSE, pipe.connecting} :
       pipe' = CloseImmediately([pipe EXCEPT !.connecting = c], TRUE)
  /\ UNCHANGED <<kind, reading, disposed, given, wire>>

\* on_child_reap
Reap ==
  /\ InLoop /\ pipe.child
  /\ pipe' = [pipe EXCEPT !.child = FALSE,
                          !.signals = IF pipe.closed THEN Append(@, "close") ELSE @]
  /\ UNCHANGED <<kind, reading, disposed, given, wire>>

\* on_later_close
LaterClose ==
  /\ InLoop /\ pipe.later
  /\ pipe' = CloseImmediately([pipe EXCEPT !.later = FALSE], FALSE)
  /\ UNCHANGED <<kind, reading, disposed, given, wire>>

-----------------------------------------------------------------------------
Next ==
  \/ \E len \in Sizes : Write(len)
  \/ CloseProblem \/ CloseOrderly \/ Dispose
  \/ InputData \/ InputEnd \/ InputFails \/ ReadReturn \/ ErrorEnd
  \/ \E n \in 0 .. MaxBytes : OutputWrites(n)
  \/ OutputBlocks \/ OutputFails
  \/ Reap \/ LaterClose

Spec == Init /\ [][Next]_vars

(***************************************************************************)
(* Fairness: handlers return and the main loop dispatches what stays       *)
(* ready.  Of the other end: it reads what it is sent; it ends its side    *)
(* once the pipe is closing; a process whose descriptors are closed exits. *)
(***************************************************************************)
Fairness ==
  /\ WF_vars(ReadReturn) /\ WF_vars(LaterClose)
  /\ WF_vars(\E n \in 0 .. MaxBytes : OutputWrites(n))
  /\ WF_vars(pipe.closing /\ InputEnd)
  /\ WF_vars(pipe.closing /\ ErrorEnd)
  /\ WF_vars(pipe.closed /\ Reap)

FairSpec == Spec /\ Fairness

-----------------------------------------------------------------------------
(* Properties. *)

Block == [at : Nat, len : Nat \ {0}]

PipeState ==
  [in_fd : {NoFd, 1}, out_fd : {NoFd, 1, 2},
   in_source : BOOLEAN, out_source : {"none", "on", "removed"},
   err_source : BOOLEAN, child : BOOLEAN, connecting : BOOLEAN,
   out_queue : Seq(Block), out_partial : Nat,
   closing : BOOLEAN, closed : BOOLEAN, problem : BOOLEAN, later : BOOLEAN,
   signals : Seq({"read", "eof", "close"}), foreign : BOOLEAN]

(***************************************************************************)
(* Every variable has its type, and g_assert (partial < iov[i].iov_len) in *)
(* dispatch_output: what is written of a block is less than the block.     *)
(***************************************************************************)
TypeOK ==
  /\ kind \in Kinds
  /\ pipe \in PipeState
  /\ reading \in {"none", "read", "eof"}
  /\ disposed \in BOOLEAN
  /\ given \in Nat
  /\ wire \in Seq(Nat)
  /\ pipe.out_queue # <<>> => pipe.out_partial < pipe.out_queue[1].len

(***************************************************************************)
(* What dispatch_output writes is what cockpit_pipe_write was given, byte  *)
(* by byte and in order, whatever part of the blocks each writev takes;    *)
(* the rest is in the queue.                                               *)
(***************************************************************************)
StreamIntact ==
  ~disposed =>
    LET queue == pipe.out_queue
        rest == [i \in 1 .. Len(queue) |->
                   LET skip == IF i = 1 THEN pipe.out_partial ELSE 0
                   IN  [at |-> queue[i].at + skip, len |-> queue[i].len - skip]]
    IN  wire \o Bytes(rest) = [i \in 1 .. given |-> i]

(***************************************************************************)
(* "close" is the last signal and comes once; the end of the input is      *)
(* signalled once, and after it no data (the documentation of the "read"   *)
(* and "close" signals), whatever the handlers of "read" do.               *)
(***************************************************************************)
SignalsInOrder ==
  LET s == pipe.signals
  IN  \A i, j \in DOMAIN s : i < j => s[i] # "close" /\ (s[i] = "eof" => s[j] = "close")

(***************************************************************************)
(* "close" is emitted when both the pipe is closed and its child reaped,   *)
(* in whichever order, and not before: cockpit_pipe_write meets a closed   *)
(* pipe without a child only after the signal.                             *)
(***************************************************************************)
CloseSignal == Emitted("close") <=> pipe.closed /\ ~pipe.child

(***************************************************************************)
(* A pipe that closes without a problem has written all it was given.      *)
(***************************************************************************)
NormalCloseFlushed ==
  pipe.closed /\ ~pipe.problem => pipe.out_queue = <<>>

(***************************************************************************)
(* Blocks in the queue are on their way: their source is set, and the      *)
(* assertions of cockpit_pipe_finalize hold once the pipe is disposed of.  *)
(***************************************************************************)
SourcesMatch ==
  /\ pipe.closed => ~pipe.in_source /\ pipe.out_source = "none" /\ ~pipe.err_source
  /\ disposed => pipe.closed
  /\ ~pipe.closed /\ pipe.out_queue # <<>> /\ kind # "failed" =>
       pipe.out_source # "none"

(***************************************************************************)
(* The pipe closes descriptors that are its own: none twice, when the      *)
(* number may already stand for a descriptor of another thread.            *)
(***************************************************************************)
ClosesOwnFds == ~pipe.foreign

(***************************************************************************)
(* A pipe told to close emits "close" in the end, unless its owner lets go *)
(* of it first.                                                            *)
(***************************************************************************)
ClosesInTheEnd == pipe.closing ~> Emitted("close") \/ disposed

(***************************************************************************)
(* What cockpit_pipe_write accepts is written, unless the pipe closes.     *)
(***************************************************************************)
Written ==
  \A n \in 1 .. MaxBytes :
    given >= n ~> Len(wire) >= n \/ pipe.closed \/ disposed

=============================================================================
