------------------------------ MODULE Streams ------------------------------
(***************************************************************************)
(* Data that comes in pieces: the buffer of a channel in cockpit.js, the   *)
(* requests of an HttpClient and the process of journalctl() that are      *)
(* built on it.  Each byte of a body is its number; a line of journalctl   *)
(* is its number twice and a newline, 0.                                   *)
(***************************************************************************)
EXTENDS Naturals, Sequences, SequencesExt

CONSTANTS Requests,     \* requests of one HttpClient
          MaxBytes,     \* bound: bytes of a body
          MaxLines      \* bound: lines of journalctl

ASSUME StreamsAssumption == MaxBytes \in Nat /\ MaxLines \in Nat

VARIABLES req,          \* the closure of each request, and what its handlers got
          active,       \* active_requests
          journal       \* the closure of journalctl(), and what its handlers got

streamvars == <<req, active, journal>>

Upto(n) == [i \in 1..n |-> i]

NewRequest ==
  [state |-> "none", resp |-> 0, streamer |-> FALSE, sent |-> 0,
   buffer |-> <<>>, streamed |-> <<>>, body |-> <<>>]

\* before: how many entries there were when stream() was called.
\* A page with requests or one that follows the journal: they share nothing.
StreamsInit ==
  /\ req = [r \in Requests |-> NewRequest] /\ active = <<>>
  /\ journal \in [state : {"none", "open"}, streamer : {FALSE}, before : {0}, interval : {"null"},
                  sent : {0}, buffer : {<<>>}, entries : {<<>>}, streamed : {<<>>}, result : {<<>>}]
-----------------------------------------------------------------------------
LeftOfLast(buffer, data, n) == SubSeq(data, n + 1, Len(data))

\* on_message: the callback of a buffer took n bytes of the whole block.
Left(buffer, data, n) == SubSeq(buffer \o data, n + 1, Len(buffer \o data))

SendRequest(r) ==
  /\ journal.state = "none"
  /\ req[r].state = "none"
  /\ \E streamer \in BOOLEAN :
       req' = [req EXCEPT ![r] = [NewRequest EXCEPT !.state = "open", !.streamer = streamer]]
  /\ active' = Append(active, r)
  /\ UNCHANGED journal

\* The page calls stream() later.
SetStreamer(r) ==
  /\ req[r].state = "open" /\ ~req[r].streamer
  /\ req' = [req EXCEPT ![r].streamer = TRUE]
  /\ UNCHANGED <<active, journal>>

\* on_control
Responded(r, status) ==
  /\ req[r].state = "open" /\ req[r].resp = 0
  /\ req' = [req EXCEPT ![r].resp = status]
  /\ UNCHANGED <<active, journal>>

Success(R) == R.resp \in 200..299

\* on_message with size bytes; a streamer takes n bytes of what there is.
HttpData(r, size, n) ==
  LET R == req[r]
      data == [i \in 1..size |-> R.sent + i]
      block == R.buffer \o data
      fires == Success(R) /\ R.streamer
  IN /\ R.state = "open" /\ R.resp # 0 /\ R.sent + size <= MaxBytes
     /\ n \in 0..(IF fires THEN Len(block) ELSE 0)
     /\ req' = [req EXCEPT ![r].sent = @ + size,
                           ![r].buffer = Left(R.buffer, data, n),
                           ![r].streamed = @ \o SubSeq(block, 1, n)]
     /\ UNCHANGED <<active, journal>>

\* on_close of a request, with what the rest of the buffer is given to.
RequestClosed(R, problem) ==
  IF problem THEN [R EXCEPT !.state = "rejected"]
  ELSE IF R.resp # 0 /\ ~Success(R) THEN [R EXCEPT !.state = "error", !.body = R.buffer]
  ELSE [R EXCEPT !.state = "resolved", !.body = R.buffer]

HttpClosed(r, problem) ==
  /\ req[r].state = "open"
  /\ req' = [req EXCEPT ![r] = RequestClosed(@, problem)]
  /\ active' = SelectSeq(active, LAMBDA x : x # r)
  /\ UNCHANGED journal

\* HttpClient.close(): over a copy, because on_close takes each from the list.
HttpClientClose(problem) ==
  LET reqs == Range(active)
  IN /\ active # <<>>
     /\ req' = [r \in Requests |-> IF r \in reqs THEN RequestClosed(req[r], problem) ELSE req[r]]
     /\ active' = SelectSeq(active, LAMBDA x : x \notin reqs)
     /\ UNCHANGED journal
-----------------------------------------------------------------------------
\* The byte i of the output of journalctl.
Output(i) == IF i % 3 = 0 THEN 0 ELSE (i \div 3) + 1

RestNever(data) == <<>>

\* What split() leaves as its last part, and the lines before that parse.
Rest(data) == SubSeq(data, SelectLastInSeq(data, LAMBDA b : b = 0) + 1, Len(data))

Parsed(data) ==
  LET starts == SelectSeq(Upto(Len(data) - 2), LAMBDA i : i = 1 \/ data[i - 1] = 0)
      whole == SelectSeq(starts, LAMBDA i : data[i] # 0 /\ data[i] = data[i + 1] /\ data[i + 2] = 0)
  IN [i \in DOMAIN whole |-> data[whole[i]]]

\* stream() of the promise, at once or later: it does not look at the entries.
SetJournalStreamer ==
  /\ journal.state = "open" /\ ~journal.streamer
  /\ journal' = [journal EXCEPT !.streamer = TRUE, !.before = Len(journal.entries)]
  /\ UNCHANGED <<req, active>>

FireStreamers(J) ==
  IF J.streamer /\ J.entries # <<>>
  THEN [J EXCEPT !.streamed = @ \o J.entries, !.entries = <<>>]
  ELSE [J EXCEPT !.interval = "null"]

\* The stream callback, that takes whatever comes.
JournalData(size) ==
  LET data == journal.buffer \o [i \in 1..size |-> Output(journal.sent + i)]
  IN /\ journal.state = "open" /\ journal.sent + size <= 3 * MaxLines
     /\ journal' = [journal EXCEPT !.sent = @ + size, !.buffer = Rest(data),
                                   !.entries = @ \o Parsed(data),
                                   !.interval = IF journal.streamer /\ @ = "null" THEN "set" ELSE @]
     /\ UNCHANGED <<req, active>>

JournalInterval ==
  /\ journal.interval = "set"
  /\ journal' = FireStreamers(journal)
  /\ UNCHANGED <<req, active>>

\* The process ends or stop() is called: resolved, but for an error.
JournalEnds(error) ==
  /\ journal.state = "open"
  /\ journal' = IF error THEN [journal EXCEPT !.state = "rejected", !.interval = "cleared"]
                ELSE LET J == FireStreamers(journal)
                     IN [J EXCEPT !.state = "resolved", !.result = J.entries, !.interval = "cleared"]
  /\ UNCHANGED <<req, active>>

StreamsNext ==
  \/ \E r \in Requests : SendRequest(r) \/ SetStreamer(r)
  \/ \E r \in Requests, status \in {200, 404} : Responded(r, status)
  \/ \E r \in Requests, size \in 1..2, n \in 0..MaxBytes : HttpData(r, size, n)
  \/ \E r \in Requests, problem \in BOOLEAN : HttpClosed(r, problem)
  \/ \E problem \in BOOLEAN : HttpClientClose(problem)
  \/ \E size \in 1..4 : JournalData(size)
  \/ SetJournalStreamer \/ JournalInterval
  \/ \E error \in BOOLEAN : JournalEnds(error)

StreamsSpec == StreamsInit /\ [][StreamsNext]_streamvars
-----------------------------------------------------------------------------
StreamsTypeOK ==
  /\ \A r \in Requests : /\ req[r].state \in {"none", "open", "resolved", "error", "rejected"}
                         /\ req[r].resp \in {0, 200, 404} /\ req[r].sent \in 0..MaxBytes
  /\ Range(active) = {r \in Requests : req[r].state = "open"}
  /\ journal.entries \in Seq(1..MaxLines)

\* What a stream handler consumed, followed by what the promise delivers, is
\* what was sent: the bytes of a body, or the complete lines of journalctl.
\* Nothing is lost, repeated or reordered, whenever the handler is set,
\* however much it takes at a time and wherever the output is cut; and
\* entries that came after the streamer have the interval that hands them over,
\* together with the ones that were there before.
StreamedWhole ==
  /\ \A r \in Requests :
       /\ req[r].state = "open" => req[r].streamed \o req[r].buffer = Upto(req[r].sent)
       /\ req[r].state \in {"resolved", "error"} => req[r].streamed \o req[r].body = Upto(req[r].sent)
  /\ journal.state = "open" => journal.streamed \o journal.entries = Upto(journal.sent \div 3)
  /\ journal.state = "resolved" => journal.streamed \o journal.result = Upto(journal.sent \div 3)
  /\ /\ journal.state = "open" /\ journal.streamer /\ journal.entries # <<>>
     /\ journal.sent \div 3 > journal.before
     => journal.interval = "set"
=============================================================================
