-------------------------------- MODULE File ---------------------------------
(***************************************************************************)
(* cockpit.file() of cockpit.js: read, replace, modify, watch and close of *)
(* one file object, over the bridge's fsread1, fsreplace1 and fswatch1     *)
(* channels, while others write to the same file.  The file's content is   *)
(* the set of the changes that went into it, its tag a number.             *)
(***************************************************************************)
EXTENDS Naturals, Sequences, SequencesExt

CONSTANTS Modifiers,     \* calls of modify() by the page
          MaxDisturbed   \* bound: writes by others, reads that fail and calls of close()

ASSUME FileAssumption == MaxDisturbed \in Nat

VARIABLES disk,          \* the file: its tag and content
          writes, errors,
          reading,       \* read_promise is set
          waiters,       \* the modify() calls that wait for it, in order
          mod,           \* mod[i]: what became of a call of modify()
          replacing,     \* whose channel replace_channel is, or "none"
          watching,      \* the watch: "none", "on", "closed" by close(), "removed"
          watch_tag,
          fired,         \* the tag the watch callbacks saw last, 0 for an error
          overtaken,     \* what they saw last was out of date when the bridge sent it,
                         \* or was sent before the bridge monitored the file
          flater,        \* handlers of promises that are to run
          fsent, frecv,  \* messages of the channels
          scan,          \* the tag fsread1 started with, or 0
          held,          \* the file its descriptor is open on
          accepted,      \* whose fsreplace1 channel has become ready, or "none"
          monitored,     \* the channel of fswatch1 is open
          dirty          \* fswatch1 has a change to report

filevars == <<disk, writes, errors, reading, waiters, mod, replacing, watching, watch_tag,
              fired, overtaken, flater, fsent, frecv, scan, held, accepted, monitored, dirty>>

FileInit ==
  /\ disk = [tag |-> 1, content |-> {}] /\ writes = 0 /\ errors = 0
  /\ reading = FALSE /\ waiters = <<>> /\ mod = [i \in Modifiers |-> "none"]
  /\ replacing = "none" /\ watching = "none" /\ watch_tag = 0 /\ fired = 0
  /\ flater = <<>> /\ fsent = <<>> /\ frecv = <<>> /\ scan = 0 /\ dirty = FALSE
  /\ accepted = "none" /\ held = disk /\ monitored = FALSE /\ overtaken = FALSE

outside == <<disk, writes, errors, scan, held, accepted, monitored, dirty>>

-----------------------------------------------------------------------------
(* The page.                                                               *)

\* read(): one read at a time, whose promise is shared.
Read(sent, who) ==
  /\ reading' = TRUE
  /\ waiters' = waiters \o who
  /\ fsent' = IF reading THEN sent ELSE Append(sent, [do |-> "read"])

\* modify() without initial content: read_then_update.
Modify(i) ==
  /\ mod[i] = "none"
  /\ mod' = [mod EXCEPT ![i] = "busy"]
  /\ Read(fsent, <<i>>)
  /\ UNCHANGED <<outside, replacing, watching, watch_tag, fired, overtaken, flater, frecv>>

\* watch(), called once.
Watch ==
  /\ watching = "none"
  /\ watching' = "on" /\ watch_tag' = 0
  /\ Read(Append(fsent, [do |-> "watch"]), <<>>)
  /\ UNCHANGED <<outside, mod, replacing, fired, overtaken, flater, frecv>>

\* remove() of the last watch closes its channel.
Unwatch ==
  /\ watching \in {"on", "closed"}
  /\ watching' = "removed"
  /\ fsent' = IF watching = "on" THEN Append(fsent, [do |-> "unwatch"]) ELSE fsent
  /\ UNCHANGED <<outside, reading, waiters, mod, replacing, watch_tag, fired, overtaken, flater,
                 frecv>>

\* fire_watch_callbacks
Fire(tag, late) ==
  /\ watch_tag' = tag
  /\ IF watching \in {"on", "closed"} THEN fired' = tag /\ overtaken' = late
     ELSE UNCHANGED <<fired, overtaken>>

Handlers(do, tag, content) ==
  [n \in DOMAIN waiters |-> [do |-> do, who |-> waiters[n], tag |-> tag, content |-> content]]

RetryNever(m) == FALSE

\* A read that met a change starts again.
Retry(m) == m.do = "read-conflict"

\* The close handler of the read channel.
ReadClosed(m) ==
  /\ m.do \in {"read-ok", "read-conflict", "read-error"}
  /\ IF Retry(m)
     THEN /\ fsent' = Append(fsent, [do |-> "read"])
          /\ UNCHANGED <<reading, waiters, watch_tag, fired, overtaken, flater>>
     ELSE /\ reading' = FALSE /\ waiters' = <<>>
          /\ IF m.do = "read-ok" THEN Fire(m.tag, m.late) ELSE Fire(0, FALSE)
          /\ flater' = flater \o (IF m.do = "read-ok"
                                  THEN Handlers("update", m.tag, m.content)
                                  ELSE Handlers("fail", 0, {}))
          /\ UNCHANGED fsent
  /\ UNCHANGED <<mod, replacing>>

\* The close handler of the replace channel.  A channel that was closed by
\* the page hears no more.
ReplaceClosed(m) ==
  /\ m.do \in {"replace-ok", "replace-conflict", "out-of-date"}
  /\ IF m.who = replacing
     THEN /\ replacing' = "none"
          /\ IF m.do = "replace-ok" THEN Fire(m.tag, m.late)
             ELSE UNCHANGED <<watch_tag, fired, overtaken>>
          /\ flater' = Append(flater, [do |-> m.do, who |-> m.who])
     ELSE UNCHANGED <<replacing, watch_tag, fired, overtaken, flater>>
  /\ UNCHANGED <<reading, waiters, mod, fsent>>

\* A message of the watch channel.
WatchMessage(m) ==
  /\ m.do = "changed"
  /\ IF watching = "on" /\ m.tag # watch_tag THEN Read(fsent, <<>>)
     ELSE UNCHANGED <<reading, waiters, fsent>>
  /\ UNCHANGED <<mod, replacing, watch_tag, fired, overtaken, flater>>

FileMessage ==
  /\ frecv # <<>>
  /\ frecv' = Tail(frecv)
  /\ LET m == Head(frecv) IN
       \/ ReadClosed(m)
       \/ ReplaceClosed(m)
       \/ WatchMessage(m)
  /\ UNCHANGED <<outside, watching>>

ExpectedNothing(m) == 0

\* The tag replace() expects the file to have.
ExpectedTag(m) == m.tag

\* update() of modify, which calls replace(): an earlier replace is aborted;
\* the open, the content and "done" are sent together.
UpdateRuns(m) ==
  /\ replacing' = m.who
  /\ LET opts == [who |-> m.who, tag |-> ExpectedTag(m), content |-> m.content \cup {m.who}]
     IN fsent' = fsent \o (IF replacing = "none" THEN <<>> ELSE <<[do |-> "abort"]>>)
                   \o <<[do |-> "replace", opts |-> opts], [do |-> "done", opts |-> opts]>>
  /\ flater' = IF replacing = "none" THEN Tail(flater)
               ELSE Append(Tail(flater), [do |-> "fail", who |-> replacing])
  /\ UNCHANGED <<reading, waiters, mod>>

\* A handler of a promise.
FileLater ==
  /\ flater # <<>>
  /\ LET m == Head(flater) IN
       \/ m.do = "update" /\ UpdateRuns(m)
       \/ /\ m.do = "replace-conflict"
          /\ Read(fsent, <<m.who>>)
          /\ flater' = Tail(flater) /\ UNCHANGED <<mod, replacing>>
       \/ /\ m.do \in {"replace-ok", "out-of-date", "fail"}
          /\ mod' = [mod EXCEPT ![m.who] = IF m.do = "replace-ok" THEN "resolved" ELSE "rejected"]
          /\ flater' = Tail(flater) /\ UNCHANGED <<reading, waiters, replacing, fsent>>
  /\ UNCHANGED <<outside, watching, watch_tag, fired, overtaken, frecv>>

\* What is on its way without the message of the one read channel.
Without(s, kinds) ==
  LET at == {n \in DOMAIN s : s[n].do \in kinds}
  IN IF at = {} THEN s ELSE RemoveAt(s, CHOOSE n \in at : TRUE)

\* close(): the channels are closed with "cancelled".
CloseFile ==
  /\ writes + errors < MaxDisturbed /\ errors' = errors + 1
  /\ reading' = FALSE /\ waiters' = <<>> /\ replacing' = "none"
  /\ flater' = flater \o Handlers("fail", 0, {})
                 \o IF replacing = "none" THEN <<>>
                    ELSE <<[do |-> "fail", who |-> replacing]>>
  /\ IF reading THEN Fire(0, FALSE) ELSE UNCHANGED <<watch_tag, fired, overtaken>>
  /\ watching' = IF watching = "on" THEN "closed" ELSE watching
  /\ fsent' = Without(fsent, {"read"})
                \o IF watching = "on" THEN <<[do |-> "unwatch"]>> ELSE <<>>
  /\ frecv' = Without(frecv, {"read-ok", "read-conflict", "read-error"})
  /\ scan' = 0
  /\ UNCHANGED <<disk, writes, held, accepted, monitored, dirty, mod>>

-----------------------------------------------------------------------------
(* The bridge and other writers.                                           *)

page == <<reading, waiters, mod, replacing, watching, watch_tag, fired, overtaken, flater>>

\* The file at the path changes to f; the monitor of fswatch1 sees it.
Changes(f) == disk' = f /\ dirty' = monitored

\* cockpit_fsreplace_prepare, _control: the tag, unless it is 0, is checked
\* when the channel opens and again when its content is complete.  The new
\* file takes the place of the old one by rename().
Opens(opts) ==
  /\ IF opts.tag \in {0, disk.tag}
     THEN accepted' = opts.who /\ UNCHANGED frecv
     ELSE /\ frecv' = Append(frecv, [do |-> "replace-conflict", who |-> opts.who])
          /\ UNCHANGED accepted
  /\ UNCHANGED <<disk, scan, held, monitored, dirty>>

Complete(opts) ==
  /\ accepted = opts.who
  /\ accepted' = "none" /\ UNCHANGED <<scan, held, monitored>>
  /\ IF opts.tag \in {0, disk.tag}
     THEN /\ Changes([tag |-> disk.tag + 1, content |-> opts.content])
          /\ frecv' = Append(frecv, [do |-> "replace-ok", who |-> opts.who, tag |-> disk.tag + 1,
                                     late |-> ~monitored])
     ELSE /\ frecv' = Append(frecv, [do |-> "out-of-date", who |-> opts.who])
          /\ UNCHANGED <<disk, dirty>>

\* cockpit_fswatch_prepare and the end of its channel: only what changes
\* from then on, or until then, is reported.
Monitors(on) ==
  /\ monitored' = on /\ dirty' = FALSE
  /\ UNCHANGED <<disk, scan, held, frecv, accepted>>

\* A channel that was refused hears no more; one that is complete cannot be
\* aborted.
BridgeTakes ==
  /\ fsent # <<>>
  /\ fsent' = Tail(fsent)
  /\ LET m == Head(fsent) IN
       \/ /\ m.do = "read" /\ scan = 0
          /\ scan' = disk.tag /\ held' = disk
          /\ UNCHANGED <<disk, frecv, accepted, monitored, dirty>>
       \/ m.do = "replace" /\ Opens(m.opts)
       \/ m.do = "done" /\ Complete(m.opts)
       \/ m.do = "watch" /\ Monitors(TRUE)
       \/ m.do = "unwatch" /\ Monitors(FALSE)
       \/ /\ m.do = "abort" \/ (m.do = "done" /\ accepted # m.opts.who)
          /\ UNCHANGED <<disk, scan, held, frecv, accepted, monitored, dirty>>
  /\ UNCHANGED <<page, writes, errors>>

\* fsread1 ends: it asks its descriptor for the tag, and so notices when
\* the file was written to in place, but not when another one was renamed
\* to its path.
BridgeHasRead ==
  /\ scan # 0
  /\ scan' = 0
  /\ \/ /\ frecv' = Append(frecv, IF held.tag # scan THEN [do |-> "read-conflict"]
                                  ELSE [do |-> "read-ok", tag |-> held.tag,
                                        content |-> held.content,
                                        late |-> held # disk \/ ~monitored])
        /\ UNCHANGED errors
     \/ /\ writes + errors < MaxDisturbed /\ errors' = errors + 1
        /\ frecv' = Append(frecv, [do |-> "read-error"])
  /\ UNCHANGED <<page, disk, writes, held, accepted, monitored, dirty, fsent>>

\* on_changed
BridgeNotices ==
  /\ dirty
  /\ dirty' = FALSE
  /\ frecv' = Append(frecv, [do |-> "changed", tag |-> disk.tag])
  /\ UNCHANGED <<page, disk, writes, errors, scan, held, accepted, monitored, fsent>>

\* Somebody else writes to the file in place, or renames another one to its
\* path, which leaves an open descriptor with the old one.
OtherWrites(inplace) ==
  /\ writes + errors < MaxDisturbed
  /\ writes' = writes + 1
  /\ Changes([tag |-> disk.tag + 1, content |-> disk.content])
  /\ held' = IF inplace /\ held = disk THEN disk' ELSE held
  /\ UNCHANGED <<page, errors, scan, accepted, monitored, fsent, frecv>>

FileNext ==
  \/ \E i \in Modifiers : Modify(i)
  \/ Watch
  \/ Unwatch
  \/ FileMessage
  \/ FileLater
  \/ CloseFile
  \/ BridgeTakes
  \/ BridgeHasRead
  \/ BridgeNotices
  \/ \E inplace \in BOOLEAN : OtherWrites(inplace)

FileSpec == FileInit /\ [][FileNext]_filevars

-----------------------------------------------------------------------------
FileTypeOK ==
  /\ disk.content \subseteq Modifiers
  /\ mod \in [Modifiers -> {"none", "busy", "resolved", "rejected"}]
  /\ watching \in {"none", "on", "closed", "removed"}
  /\ replacing \in Modifiers \cup {"none"}
  /\ replacing # "none" => mod[replacing] = "busy"

\* A change whose modify() was resolved is in the file for good, whatever
\* other calls of modify and other writers do at the same time.
NoChangeLost == \A i \in Modifiers : mod[i] = "resolved" => i \in disk.content

\* Once nothing is under way, the watch callbacks have seen the content the
\* file has, unless the last read failed or was overtaken: the file was
\* replaced by rename() while fsread1 read it, or watch() was called with a
\* read under way that ended before the bridge monitored the file.
WatchIsCurrent ==
  watching = "on" /\ ~reading /\ fsent = <<>> /\ frecv = <<>> /\ ~dirty
    => fired = disk.tag \/ (fired = 0 /\ errors > 0) \/ overtaken

\* doc/guide/cockpit-file.xml says of modify(): "It will do this one or more
\* times, until no other conflicting changes have been made to the file
\* between reading and replacing it."  So a page with one change under way,
\* no read of which fails, is not refused it.
ModifyRetries ==
  errors = 0 => \A i \in Modifiers : mod[i] = "rejected" => \E j \in Modifiers \ {i} : mod[j] # "none"
=============================================================================
