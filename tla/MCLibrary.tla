------------------------------ MODULE MCLibrary ------------------------------
(***************************************************************************)
(* The parts of cockpit.js that a page uses, each by itself: they share no *)
(* state but the channels of module Shell, and one run checks them all.    *)
(* In a behaviour one part, chosen at the start, takes the steps.          *)
(***************************************************************************)
EXTENDS Promises, DBusClient, File, Series, Streams, StorageCache

VARIABLE part

\* The parts that are not chosen start in one state.
Init ==
  /\ part \in {"promises", "dbus", "file", "series", "streams", "cache"}
  /\ PromisesInit /\ DBusInit /\ FileInit /\ SeriesInit /\ StorageCacheInit
  /\ StreamsInit /\ (part # "streams" => journal.state = "none")

LowLevel == <<promisevars, dbusvars, filevars>>
HighLevel == <<seriesvars, streamvars, cachevars>>

Next ==
  /\ UNCHANGED part
  /\ \/ part = "promises" /\ PromisesNext /\ UNCHANGED <<dbusvars, filevars, HighLevel>>
     \/ part = "dbus" /\ DBusNext /\ UNCHANGED <<promisevars, filevars, HighLevel>>
     \/ part = "file" /\ FileNext /\ UNCHANGED <<promisevars, dbusvars, HighLevel>>
     \/ part = "series" /\ SeriesNext /\ UNCHANGED <<LowLevel, streamvars, cachevars>>
     \/ part = "streams" /\ StreamsNext /\ UNCHANGED <<LowLevel, seriesvars, cachevars>>
     \/ part = "cache" /\ StorageCacheNext /\ UNCHANGED <<LowLevel, seriesvars, streamvars>>

vars == <<part, LowLevel, HighLevel>>

\* A part that has not started has no step that fairness asks for.
Spec == Init /\ [][Next]_vars /\ PromisesFairness /\ DBusFairness

\* The objects of the library keep the shape that their methods expect.
LibraryTypeOK ==
  /\ PromisesTypeOK /\ DBusTypeOK /\ FileTypeOK /\ SeriesTypeOK /\ StreamsTypeOK /\ StorageCacheTypeOK

\* What passes through a buffer of the library is neither lost nor kept for ever: the blocks of a
\* stream reach its handlers or its promise whole and in order, and the cache of
\* series has the entries their counts say, within their limits.
BuffersKeep == StreamedWhole /\ CacheKeepsLimit
=============================================================================
