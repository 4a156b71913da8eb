------------------------------- MODULE MCShell -------------------------------
(***************************************************************************)
(* One frame, which shows a document and, after a reload, another one.     *)
(* Each document makes one channel; the first one's is binary.             *)
(***************************************************************************)
EXTENDS Shell

MCBinary == {"a"}

MCWindows == {"f"}

MCDocuments == [w \in MCWindows |-> <<"f1", "f2">>]

MCChannels == {"a", "b"}

MCMaker == [c \in MCChannels |-> IF c = "a" THEN "f1" ELSE "f2"]
=============================================================================
