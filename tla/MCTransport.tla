----------------------------- MODULE MCTransport -----------------------------
(* Model checking Transport: the copies of names are bounded too. *)
EXTENDS Transport

CONSTANTS a, b,
          MaxKeys     \* bound: copies of one channel's name

\* The clients of the instance, which freeze a channel at most MaxKeys times.
MCNext ==
  TransportNext /\ \A c \in Channels : key'[c] <= MaxKeys

\* three messages on one channel, two on the other
Msgs == [c \in Channels |-> IF c = a THEN 3 ELSE 2]

MCSpec == TransportInit /\ [][MCNext]_tvars

=============================================================================
