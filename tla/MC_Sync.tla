---------------------------- MODULE MC_Sync ----------------------------
(* Small instances of Sync for TLC.                                   *)
EXTENDS Sync

CONSTANTS p1, c1, c2

MCProducers == {p1}
MCConsumers == {c1, c2}

\* One token and a batch, so that a single reset faces more than one.
MCPostCounts == {1, 2}
=============================================================================
