--------------------------- MODULE MCOutboundQueue ---------------------------
(* Small instances of OutboundQueue: two jobs of one dialog on one account.  *)
EXTENDS OutboundQueue, TLC

CONSTANTS j1, j2, w1, w2, a1, d1

MCAccountOf == [j \in Jobs |-> a1]
MCDialogOf == [j \in Jobs |-> d1]

\* Jobs are interchangeable in safety runs where all of them are allowed.
WorkerSymmetry == Permutations(Jobs) \cup Permutations(Workers)
=============================================================================
