------------------------------- MODULE MCFeeds -------------------------------
(* An instance of Feeds for TLC.  The workers are interchangeable. *)
EXTENDS Feeds, TLC

WorkerSymmetry == Permutations(Workers)
=============================================================================
