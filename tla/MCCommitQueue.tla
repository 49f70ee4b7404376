--------------------------- MODULE MCCommitQueue ----------------------------
(***************************************************************************)
(* CommitQueue for TLC.                                                    *)
(***************************************************************************)
EXTENDS CommitQueue
=============================================================================
