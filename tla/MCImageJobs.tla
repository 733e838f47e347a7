---------------------------- MODULE MCImageJobs ----------------------------
(* Small instances of ImageJobs for TLC.                                   *)
EXTENDS ImageJobs, TLC

Symmetry == Permutations(Clients) \cup Permutations(Keys)
=============================================================================
