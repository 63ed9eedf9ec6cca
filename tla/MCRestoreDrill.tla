---------------------------- MODULE MCRestoreDrill ----------------------------
(* Instances of RestoreDrill: any backups are interchangeable. *)
EXTENDS RestoreDrill, TLC

RunSymmetry == Permutations(Runs)
=============================================================================
