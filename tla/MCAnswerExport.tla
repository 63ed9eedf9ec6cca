---------------------------- MODULE MCAnswerExport ----------------------------
(* Instances of AnswerExport: any runs are interchangeable. *)
EXTENDS AnswerExport, TLC

RunSymmetry == Permutations(Runs)
=============================================================================
