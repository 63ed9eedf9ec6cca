---------------------------- MODULE MCImportBatch ----------------------------
(* Instances of ImportBatch. *)
EXTENDS ImportBatch
=============================================================================
