----------------------------- MODULE MCSchedule -----------------------------
(* Instances of Schedule. *)
EXTENDS Schedule
=============================================================================
