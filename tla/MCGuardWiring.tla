----------------------------- MODULE MCGuardWiring -----------------------------
(* Instances of GuardWiring: a guard among others, and a new one. *)
EXTENDS GuardWiring

MCNewGuards == {"check-new.py"}
MCSubjects == {"check-time-sync.py"} \cup MCNewGuards
=============================================================================
