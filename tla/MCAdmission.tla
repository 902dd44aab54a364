---------------------------- MODULE MCAdmission ----------------------------
(* Two calls of one runtime that compete for the leases: one is started by   *)
(* the execution launcher, the other may be of the marker backend.           *)
EXTENDS Admission

CONSTANT r1

OneRuntime == [c \in Calls |-> r1]
=============================================================================
