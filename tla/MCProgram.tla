----------------------------- MODULE MCProgram -----------------------------
(* Program on a small instance. *)
EXTENDS Program
=============================================================================
