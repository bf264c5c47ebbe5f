---------------------------- MODULE MCKeyRequest ----------------------------
(* KeyRequest on a small instance. *)
EXTENDS KeyRequestRefinement, KeyRequestInvariant
=============================================================================
