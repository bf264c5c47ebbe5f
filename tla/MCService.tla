----------------------------- MODULE MCService -----------------------------
(* Service on small instances, with faults (MCService.cfg) and without     *)
(* (MCServiceServes.cfg).  The properties include liveness, so that there  *)
(* is no symmetry.                                                         *)
EXTENDS Service
=============================================================================
