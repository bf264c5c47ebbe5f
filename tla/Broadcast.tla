----------------------------- MODULE Broadcast -----------------------------
(***************************************************************************)
(* What a loop of src/src/mod/module.c is, seen from outside: a broadcast. *)
(* The members that listen are told one at a time, in the order of their   *)
(* registration, none twice, and the first of them that reports an error   *)
(* ends the broadcast, whose result is that error.  (src/src/mod/module.h  *)
(* says that all of them are told.)                                        *)
(***************************************************************************)
EXTENDS Naturals

CONSTANTS
  Topics,     \* what is broadcast
  Positions,  \* places in the order of registration
  Results     \* what a member may report, "UL_OK" if all is well

VARIABLES
  topic,     \* the broadcast under way, "none", or "dead"
  audience,  \* the places of the members that listen to it
  told,      \* those that were told
  result     \* what the last of them reported

bvars == <<topic, audience, told, result>>

Silent == /\ audience' = {} /\ told' = {} /\ result' = "UL_OK"

Init == topic = "none" /\ audience = {} /\ told = {} /\ result = "UL_OK"

(* Nothing is under way, or all there was to tell has been told. *)
Over == topic = "none" \/ result # "UL_OK" \/ told = audience

Begin(t) ==
  /\ topic # "dead" /\ Over
  /\ topic' = t
  /\ audience' \in SUBSET Positions
  /\ told' = {} /\ result' = "UL_OK"

Tell(p) ==
  /\ topic \in Topics /\ result = "UL_OK"
  /\ p \in audience \ told
  /\ \A q \in audience \ told : p <= q
  /\ told' = told \cup {p}
  /\ result' \in Results
  /\ UNCHANGED <<topic, audience>>

Rest ==
  /\ topic \in Topics /\ Over
  /\ topic' = "none" /\ Silent

(* The list of the members was lost. *)
Die ==
  /\ topic \in Topics
  /\ topic' = "dead" /\ Silent

Next ==
  \/ \E t \in Topics : Begin(t)
  \/ \E p \in Positions : Tell(p)
  \/ Rest \/ Die

Spec == Init /\ [][Next]_bvars

=============================================================================
