------------------------ MODULE KeyRequestRefinement ------------------------
(* request_key() provides keys as KeyProvision promises. *)
EXTENDS KeyRequest

(* A process is provided once handle_success() is called with the key, and *)
(* has failed when it ends otherwise or passes on something else.          *)
Outcome(c) ==
  CASE given[c] = "key" -> "provided"
    [] given[c] # "key" /\ (given[c] # "nothing" \/ pc[c] \in {"done", "crashed"})
         -> "failed"
    [] OTHER -> "waiting"

Provision ==
  INSTANCE KeyProvision WITH ticket <- reqState, holder <- reqOwner,
                             outcome <- [c \in Clients |-> Outcome(c)]

(* Every step of the processes and the server is a step of KeyProvision or *)
(* none at all.                                                            *)
ProvisionSpec == Provision!Spec

=============================================================================
