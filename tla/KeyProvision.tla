--------------------------- MODULE KeyProvision ---------------------------
(***************************************************************************)
(* What a client of the unlocked server promises, without its exchanges:   *)
(* every process asks for the key at most once, an operator decides on     *)
(* what it asked for, the server gives the key away once for an accepted   *)
(* request, and only the process that asked is provided with it.           *)
(***************************************************************************)
EXTENDS Naturals

CONSTANTS Clients, NoClient, MaxId

Ids == 1 .. MaxId

VARIABLES
  ticket,   \* ticket[i]: the state of request i
  holder,   \* holder[i]: the process that asked for i
  outcome   \* outcome[c]: "waiting", "provided" with the key, or "failed"

avars == <<ticket, holder, outcome>>

Init ==
  /\ ticket = [i \in Ids |-> "NONE"]
  /\ holder = [i \in Ids |-> NoClient]
  /\ outcome = [c \in Clients |-> "waiting"]

(* Asking may take effect after the process has failed: it is not undone.  *)
Ask(c) ==
  /\ \A i \in Ids : holder[i] # c
  /\ \E i \in Ids :
       /\ ticket[i] = "NONE"
       /\ ticket' = [ticket EXCEPT ![i] = "PENDING"]
       /\ holder' = [holder EXCEPT ![i] = c]
  /\ UNCHANGED outcome

Decide(i) ==
  /\ ticket[i] = "PENDING"
  /\ \E d \in {"ACCEPTED", "DENIED"} : ticket' = [ticket EXCEPT ![i] = d]
  /\ UNCHANGED <<holder, outcome>>

Expire(i) ==
  /\ ticket[i] \in {"PENDING", "ACCEPTED"}
  /\ ticket' = [ticket EXCEPT ![i] = "EXPIRED"]
  /\ UNCHANGED <<holder, outcome>>

(* The key leaves the server.  It can still be lost on the way. *)
Release(i) ==
  /\ ticket[i] = "ACCEPTED"
  /\ ticket' = [ticket EXCEPT ![i] = "FULFILLED"]
  /\ UNCHANGED <<holder, outcome>>

Provide(c) ==
  /\ outcome[c] = "waiting"
  /\ \E i \in Ids : holder[i] = c /\ ticket[i] = "FULFILLED"
  /\ outcome' = [outcome EXCEPT ![c] = "provided"]
  /\ UNCHANGED <<ticket, holder>>

Fail(c) ==
  /\ outcome[c] = "waiting"
  /\ outcome' = [outcome EXCEPT ![c] = "failed"]
  /\ UNCHANGED <<ticket, holder>>

Next ==
  \/ \E c \in Clients : Ask(c) \/ Provide(c) \/ Fail(c)
  \/ \E i \in Ids : Decide(i) \/ Expire(i) \/ Release(i)

Spec == Init /\ [][Next]_avars

=============================================================================
