------------------------ MODULE KeyRequestInvariant ------------------------
(***************************************************************************)
(* Why the safety properties of KeyRequest hold: an inductive invariant.   *)
(* It ties the program counter of a process to what it holds, to what is   *)
(* under way for it, and to the request it owns on the server.             *)
(***************************************************************************)
EXTENDS KeyRequest

Ended == {"done", "crashed"}

(* The process asked for nothing yet: no request of the server is its own. *)
OwnsNothing(c) == requestId[c] = NoId /\ \A i \in Ids : reqOwner[i] # c

(* What a process may hold at each point of request_key().                 *)
Held ==
  [at \in PCs |->
     CASE at = "posted" -> {"response", "body", "url", "curl"}
       [] at = "poll" -> {"state", "url", "curl"}
       [] at \in {"polled", "patched"} -> {"response", "url", "curl"}
       [] at = "accepted" -> {"curl"}
       [] at = "deliver" -> {"key"}
       [] at = "done" -> Resources
       [] OTHER -> {}]

(* The local variables of request_key().                                   *)
LocalInv(c) ==
  /\ pc[c] = "start" => wire[c] = Idle /\ OwnsNothing(c)
  /\ pc[c] = "posted" => requestId[c] = NoId
  /\ pc[c] \in {"poll", "polled", "accepted"} => reqBody[c] = "NULL"
  /\ pc[c] # "done" => err[c] = "UL_OK"
  /\ given[c] # "nothing" => pc[c] \in {"deliver"} \cup Ended
  /\ heap[c] \subseteq Held[pc[c]]
  /\ pc[c] = "done" /\ err[c] # "UL_MALLOC" =>
       /\ heap[c] \subseteq {"curl"}
       /\ given[c] # "nothing" => heap[c] = {}

(* A request under way was signed as it is sent, belongs to the point where *)
(* its process waits, or waited when it ended, and names its own request.   *)
RequestInv(c) ==
  wire[c].kind = "request" =>
    /\ wire[c].signed = wire[c].body
    /\ wire[c].verb = "POST" =>
         pc[c] \in {"posted"} \cup Ended /\ OwnsNothing(c)
    /\ wire[c].verb = "GET" =>
         pc[c] \in {"polled"} \cup Ended /\ wire[c].id = requestId[c]
    /\ wire[c].verb = "PATCH" =>
         /\ pc[c] \in {"patched"} \cup Ended
         /\ wire[c].id = requestId[c]
         /\ requestId[c] # NoId
         /\ reqState[requestId[c]] \in {"ACCEPTED", "EXPIRED"}

(* An answer under way says what is still true of the process's request.   *)
AnswerInv(c) ==
  wire[c].kind = "answer" =>
    /\ wire[c].payload # "part"
    /\ wire[c].payload = "json" =>
         /\ wire[c].id # NoId
         /\ reqOwner[wire[c].id] = c
         /\ pc[c] = "polled" => wire[c].id = requestId[c]
         /\ wire[c].state = "DENIED" => reqState[wire[c].id] = "DENIED"
         /\ wire[c].state = "ACCEPTED" =>
              reqState[wire[c].id] \in {"ACCEPTED", "EXPIRED"}
    /\ wire[c].payload = "key" =>
         requestId[c] # NoId /\ reqState[requestId[c]] = "FULFILLED"

(* What the process knows of its own request.                              *)
KnowledgeInv(c) ==
  /\ requestId[c] # NoId => reqOwner[requestId[c]] = c
  /\ pc[c] = "accepted" =>
       /\ requestId[c] # NoId
       /\ reqState[requestId[c]] \in {"ACCEPTED", "EXPIRED"}
  /\ given[c] \in {"key", "part"} =>
       requestId[c] # NoId /\ reqState[requestId[c]] = "FULFILLED"
  /\ err[c] = "UL_DENIED" =>
       requestId[c] # NoId /\ reqState[requestId[c]] = "DENIED"

(* Every open request has one owner, and every process owns one at most.   *)
ServerInv ==
  /\ \A i \in Ids : reqState[i] = "NONE" => reqOwner[i] = NoClient
  /\ \A i, j \in Ids :
       reqOwner[i] = reqOwner[j] /\ reqOwner[i] # NoClient => i = j

ProcessInv(c) ==
  LocalInv(c) /\ RequestInv(c) /\ AnswerInv(c) /\ KnowledgeInv(c)

(* The inductive invariant of request_key() and its server: it implies     *)
(* every safety property of KeyRequest.                                    *)
KeyRequestInv ==
  /\ TypeOK
  /\ ServerInv
  /\ \A c \in Clients : ProcessInv(c)

=============================================================================
