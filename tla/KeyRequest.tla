---------------------------- MODULE KeyRequest ----------------------------
(***************************************************************************)
(* request_key() of src/src/client.c: a client process opens a request for *)
(* a key (POST), polls the request until an operator has decided it (GET), *)
(* asks for the key (PATCH) and hands the answer to its output modules.    *)
(*                                                                         *)
(* Several client processes run against one server: a process is never     *)
(* restarted in place, so a restarted service is another member of         *)
(* Clients.  The server, its operator, libcurl's transport and the memory  *)
(* allocator are the environment; which of its faults occur is a parameter.*)
(***************************************************************************)
EXTENDS Integers

CONSTANTS
  Clients,   \* client processes
  NoClient,  \* not a client
  MaxId,     \* bound on the requests the server opens
  Faults     \* which faults of the environment occur

FaultKinds == {"oom",     \* malloc, realloc or strdup returns NULL
               "net",     \* an exchange fails or its answer is cut short
               "refuse",  \* the server answers an error to a valid request
               "expire",  \* an undelivered request is withdrawn by the server
               "kill"}    \* the process dies at any point

ASSUME ClientsAssumption == NoClient \notin Clients
ASSUME MaxIdAssumption == MaxId \in Nat
ASSUME FaultsAssumption == Faults \subseteq FaultKinds

Ids == 1 .. MaxId

(* What get_request_id() returns when the answer holds no id. *)
NoId == 0

(* enum unlocked_err, as far as request_key() returns it. *)
Errors == {"UL_OK", "UL_DENIED", "UL_ERR", "UL_ERRNO", "UL_MALLOC"}

(* The "state" of a request, as the server reports it. *)
RequestStates == {"PENDING", "ACCEPTED", "DENIED", "EXPIRED", "FULFILLED"}

VARIABLES
  pc,         \* pc[c]: where process c is in request_key()
  err,        \* err[c]: the value request_key() returned
  heap,       \* heap[c]: what c has allocated and not released
  reqBody,    \* reqBody[c]: what request.body points to
  requestId,  \* requestId[c]: the local variable request_id
  given,      \* given[c]: what handle_success() was called with
  wire,       \* wire[c]: the request or the answer under way for c
  reqState,   \* reqState[i]: the server's state of request i
  reqOwner    \* reqOwner[i]: the process whose POST opened request i

vars == <<pc, err, heap, reqBody, requestId, given, wire, reqState, reqOwner>>
clientVars == <<pc, err, heap, reqBody, requestId, given>>
serverVars == <<reqState, reqOwner>>

-----------------------------------------------------------------------------
(* The wire.  An answer has a status, a payload and, when the payload is   *)
(* JSON, the members "id" and "state".  Payloads are told apart only as    *)
(* far as the client's behaviour depends on them: "part" is a beginning of *)
(* the key, "text" is anything that is neither JSON nor a part of the key. *)

Payloads == {"empty", "json", "text", "part", "key"}
Statuses == {0, 200, 201, 401, 404, 500}
Bodies == {"NULL", "handle", "FULFILLED", "freed"}

Idle == [kind |-> "idle"]

(* authHeader() signs request->body; curl transmits it for all but a GET. *)
Request(verb, id, body) ==
  [kind |-> "request", verb |-> verb, id |-> id, signed |-> body,
   body |-> IF verb = "GET" THEN "NULL" ELSE body]

Answer(status, payload, id, state) ==
  [kind |-> "answer", status |-> status, payload |-> payload,
   id |-> id, state |-> state]

Requests == [kind : {"request"}, verb : {"POST", "GET", "PATCH"},
             id : Ids \cup {NoId}, signed : Bodies, body : Bodies]
Answers == [kind : {"answer"}, status : Statuses, payload : Payloads,
            id : Ids \cup {NoId}, state : RequestStates \cup {"NULL"}]

(* create_response() as the callbacks of libcurl leave it when no byte of  *)
(* an answer arrives.                                                      *)
NoAnswer == Answer(0, "empty", NoId, "NULL")

(* The status line arrives, the body only in part: https_hmac_*() returns  *)
(* UL_CURL, but response->status and response->body are set.               *)
Cut(a) ==
  Answer(a.status,
         CASE a.payload = "key" -> "part"
           [] a.payload \in {"json", "text"} -> "text"
           [] OTHER -> a.payload,
         NoId, "NULL")

(* write_callback() runs out of memory: the body is lost. *)
NoBody(a) == Answer(a.status, "empty", NoId, "NULL")

(* What an exchange of c may leave in the response now. *)
Outcomes(c) ==
  (IF "net" \in Faults THEN {NoAnswer} ELSE {})
  \cup (IF wire[c].kind = "answer"
        THEN {wire[c]}
             \cup (IF "net" \in Faults THEN {Cut(wire[c])} ELSE {})
             \cup (IF "oom" \in Faults THEN {NoBody(wire[c])} ELSE {})
        ELSE {})

(* An answer is consumed; a request whose exchange failed may still arrive. *)
HangUp(c) ==
  wire' = IF wire[c].kind = "answer" THEN [wire EXCEPT ![c] = Idle] ELSE wire

-----------------------------------------------------------------------------
(* The client.                                                             *)

(* The sets of allocations, out of A, that may fail together. *)
OutOfMemory(A) == IF "oom" \in Faults THEN SUBSET A ELSE {{}}

Return(c, e, live) ==
  /\ pc' = [pc EXCEPT ![c] = "done"]
  /\ err' = [err EXCEPT ![c] = e]
  /\ heap' = [heap EXCEPT ![c] = live]

(* The process dies and the system reclaims its memory. *)
Crash(c) ==
  /\ pc' = [pc EXCEPT ![c] = "crashed"]
  /\ heap' = [heap EXCEPT ![c] = {}]
  /\ UNCHANGED err

Continue(c, at, live) ==
  /\ pc' = [pc EXCEPT ![c] = at]
  /\ heap' = [heap EXCEPT ![c] = live]
  /\ UNCHANGED err

(* request_key() up to the POST.  "headers" stands for every allocation of *)
(* https_hmac_POST(), OpenSSL and libcurl before a byte is sent: without   *)
(* it the POST is never sent and response->status is still 0, or the       *)
(* digest is a NULL pointer that hmac_sha512() reads.                      *)
PostOutOfMemory(c, failed) ==
  /\ failed \cap {"body", "url"} # {}
  /\ Return(c, "UL_MALLOC", {"response"} \ failed)
  /\ UNCHANGED <<reqBody, wire>>

PostNotSent(c, failed) ==
  /\ failed \cap {"body", "url"} = {}
  /\ "headers" \in failed
  /\ \/ Crash(c)
     \/ "response" \notin failed /\ Return(c, "UL_ERR", {"curl"})
  /\ UNCHANGED <<reqBody, wire>>

PostSent(c, failed) ==
  /\ failed \cap {"body", "url", "headers"} = {}
  /\ Continue(c, "posted", {"response", "body", "url", "curl"} \ failed)
  /\ reqBody' = [reqBody EXCEPT ![c] = "handle"]
  /\ wire' = [wire EXCEPT ![c] = Request("POST", NoId, "handle")]

Post(c) ==
  /\ pc[c] = "start"
  /\ \E failed \in OutOfMemory({"response", "body", "url", "headers"}) :
       \/ PostOutOfMemory(c, failed)
       \/ PostNotSent(c, failed)
       \/ PostSent(c, failed)
  /\ UNCHANGED <<requestId, given, serverVars>>

(* Seeded fault: a failure to find the id is reported as a valid id. *)
FirstIdOnFailure(a) == IF a.payload = "json" THEN a.id ELSE 1

(* Seeded fault: a failure to find the id is reported as -1. *)
MinusOneOnFailure(a) == IF a.payload = "json" THEN a.id ELSE -1

get_request_id(a) == IF a.payload = "json" THEN a.id ELSE NoId
get_request_state(a) == IF a.payload = "json" THEN a.state ELSE "NULL"

(* Seeded fault: request.body is not reset after it was freed. *)
BodyDangles(c) == reqBody' = [reqBody EXCEPT ![c] = "freed"]

(* free(request.body); request.body = NULL; *)
FreeBody(c) == reqBody' = [reqBody EXCEPT ![c] = "NULL"]

(* The POST is back.  A response that could not be allocated is written to *)
(* by curl_easy_getinfo().  Status 201 goes on to the poll loop, whatever  *)
(* get_request_id() found.                                                 *)
PostReturns(c) ==
  /\ pc[c] = "posted"
  /\ \E a \in Outcomes(c), failed \in OutOfMemory({"url"}) :
       \/ /\ "response" \notin heap[c]
          /\ Crash(c)
          /\ UNCHANGED requestId
       \/ /\ "response" \in heap[c]
          /\ a.status # 201
          /\ Return(c, "UL_ERR", heap[c] \ {"body", "url", "response"})
          /\ UNCHANGED requestId
       \/ /\ "response" \in heap[c]
          /\ a.status = 201
          /\ requestId' = [requestId EXCEPT ![c] = get_request_id(a)]
          /\ LET live == heap[c] \ {"body", "url", "response"} IN
               IF failed # {}
               THEN Return(c, "UL_MALLOC", live)
               ELSE Continue(c, "poll", live \cup {"url"})
  /\ FreeBody(c)
  /\ HangUp(c)
  /\ UNCHANGED <<given, serverVars>>

(* The do loop up to the GET.  Without memory for the headers the GET is   *)
(* not sent, no state is found, and the function returns, unless it was    *)
(* the digest that found no memory.                                        *)
Poll(c) ==
  /\ pc[c] = "poll"
  /\ \E failed \in OutOfMemory({"response", "headers"}) :
       \/ /\ "headers" \in failed
          /\ \/ Return(c, "UL_ERR", heap[c] \ {"state", "url", "curl"})
             \/ Crash(c)
          /\ UNCHANGED wire
       \/ /\ "headers" \notin failed
          /\ Continue(c, "polled",
                      (heap[c] \ {"state"}) \cup ({"response"} \ failed))
          /\ wire' = [wire EXCEPT ![c] =
                        Request("GET", requestId[c], reqBody[c])]
  /\ UNCHANGED <<reqBody, requestId, given, serverVars>>

(* Seeded faults: a poll that failed is repeated; a missing state is taken *)
(* for an accepted request; every failure is reported as a denial; the     *)
(* response of a poll is not freed.                                        *)
RetryOnFailure(state) == state \in {"PENDING", "NULL"}
MissingIsGranted(state) == state \in {"ACCEPTED", "NULL"}
AlwaysDenied(state) == "UL_DENIED"
ResponseKept(c) == heap[c]

(* What request_key() concludes from the state of a request. *)
Undecided(state) == state = "PENDING"
Granted(state) == state = "ACCEPTED"
Failure(state) == IF state = "DENIED" THEN "UL_DENIED" ELSE "UL_ERR"
FreeResponse(c) == heap[c] \ {"response"}

(* What follows from the state a poll found, NULL if it found none.        *)
(* cleanup_https_client() is only called in that case.                     *)
Conclude(c, state) ==
  \/ /\ Undecided(state)
     /\ Continue(c, "poll", FreeResponse(c) \cup {"state"})
  \/ /\ Granted(state)
     /\ Continue(c, "accepted", FreeResponse(c) \ {"url"})
  \/ /\ ~Undecided(state) /\ ~Granted(state)
     /\ Return(c, Failure(state),
               IF state = "NULL" THEN FreeResponse(c) \ {"url", "curl"}
                                 ELSE FreeResponse(c) \ {"url"})

(* The GET is back: the rest of the loop and, unless the request is still  *)
(* pending, the decision after it.                                         *)
PollReturns(c) ==
  /\ pc[c] = "polled"
  /\ \E a \in Outcomes(c), failed \in OutOfMemory({"state"}) :
       \/ /\ "response" \notin heap[c]
          /\ Crash(c)
       \/ /\ "response" \in heap[c]
          /\ Conclude(c, IF failed = {} THEN get_request_state(a) ELSE "NULL")
  /\ HangUp(c)
  /\ UNCHANGED <<reqBody, requestId, given, serverVars>>

(* From the accepted state to the PATCH.  A PATCH that is not sent leaves  *)
(* response->body NULL, which strdup() reads.                              *)
Patch(c) ==
  /\ pc[c] = "accepted"
  /\ reqBody' = [reqBody EXCEPT ![c] = "FULFILLED"]
  /\ \E failed \in OutOfMemory({"response", "url", "headers"}) :
       LET live == heap[c] \cup ({"response"} \ failed) IN
       \/ /\ "url" \in failed
          /\ Return(c, "UL_MALLOC", live)
          /\ UNCHANGED wire
       \/ /\ "url" \notin failed
          /\ "headers" \in failed
          /\ Crash(c)
          /\ UNCHANGED wire
       \/ /\ failed \cap {"url", "headers"} = {}
          /\ Continue(c, "patched", live \cup {"url"})
          /\ wire' = [wire EXCEPT ![c] =
                        Request("PATCH", requestId[c], reqBody'[c])]
  /\ UNCHANGED <<requestId, given, serverVars>>

(* The PATCH is back.  Neither its return value nor response->status is    *)
(* looked at: any body is taken for the key, and no body is a NULL pointer *)
(* for strdup().                                                           *)
PatchReturns(c) ==
  /\ pc[c] = "patched"
  /\ \E a \in Outcomes(c), failed \in OutOfMemory({"key"}) :
       LET live == heap[c] \ {"url", "curl", "response"} IN
       \/ /\ "response" \notin heap[c] \/ a.payload = "empty"
          /\ Crash(c)
          /\ UNCHANGED given
       \/ /\ "response" \in heap[c]
          /\ a.payload # "empty"
          /\ IF failed # {}
             THEN Return(c, "UL_MALLOC", live) /\ UNCHANGED given
             ELSE /\ Continue(c, "deliver", live \cup {"key"})
                  /\ given' = [given EXCEPT ![c] = a.payload]
  /\ HangUp(c)
  /\ UNCHANGED <<reqBody, requestId, serverVars>>

(* handle_success() returns what the first failing module returned. *)
Deliver(c) ==
  /\ pc[c] = "deliver"
  /\ \E e \in {"UL_OK", "UL_ERR", "UL_ERRNO"} :
       Return(c, e, heap[c] \ {"key"})
  /\ UNCHANGED <<reqBody, requestId, given, wire, serverVars>>

(* The process is killed, or the machine stops. *)
Kill(c) ==
  /\ "kill" \in Faults
  /\ pc[c] \notin {"done", "crashed"}
  /\ Crash(c)
  /\ UNCHANGED <<reqBody, requestId, given, wire, serverVars>>

-----------------------------------------------------------------------------
(* The server and its operator (external), as request_key() uses them.     *)

Reply(c, status, payload, id, state) ==
  wire' = [wire EXCEPT ![c] = Answer(status, payload, id, state)]

Asks(c, verb) ==
  /\ wire[c].kind = "request"
  /\ wire[c].verb = verb
  /\ wire[c].signed = wire[c].body

Create(c) ==
  /\ Asks(c, "POST")
  /\ \E i \in Ids :
       /\ reqState[i] = "NONE"
       /\ reqState' = [reqState EXCEPT ![i] = "PENDING"]
       /\ reqOwner' = [reqOwner EXCEPT ![i] = c]
       /\ Reply(c, 201, "json", i, "PENDING")
  /\ UNCHANGED clientVars

Known(i) == i \in Ids /\ reqState[i] # "NONE"

Show(c) ==
  /\ Asks(c, "GET")
  /\ LET i == wire[c].id IN
       IF Known(i)
       THEN Reply(c, 200, "json", i, reqState[i])
       ELSE Reply(c, 404, "text", NoId, "NULL")
  /\ UNCHANGED <<clientVars, serverVars>>

Fulfil(c) ==
  /\ Asks(c, "PATCH")
  /\ LET i == wire[c].id IN
       IF Known(i) /\ reqState[i] = "ACCEPTED"
       THEN /\ reqState' = [reqState EXCEPT ![i] = "FULFILLED"]
            /\ Reply(c, 200, "key", NoId, "NULL")
       ELSE /\ Reply(c, 404, "text", NoId, "NULL")
            /\ UNCHANGED reqState
  /\ UNCHANGED <<clientVars, reqOwner>>

(* A signature that does not match, a wrong secret, an overloaded server. *)
Refuse(c) ==
  /\ wire[c].kind = "request"
  /\ "refuse" \in Faults \/ wire[c].signed # wire[c].body
  /\ \E status \in {401, 500}, payload \in {"text", "empty"} :
       Reply(c, status, payload, NoId, "NULL")
  /\ UNCHANGED <<clientVars, serverVars>>

Decide(i) ==
  /\ reqState[i] = "PENDING"
  /\ \E d \in {"ACCEPTED", "DENIED"} : reqState' = [reqState EXCEPT ![i] = d]
  /\ UNCHANGED <<clientVars, wire, reqOwner>>

(* Why the client has a branch for a state that is none of the three. *)
Expire(i) ==
  /\ "expire" \in Faults
  /\ reqState[i] \in {"PENDING", "ACCEPTED"}
  /\ reqState' = [reqState EXCEPT ![i] = "EXPIRED"]
  /\ UNCHANGED <<clientVars, wire, reqOwner>>

-----------------------------------------------------------------------------
Init ==
  /\ pc = [c \in Clients |-> "start"]
  /\ err = [c \in Clients |-> "UL_OK"]
  /\ heap = [c \in Clients |-> {}]
  /\ reqBody = [c \in Clients |-> "NULL"]
  /\ requestId = [c \in Clients |-> NoId]
  /\ given = [c \in Clients |-> "nothing"]
  /\ wire = [c \in Clients |-> Idle]
  /\ reqState = [i \in Ids |-> "NONE"]
  /\ reqOwner = [i \in Ids |-> NoClient]

ClientStep(c) ==
  \/ Post(c) \/ PostReturns(c)
  \/ Poll(c) \/ PollReturns(c)
  \/ Patch(c) \/ PatchReturns(c)
  \/ Deliver(c)

Serve(c) == Create(c) \/ Show(c) \/ Fulfil(c) \/ Refuse(c)

Next ==
  \/ \E c \in Clients : ClientStep(c) \/ Kill(c) \/ Serve(c)
  \/ \E i \in Ids : Decide(i) \/ Expire(i)

Spec == Init /\ [][Next]_vars

(* A process runs while it is not waiting, an exchange is eventually       *)
(* answered, and the operator looks at every request.  Deliver may wait    *)
(* forever for a reader of the socket, and no fault is ever due.           *)
Fairness ==
  /\ \A c \in Clients :
       /\ WF_vars(Post(c)) /\ WF_vars(PostReturns(c))
       /\ WF_vars(Poll(c)) /\ WF_vars(PollReturns(c))
       /\ WF_vars(Patch(c)) /\ WF_vars(PatchReturns(c))
       /\ WF_vars(Create(c) \/ Show(c) \/ Fulfil(c))
  /\ \A i \in Ids : WF_vars(Decide(i))

FairSpec == Spec /\ Fairness

-----------------------------------------------------------------------------
PCs == {"start", "posted", "poll", "polled", "accepted", "patched", "deliver",
        "done", "crashed"}
Resources == {"response", "body", "url", "state", "key", "curl"}

(* The type invariant of the client's variables, the wire and the server.  *)
TypeOK ==
  /\ pc \in [Clients -> PCs]
  /\ err \in [Clients -> Errors]
  /\ heap \in [Clients -> SUBSET Resources]
  /\ reqBody \in [Clients -> Bodies]
  /\ requestId \in [Clients -> Ids \cup {NoId}]
  /\ given \in [Clients -> {"nothing"} \cup Payloads]
  /\ wire \in [Clients -> {Idle} \cup Requests \cup Answers]
  /\ reqState \in [Ids -> {"NONE"} \cup RequestStates]
  /\ reqOwner \in [Ids -> Clients \cup {NoClient}]

(* Every request under way is signed over exactly the body that is sent    *)
(* with it: request.body, reused by the three exchanges, is neither a      *)
(* leftover nor a dangling pointer when authHeader() reads it.             *)
SignedAsSent ==
  \A c \in Clients : wire[c].kind = "request" => wire[c].signed = wire[c].body

(* A process works on the request its own POST opened, and opens one at    *)
(* most, even when its POST reaches the server after the process is gone.  *)
OwnRequest ==
  /\ \A c \in Clients : requestId[c] # NoId => reqOwner[requestId[c]] = c
  /\ \A i, j \in Ids :
       reqOwner[i] = reqOwner[j] /\ reqOwner[i] # NoClient => i = j

(* No part of the key reaches the modules of a process unless the server   *)
(* fulfilled the very request this process opened; a process that goes on  *)
(* with the id 0 after a failed get_request_id() never gets that far.      *)
KeyOnlyIfFulfilled ==
  \A c \in Clients :
    given[c] \in {"key", "part"} =>
      /\ requestId[c] # NoId
      /\ reqOwner[requestId[c]] = c
      /\ reqState[requestId[c]] = "FULFILLED"

(* A request is asked to be fulfilled only after the operator accepted it, *)
(* however the answers to the polls were lost or cut: on arrival it is     *)
(* still accepted, or was withdrawn since.                                 *)
PatchOnlyIfAccepted ==
  \A c \in Clients :
    wire[c].kind = "request" /\ wire[c].verb = "PATCH" =>
      /\ wire[c].id # NoId
      /\ reqState[wire[c].id] \in {"ACCEPTED", "EXPIRED"}

(* UL_DENIED is returned only for a request the operator denied: a failed  *)
(* exchange, a refused signature or a withdrawn request is never reported  *)
(* as a denial.                                                            *)
DeniedIsDenied ==
  \A c \in Clients :
    err[c] = "UL_DENIED" =>
      requestId[c] # NoId /\ reqState[requestId[c]] = "DENIED"

(* Unless memory ran out, request_key() returns with everything released   *)
(* but libcurl's global state, and with that too once a key was handed on. *)
NothingLeaked ==
  \A c \in Clients :
    pc[c] = "done" /\ err[c] # "UL_MALLOC" =>
      /\ heap[c] \subseteq {"curl"}
      /\ given[c] # "nothing" => heap[c] = {}

(* What module.h says of the success callback: it is called with the key   *)
(* received from the server.                                               *)
GivenTheKey == \A c \in Clients : given[c] \in {"nothing", "key"}

(* The poll loop ends: every process comes to hand something to its        *)
(* modules, to return, or to die, whichever exchanges fail.                *)
LoopEnds == \A c \in Clients : <>(pc[c] \in {"deliver", "done", "crashed"})

=============================================================================
