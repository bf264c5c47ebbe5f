-------------------------- MODULE KeyRequestProofs --------------------------
(* Safety of request_key() for any number of processes and requests.       *)
EXTENDS KeyRequestInvariant, TLAPS

Messages == {Idle} \cup Requests \cup Answers

(* What is under way is told apart by its kind.                            *)
LEMMA MessageKinds ==
  ASSUME NEW m \in Messages
  PROVE  /\ m.kind = "answer" => m \in Answers
         /\ m.kind = "request" => m \in Requests
         /\ m.kind \notin {"answer", "request"} => m = Idle
BY DEF Messages, Idle, Requests, Answers

(* An answer is well-formed, whatever of it arrives.                       *)
LEMMA AnswerType ==
  ASSUME NEW s \in Statuses, NEW p \in Payloads, NEW i \in Ids \cup {NoId},
         NEW r \in RequestStates \cup {"NULL"}
  PROVE  Answer(s, p, i, r) \in Answers
BY DEF Answer, Answers

(* A request of the client is well-formed.                                 *)
LEMMA RequestType ==
  ASSUME NEW v \in {"POST", "GET", "PATCH"}, NEW i \in Ids \cup {NoId},
         NEW b \in Bodies
  PROVE  Request(v, i, b) \in Requests
BY DEF Request, Requests, Bodies

(* What an exchange leaves in the response is an answer.                   *)
LEMMA OutcomesType ==
  ASSUME TypeOK, NEW c \in Clients, NEW a \in Outcomes(c)
  PROVE  a \in Answers
<1>1. NoAnswer \in Answers
  BY AnswerType DEF NoAnswer, Statuses, Payloads
<1>2. ASSUME wire[c].kind = "answer"
      PROVE  wire[c] \in Answers /\ Cut(wire[c]) \in Answers
             /\ NoBody(wire[c]) \in Answers
  <2>1. wire[c] \in Answers
    BY <1>2, MessageKinds DEF TypeOK, Messages
  <2>2. wire[c].status \in Statuses /\ wire[c].payload \in Payloads
    BY <2>1 DEF Answers
  <2> QED
    BY <2>1, <2>2, AnswerType DEF Cut, NoBody, Payloads
<1> QED
  BY <1>1, <1>2 DEF Outcomes

(* The end of an exchange keeps the wire well-formed.                      *)
LEMMA HangUpType ==
  ASSUME TypeOK, NEW c \in Clients, HangUp(c)
  PROVE  wire' \in [Clients -> Messages]
BY DEF TypeOK, HangUp, Messages

(* Every step keeps the types.                                             *)
LEMMA TypeStep ==
  ASSUME TypeOK, [Next]_vars
  PROVE  TypeOK'
<1> USE DEF TypeOK
<1>1. CASE UNCHANGED vars
  BY <1>1 DEF vars
<1>2. ASSUME NEW c \in Clients, Post(c) PROVE TypeOK'
  <2>1. PICK failed \in OutOfMemory({"response", "body", "url", "headers"}) :
          \/ PostOutOfMemory(c, failed)
          \/ PostNotSent(c, failed)
          \/ PostSent(c, failed)
    BY <1>2 DEF Post
  <2>2. Request("POST", NoId, "handle") \in Requests
    BY RequestType DEF Bodies
  <2> QED
    BY <1>2, <2>1, <2>2 DEF Post, PostOutOfMemory, PostNotSent, PostSent,
       Return, Crash, Continue, PCs, Errors, Resources, Bodies, serverVars
<1>3. ASSUME NEW c \in Clients, PostReturns(c) PROVE TypeOK'
  <2>1. PICK a \in Outcomes(c), failed \in OutOfMemory({"url"}) :
          PostReturns(c)!2!(a, failed)
    BY <1>3 DEF PostReturns
  <2>2. get_request_id(a) \in Ids \cup {NoId}
    BY OutcomesType DEF get_request_id, Answers
  <2> QED
    BY <1>3, <2>1, <2>2, HangUpType DEF PostReturns,
       Return, Crash, Continue, PCs, Errors, Resources, Bodies, serverVars,
       FreeBody, Messages
<1>4. ASSUME NEW c \in Clients, Poll(c) PROVE TypeOK'
  <2>1. Request("GET", requestId[c], reqBody[c]) \in Requests
    BY RequestType
  <2> QED
    BY <1>4, <2>1 DEF Poll, Return, Crash, Continue, PCs, Errors, Resources,
       serverVars
<1>5. ASSUME NEW c \in Clients, PollReturns(c) PROVE TypeOK'
  BY <1>5, HangUpType DEF PollReturns, Conclude, Messages, Return, Crash, Continue,
     FreeResponse, Failure, PCs, Errors, Resources, serverVars
<1>6. ASSUME NEW c \in Clients, Patch(c) PROVE TypeOK'
  <2>1. Request("PATCH", requestId[c], "FULFILLED") \in Requests
    BY RequestType DEF Bodies
  <2>2. reqBody'[c] = "FULFILLED" /\ reqBody' \in [Clients -> Bodies]
    BY <1>6 DEF Patch, Bodies
  <2> QED
    BY <1>6, <2>1, <2>2 DEF Patch, Return, Crash, Continue, PCs, Errors,
       Resources, serverVars
<1>7. ASSUME NEW c \in Clients, PatchReturns(c) PROVE TypeOK'
  <2>1. PICK a \in Outcomes(c), failed \in OutOfMemory({"key"}) :
          PatchReturns(c)!2!(a, failed)
    BY <1>7 DEF PatchReturns
  <2>2. a.payload \in Payloads
    BY OutcomesType DEF Answers
  <2> QED
    BY <1>7, <2>1, <2>2, HangUpType DEF PatchReturns, Messages, Return, Crash,
       Continue, PCs, Errors, Resources, serverVars
<1>8. ASSUME NEW c \in Clients, Deliver(c) PROVE TypeOK'
  BY <1>8 DEF Deliver, Return, PCs, Errors, Resources, serverVars
<1>9. ASSUME NEW c \in Clients, Kill(c) PROVE TypeOK'
  BY <1>9 DEF Kill, Crash, PCs, serverVars
<1>10. ASSUME NEW c \in Clients, Serve(c) PROVE TypeOK'
  <2>1. ASSUME Create(c) PROVE TypeOK'
    <3>1. PICK i \in Ids : Create(c)!2!(i)
      BY <2>1 DEF Create
    <3>2. Answer(201, "json", i, "PENDING") \in Answers
      BY AnswerType DEF Statuses, Payloads, RequestStates
    <3> QED
      BY <2>1, <3>1, <3>2 DEF Create, Reply, clientVars, RequestStates
  <2>2. ASSUME Show(c) PROVE TypeOK'
    <3>1. Answer(404, "text", NoId, "NULL") \in Answers
      BY DEF Answer, Answers, Statuses, Payloads
    <3>2. ASSUME Known(wire[c].id)
          PROVE  Answer(200, "json", wire[c].id, reqState[wire[c].id])
                   \in Answers
      BY <3>2, AnswerType DEF Known, Statuses, Payloads
    <3> QED
      BY <2>2, <3>1, <3>2 DEF Show, Reply, clientVars, serverVars
  <2>3. ASSUME Fulfil(c) PROVE TypeOK'
    <3>1. Answer(404, "text", NoId, "NULL") \in Answers
      BY DEF Answer, Answers, Statuses, Payloads
    <3>2. Answer(200, "key", NoId, "NULL") \in Answers
      BY DEF Answer, Answers, Statuses, Payloads
    <3> QED
      BY <2>3, <3>1, <3>2 DEF Fulfil, Reply, clientVars, RequestStates
  <2>4. ASSUME Refuse(c) PROVE TypeOK'
    <3>1. PICK status \in {401, 500}, payload \in {"text", "empty"} :
            Reply(c, status, payload, NoId, "NULL")
      BY <2>4 DEF Refuse
    <3>2. status \in Statuses /\ payload \in Payloads
      BY DEF Statuses, Payloads
    <3>3. Answer(status, payload, NoId, "NULL") \in Answers
      BY <3>2, AnswerType
    <3> QED
      BY <2>4, <3>1, <3>3 DEF Refuse, Reply, clientVars, serverVars
  <2> QED
    BY <1>10, <2>1, <2>2, <2>3, <2>4 DEF Serve
<1>11. ASSUME NEW i \in Ids, Decide(i) \/ Expire(i) PROVE TypeOK'
  BY <1>11 DEF Decide, Expire, clientVars, RequestStates
<1> QED
  BY <1>1, <1>2, <1>3, <1>4, <1>5, <1>6, <1>7, <1>8, <1>9, <1>10, <1>11
  DEF Next, ClientStep

(* The variables of KeyRequest keep their types.                           *)
THEOREM TypeCorrect == Spec => []TypeOK
<1>1. Init => TypeOK
  BY DEF Init, TypeOK, PCs, Errors, Resources, Bodies, RequestStates, NoId
<1> QED
  BY <1>1, TypeStep, PTL DEF Spec

-----------------------------------------------------------------------------
(* What a step of another process leaves alone.                            *)
Untouched(d) ==
  /\ pc'[d] = pc[d] /\ err'[d] = err[d] /\ heap'[d] = heap[d]
  /\ reqBody'[d] = reqBody[d] /\ requestId'[d] = requestId[d]
  /\ given'[d] = given[d] /\ wire'[d] = wire[d]

(* A step that leaves a process and the server alone keeps its invariant.  *)
LEMMA UntouchedKeeps ==
  ASSUME NEW d \in Clients, Untouched(d), UNCHANGED serverVars, ProcessInv(d)
  PROVE  ProcessInv(d)'
BY DEF Untouched, serverVars, ProcessInv, LocalInv, RequestInv, AnswerInv,
   KnowledgeInv, OwnsNothing

(* A step of one process leaves the others and the server alone.           *)
LEMMA ClientTouchesItself ==
  ASSUME TypeOK, NEW c \in Clients, NEW d \in Clients, d # c,
         ClientStep(c) \/ Kill(c)
  PROVE  Untouched(d) /\ UNCHANGED serverVars
<1> USE DEF TypeOK, Untouched, Return, Crash, Continue
<1>1. CASE Post(c)
  BY <1>1 DEF Post, PostOutOfMemory, PostNotSent, PostSent
<1>2. CASE PostReturns(c)
  BY <1>2 DEF PostReturns, HangUp, FreeBody
<1>3. CASE Poll(c)
  BY <1>3 DEF Poll
<1>4. CASE PollReturns(c)
  BY <1>4 DEF PollReturns, Conclude, HangUp
<1>5. CASE Patch(c)
  BY <1>5 DEF Patch
<1>6. CASE PatchReturns(c)
  BY <1>6 DEF PatchReturns, HangUp
<1>7. CASE Deliver(c)
  BY <1>7 DEF Deliver
<1>8. CASE Kill(c)
  BY <1>8 DEF Kill
<1> QED
  BY <1>1, <1>2, <1>3, <1>4, <1>5, <1>6, <1>7, <1>8 DEF ClientStep

(* The server changes nothing that belongs to d.                           *)
LEMMA ServerKeepsOthers ==
  ASSUME TypeOK, TypeOK', NEW d \in Clients, UNCHANGED clientVars,
         wire'[d] = wire[d],
         \A i \in Ids : reqOwner'[i] = d <=> reqOwner[i] = d,
         \A i \in Ids : reqOwner[i] = d => reqState'[i] = reqState[i],
         ProcessInv(d)
  PROVE  ProcessInv(d)'
<1> USE DEF ProcessInv, clientVars
<1>1. wire[d] \in Messages
  BY DEF TypeOK, Messages
<1>2. LocalInv(d)'
  BY DEF LocalInv, OwnsNothing
<1>3. RequestInv(d)'
  BY DEF RequestInv, OwnsNothing, KnowledgeInv, TypeOK
<1>4. AnswerInv(d)'
  <2>1. wire[d].kind = "answer" => wire[d].id \in Ids \cup {NoId}
    BY <1>1, MessageKinds DEF Answers
  <2> QED
    BY <2>1 DEF AnswerInv, KnowledgeInv, TypeOK
<1>5. KnowledgeInv(d)'
  BY DEF KnowledgeInv, TypeOK
<1> QED
  BY <1>2, <1>3, <1>4, <1>5

(* What an outcome tells of the answer it is made from.                    *)
LEMMA OutcomeFacts ==
  ASSUME TypeOK, NEW c \in Clients, AnswerInv(c), NEW a \in Outcomes(c)
  PROVE  /\ a.status # 0 => wire[c].kind = "answer"
         /\ a.payload = "json" => wire[c].kind = "answer" /\ a = wire[c]
         /\ a.payload \in {"key", "part"} =>
              wire[c].kind = "answer" /\ wire[c].payload = "key"
<1>1. CASE a = NoAnswer
  BY <1>1 DEF NoAnswer, Answer
<1>2. CASE wire[c].kind = "answer" /\ a = wire[c]
  <2>1. a \in Answers
    BY OutcomesType
  <2> QED
    BY <1>2, <2>1 DEF AnswerInv, Answers
<1>3. CASE wire[c].kind = "answer" /\ a = Cut(wire[c])
  <2>1. wire[c].payload # "part"
    BY <1>3 DEF AnswerInv
  <2>2. CASE wire[c].payload = "key"
    BY <1>3, <2>2 DEF Cut, Answer
  <2>3. CASE wire[c].payload # "key"
    <3>1. a.payload \notin {"json", "key", "part"}
      BY <1>3, <2>1, <2>3 DEF Cut, Answer
    <3> QED
      BY <1>3, <3>1
  <2> QED
    BY <2>2, <2>3
<1>4. CASE wire[c].kind = "answer" /\ a = NoBody(wire[c])
  BY <1>4 DEF NoBody, Answer
<1> QED
  BY <1>1, <1>2, <1>3, <1>4 DEF Outcomes

(* The bounds of Held, point by point.                                     *)
LEMMA HeldAt ==
  /\ Held["posted"] = {"response", "body", "url", "curl"}
  /\ Held["poll"] = {"state", "url", "curl"}
  /\ Held["polled"] = {"response", "url", "curl"}
  /\ Held["patched"] = {"response", "url", "curl"}
  /\ Held["accepted"] = {"curl"}
  /\ Held["deliver"] = {"key"}
  /\ Held["done"] = Resources
  /\ Held["crashed"] = {}
BY DEF Held, PCs

(* What is under way for a process after its exchange is not an answer.    *)
LEMMA HungUp ==
  ASSUME TypeOK, NEW c \in Clients, HangUp(c)
  PROVE  /\ wire[c].kind = "answer" => wire'[c] = Idle
         /\ wire[c].kind # "answer" => wire'[c] = wire[c]
         /\ wire'[c].kind # "answer"
BY DEF TypeOK, HangUp, Idle

(* request_key() up to the POST.                                           *)
LEMMA PostKeeps ==
  ASSUME TypeOK, TypeOK', NEW c \in Clients, ProcessInv(c), Post(c)
  PROVE  ProcessInv(c)'
<1>1. PICK failed \in OutOfMemory({"response", "body", "url", "headers"}) :
        \/ PostOutOfMemory(c, failed)
        \/ PostNotSent(c, failed)
        \/ PostSent(c, failed)
  BY DEF Post
<1>2. /\ pc[c] = "start" /\ wire[c] = Idle /\ OwnsNothing(c)
      /\ err[c] = "UL_OK" /\ given[c] = "nothing"
      /\ requestId'[c] = NoId /\ given'[c] = "nothing"
      /\ OwnsNothing(c)'
  BY DEF Post, ProcessInv, LocalInv, OwnsNothing, serverVars, Ended
<1> USE <1>1, <1>2 DEF TypeOK, PostOutOfMemory, PostNotSent, PostSent, Return,
        Crash, Continue
<1>3. wire'[c] = Idle \/ wire'[c] = Request("POST", NoId, "handle")
  OBVIOUS
<1>4. LocalInv(c)'
  <2>1. pc'[c] \in {"posted", "done", "crashed"}
    OBVIOUS
  <2>2. heap'[c] \subseteq Held[pc'[c]]
    BY <2>1, HeldAt DEF Resources
  <2>3. pc'[c] = "done" /\ err'[c] # "UL_MALLOC" => heap'[c] = {"curl"}
    OBVIOUS
  <2>4. pc'[c] # "done" => err'[c] = "UL_OK"
    OBVIOUS
  <2> QED
    BY <2>1, <2>2, <2>3, <2>4 DEF LocalInv
<1>5. RequestInv(c)'
  BY <1>3 DEF RequestInv, Request, Idle
<1>6. AnswerInv(c)'
  BY <1>3 DEF AnswerInv, Request, Idle
<1>7. KnowledgeInv(c)'
  BY DEF KnowledgeInv
<1> QED
  BY <1>4, <1>5, <1>6, <1>7 DEF ProcessInv

(* The return of the POST: the id found is that of the process's request.  *)
LEMMA PostReturnsKeeps ==
  ASSUME TypeOK, TypeOK', NEW c \in Clients, ProcessInv(c), PostReturns(c)
  PROVE  ProcessInv(c)'
<1>1. PICK a \in Outcomes(c), failed \in OutOfMemory({"url"}) :
        PostReturns(c)!2!(a, failed)
  BY DEF PostReturns
<1>2. /\ pc[c] = "posted" /\ requestId[c] = NoId /\ err[c] = "UL_OK"
      /\ given[c] = "nothing" /\ given'[c] = "nothing"
      /\ heap[c] \subseteq {"response", "body", "url", "curl"}
      /\ UNCHANGED serverVars
      /\ HangUp(c)
      /\ reqBody'[c] = "NULL"
  BY HeldAt DEF PostReturns, ProcessInv, LocalInv, FreeBody, TypeOK, Ended
<1>3. /\ a.status # 0 => wire[c].kind = "answer"
      /\ a.payload = "json" => wire[c].kind = "answer" /\ a = wire[c]
  BY OutcomeFacts DEF ProcessInv
<1>4. /\ wire[c].kind = "answer" => wire'[c] = Idle
      /\ wire[c].kind # "answer" => wire'[c] = wire[c]
      /\ wire'[c].kind # "answer"
  BY <1>2, HungUp
<1>5. pc'[c] \in {"poll", "done", "crashed"}
      /\ (pc'[c] # "done" => err'[c] = "UL_OK")
      /\ err'[c] # "UL_DENIED"
  BY <1>1, <1>2 DEF Return, Crash, Continue, TypeOK
<1>6. wire'[c] # Idle => requestId'[c] = NoId
  BY <1>1, <1>2, <1>3, <1>4
<1>7. requestId'[c] # NoId => reqOwner[requestId'[c]] = c
  <2>1. a.payload = "json" => reqOwner[a.id] = c
    BY <1>3 DEF ProcessInv, AnswerInv
  <2>2. requestId'[c] \in {NoId, get_request_id(a)}
    BY <1>1, <1>2 DEF TypeOK
  <2> QED
    BY <2>1, <2>2 DEF get_request_id
<1>8. LocalInv(c)'
  <2>1. heap'[c] \subseteq Held[pc'[c]]
    BY <1>1, <1>2, <1>5, HeldAt DEF Return, Crash, Continue, TypeOK, Resources
  <2>2. pc'[c] = "done" /\ err'[c] # "UL_MALLOC" => heap'[c] \subseteq {"curl"}
    BY <1>1, <1>2 DEF Return, Crash, Continue, TypeOK
  <2> QED
    BY <1>2, <1>5, <2>1, <2>2 DEF LocalInv
<1>9. RequestInv(c)'
  <2>1. CASE wire'[c] = Idle
    BY <2>1 DEF RequestInv, Idle
  <2>2. CASE wire'[c] # Idle
    <3>1. wire'[c] = wire[c] /\ requestId'[c] = NoId
          /\ pc'[c] \in {"done", "crashed"}
      BY <1>1, <1>2, <1>3, <1>4, <1>6, <2>2 DEF Return, Crash, Continue, TypeOK
    <3> QED
      BY <1>2, <3>1 DEF RequestInv, ProcessInv, OwnsNothing, serverVars, Ended
  <2> QED
    BY <2>1, <2>2
<1>10. AnswerInv(c)'
  BY <1>4 DEF AnswerInv
<1>11. KnowledgeInv(c)'
  BY <1>2, <1>5, <1>7 DEF KnowledgeInv, serverVars
<1> QED
  BY <1>8, <1>9, <1>10, <1>11 DEF ProcessInv

(* A poll names the request of the process and is signed without a body.   *)
LEMMA PollKeeps ==
  ASSUME TypeOK, TypeOK', NEW c \in Clients, ProcessInv(c), Poll(c)
  PROVE  ProcessInv(c)'
<1>1. PICK failed \in OutOfMemory({"response", "headers"}) :
        Poll(c)!2!(failed)
  BY DEF Poll
<1>2. /\ pc[c] = "poll" /\ err[c] = "UL_OK" /\ reqBody[c] = "NULL"
      /\ given[c] = "nothing" /\ given'[c] = "nothing"
      /\ heap[c] \subseteq {"state", "url", "curl"}
      /\ UNCHANGED <<serverVars, requestId, reqBody>>
  BY HeldAt DEF Poll, ProcessInv, LocalInv, Ended
<1> USE <1>1, <1>2 DEF TypeOK, Return, Crash, Continue
<1>3. CASE "headers" \in failed
  <2>1. /\ pc'[c] \in {"done", "crashed"} /\ heap'[c] = {}
        /\ pc'[c] = "done" => err'[c] = "UL_ERR"
        /\ pc'[c] = "crashed" => err'[c] = "UL_OK"
        /\ wire'[c] = wire[c]
    BY <1>3
  <2>2. LocalInv(c)'
    BY <2>1 DEF LocalInv, Ended
  <2>3. RequestInv(c)'
    BY <2>1 DEF ProcessInv, RequestInv, OwnsNothing, serverVars, Ended
  <2>4. AnswerInv(c)'
    BY <2>1 DEF ProcessInv, AnswerInv, serverVars
  <2>5. KnowledgeInv(c)'
    BY <2>1 DEF ProcessInv, KnowledgeInv, serverVars
  <2> QED
    BY <2>2, <2>3, <2>4, <2>5 DEF ProcessInv
<1>4. CASE "headers" \notin failed
  <2>1. /\ pc'[c] = "polled" /\ err'[c] = "UL_OK"
        /\ heap'[c] \subseteq {"response", "url", "curl"}
        /\ wire'[c] = Request("GET", requestId[c], "NULL")
    BY <1>4
  <2>2. LocalInv(c)'
    BY <2>1, HeldAt DEF LocalInv
  <2>3. RequestInv(c)'
    BY <2>1 DEF RequestInv, Request
  <2>4. AnswerInv(c)'
    BY <2>1 DEF AnswerInv, Request
  <2>5. KnowledgeInv(c)'
    BY <2>1 DEF ProcessInv, KnowledgeInv, serverVars
  <2> QED
    BY <2>2, <2>3, <2>4, <2>5 DEF ProcessInv
<1> QED
  BY <1>3, <1>4

(* The return of a poll: an accepted or denied state is still true.        *)
LEMMA PollReturnsKeeps ==
  ASSUME TypeOK, TypeOK', NEW c \in Clients, ProcessInv(c), PollReturns(c)
  PROVE  ProcessInv(c)'
<1>1. /\ pc[c] = "polled" /\ err[c] = "UL_OK" /\ reqBody[c] = "NULL"
      /\ given[c] = "nothing" /\ given'[c] = "nothing"
      /\ heap[c] \subseteq {"response", "url", "curl"}
      /\ UNCHANGED <<serverVars, requestId, reqBody>>
      /\ HangUp(c)
  BY HeldAt DEF PollReturns, ProcessInv, LocalInv, Ended
<1>a. PICK a \in Outcomes(c) :
        \E s \in {"NULL", get_request_state(a)} : Crash(c) \/ Conclude(c, s)
  BY DEF PollReturns
<1>2. PICK state \in {"NULL", get_request_state(a)} :
        Crash(c) \/ Conclude(c, state)
  BY <1>a
<1>3. /\ wire[c].kind = "answer" => wire'[c] = Idle
      /\ wire[c].kind # "answer" => wire'[c] = wire[c]
      /\ wire'[c].kind # "answer"
  BY <1>1, HungUp
<1>4. state # "NULL" => /\ wire[c].kind = "answer"
                        /\ wire[c].payload = "json"
                        /\ wire[c].state = state
  BY <1>a, <1>2, OutcomeFacts DEF get_request_state, ProcessInv
<1>5. state \in {"DENIED", "ACCEPTED"} =>
        /\ requestId[c] # NoId
        /\ state = "DENIED" => reqState[requestId[c]] = "DENIED"
        /\ state = "ACCEPTED" =>
             reqState[requestId[c]] \in {"ACCEPTED", "EXPIRED"}
  BY <1>1, <1>4 DEF ProcessInv, AnswerInv
<1>6. /\ pc'[c] \in {"poll", "accepted", "done", "crashed"}
      /\ pc'[c] # "done" => err'[c] = "UL_OK"
      /\ pc'[c] \in {"poll", "accepted"} => state # "NULL"
      /\ pc'[c] = "accepted" => state = "ACCEPTED"
      /\ err'[c] = "UL_DENIED" => state = "DENIED"
  BY <1>1, <1>2 DEF Conclude, TypeOK, Return, Crash, Continue, Undecided, Granted,
     Failure
<1>7. LocalInv(c)'
  <2>1. heap'[c] \subseteq Held[pc'[c]]
    BY <1>1, <1>2, HeldAt DEF Conclude, TypeOK, Return, Crash, Continue, FreeResponse,
       Resources
  <2>2. pc'[c] = "done" => heap'[c] \subseteq {"curl"}
    BY <1>1, <1>2 DEF Conclude, TypeOK, Return, Crash, Continue, FreeResponse
  <2> QED
    BY <1>1, <1>6, <2>1, <2>2 DEF LocalInv
<1>8. RequestInv(c)'
  <2>1. CASE wire[c].kind = "answer"
    BY <1>3, <2>1 DEF RequestInv, Idle
  <2>2. CASE wire[c].kind # "answer"
    <3>1. wire'[c] = wire[c] /\ pc'[c] \in Ended
      BY <1>3, <1>4, <1>6, <2>2 DEF Ended
    <3> QED
      BY <1>1, <3>1 DEF ProcessInv, RequestInv, OwnsNothing, serverVars
  <2> QED
    BY <2>1, <2>2
<1>9. AnswerInv(c)'
  BY <1>3 DEF AnswerInv
<1>10. KnowledgeInv(c)'
  BY <1>1, <1>5, <1>6 DEF ProcessInv, KnowledgeInv, serverVars
<1> QED
  BY <1>7, <1>8, <1>9, <1>10 DEF ProcessInv

(* The PATCH is sent for an accepted request.                              *)
LEMMA PatchKeeps ==
  ASSUME TypeOK, TypeOK', NEW c \in Clients, ProcessInv(c), Patch(c)
  PROVE  ProcessInv(c)'
<1>1. PICK failed \in OutOfMemory({"response", "url", "headers"}) :
        Patch(c)!3!(failed)
  BY DEF Patch
<1>2. /\ pc[c] = "accepted" /\ err[c] = "UL_OK"
      /\ given[c] = "nothing" /\ given'[c] = "nothing"
      /\ heap[c] \subseteq {"curl"}
      /\ UNCHANGED <<serverVars, requestId>>
      /\ reqBody'[c] = "FULFILLED"
  BY HeldAt DEF Patch, ProcessInv, LocalInv, Ended, TypeOK
<1>3. /\ pc'[c] \in {"patched", "done", "crashed"}
      /\ pc'[c] = "done" => err'[c] = "UL_MALLOC"
      /\ pc'[c] # "done" => err'[c] = "UL_OK"
      /\ pc'[c] = "patched" =>
           wire'[c] = Request("PATCH", requestId[c], "FULFILLED")
      /\ pc'[c] # "patched" => wire'[c] = wire[c]
  BY <1>1, <1>2 DEF TypeOK, Return, Crash, Continue
<1>4. LocalInv(c)'
  <2>1. heap'[c] \subseteq Held[pc'[c]]
    BY <1>1, <1>2, HeldAt DEF TypeOK, Return, Crash, Continue, Resources
  <2> QED
    BY <1>2, <1>3, <2>1 DEF LocalInv
<1>5. RequestInv(c)' /\ AnswerInv(c)'
  <2>1. CASE pc'[c] = "patched"
    BY <1>2, <1>3, <2>1
    DEF RequestInv, AnswerInv, Request, ProcessInv, KnowledgeInv, serverVars
  <2>2. CASE pc'[c] # "patched"
    BY <1>2, <1>3, <2>2
    DEF RequestInv, AnswerInv, ProcessInv, OwnsNothing, serverVars, Ended
  <2> QED
    BY <2>1, <2>2
<1>6. KnowledgeInv(c)'
  BY <1>2, <1>3 DEF ProcessInv, KnowledgeInv, serverVars
<1> QED
  BY <1>4, <1>5, <1>6 DEF ProcessInv

(* The return of the PATCH: a key comes from a fulfilled request.          *)
LEMMA PatchReturnsKeeps ==
  ASSUME TypeOK, TypeOK', NEW c \in Clients, ProcessInv(c), PatchReturns(c)
  PROVE  ProcessInv(c)'
<1>1. PICK a \in Outcomes(c), failed \in OutOfMemory({"key"}) :
        PatchReturns(c)!2!(a, failed)
  BY DEF PatchReturns
<1>2. /\ pc[c] = "patched" /\ err[c] = "UL_OK" /\ given[c] = "nothing"
      /\ heap[c] \subseteq {"response", "url", "curl"}
      /\ UNCHANGED <<serverVars, requestId, reqBody>>
      /\ HangUp(c)
  BY HeldAt DEF PatchReturns, ProcessInv, LocalInv, Ended
<1>3. /\ wire[c].kind = "answer" => wire'[c] = Idle
      /\ wire[c].kind # "answer" => wire'[c] = wire[c]
      /\ wire'[c].kind # "answer"
  BY <1>2, HungUp
<1>4. /\ pc'[c] \in {"deliver", "done", "crashed"}
      /\ pc'[c] = "done" => err'[c] = "UL_MALLOC" /\ given'[c] = "nothing"
      /\ pc'[c] # "done" => err'[c] = "UL_OK"
      /\ heap'[c] \subseteq Held[pc'[c]]
      /\ given'[c] \in {"nothing", a.payload}
      /\ pc'[c] = "deliver" => a.payload # "empty"
  BY <1>1, <1>2, HeldAt DEF TypeOK, Return, Crash, Continue, Resources
<1>5. a.payload \in {"key", "part"} =>
        requestId[c] # NoId /\ reqState[requestId[c]] = "FULFILLED"
  BY OutcomeFacts DEF ProcessInv, AnswerInv
<1>6. LocalInv(c)'
  BY <1>4 DEF LocalInv, Ended
<1>7. RequestInv(c)'
  <2>1. CASE wire[c].kind = "answer"
    BY <1>3, <2>1 DEF RequestInv, Idle
  <2>2. CASE wire[c].kind # "answer"
    <3>1. wire'[c] = wire[c] /\ pc'[c] \in Ended
      <4>1. a = NoAnswer
        BY <2>2 DEF Outcomes
      <4> QED
        BY <1>3, <1>4, <2>2, <4>1 DEF NoAnswer, Answer, Ended
    <3> QED
      BY <1>2, <3>1 DEF ProcessInv, RequestInv, OwnsNothing, serverVars
  <2> QED
    BY <2>1, <2>2
<1>8. AnswerInv(c)'
  BY <1>3 DEF AnswerInv
<1>9. KnowledgeInv(c)'
  BY <1>2, <1>4, <1>5 DEF ProcessInv, KnowledgeInv, serverVars
<1> QED
  BY <1>6, <1>7, <1>8, <1>9 DEF ProcessInv

(* The return of handle_success().                                         *)
LEMMA DeliverKeeps ==
  ASSUME TypeOK, TypeOK', NEW c \in Clients, ProcessInv(c), Deliver(c)
  PROVE  ProcessInv(c)'
<1>1. /\ pc[c] = "deliver" /\ pc'[c] = "done"
      /\ err'[c] \in {"UL_OK", "UL_ERR", "UL_ERRNO"}
      /\ heap'[c] = {}
      /\ UNCHANGED <<reqBody, requestId, given, wire, serverVars>>
  BY HeldAt DEF Deliver, ProcessInv, LocalInv, TypeOK, Return
<1>2. LocalInv(c)'
  BY <1>1 DEF LocalInv, Ended
<1>3. RequestInv(c)'
  BY <1>1 DEF ProcessInv, RequestInv, OwnsNothing, serverVars, Ended
<1>4. AnswerInv(c)'
  BY <1>1 DEF ProcessInv, AnswerInv, serverVars
<1>5. KnowledgeInv(c)'
  BY <1>1 DEF ProcessInv, KnowledgeInv, serverVars
<1> QED
  BY <1>2, <1>3, <1>4, <1>5 DEF ProcessInv

(* The death of a process.                                                 *)
LEMMA KillKeeps ==
  ASSUME TypeOK, TypeOK', NEW c \in Clients, ProcessInv(c), Kill(c)
  PROVE  ProcessInv(c)'
<1>1. /\ pc[c] \notin Ended /\ pc'[c] = "crashed"
      /\ err[c] = "UL_OK" /\ err'[c] = "UL_OK"
      /\ heap'[c] = {}
      /\ UNCHANGED <<reqBody, requestId, given, wire, serverVars>>
  BY DEF Kill, ProcessInv, LocalInv, TypeOK, Crash, Ended
<1>2. LocalInv(c)'
  BY <1>1 DEF LocalInv, Ended
<1>3. RequestInv(c)'
  BY <1>1 DEF ProcessInv, RequestInv, OwnsNothing, serverVars, Ended
<1>4. AnswerInv(c)'
  BY <1>1 DEF ProcessInv, AnswerInv, serverVars
<1>5. KnowledgeInv(c)'
  BY <1>1 DEF ProcessInv, KnowledgeInv, serverVars
<1> QED
  BY <1>2, <1>3, <1>4, <1>5 DEF ProcessInv

-----------------------------------------------------------------------------
(* The steps of the server.  A POST can be served after its process ended: *)
(* OwnsNothing(c) is part of RequestInv(c) for that reason.                *)

Inv == ServerInv /\ \A c \in Clients : ProcessInv(c)

(* The server opens a request for a process that owned none.               *)
LEMMA CreateKeeps ==
  ASSUME TypeOK, TypeOK', Inv, NEW c \in Clients, Create(c)
  PROVE  Inv'
<1>1. PICK i \in Ids : Create(c)!2!(i)
  BY DEF Create
<1>2. /\ UNCHANGED clientVars
      /\ wire'[c] = Answer(201, "json", i, "PENDING")
      /\ \A d \in Clients : d # c => wire'[d] = wire[d]
      /\ reqState[i] = "NONE" /\ reqOwner[i] = NoClient
      /\ reqState'[i] = "PENDING" /\ reqOwner'[i] = c
      /\ \A j \in Ids : j # i => /\ reqState'[j] = reqState[j]
                                 /\ reqOwner'[j] = reqOwner[j]
  BY <1>1 DEF Create, Reply, TypeOK, Inv, ServerInv
<1>3. OwnsNothing(c) /\ pc[c] \in {"posted"} \cup Ended
  BY DEF Create, Asks, Inv, ProcessInv, RequestInv
<1>4. ServerInv'
  <2>1. \A j \in Ids : reqState'[j] = "NONE" => reqOwner'[j] = NoClient
    BY <1>2 DEF Inv, ServerInv
  <2>2. \A j, k \in Ids :
          reqOwner'[j] = reqOwner'[k] /\ reqOwner'[j] # NoClient => j = k
    BY <1>2, <1>3 DEF Inv, ServerInv, OwnsNothing
  <2> QED
    BY <2>1, <2>2 DEF ServerInv
<1>5. ASSUME NEW d \in Clients, d # c PROVE ProcessInv(d)'
  <2>1. NoClient # d
    BY ClientsAssumption
  <2>2. \A j \in Ids : reqOwner'[j] = d <=> reqOwner[j] = d
    BY <1>2, <1>5, <2>1
  <2>3. \A j \in Ids : reqOwner[j] = d => reqState'[j] = reqState[j]
    BY <1>2, <2>1
  <2> QED
    BY <1>2, <1>5, <2>2, <2>3, ServerKeepsOthers DEF Inv
<1>6. ProcessInv(c)'
  <2>1. LocalInv(c)'
    BY <1>2, <1>3 DEF Inv, ProcessInv, LocalInv, OwnsNothing, clientVars, Ended
  <2>2. RequestInv(c)'
    BY <1>2 DEF RequestInv, Answer
  <2>3. AnswerInv(c)'
    <3>1. i # NoId
      BY DEF NoId, Ids
    <3> QED
      BY <1>2, <1>3, <3>1 DEF AnswerInv, Answer, clientVars, Ended
  <2>4. KnowledgeInv(c)'
    BY <1>2, <1>3 DEF Inv, ProcessInv, KnowledgeInv, OwnsNothing, clientVars,
       Ended
  <2> QED
    BY <2>1, <2>2, <2>3, <2>4 DEF ProcessInv
<1> QED
  BY <1>4, <1>5, <1>6 DEF Inv

(* An answer that reveals nothing but an error.                            *)
LEMMA ErrorKeeps ==
  ASSUME TypeOK, TypeOK', Inv, NEW c \in Clients,
         NEW status, NEW payload \in {"text", "empty"},
         wire[c].kind = "request", Reply(c, status, payload, NoId, "NULL"),
         UNCHANGED clientVars, UNCHANGED serverVars
  PROVE  Inv'
<1>1. /\ wire'[c] = Answer(status, payload, NoId, "NULL")
      /\ \A d \in Clients : d # c => wire'[d] = wire[d]
  BY DEF Reply, TypeOK
<1>2. ServerInv'
  BY DEF Inv, ServerInv, serverVars
<1>3. ASSUME NEW d \in Clients, d # c PROVE ProcessInv(d)'
  BY <1>1, <1>3, UntouchedKeeps DEF Inv, Untouched, clientVars
<1>4. ProcessInv(c)'
  <2>1. pc[c] # "start"
    BY DEF Inv, ProcessInv, LocalInv, Idle
  <2>2. LocalInv(c)'
    BY <2>1 DEF Inv, ProcessInv, LocalInv, clientVars
  <2>3. RequestInv(c)' /\ AnswerInv(c)'
    BY <1>1 DEF RequestInv, AnswerInv, Answer
  <2>4. KnowledgeInv(c)'
    BY DEF Inv, ProcessInv, KnowledgeInv, clientVars, serverVars
  <2> QED
    BY <2>2, <2>3, <2>4 DEF ProcessInv
<1> QED
  BY <1>2, <1>3, <1>4 DEF Inv

(* The server reports the state of a request to its owner.                 *)
LEMMA ShowKeeps ==
  ASSUME TypeOK, TypeOK', Inv, NEW c \in Clients, Show(c)
  PROVE  Inv'
<1>1. CASE ~Known(wire[c].id)
  BY <1>1, ErrorKeeps DEF Show, Asks
<1>2. CASE Known(wire[c].id)
  <2> DEFINE i == wire[c].id
  <2>1. /\ UNCHANGED clientVars /\ UNCHANGED serverVars
        /\ wire'[c] = Answer(200, "json", i, reqState[i])
        /\ \A d \in Clients : d # c => wire'[d] = wire[d]
    BY <1>2 DEF Show, Reply, TypeOK
  <2>2. i \in Ids /\ i # NoId
    BY <1>2 DEF Known, Ids, NoId
  <2>3. i = requestId[c] /\ reqOwner[i] = c /\ pc[c] \in {"polled"} \cup Ended
    BY <2>2 DEF Show, Asks, Inv, ProcessInv, RequestInv, KnowledgeInv
  <2>4. ServerInv'
    BY <2>1 DEF Inv, ServerInv, serverVars
  <2>5. ASSUME NEW d \in Clients, d # c PROVE ProcessInv(d)'
    BY <2>1, <2>5, UntouchedKeeps DEF Inv, Untouched, clientVars
  <2>6. ProcessInv(c)'
    <3>1. LocalInv(c)'
      BY <2>1, <2>3 DEF Inv, ProcessInv, LocalInv, clientVars, Ended
    <3>2. RequestInv(c)'
      BY <2>1 DEF RequestInv, Answer
    <3>3. AnswerInv(c)'
      BY <2>1, <2>2, <2>3 DEF AnswerInv, Answer, clientVars, serverVars
    <3>4. KnowledgeInv(c)'
      BY <2>1 DEF Inv, ProcessInv, KnowledgeInv, clientVars, serverVars
    <3> QED
      BY <3>1, <3>2, <3>3, <3>4 DEF ProcessInv
  <2> QED
    BY <2>4, <2>5, <2>6 DEF Inv
<1> QED
  BY <1>1, <1>2

(* The server gives the key away for an accepted request of its owner.     *)
LEMMA FulfilKeeps ==
  ASSUME TypeOK, TypeOK', Inv, NEW c \in Clients, Fulfil(c)
  PROVE  Inv'
<1> DEFINE i == wire[c].id
<1>1. CASE ~(Known(i) /\ reqState[i] = "ACCEPTED")
  BY <1>1, ErrorKeeps DEF Fulfil, Asks, serverVars
<1>2. CASE Known(i) /\ reqState[i] = "ACCEPTED"
  <2>1. /\ i \in Ids /\ i # NoId
        /\ UNCHANGED clientVars /\ reqOwner' = reqOwner
        /\ wire'[c] = Answer(200, "key", NoId, "NULL")
        /\ \A d \in Clients : d # c => wire'[d] = wire[d]
        /\ reqState'[i] = "FULFILLED"
        /\ \A j \in Ids : j # i => reqState'[j] = reqState[j]
    BY <1>2 DEF Fulfil, Reply, TypeOK, Known, Ids, NoId
  <2>2. /\ i = requestId[c] /\ reqOwner[i] = c
        /\ pc[c] \in {"patched"} \cup Ended
    BY <2>1 DEF Fulfil, Asks, Inv, ProcessInv, RequestInv, KnowledgeInv
  <2>3. ServerInv'
    BY <1>2, <2>1 DEF Inv, ServerInv
  <2>4. ASSUME NEW d \in Clients, d # c PROVE ProcessInv(d)'
    BY <2>1, <2>2, <2>4, ServerKeepsOthers DEF Inv
  <2>5. ProcessInv(c)'
    <3>1. LocalInv(c)'
      BY <2>1, <2>2 DEF Inv, ProcessInv, LocalInv, clientVars, Ended
    <3>2. RequestInv(c)'
      BY <2>1 DEF RequestInv, Answer
    <3>3. AnswerInv(c)'
      BY <2>1, <2>2 DEF AnswerInv, Answer, clientVars
    <3>4. KnowledgeInv(c)'
      <4>1. err[c] # "UL_DENIED" /\ pc[c] # "accepted"
        BY <1>2, <2>2 DEF Inv, ProcessInv, KnowledgeInv, Ended
      <4> QED
        BY <2>1, <2>2, <4>1 DEF Inv, ProcessInv, KnowledgeInv, clientVars
    <3> QED
      BY <3>1, <3>2, <3>3, <3>4 DEF ProcessInv
  <2> QED
    BY <2>3, <2>4, <2>5 DEF Inv
<1> QED
  BY <1>1, <1>2

(* The server refuses an exchange.                                         *)
LEMMA RefuseKeeps ==
  ASSUME TypeOK, TypeOK', Inv, NEW c \in Clients, Refuse(c)
  PROVE  Inv'
BY ErrorKeeps DEF Refuse

(* The operator decides, or the server withdraws a request.                *)
LEMMA OperatorKeeps ==
  ASSUME TypeOK, TypeOK', Inv, NEW i \in Ids, Decide(i) \/ Expire(i)
  PROVE  Inv'
<1>1. /\ UNCHANGED <<clientVars, wire, reqOwner>>
      /\ \A j \in Ids : j # i => reqState'[j] = reqState[j]
      /\ \/ reqState[i] = "PENDING" /\ reqState'[i] \in {"ACCEPTED", "DENIED"}
         \/ reqState[i] \in {"PENDING", "ACCEPTED"} /\ reqState'[i] = "EXPIRED"
  BY DEF Decide, Expire, TypeOK
<1>2. /\ \A j \in Ids : reqState[j] \in {"DENIED", "FULFILLED", "EXPIRED"} =>
                           reqState'[j] = reqState[j]
      /\ \A j \in Ids : reqState[j] = "ACCEPTED" =>
                           reqState'[j] \in {"ACCEPTED", "EXPIRED"}
      /\ \A j \in Ids : reqState'[j] = "NONE" => reqState[j] = "NONE"
  BY <1>1
<1>3. ServerInv'
  BY <1>1, <1>2 DEF Inv, ServerInv
<1>4. ASSUME NEW c \in Clients PROVE ProcessInv(c)'
  <2> USE <1>1, <1>2 DEF Inv, ProcessInv, clientVars
  <2>1. wire[c].kind = "answer" => wire[c].id \in Ids \cup {NoId}
    BY MessageKinds DEF TypeOK, Messages, Answers
  <2>2. requestId[c] \in Ids \cup {NoId}
    BY DEF TypeOK
  <2>3. LocalInv(c)'
    BY DEF LocalInv, OwnsNothing
  <2>4. RequestInv(c)'
    BY <2>2 DEF RequestInv, OwnsNothing
  <2>5. AnswerInv(c)'
    BY <2>1, <2>2 DEF AnswerInv
  <2>6. KnowledgeInv(c)'
    BY <2>2 DEF KnowledgeInv
  <2> QED
    BY <2>3, <2>4, <2>5, <2>6
<1> QED
  BY <1>3, <1>4 DEF Inv

-----------------------------------------------------------------------------
(* The invariant is inductive.                                             *)
LEMMA InvStep ==
  ASSUME TypeOK, TypeOK', Inv, [Next]_vars
  PROVE  Inv'
<1>1. CASE UNCHANGED vars
  <2>1. \A d \in Clients : Untouched(d)
    BY <1>1 DEF vars, Untouched
  <2>2. UNCHANGED serverVars
    BY <1>1 DEF vars, serverVars
  <2>3. ServerInv'
    BY <2>2 DEF Inv, ServerInv, serverVars
  <2>4. \A d \in Clients : ProcessInv(d)'
    BY <2>1, <2>2, UntouchedKeeps DEF Inv
  <2> QED
    BY <2>3, <2>4 DEF Inv
<1>2. ASSUME NEW c \in Clients, ClientStep(c) \/ Kill(c) PROVE Inv'
  <2>1. \A d \in Clients : d # c => Untouched(d) /\ UNCHANGED serverVars
    BY <1>2, ClientTouchesItself
  <2>2. \A d \in Clients : d # c => ProcessInv(d)'
    BY <2>1, UntouchedKeeps DEF Inv
  <2>3. ProcessInv(c)'
    BY <1>2, PostKeeps, PostReturnsKeeps, PollKeeps, PollReturnsKeeps,
       PatchKeeps, PatchReturnsKeeps, DeliverKeeps, KillKeeps
    DEF ClientStep, Inv
  <2>4. UNCHANGED serverVars
    BY <1>2 DEF ClientStep, Post, PostReturns, Poll, PollReturns, Patch,
       PatchReturns, Deliver, Kill, serverVars
  <2>5. ServerInv'
    BY <2>4 DEF Inv, ServerInv, serverVars
  <2> QED
    BY <2>2, <2>3, <2>5 DEF Inv
<1>3. ASSUME NEW c \in Clients, Serve(c) PROVE Inv'
  BY <1>3, CreateKeeps, ShowKeeps, FulfilKeeps, RefuseKeeps DEF Serve
<1>4. ASSUME NEW i \in Ids, Decide(i) \/ Expire(i) PROVE Inv'
  BY <1>4, OperatorKeeps
<1> QED
  BY <1>1, <1>2, <1>3, <1>4 DEF Next

(* The invariant holds before any process runs.                            *)
LEMMA InvInit == Init => Inv
<1> SUFFICES ASSUME Init PROVE Inv
  OBVIOUS
<1> USE DEF Init
<1>1. ServerInv
  BY DEF ServerInv
<1>2. ASSUME NEW c \in Clients PROVE ProcessInv(c)
  <2>1. OwnsNothing(c)
    BY ClientsAssumption DEF OwnsNothing
  <2>2. LocalInv(c)
    BY <2>1 DEF LocalInv
  <2> QED
    BY <2>1, <2>2
    DEF ProcessInv, RequestInv, AnswerInv, KnowledgeInv, OwnsNothing, Idle
<1> QED
  BY <1>1, <1>2 DEF Inv

(* The inductive invariant holds, for any number of processes, requests    *)
(* and any set of faults.                                                  *)
THEOREM InvariantCorrect == Spec => []KeyRequestInv
<1>1. TypeOK /\ Inv <=> KeyRequestInv
  BY DEF Inv, KeyRequestInv
<1>2. Init => Inv
  BY InvInit
<1>3. TypeOK /\ TypeOK' /\ Inv /\ [Next]_vars => Inv'
  BY InvStep
<1> QED
  BY <1>1, <1>2, <1>3, TypeCorrect, PTL DEF Spec

(* Whatever is sent was signed over exactly the body it is sent with.      *)
THEOREM SignedCorrect == Spec => []SignedAsSent
<1>1. KeyRequestInv => SignedAsSent
  BY DEF KeyRequestInv, ProcessInv, RequestInv, SignedAsSent
<1> QED
  BY <1>1, InvariantCorrect, PTL

(* A process owns one request at most and works on no other.               *)
THEOREM OwnRequestCorrect == Spec => []OwnRequest
<1>1. KeyRequestInv => OwnRequest
  BY DEF KeyRequestInv, ServerInv, ProcessInv, KnowledgeInv, OwnRequest
<1> QED
  BY <1>1, InvariantCorrect, PTL

(* The key reaches the modules of a process only when the server fulfilled *)
(* the request this process opened.                                        *)
THEOREM KeyOnlyIfFulfilledCorrect == Spec => []KeyOnlyIfFulfilled
<1>1. KeyRequestInv => KeyOnlyIfFulfilled
  BY DEF KeyRequestInv, ProcessInv, KnowledgeInv, KeyOnlyIfFulfilled
<1> QED
  BY <1>1, InvariantCorrect, PTL

(* The key is asked for only after the operator accepted the request.      *)
THEOREM PatchOnlyIfAcceptedCorrect == Spec => []PatchOnlyIfAccepted
<1>1. KeyRequestInv => PatchOnlyIfAccepted
  BY DEF KeyRequestInv, ProcessInv, RequestInv, PatchOnlyIfAccepted
<1> QED
  BY <1>1, InvariantCorrect, PTL

(* A denial is returned only when the operator denied the request.         *)
THEOREM DeniedIsDeniedCorrect == Spec => []DeniedIsDenied
<1>1. KeyRequestInv => DeniedIsDenied
  BY DEF KeyRequestInv, ProcessInv, KnowledgeInv, DeniedIsDenied
<1> QED
  BY <1>1, InvariantCorrect, PTL

(* Unless memory ran out, a process returns with everything released.      *)
THEOREM NothingLeakedCorrect == Spec => []NothingLeaked
<1>1. KeyRequestInv => NothingLeaked
  BY DEF KeyRequestInv, ProcessInv, LocalInv, NothingLeaked
<1> QED
  BY <1>1, InvariantCorrect, PTL

=============================================================================
