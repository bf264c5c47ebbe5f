--------------------------- MODULE ServiceProofs ---------------------------
(***************************************************************************)
(* Theorems about Service: the theorems of KeyRequestProofs hold of its    *)
(* processes, and what they hand out over the socket they hand out once.   *)
(***************************************************************************)
EXTENDS Service, KeyRequestProofs

(* A step of the service is a step of KeyRequest or leaves it alone.       *)
LEMMA StepIsKeyRequest ==
  [ServiceNext]_serviceVars => [Next]_vars
<1> SUFFICES ASSUME [ServiceNext]_serviceVars PROVE [Next]_vars
  OBVIOUS
<1>1. CASE UNCHANGED serviceVars
  BY <1>1 DEF serviceVars
<1>2. ASSUME NEW c \in Clients, ClientStep(c) \/ Kill(c) \/ Serve(c)
      PROVE  [Next]_vars
  BY <1>2 DEF Next
<1>3. ASSUME NEW c \in Clients, Start(c) \/ Accept(c) \/ Send(c) \/ Exit(c)
      PROVE  [Next]_vars
  BY <1>3 DEF Start, Accept, Send, Exit
<1>4. ASSUME NEW c \in Clients, Proceed(c) PROVE [Next]_vars
  BY <1>4, <1>2 DEF Proceed, ClientStep
<1>5. ASSUME NEW c \in Clients, AcceptFails(c) PROVE [Next]_vars
  BY <1>5, <1>2 DEF AcceptFails, HandlersReturn, ClientStep
<1>6. ASSUME NEW c \in Clients, SendFails(c) \/ WriteStdout(c)
      PROVE  [Next]_vars
  BY <1>6, <1>2 DEF SendFails, WriteStdout, HandlersReturn, ClientStep
<1>7. ASSUME NEW c \in Clients, Dies(c) PROVE [Next]_vars
  BY <1>7, <1>2 DEF Dies
<1>8. ASSUME NEW c \in Clients, ServerAnswers(c) PROVE [Next]_vars
  BY <1>8, <1>2 DEF ServerAnswers
<1>9. ASSUME NEW i \in Ids, Decides(i) \/ Expires(i) PROVE [Next]_vars
  BY <1>9 DEF Decides, Expires, Next
<1>10. ASSUME NEW r \in Readers, Connect(r) \/ GiveUp(r)
       PROVE  [Next]_vars
  BY <1>10 DEF Connect, GiveUp
<1> QED
  BY <1>1, <1>3, <1>4, <1>5, <1>6, <1>7, <1>8, <1>9, <1>10 DEF ServiceNext

(* What holds of every behaviour of KeyRequest holds of the service.       *)
LEMMA ServiceIsKeyRequest == ServiceSpec => Spec
<1>1. ServiceInit => Init
  BY DEF ServiceInit
<1> QED
  BY <1>1, StepIsKeyRequest, PTL DEF ServiceSpec, Spec

(* In the service, too, no part of a key is handed on unless the server    *)
(* fulfilled the request of the process that hands it on.                  *)
THEOREM ServiceKeyOnlyIfFulfilled == ServiceSpec => []KeyOnlyIfFulfilled
BY ServiceIsKeyRequest, KeyOnlyIfFulfilledCorrect, PTL

-----------------------------------------------------------------------------
(* The inductive invariant.                                                *)

(* Every connection is in the queue once, of a reader without a key.       *)
QueueInv ==
  /\ \A i, j \in 1 .. Len(queue) : queue[i] = queue[j] => i = j
  /\ \A i \in 1 .. Len(queue) :
       reader[queue[i]] # "away" /\ got[queue[i]] = NoClient

(* A connection is accepted by a process that has a key to hand on, and    *)
(* nothing is sent over it before send() is called.                        *)
PeerInv ==
  peer # NoReader =>
    /\ reader[peer] # "away"
    /\ pc[running] \in {"deliver", "done", "crashed"}
    /\ pc[running] = "deliver" /\ module = "sd_socket" => got[peer] = NoClient

(* The loop over the modules is past mod_sd_socket when the peer has been  *)
(* sent the key by the process that runs.                                  *)
ModuleInv ==
  module = "stdout" =>
    /\ running # NoClient /\ peer # NoReader
    /\ pc[running] \in {"deliver", "done", "crashed"}
    /\ got[peer] = running

(* Whoever has a key got it from a process of its own that has ended or is *)
(* past mod_sd_socket.                                                     *)
ServedInv ==
  \A r \in Readers :
    got[r] # NoClient =>
      /\ reader[r] # "away"
      /\ HasEnded(got[r]) \/ (running = got[r] /\ module = "stdout")
      /\ \A s \in Readers \ {r} : got[s] # got[r]

ServiceInv ==
  /\ ServiceTypeOK /\ QueueInv /\ PeerInv /\ ModuleInv /\ ServedInv
  /\ SuccessIsServed

-----------------------------------------------------------------------------
(* What a step of the process that runs does to it.                        *)

(* Only a process that is not over yet makes steps.                        *)
LEMMA OverIsOver ==
  ASSUME NEW c \in Clients, ClientStep(c) \/ Kill(c)
  PROVE  pc[c] # "done" /\ pc[c] # "crashed"
BY DEF ClientStep, Post, PostReturns, Poll, PollReturns, Patch, PatchReturns,
   Deliver, Kill

(* Handing the key on is the last step of a process.                       *)
LEMMA DeliverEnds ==
  ASSUME TypeOK, NEW c \in Clients, Deliver(c)
  PROVE  pc'[c] = "done"
BY DEF TypeOK, Deliver, Return

(* A process that is killed is crashed.                                    *)
LEMMA KillEnds ==
  ASSUME TypeOK, NEW c \in Clients, Kill(c)
  PROVE  pc'[c] = "crashed"
BY DEF TypeOK, Kill, Crash

(* request_key() returns no success without having called handle_success().*)
LEMMA ProceedFails ==
  ASSUME TypeOK, NEW c \in Clients, Proceed(c)
  PROVE  pc[c] # "deliver" /\ (pc'[c] = "done" => err'[c] # "UL_OK")
<1> USE DEF TypeOK, Return, Crash, Continue
<1>1. CASE Post(c)
  BY <1>1 DEF Post, PostOutOfMemory, PostNotSent, PostSent
<1>2. CASE PostReturns(c)
  BY <1>2 DEF PostReturns
<1>3. CASE Poll(c)
  BY <1>3 DEF Poll
<1>4. CASE PollReturns(c)
  BY <1>4 DEF PollReturns, Conclude, Failure
<1>5. CASE Patch(c)
  BY <1>5 DEF Patch
<1>6. CASE PatchReturns(c)
  BY <1>6 DEF PatchReturns
<1> QED
  BY <1>1, <1>2, <1>3, <1>4, <1>5, <1>6 DEF Proceed

(* The invariant looks at the places and the results of processes only.    *)
LEMMA ServiceInvSame ==
  ASSUME ServiceInv, pc' = pc, err' = err, UNCHANGED unitVars
  PROVE  ServiceInv'
<1>1. /\ running' = running /\ module' = module /\ queue' = queue
      /\ peer' = peer /\ reader' = reader /\ got' = got
  BY DEF unitVars
<1>2. ServiceTypeOK' /\ QueueInv'
  BY <1>1 DEF ServiceInv, ServiceTypeOK, QueueInv
<1>3. PeerInv' /\ ModuleInv'
  BY <1>1 DEF ServiceInv, PeerInv, ModuleInv
<1>4. ServedInv'
  BY <1>1 DEF ServiceInv, ServedInv, HasEnded
<1>5. SuccessIsServed'
  BY <1>1 DEF ServiceInv, SuccessIsServed
<1> QED
  BY <1>2, <1>3, <1>4, <1>5 DEF ServiceInv

(* A step of the running process that gives no key away and reports no     *)
(* success before mod_sd_socket is done keeps the invariant.               *)
LEMMA RunKeeps ==
  ASSUME ServiceInv, TypeOK, TypeOK', NEW c \in Clients, running = c,
         ClientStep(c) \/ Kill(c), UNCHANGED unitVars,
         pc'[c] = "done" /\ err'[c] = "UL_OK" => module = "stdout",
         pc[c] = "deliver" => pc'[c] \in {"done", "crashed"}
  PROVE  ServiceInv'
<1>1. pc[c] # "done" /\ pc[c] # "crashed"
  BY OverIsOver
<1>2. \A d \in Clients : d # c => pc'[d] = pc[d] /\ err'[d] = err[d]
  BY ClientTouchesItself DEF Untouched
<1>3. /\ running' = c /\ module' = module /\ queue' = queue /\ peer' = peer
      /\ reader' = reader /\ got' = got
  BY DEF unitVars
<1>4. ServiceTypeOK' /\ QueueInv'
  BY <1>3 DEF ServiceInv, ServiceTypeOK, QueueInv
<1>5. PeerInv'
  <2>1. peer # NoReader =>
          reader[peer] # "away" /\ pc[c] \in {"deliver", "done", "crashed"}
    BY DEF ServiceInv, PeerInv
  <2> QED
    BY <1>1, <1>3, <2>1 DEF PeerInv
<1>6. ModuleInv'
  <2>1. module = "stdout" =>
          /\ c # NoClient /\ peer # NoReader /\ got[peer] = c
          /\ pc[c] \in {"deliver", "done", "crashed"}
    BY DEF ServiceInv, ModuleInv
  <2> QED
    BY <1>1, <1>3, <2>1 DEF ModuleInv
<1>7. ServedInv'
  <2>1. ASSUME NEW r \in Readers, got[r] # NoClient
        PROVE  /\ got[r] \in Clients /\ reader[r] # "away"
               /\ HasEnded(got[r]) \/ (running = got[r] /\ module = "stdout")
               /\ \A s \in Readers \ {r} : got[s] # got[r]
    BY <2>1 DEF ServiceInv, ServiceTypeOK, ServedInv
  <2>2. \A d \in Clients : HasEnded(d) => HasEnded(d)'
    BY <1>1, <1>2 DEF HasEnded
  <2> QED
    BY <1>3, <2>1, <2>2 DEF ServedInv
<1>8. SuccessIsServed'
  <2>1. ASSUME NEW d \in Clients, pc'[d] = "done", err'[d] = "UL_OK"
        PROVE  \E r \in Readers : got'[r] = d
    <3>1. CASE d = c
      <4>1. peer \in Readers /\ got[peer] = c
        BY <2>1, <3>1 DEF ServiceInv, ServiceTypeOK, ModuleInv
      <4> QED
        BY <1>3, <3>1, <4>1
    <3>2. CASE d # c
      BY <1>2, <1>3, <2>1, <3>2 DEF ServiceInv, SuccessIsServed
    <3> QED
      BY <3>1, <3>2
  <2> QED
    BY <2>1 DEF SuccessIsServed
<1> QED
  BY <1>4, <1>5, <1>6, <1>7, <1>8 DEF ServiceInv

-----------------------------------------------------------------------------
(* One lemma per action that changes the unit.                             *)

(* systemd starts a process when none runs.                                *)
LEMMA StartKeeps ==
  ASSUME ServiceInv, NEW c \in Clients, Start(c)
  PROVE  ServiceInv'
<1>1. /\ running = NoClient /\ running' = c /\ module' = module
      /\ queue' = queue /\ peer' = peer /\ reader' = reader /\ got' = got
      /\ pc' = pc /\ err' = err
  BY DEF Start, vars, clientVars
<1>2. peer = NoReader /\ module # "stdout"
  BY <1>1 DEF ServiceInv, ServiceTypeOK, ModuleInv
<1>3. ServiceTypeOK'
  BY <1>1, <1>2 DEF ServiceInv, ServiceTypeOK
<1>4. QueueInv' /\ PeerInv' /\ ModuleInv' /\ SuccessIsServed'
  BY <1>1, <1>2 DEF ServiceInv, QueueInv, PeerInv, ModuleInv, SuccessIsServed
<1>5. ServedInv'
  BY <1>1, <1>2 DEF ServiceInv, ServedInv, HasEnded
<1> QED
  BY <1>3, <1>4, <1>5 DEF ServiceInv

(* A process that has ended leaves the queue behind.                       *)
LEMMA ExitKeeps ==
  ASSUME ServiceInv, NEW c \in Clients, Exit(c)
  PROVE  ServiceInv'
<1>1. /\ running = c /\ running' = NoClient /\ peer' = NoReader
      /\ module' = "sd_socket"
      /\ queue' = queue /\ reader' = reader /\ got' = got
      /\ pc' = pc /\ err' = err /\ HasEnded(c)
  BY DEF Exit, vars, clientVars
<1>2. ServiceTypeOK'
  BY <1>1 DEF ServiceInv, ServiceTypeOK
<1>3. QueueInv' /\ PeerInv' /\ ModuleInv' /\ SuccessIsServed'
  BY <1>1 DEF ServiceInv, QueueInv, PeerInv, ModuleInv, SuccessIsServed
<1>4. ServedInv'
  <2>1. \A r \in Readers : got[r] # NoClient => HasEnded(got[r])
    BY <1>1 DEF ServiceInv, ServedInv
  <2> QED
    BY <1>1, <2>1 DEF ServiceInv, ServedInv, HasEnded
<1> QED
  BY <1>2, <1>3, <1>4 DEF ServiceInv

(* A reader connects once, and then it has no key yet.                     *)
LEMMA ConnectKeeps ==
  ASSUME ServiceInv, NEW r \in Readers, Connect(r)
  PROVE  ServiceInv'
<1>1. /\ reader[r] = "away" /\ reader' = [reader EXCEPT ![r] = "connected"]
      /\ queue' = Append(queue, r)
      /\ running' = running /\ module' = module
      /\ peer' = peer /\ got' = got /\ pc' = pc /\ err' = err
  BY DEF Connect, vars, clientVars
<1>2. /\ queue \in Seq(Readers) /\ reader \in [Readers -> {"away", "connected", "gone"}]
      /\ got \in [Readers -> Clients \cup {NoClient}]
  BY DEF ServiceInv, ServiceTypeOK
<1>3. /\ Len(queue') = Len(queue) + 1 /\ queue'[Len(queue')] = r
      /\ \A i \in 1 .. Len(queue) : queue'[i] = queue[i]
  BY <1>1, <1>2
<1>4. /\ got[r] = NoClient /\ peer # r
      /\ \A i \in 1 .. Len(queue) : queue[i] # r
  BY <1>1, ReadersAssumption DEF ServiceInv, QueueInv, PeerInv, ServedInv
<1>5. ServiceTypeOK'
  <2>1. queue' \in Seq(Readers)
    BY <1>1, <1>2
  <2>2. peer # NoReader => \A i \in 1 .. Len(queue') : queue'[i] # peer
    BY <1>2, <1>3, <1>4 DEF ServiceInv, ServiceTypeOK
  <2> QED
    BY <1>1, <2>1, <2>2 DEF ServiceInv, ServiceTypeOK
<1>6. QueueInv'
  <2>1. \A i \in 1 .. Len(queue') :
          (i = Len(queue') /\ queue'[i] = r) \/ i \in 1 .. Len(queue)
    BY <1>2, <1>3
  <2>2. \A i, j \in 1 .. Len(queue') : queue'[i] = queue'[j] => i = j
    BY <1>3, <1>4, <2>1 DEF ServiceInv, QueueInv
  <2>3. \A i \in 1 .. Len(queue') :
          reader'[queue'[i]] # "away" /\ got'[queue'[i]] = NoClient
    BY <1>1, <1>2, <1>3, <1>4, <2>1 DEF ServiceInv, QueueInv
  <2> QED
    BY <2>2, <2>3 DEF QueueInv
<1>7. PeerInv' /\ ModuleInv'
  BY <1>1, <1>2 DEF ServiceInv, ServiceTypeOK, PeerInv, ModuleInv
<1>8. ServedInv'
  BY <1>1, <1>2 DEF ServiceInv, ServedInv, HasEnded
<1>9. SuccessIsServed'
  BY <1>1 DEF ServiceInv, SuccessIsServed
<1> QED
  BY <1>5, <1>6, <1>7, <1>8, <1>9 DEF ServiceInv

(* A reader that gives up stays in the queue.                              *)
LEMMA GiveUpKeeps ==
  ASSUME ServiceInv, NEW r \in Readers, GiveUp(r)
  PROVE  ServiceInv'
<1>1. /\ reader' = [reader EXCEPT ![r] = "gone"]
      /\ running' = running /\ module' = module
      /\ queue' = queue /\ peer' = peer /\ got' = got
      /\ pc' = pc /\ err' = err
  BY DEF GiveUp, vars, clientVars
<1>2. reader \in [Readers -> {"away", "connected", "gone"}]
      /\ queue \in Seq(Readers)
  BY DEF ServiceInv, ServiceTypeOK
<1>3. \A s \in Readers : reader[s] # "away" => reader'[s] # "away"
  BY <1>1, <1>2
<1>4. ServiceTypeOK'
  BY <1>1, <1>2 DEF ServiceInv, ServiceTypeOK
<1>5. QueueInv' /\ PeerInv' /\ ModuleInv'
  BY <1>1, <1>2, <1>3
     DEF ServiceInv, ServiceTypeOK, QueueInv, PeerInv, ModuleInv
<1>6. ServedInv'
  BY <1>1, <1>3 DEF ServiceInv, ServedInv, HasEnded
<1>7. SuccessIsServed'
  BY <1>1 DEF ServiceInv, SuccessIsServed
<1> QED
  BY <1>4, <1>5, <1>6, <1>7 DEF ServiceInv

(* What is accepted is no longer in the queue.                             *)
LEMMA AcceptKeeps ==
  ASSUME ServiceInv, NEW c \in Clients, Accept(c)
  PROVE  ServiceInv'
<1>1. /\ running = c /\ pc[c] = "deliver" /\ module = "sd_socket"
      /\ queue # <<>> /\ peer' = Head(queue) /\ queue' = Tail(queue)
      /\ running' = running /\ module' = module
      /\ reader' = reader /\ got' = got /\ pc' = pc /\ err' = err
  BY DEF Accept, Delivering, vars, clientVars
<1>2. queue \in Seq(Readers)
  BY DEF ServiceInv, ServiceTypeOK
<1>3. /\ peer' = queue[1] /\ 1 \in 1 .. Len(queue) /\ peer' \in Readers
      /\ queue' \in Seq(Readers) /\ Len(queue') = Len(queue) - 1
      /\ \A i \in 1 .. Len(queue') :
           i + 1 \in 1 .. Len(queue) /\ queue'[i] = queue[i + 1]
  BY <1>1, <1>2
<1>4. \A i \in 1 .. Len(queue') : queue'[i] # peer'
  <2>1. \A i, j \in 1 .. Len(queue) : queue[i] = queue[j] => i = j
    BY DEF ServiceInv, QueueInv
  <2>2. \A i \in 1 .. Len(queue') : i + 1 # 1
    OBVIOUS
  <2> QED
    BY <1>3, <2>1, <2>2
<1>5. ServiceTypeOK'
  BY <1>1, <1>3, <1>4, ClientsAssumption DEF ServiceInv, ServiceTypeOK
<1>6. QueueInv'
  BY <1>1, <1>3 DEF ServiceInv, QueueInv
<1>7. PeerInv' /\ ModuleInv'
  BY <1>1, <1>3 DEF ServiceInv, QueueInv, PeerInv, ModuleInv
<1>8. ServedInv' /\ SuccessIsServed'
  BY <1>1 DEF ServiceInv, ServedInv, HasEnded, SuccessIsServed
<1> QED
  BY <1>5, <1>6, <1>7, <1>8 DEF ServiceInv

(* The process that serves its peer has served nobody before.              *)
LEMMA SendKeeps ==
  ASSUME ServiceInv, NEW c \in Clients, Send(c)
  PROVE  ServiceInv'
<1>1. /\ running = c /\ running' = c /\ pc[c] = "deliver"
      /\ module = "sd_socket" /\ module' = "stdout"
      /\ queue' = queue /\ peer' = peer /\ reader' = reader
      /\ got' = [got EXCEPT ![peer] = c]
      /\ pc' = pc /\ err' = err
  BY DEF Send, Delivering, vars, clientVars
<1>2. /\ queue \in Seq(Readers) /\ peer \in Readers
      /\ got \in [Readers -> Clients \cup {NoClient}]
      /\ \A i \in 1 .. Len(queue) : queue[i] # peer
      /\ reader[peer] # "away"
  BY DEF Send, ServiceInv, ServiceTypeOK
<1>3. /\ \A r \in Readers : got[r] # c
      /\ got[peer] = NoClient
  BY <1>1, <1>2, ClientsAssumption, ReadersAssumption
     DEF ServiceInv, ServedInv, PeerInv, HasEnded
<1>4. got'[peer] = c /\ \A r \in Readers : r # peer => got'[r] = got[r]
  BY <1>1, <1>2
<1>5. ServiceTypeOK'
  BY <1>1, <1>2 DEF ServiceInv, ServiceTypeOK
<1>6. QueueInv'
  <2>1. \A i \in 1 .. Len(queue) : queue[i] \in Readers
    BY <1>2
  <2> QED
    BY <1>1, <1>2, <1>4, <2>1 DEF ServiceInv, QueueInv
<1>7. PeerInv' /\ ModuleInv'
  BY <1>1, <1>2, <1>4, ClientsAssumption, ReadersAssumption
     DEF PeerInv, ModuleInv
<1>8. ServedInv'
  <2>1. ASSUME NEW r \in Readers, got'[r] # NoClient, r # peer
        PROVE  /\ reader'[r] # "away" /\ HasEnded(got[r])'
               /\ \A s \in Readers \ {r} : got'[s] # got'[r]
    BY <1>1, <1>2, <1>3, <1>4, <2>1 DEF ServiceInv, ServedInv, HasEnded
  <2>2. \A s \in Readers \ {peer} : got'[s] # got'[peer]
    BY <1>3, <1>4
  <2> QED
    BY <1>1, <1>2, <1>4, <2>1, <2>2 DEF ServedInv
<1>9. SuccessIsServed'
  BY <1>1, <1>2, <1>3, <1>4, ClientsAssumption
     DEF ServiceInv, SuccessIsServed
<1> QED
  BY <1>5, <1>6, <1>7, <1>8, <1>9 DEF ServiceInv

(* How handle_success() may end: an error of accept() or send(), or, with  *)
(* a reader that has been sent the key, the result of mod_stdout.          *)
LEMMA HandlersReturnKeeps ==
  ASSUME ServiceInv, TypeOK, TypeOK', NEW c \in Clients,
         AcceptFails(c) \/ SendFails(c) \/ WriteStdout(c)
  PROVE  ServiceInv'
<1>1. running = c /\ UNCHANGED unitVars
  BY DEF AcceptFails, SendFails, WriteStdout, Delivering
<1>2. PICK e \in Errors : HandlersReturn(c, e) /\ (e = "UL_OK" => module = "stdout")
  BY DEF AcceptFails, SendFails, SendError, WriteStdout, Delivering, Errors
<1>3. pc'[c] = "done" /\ err'[c] = e /\ ClientStep(c)
  BY <1>2, DeliverEnds DEF HandlersReturn, ClientStep
<1> QED
  BY <1>1, <1>2, <1>3, RunKeeps

(* Every step keeps the invariant. *)
LEMMA ServiceStep ==
  ServiceInv /\ TypeOK /\ TypeOK' /\ [ServiceNext]_serviceVars => ServiceInv'
<1> SUFFICES ASSUME ServiceInv, TypeOK, TypeOK', [ServiceNext]_serviceVars
             PROVE  ServiceInv'
  OBVIOUS
<1>1. CASE UNCHANGED serviceVars
  <2>1. pc' = pc /\ err' = err /\ UNCHANGED unitVars
    BY <1>1 DEF serviceVars, vars, clientVars
  <2> QED
    BY <2>1, ServiceInvSame
<1>2. ASSUME NEW c \in Clients, Proceed(c) PROVE ServiceInv'
  <2>1. /\ running = c /\ ClientStep(c) /\ UNCHANGED unitVars
    BY <1>2 DEF Proceed, ClientStep
  <2> QED
    BY <1>2, <2>1, ProceedFails, RunKeeps
<1>3. ASSUME NEW c \in Clients, Dies(c) PROVE ServiceInv'
  BY <1>3, KillEnds, RunKeeps DEF Dies
<1>4. ASSUME NEW c \in Clients, ServerAnswers(c) PROVE ServiceInv'
  <2>1. pc' = pc /\ err' = err /\ UNCHANGED unitVars
    BY <1>4 DEF ServerAnswers, Serve, Create, Show, Fulfil, Refuse, clientVars
  <2> QED
    BY <2>1, ServiceInvSame
<1>5. ASSUME NEW i \in Ids, Decides(i) \/ Expires(i) PROVE ServiceInv'
  <2>1. pc' = pc /\ err' = err /\ UNCHANGED unitVars
    BY <1>5 DEF Decides, Expires, Decide, Expire, clientVars
  <2> QED
    BY <2>1, ServiceInvSame
<1> QED
  BY <1>1, <1>2, <1>3, <1>4, <1>5, StartKeeps, ExitKeeps, ConnectKeeps,
     GiveUpKeeps, AcceptKeeps, SendKeeps, HandlersReturnKeeps DEF ServiceNext

(* Nobody runs and nobody is connected. *)
LEMMA ServiceInvInit == ServiceInit => ServiceInv
<1> SUFFICES ASSUME ServiceInit PROVE ServiceInv
  OBVIOUS
<1>1. ServiceTypeOK
  BY DEF ServiceInit, ServiceTypeOK
<1>2. SuccessIsServed
  BY DEF ServiceInit, Init, SuccessIsServed
<1>3. QueueInv /\ PeerInv /\ ModuleInv /\ ServedInv
  BY DEF ServiceInit, QueueInv, PeerInv, ModuleInv, ServedInv
<1> QED
  BY <1>1, <1>2, <1>3 DEF ServiceInv

(* The invariant of the service, for any number of starts and readers.     *)
THEOREM ServiceInvariant == ServiceSpec => []ServiceInv
<1>1. ServiceSpec => []TypeOK
  BY ServiceIsKeyRequest, TypeCorrect, PTL
<1> QED
  BY <1>1, ServiceInvInit, ServiceStep, PTL DEF ServiceSpec

(* The types of the unit's variables. *)
THEOREM ServiceTypeCorrect == ServiceSpec => []ServiceTypeOK
<1>1. ServiceInv => ServiceTypeOK
  BY DEF ServiceInv
<1> QED
  BY <1>1, ServiceInvariant, PTL

(* success() of mod_sd_socket and request_key() report no success unless a *)
(* reader has been sent the key.                                           *)
THEOREM SuccessIsServedCorrect == ServiceSpec => []SuccessIsServed
<1>1. ServiceInv => SuccessIsServed
  BY DEF ServiceInv
<1> QED
  BY <1>1, ServiceInvariant, PTL

(* A second reader of the socket costs a second request.                   *)
THEOREM OneRequestPerReaderCorrect == ServiceSpec => []OneRequestPerReader
<1>1. ServiceInv /\ KeyOnlyIfFulfilled => OneRequestPerReader
  <2> SUFFICES ASSUME ServiceInv, KeyOnlyIfFulfilled
               PROVE  OneRequestPerReader
    OBVIOUS
  <2>1. ASSUME NEW r \in Readers, HoldsKey(r)
        PROVE  /\ got[r] \in Clients
               /\ requestId[got[r]] # NoId
               /\ reqOwner[requestId[got[r]]] = got[r]
               /\ reqState[requestId[got[r]]] = "FULFILLED"
               /\ \A s \in Readers \ {r} : got[s] # got[r]
    <3>1. got[r] \in Clients
      BY <2>1 DEF ServiceInv, ServiceTypeOK, HoldsKey
    <3> QED
      BY <2>1, <3>1 DEF ServiceInv, ServedInv, KeyOnlyIfFulfilled, HoldsKey
  <2>2. ASSUME NEW r \in Readers, NEW s \in Readers \ {r},
               HoldsKey(r), HoldsKey(s)
        PROVE  requestId[got[s]] # requestId[got[r]]
    BY <2>1, <2>2
  <2> QED
    BY <2>1, <2>2 DEF OneRequestPerReader
<1> QED
  BY <1>1, ServiceInvariant, ServiceKeyOnlyIfFulfilled, PTL

=============================================================================
