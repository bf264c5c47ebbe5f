--------------------- MODULE KeyRequestRefinementProofs ---------------------
(* request_key() and its server implement KeyProvision, for any number of  *)
(* processes and requests.                                                 *)
EXTENDS KeyRequestRefinement, KeyRequestProofs

(* The outcome of a process as the state of KeyProvision shows it.         *)
OutcomeOf == [c \in Clients |-> Outcome(c)]

(* What a process has come to, case by case.                               *)
LEMMA OutcomeCases ==
  ASSUME NEW c \in Clients
  PROVE  /\ given[c] = "key" => Outcome(c) = "provided"
         /\ given[c] \notin {"nothing", "key"} => Outcome(c) = "failed"
         /\ given[c] = "nothing" /\ pc[c] \in Ended => Outcome(c) = "failed"
         /\ given[c] = "nothing" /\ pc[c] \notin Ended => Outcome(c) = "waiting"
         /\ Outcome(c) \in {"provided", "failed", "waiting"}
BY DEF Outcome, Ended

(* The same after a step.                                                  *)
LEMMA OutcomeCasesNext ==
  ASSUME NEW c \in Clients
  PROVE  /\ given'[c] = "key" => Outcome(c)' = "provided"
         /\ given'[c] \notin {"nothing", "key"} => Outcome(c)' = "failed"
         /\ given'[c] = "nothing" /\ pc'[c] \in Ended => Outcome(c)' = "failed"
         /\ given'[c] = "nothing" /\ pc'[c] \notin Ended =>
              Outcome(c)' = "waiting"
BY DEF Outcome, Ended

(* A step of one process changes the outcome of no other.                  *)
LEMMA OneOutcome ==
  ASSUME TypeOK, NEW c \in Clients, ClientStep(c) \/ Kill(c)
  PROVE  OutcomeOf' = [OutcomeOf EXCEPT ![c] = Outcome(c)']
<1>1. ASSUME NEW d \in Clients, d # c PROVE Outcome(d)' = Outcome(d)
  <2>1. Untouched(d)
    BY <1>1, ClientTouchesItself
  <2> QED
    BY <2>1 DEF Untouched, Outcome
<1> QED
  BY <1>1 DEF OutcomeOf

(* Unless it is given the key, a process stays as it is or fails.          *)
LEMMA ClientRefines ==
  ASSUME KeyRequestInv, NEW c \in Clients, ClientStep(c) \/ Kill(c)
  PROVE  \/ Provision!Provide(c) \/ Provision!Fail(c)
         \/ UNCHANGED <<serverVars, OutcomeOf>>
<1>1. TypeOK /\ ProcessInv(c)
  BY DEF KeyRequestInv
<1>2. UNCHANGED serverVars
  BY DEF ClientStep, Post, PostReturns, Poll, PollReturns, Patch, PatchReturns,
     Deliver, Kill, serverVars
<1>3. OutcomeOf' = [OutcomeOf EXCEPT ![c] = Outcome(c)']
  BY <1>1, OneOutcome
<1>4. CASE given'[c] = given[c] /\ pc[c] \notin Ended
  <2>1. CASE given[c] # "nothing"
    <3>1. Outcome(c)' = Outcome(c)
      BY <1>4, <2>1 DEF Outcome
    <3> QED
      BY <1>2, <1>3, <3>1 DEF OutcomeOf
  <2>2. CASE given[c] = "nothing" /\ pc'[c] \notin Ended
    <3>1. Outcome(c)' = Outcome(c)
      BY <1>4, <2>2, OutcomeCases, OutcomeCasesNext
    <3> QED
      BY <1>2, <1>3, <3>1 DEF OutcomeOf
  <2>3. CASE given[c] = "nothing" /\ pc'[c] \in Ended
    <3>1. Outcome(c) = "waiting" /\ Outcome(c)' = "failed"
      BY <1>4, <2>3, OutcomeCases, OutcomeCasesNext
    <3> QED
      BY <1>2, <1>3, <3>1 DEF OutcomeOf, Provision!Fail, serverVars
  <2> QED
    BY <2>1, <2>2, <2>3
<1>5. CASE PatchReturns(c) /\ given'[c] # given[c]
  <2>1. PICK a \in Outcomes(c), failed \in OutOfMemory({"key"}) :
          PatchReturns(c)!2!(a, failed)
    BY <1>5 DEF PatchReturns
  <2>2. /\ given[c] = "nothing" /\ pc[c] = "patched"
        /\ given'[c] = a.payload
    BY <1>1, <1>5, <2>1
    DEF PatchReturns, TypeOK, ProcessInv, LocalInv, Ended
  <2>3. Outcome(c) = "waiting"
    BY <2>2, OutcomeCases DEF Ended
  <2>4. CASE a.payload = "key"
    <3>1. /\ requestId[c] \in Ids
          /\ reqOwner[requestId[c]] = c
          /\ reqState[requestId[c]] = "FULFILLED"
      BY <1>1, <2>4, OutcomeFacts
      DEF TypeOK, ProcessInv, AnswerInv, KnowledgeInv
    <3>2. Outcome(c)' = "provided"
      BY <2>2, <2>4, OutcomeCasesNext
    <3> QED
      BY <1>2, <1>3, <2>3, <3>1, <3>2
      DEF OutcomeOf, Provision!Provide, Provision!Ids, Ids, serverVars
  <2>5. CASE a.payload # "key"
    <3>1. Outcome(c)' = "failed"
      BY <1>5, <2>2, <2>5, OutcomeCasesNext
    <3> QED
      BY <1>2, <1>3, <2>3, <3>1 DEF OutcomeOf, Provision!Fail, serverVars
  <2> QED
    BY <2>4, <2>5
<1> QED
  BY <1>4, <1>5 DEF ClientStep, Post, PostReturns, Poll, PollReturns, Patch,
     PatchReturns, Deliver, Kill, Ended

(* What the server does to a request is a step of KeyProvision, and leaves *)
(* every outcome alone.                                                    *)
LEMMA ServerRefines ==
  ASSUME KeyRequestInv, UNCHANGED clientVars
  PROVE  /\ \A c \in Clients : Create(c) => Provision!Ask(c)
         /\ \A c \in Clients : Fulfil(c) =>
              \/ \E i \in Ids : Provision!Release(i)
              \/ UNCHANGED <<serverVars, OutcomeOf>>
         /\ \A i \in Ids : Decide(i) => Provision!Decide(i)
         /\ \A i \in Ids : Expire(i) => Provision!Expire(i)
<1>1. OutcomeOf' = OutcomeOf
  BY DEF clientVars, OutcomeOf, Outcome
<1>2. ASSUME NEW c \in Clients, Create(c) PROVE Provision!Ask(c)
  <2>1. OwnsNothing(c)
    BY <1>2 DEF Create, Asks, KeyRequestInv, ProcessInv, RequestInv
  <2> QED
    BY <1>1, <1>2, <2>1
    DEF Create, OwnsNothing, Provision!Ask, Provision!Ids, Ids, OutcomeOf
<1>3. ASSUME NEW c \in Clients, Fulfil(c)
      PROVE  \/ \E i \in Ids : Provision!Release(i)
             \/ UNCHANGED <<serverVars, OutcomeOf>>
  BY <1>1, <1>3 DEF Fulfil, Known, Provision!Release, OutcomeOf, serverVars
<1>4. ASSUME NEW i \in Ids, Decide(i) PROVE Provision!Decide(i)
  BY <1>1, <1>4 DEF Decide, Provision!Decide, OutcomeOf
<1>5. ASSUME NEW i \in Ids, Expire(i) PROVE Provision!Expire(i)
  BY <1>1, <1>5 DEF Expire, Provision!Expire, OutcomeOf
<1> QED
  BY <1>2, <1>3, <1>4, <1>5

(* Every step of KeyRequest is a step of KeyProvision or a stutter.        *)
LEMMA StepRefines ==
  ASSUME KeyRequestInv, [Next]_vars
  PROVE  [Provision!Next]_(Provision!avars)
<1>1. SUFFICES ASSUME ~UNCHANGED <<serverVars, OutcomeOf>>
               PROVE  Provision!Next
  BY DEF Provision!avars, OutcomeOf, serverVars
<1>2. CASE UNCHANGED vars
  BY <1>1, <1>2 DEF vars, serverVars, OutcomeOf, Outcome
<1>3. ASSUME NEW c \in Clients, ClientStep(c) \/ Kill(c) PROVE Provision!Next
  BY <1>1, <1>3, ClientRefines DEF Provision!Next
<1>4. ASSUME NEW c \in Clients, Serve(c) PROVE Provision!Next
  <2>1. UNCHANGED clientVars
    BY <1>4 DEF Serve, Create, Show, Fulfil, Refuse
  <2>2. CASE Create(c)
    BY <2>1, <2>2, ServerRefines DEF Provision!Next
  <2>3. CASE Fulfil(c)
    BY <1>1, <2>1, <2>3, ServerRefines DEF Provision!Next, Provision!Ids, Ids
  <2>4. CASE Show(c) \/ Refuse(c)
    BY <1>1, <2>1, <2>4
    DEF Show, Refuse, clientVars, serverVars, OutcomeOf, Outcome
  <2> QED
    BY <1>4, <2>2, <2>3, <2>4 DEF Serve
<1>5. ASSUME NEW i \in Ids, Decide(i) \/ Expire(i) PROVE Provision!Next
  <2>1. UNCHANGED clientVars
    BY <1>5 DEF Decide, Expire
  <2> QED
    BY <1>5, <2>1, ServerRefines DEF Provision!Next, Provision!Ids, Ids
<1> QED
  BY <1>2, <1>3, <1>4, <1>5 DEF Next

(* The exchanges of request_key() provide keys as KeyProvision promises.   *)
THEOREM ProvisionImplemented == Spec => ProvisionSpec
<1>1. Init => Provision!Init
  BY DEF Init, Provision!Init, Provision!Ids, Ids, Outcome
<1>2. KeyRequestInv /\ [Next]_vars => [Provision!Next]_(Provision!avars)
  BY StepRefines
<1> QED
  BY <1>1, <1>2, InvariantCorrect, PTL DEF Spec, ProvisionSpec, Provision!Spec

=============================================================================
