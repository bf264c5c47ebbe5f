------------------- MODULE ModuleRegistryRefinementProofs -------------------
(* The loops of module.c implement Broadcast, for any number of modules    *)
(* with any callbacks.                                                     *)
EXTENDS ModuleRegistryProofs

(* The state of Broadcast that a state of the registry stands for.         *)
Topic == CASE phase \in Callbacks -> phase
           [] phase = "crashed" -> "dead"
           [] OTHER -> "none"
Told == {i \in Audience : i < index \/ (i = index /\ err # "UL_OK")}
Result == IF phase \in Callbacks THEN err ELSE "UL_OK"

abstract == <<Topic, Audience, Told, Result>>

(* Outside the loops nothing is broadcast.                                 *)
LEMMA QuietState ==
  ASSUME phase \notin Callbacks
  PROVE  /\ Topic = IF phase = "crashed" THEN "dead" ELSE "none"
         /\ Audience = {} /\ Told = {} /\ Result = "UL_OK"
BY DEF Topic, Audience, Told, Result

(* The same after a step.                                                  *)
LEMMA QuietStateNext ==
  ASSUME phase' \notin Callbacks
  PROVE  /\ Topic' = IF phase' = "crashed" THEN "dead" ELSE "none"
         /\ Audience' = {} /\ Told' = {} /\ Result' = "UL_OK"
BY DEF Topic, Audience, Told, Result

(* In a loop its topic is broadcast to the modules that listen.            *)
LEMMA LoopState ==
  ASSUME phase \in Callbacks
  PROVE  /\ Topic = phase /\ Result = err
         /\ Audience = {i \in 1 .. Len(modules) :
                          Readable(i) /\ Listens(phase, modules[i])}
<1>1. phase # "crashed"
  BY DEF Callbacks
<1> QED
  BY <1>1 DEF Topic, Audience, Result

(* The same after a step.                                                  *)
LEMMA LoopStateNext ==
  ASSUME phase' \in Callbacks
  PROVE  /\ Topic' = phase' /\ Result' = err'
         /\ Audience' = {i \in 1 .. Len(modules') :
                           Readable(i)' /\ Listens(phase, modules[i])'}
<1>1. phase' # "crashed"
  BY DEF Callbacks
<1> QED
  BY <1>1 DEF Topic, Audience, Result

(* The places of the modules are among those of Broadcast.                 *)
LEMMA AudienceInPlace ==
  /\ TypeOK => Audience \in SUBSET (1 .. Cardinality(Modules))
  /\ TypeOK' => Audience' \in SUBSET (1 .. Cardinality(Modules))
<1>1. Cardinality(Modules) \in Nat
  BY FS_CardinalityType, ModulesAssumption
<1>2. \A n \in 0 .. Cardinality(Modules) :
        1 .. n \subseteq 1 .. Cardinality(Modules)
  BY <1>1
<1>3. 0 \in 0 .. Cardinality(Modules)
  BY <1>1
<1>4. /\ TypeOK => Len(modules) \in 0 .. Cardinality(Modules)
      /\ TypeOK' => Len(modules') \in 0 .. Cardinality(Modules)
  BY <1>3 DEF TypeOK
<1> QED
  BY <1>2, <1>4 DEF Audience

(* A loop that is entered begins a broadcast that nobody was told of.      *)
LEMMA BeginRefines ==
  ASSUME RegistryInv, RegistryInv', phase # "crashed",
         Topic = "none" \/ Result # "UL_OK" \/ Told = Audience,
         phase' \in Callbacks, index' = 1, err' = "UL_OK"
  PROVE  AbstractBroadcast!Next
<1>1. Topic # "dead"
  BY DEF Topic, Callbacks
<1>2. Topic' = phase' /\ Result' = "UL_OK"
  BY LoopStateNext
<1>3. Audience' \in SUBSET (1 .. Cardinality(Modules))
  <2>1. TypeOK'
    BY DEF RegistryInv
  <2> QED
    BY <2>1, AudienceInPlace
<1>4. Told' = {}
  <2>1. \A i \in 1 .. Len(modules') : ~(i < 1)
    BY CounterIsNat
  <2>2. Audience' \subseteq 1 .. Len(modules')
    BY LoopStateNext
  <2> QED
    BY <2>1, <2>2 DEF Told
<1>5. PICK t \in Callbacks : t = phase'
  OBVIOUS
<1>6. AbstractBroadcast!Begin(t)
  BY <1>5, <1>1, <1>2, <1>3, <1>4
  DEF AbstractBroadcast!Begin, AbstractBroadcast!Over, Topic, Told, Result
<1> QED
  BY <1>6 DEF AbstractBroadcast!Next

(* What the caller does between the loops begins a broadcast or shows      *)
(* nothing of itself.                                                      *)
LEMMA CallerRefines ==
  ASSUME RegistryInv, RegistryInv',
         phase \notin Callbacks \cup {"crashed"}, phase' # "crashed",
         phase' \in Callbacks => index' = 1 /\ err' = "UL_OK"
  PROVE  AbstractBroadcast!Next \/ UNCHANGED abstract
<1>1. CASE phase' \in Callbacks
  BY <1>1, QuietState, BeginRefines
<1>2. CASE phase' \notin Callbacks
  BY <1>2, QuietState, QuietStateNext DEF abstract
<1> QED
  BY <1>1, <1>2

(* A module that does not listen is not told, and nobody sees it.          *)
LEMMA PassRefines ==
  ASSUME RegistryInv, Pass
  PROVE  UNCHANGED abstract
<1>1. /\ phase \in Callbacks /\ phase' = phase
      /\ err = "UL_OK" /\ err' = err /\ index' = index + 1
      /\ ~Listens(phase, modules[index])
      /\ modules' = modules /\ callbacks' = callbacks /\ enabled' = enabled
  BY DEF Pass, Looping, Stops, registry
<1>2. Audience' = Audience /\ Topic' = Topic /\ Result' = Result
  BY <1>1 DEF Audience, Topic, Result, Readable, Listens
<1>3. \A i \in Audience : i < index + 1 <=> i < index
  <2>1. \A i \in Audience : i \in 1 .. Len(modules) /\ i # index
    BY <1>1, LoopState
  <2> QED
    BY <2>1, CounterIsNat DEF RegistryInv
<1>4. Told' = Told
  BY <1>1, <1>2, <1>3 DEF Told
<1> QED
  BY <1>2, <1>4 DEF abstract

(* A callback that is called tells the first module that was not told yet. *)
LEMMA CallRefines ==
  ASSUME RegistryInv, Call
  PROVE  AbstractBroadcast!Next
<1>1. /\ phase \in Callbacks /\ phase' = phase
      /\ err = "UL_OK" /\ err' \in Results /\ index' = Advance(err')
      /\ Readable(index) /\ Listens(phase, modules[index])
      /\ modules' = modules /\ callbacks' = callbacks
      /\ phase # "parse_config" => enabled' = enabled
  BY DEF Call, Looping, Stops, registry, Outcomes, Results
<1>2. \A i \in 1 .. Len(modules) :
        Listens(phase, modules[i])' <=> Listens(phase, modules[i])
  BY <1>1 DEF Listens
<1>3. Audience' = Audience /\ Topic' = Topic
  BY <1>1, <1>2, LoopState, LoopStateNext DEF Readable
<1>4. Topic \in Callbacks /\ Result = "UL_OK" /\ Result' \in Results
  BY <1>1, LoopState, LoopStateNext
<1>5. index \in Audience
  BY <1>1, LoopState DEF Readable
<1>6. /\ \A i \in Audience : i \in Nat /\ (~(i < index) => index <= i)
      /\ index \in Nat
  BY CounterIsNat DEF RegistryInv, Audience
<1>7. Told = {i \in Audience : i < index}
  BY <1>1 DEF Told
<1>8. Told' = Told \cup {index}
  <2>1. CASE err' = "UL_OK"
    <3>1. index' = index + 1
      BY <1>1, <2>1 DEF Advance, Stops
    <3>2. Told' = {i \in Audience : i < index + 1}
      BY <1>3, <2>1, <3>1 DEF Told
    <3>3. \A i \in Audience : i < index + 1 <=> i < index \/ i = index
      BY <1>6
    <3> QED
      BY <1>5, <1>7, <3>2, <3>3
  <2>2. CASE err' # "UL_OK"
    <3>1. index' = index
      BY <1>1, <2>2 DEF Advance, Stops
    <3>2. Told' = {i \in Audience : i < index \/ i = index}
      BY <1>3, <2>2, <3>1 DEF Told
    <3> QED
      BY <1>5, <1>6, <1>7, <3>2
  <2> QED
    BY <2>1, <2>2
<1>9. index \in Audience \ Told /\ \A q \in Audience \ Told : index <= q
  BY <1>5, <1>6, <1>7
<1>10. index \in 1 .. Cardinality(Modules)
  BY <1>5, AudienceInPlace DEF RegistryInv
<1>11. PICK p \in 1 .. Cardinality(Modules) : p = index
  BY <1>10
<1>12. AbstractBroadcast!Tell(p)
  BY <1>3, <1>4, <1>8, <1>9, <1>11
  DEF AbstractBroadcast!Tell, Topic, Told, Result
<1> QED
  BY <1>12 DEF AbstractBroadcast!Next

(* A loop that reads past the array has lost its members.                  *)
LEMMA CrashRefines ==
  ASSUME RegistryInv, Crash
  PROVE  AbstractBroadcast!Next
<1>1. phase \in Callbacks /\ phase' = "crashed" /\ "crashed" \notin Callbacks
  BY DEF Crash, Looping, Stops, Callbacks
<1>2. AbstractBroadcast!Die
  BY <1>1, LoopState, QuietStateNext
  DEF AbstractBroadcast!Die, AbstractBroadcast!Silent, Topic, Told, Result
<1> QED
  BY <1>2 DEF AbstractBroadcast!Next

(* A loop that ends has told all that listen or met an error; the next     *)
(* broadcast begins, or there is silence.                                  *)
LEMMA ReturnRefines ==
  ASSUME RegistryInv, RegistryInv', Return
  PROVE  AbstractBroadcast!Next
<1>1. /\ phase \in Callbacks
      /\ err # "UL_OK" \/ index > module_count
      /\ phase' # "crashed" /\ phase # "crashed"
      /\ phase' \in Callbacks => index' = 1 /\ err' = "UL_OK"
  BY DEF Return, Stops, Enter, Afterwards, Callbacks
<1>2. Result # "UL_OK" \/ Told = Audience
  <2>1. CASE err # "UL_OK"
    BY <1>1, <2>1, LoopState
  <2>2. CASE err = "UL_OK" /\ index > module_count
    <3>1. Len(modules) <= module_count
      BY CounterIsNat DEF RegistryInv, TypeOK
    <3>2. \A i \in 1 .. Len(modules) : i < index
      BY <1>1, <2>2, <3>1, CounterIsNat DEF RegistryInv
    <3>3. \A i \in Audience : i < index
      BY <3>2 DEF Audience
    <3> QED
      BY <3>3 DEF Told
  <2> QED
    BY <1>1, <2>1, <2>2
<1>3. CASE phase' \in Callbacks
  BY <1>1, <1>2, <1>3, BeginRefines
<1>4. CASE phase' \notin Callbacks
  <2>1. /\ Topic \in Callbacks /\ Topic' = "none"
        /\ Audience' = {} /\ Told' = {} /\ Result' = "UL_OK"
    BY <1>1, <1>4, LoopState, QuietStateNext
  <2>2. AbstractBroadcast!Rest
    BY <1>2, <2>1
    DEF AbstractBroadcast!Rest, AbstractBroadcast!Silent,
        AbstractBroadcast!Over, Topic, Told, Result
  <2> QED
    BY <2>2 DEF AbstractBroadcast!Next
<1> QED
  BY <1>3, <1>4

(* Every step of the registry is a step of Broadcast or a stutter.         *)
LEMMA RegistryStepRefines ==
  ASSUME RegistryInv, RegistryInv', [Next]_vars
  PROVE  [AbstractBroadcast!Next]_(AbstractBroadcast!bvars)
<1>1. SUFFICES AbstractBroadcast!Next \/ UNCHANGED abstract
  BY DEF AbstractBroadcast!bvars, abstract, Topic, Told, Result
<1>2. CASE UNCHANGED vars
  BY <1>2
  DEF vars, abstract, Topic, Told, Result, Audience, Readable, Listens
<1>3. ASSUME NEW m \in Modules, Register(m)
      PROVE  AbstractBroadcast!Next \/ UNCHANGED abstract
  BY <1>3, CallerRefines DEF Register, Enter, Callbacks
<1>4. CASE Options \/ Validate \/ Request \/ Use
  <2>1. /\ phase \notin Callbacks \cup {"crashed"} /\ phase' # "crashed"
        /\ index' = 1 /\ err' = "UL_OK"
    BY <1>4 DEF Options, Validate, Request, Use, Enter, Callbacks
  <2> QED
    BY <2>1, CallerRefines
<1> QED
  BY <1>2, <1>3, <1>4, PassRefines, CallRefines, CrashRefines, ReturnRefines
  DEF Next

(* The loops of module.c tell the modules in order, nobody twice, nobody   *)
(* before the first error left out, and nobody after it.                   *)
THEOREM BroadcastImplemented == Spec => BroadcastSpec
<1>1. Init => AbstractBroadcast!Init
  BY DEF Init, AbstractBroadcast!Init, Audience, Callbacks
<1>2. RegistryInv /\ RegistryInv' /\ [Next]_vars =>
        [AbstractBroadcast!Next]_(AbstractBroadcast!bvars)
  BY RegistryStepRefines
<1> QED
  BY <1>1, <1>2, RegistryCorrect, PTL
  DEF Spec, BroadcastSpec, AbstractBroadcast!Spec

=============================================================================
