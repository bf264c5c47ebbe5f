------------------------ MODULE ModuleRegistryProofs ------------------------
(***************************************************************************)
(* The safety of the registry of module.c for any number of modules with   *)
(* any callbacks, for main() and for the tests, and the proof that its     *)
(* loops are broadcasts.                                                   *)
(***************************************************************************)
EXTENDS ModuleRegistry, FiniteSetTheorems, SequenceTheorems, TLAPS

-----------------------------------------------------------------------------
(* The inductive invariant.                                                *)

(* A module has one place at most, none while it is still on offer.        *)
PlacesInv ==
  /\ \A i, j \in 1 .. Len(modules) :
       Readable(i) /\ modules[i] = modules[j] => i = j
  /\ \A i \in 1 .. Len(modules) : modules[i] \notin offered
  /\ module_count + Cardinality(offered) <= Cardinality(Modules)

(* What the caller has not done yet.  The tests have no module that could  *)
(* fail in cleanup_modules(), which is why they may register all of them   *)
(* again.                                                                  *)
CallerInv ==
  /\ caller = "tests" =>
       /\ \A m \in Modules : callbacks[m] \subseteq {"success", "failure"}
       /\ phase \in {"register", "use", "success", "failure", "cleanup",
                     "crashed"}
  /\ caller = "main" =>
       /\ phase \notin {"use", "failure"}
       /\ phase = "register" => calls = {}
  /\ phase = "register" => index = 1 /\ err = "UL_OK"

(* What a loop has done: it has been at every module before index, and it  *)
(* stays at one that reported an error.                                    *)
LoopInv ==
  phase \in Callbacks =>
    /\ \A i \in 1 .. index - 1 :
         /\ Readable(i)
         /\ Listens(phase, modules[i]) =>
              <<phase, modules[i], "UL_OK">> \in calls
    /\ err # "UL_OK" =>
         /\ Readable(index) /\ Listens(phase, modules[index])
         /\ <<phase, modules[index], err>> \in calls

(* Every registered module that has to be initialised has been. *)
AllInitialised ==
  \A m \in Registered :
    "init" \in callbacks[m] => <<"init", m, "UL_OK">> \in calls

(* Only a callback that a module has was called, cleanup() only by the     *)
(* loop that main() ends with, and after every initialisation.             *)
CallsInv ==
  /\ \A o \in Callbacks, m \in Modules : Called(o, m) => o \in callbacks[m]
  /\ \A m \in Modules : Called("cleanup", m) =>
       \/ phase \in {"exit", "crashed"}
       \/ /\ phase = "cleanup"
          /\ \E i \in 1 .. Len(modules) :
               /\ modules[i] = m
               /\ i < index \/ (i = index /\ err # "UL_OK")
  /\ caller = "main" /\ phase \in {"request", "success"} => AllInitialised
  /\ caller = "main" /\ (\E m \in Modules : Called("success", m)) =>
       AllInitialised
  /\ phase # "exit" =>
       \A m \in Modules : <<"init", m, "UL_OK">> \in calls => m \in Registered

RegistryInv ==
  /\ TypeOK /\ PlacesInv /\ CallerInv /\ LoopInv /\ CallsInv
  /\ InitialisedAreCleaned

-----------------------------------------------------------------------------
(* Lemmas about the operators of the registry.                             *)

(* What realloc() leaves in the longer array.                              *)
LEMMA GrowProperties ==
  ASSUME TypeOK, NEW m \in Modules
  PROVE  LET new == Grow(modules, module_count, m) IN
         /\ new \in Seq(Modules \cup {"garbage"})
         /\ Len(new) = module_count + 1
         /\ new[module_count + 1] = m
         /\ \A i \in 1 .. module_count :
              \/ i \in 1 .. Len(modules) /\ new[i] = modules[i]
              \/ new[i] = "garbage"
<1> DEFINE old == [i \in 1 .. module_count |->
                    IF i <= Len(modules) THEN modules[i] ELSE "garbage"]
           new == Grow(modules, module_count, m)
<1>1. module_count \in Nat /\ modules \in Seq(Modules \cup {"garbage"})
  BY FS_CardinalityType, ModulesAssumption DEF TypeOK
<1>2. \A i \in 1 .. module_count : old[i] \in Modules \cup {"garbage"}
  BY <1>1, ElementOfSeq
<1>3. old \in Seq(Modules \cup {"garbage"}) /\ Len(old) = module_count
  BY <1>1, <1>2, IsASeq, LenProperties
<1>4. new = Append(old, m)
  BY DEF Grow
<1>5. /\ new \in Seq(Modules \cup {"garbage"})
      /\ Len(new) = module_count + 1
      /\ new[module_count + 1] = m
      /\ \A i \in 1 .. module_count : new[i] = old[i]
  BY <1>1, <1>3, <1>4, AppendProperties
<1>6. ASSUME NEW i \in 1 .. module_count
      PROVE  \/ i \in 1 .. Len(modules) /\ new[i] = modules[i]
             \/ new[i] = "garbage"
  BY <1>1, <1>5
<1> QED
  BY <1>5, <1>6

(* The modules on offer are finitely many, and fewer once one of them has  *)
(* been taken.                                                             *)
LEMMA OfferShrinks ==
  ASSUME TypeOK, NEW m \in offered
  PROVE  Cardinality(offered \ {m}) = Cardinality(offered) - 1
BY ModulesAssumption, FS_Subset, FS_RemoveElement DEF TypeOK

(* The number of modules on offer, and of all modules.                     *)
LEMMA OfferIsFinite ==
  ASSUME NEW S \in SUBSET Modules
  PROVE  /\ Cardinality(S) \in Nat /\ Cardinality(Modules) \in Nat
         /\ Cardinality(S) <= Cardinality(Modules)
BY ModulesAssumption, FS_Subset, FS_CardinalityType

-----------------------------------------------------------------------------
(* The steps of the caller.                                                *)

(* register_module() keeps the invariant, also when realloc() fails.       *)
LEMMA RegisterKeeps ==
  ASSUME RegistryInv, NEW m \in Modules, Register(m)
  PROVE  RegistryInv'
<1> USE DEF RegistryInv
<1>1. /\ m \in offered /\ offered' = offered \ {m}
      /\ phase = "register" /\ phase' \in {"register", "options", "use"}
      /\ phase' = "options" => caller = "main"
      /\ phase' = "use" => caller = "tests"
      /\ index' = 1 /\ err' = "UL_OK"
      /\ calls' = {c \in calls : c[2] # m}
      /\ caller' = caller /\ callbacks' = callbacks /\ enabled' = enabled
      /\ main_err' = main_err
  BY CallersAssumption DEF Register, Enter, CallerInv, TypeOK
<1>2. \/ modules' = <<>> /\ module_count' = module_count
      \/ /\ modules' = Grow(modules, module_count, m)
         /\ module_count' = module_count + 1
  BY DEF Register
<1>3. /\ Cardinality(offered) \in Nat /\ Cardinality(Modules) \in Nat
      /\ Cardinality(offered') = Cardinality(offered) - 1
      /\ Cardinality(offered') \in Nat
  <2>1. offered \in SUBSET Modules /\ offered' \in SUBSET Modules
    BY <1>1 DEF TypeOK
  <2> QED
    BY <1>1, <2>1, OfferIsFinite, OfferShrinks
<1>4. /\ module_count \in Nat /\ module_count' \in Nat
      /\ module_count' <= module_count + 1
      /\ module_count' + Cardinality(offered') <= Cardinality(Modules)
  BY <1>2, <1>3 DEF TypeOK, PlacesInv
<1>5. /\ modules' \in Seq(Modules \cup {"garbage"})
      /\ Len(modules') \in {0, module_count'}
      /\ modules' # <<>> => modules'[Len(modules')] # "garbage"
      /\ \A i \in 1 .. Len(modules') :
           \/ modules'[i] = "garbage"
           \/ i \in 1 .. Len(modules) /\ modules'[i] = modules[i]
           \/ i = Len(modules') /\ modules'[i] = m
  <2>1. CASE modules' = <<>>
    BY <2>1, EmptySeq
  <2>2. CASE /\ modules' = Grow(modules, module_count, m)
             /\ module_count' = module_count + 1
    BY <1>4, <2>2, GrowProperties, ModulesAssumption
  <2> QED
    BY <1>2, <2>1, <2>2
<1>6. TypeOK'
  <2>1. calls' \subseteq Callbacks \X Modules \X Results
    BY <1>1 DEF TypeOK
  <2>2. module_count' \in 0 .. Cardinality(Modules)
    BY <1>3, <1>4
  <2>3. index' \in 1 .. module_count' + 1
    <3>1. \A n \in Nat : 1 \in 1 .. n + 1
      OBVIOUS
    <3> QED
      BY <1>1, <1>4, <3>1
  <2>4. /\ caller' \in Callers /\ callbacks' \in [Modules -> SUBSET Callbacks]
        /\ offered' \subseteq Modules /\ enabled' \subseteq Modules
        /\ main_err' \in Results \cup {"UL_DENIED"}
    BY <1>1 DEF TypeOK
  <2>5. /\ phase' \in Callbacks \cup {"register", "options", "validate",
                                     "request", "use", "exit", "crashed"}
        /\ err' \in Results
    BY <1>1 DEF Results
  <2> QED
    BY <1>5, <2>1, <2>2, <2>3, <2>4, <2>5 DEF TypeOK
<1>7. PlacesInv'
  <2>1. Len(modules) \in Nat /\ Len(modules') \in Nat
    BY <1>4, <1>5, LenProperties DEF TypeOK
  <2>2. \A i, j \in 1 .. Len(modules') :
          Readable(i)' /\ modules'[i] = modules'[j] => i = j
    BY <1>1, <1>5, <2>1, ModulesAssumption DEF PlacesInv, Readable
  <2>3. \A i \in 1 .. Len(modules') : modules'[i] \notin offered'
    BY <1>1, <1>5, ModulesAssumption DEF PlacesInv, TypeOK
  <2> QED
    BY <1>4, <2>2, <2>3 DEF PlacesInv
<1>8. CallerInv'
  BY <1>1 DEF CallerInv
<1>9. LoopInv'
  BY <1>1 DEF LoopInv, Callbacks
<1>10. CallsInv'
  <2>1. \A o \in Callbacks, k \in Modules :
          Called(o, k)' => Called(o, k)
    BY <1>1 DEF Called
  <2>2. \A o \in Callbacks, k \in Modules :
          Called(o, k)' => o \in callbacks'[k]
    BY <1>1, <2>1 DEF CallsInv
  <2>3. \A k \in Modules : ~Called("cleanup", k)'
    BY <1>1, <2>1 DEF CallsInv, Callbacks
  <2>4. caller' = "main" => calls' = {}
    BY <1>1 DEF CallerInv
  <2>5. \A k \in Modules : <<"init", k, "UL_OK">> \notin calls'
    BY <1>1, <2>2, <2>4, CallersAssumption
    DEF CallerInv, Called, Callbacks, Results, TypeOK
  <2> QED
    BY <1>1, <2>2, <2>3, <2>4, <2>5 DEF CallsInv, Called
<1>11. InitialisedAreCleaned'
  BY <1>1 DEF InitialisedAreCleaned
<1> QED
  BY <1>6, <1>7, <1>8, <1>9, <1>10, <1>11

(* The caller goes on to a later phase, and the modules stay registered.   *)
LEMMA EnterKeeps ==
  ASSUME RegistryInv,
         phase \notin {"register", "cleanup", "exit", "crashed"},
         caller' = caller, callbacks' = callbacks, offered' = offered,
         modules' = modules, module_count' = module_count, calls' = calls,
         enabled' \in SUBSET Modules,
         main_err' \in Results \cup {"UL_DENIED"},
         index' = 1, err' \in Results,
         phase' \in Callbacks => err' = "UL_OK",
         caller = "main" =>
           phase' \in (Callbacks \ {"failure"}) \cup {"validate", "request"},
         caller = "tests" => phase' \in {"success", "failure", "cleanup"},
         caller = "main" /\ phase' \in {"request", "success"} =>
           AllInitialised
  PROVE  RegistryInv'
<1> USE DEF RegistryInv
<1>1. caller \in {"main", "tests"}
  BY CallersAssumption DEF TypeOK
<1>2. phase' \in Callbacks \cup {"validate", "request"}
  BY <1>1 DEF Callbacks
<1>3. TypeOK'
  <2>1. index' \in 1 .. module_count' + 1
    <3>1. \A n \in Nat : 1 \in 1 .. n + 1
      OBVIOUS
    <3>2. module_count \in Nat
      BY FS_CardinalityType, ModulesAssumption DEF TypeOK
    <3> QED
      BY <3>1, <3>2
  <2> QED
    BY <1>2, <2>1 DEF TypeOK
<1>4. PlacesInv'
  BY DEF PlacesInv, Readable
<1>5. CallerInv'
  BY <1>1, <1>2 DEF CallerInv, Callbacks
<1>6. LoopInv'
  BY DEF LoopInv
<1>7. CallsInv'
  <2>1. \A m \in Modules : ~Called("cleanup", m)
    BY DEF CallsInv
  <2>2. AllInitialised' <=> AllInitialised
    BY DEF AllInitialised, Registered
  <2>3. caller' = "main" /\ (\E m \in Modules : Called("success", m)') =>
          AllInitialised'
    BY <2>2 DEF CallsInv, Called
  <2>4. \A m \in Modules :
          <<"init", m, "UL_OK">> \in calls' => m \in Registered'
    BY DEF CallsInv, Registered
  <2> QED
    BY <1>2, <2>1, <2>2, <2>3, <2>4 DEF CallsInv, Called
<1>8. InitialisedAreCleaned'
  BY <1>2 DEF InitialisedAreCleaned, Callbacks
<1> QED
  BY <1>3, <1>4, <1>5, <1>6, <1>7, <1>8

(* What main() and the tests do between the loops keeps the invariant.     *)
LEMMA CallerKeeps ==
  ASSUME RegistryInv, Options \/ Validate \/ Request \/ Use
  PROVE  RegistryInv'
<1> USE DEF RegistryInv, registry, Enter
<1>1. CASE Options
  <2>1. caller = "main"
    BY <1>1, CallersAssumption DEF Options, CallerInv, TypeOK
  <2> QED
    BY <1>1, <2>1, EnterKeeps DEF Options, Callbacks, TypeOK, Results
<1>2. CASE Validate
  <2>1. caller = "main"
    BY <1>2, CallersAssumption DEF Validate, CallerInv, TypeOK
  <2> QED
    BY <1>2, <2>1, EnterKeeps DEF Validate, Callbacks, TypeOK, Results
<1>3. CASE Request
  <2>1. caller = "main"
    BY <1>3, CallersAssumption DEF Request, CallerInv, TypeOK
  <2>2. AllInitialised
    BY <1>3, <2>1 DEF Request, CallsInv
  <2> QED
    BY <1>3, <2>1, <2>2, EnterKeeps
    DEF Request, Callbacks, TypeOK, Results
<1>4. CASE Use
  <2>1. caller = "tests"
    BY <1>4, CallersAssumption DEF Use, CallerInv, TypeOK
  <2> QED
    BY <1>4, <2>1, EnterKeeps DEF Use, Callbacks, TypeOK, Results
<1> QED
  BY <1>1, <1>2, <1>3, <1>4

-----------------------------------------------------------------------------
(* The steps of the loops.                                                 *)

(* The counter of a loop and the numbers it may have.                      *)
LEMMA CounterIsNat ==
  ASSUME TypeOK
  PROVE  /\ module_count \in Nat /\ index \in Nat \ {0}
         /\ index <= module_count + 1 /\ Len(modules) \in Nat
         /\ \A i \in 1 .. Len(modules) : modules[i] \in Modules \cup {"garbage"}
<1>1. module_count \in Nat
  BY FS_CardinalityType, ModulesAssumption DEF TypeOK
<1> QED
  BY <1>1, ElementOfSeq, LenProperties DEF TypeOK

(* A loop that reads past the array leaves the calls as they were.         *)
LEMMA CrashKeeps ==
  ASSUME RegistryInv, Crash
  PROVE  RegistryInv'
<1> USE DEF RegistryInv, registry
<1>1. /\ phase \in Callbacks /\ phase' = "crashed"
      /\ caller' = caller /\ callbacks' = callbacks /\ offered' = offered
      /\ modules' = modules /\ module_count' = module_count
      /\ enabled' = enabled /\ index' = index /\ err' = err
      /\ main_err' = main_err /\ calls' = calls
  BY DEF Crash, Looping, Stops
<1>2. TypeOK'
  BY <1>1 DEF TypeOK
<1>3. PlacesInv'
  BY <1>1 DEF PlacesInv, Readable
<1>4. CallerInv' /\ LoopInv'
  BY <1>1 DEF CallerInv, LoopInv, Callbacks
<1>5. CallsInv'
  <2>1. \A o \in Callbacks, m \in Modules : Called(o, m)' <=> Called(o, m)
    BY <1>1 DEF Called
  <2>2. Registered' = Registered
    BY <1>1 DEF Registered
  <2>3. /\ \A o \in Callbacks, m \in Modules :
             Called(o, m)' => o \in callbacks'[m]
        /\ \A m \in Modules :
             <<"init", m, "UL_OK">> \in calls' => m \in Registered'
    BY <1>1, <2>1, <2>2 DEF CallsInv, Callbacks
  <2>4. caller' = "main" /\ (\E m \in Modules : Called("success", m)') =>
          AllInitialised'
    <3>1. AllInitialised' <=> AllInitialised
      BY <1>1, <2>2 DEF AllInitialised
    <3>2. \A m \in Modules : Called("success", m)' <=> Called("success", m)
      BY <2>1 DEF Callbacks
    <3> QED
      BY <1>1, <3>1, <3>2 DEF CallsInv
  <2> QED
    BY <1>1, <2>3, <2>4 DEF CallsInv
<1>6. InitialisedAreCleaned'
  BY <1>1 DEF InitialisedAreCleaned
<1> QED
  BY <1>2, <1>3, <1>4, <1>5, <1>6

(* A loop that passes a module leaves nothing behind that it should tell.  *)
LEMMA PassKeeps ==
  ASSUME RegistryInv, Pass
  PROVE  RegistryInv'
<1> USE DEF RegistryInv, registry
<1>1. /\ phase \in Callbacks /\ phase' = phase
      /\ err = "UL_OK" /\ index <= module_count /\ index' = index + 1
      /\ Readable(index) /\ ~Listens(phase, modules[index])
      /\ caller' = caller /\ callbacks' = callbacks /\ offered' = offered
      /\ modules' = modules /\ module_count' = module_count
      /\ enabled' = enabled /\ err' = err
      /\ main_err' = main_err /\ calls' = calls
  BY DEF Pass, Looping, Stops
<1>2. module_count \in Nat /\ index \in Nat \ {0} /\ Len(modules) \in Nat
  BY CounterIsNat
<1>3. TypeOK'
  <2>1. index' \in 1 .. module_count' + 1
    BY <1>1, <1>2
  <2> QED
    BY <1>1, <2>1 DEF TypeOK
<1>4. PlacesInv'
  BY <1>1 DEF PlacesInv, Readable
<1>5. CallerInv'
  BY <1>1 DEF CallerInv, Callbacks
<1>6. LoopInv'
  <2>1. ASSUME NEW i \in 1 .. index' - 1
        PROVE  /\ Readable(i)
               /\ Listens(phase, modules[i]) =>
                    <<phase, modules[i], "UL_OK">> \in calls
    <3>1. i \in 1 .. index - 1 \/ i = index
      BY <1>1, <1>2
    <3> QED
      BY <1>1, <3>1 DEF LoopInv
  <2> QED
    BY <1>1, <2>1 DEF LoopInv, Readable, Listens
<1>7. CallsInv'
  <2>1. \A i \in 1 .. Len(modules) : i < index => i < index + 1
    BY <1>2
  <2> QED
    BY <1>1, <2>1 DEF CallsInv, Called, AllInitialised, Registered, Callbacks
<1>8. InitialisedAreCleaned'
  BY <1>1 DEF InitialisedAreCleaned, Callbacks
<1> QED
  BY <1>3, <1>4, <1>5, <1>6, <1>7, <1>8

(* A callback is called, returns r, and is remembered.                     *)
LEMMA CallKeeps ==
  ASSUME RegistryInv, Call
  PROVE  RegistryInv'
<1> USE DEF RegistryInv, registry
<1>1. PICK r \in Results :
        /\ err' = r /\ index' = Advance(r)
        /\ calls' = calls \cup {<<phase, modules[index], r>>}
  BY DEF Call, Outcomes, Results
<1>2. /\ phase \in Callbacks /\ phase' = phase
      /\ err = "UL_OK" /\ index <= module_count
      /\ Readable(index) /\ Listens(phase, modules[index])
      /\ caller' = caller /\ callbacks' = callbacks /\ offered' = offered
      /\ modules' = modules /\ module_count' = module_count
      /\ main_err' = main_err
      /\ phase # "parse_config" => enabled' = enabled
  BY DEF Call, Looping, Stops
<1>3. module_count \in Nat /\ index \in Nat \ {0} /\ Len(modules) \in Nat
  BY CounterIsNat
<1>4. index \in 1 .. Len(modules) /\ modules[index] \in Modules
  BY <1>2 DEF Readable
<1>5. \/ r = "UL_OK" /\ index' = index + 1
      \/ r = "UL_ERR" /\ index' = index
  BY <1>1 DEF Advance, Stops, Results
<1>6. TypeOK'
  <2>1. index' \in 1 .. module_count' + 1
    BY <1>2, <1>3, <1>5
  <2>2. enabled' \subseteq Modules
    BY <1>4 DEF Call, TypeOK
  <2>3. calls' \subseteq Callbacks \X Modules \X Results
    BY <1>1, <1>2, <1>4 DEF TypeOK
  <2> QED
    BY <1>1, <1>2, <2>1, <2>2, <2>3 DEF TypeOK
<1>7. PlacesInv'
  BY <1>2 DEF PlacesInv, Readable
<1>8. CallerInv'
  BY <1>2 DEF CallerInv, Callbacks
<1>9. \A o \in Callbacks, m \in Modules, e \in Results :
        <<o, m, e>> \in calls' <=>
          \/ <<o, m, e>> \in calls
          \/ o = phase /\ m = modules[index] /\ e = r
  BY <1>1
<1>10. \A m \in Modules : Listens(phase, m)' <=> Listens(phase, m)
  BY <1>2 DEF Listens
<1>11. LoopInv'
  <2>1. ASSUME NEW i \in 1 .. index' - 1
        PROVE  /\ Readable(i)
               /\ Listens(phase, modules[i]) =>
                    <<phase, modules[i], "UL_OK">> \in calls'
    <3>1. i \in 1 .. index - 1 \/ (i = index /\ r = "UL_OK")
      BY <1>3, <1>5
    <3> QED
      BY <1>1, <1>2, <3>1 DEF LoopInv
  <2>2. err' # "UL_OK" => <<phase, modules[index'], err'>> \in calls'
    BY <1>1, <1>5
  <2> QED
    BY <1>1, <1>2, <1>5, <1>10, <2>1, <2>2 DEF LoopInv, Readable
<1>12. CallsInv'
  <2>1. \A o \in Callbacks, m \in Modules :
          Called(o, m)' => \/ Called(o, m)
                           \/ o = phase /\ m = modules[index]
    BY <1>9 DEF Called
  <2>2. \A o \in Callbacks, m \in Modules :
          Called(o, m)' => o \in callbacks'[m]
    BY <1>2, <2>1 DEF CallsInv, Listens
  <2>3. ASSUME NEW m \in Modules, Called("cleanup", m)'
        PROVE  /\ phase' = "cleanup"
               /\ \E i \in 1 .. Len(modules') :
                    /\ modules'[i] = m
                    /\ i < index' \/ (i = index' /\ err' # "UL_OK")
    <3>1. CASE Called("cleanup", m)
      <4>1. /\ phase = "cleanup"
            /\ \E i \in 1 .. Len(modules) : modules[i] = m /\ i < index
        BY <1>2, <3>1 DEF CallsInv, Callbacks
      <4>2. \A i \in 1 .. Len(modules) : i < index => i < index'
        BY <1>3, <1>5
      <4> QED
        BY <1>2, <4>1, <4>2
    <3>2. CASE phase = "cleanup" /\ m = modules[index]
      <4>1. index < index' \/ (index = index' /\ err' # "UL_OK")
        BY <1>1, <1>3, <1>5
      <4> QED
        BY <1>2, <1>4, <3>2, <4>1
    <3> QED
      BY <2>1, <2>3, <3>1, <3>2 DEF Callbacks
  <2>4. AllInitialised => AllInitialised'
    BY <1>1, <1>2 DEF AllInitialised, Registered
  <2>5. caller = "main" /\ (\E m \in Modules : Called("success", m)') =>
          AllInitialised
    BY <1>2, <2>1 DEF CallsInv, Callbacks
  <2>6. ASSUME NEW m \in Modules, <<"init", m, "UL_OK">> \in calls'
        PROVE  m \in Registered'
    <3>1. modules[index] \in Registered
      BY <1>4 DEF Registered
    <3> QED
      BY <1>2, <1>9, <2>6, <3>1
      DEF CallsInv, Registered, Callbacks, Results
  <2> QED
    BY <1>2, <2>2, <2>3, <2>4, <2>5, <2>6 DEF CallsInv
<1>13. InitialisedAreCleaned'
  BY <1>2 DEF InitialisedAreCleaned, Callbacks
<1> QED
  BY <1>6, <1>7, <1>8, <1>11, <1>12, <1>13

(* A loop that ends without an error has been at every module.             *)
LEMMA LoopComplete ==
  ASSUME RegistryInv, phase \in Callbacks, err = "UL_OK",
         index > module_count
  PROVE  \A m \in Registered :
           Listens(phase, m) => <<phase, m, "UL_OK">> \in calls
<1> SUFFICES ASSUME NEW i \in 1 .. Len(modules), Listens(phase, modules[i])
             PROVE  <<phase, modules[i], "UL_OK">> \in calls
  BY DEF Registered
<1>1. Len(modules) <= module_count
  BY CounterIsNat DEF RegistryInv, TypeOK
<1>2. i \in 1 .. index - 1
  BY <1>1, CounterIsNat DEF RegistryInv
<1> QED
  BY <1>2 DEF RegistryInv, LoopInv

(* The loops other than cleanup_modules() end.                             *)
LEMMA ReturnKeeps ==
  ASSUME RegistryInv, Return, phase # "cleanup"
  PROVE  RegistryInv'
<1> USE DEF RegistryInv
<1>1. /\ phase \in Callbacks
      /\ err # "UL_OK" \/ index > module_count
      /\ phase' = Afterwards(phase, err) /\ index' = 1
      /\ err' = IF phase' = "validate" THEN err ELSE "UL_OK"
      /\ main_err' = IF phase \in {"init", "success"} THEN err ELSE main_err
      /\ caller' = caller /\ callbacks' = callbacks /\ offered' = offered
      /\ modules' = modules /\ module_count' = module_count
      /\ enabled' = enabled /\ calls' = calls
  BY DEF Return, Stops, registry
<1>2. /\ phase' \in {"validate", "request", "cleanup"}
      /\ phase \in {"success", "failure"} => phase' = "cleanup"
      /\ phase' = "request" => phase = "init" /\ err = "UL_OK"
  BY <1>1 DEF Afterwards, Callbacks
<1>3. caller = "tests" => phase' = "cleanup"
  BY <1>1, <1>2 DEF CallerInv, Callbacks
<1>4. phase' = "request" => AllInitialised
  <2>1. SUFFICES ASSUME phase' = "request" PROVE AllInitialised
    OBVIOUS
  <2>2. phase = "init" /\ err = "UL_OK" /\ index > module_count
    BY <1>1, <1>2, <2>1
  <2>3. \A m \in Registered :
          Listens("init", m) => <<"init", m, "UL_OK">> \in calls
    BY <1>1, <2>2, LoopComplete
  <2> QED
    BY <2>3 DEF AllInitialised, Listens
<1>5. /\ enabled' \in SUBSET Modules
      /\ main_err' \in Results \cup {"UL_DENIED"} /\ err' \in Results
  BY <1>1 DEF TypeOK, Results
<1>6. phase \notin {"register", "cleanup", "exit", "crashed"}
  BY <1>1 DEF Callbacks
<1>7. /\ phase' \in Callbacks => err' = "UL_OK"
      /\ phase' \in (Callbacks \ {"failure"}) \cup {"validate", "request"}
      /\ phase' \notin {"success"}
  BY <1>1, <1>2 DEF Callbacks
<1> QED
  BY <1>1, <1>3, <1>4, <1>5, <1>6, <1>7, EnterKeeps

(* cleanup_modules() ends, in main() or in a test.                         *)
LEMMA CleanupReturnKeeps ==
  ASSUME RegistryInv, Return, phase = "cleanup"
  PROVE  RegistryInv'
<1> USE DEF RegistryInv
<1>1. /\ err # "UL_OK" \/ index > module_count
      /\ IF err = "UL_OK" THEN modules' = <<>> /\ module_count' = 0
         ELSE modules' = modules /\ module_count' = module_count
      /\ IF caller = "tests"
         THEN phase' = "register" /\ offered' \in SUBSET Modules
         ELSE phase' = "exit" /\ offered' = offered
      /\ index' = 1 /\ err' = "UL_OK" /\ main_err' = main_err
      /\ caller' = caller /\ callbacks' = callbacks
      /\ enabled' = enabled /\ calls' = calls
  BY DEF Return, Stops, registry, Enter, Afterwards
<1>2. caller \in {"main", "tests"} /\ "cleanup" \in Callbacks
  BY CallersAssumption DEF TypeOK, Callbacks
<1>3. caller = "tests" => err = "UL_OK"
  BY <1>2 DEF CallerInv, LoopInv, Listens, Readable
<1>4. /\ modules' \in Seq(Modules \cup {"garbage"})
      /\ Len(modules') \in {0, module_count'}
      /\ modules' # <<>> => modules'[Len(modules')] # "garbage"
      /\ modules' # <<>> => modules' = modules
  BY <1>1, EmptySeq DEF TypeOK
<1>5. module_count' \in 0 .. Cardinality(Modules)
  <2>1. 0 \in 0 .. Cardinality(Modules)
    BY FS_CardinalityType, ModulesAssumption
  <2> QED
    BY <1>1, <2>1 DEF TypeOK
<1>6. TypeOK'
  <2>1. 1 \in 1 .. 0 + 1 /\ \A n \in Nat : 1 \in 1 .. n + 1
    OBVIOUS
  <2>2. index' \in 1 .. module_count' + 1
    BY <1>1, <2>1, CounterIsNat
  <2>3. /\ phase' \in {"register", "exit"} /\ err' \in Results
        /\ offered' \subseteq Modules
    BY <1>1 DEF TypeOK, Results
  <2>4. /\ caller' \in Callers /\ callbacks' \in [Modules -> SUBSET Callbacks]
        /\ enabled' \subseteq Modules
        /\ main_err' \in Results \cup {"UL_DENIED"}
        /\ calls' \subseteq Callbacks \X Modules \X Results
    BY <1>1 DEF TypeOK
  <2> QED
    BY <1>4, <1>5, <2>2, <2>3, <2>4 DEF TypeOK
<1>7. PlacesInv'
  <2>1. CASE err = "UL_OK"
    <3>1. offered' \in SUBSET Modules
      BY <1>1 DEF TypeOK
    <3>2. /\ Cardinality(offered') \in Nat
          /\ Cardinality(offered') <= Cardinality(Modules)
          /\ 0 + Cardinality(offered') = Cardinality(offered')
      <4>1. \A S \in SUBSET Modules :
              /\ Cardinality(S) \in Nat
              /\ Cardinality(S) <= Cardinality(Modules)
              /\ 0 + Cardinality(S) = Cardinality(S)
        BY OfferIsFinite
      <4> QED
        BY <3>1, <4>1, Zenon
    <3>3. modules' = <<>> /\ Len(modules') = 0 /\ module_count' = 0
      BY <1>1, <2>1, EmptySeq
    <3> QED
      BY <3>2, <3>3 DEF PlacesInv
  <2>2. CASE err # "UL_OK"
    <3>1. modules' = modules /\ module_count' = module_count
          /\ offered' = offered
      BY <1>1, <1>2, <1>3, <2>2
    <3> QED
      BY <3>1 DEF PlacesInv, Readable
  <2> QED
    BY <2>1, <2>2
<1>8. CallerInv'
  BY <1>1, <1>2 DEF CallerInv
<1>9. LoopInv'
  BY <1>1 DEF LoopInv, Callbacks
<1>10. CallsInv'
  <2>1. \A o \in Callbacks, m \in Modules :
          Called(o, m)' => o \in callbacks'[m]
    BY <1>1 DEF CallsInv, Called
  <2>2. caller = "tests" => \A o \in {"cleanup", "init"}, m \in Modules :
                              ~Called(o, m)
    BY DEF CallsInv, CallerInv, Callbacks
  <2>3. AllInitialised => AllInitialised'
    BY <1>1, <1>4, EmptySeq DEF AllInitialised, Registered
  <2>4. phase' # "exit" =>
          \A m \in Modules : <<"init", m, "UL_OK">> \notin calls'
    BY <1>1, <2>2 DEF Called, Results
  <2> QED
    BY <1>1, <1>2, <2>1, <2>2, <2>3, <2>4 DEF CallsInv, Called
<1>11. InitialisedAreCleaned'
  <2>1. SUFFICES ASSUME caller = "main", NEW m \in Modules,
                        <<"init", m, "UL_OK">> \in calls,
                        "cleanup" \in callbacks[m]
                 PROVE  \/ Called("cleanup", m)
                        \/ \E k \in Modules \ {m} :
                             <<"cleanup", k, "UL_ERR">> \in calls
    BY <1>1, <1>2 DEF InitialisedAreCleaned, Called
  <2>2. CASE err = "UL_OK"
    <3>1. m \in Registered
      BY <2>1 DEF CallsInv
    <3>2. <<"cleanup", m, "UL_OK">> \in calls
      BY <1>1, <1>2, <2>1, <2>2, <3>1, LoopComplete DEF Listens
    <3> QED
      BY <3>2 DEF Called, Results
  <2>3. CASE err # "UL_OK"
    <3>1. /\ err = "UL_ERR" /\ modules[index] \in Modules
          /\ <<"cleanup", modules[index], "UL_ERR">> \in calls
      BY <1>2, <2>3 DEF LoopInv, TypeOK, Results, Readable
    <3> QED
      BY <3>1 DEF Called, Results
  <2> QED
    BY <2>2, <2>3
<1> QED
  BY <1>6, <1>7, <1>8, <1>9, <1>10, <1>11

-----------------------------------------------------------------------------
(* The invariant holds in every state.                                     *)

(* The registry starts with no module, and all of them on offer.           *)
LEMMA InitEstablishes == Init => RegistryInv
<1> SUFFICES ASSUME Init PROVE RegistryInv
  OBVIOUS
<1> USE DEF Init
<1>1. 0 \in 0 .. Cardinality(Modules) /\ 0 + Cardinality(Modules) <= Cardinality(Modules)
  BY FS_CardinalityType, ModulesAssumption
<1>2. TypeOK
  BY <1>1, EmptySeq, ShapesAssumption DEF TypeOK, Results
<1>3. PlacesInv
  BY <1>1, EmptySeq DEF PlacesInv
<1>4. CallerInv /\ LoopInv /\ CallsInv /\ InitialisedAreCleaned
  BY DEF CallerInv, LoopInv, CallsInv, InitialisedAreCleaned, Called, Callbacks
<1> QED
  BY <1>2, <1>3, <1>4 DEF RegistryInv

(* No step of the registry or of its callers breaks the invariant.         *)
LEMMA StepKeeps == RegistryInv /\ [Next]_vars => RegistryInv'
<1> SUFFICES ASSUME RegistryInv, [Next]_vars PROVE RegistryInv'
  OBVIOUS
<1>1. CASE UNCHANGED vars
  <2>1. TypeOK' /\ PlacesInv' /\ CallerInv'
    BY <1>1 DEF RegistryInv, vars, TypeOK, PlacesInv, CallerInv, Readable
  <2>2. LoopInv' /\ InitialisedAreCleaned'
    BY <1>1 DEF RegistryInv, vars, LoopInv, InitialisedAreCleaned, Readable,
       Listens, Called
  <2>3. CallsInv'
    BY <1>1 DEF RegistryInv, vars, CallsInv, AllInitialised, Called, Registered
  <2> QED
    BY <2>1, <2>2, <2>3 DEF RegistryInv
<1>2. ASSUME NEW m \in Modules, Register(m) PROVE RegistryInv'
  BY <1>2, RegisterKeeps
<1>3. CASE Return
  BY <1>3, ReturnKeeps, CleanupReturnKeeps
<1> QED
  BY <1>1, <1>2, <1>3, CallerKeeps, CrashKeeps, PassKeeps, CallKeeps DEF Next

(* The inductive invariant of the registry holds in every reachable state. *)
THEOREM RegistryCorrect == Spec => []RegistryInv
BY InitEstablishes, StepKeeps, PTL DEF Spec

(* The array and the counter of module.c fit each other, whatever failed.  *)
THEOREM RegistryTypeCorrect == Spec => []TypeOK
<1>1. RegistryInv => TypeOK
  BY DEF RegistryInv
<1> QED
  BY <1>1, RegistryCorrect, PTL

(* No loop calls back a module whose cleanup() has been called.            *)
THEOREM NoUseAfterCleanupHolds == Spec => []NoUseAfterCleanup
<1>1. RegistryInv => NoUseAfterCleanup
  <2> SUFFICES ASSUME RegistryInv, NEW m \in Modules,
                      Looping, Readable(index), modules[index] = m,
                      Called("cleanup", m)
               PROVE  FALSE
    BY DEF NoUseAfterCleanup
  <2>1. PICK i \in 1 .. Len(modules) :
          modules[i] = m /\ (i < index \/ (i = index /\ err # "UL_OK"))
    BY DEF RegistryInv, CallsInv, Looping, Stops, Callbacks
  <2>2. i = index
    BY <2>1 DEF RegistryInv, PlacesInv, Readable
  <2> QED
    BY <2>1, <2>2, CounterIsNat DEF Looping, Stops, RegistryInv
<1> QED
  BY <1>1, RegistryCorrect, PTL

(* main() gives no module the key before all of them are initialised.      *)
THEOREM KeyAfterInitHolds == Spec => []KeyAfterInit
<1>1. RegistryInv => KeyAfterInit
  BY DEF RegistryInv, CallsInv, AllInitialised, KeyAfterInit
<1> QED
  BY <1>1, RegistryCorrect, PTL

(* main() leaves no module initialised and not cleaned up, but for the     *)
(* failed cleanup of another.                                              *)
THEOREM InitialisedAreCleanedHolds == Spec => []InitialisedAreCleaned
<1>1. RegistryInv => InitialisedAreCleaned
  BY DEF RegistryInv
<1> QED
  BY <1>1, RegistryCorrect, PTL

=============================================================================
