--------------------------- MODULE ModuleRegistry ---------------------------
(***************************************************************************)
(* The registry of src/src/mod/module.c for modules with any callbacks,    *)
(* enabled or not, under its two users: main(), and the test suite         *)
(* src/tests/mod/check_module.c, the only caller of handle_failure().      *)
(*                                                                         *)
(* While one of the five loops of module.c runs, phase is the member of    *)
(* struct unlocked_module that the loop calls.                             *)
(***************************************************************************)
EXTENDS Integers, Sequences, FiniteSets

CONSTANTS
  Modules,  \* the modules there are
  Shapes,   \* the sets of callbacks a module may have
  Callers,  \* who uses the registry
  Faults    \* which faults occur

Callbacks == {"parse_config", "init", "success", "failure", "cleanup"}
Results == {"UL_OK", "UL_ERR"}
FaultKinds == {"oom",       \* realloc() returns NULL
               "callback"}  \* a callback returns an error

ASSUME ModulesAssumption == IsFiniteSet(Modules) /\ "garbage" \notin Modules
ASSUME ShapesAssumption == Shapes \subseteq SUBSET Callbacks
ASSUME CallersAssumption == Callers \subseteq {"main", "tests"}
ASSUME FaultsAssumption == Faults \subseteq FaultKinds

VARIABLES
  caller,        \* "main" or "tests"
  callbacks,     \* callbacks[m]: the members of m that are not NULL
  offered,       \* the modules the caller has not registered yet
  modules,       \* modules: the registered modules, <<>> for NULL
  module_count,
  enabled,       \* the modules with module->enabled set
  phase,         \* what the caller does, or the loop it has called
  index,         \* the loop counter i, from 1
  err,           \* the local variable err of the loop, then its result
  main_err,      \* the local variable err of main()
  calls          \* the callbacks called since the module was registered

vars == <<caller, callbacks, offered, modules, module_count, enabled, phase,
          index, err, main_err, calls>>
registry == <<modules, module_count>>

(* handle_success() and handle_failure() skip a module that is disabled. *)
Listens(o, m) ==
  /\ o \in callbacks[m]
  /\ o \in {"success", "failure"} => m \in enabled

Readable(i) == i \in 1 .. Len(modules) /\ modules[i] \in Modules

Registered == {modules[i] : i \in 1 .. Len(modules)} \cap Modules

Called(o, m) == \E r \in Results : <<o, m, r>> \in calls

-----------------------------------------------------------------------------
(* Seeded fault: a new array is taken to have no elements before the new.  *)
StartAnew(array, count, m) == Append(array, m)

(* realloc() to one element more.  Of an array that was NULL the elements  *)
(* before the new one are not initialised.                                 *)
Grow(array, count, m) ==
  Append([i \in 1 .. count |-> IF i <= Len(array) THEN array[i] ELSE "garbage"],
         m)

(* The caller goes on with p; a loop starts at the first module. *)
Enter(p) == phase' = p /\ index' = 1 /\ err' = "UL_OK"

(* register_module(): main() and the tests ignore its result.  A failed    *)
(* realloc() has replaced the pointer to the array, the count stays.       *)
Register(m) ==
  /\ phase = "register" /\ m \in offered
  /\ offered' = offered \ {m}
  /\ calls' = {c \in calls : c[2] # m}
  /\ \/ /\ "oom" \in Faults
        /\ modules' = <<>>
        /\ UNCHANGED module_count
     \/ /\ modules' = Grow(modules, module_count, m)
        /\ module_count' = module_count + 1
  /\ IF offered' = {}
     THEN Enter(IF caller = "main" THEN "options" ELSE "use")
     ELSE UNCHANGED <<phase, index, err>>
  /\ UNCHANGED <<caller, callbacks, enabled, main_err>>

(* handle_args(), as far as modules are concerned: options enable some of  *)
(* them, a configuration file is passed to parse_config().                 *)
Options ==
  /\ phase = "options"
  /\ enabled' \in SUBSET Modules
  /\ Enter("parse_config") \/ Enter("validate")
  /\ UNCHANGED <<caller, callbacks, offered, registry, main_err, calls>>

(* validate_args(): after an error of parse_config() nothing was merged    *)
(* and a required argument is missing (RequestIsConfigured of Program).    *)
Validate ==
  /\ phase = "validate"
  /\ \/ err = "UL_OK" /\ Enter("init") /\ UNCHANGED main_err
     \/ main_err' = "UL_ERR" /\ Enter("cleanup")
  /\ UNCHANGED <<caller, callbacks, offered, registry, enabled, calls>>

(* request_key() obtains a key for handle_success(), or fails; UL_DENIED   *)
(* stands for every error of it that is not one of handle_success().       *)
Request ==
  /\ phase = "request"
  /\ \/ Enter("success") /\ UNCHANGED main_err
     \/ Enter("cleanup") /\ main_err' = "UL_DENIED"
  /\ UNCHANGED <<caller, callbacks, offered, registry, enabled, calls>>

(* A test calls one of the two handlers. *)
Use ==
  /\ phase = "use"
  /\ Enter("success") \/ Enter("failure")
  /\ UNCHANGED <<caller, callbacks, offered, registry, enabled, main_err,
                 calls>>

-----------------------------------------------------------------------------
(* The loops.                                                              *)

(* Seeded fault: the loop goes on after an error, which the next module    *)
(* overwrites.                                                             *)
NeverStops(e) == FALSE

(* if (UL_OK != err) return err; *)
Stops(e) == e # "UL_OK"

Looping == phase \in Callbacks /\ ~Stops(err) /\ index <= module_count

Crash ==
  /\ Looping /\ ~Readable(index)
  /\ phase' = "crashed"
  /\ UNCHANGED <<caller, callbacks, offered, registry, enabled, index, err,
                 main_err, calls>>

Pass ==
  /\ Looping /\ Readable(index)
  /\ ~Listens(phase, modules[index])
  /\ index' = index + 1
  /\ UNCHANGED <<caller, callbacks, offered, registry, enabled, phase, err,
                 main_err, calls>>

Outcomes == IF "callback" \in Faults THEN Results ELSE {"UL_OK"}

Advance(r) == IF Stops(r) THEN index ELSE index + 1

(* modules[i]->member(modules[i], ...).  parse_config() of a module may    *)
(* set or reset module->enabled.                                           *)
Call ==
  /\ Looping /\ Readable(index)
  /\ Listens(phase, modules[index])
  /\ \E r \in Outcomes :
       /\ err' = r
       /\ index' = Advance(r)
       /\ calls' = calls \cup {<<phase, modules[index], r>>}
  /\ IF phase = "parse_config"
     THEN enabled' \in {enabled \cup {modules[index]},
                        enabled \ {modules[index]}}
     ELSE UNCHANGED enabled
  /\ UNCHANGED <<caller, callbacks, offered, registry, phase, main_err>>

(* Seeded faults: a failed cleanup is repeated; a failed initialisation is *)
(* ignored, or ends the program at once.                                   *)
CleanupAgain(o, e) ==
  CASE o = "parse_config" -> "validate"
    [] o = "init" /\ e = "UL_OK" -> "request"
    [] o = "cleanup" /\ e = "UL_OK" -> "exit"
    [] OTHER -> "cleanup"
InitIgnored(o, e) ==
  CASE o = "parse_config" -> "validate"
    [] o = "init" -> "request"
    [] o = "cleanup" -> "exit"
    [] OTHER -> "cleanup"
InitLeaves(o, e) ==
  CASE o = "parse_config" -> "validate"
    [] o = "init" -> IF e = "UL_OK" THEN "request" ELSE "exit"
    [] o = "cleanup" -> "exit"
    [] OTHER -> "cleanup"

(* How main() and handle_args() go on when the loop over o returned e.     *)
Afterwards(o, e) ==
  CASE o = "parse_config" -> "validate"
    [] o = "init" /\ e = "UL_OK" -> "request"
    [] o = "cleanup" -> "exit"
    [] OTHER -> "cleanup"

(* The loop is over.  cleanup_modules() forgets the modules unless one of  *)
(* them failed.  parse_config() has its result looked at by validate.      *)
Return ==
  /\ phase \in Callbacks
  /\ Stops(err) \/ index > module_count
  /\ IF phase = "cleanup" /\ err = "UL_OK"
     THEN modules' = <<>> /\ module_count' = 0
     ELSE UNCHANGED registry
  /\ IF phase = "cleanup" /\ caller = "tests"
     THEN Enter("register") /\ offered' \in SUBSET Modules \ {{}}
     ELSE /\ phase' = Afterwards(phase, err) /\ index' = 1
          /\ err' = IF phase' = "validate" THEN err ELSE "UL_OK"
          /\ UNCHANGED offered
  /\ main_err' = IF phase \in {"init", "success"} THEN err ELSE main_err
  /\ UNCHANGED <<caller, callbacks, enabled, calls>>

-----------------------------------------------------------------------------
(* The modules of the tests are enabled and have handlers only. *)
Init ==
  /\ caller \in Callers
  /\ callbacks \in [Modules -> Shapes]
  /\ caller = "tests" =>
       \A m \in Modules : callbacks[m] \subseteq {"success", "failure"}
  /\ offered = Modules
  /\ modules = <<>> /\ module_count = 0
  /\ enabled = IF caller = "tests" THEN Modules ELSE {}
  /\ phase = "register" /\ index = 1 /\ err = "UL_OK"
  /\ main_err = "UL_OK"
  /\ calls = {}

Next ==
  \/ \E m \in Modules : Register(m)
  \/ Options \/ Validate \/ Request \/ Use
  \/ Crash \/ Pass \/ Call \/ Return

Spec == Init /\ [][Next]_vars

-----------------------------------------------------------------------------
(* The type invariant.  An uninitialised element of the array is followed  *)
(* by a module that was registered after the array had been lost.          *)
TypeOK ==
  /\ caller \in Callers
  /\ callbacks \in [Modules -> SUBSET Callbacks]
  /\ offered \subseteq Modules
  /\ modules \in Seq(Modules \cup {"garbage"})
  /\ module_count \in 0 .. Cardinality(Modules)
  /\ Len(modules) \in {0, module_count}
  /\ modules # <<>> => modules[Len(modules)] # "garbage"
  /\ enabled \subseteq Modules
  /\ phase \in Callbacks \cup {"register", "options", "validate", "request",
                               "use", "exit", "crashed"}
  /\ index \in 1 .. module_count + 1
  /\ err \in Results /\ main_err \in Results \cup {"UL_DENIED"}
  /\ calls \subseteq Callbacks \X Modules \X Results

(* The loops of module.c as broadcasts: the places of the modules that     *)
(* listen, and of those the loop has been at.                              *)
Audience ==
  IF phase \in Callbacks
  THEN {i \in 1 .. Len(modules) : Readable(i) /\ Listens(phase, modules[i])}
  ELSE {}

AbstractBroadcast ==
  INSTANCE Broadcast WITH
    Topics <- Callbacks,
    Positions <- 1 .. Cardinality(Modules),
    topic <- CASE phase \in Callbacks -> phase
               [] phase = "crashed" -> "dead"
               [] OTHER -> "none",
    audience <- Audience,
    told <- {i \in Audience : i < index \/ (i = index /\ err # "UL_OK")},
    result <- IF phase \in Callbacks THEN err ELSE "UL_OK"

(* All five loops of module.c are broadcasts: in order, nobody twice,      *)
(* nobody left out before the first error, and nobody told after it, so    *)
(* that it is the result and cannot be overwritten by a later success.     *)
BroadcastSpec == AbstractBroadcast!Spec

(* No callback of a module is called once its cleanup() has been, not even *)
(* cleanup() itself: main() gives up after an error of cleanup_modules(),  *)
(* which leaves modules registered that have released their resources.     *)
NoUseAfterCleanup ==
  \A m \in Modules :
    Looping /\ Readable(index) /\ modules[index] = m /\ Listens(phase, m) =>
      ~Called("cleanup", m)

(* No module of main() is given the key before every registered module has *)
(* been initialised, including those that are not enabled and only check.  *)
KeyAfterInit ==
  caller = "main" /\ (\E m \in Modules : Called("success", m)) =>
    \A m \in Registered :
      "init" \in callbacks[m] => <<"init", m, "UL_OK">> \in calls

(* When main() exits, a module that was initialised has been cleaned up,   *)
(* also if the initialisation of a later one failed; all that excuses a    *)
(* module is the failed cleanup of another.                                *)
InitialisedAreCleaned ==
  phase = "exit" =>
    \A m \in Modules :
      <<"init", m, "UL_OK">> \in calls /\ "cleanup" \in callbacks[m] =>
        \/ Called("cleanup", m)
        \/ \E k \in Modules \ {m} : <<"cleanup", k, "UL_ERR">> \in calls

(* What module.h says of the callback failure: it is called on failure,    *)
(* that is, the enabled modules are told when no key could be received.    *)
FailureIsTold ==
  phase = "exit" /\ main_err = "UL_DENIED" =>
    \A m \in enabled : "failure" \in callbacks[m] => Called("failure", m)

=============================================================================
