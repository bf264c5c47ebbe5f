---------------------------- MODULE ProgramProofs ----------------------------
(***************************************************************************)
(* The safety of main() for any members of struct arguments and any        *)
(* faults: what the sources of the configuration add up to, what becomes   *)
(* of the socket and of the key, and what the standard output holds.       *)
(***************************************************************************)
EXTENDS Program, SequenceTheorems, TLAPS

-----------------------------------------------------------------------------
(* The inductive invariant.                                                *)

ModuleLists == {<<>>, <<"sd_socket">>, <<"stdout">>, Builtin}
ParserLists == ModuleLists \cup {<<"garbage">>}

(* What the registration of the first module may have left.                *)
FirstRegistered ==
  /\ \/ modules = <<>> /\ module_count = 0
        /\ sub_parsers = <<>> /\ sub_count = 0
     \/ modules = <<"sd_socket">> /\ module_count = 1
  /\ \/ sub_inputs = <<>> /\ sub_count = 0
        /\ sub_parsers \in {<<>>, <<"garbage">>}
     \/ sub_inputs = <<"sd_socket">> /\ sub_count = 1
        /\ sub_parsers = <<"sd_socket">>

(* The modules are in the order of their registration.  As long as their   *)
(* array can be read, what was enabled is registered: a lost array ends    *)
(* the program before the key is handed out.                               *)
RegistryInv ==
  /\ modules \in ModuleLists
  /\ sub_parsers \in ParserLists /\ sub_inputs \in ModuleLists
  /\ pc \in {"main", "register"} =>
       \/ /\ index = 1 /\ modules = <<>> /\ module_count = 0
          /\ sub_parsers = <<>> /\ sub_inputs = <<>> /\ sub_count = 0
       \/ pc = "register" /\ index = 2 /\ FirstRegistered
  /\ pc \in {"main", "register"} => enabled = {}
  /\ pc \notin Ended /\ Readable =>
       Options \subseteq Registered /\ enabled \subseteq Registered

(* Until here main() has at most its default arguments.                    *)
BeforeMerge == {"main", "register", "arguments", "file", "merge"}

(* The members as the sources that have been read so far provide them.     *)
LastSource(f) ==
  CASE f \in asked.cli -> "cli"
    [] f \in asked.config \ asked.cli -> "config"
    [] OTHER -> DefaultArguments[f]

ConfigurationInv ==
  /\ pc \in BeforeMerge => handled = "UL_OK"
  /\ pc \in BeforeMerge \ {"main"} => args = DefaultArguments
  /\ pc \in {"main", "register", "arguments", "file"} =>
       asked.config = {} /\ config_args = create_args
  /\ pc \in {"file", "merge"} /\ ~exhausted =>
       cli_args = From("cli", asked.cli, {})
  /\ pc = "merge" => config_args = From("config", asked.config, {})
  /\ pc = "validate" /\ handled # "UL_OK" => args = DefaultArguments
  /\ pc \in {"validate", "init", "request"} =>
       /\ \A f \in NumberFields : args[f] # "NULL"
       /\ ~exhausted /\ handled = "UL_OK" =>
            \A f \in Fields : args[f] = LastSource(f)
  /\ pc \in {"init", "request"} =>
       handled = "UL_OK" /\ \A f \in StringFields : args[f] # "NULL"

(* handle_success() has been at the modules before index, and goes on only *)
(* if each of them that is enabled has written the key out.                *)
DeliveryInv ==
  /\ pc \in PCs \ ({"success", "handled"} \cup Ended) => delivered = {}
  /\ pc \in {"request", "success"} => err = "UL_OK"
  /\ pc = "success" =>
       \A m \in Modules :
         m \in delivered <=>
           /\ m \in enabled
           /\ \E i \in 1 .. Len(modules) : i < index /\ modules[i] = m
  /\ pc = "handled" /\ err = "UL_OK" => delivered = enabled
  /\ pc = "cleanup" => err # "UL_OK"
  /\ "sd_socket" \in delivered => reader = "served"

(* Without --verbose nothing but mod_stdout writes to the standard output, *)
(* and it is called once.                                                  *)
OutputInv ==
  /\ pc \in BeforeMerge => ~is_debug
  /\ ~is_debug =>
       /\ "stdout" \in delivered => out = <<"key">>
       /\ "stdout" \notin delivered => out \in {<<>>, <<"part">>}
       /\ out = <<"part">> =>
            "stdout" \in enabled /\ pc \in {"handled"} \cup Ended

ProgramInv ==
  /\ TypeOK /\ RegistryInv /\ ConfigurationInv /\ SocketMatches
  /\ DeliveryInv /\ OutputInv /\ SuccessIsDelivery

-----------------------------------------------------------------------------
(* Lemmas about the operators of main().                                   *)

(* A list of one element is made longer.                                   *)
LEMMA AppendToOne ==
  ASSUME NEW a, NEW b
  PROVE  Append(<<a>>, b) = <<a, b>>
<1>1. a \in {a, b} /\ b \in {a, b}
  OBVIOUS
<1>2. <<a>> \in Seq({a, b}) /\ Len(<<a>>) = 1 /\ <<a>>[1] = a
  BY <1>1
<1>3. /\ <<a, b>> \in Seq({a, b}) /\ Len(<<a, b>>) = 2
      /\ <<a, b>>[1] = a /\ <<a, b>>[2] = b
  BY <1>1
<1>4. /\ Append(<<a>>, b) \in Seq({a, b})
      /\ Len(Append(<<a>>, b)) = 1 + 1
      /\ Append(<<a>>, b)[1] = a /\ Append(<<a>>, b)[1 + 1] = b
  BY <1>1, <1>2, AppendProperties
<1>5. \A i \in 1 .. 2 : Append(<<a>>, b)[i] = <<a, b>>[i]
  <2>1. \A i \in 1 .. 2 : i = 1 \/ i = 2
    OBVIOUS
  <2>2. 1 + 1 = 2
    OBVIOUS
  <2> QED
    BY <1>3, <1>4, <2>1, <2>2, Zenon
<1>6. /\ Len(Append(<<a>>, b)) = Len(<<a, b>>)
      /\ \A i \in 1 .. Len(Append(<<a>>, b)) :
           Append(<<a>>, b)[i] = <<a, b>>[i]
  <2>1. 1 + 1 = 2
    OBVIOUS
  <2> QED
    BY <1>3, <1>4, <1>5, <2>1, Zenon
<1> QED
  BY <1>3, <1>4, <1>6, SeqEqual, Zenon

(* realloc() to one element, and to two.                                   *)
LEMMA GrowProperties ==
  /\ \A array, a : Grow(array, 0, a) = <<a>>
  /\ \A a, b : Grow(<<a>>, 1, b) = <<a, b>>
  /\ \A b : Grow(<<>>, 1, b) = <<"garbage", b>>
<1>1. ASSUME NEW array, NEW a PROVE Grow(array, 0, a) = <<a>>
  <2>1. [i \in 1 .. 0 |-> IF i <= Len(array) THEN array[i] ELSE "garbage"]
          = <<>>
    OBVIOUS
  <2> QED
    BY <2>1 DEF Grow
<1>2. ASSUME NEW a, NEW b PROVE Grow(<<a>>, 1, b) = <<a, b>>
  <2>1. [i \in 1 .. 1 |-> IF i <= Len(<<a>>) THEN <<a>>[i] ELSE "garbage"]
          = <<a>>
    OBVIOUS
  <2>2. Append(<<a>>, b) = <<a, b>>
    BY AppendToOne
  <2>3. Grow(<<a>>, 1, b) =
          Append([i \in 1 .. 1 |-> IF i <= Len(<<a>>) THEN <<a>>[i]
                                  ELSE "garbage"], b)
    BY DEF Grow
  <2> QED
    BY <2>1, <2>2, <2>3, Zenon
<1>3. ASSUME NEW b PROVE Grow(<<>>, 1, b) = <<"garbage", b>>
  <2>1. [i \in 1 .. 1 |-> IF i <= Len(<<>>) THEN <<>>[i] ELSE "garbage"]
          = <<"garbage">>
    OBVIOUS
  <2>2. Append(<<"garbage">>, b) = <<"garbage", b>>
    BY AppendToOne
  <2>3. Grow(<<>>, 1, b) =
          Append([i \in 1 .. 1 |-> IF i <= Len(<<>>) THEN <<>>[i]
                                  ELSE "garbage"], b)
    BY DEF Grow
  <2> QED
    BY <2>1, <2>2, <2>3, Zenon
<1> QED
  BY <1>1, <1>2, <1>3

(* The elements of the lists that registration can leave.                  *)
LEMMA Elements ==
  ASSUME NEW list
  PROVE  /\ list = <<>> =>
              {list[i] : i \in 1 .. Len(list)} = {} /\ Len(list) = 0
         /\ \A a : list = <<a>> =>
              {list[i] : i \in 1 .. Len(list)} = {a} /\ Len(list) = 1
         /\ \A a, b : list = <<a, b>> =>
              {list[i] : i \in 1 .. Len(list)} = {a, b} /\ Len(list) = 2
<1>1. ASSUME list = <<>>
      PROVE  {list[i] : i \in 1 .. Len(list)} = {} /\ Len(list) = 0
  BY <1>1
<1>2. ASSUME NEW a, list = <<a>>
      PROVE  {list[i] : i \in 1 .. Len(list)} = {a} /\ Len(list) = 1
  BY <1>2
<1>3. ASSUME NEW a, NEW b, list = <<a, b>>
      PROVE  {list[i] : i \in 1 .. Len(list)} = {a, b} /\ Len(list) = 2
  BY <1>3
<1> QED
  BY <1>1, <1>2, <1>3

(* The lists are sequences, and a module is in them once.                  *)
LEMMA ListsAreSequences ==
  /\ ModuleLists \subseteq Seq(Modules)
  /\ ParserLists \subseteq Seq(Modules \cup {"garbage"})
  /\ \A list \in ModuleLists : \A i, j \in 1 .. Len(list) :
       list[i] = list[j] => i = j
<1>1. \A list \in ModuleLists :
        \/ list = <<>>
        \/ list = <<"sd_socket">> \/ list = <<"stdout">>
        \/ list = <<"sd_socket", "stdout">>
  BY DEF ModuleLists, Builtin
<1>2. ModuleLists \subseteq Seq(Modules)
  <2>1. <<>> \in Seq(Modules)
    OBVIOUS
  <2>2. <<"sd_socket">> \in Seq(Modules)
    BY DEF Modules
  <2>3. <<"stdout">> \in Seq(Modules)
    BY DEF Modules
  <2>4. <<"sd_socket", "stdout">> \in Seq(Modules)
    BY DEF Modules
  <2> QED
    BY <1>1, <2>1, <2>2, <2>3, <2>4, Zenon
<1>3. ParserLists \subseteq Seq(Modules \cup {"garbage"})
  <2>1. Seq(Modules) \subseteq Seq(Modules \cup {"garbage"})
    BY SeqMonotonic
  <2>2. <<"garbage">> \in Seq(Modules \cup {"garbage"})
    OBVIOUS
  <2> QED
    BY <1>2, <2>1, <2>2 DEF ParserLists
<1>4. ASSUME NEW list \in ModuleLists, NEW i \in 1 .. Len(list),
             NEW j \in 1 .. Len(list), list[i] = list[j]
      PROVE  i = j
  BY <1>1, <1>4
<1> QED
  BY <1>2, <1>3, <1>4

(* A message leaves the standard output alone unless --verbose is given.   *)
LEMMA LoggedProperties ==
  ASSUME NEW level \in {"debug", "warning", "error"},
         out \in Seq({"debug", "key", "part"})
  PROVE  /\ Logged(level) \in Seq({"debug", "key", "part"})
         /\ ~is_debug => Logged(level) = out
<1>1. Emit(out, "debug") \in Seq({"debug", "key", "part"})
  BY AppendProperties DEF Emit
<1>2. Stream(level) = "stdout" => level = "debug" /\ is_debug
  BY DEF Stream
<1> QED
  BY <1>1, <1>2 DEF Logged

(* What is written to the standard output comes last.                      *)
LEMMA EmitProperties ==
  ASSUME NEW text \in Seq({"debug", "key", "part"}), NEW x \in {"key", "part"}
  PROVE  /\ Emit(text, x) \in Seq({"debug", "key", "part"})
         /\ text = <<>> => Emit(text, x) = <<x>>
<1>1. x \in {"debug", "key", "part"}
  OBVIOUS
<1>2. Append(text, x) \in Seq({"debug", "key", "part"})
  BY <1>1, AppendProperties
<1>3. Append(<<>>, x) = <<x>>
  OBVIOUS
<1> QED
  BY <1>2, <1>3 DEF Emit

(* The members a source provides.                                          *)
LEMMA FromProperties ==
  ASSUME NEW origin \in Origins, NEW provided \in SUBSET Fields, NEW lost
  PROVE  /\ From(origin, provided, lost) \in Arguments
         /\ \A f \in Fields : From(origin, provided, lost)[f] =
              IF f \in provided \ lost THEN origin ELSE "NULL"
BY DEF From, Arguments, Origins

(* merge_config() lets the new source win, keeps what it does not have,    *)
(* and loses no member that is a number.                                   *)
LEMMA MergeProperties ==
  ASSUME NEW base \in Arguments, NEW new \in Arguments, NEW lost
  PROVE  /\ merge_config(base, new, lost) \in Arguments
         /\ \A f \in Fields :
              /\ lost = {} => merge_config(base, new, lost)[f] =
                   IF new[f] = "NULL" THEN base[f] ELSE new[f]
              /\ f \in NumberFields /\ base[f] # "NULL" =>
                   merge_config(base, new, lost)[f] # "NULL"
<1>1. \A f \in Fields : merge_config(base, new, lost)[f] =
        IF new[f] = "NULL" THEN base[f]
        ELSE IF f \in lost \cap StringFields THEN "NULL" ELSE new[f]
  BY DEF merge_config
<1>2. merge_config(base, new, lost) \in Arguments
  BY DEF merge_config, Arguments, Origins
<1> QED
  BY <1>1, <1>2, FieldsAssumption

(* What create_args() and main() start from.                               *)
LEMMA StartingArguments ==
  /\ create_args \in Arguments /\ DefaultArguments \in Arguments
  /\ \A f \in Fields : create_args[f] = "NULL"
  /\ \A f \in Fields :
       DefaultArguments[f] = IF f \in NumberFields THEN "default" ELSE "NULL"
  /\ create_args = From("config", {}, {})
<1>1. /\ create_args \in Arguments /\ \A f \in Fields : create_args[f] = "NULL"
      /\ create_args = From("config", {}, {})
  BY DEF create_args, Arguments, Origins, From
<1>2. /\ DefaultArguments \in Arguments
      /\ \A f \in Fields :
           DefaultArguments[f] = IF f \in NumberFields THEN "default" ELSE "NULL"
  BY DEF DefaultArguments, From, Arguments, Origins
<1> QED
  BY <1>1, <1>2

-----------------------------------------------------------------------------
(* Registration.                                                           *)

(* The elements of the lists, and what an array that can be read holds.    *)
LEMMA ListElements ==
  /\ modules = <<>> => Registered = {} /\ Len(modules) = 0
  /\ \A a : modules = <<a>> => Registered = {a} /\ Len(modules) = 1
  /\ \A a, b : modules = <<a, b>> => Registered = {a, b} /\ Len(modules) = 2
  /\ sub_parsers = <<>> => Options = {}
  /\ \A a : sub_parsers = <<a>> => Options = {a} \cap Modules
  /\ \A a, b : sub_parsers = <<a, b>> => Options = {a, b} \cap Modules
<1>1. /\ modules = <<>> =>
           {modules[i] : i \in 1 .. Len(modules)} = {} /\ Len(modules) = 0
      /\ \A a : modules = <<a>> =>
           {modules[i] : i \in 1 .. Len(modules)} = {a} /\ Len(modules) = 1
      /\ \A a, b : modules = <<a, b>> =>
           {modules[i] : i \in 1 .. Len(modules)} = {a, b} /\ Len(modules) = 2
  BY Elements
<1>2. /\ sub_parsers = <<>> =>
           {sub_parsers[i] : i \in 1 .. Len(sub_parsers)} = {}
      /\ \A a : sub_parsers = <<a>> =>
           {sub_parsers[i] : i \in 1 .. Len(sub_parsers)} = {a}
      /\ \A a, b : sub_parsers = <<a, b>> =>
           {sub_parsers[i] : i \in 1 .. Len(sub_parsers)} = {a, b}
  BY Elements
<1>3. /\ Registered = {modules[i] : i \in 1 .. Len(modules)}
      /\ Options = {sub_parsers[i] : i \in 1 .. Len(sub_parsers)} \cap Modules
  BY DEF Registered, Options
<1> QED
  BY <1>1, <1>2, <1>3

(* The same after a step.                                                  *)
LEMMA ListElementsNext ==
  /\ modules' = <<>> => Registered' = {} /\ Len(modules') = 0
  /\ \A a : modules' = <<a>> => Registered' = {a} /\ Len(modules') = 1
  /\ \A a, b : modules' = <<a, b>> => Registered' = {a, b} /\ Len(modules') = 2
  /\ sub_parsers' = <<>> => Options' = {}
  /\ \A a : sub_parsers' = <<a>> => Options' = {a} \cap Modules
  /\ \A a, b : sub_parsers' = <<a, b>> => Options' = {a, b} \cap Modules
<1>1. /\ modules' = <<>> =>
           {modules'[i] : i \in 1 .. Len(modules')} = {} /\ Len(modules') = 0
      /\ \A a : modules' = <<a>> =>
           {modules'[i] : i \in 1 .. Len(modules')} = {a} /\ Len(modules') = 1
      /\ \A a, b : modules' = <<a, b>> =>
           {modules'[i] : i \in 1 .. Len(modules')} = {a, b} /\ Len(modules') = 2
  BY Elements
<1>2. /\ sub_parsers' = <<>> =>
           {sub_parsers'[i] : i \in 1 .. Len(sub_parsers')} = {}
      /\ \A a : sub_parsers' = <<a>> =>
           {sub_parsers'[i] : i \in 1 .. Len(sub_parsers')} = {a}
      /\ \A a, b : sub_parsers' = <<a, b>> =>
           {sub_parsers'[i] : i \in 1 .. Len(sub_parsers')} = {a, b}
  BY Elements
<1>3. /\ Registered' = {modules'[i] : i \in 1 .. Len(modules')}
      /\ Options' = {sub_parsers'[i] : i \in 1 .. Len(sub_parsers')} \cap Modules
  BY DEF Registered, Options
<1> QED
  BY <1>1, <1>2, <1>3

(* What becomes of the array of modules and of their counter.              *)
LEMMA RegisterModules ==
  ASSUME ProgramInv, Register
  PROVE  \/ /\ modules' = <<>> /\ module_count' = module_count
            /\ NextModule
            /\ UNCHANGED <<sub_parsers, sub_inputs, sub_count>>
         \/ /\ modules' = Grow(modules, module_count, Builtin[index])
            /\ module_count' = module_count + 1
            /\ pc' = "crashed" /\ index' = index
            /\ UNCHANGED <<sub_parsers, sub_inputs, sub_count>>
         \/ /\ modules' = Grow(modules, module_count, Builtin[index])
            /\ module_count' = module_count + 1
            /\ NextModule
            /\ \E failed : RegisterChildParser(Builtin[index], failed)
BY DEF Register

(* The first module.                                                       *)
LEMMA RegisterFirst ==
  ASSUME ProgramInv, Register, index = 1
  PROVE  /\ \/ pc' = "crashed" /\ index' = 1 /\ modules' = <<"sd_socket">>
               /\ sub_parsers' = <<>> /\ sub_inputs' = <<>> /\ sub_count' = 0
            \/ pc' = "register" /\ index' = 2 /\ FirstRegistered'
         /\ module_count' \in {0, 1} /\ sub_count' \in {0, 1}
<1>1. /\ modules = <<>> /\ module_count = 0
      /\ sub_parsers = <<>> /\ sub_inputs = <<>> /\ sub_count = 0
      /\ pc = "register"
  BY DEF ProgramInv, RegistryInv, Register
<1>2. Builtin[index] = "sd_socket" /\ (NextModule => pc' = pc /\ index' = 2)
  BY DEF Builtin, NextModule
<1>3. \A m : Grow(modules, module_count, m) = <<m>>
             /\ Grow(sub_parsers, sub_count, m) = <<m>>
             /\ Grow(sub_inputs, sub_count, m) = <<m>>
  BY <1>1, GrowProperties
<1>4. CASE /\ modules' = <<>> /\ module_count' = module_count
           /\ NextModule
           /\ UNCHANGED <<sub_parsers, sub_inputs, sub_count>>
  BY <1>1, <1>2, <1>4 DEF FirstRegistered
<1>5. CASE /\ modules' = Grow(modules, module_count, Builtin[index])
           /\ module_count' = module_count + 1
           /\ pc' = "crashed" /\ index' = index
           /\ UNCHANGED <<sub_parsers, sub_inputs, sub_count>>
  BY <1>1, <1>2, <1>3, <1>5
<1>6. CASE /\ modules' = Grow(modules, module_count, Builtin[index])
           /\ module_count' = module_count + 1
           /\ NextModule
           /\ \E failed : RegisterChildParser(Builtin[index], failed)
  <2>1. /\ modules' = <<"sd_socket">> /\ module_count' = 1
        /\ pc' = "register" /\ index' = 2
    BY <1>1, <1>2, <1>3, <1>6
  <2>2. PICK failed : RegisterChildParser("sd_socket", failed)
    BY <1>2, <1>6
  <2>3. \/ /\ sub_parsers' = <<"sd_socket">> /\ sub_inputs' = <<"sd_socket">>
           /\ sub_count' = 1
        \/ sub_parsers' = <<>> /\ sub_inputs' = <<>> /\ sub_count' = 0
        \/ sub_parsers' = <<"garbage">> /\ sub_inputs' = <<>> /\ sub_count' = 0
    BY <1>1, <1>3, <2>2 DEF RegisterChildParser
  <2> QED
    BY <2>1, <2>3 DEF FirstRegistered
<1> QED
  BY <1>4, <1>5, <1>6, RegisterModules

(* The second and last module.                                             *)
LEMMA RegisterSecond ==
  ASSUME ProgramInv, Register, index = 2
  PROVE  /\ \/ pc' = "crashed" /\ index' = 2
            \/ pc' = "arguments" /\ index' = 1
         /\ modules' \in ModuleLists
         /\ sub_parsers' \in ParserLists /\ sub_inputs' \in ModuleLists
         /\ pc' = "arguments" /\ Len(modules') = module_count' =>
              Options' \subseteq Registered'
         /\ module_count' \in 0 .. 2 /\ sub_count' \in 0 .. 2
<1>1. FirstRegistered
  BY DEF ProgramInv, RegistryInv, Register
<1>2. /\ Builtin[index] = "stdout"
      /\ NextModule => pc' = "arguments" /\ index' = 1
  BY DEF Builtin, NextModule, Goto
<1>3. /\ Grow(modules, module_count, "stdout") =
           IF modules = <<>> THEN <<"stdout">> ELSE <<"sd_socket", "stdout">>
      /\ module_count + 1 = IF modules = <<>> THEN 1 ELSE 2
      /\ module_count \in {0, 1}
  BY <1>1, GrowProperties DEF FirstRegistered
<1>4. /\ Grow(sub_inputs, sub_count, "stdout") \in
           {<<"stdout">>, <<"sd_socket", "stdout">>}
      /\ Grow(sub_parsers, sub_count, "stdout") =
           IF sub_count = 0 THEN <<"stdout">> ELSE <<"sd_socket", "stdout">>
      /\ sub_count + 1 \in {1, 2} /\ sub_count \in {0, 1}
      /\ sub_count = 1 => modules = <<"sd_socket">>
  BY <1>1, GrowProperties DEF FirstRegistered
<1>5. \A n \in {0, 1, 2} : n \in 0 .. 2
  OBVIOUS
<1>6. /\ <<>> \in ModuleLists /\ <<"sd_socket">> \in ModuleLists
      /\ <<"stdout">> \in ModuleLists
      /\ <<"sd_socket", "stdout">> \in ModuleLists
      /\ ModuleLists \subseteq ParserLists /\ <<"garbage">> \in ParserLists
  BY DEF ModuleLists, ParserLists, Builtin
<1>7. /\ "garbage" \notin Modules
      /\ "sd_socket" \in Modules /\ "stdout" \in Modules
  BY DEF Modules
<1>8. CASE /\ modules' = <<>> /\ module_count' = module_count
           /\ NextModule
           /\ UNCHANGED <<sub_parsers, sub_inputs, sub_count>>
  <2>1. \/ modules = <<>> /\ sub_parsers = <<>>
        \/ module_count' = 1
    BY <1>1, <1>8 DEF FirstRegistered
  <2>2. Len(modules') = 0
    BY <1>8, ListElementsNext
  <2>3. Len(modules') = module_count' => Options' = {}
    BY <1>8, <2>1, <2>2, ListElementsNext
  <2> QED
    BY <1>1, <1>2, <1>3, <1>4, <1>5, <1>6, <1>8, <2>3 DEF FirstRegistered
<1>9. CASE /\ modules' = Grow(modules, module_count, Builtin[index])
           /\ module_count' = module_count + 1
           /\ pc' = "crashed" /\ index' = index
           /\ UNCHANGED <<sub_parsers, sub_inputs, sub_count>>
  BY <1>1, <1>2, <1>3, <1>4, <1>5, <1>6, <1>9 DEF FirstRegistered
<1>10. CASE /\ modules' = Grow(modules, module_count, Builtin[index])
            /\ module_count' = module_count + 1
            /\ NextModule
            /\ \E failed : RegisterChildParser(Builtin[index], failed)
  <2>1. /\ modules' = IF modules = <<>> THEN <<"stdout">>
                      ELSE <<"sd_socket", "stdout">>
        /\ module_count' \in {1, 2}
        /\ pc' = "arguments" /\ index' = 1
    BY <1>2, <1>3, <1>10
  <2>2. PICK failed : RegisterChildParser("stdout", failed)
    BY <1>2, <1>10
  <2>3. /\ sub_inputs' \in {<<>>, <<"stdout">>, <<"sd_socket", "stdout">>}
           \/ sub_inputs' = sub_inputs
        /\ sub_count' \in {0, 1, 2}
        /\ \/ sub_count = 0 /\ sub_parsers' = <<"stdout">>
           \/ sub_count = 1 /\ sub_parsers' = <<"sd_socket", "stdout">>
           \/ sub_parsers' \in {<<>>, <<"garbage">>, sub_parsers}
    BY <1>4, <2>2 DEF RegisterChildParser
  <2>4. sub_parsers' \in {<<>>, <<"garbage">>, <<"stdout">>} \/
          (/\ modules = <<"sd_socket">>
           /\ sub_parsers' \in {<<"sd_socket">>, <<"sd_socket", "stdout">>})
    BY <1>1, <1>4, <2>3 DEF FirstRegistered
  <2>5. Options' \subseteq Registered'
    <3>1. "stdout" \in Registered'
      BY <2>1, ListElementsNext
    <3>2. modules = <<"sd_socket">> =>
            modules' = <<"sd_socket", "stdout">>
      BY <2>1
    <3>3. modules = <<"sd_socket">> => "sd_socket" \in Registered'
      BY <3>2, ListElementsNext
    <3>4. \/ Options' \subseteq {"stdout"}
          \/ modules = <<"sd_socket">> /\ Options' \subseteq {"sd_socket", "stdout"}
      BY <1>7, <2>4, ListElementsNext
    <3> QED
      BY <3>1, <3>3, <3>4
  <2>6. /\ modules' \in ModuleLists /\ sub_inputs' \in ModuleLists
        /\ sub_parsers' \in ParserLists
    BY <1>1, <1>6, <2>1, <2>3, <2>4 DEF FirstRegistered
  <2>7. module_count' \in 0 .. 2 /\ sub_count' \in 0 .. 2
    BY <1>5, <2>1, <2>3
  <2> QED
    BY <2>1, <2>5, <2>6, <2>7
<1> QED
  BY <1>8, <1>9, <1>10, RegisterModules

-----------------------------------------------------------------------------
(* What a step leaves alone stays as it is.                                *)

(* After registration, until the program ends.                             *)
LEMMA RegistryFrame ==
  ASSUME RegistryInv, UNCHANGED registry,
         enabled' = enabled \/ (Readable => enabled' \subseteq Registered),
         pc \notin {"main", "register"} \cup Ended,
         pc' \notin {"main", "register"}
  PROVE  RegistryInv'
<1>1. /\ modules' = modules /\ module_count' = module_count
      /\ sub_parsers' = sub_parsers /\ sub_inputs' = sub_inputs
      /\ sub_count' = sub_count
  BY DEF registry
<1>2. /\ Registered' = Registered /\ Options' = Options
      /\ Readable' <=> Readable
  BY <1>1 DEF Registered, Options, Readable
<1> QED
  BY <1>1, <1>2 DEF RegistryInv

(* Once the arguments are complete, and after the program has ended.       *)
LEMMA ConfigurationFrame ==
  ASSUME ConfigurationInv, UNCHANGED arguments, exhausted' = exhausted,
         \/ pc' = pc
         \/ pc = "init" /\ pc' = "request"
         \/ pc' \notin {"main", "register", "arguments", "file", "merge",
                        "validate", "init", "request"}
  PROVE  ConfigurationInv'
<1>1. /\ asked' = asked /\ cli_args' = cli_args
      /\ config_args' = config_args /\ args' = args /\ handled' = handled
  BY DEF arguments
<1>2. \A f \in Fields : LastSource(f)' = LastSource(f)
  BY <1>1 DEF LastSource
<1> QED
  BY <1>1, <1>2 DEF ConfigurationInv, BeforeMerge

(* Once the modules are initialised.                                       *)
LEMMA SocketFrame ==
  ASSUME SocketMatches, modules' = modules, enabled' = enabled,
         fd_count' = fd_count, socket_fd' = socket_fd,
         pc' \in {"request", "success", "handled"} =>
           pc \in {"request", "success", "handled"}
  PROVE  SocketMatches'
BY DEF SocketMatches, Registered

(* Where main() is before and after handle_success().                      *)
Early == {"main", "register", "arguments", "file", "merge", "validate",
          "init", "request"}

(* Before the key is handed out nothing is delivered.                      *)
LEMMA EarlyDelivery ==
  ASSUME DeliveryInv, pc \in Early \cup {"cleanup"},
         delivered' = delivered, reader' = reader,
         \/ pc' \in (Early \ {"request"}) \cup {"usage", "crashed"}
         \/ pc' = "request" /\ err' = "UL_OK"
         \/ pc' = "cleanup" /\ err' # "UL_OK"
  PROVE  DeliveryInv' /\ SuccessIsDelivery'
BY DEF DeliveryInv, SuccessIsDelivery, Early, PCs, Ended

(* Before the key is handed out nothing is written without --verbose.      *)
LEMMA EarlyOutput ==
  ASSUME OutputInv, is_debug' = is_debug, ~is_debug => out' = out,
         delivered' = delivered, pc \notin {"handled"} \cup Ended,
         pc' \in BeforeMerge => pc \in BeforeMerge
  PROVE  OutputInv'
BY DEF OutputInv

(* main() allocates its arguments, or ends.                                *)
LEMMA CreateArgumentsKeeps ==
  ASSUME ProgramInv, CreateArguments
  PROVE  ProgramInv'
<1>1. /\ pc = "main" /\ pc \in Early
      /\ UNCHANGED registry /\ index' = index
      /\ modules' = modules /\ module_count' = module_count
      /\ sub_parsers' = sub_parsers /\ sub_inputs' = sub_inputs
      /\ sub_count' = sub_count
      /\ enabled' = enabled /\ delivered' = delivered /\ err' = err
      /\ reader' = reader /\ fd_count' = fd_count /\ socket_fd' = socket_fd
      /\ is_debug' = is_debug /\ out' = out
      /\ asked' = asked /\ cli_args' = cli_args
      /\ config_args' = config_args /\ handled' = handled
      /\ exhausted' \in BOOLEAN
      /\ \/ pc' = "EXIT_FAILURE" /\ args' = args
         \/ pc' = "register" /\ args' = DefaultArguments
  BY DEF CreateArguments, registry, socket, output, Early, Remember
<1>2. TypeOK'
  BY <1>1, StartingArguments DEF ProgramInv, TypeOK, PCs, Ended
<1>3. RegistryInv'
  <2>1. /\ Registered' = Registered /\ Options' = Options
        /\ Readable' <=> Readable
    BY <1>1 DEF Registered, Options, Readable
  <2> QED
    BY <1>1, <2>1 DEF ProgramInv, RegistryInv, FirstRegistered, Ended
<1>4. ConfigurationInv'
  BY <1>1 DEF ProgramInv, ConfigurationInv, BeforeMerge
<1>5. SocketMatches'
  BY <1>1 DEF SocketMatches
<1>6. DeliveryInv' /\ SuccessIsDelivery'
  BY <1>1 DEF ProgramInv, DeliveryInv, SuccessIsDelivery, PCs, Ended
<1>7. OutputInv'
  BY <1>1 DEF ProgramInv, OutputInv, BeforeMerge, Ended
<1> QED
  BY <1>2, <1>3, <1>4, <1>5, <1>6, <1>7 DEF ProgramInv

(* register_module() keeps the invariant, whichever allocation fails.      *)
LEMMA RegisterKeeps ==
  ASSUME ProgramInv, Register
  PROVE  ProgramInv'
<1>1. /\ pc = "register" /\ pc \in Early
      /\ enabled' = enabled /\ delivered' = delivered /\ err' = err
      /\ reader' = reader /\ fd_count' = fd_count /\ socket_fd' = socket_fd
      /\ is_debug' = is_debug /\ out' = out
      /\ asked' = asked /\ cli_args' = cli_args /\ args' = args
      /\ config_args' = config_args /\ handled' = handled
      /\ exhausted' \in BOOLEAN
      /\ pc' \in {"register", "arguments", "crashed"}
  BY DEF Register, arguments, socket, output, Early, Remember, NextModule, Goto
<1>2. index = 1 \/ index = 2
  BY <1>1 DEF ProgramInv, RegistryInv
<1>3. /\ RegistryInv'
      /\ index' \in {1, 2}
      /\ module_count' \in 0 .. 2 /\ sub_count' \in 0 .. 2
  <2>1. CASE index = 1
    <3>1. \A n \in {0, 1, 2} : n \in 0 .. 2
      OBVIOUS
    <3>2. /\ <<>> \in ModuleLists /\ <<"sd_socket">> \in ModuleLists
          /\ ModuleLists \subseteq ParserLists /\ <<"garbage">> \in ParserLists
      BY DEF ModuleLists, ParserLists
    <3>3. /\ modules' \in ModuleLists
          /\ sub_parsers' \in ParserLists /\ sub_inputs' \in ModuleLists
          /\ module_count' \in {0, 1} /\ sub_count' \in {0, 1}
          /\ pc' # "arguments" /\ index' \in {1, 2}
      BY <2>1, <3>2, RegisterFirst DEF FirstRegistered
    <3>4. enabled' = {}
      BY <1>1 DEF ProgramInv, RegistryInv
    <3>5. pc' = "register" => Options' \subseteq Registered'
      <4>1. SUFFICES ASSUME FirstRegistered'
                     PROVE  Options' \subseteq Registered'
        BY <2>1, RegisterFirst
      <4>2. "garbage" \notin Modules
        BY DEF Modules
      <4>3. \/ sub_parsers' \in {<<>>, <<"garbage">>}
            \/ sub_parsers' = <<"sd_socket">> /\ modules' = <<"sd_socket">>
        BY <4>1 DEF FirstRegistered
      <4> QED
        BY <4>2, <4>3, ListElementsNext
    <3>6. pc' = "register" => index' = 2 /\ FirstRegistered'
      BY <2>1, RegisterFirst
    <3> QED
      BY <1>1, <3>1, <3>3, <3>4, <3>5, <3>6 DEF RegistryInv, Ended
  <2>2. CASE index = 2
    <3>1. enabled' = {}
      BY <1>1 DEF ProgramInv, RegistryInv
    <3> QED
      BY <1>1, <2>2, <3>1, RegisterSecond DEF RegistryInv, Readable, Ended
  <2> QED
    BY <1>2, <2>1, <2>2
<1>4. TypeOK'
  <2>1. /\ modules' \in Seq(Modules) /\ sub_inputs' \in Seq(Modules)
        /\ sub_parsers' \in Seq(Modules \cup {"garbage"})
    BY <1>3, ListsAreSequences DEF RegistryInv
  <2>2. /\ module_count' \in 0 .. Len(Builtin)
        /\ sub_count' \in 0 .. Len(Builtin)
        /\ index' \in 1 .. Len(Builtin) + 1
    <3>1. Len(Builtin) = 2 /\ \A n \in {1, 2} : n \in 1 .. 2 + 1
      BY DEF Builtin
    <3> QED
      BY <1>3, <3>1
  <2>3. pc' \in PCs
    BY <1>1 DEF PCs, Ended
  <2> QED
    BY <1>1, <2>1, <2>2, <2>3 DEF ProgramInv, TypeOK
<1>5. ConfigurationInv'
  <2>1. args' = DefaultArguments /\ handled' = "UL_OK"
    BY <1>1 DEF ProgramInv, ConfigurationInv, BeforeMerge
  <2>2. asked'.config = {} /\ config_args' = create_args
    BY <1>1 DEF ProgramInv, ConfigurationInv, BeforeMerge
  <2> QED
    BY <1>1, <2>1, <2>2 DEF ConfigurationInv, BeforeMerge
<1>6. DeliveryInv' /\ SuccessIsDelivery'
  <2>1. pc' \in (Early \ {"request"}) \cup {"usage", "crashed"}
    BY <1>1 DEF Early
  <2> QED
    BY <1>1, <2>1, EarlyDelivery DEF ProgramInv
<1>7. OutputInv'
  BY <1>1, EarlyOutput DEF ProgramInv, Ended, BeforeMerge
<1>8. SocketMatches'
  BY <1>1 DEF SocketMatches
<1> QED
  BY <1>3, <1>4, <1>5, <1>6, <1>7, <1>8 DEF ProgramInv

-----------------------------------------------------------------------------
(* The arguments.                                                          *)

(* argp_parse() keeps the invariant.                                       *)
LEMMA ParseCommandLineKeeps ==
  ASSUME ProgramInv, ParseCommandLine
  PROVE  ProgramInv'
<1>0. PICK given \in SUBSET Fields, options \in SUBSET Modules,
           file \in BOOLEAN, verbose \in BOOLEAN,
           failed \in OutOfMemory(StringFields \cup {"args", "path"}) :
        /\ asked' = [asked EXCEPT !.cli = given, !.options = options,
                                   !.verbose = verbose]
        /\ Remember(failed)
        /\ \/ /\ "args" \in failed
              /\ handled' = "UL_MALLOC"
              /\ Goto("validate")
              /\ UNCHANGED <<enabled, cli_args>>
           \/ /\ "args" \notin failed
              /\ ParsersBroken \/ ParsersUndefined
              /\ pc' = "crashed"
              /\ UNCHANGED <<index, enabled, cli_args, handled>>
           \/ /\ "args" \notin failed
              /\ ~ParsersBroken
              /\ ~(options \subseteq Options)
              /\ pc' = "usage"
              /\ UNCHANGED <<index, enabled, cli_args, handled>>
           \/ /\ "args" \notin failed
              /\ ~ParsersBroken
              /\ options \subseteq Options
              /\ enabled' = enabled \cup sd_socket_parser(options)
                                  \cup stdout_parser(options)
              /\ cli_args' = From("cli", given, failed)
              /\ Goto(IF file /\ "path" \notin failed
                      THEN "file" ELSE "merge")
              /\ UNCHANGED handled
  BY Zenon DEF ParseCommandLine
<1>1. /\ asked' = [asked EXCEPT !.cli = given, !.options = options,
                                 !.verbose = verbose]
      /\ Remember(failed)
      /\ \/ /\ handled' = "UL_MALLOC" /\ pc' = "validate" /\ index' = 1
            /\ enabled' = enabled /\ cli_args' = cli_args
         \/ /\ pc' \in {"crashed", "usage"} /\ index' = index
            /\ enabled' = enabled /\ cli_args' = cli_args
            /\ handled' = handled
         \/ /\ options \subseteq Options
            /\ enabled' \subseteq enabled \cup options
            /\ cli_args' = From("cli", given, failed)
            /\ pc' \in {"file", "merge"} /\ index' = 1
            /\ handled' = handled
  BY <1>0 DEF Goto, sd_socket_parser, stdout_parser
<1>2. /\ pc = "arguments" /\ pc \in Early
      /\ UNCHANGED registry /\ modules' = modules
      /\ module_count' = module_count /\ sub_parsers' = sub_parsers
      /\ sub_inputs' = sub_inputs /\ sub_count' = sub_count
      /\ config_args' = config_args /\ args' = args
      /\ fd_count' = fd_count /\ socket_fd' = socket_fd /\ reader' = reader
      /\ is_debug' = is_debug /\ out' = out
      /\ delivered' = delivered /\ err' = err
  BY DEF ParseCommandLine, registry, socket, output, Early
<1>3. /\ exhausted' \in BOOLEAN
      /\ ~exhausted' => failed = {}
  BY <1>1 DEF Remember
<1>4. /\ asked' \in [cli : SUBSET Fields, options : SUBSET Modules,
                     config : SUBSET Fields, verbose : BOOLEAN]
      /\ asked'.cli = given /\ asked'.config = asked.config
  BY <1>1 DEF ProgramInv, TypeOK
<1>5. From("cli", given, failed) \in Arguments
  BY FromProperties DEF Origins
<1>6. pc' \in {"validate", "crashed", "usage", "file", "merge"}
  BY <1>1
<1>7. TypeOK'
  <2>1. index' \in 1 .. Len(Builtin) + 1
    BY <1>1 DEF ProgramInv, TypeOK, Builtin
  <2>2. cli_args' \in Arguments /\ handled' \in Errors
    BY <1>1, <1>5 DEF ProgramInv, TypeOK, Errors
  <2>3. enabled' \subseteq Modules
    BY <1>1 DEF ProgramInv, TypeOK
  <2> QED
    BY <1>2, <1>3, <1>4, <1>6, <2>1, <2>2, <2>3
    DEF ProgramInv, TypeOK, PCs, Ended
<1>8. RegistryInv'
  <2>1. Readable => Options \subseteq Registered /\ enabled \subseteq Registered
    BY <1>2 DEF ProgramInv, RegistryInv, Ended
  <2>2. enabled' = enabled \/ (Readable => enabled' \subseteq Registered)
    BY <1>1, <2>1
  <2> QED
    BY <1>2, <1>6, <2>2, RegistryFrame DEF ProgramInv, Ended
<1>9. ConfigurationInv'
  <2>1. /\ args = DefaultArguments /\ handled = "UL_OK"
        /\ asked.config = {} /\ config_args = create_args
    BY <1>2 DEF ProgramInv, ConfigurationInv, BeforeMerge
  <2>2. CASE handled' = "UL_MALLOC" /\ pc' = "validate"
    BY <1>2, <2>1, <2>2, StartingArguments
    DEF ConfigurationInv, BeforeMerge, Fields
  <2>3. CASE pc' \in {"crashed", "usage"}
    BY <2>3 DEF ConfigurationInv, BeforeMerge
  <2>4. CASE /\ pc' \in {"file", "merge"} /\ handled' = handled
             /\ cli_args' = From("cli", given, failed)
    BY <1>2, <1>3, <1>4, <2>1, <2>4, StartingArguments
    DEF ConfigurationInv, BeforeMerge
  <2> QED
    BY <1>1, <2>2, <2>3, <2>4
<1>10. DeliveryInv' /\ SuccessIsDelivery'
  <2>1. pc' \in (Early \ {"request"}) \cup {"usage", "crashed"}
    BY <1>6 DEF Early
  <2> QED
    BY <1>2, <2>1, EarlyDelivery DEF ProgramInv
<1>11. OutputInv'
  BY <1>2, EarlyOutput DEF ProgramInv, Ended, BeforeMerge
<1>12. SocketMatches'
  BY <1>6 DEF SocketMatches
<1> QED
  BY <1>7, <1>8, <1>9, <1>10, <1>11, <1>12 DEF ProgramInv

(* parse_config_file() keeps the invariant, also when it fails.            *)
LEMMA ParseConfigFileKeeps ==
  ASSUME ProgramInv, ParseConfigFile
  PROVE  ProgramInv'
<1>1. PICK given \in SUBSET Fields, failed \in OutOfMemory(StringFields) :
        /\ asked' = [asked EXCEPT !.config = given]
        /\ Remember(failed)
        /\ \/ /\ handled' \in {"UL_ERR", "UL_MALLOC"}
              /\ pc' = "validate" /\ index' = 1
              /\ enabled' = enabled /\ config_args' = config_args
           \/ /\ config_args' = From("config", given, {})
              /\ handled' = handled
              /\ \/ /\ enabled' \subseteq Modules
                    /\ \A m \in enabled' : m \in Registered \/ m \in enabled
                    /\ pc' = "merge" /\ index' = 1
                 \/ pc' = "crashed" /\ index' = index /\ enabled' = enabled
  BY DEF ParseConfigFile, Goto
<1>2. /\ pc = "file" /\ pc \in Early
      /\ UNCHANGED registry /\ modules' = modules
      /\ module_count' = module_count /\ sub_parsers' = sub_parsers
      /\ sub_inputs' = sub_inputs /\ sub_count' = sub_count
      /\ cli_args' = cli_args /\ args' = args
      /\ fd_count' = fd_count /\ socket_fd' = socket_fd /\ reader' = reader
      /\ is_debug' = is_debug
      /\ delivered' = delivered /\ err' = err
      /\ out' \in {out, Logged("error")}
  BY DEF ParseConfigFile, registry, socket, Early
<1>3. /\ exhausted' \in BOOLEAN
      /\ ~exhausted' => ~exhausted
  BY <1>1 DEF Remember, ProgramInv, TypeOK
<1>4. /\ asked' \in [cli : SUBSET Fields, options : SUBSET Modules,
                     config : SUBSET Fields, verbose : BOOLEAN]
      /\ asked'.cli = asked.cli /\ asked'.config = given
  BY <1>1 DEF ProgramInv, TypeOK
<1>5. From("config", given, {}) \in Arguments
  BY FromProperties DEF Origins
<1>6. pc' \in {"validate", "crashed", "merge"}
  BY <1>1
<1>7. /\ out' \in Seq({"debug", "key", "part"})
      /\ ~is_debug => out' = out
  BY <1>2, LoggedProperties DEF ProgramInv, TypeOK
<1>8. TypeOK'
  <2>1. index' \in 1 .. Len(Builtin) + 1
    BY <1>1 DEF ProgramInv, TypeOK, Builtin
  <2>2. config_args' \in Arguments /\ handled' \in Errors
    BY <1>1, <1>5 DEF ProgramInv, TypeOK, Errors
  <2>3. enabled' \subseteq Modules
    BY <1>1 DEF ProgramInv, TypeOK
  <2> QED
    BY <1>2, <1>3, <1>4, <1>6, <1>7, <2>1, <2>2, <2>3
    DEF ProgramInv, TypeOK, PCs, Ended
<1>9. RegistryInv'
  <2>1. Readable => enabled \subseteq Registered
    BY <1>2 DEF ProgramInv, RegistryInv, Ended
  <2>2. enabled' = enabled \/ (Readable => enabled' \subseteq Registered)
    BY <1>1, <2>1
  <2> QED
    BY <1>2, <1>6, <2>2, RegistryFrame DEF ProgramInv, Ended
<1>10. ConfigurationInv'
  <2>1. /\ args = DefaultArguments /\ handled = "UL_OK"
        /\ ~exhausted => cli_args = From("cli", asked.cli, {})
    BY <1>2 DEF ProgramInv, ConfigurationInv, BeforeMerge
  <2>2. CASE handled' \in {"UL_ERR", "UL_MALLOC"} /\ pc' = "validate"
    BY <1>2, <2>1, <2>2, StartingArguments
    DEF ConfigurationInv, BeforeMerge, Fields
  <2>3. CASE pc' = "crashed"
    BY <2>3 DEF ConfigurationInv, BeforeMerge
  <2>4. CASE /\ pc' = "merge" /\ handled' = handled
             /\ config_args' = From("config", given, {})
    BY <1>2, <1>3, <1>4, <2>1, <2>4 DEF ConfigurationInv, BeforeMerge
  <2> QED
    BY <1>1, <2>2, <2>3, <2>4
<1>11. DeliveryInv' /\ SuccessIsDelivery'
  <2>1. pc' \in (Early \ {"request"}) \cup {"usage", "crashed"}
    BY <1>6 DEF Early
  <2> QED
    BY <1>2, <2>1, EarlyDelivery DEF ProgramInv
<1>12. OutputInv'
  BY <1>2, <1>7, EarlyOutput DEF ProgramInv, Ended, BeforeMerge
<1>13. SocketMatches'
  BY <1>6 DEF SocketMatches
<1> QED
  BY <1>8, <1>9, <1>10, <1>11, <1>12, <1>13 DEF ProgramInv

(* merge_config() of the file and of the command line keeps the invariant. *)
LEMMA MergeKeeps ==
  ASSUME ProgramInv, Merge
  PROVE  ProgramInv'
<1>1. PICK lost1 \in OutOfMemory(StringFields),
           lost2 \in OutOfMemory(StringFields) :
        /\ args' = merge_config(merge_config(args, config_args, lost1),
                                cli_args, lost2)
        /\ Remember(lost1 \cup lost2)
  BY DEF Merge
<1>2. /\ pc = "merge" /\ pc \in Early /\ pc' = "validate" /\ index' = 1
      /\ UNCHANGED registry /\ modules' = modules
      /\ module_count' = module_count /\ sub_parsers' = sub_parsers
      /\ sub_inputs' = sub_inputs /\ sub_count' = sub_count
      /\ enabled' = enabled /\ asked' = asked /\ cli_args' = cli_args
      /\ config_args' = config_args /\ handled' = handled
      /\ fd_count' = fd_count /\ socket_fd' = socket_fd /\ reader' = reader
      /\ is_debug' = asked.verbose /\ out' = out
      /\ delivered' = delivered /\ err' = err
  BY DEF Merge, registry, socket, Goto, Early
<1>3. /\ exhausted' \in BOOLEAN
      /\ ~exhausted' => ~exhausted /\ lost1 = {} /\ lost2 = {}
  BY <1>1 DEF Remember, ProgramInv, TypeOK
<1>4. /\ args \in Arguments /\ cli_args \in Arguments
      /\ config_args \in Arguments
  BY DEF ProgramInv, TypeOK
<1> DEFINE half == merge_config(args, config_args, lost1)
<1>5. half \in Arguments /\ args' = merge_config(half, cli_args, lost2)
  BY <1>1, <1>4, MergeProperties
<1>6. args' \in Arguments
  BY <1>4, <1>5, MergeProperties
<1>7. TypeOK'
  <2>1. index' \in 1 .. Len(Builtin) + 1
    BY <1>2 DEF Builtin
  <2>2. is_debug' \in BOOLEAN
    BY <1>2 DEF ProgramInv, TypeOK
  <2> QED
    BY <1>2, <1>3, <1>6, <2>1, <2>2 DEF ProgramInv, TypeOK, PCs
<1>8. RegistryInv'
  BY <1>2, RegistryFrame DEF ProgramInv, Ended
<1>9. ConfigurationInv'
  <2>1. /\ args = DefaultArguments /\ handled = "UL_OK"
        /\ ~exhausted => cli_args = From("cli", asked.cli, {})
        /\ config_args = From("config", asked.config, {})
    BY <1>2 DEF ProgramInv, ConfigurationInv, BeforeMerge
  <2>2. asked.cli \in SUBSET Fields /\ asked.config \in SUBSET Fields
    BY DEF ProgramInv, TypeOK
  <2>3. \A f \in NumberFields : f \in Fields /\ args[f] # "NULL"
    BY <2>1, StartingArguments DEF Fields
  <2>4. \A f \in NumberFields : half[f] # "NULL"
    BY <1>4, <2>3, MergeProperties
  <2>5. \A f \in NumberFields : args'[f] # "NULL"
    BY <1>4, <1>5, <2>3, <2>4, MergeProperties
  <2>6. ASSUME ~exhausted', NEW f \in Fields
        PROVE  args'[f] = LastSource(f)'
    <3>1. half[f] = IF config_args[f] = "NULL" THEN args[f] ELSE config_args[f]
      BY <1>3, <1>4, <2>6, MergeProperties
    <3>2. args'[f] = IF cli_args[f] = "NULL" THEN half[f] ELSE cli_args[f]
      BY <1>3, <1>4, <1>5, <2>6, MergeProperties
    <3>3. cli_args[f] = IF f \in asked.cli THEN "cli" ELSE "NULL"
      BY <1>3, <2>1, <2>2, <2>6, FromProperties DEF Origins
    <3>4. config_args[f] = IF f \in asked.config THEN "config" ELSE "NULL"
      BY <2>1, <2>2, FromProperties DEF Origins
    <3>5. args'[f] = IF f \in asked.cli THEN "cli"
                     ELSE IF f \in asked.config THEN "config"
                     ELSE DefaultArguments[f]
      BY <2>1, <3>1, <3>2, <3>3, <3>4
    <3>6. LastSource(f)' = IF f \in asked.cli THEN "cli"
                           ELSE IF f \in asked.config THEN "config"
                           ELSE DefaultArguments[f]
      BY <1>2 DEF LastSource
    <3> QED
      BY <3>5, <3>6
  <2> QED
    BY <1>2, <2>1, <2>5, <2>6 DEF ConfigurationInv, BeforeMerge
<1>10. DeliveryInv' /\ SuccessIsDelivery'
  <2>1. pc' \in (Early \ {"request"}) \cup {"usage", "crashed"}
    BY <1>2 DEF Early
  <2> QED
    BY <1>2, <2>1, EarlyDelivery DEF ProgramInv
<1>11. OutputInv'
  BY <1>2 DEF ProgramInv, OutputInv, BeforeMerge, Ended
<1>12. SocketMatches'
  BY <1>2 DEF SocketMatches
<1> QED
  BY <1>7, <1>8, <1>9, <1>10, <1>11, <1>12 DEF ProgramInv

(* validate_args() lets no request through without the members it needs.   *)
LEMMA ValidateKeeps ==
  ASSUME ProgramInv, Validate
  PROVE  ProgramInv'
<1>1. /\ pc = "validate" /\ pc \in Early /\ index' = 1
      /\ \/ err' = "UL_ERR" /\ pc' = "cleanup"
         \/ /\ \A f \in StringFields : args[f] # "NULL"
            /\ err' = err /\ pc' = "init"
      /\ UNCHANGED registry /\ modules' = modules
      /\ module_count' = module_count /\ sub_parsers' = sub_parsers
      /\ sub_inputs' = sub_inputs /\ sub_count' = sub_count
      /\ UNCHANGED arguments
      /\ enabled' = enabled /\ asked' = asked /\ cli_args' = cli_args
      /\ config_args' = config_args /\ handled' = handled /\ args' = args
      /\ fd_count' = fd_count /\ socket_fd' = socket_fd /\ reader' = reader
      /\ is_debug' = is_debug /\ out' = out
      /\ delivered' = delivered /\ exhausted' = exhausted
  BY DEF Validate, Required, registry, arguments, socket, output, Goto, Early
<1>2. TypeOK'
  <2>1. index' \in 1 .. Len(Builtin) + 1
    BY <1>1 DEF Builtin
  <2>2. pc' \in PCs /\ err' \in Errors
    BY <1>1 DEF ProgramInv, TypeOK, PCs, Errors
  <2> QED
    BY <1>1, <2>1, <2>2 DEF ProgramInv, TypeOK
<1>3. RegistryInv'
  BY <1>1, RegistryFrame DEF ProgramInv, Ended
<1>4. ConfigurationInv'
  <2>1. CASE pc' = "cleanup"
    BY <2>1 DEF ConfigurationInv, BeforeMerge
  <2>2. CASE pc' = "init" /\ \A f \in StringFields : args[f] # "NULL"
    <3>1. handled = "UL_OK"
      <4>1. PICK f \in StringFields : args[f] # "NULL"
        BY <2>2, FieldsAssumption
      <4>2. args # DefaultArguments
        BY <4>1, StartingArguments, FieldsAssumption DEF Fields
      <4> QED
        BY <1>1, <4>2 DEF ProgramInv, ConfigurationInv
    <3>2. \A f \in Fields : LastSource(f)' = LastSource(f)
      BY <1>1 DEF LastSource
    <3> QED
      BY <1>1, <2>2, <3>1, <3>2 DEF ProgramInv, ConfigurationInv, BeforeMerge
  <2> QED
    BY <1>1, <2>1, <2>2
<1>5. DeliveryInv' /\ SuccessIsDelivery'
  BY <1>1, EarlyDelivery DEF ProgramInv, Early
<1>6. OutputInv'
  BY <1>1, EarlyOutput DEF ProgramInv, Ended, BeforeMerge
<1>7. SocketMatches'
  BY <1>1 DEF SocketMatches
<1> QED
  BY <1>2, <1>3, <1>4, <1>5, <1>6, <1>7 DEF ProgramInv

-----------------------------------------------------------------------------
(* The socket and the request.                                             *)

(* initialize_modules() lets mod_sd_socket pass with one socket if it is   *)
(* enabled, and without any if it is not.                                  *)
LEMMA InitializeKeeps ==
  ASSUME ProgramInv, Initialize
  PROVE  ProgramInv'
<1>1. /\ pc = "init" /\ pc \in Early
      /\ UNCHANGED registry /\ modules' = modules
      /\ module_count' = module_count /\ sub_parsers' = sub_parsers
      /\ sub_inputs' = sub_inputs /\ sub_count' = sub_count
      /\ UNCHANGED arguments
      /\ enabled' = enabled /\ asked' = asked /\ cli_args' = cli_args
      /\ config_args' = config_args /\ handled' = handled /\ args' = args
      /\ fd_count' = fd_count /\ reader' = reader
      /\ is_debug' = is_debug /\ out' \in {out, Logged("debug")}
      /\ delivered' = delivered /\ exhausted' = exhausted
  BY DEF Initialize, registry, arguments, Early
<1>2. PICK e \in IF ~Readable THEN {"crashed"}
                 ELSE IF \E m \in Registered : "init" \in Callbacks(m)
                 THEN InitSocket("sd_socket" \in enabled)
                 ELSE {"UL_OK"} :
        \/ /\ pc' = "crashed" /\ index' = index
           /\ socket_fd' = socket_fd /\ err' = err
        \/ /\ e # "crashed"
           /\ err' = e /\ index' = 1
           /\ pc' = IF e = "UL_OK" THEN "request" ELSE "cleanup"
           /\ socket_fd' = IF e = "UL_OK" /\ "sd_socket" \in enabled
                           THEN FirstDescriptor ELSE socket_fd
  BY DEF Initialize, Goto
<1>3. /\ e \in Errors \cup {"crashed"}
      /\ "sd_socket" \in Registered /\ e = "UL_OK" =>
           /\ "sd_socket" \in enabled => fd_count = 1
           /\ "sd_socket" \notin enabled => fd_count <= 0
  <2>1. "init" \in Callbacks("sd_socket")
    BY DEF Callbacks, get_mod_sd_socket
  <2>2. fd_count \in {-1, 0, 1, 2}
    BY DEF ProgramInv, TypeOK
  <2>3. /\ \A on \in BOOLEAN : InitSocket(on) \subseteq Errors \cup {"crashed"}
        /\ "UL_OK" \in InitSocket(TRUE) => fd_count = 1
        /\ "UL_OK" \in InitSocket(FALSE) => fd_count <= 0
    BY <2>2 DEF InitSocket, Errors
  <2>4. CASE Readable /\ \E m \in Registered : "init" \in Callbacks(m)
    <3>1. e \in InitSocket("sd_socket" \in enabled)
      BY <1>2, <2>4
    <3>2. CASE "sd_socket" \in enabled
      <4>1. ("sd_socket" \in enabled) = TRUE
        BY <3>2
      <4>2. e \in InitSocket(TRUE)
        BY <3>1, <4>1
      <4> QED
        BY <2>3, <3>2, <4>2
    <3>3. CASE "sd_socket" \notin enabled
      <4>1. ("sd_socket" \in enabled) = FALSE
        BY <3>3
      <4>2. e \in InitSocket(FALSE)
        BY <3>1, <4>1
      <4> QED
        BY <2>3, <3>3, <4>2
    <3> QED
      BY <3>2, <3>3
  <2>5. CASE ~(Readable /\ \E m \in Registered : "init" \in Callbacks(m))
    <3>1. e = "crashed" \/ ("sd_socket" \notin Registered /\ e = "UL_OK")
      BY <1>2, <2>1, <2>5
    <3> QED
      BY <3>1 DEF Errors
  <2> QED
    BY <2>4, <2>5
<1>4. pc' \in {"request", "cleanup", "crashed"}
  BY <1>2
<1>5. /\ out' \in Seq({"debug", "key", "part"})
      /\ ~is_debug => out' = out
  BY <1>1, LoggedProperties DEF ProgramInv, TypeOK
<1>6. TypeOK'
  <2>1. index' \in 1 .. Len(Builtin) + 1
    BY <1>2 DEF ProgramInv, TypeOK, Builtin
  <2>2. err' \in Errors /\ socket_fd' \in {0, 3}
    BY <1>2, <1>3 DEF ProgramInv, TypeOK, FirstDescriptor
  <2> QED
    BY <1>1, <1>4, <1>5, <2>1, <2>2 DEF ProgramInv, TypeOK, PCs, Ended
<1>7. RegistryInv'
  BY <1>1, <1>4, RegistryFrame DEF ProgramInv, Ended
<1>8. ConfigurationInv'
  BY <1>1, <1>4, ConfigurationFrame DEF ProgramInv
<1>9. DeliveryInv' /\ SuccessIsDelivery'
  <2>1. pc' = "request" => err' = "UL_OK"
    BY <1>2
  <2>2. pc' = "cleanup" => err' # "UL_OK"
    BY <1>2
  <2> QED
    BY <1>1, <1>4, <2>1, <2>2, EarlyDelivery DEF ProgramInv
<1>10. OutputInv'
  BY <1>1, <1>4, <1>5, EarlyOutput DEF ProgramInv, Ended, BeforeMerge
<1>11. SocketMatches'
  <2>1. pc' = "request" => e = "UL_OK" /\ ("sd_socket" \in enabled => socket_fd' = 3)
    BY <1>2 DEF FirstDescriptor
  <2>2. Registered' = Registered
    BY <1>1 DEF Registered
  <2> QED
    BY <1>1, <1>3, <1>4, <2>1, <2>2 DEF SocketMatches
<1> QED
  BY <1>6, <1>7, <1>8, <1>9, <1>10, <1>11 DEF ProgramInv

(* request_key() obtains a key, fails with an error, or crashes.           *)
LEMMA RequestKeyKeeps ==
  ASSUME ProgramInv, RequestKey
  PROVE  ProgramInv'
<1>1. /\ pc = "request" /\ pc \in Early
      /\ \/ pc' = "success" /\ index' = 1 /\ err' = err
         \/ pc' = "crashed" /\ index' = index /\ err' = err
         \/ /\ pc' = "cleanup" /\ index' = 1
            /\ err' \in {"UL_DENIED", "UL_ERR", "UL_MALLOC"}
      /\ UNCHANGED registry /\ modules' = modules
      /\ module_count' = module_count /\ sub_parsers' = sub_parsers
      /\ sub_inputs' = sub_inputs /\ sub_count' = sub_count
      /\ UNCHANGED arguments
      /\ enabled' = enabled /\ asked' = asked /\ cli_args' = cli_args
      /\ config_args' = config_args /\ handled' = handled /\ args' = args
      /\ fd_count' = fd_count /\ reader' = reader /\ socket_fd' = socket_fd
      /\ is_debug' = is_debug
      /\ out' \in {Logged("debug"), Logged("warning"), Logged("error")}
      /\ delivered' = delivered /\ exhausted' = exhausted
  BY DEF RequestKey, registry, arguments, socket, Early, Goto
<1>2. /\ out' \in Seq({"debug", "key", "part"})
      /\ ~is_debug => out' = out
  BY <1>1, LoggedProperties DEF ProgramInv, TypeOK
<1>3. TypeOK'
  <2>1. index' \in 1 .. Len(Builtin) + 1
    BY <1>1 DEF ProgramInv, TypeOK, Builtin
  <2>2. pc' \in PCs /\ err' \in Errors
    BY <1>1 DEF ProgramInv, TypeOK, PCs, Ended, Errors
  <2> QED
    BY <1>1, <1>2, <2>1, <2>2 DEF ProgramInv, TypeOK
<1>4. RegistryInv'
  BY <1>1, RegistryFrame DEF ProgramInv, Ended
<1>5. ConfigurationInv'
  BY <1>1, ConfigurationFrame DEF ProgramInv
<1>6. DeliveryInv' /\ SuccessIsDelivery'
  <2>1. CASE pc' \in {"cleanup", "crashed"}
    BY <1>1, <2>1, EarlyDelivery DEF ProgramInv
  <2>2. CASE pc' = "success"
    <3>1. delivered = {} /\ err = "UL_OK"
      BY <1>1 DEF ProgramInv, DeliveryInv, Ended, PCs
    <3>2. \A i \in 1 .. Len(modules') : ~(i < 1)
      <4>1. Len(modules') \in Nat
        BY <1>1, LenProperties DEF ProgramInv, TypeOK
      <4> QED
        BY <4>1
    <3> QED
      BY <1>1, <2>2, <3>1, <3>2
      DEF DeliveryInv, SuccessIsDelivery, Ended
  <2> QED
    BY <1>1, <2>1, <2>2
<1>7. OutputInv'
  BY <1>1, <1>2, EarlyOutput DEF ProgramInv, Ended, BeforeMerge
<1>8. SocketMatches'
  BY <1>1, SocketFrame DEF ProgramInv
<1> QED
  BY <1>3, <1>4, <1>5, <1>6, <1>7, <1>8 DEF ProgramInv

-----------------------------------------------------------------------------
(* The key is handed out.                                                  *)

(* Where handle_success() is: at a registered module, the first time.      *)
LEMMA AtModuleFacts ==
  ASSUME ProgramInv, NEW m \in Modules, AtModule(m)
  PROVE  /\ pc = "success" /\ err = "UL_OK"
         /\ index \in 1 .. Len(modules) /\ modules[index] = m
         /\ index + 1 \in 1 .. Len(Builtin) + 1
         /\ m \notin delivered
         /\ \A k \in Modules :
              k \in delivered \/ (k = m /\ m \in enabled) <=>
                /\ k \in enabled
                /\ \E i \in 1 .. Len(modules) : i < index + 1 /\ modules[i] = k
<1>1. /\ pc = "success" /\ err = "UL_OK"
      /\ index <= module_count /\ Len(modules) = module_count
      /\ modules[index] = m
  BY DEF AtModule, Readable, ProgramInv, DeliveryInv
<1>2. /\ index \in 1 .. 3 /\ module_count \in 0 .. 2 /\ Len(Builtin) = 2
  BY DEF ProgramInv, TypeOK, Builtin
<1>3. index \in 1 .. Len(modules) /\ index + 1 \in 1 .. Len(Builtin) + 1
  BY <1>1, <1>2
<1>4. \A k \in Modules :
        k \in delivered <=>
          /\ k \in enabled
          /\ \E i \in 1 .. Len(modules) : i < index /\ modules[i] = k
  BY <1>1 DEF ProgramInv, DeliveryInv
<1>5. \A i \in 1 .. Len(modules) : modules[i] = m => i = index
  BY <1>1, <1>3, ListsAreSequences DEF ProgramInv, RegistryInv
<1>6. \A i \in 1 .. Len(modules) : i < index + 1 <=> i < index \/ i = index
  BY <1>1, <1>2
<1>7. ~(index < index)
  BY <1>2
<1>8. m \notin delivered
  BY <1>4, <1>5, <1>7
<1>9. \A k \in Modules :
        k \in delivered \/ (k = m /\ m \in enabled) <=>
          /\ k \in enabled
          /\ \E i \in 1 .. Len(modules) : i < index + 1 /\ modules[i] = k
  BY <1>1, <1>3, <1>4, <1>6
<1> QED
  BY <1>1, <1>3, <1>8, <1>9

(* A step of handle_success() at module m: the callback ends the program,  *)
(* fails without having delivered the key, or delivers it.                 *)
SuccessStep(m) ==
  \/ pc' = "crashed" /\ index' = index /\ err' = err /\ delivered' = delivered
  \/ /\ pc' = "handled" /\ index' = 1 /\ err' \in Errors \ {"UL_OK"}
     /\ delivered' = delivered
  \/ /\ pc' = "success" /\ index' = index + 1 /\ err' = "UL_OK"
     /\ delivered' = IF m \in enabled THEN delivered \cup {m} ELSE delivered
     /\ m \in enabled /\ m = "sd_socket" => reader' = "served"

(* Such a step keeps everything but what is about the output.              *)
LEMMA SuccessStepKeeps ==
  ASSUME ProgramInv, NEW m \in Modules, AtModule(m), SuccessStep(m),
         UNCHANGED registry, UNCHANGED arguments, enabled' = enabled,
         fd_count' = fd_count, socket_fd' = socket_fd, is_debug' = is_debug,
         exhausted' = exhausted,
         reader' \in {reader, "served"},
         out' \in Seq({"debug", "key", "part"})
  PROVE  /\ TypeOK' /\ RegistryInv' /\ ConfigurationInv' /\ SocketMatches'
         /\ DeliveryInv' /\ SuccessIsDelivery'
<1>1. /\ pc = "success" /\ err = "UL_OK"
      /\ pc' \in {"success", "handled", "crashed"}
  BY AtModuleFacts DEF SuccessStep
<1>2. /\ modules' = modules /\ module_count' = module_count
      /\ sub_parsers' = sub_parsers /\ sub_inputs' = sub_inputs
      /\ sub_count' = sub_count
      /\ asked' = asked /\ cli_args' = cli_args
      /\ config_args' = config_args /\ handled' = handled /\ args' = args
  BY DEF registry, arguments
<1>3. TypeOK'
  <2>1. index' \in 1 .. Len(Builtin) + 1
    BY AtModuleFacts DEF SuccessStep, ProgramInv, TypeOK, Builtin
  <2>2. err' \in Errors /\ delivered' \subseteq Modules
    BY DEF SuccessStep, ProgramInv, TypeOK, Errors
  <2>3. reader' \in {"none", "waiting", "elsewhere", "gone", "served"}
    BY DEF ProgramInv, TypeOK
  <2> QED
    BY <1>1, <1>2, <2>1, <2>2, <2>3 DEF ProgramInv, TypeOK, PCs, Ended
<1>4. RegistryInv'
  BY <1>1, RegistryFrame DEF ProgramInv, Ended
<1>5. ConfigurationInv'
  BY <1>1, ConfigurationFrame DEF ProgramInv
<1>6. SocketMatches'
  BY <1>1, <1>2, SocketFrame DEF ProgramInv
<1>7. "sd_socket" \in delivered' => reader' = "served"
  BY DEF SuccessStep, ProgramInv, DeliveryInv
<1>8. DeliveryInv'
  <2>1. CASE pc' = "success"
    <3>1. /\ index' = index + 1 /\ err' = "UL_OK"
          /\ \A k \in Modules :
               k \in delivered' <=> k \in delivered \/ (k = m /\ m \in enabled)
      BY <2>1 DEF SuccessStep
    <3>2. \A k \in Modules :
            k \in delivered' <=>
              /\ k \in enabled'
              /\ \E i \in 1 .. Len(modules') : i < index' /\ modules'[i] = k
      BY <1>2, <3>1, AtModuleFacts
    <3> QED
      BY <1>7, <2>1, <3>1, <3>2 DEF DeliveryInv, Ended
  <2>2. CASE pc' = "handled" /\ err' # "UL_OK"
    BY <1>7, <2>2 DEF DeliveryInv, Ended
  <2>3. CASE pc' = "crashed"
    BY <1>7, <2>3 DEF DeliveryInv, Ended
  <2> QED
    BY <2>1, <2>2, <2>3 DEF SuccessStep
<1>9. SuccessIsDelivery'
  BY <1>1 DEF SuccessIsDelivery
<1> QED
  BY <1>3, <1>4, <1>5, <1>6, <1>8, <1>9

(* A module that is not enabled is passed.                                 *)
LEMMA SkipKeeps ==
  ASSUME ProgramInv, Skip
  PROVE  ProgramInv'
<1>1. PICK m \in Modules \ enabled : AtModule(m)
  BY DEF Skip
<1>2. /\ index' = index + 1 /\ pc' = pc /\ err' = err
      /\ UNCHANGED registry /\ UNCHANGED arguments /\ enabled' = enabled
      /\ fd_count' = fd_count /\ socket_fd' = socket_fd /\ reader' = reader
      /\ is_debug' = is_debug /\ out' = out
      /\ exhausted' = exhausted /\ delivered' = delivered
  BY DEF Skip, socket, output
<1>3. pc = "success" /\ err = "UL_OK"
  BY <1>1, AtModuleFacts
<1>4. SuccessStep(m)
  BY <1>1, <1>2, <1>3 DEF SuccessStep
<1>5. out' \in Seq({"debug", "key", "part"})
  BY <1>2 DEF ProgramInv, TypeOK
<1>6. OutputInv'
  BY <1>2, <1>3, EarlyOutput DEF ProgramInv, Ended
<1> QED
  BY <1>1, <1>2, <1>4, <1>5, <1>6, SuccessStepKeeps DEF ProgramInv

(* success() of mod_sd_socket writes nothing to the standard output.       *)
LEMMA SocketKeeps ==
  ASSUME ProgramInv, WriteSocket \/ SocketFails
  PROVE  ProgramInv'
<1>1. /\ AtModule("sd_socket") /\ "sd_socket" \in enabled
      /\ UNCHANGED registry /\ UNCHANGED arguments /\ enabled' = enabled
      /\ fd_count' = fd_count /\ socket_fd' = socket_fd
      /\ is_debug' = is_debug /\ out' = Logged("debug")
      /\ exhausted' = exhausted
  BY DEF WriteSocket, SocketFails, socket
<1>2. "sd_socket" \in Modules /\ "UL_ERRNO" \in Errors \ {"UL_OK"}
  BY DEF Modules, Errors
<1>3. pc = "success" /\ err = "UL_OK"
  BY <1>1, <1>2, AtModuleFacts
<1>4. SuccessStep("sd_socket") /\ reader' \in {reader, "served"}
  BY <1>1, <1>2, <1>3
  DEF WriteSocket, SocketFails, SuccessStep, Returned, Goto, socket
<1>5. /\ out' \in Seq({"debug", "key", "part"})
      /\ ~is_debug => out' = out
  BY <1>1, LoggedProperties DEF ProgramInv, TypeOK
<1>6. /\ "stdout" \in delivered' <=> "stdout" \in delivered
      /\ pc' \in {"success", "handled", "crashed"}
  BY <1>4 DEF SuccessStep
<1>7. OutputInv'
  <2>1. pc' \notin BeforeMerge
    BY <1>6 DEF BeforeMerge
  <2> QED
    BY <1>1, <1>3, <1>5, <1>6, <2>1 DEF ProgramInv, OutputInv, Ended
<1> QED
  BY <1>1, <1>2, <1>4, <1>5, <1>7, SuccessStepKeeps DEF ProgramInv

(* success() of mod_stdout writes the key where nothing was written.       *)
LEMMA WriteStdoutKeeps ==
  ASSUME ProgramInv, WriteStdout
  PROVE  ProgramInv'
<1>1. /\ AtModule("stdout") /\ "stdout" \in enabled
      /\ UNCHANGED registry /\ UNCHANGED arguments /\ enabled' = enabled
      /\ fd_count' = fd_count /\ socket_fd' = socket_fd /\ reader' = reader
      /\ is_debug' = is_debug /\ exhausted' = exhausted
  BY DEF WriteStdout, socket
<1>2. "stdout" \in Modules /\ "UL_ERR" \in Errors \ {"UL_OK"}
  BY DEF Modules, Errors
<1>3. pc = "success" /\ err = "UL_OK" /\ "stdout" \notin delivered
  BY <1>1, <1>2, AtModuleFacts
<1>4. /\ Logged("debug") \in Seq({"debug", "key", "part"})
      /\ ~is_debug => Logged("debug") = <<>>
  <2>1. ~is_debug => out = <<>>
    BY <1>3 DEF ProgramInv, OutputInv, Ended
  <2> QED
    BY <2>1, LoggedProperties DEF ProgramInv, TypeOK
<1>5. \A x \in {"key", "part"} :
        /\ Emit(Logged("debug"), x) \in Seq({"debug", "key", "part"})
        /\ ~is_debug => Emit(Logged("debug"), x) = <<x>>
  BY <1>4, EmitProperties
<1>6. /\ SuccessStep("stdout")
      /\ \/ /\ pc' \in {"handled", "crashed"} /\ delivered' = delivered
            /\ out' \in {Logged("debug"), Emit(Logged("debug"), "part")}
         \/ /\ pc' = "success" /\ delivered' = delivered \cup {"stdout"}
            /\ out' = Emit(Logged("debug"), "key")
  BY <1>1, <1>2, <1>3 DEF WriteStdout, SuccessStep, Returned, Goto
<1>7. /\ out' \in Seq({"debug", "key", "part"})
  BY <1>4, <1>5, <1>6
<1>8. OutputInv'
  <2>1. CASE /\ pc' \in {"handled", "crashed"} /\ delivered' = delivered
             /\ out' \in {Logged("debug"), Emit(Logged("debug"), "part")}
    BY <1>1, <1>3, <1>4, <1>5, <2>1 DEF OutputInv, BeforeMerge, Ended
  <2>2. CASE /\ pc' = "success" /\ delivered' = delivered \cup {"stdout"}
             /\ out' = Emit(Logged("debug"), "key")
    <3>1. ~is_debug => out' = <<"key">>
      BY <1>5, <2>2
    <3>2. <<"key">> # <<"part">>
      OBVIOUS
    <3> QED
      BY <1>1, <2>2, <3>1, <3>2 DEF OutputInv, BeforeMerge
  <2> QED
    BY <1>6, <2>1, <2>2
<1>9. reader' \in {reader, "served"}
  BY <1>1
<1> QED
  BY <1>1, <1>2, <1>6, <1>7, <1>8, <1>9, SuccessStepKeeps DEF ProgramInv

(* At the end of the loop every enabled module has written the key out.    *)
LEMMA HandledSuccessKeeps ==
  ASSUME ProgramInv, HandledSuccess
  PROVE  ProgramInv'
<1>1. /\ pc = "success" /\ Readable /\ index > module_count
      /\ pc' = "handled" /\ index' = 1
      /\ UNCHANGED registry /\ UNCHANGED arguments /\ enabled' = enabled
      /\ modules' = modules /\ module_count' = module_count
      /\ sub_parsers' = sub_parsers /\ sub_inputs' = sub_inputs
      /\ sub_count' = sub_count
      /\ asked' = asked /\ cli_args' = cli_args
      /\ config_args' = config_args /\ handled' = handled /\ args' = args
      /\ fd_count' = fd_count /\ socket_fd' = socket_fd /\ reader' = reader
      /\ is_debug' = is_debug /\ out' = out
      /\ exhausted' = exhausted /\ delivered' = delivered /\ err' = err
  BY DEF HandledSuccess, Goto, registry, arguments, socket, output
<1>2. TypeOK'
  BY <1>1 DEF ProgramInv, TypeOK, PCs, Builtin
<1>3. RegistryInv'
  BY <1>1, RegistryFrame DEF ProgramInv, Ended
<1>4. ConfigurationInv'
  BY <1>1, ConfigurationFrame DEF ProgramInv
<1>5. SocketMatches'
  BY <1>1, SocketFrame DEF ProgramInv
<1>6. delivered = enabled
  <2>1. \A m \in Modules :
          m \in delivered <=>
            /\ m \in enabled
            /\ \E i \in 1 .. Len(modules) : i < index /\ modules[i] = m
    BY <1>1 DEF ProgramInv, DeliveryInv
  <2>2. \A i \in 1 .. Len(modules) : i < index
    BY <1>1 DEF Readable, ProgramInv, TypeOK
  <2>3. \A m \in enabled : \E i \in 1 .. Len(modules) : modules[i] = m
    BY <1>1 DEF ProgramInv, RegistryInv, Registered, Ended
  <2> QED
    BY <2>1, <2>2, <2>3 DEF ProgramInv, TypeOK
<1>7. DeliveryInv' /\ SuccessIsDelivery'
  BY <1>1, <1>6 DEF ProgramInv, DeliveryInv, SuccessIsDelivery, Ended
<1>8. OutputInv'
  BY <1>1 DEF ProgramInv, OutputInv, BeforeMerge, Ended
<1> QED
  BY <1>2, <1>3, <1>4, <1>5, <1>7, <1>8 DEF ProgramInv

(* The end of main() keeps the invariant.                                  *)
LEMMA CleanupKeeps ==
  ASSUME ProgramInv, Cleanup
  PROVE  ProgramInv'
<1>1. /\ pc \in {"cleanup", "handled"} /\ index' = index
      /\ \/ /\ modules' = <<>> /\ module_count' = 0 /\ pc' = ExitStatus
         \/ /\ modules' = modules /\ module_count' = module_count
            /\ pc' = "crashed"
      /\ sub_parsers' = sub_parsers /\ sub_inputs' = sub_inputs
      /\ sub_count' = 0 /\ enabled' = enabled
      /\ asked' = asked /\ cli_args' = cli_args
      /\ config_args' = config_args /\ handled' = handled
      /\ args' = create_args
      /\ fd_count' = fd_count /\ socket_fd' = socket_fd /\ reader' = reader
      /\ is_debug' = is_debug /\ out' \in {out, Logged("error")}
      /\ exhausted' = exhausted /\ delivered' = delivered /\ err' = err
  BY DEF Cleanup, free_args, free_child_parsers, socket
<1>2. /\ pc' \in Ended /\ pc' \in PCs
      /\ pc' = "EXIT_SUCCESS" => err = "UL_OK"
  BY <1>1 DEF ExitStatus, Ended, PCs
<1>3. /\ out' \in Seq({"debug", "key", "part"})
      /\ ~is_debug => out' = out
  BY <1>1, LoggedProperties DEF ProgramInv, TypeOK
<1>4. TypeOK'
  <2>1. /\ modules' \in Seq(Modules) /\ module_count' \in 0 .. Len(Builtin)
        /\ sub_count' \in 0 .. Len(Builtin)
    <3>1. 0 \in 0 .. Len(Builtin) /\ <<>> \in Seq(Modules)
      BY EmptySeq DEF Builtin
    <3> QED
      BY <1>1, <3>1 DEF ProgramInv, TypeOK
  <2> QED
    BY <1>1, <1>2, <1>3, <2>1, StartingArguments DEF ProgramInv, TypeOK
<1>5. RegistryInv'
  <2>1. modules' \in ModuleLists
    BY <1>1 DEF ProgramInv, RegistryInv, ModuleLists
  <2> QED
    BY <1>1, <1>2, <2>1 DEF ProgramInv, RegistryInv, Ended
<1>6. ConfigurationInv' /\ SocketMatches'
  BY <1>2 DEF ConfigurationInv, SocketMatches, BeforeMerge, Ended
<1>7. DeliveryInv'
  BY <1>1, <1>2 DEF ProgramInv, DeliveryInv, Ended
<1>8. SuccessIsDelivery'
  <2>1. SUFFICES ASSUME pc' = "EXIT_SUCCESS"
                 PROVE  /\ delivered' = enabled'
                        /\ "sd_socket" \in enabled' => reader' = "served"
    BY DEF SuccessIsDelivery
  <2>2. pc = "handled" /\ delivered = enabled
    BY <1>1, <1>2, <2>1 DEF ProgramInv, DeliveryInv
  <2> QED
    BY <1>1, <2>2 DEF ProgramInv, DeliveryInv
<1>9. OutputInv'
  <2>1. pc \notin BeforeMerge /\ pc' \notin BeforeMerge
    BY <1>1, <1>2 DEF BeforeMerge, Ended
  <2>2. out # <<"part">> \/ is_debug \/ "stdout" \in enabled
    BY DEF ProgramInv, OutputInv
  <2> QED
    BY <1>1, <1>2, <1>3, <2>1, <2>2 DEF ProgramInv, OutputInv
<1> QED
  BY <1>4, <1>5, <1>6, <1>7, <1>8, <1>9 DEF ProgramInv

(* The process at the other end of the socket disturbs nothing.            *)
LEMMA ReaderKeeps ==
  ASSUME ProgramInv, Connect \/ GiveUp
  PROVE  ProgramInv'
<1>1. /\ reader # "served" /\ reader' \in {"waiting", "elsewhere", "gone"}
      /\ pc' = pc /\ index' = index /\ UNCHANGED registry
      /\ modules' = modules /\ module_count' = module_count
      /\ sub_parsers' = sub_parsers /\ sub_inputs' = sub_inputs
      /\ sub_count' = sub_count /\ enabled' = enabled
      /\ UNCHANGED arguments
      /\ asked' = asked /\ cli_args' = cli_args
      /\ config_args' = config_args /\ handled' = handled /\ args' = args
      /\ fd_count' = fd_count /\ socket_fd' = socket_fd
      /\ is_debug' = is_debug /\ out' = out
      /\ exhausted' = exhausted /\ delivered' = delivered /\ err' = err
  BY DEF Connect, GiveUp, registry, arguments, output
<1>2. TypeOK'
  BY <1>1 DEF ProgramInv, TypeOK
<1>3. RegistryInv'
  BY <1>1 DEF ProgramInv, RegistryInv, FirstRegistered, Readable, Options,
     Registered
<1>4. ConfigurationInv'
  BY <1>1, ConfigurationFrame DEF ProgramInv
<1>5. SocketMatches'
  BY <1>1, SocketFrame DEF ProgramInv
<1>6. DeliveryInv' /\ SuccessIsDelivery'
  BY <1>1 DEF ProgramInv, DeliveryInv, SuccessIsDelivery
<1>7. OutputInv'
  BY <1>1 DEF ProgramInv, OutputInv
<1> QED
  BY <1>2, <1>3, <1>4, <1>5, <1>6, <1>7 DEF ProgramInv

-----------------------------------------------------------------------------
(* The invariant holds in every state.                                     *)

(* main() starts with nothing registered, asked for or written.            *)
LEMMA InitEstablishes == Init => ProgramInv
<1> SUFFICES ASSUME Init PROVE ProgramInv
  OBVIOUS
<1>1. TypeOK
  <2>1. /\ 0 \in 0 .. Len(Builtin) /\ 1 \in 1 .. Len(Builtin) + 1
        /\ \A S : <<>> \in Seq(S)
    BY EmptySeq DEF Builtin
  <2>2. asked \in [cli : SUBSET Fields, options : SUBSET Modules,
                   config : SUBSET Fields, verbose : BOOLEAN]
    BY DEF Init
  <2> QED
    BY <2>1, <2>2, StartingArguments DEF Init, TypeOK, PCs, Errors
<1>2. RegistryInv
  <2>1. <<>> \in ModuleLists /\ <<>> \in ParserLists
    BY DEF ModuleLists, ParserLists
  <2>2. Options = {}
    BY ListElements DEF Init
  <2> QED
    BY <2>1, <2>2 DEF Init, RegistryInv
<1>3. ConfigurationInv
  BY DEF Init, ConfigurationInv, BeforeMerge
<1>4. SocketMatches /\ DeliveryInv /\ OutputInv /\ SuccessIsDelivery
  BY DEF Init, SocketMatches, DeliveryInv, OutputInv, SuccessIsDelivery, Ended
<1> QED
  BY <1>1, <1>2, <1>3, <1>4 DEF ProgramInv

(* A step that changes nothing.                                            *)
LEMMA StutterKeeps ==
  ASSUME ProgramInv, UNCHANGED vars
  PROVE  ProgramInv'
<1>1. /\ reader' = reader /\ pc' = pc /\ index' = index
      /\ modules' = modules /\ module_count' = module_count
      /\ sub_parsers' = sub_parsers /\ sub_inputs' = sub_inputs
      /\ sub_count' = sub_count /\ enabled' = enabled
      /\ UNCHANGED arguments
      /\ asked' = asked /\ cli_args' = cli_args
      /\ config_args' = config_args /\ handled' = handled /\ args' = args
      /\ fd_count' = fd_count /\ socket_fd' = socket_fd
      /\ is_debug' = is_debug /\ out' = out
      /\ exhausted' = exhausted /\ delivered' = delivered /\ err' = err
  BY DEF vars, registry, arguments, socket, output
<1>2. TypeOK'
  BY <1>1 DEF ProgramInv, TypeOK
<1>3. RegistryInv'
  BY <1>1 DEF ProgramInv, RegistryInv, FirstRegistered, Readable, Options,
     Registered
<1>4. ConfigurationInv'
  BY <1>1, ConfigurationFrame DEF ProgramInv
<1>5. SocketMatches'
  BY <1>1, SocketFrame DEF ProgramInv
<1>6. DeliveryInv' /\ SuccessIsDelivery'
  BY <1>1 DEF ProgramInv, DeliveryInv, SuccessIsDelivery
<1>7. OutputInv'
  BY <1>1 DEF ProgramInv, OutputInv
<1> QED
  BY <1>2, <1>3, <1>4, <1>5, <1>6, <1>7 DEF ProgramInv

(* The inductive invariant of main() holds in every reachable state.       *)
THEOREM ProgramCorrect == Spec => []ProgramInv
<1>1. Init => ProgramInv
  BY InitEstablishes
<1>2. ProgramInv /\ [Next]_vars => ProgramInv'
  BY StutterKeeps, CreateArgumentsKeeps, RegisterKeeps, ParseCommandLineKeeps, ParseConfigFileKeeps,
     MergeKeeps, ValidateKeeps, InitializeKeeps, RequestKeyKeeps, SkipKeeps,
     SocketKeeps, WriteStdoutKeeps, HandledSuccessKeeps, CleanupKeeps,
     ReaderKeeps
  DEF Next, Main
<1> QED
  BY <1>1, <1>2, PTL DEF Spec

(* No array a loop of main() reads holds an uninitialised element, and the *)
(* counters stay with the arrays.                                          *)
THEOREM ProgramTypeCorrect == Spec => []TypeOK
<1>1. ProgramInv => TypeOK
  BY DEF ProgramInv
<1> QED
  BY <1>1, ProgramCorrect, PTL

(* No key is requested after handle_args() failed or without a member.     *)
THEOREM RequestIsConfiguredHolds == Spec => []RequestIsConfigured
<1>1. ProgramInv => RequestIsConfigured
  BY DEF ProgramInv, ConfigurationInv, RequestIsConfigured, Fields
<1> QED
  BY <1>1, ProgramCorrect, PTL

(* Every member comes from the last source that has it.                    *)
THEOREM LastSourceWinsHolds == Spec => []LastSourceWins
<1>1. ProgramInv => LastSourceWins
  <2> SUFFICES ASSUME ProgramInv, pc = "request", ~exhausted,
                      NEW f \in Fields
               PROVE  args[f] = LastSource(f)
    BY DEF LastSourceWins, LastSource
  <2> QED
    BY DEF ProgramInv, ConfigurationInv
<1> QED
  BY <1>1, ProgramCorrect, PTL

(* The key is requested for a socket that can be written to, or for none.  *)
THEOREM SocketMatchesHolds == Spec => []SocketMatches
<1>1. ProgramInv => SocketMatches
  BY DEF ProgramInv
<1> QED
  BY <1>1, ProgramCorrect, PTL

(* EXIT_SUCCESS means that every enabled module wrote the key out.         *)
THEOREM SuccessIsDeliveryHolds == Spec => []SuccessIsDelivery
<1>1. ProgramInv => SuccessIsDelivery
  BY DEF ProgramInv
<1> QED
  BY <1>1, ProgramCorrect, PTL

(* Without --verbose the standard output holds the key or less.            *)
THEOREM StdoutIsKeyHolds == Spec => []StdoutIsKey
<1>1. ProgramInv => StdoutIsKey
  BY DEF ProgramInv, OutputInv, StdoutIsKey
<1> QED
  BY <1>1, ProgramCorrect, PTL

=============================================================================
