------------------------------ MODULE Program ------------------------------
(***************************************************************************)
(* main() of the unlocked client to its exit status: the registry of       *)
(* module.c, handle_args() of cli.c, the two modules under src/src/mod and *)
(* the process that reads the socket.  What request_key() does before      *)
(* handle_success() is the subject of KeyRequest; here it obtains a key,   *)
(* fails, crashes, or does not end.                                        *)
(***************************************************************************)
EXTENDS Configuration, Integers, Sequences, SequencesExt

CONSTANT Faults   \* which faults occur

FaultKinds == {"oom",     \* malloc, realloc, strdup or calloc returns NULL
               "config",  \* the configuration file cannot be loaded
               "io",      \* accept(), send(), fwrite() or fflush() fails
               "kill"}    \* who reads is gone: writing raises SIGPIPE

ASSUME FaultsAssumption == Faults \subseteq FaultKinds

(* The modules in the order main() registers them. *)
Builtin == <<"sd_socket", "stdout">>
Modules == {"sd_socket", "stdout"}

Errors == {"UL_OK", "UL_DENIED", "UL_ERR", "UL_ERRNO", "UL_MALLOC",
           "UL_SD_SOCKET_DISABLED", "UL_SD_SOCKET_NO_FD",
           "UL_SD_SOCKET_MANY_FD"}

(* The callbacks of a module that are not NULL. *)
get_mod_sd_socket == {"parse_config", "init", "success", "cleanup"}
get_mod_stdout == {"parse_config", "success", "cleanup"}

Callbacks(m) == CASE m = "sd_socket" -> get_mod_sd_socket
                  [] m = "stdout" -> get_mod_stdout

VARIABLES
  pc,            \* where main() is
  index,         \* the module a loop over the modules is at
  modules,       \* modules: the registered modules, <<>> for NULL
  module_count,
  sub_parsers,   \* the option parsers of the modules, <<>> for NULL
  sub_inputs,    \* sub_parser_inputs: the modules they set, <<>> for NULL
  sub_count,     \* sub_parser_count
  enabled,       \* the modules with module->enabled set
  asked,         \* what the command line and the file asked for
  cli_args,
  config_args,
  args,          \* the arguments main() passes on
  handled,       \* what handle_args() returned
  fd_count,      \* the file descriptors systemd passed, or an error
  socket_fd,     \* state->socket_fd of mod_sd_socket
  reader,        \* the process at the other end of the socket
  is_debug,      \* whether --verbose is in force
  out,           \* what the standard output holds
  delivered,     \* the modules that wrote the key out
  err,           \* what main() fails with, UL_ERR for a missing argument
  exhausted      \* whether an allocation has failed

registry == <<modules, module_count, sub_parsers, sub_inputs, sub_count>>
arguments == <<asked, cli_args, config_args, args, handled>>
socket == <<fd_count, socket_fd, reader>>
output == <<is_debug, out>>
vars == <<pc, index, registry, enabled, arguments, socket, output, delivered,
          err, exhausted>>

-----------------------------------------------------------------------------
(* The sets of allocations, out of A, that fail together.                  *)
OutOfMemory(A) == IF "oom" \in Faults THEN SUBSET A ELSE {{}}

Remember(failed) == exhausted' = (exhausted \/ failed # {})

Goto(at) == pc' = at /\ index' = 1

(* The text with x at its end; messages of one kind in a row count once.   *)
Emit(text, x) ==
  IF text # <<>> /\ Last(text) = x THEN text ELSE Append(text, x)

(* Seeded fault: only errors go to the standard error. *)
StreamOfErrors(level) ==
  CASE level = "error" -> "stderr"
    [] level = "debug" /\ ~is_debug -> "nowhere"
    [] OTHER -> "stdout"

(* The stream of a message. *)
Stream(level) ==
  CASE level \in {"error", "warning"} -> "stderr"
    [] level = "debug" /\ ~is_debug -> "nowhere"
    [] OTHER -> "stdout"

(* The output after logger() was called with a message of this level. *)
Logged(level) == IF Stream(level) = "stdout" THEN Emit(out, level) ELSE out

(* realloc() to one element more.  Of an array that was NULL the elements  *)
(* before the new one are not initialised.                                 *)
Grow(array, count, element) ==
  Append([i \in 1 .. count |-> IF i <= Len(array) THEN array[i] ELSE "garbage"],
         element)

(* The loops of module.c read modules[0] to modules[module_count - 1].     *)
Readable == Len(modules) = module_count

Registered == {modules[i] : i \in 1 .. Len(modules)}

(* register_child_parser() for module m: first the list of parsers and its *)
(* terminator, then the list of inputs are reallocated.                    *)
RegisterChildParser(m, failed) ==
  \/ /\ failed \cap {"parsers", "inputs"} = {}
     /\ sub_parsers' = Grow(sub_parsers, sub_count, m)
     /\ sub_inputs' = Grow(sub_inputs, sub_count, m)
     /\ sub_count' = sub_count + 1
  \/ /\ "parsers" \in failed
     /\ sub_parsers' = <<>>
     /\ UNCHANGED <<sub_inputs, sub_count>>
  \/ /\ "parsers" \notin failed /\ "inputs" \in failed
     /\ sub_parsers' = IF sub_parsers = <<>> THEN <<"garbage">> ELSE sub_parsers
     /\ sub_inputs' = <<>>
     /\ UNCHANGED sub_count

(* The first lines of main(): without its arguments it ends at once.       *)
CreateArguments ==
  /\ pc = "main"
  /\ \E failed \in OutOfMemory({"args"}) :
       /\ Remember(failed)
       /\ IF failed # {}
          THEN pc' = "EXIT_FAILURE" /\ UNCHANGED args
          ELSE pc' = "register" /\ args' = DefaultArguments
  /\ UNCHANGED <<index, registry, enabled, asked, cli_args, config_args,
                 handled, socket, output, delivered, err>>

NextModule ==
  IF index = Len(Builtin) THEN Goto("arguments")
                          ELSE index' = index + 1 /\ UNCHANGED pc

(* register_module(get_mod_*()) for the next module; main() ignores what   *)
(* it returns, and it what register_child_parser() returns.  That one      *)
(* dereferences the module, NULL if get_mod_*() failed.                    *)
Register ==
  /\ pc = "register"
  /\ \E failed \in OutOfMemory({"module", "modules", "parsers", "inputs"}) :
       /\ Remember(failed)
       /\ \/ /\ "modules" \in failed
             /\ modules' = <<>>
             /\ NextModule
             /\ UNCHANGED <<module_count, sub_parsers, sub_inputs, sub_count>>
          \/ /\ "modules" \notin failed
             /\ modules' = Grow(modules, module_count, Builtin[index])
             /\ module_count' = module_count + 1
             /\ \/ /\ "module" \in failed
                   /\ pc' = "crashed"
                   /\ UNCHANGED <<index, sub_parsers, sub_inputs, sub_count>>
                \/ /\ "module" \notin failed
                   /\ RegisterChildParser(Builtin[index], failed)
                   /\ NextModule
  /\ UNCHANGED <<enabled, arguments, socket, output, delivered, err>>

(* The options argp knows: its children end where their terminator is.     *)
Options == {sub_parsers[i] : i \in 1 .. Len(sub_parsers)} \cap Modules

(* The modules the parsers of their options set module->enabled of. *)
sd_socket_parser(options) == options \cap {"sd_socket"}
stdout_parser(options) == options \cap {"stdout"}

(* parse_opt() copies sub_inputs[0 .. sub_count - 1] to the inputs argp    *)
(* reserved for the children; with uninitialised children anything goes.   *)
ParsersBroken ==
  sub_count > Len(sub_parsers) \/ sub_count > Len(sub_inputs)
ParsersUndefined == sub_count < Len(sub_parsers)

(* handle_args() up to the configuration file: argp_parse() sets           *)
(* module->enabled and fills cli_args.  An unknown option ends the program.*)
ParseCommandLine ==
  /\ pc = "arguments"
  /\ \E given \in SUBSET Fields, options \in SUBSET Modules,
        file, verbose \in BOOLEAN, failed \in OutOfMemory(StringFields \cup {"args", "path"}) :
       /\ asked' = [asked EXCEPT !.cli = given, !.options = options,
                                  !.verbose = verbose]
       /\ Remember(failed)
       /\ \/ /\ "args" \in failed
             /\ handled' = "UL_MALLOC"
             /\ Goto("validate")
             /\ UNCHANGED <<enabled, cli_args>>
          \/ /\ "args" \notin failed
             /\ ParsersBroken \/ ParsersUndefined
             /\ pc' = "crashed"
             /\ UNCHANGED <<index, enabled, cli_args, handled>>
          \/ /\ "args" \notin failed
             /\ ~ParsersBroken
             /\ ~(options \subseteq Options)
             /\ pc' = "usage"
             /\ UNCHANGED <<index, enabled, cli_args, handled>>
          \/ /\ "args" \notin failed
             /\ ~ParsersBroken
             /\ options \subseteq Options
             /\ enabled' = enabled \cup sd_socket_parser(options)
                                 \cup stdout_parser(options)
             /\ cli_args' = From("cli", given, failed)
             /\ Goto(IF file /\ "path" \notin failed THEN "file" ELSE "merge")
             /\ UNCHANGED handled
  /\ UNCHANGED <<registry, config_args, args, socket, output, delivered, err>>

(* A module's own section of the file: on, off, or nothing said. *)
Uses == {1, 0, -1}

(* parse_config() of a built-in module, in its module->enabled. *)
EnabledByFile(m, use) == IF use = -1 THEN m \in enabled ELSE use = 1

(* parse_config_file(): any error leaves handle_args() at once, before     *)
(* anything is merged.                                                     *)
ParseConfigFile ==
  /\ pc = "file"
  /\ \E given \in SUBSET Fields, uses \in [Modules -> Uses],
        failed \in OutOfMemory(StringFields) :
       /\ asked' = [asked EXCEPT !.config = given]
       /\ Remember(failed)
       /\ \/ /\ "config" \in Faults
             /\ handled' = "UL_ERR"
             /\ Goto("validate")
             /\ UNCHANGED <<enabled, config_args>>
          \/ /\ given \cap failed # {}
             /\ handled' = "UL_MALLOC"
             /\ Goto("validate")
             /\ UNCHANGED <<enabled, config_args>>
          \/ /\ given \cap failed = {}
             /\ config_args' = From("config", given, {})
             /\ IF Readable
                THEN /\ enabled' = {m \in Modules : IF m \in Registered
                                                    THEN EnabledByFile(m, uses[m])
                                                    ELSE m \in enabled}
                     /\ Goto("merge")
                ELSE pc' = "crashed" /\ UNCHANGED <<index, enabled>>
             /\ UNCHANGED handled
  /\ out' = IF handled' = "UL_ERR" THEN Logged("error") ELSE out
  /\ UNCHANGED <<registry, cli_args, args, socket, is_debug, delivered, err>>

(* The rest of handle_args(): only here messages of the level "debug" are  *)
(* switched on.                                                            *)
Merge ==
  /\ pc = "merge"
  /\ \E lost1, lost2 \in OutOfMemory(StringFields) :
       /\ args' = merge_config(merge_config(args, config_args, lost1),
                               cli_args, lost2)
       /\ Remember(lost1 \cup lost2)
  /\ is_debug' = asked.verbose
  /\ Goto("validate")
  /\ UNCHANGED <<registry, enabled, asked, cli_args, config_args, handled,
                 socket, out, delivered, err>>

(* Seeded fault: nothing is required. *)
NothingRequired == {}

(* The members validate_args() requires; "port" is never 0 here. *)
Required == StringFields

(* main() does not look at what handle_args() returned. *)
Validate ==
  /\ pc = "validate"
  /\ IF \E f \in Required : args[f] = "NULL"
     THEN err' = "UL_ERR" /\ Goto("cleanup")
     ELSE Goto("init") /\ UNCHANGED err
  /\ UNCHANGED <<registry, enabled, arguments, socket, output, delivered,
                 exhausted>>

(* Seeded fault: init() of mod_sd_socket does nothing unless the module is *)
(* enabled.                                                                *)
InitIfEnabled(on) ==
  CASE ~on -> {"UL_OK"}
    [] on /\ fd_count = 0 -> {"UL_SD_SOCKET_NO_FD"}
    [] on /\ fd_count > 1 -> {"UL_SD_SOCKET_MANY_FD"}
    [] on /\ fd_count = 1 -> {"UL_OK"}
    [] OTHER -> {"crashed"}

(* Seeded fault: of several descriptors the first is taken. *)
InitFirstOfMany(on) ==
  CASE ~on /\ fd_count > 0 -> {"UL_SD_SOCKET_DISABLED"}
    [] ~on /\ fd_count <= 0 -> {"UL_OK"}
    [] on /\ fd_count = 0 -> {"UL_SD_SOCKET_NO_FD"}
    [] on /\ fd_count > 0 -> {"UL_OK"}
    [] OTHER -> {"crashed"}

(* init() of mod_sd_socket.  With a negative count, an error of            *)
(* sd_listen_fds_with_names(), there are no names to log.                  *)
InitSocket(on) ==
  CASE ~on /\ fd_count > 0 -> {"UL_SD_SOCKET_DISABLED"}
    [] ~on /\ fd_count <= 0 -> {"UL_OK"}
    [] on /\ fd_count = 0 -> {"UL_SD_SOCKET_NO_FD"}
    [] on /\ fd_count > 1 -> {"UL_SD_SOCKET_MANY_FD"}
    [] on /\ fd_count = 1 -> {"UL_OK"}
    [] OTHER -> {"crashed"}

(* Seeded fault: the number of descriptors is added to the first one. *)
PastTheLast == 3 + fd_count

(* SD_LISTEN_FDS_START + 0 *)
FirstDescriptor == 3

(* initialize_modules(): mod_sd_socket is the only one to have init(). *)
Initialize ==
  /\ pc = "init"
  /\ \E e \in IF ~Readable THEN {"crashed"}
              ELSE IF \E m \in Registered : "init" \in Callbacks(m)
              THEN InitSocket("sd_socket" \in enabled)
              ELSE {"UL_OK"} :
       IF e = "crashed"
       THEN pc' = "crashed" /\ UNCHANGED <<index, socket_fd, err>>
       ELSE /\ err' = e
            /\ Goto(IF e = "UL_OK" THEN "request" ELSE "cleanup")
            /\ socket_fd' = IF e = "UL_OK" /\ "sd_socket" \in enabled
                            THEN FirstDescriptor ELSE socket_fd
  /\ out' = IF socket_fd' # socket_fd THEN Logged("debug") ELSE out
  /\ UNCHANGED <<registry, enabled, arguments, fd_count, reader, is_debug,
                 delivered, exhausted>>

(* What comes of request_key() up to handle_success(), see KeyRequest: it  *)
(* may also crash, and, as it polls for as long as the request is pending, *)
(* with no limit on the time of an exchange, nothing may come of it.  It   *)
(* logs the exchanges, warns about an unexpected content type, and logs an *)
(* error if it cannot go on.                                               *)
RequestKey ==
  /\ pc = "request"
  /\ \/ Goto("success") /\ UNCHANGED err
     \/ pc' = "crashed" /\ UNCHANGED <<index, err>>
     \/ \E e \in {"UL_DENIED", "UL_ERR", "UL_MALLOC"} :
          err' = e /\ Goto("cleanup")
  /\ out' \in {Logged("debug"), Logged("warning"), Logged("error")}
  /\ UNCHANGED <<registry, enabled, arguments, socket, is_debug, delivered,
                 exhausted>>

-----------------------------------------------------------------------------
(* handle_success(): one step per module.                                  *)

AtModule(m) == pc = "success" /\ Readable /\ index <= module_count
               /\ modules[index] = m

(* Seeded fault: the loop goes on after an error, which the next module    *)
(* overwrites.                                                             *)
GoOn(e) == err' = e /\ index' = index + 1 /\ UNCHANGED pc

(* The callback returned e: an error ends the loop. *)
Returned(e) ==
  /\ err' = e
  /\ IF e = "UL_OK" THEN index' = index + 1 /\ UNCHANGED pc
                    ELSE Goto("handled")

Skip ==
  /\ \E m \in Modules \ enabled : AtModule(m)
  /\ index' = index + 1
  /\ UNCHANGED <<pc, registry, enabled, arguments, socket, output, delivered,
                 err, exhausted>>

(* success() of mod_sd_socket: accept() blocks until there is a reader on  *)
(* the first of the sockets.  If the reader is gone SIGPIPE ends the       *)
(* process, or send() fails where the signal is ignored, as it is in a     *)
(* service of systemd.                                                     *)
WriteSocket ==
  /\ AtModule("sd_socket") /\ "sd_socket" \in enabled
  /\ \/ /\ reader = "waiting"
        /\ reader' = "served"
        /\ delivered' = delivered \cup {"sd_socket"}
        /\ Returned("UL_OK")
     \/ /\ reader = "gone"
        /\ \/ pc' = "crashed" /\ UNCHANGED <<index, err>>
           \/ Returned("UL_ERRNO")
        /\ UNCHANGED <<reader, delivered>>
  /\ out' = Logged("debug")
  /\ UNCHANGED <<registry, enabled, arguments, fd_count, socket_fd, is_debug,
                 exhausted>>

(* accept() or send() fails. *)
SocketFails ==
  /\ "io" \in Faults
  /\ AtModule("sd_socket") /\ "sd_socket" \in enabled
  /\ Returned("UL_ERRNO")
  /\ out' = Logged("debug")
  /\ UNCHANGED <<registry, enabled, arguments, socket, is_debug, delivered,
                 exhausted>>

(* success() of mod_stdout.  Unless it succeeds, nothing or a part of the  *)
(* key is written.                                                         *)
WriteStdout ==
  /\ AtModule("stdout") /\ "stdout" \in enabled
  /\ \/ /\ "io" \in Faults
        /\ Returned("UL_ERR")
        /\ out' \in {Logged("debug"), Emit(Logged("debug"), "part")}
        /\ UNCHANGED delivered
     \/ /\ delivered' = delivered \cup {"stdout"}
        /\ out' = Emit(Logged("debug"), "key")
        /\ Returned("UL_OK")
     \/ /\ "kill" \in Faults
        /\ pc' = "crashed"
        /\ out' \in {Logged("debug"), Emit(Logged("debug"), "part")}
        /\ UNCHANGED <<index, delivered, err>>
  /\ UNCHANGED <<registry, enabled, arguments, socket, is_debug, exhausted>>

HandledSuccess ==
  /\ pc = "success" /\ Readable /\ index > module_count
  /\ Goto("handled")
  /\ UNCHANGED <<registry, enabled, arguments, socket, output, delivered, err,
                 exhausted>>

(* The exit status of main(). *)
ExitStatus == IF err = "UL_OK" THEN "EXIT_SUCCESS" ELSE "EXIT_FAILURE"

(* The arguments main() has allocated are gone. *)
free_args == args' = create_args

(* The pointers to the two arrays of option parsers are not reset. *)
free_child_parsers ==
  /\ sub_count' = 0
  /\ UNCHANGED <<sub_parsers, sub_inputs>>

(* The end of main(), with cleanup_modules(): cleanup() of a built-in      *)
(* module never fails.                                                     *)
Cleanup ==
  /\ pc \in {"cleanup", "handled"}
  /\ IF Readable
     THEN /\ modules' = <<>> /\ module_count' = 0
          /\ pc' = ExitStatus
     ELSE /\ pc' = "crashed"
          /\ UNCHANGED <<modules, module_count>>
  /\ free_args /\ free_child_parsers
  /\ out' = IF err = "UL_OK" THEN out ELSE Logged("error")
  /\ UNCHANGED <<index, enabled, asked, cli_args, config_args, handled, socket,
                 is_debug, delivered, err, exhausted>>

(* The process that wants the key connects to the socket, to any of them   *)
(* if there are several, and may give up waiting.  The connection stays in *)
(* the queue of accept().                                                  *)
Connect ==
  /\ reader = "none" /\ fd_count > 0
  /\ reader' \in {"waiting"} \cup (IF fd_count > 1 THEN {"elsewhere"} ELSE {})
  /\ UNCHANGED <<pc, index, registry, enabled, arguments, fd_count, socket_fd,
                 output, delivered, err, exhausted>>

GiveUp ==
  /\ "kill" \in Faults
  /\ reader = "waiting"
  /\ reader' = "gone"
  /\ UNCHANGED <<pc, index, registry, enabled, arguments, fd_count, socket_fd,
                 output, delivered, err, exhausted>>

-----------------------------------------------------------------------------
Init ==
  /\ pc = "main" /\ index = 1
  /\ modules = <<>> /\ module_count = 0
  /\ sub_parsers = <<>> /\ sub_inputs = <<>> /\ sub_count = 0
  /\ enabled = {}
  /\ asked = [cli |-> {}, options |-> {}, config |-> {},
              verbose |-> FALSE]
  /\ cli_args = create_args /\ config_args = create_args /\ args = create_args
  /\ handled = "UL_OK"
  /\ fd_count \in -1 .. 2
  /\ socket_fd = 0
  /\ reader = "none"
  /\ is_debug = FALSE /\ out = <<>>
  /\ delivered = {}
  /\ err = "UL_OK"
  /\ exhausted = FALSE

Main ==
  \/ CreateArguments \/ Register
  \/ ParseCommandLine \/ ParseConfigFile \/ Merge
  \/ Validate \/ Initialize
  \/ Skip \/ WriteStdout \/ HandledSuccess
  \/ Cleanup

Next == Main \/ RequestKey \/ WriteSocket \/ SocketFails \/ Connect \/ GiveUp

Spec == Init /\ [][Next]_vars

(* The process runs, and whoever needs the key connects to a socket.  The  *)
(* request for the key need not end, and the socket need not fail, so that *)
(* nothing but a reader ends accept().                                     *)
FairSpec ==
  Spec /\ WF_vars(Main) /\ WF_vars(WriteSocket) /\ WF_vars(Connect)

-----------------------------------------------------------------------------
Ended == {"EXIT_SUCCESS", "EXIT_FAILURE", "usage", "crashed"}
PCs == {"main", "register", "arguments", "file", "merge", "validate", "init",
        "request", "success", "handled", "cleanup"} \cup Ended

(* The type invariant.  No element of the two arrays a loop reads is       *)
(* uninitialised, only the list of option parsers can be.                  *)
TypeOK ==
  /\ pc \in PCs
  /\ index \in 1 .. Len(Builtin) + 1
  /\ modules \in Seq(Modules) /\ module_count \in 0 .. Len(Builtin)
  /\ sub_parsers \in Seq(Modules \cup {"garbage"})
  /\ sub_inputs \in Seq(Modules) /\ sub_count \in 0 .. Len(Builtin)
  /\ enabled \subseteq Modules
  /\ asked \in [cli : SUBSET Fields, options : SUBSET Modules,
                config : SUBSET Fields, verbose : BOOLEAN]
  /\ {cli_args, config_args, args} \subseteq Arguments
  /\ handled \in Errors
  /\ fd_count \in -1 .. 2
  /\ socket_fd \in {0, 3}
  /\ reader \in {"none", "waiting", "elsewhere", "gone", "served"}
  /\ is_debug \in BOOLEAN
  /\ out \in Seq({"debug", "key", "part"})
  /\ delivered \subseteq Modules
  /\ err \in Errors
  /\ exhausted \in BOOLEAN

(* No request for a key is made when handle_args() failed, although main() *)
(* ignores that it did, or when a required member was lost on the way; and *)
(* no source can unset a member that has a default value, such as the port.*)
RequestIsConfigured ==
  pc = "request" =>
    /\ handled = "UL_OK"
    /\ \A f \in Fields : args[f] # "NULL"

(* Every member a request is made with comes from the last source that has *)
(* it: the command line, then the file, then the defaults (cli.h).  Only   *)
(* an allocation that failed unnoticed lets an earlier source through.     *)
LastSourceWins ==
  pc = "request" /\ ~exhausted =>
    \A f \in Fields :
      args[f] = CASE f \in asked.cli -> "cli"
                  [] f \in asked.config \ asked.cli -> "config"
                  [] OTHER -> DefaultArguments[f]

(* Unless mod_sd_socket could not be registered, no key is requested that  *)
(* it could not pass on: it is enabled exactly when systemd passed one     *)
(* socket, and then accept() is called on that one, never on descriptor 0. *)
SocketMatches ==
  pc \in {"request", "success", "handled"} /\ "sd_socket" \in Registered =>
    /\ "sd_socket" \in enabled => fd_count = 1 /\ socket_fd = 3
    /\ "sd_socket" \notin enabled => fd_count <= 0

(* The program exits with EXIT_SUCCESS only when every enabled module has  *)
(* written the key out, and the reader of an enabled socket has it.        *)
SuccessIsDelivery ==
  pc = "EXIT_SUCCESS" =>
    /\ delivered = enabled
    /\ "sd_socket" \in enabled => reader = "served"

(* Without --verbose the standard output holds the key once mod_stdout has *)
(* reported that it wrote it, at most a part of the key if it failed, and  *)
(* nothing else, in particular no message of logger().                     *)
StdoutIsKey ==
  ~is_debug =>
    IF "stdout" \in delivered THEN out = <<"key">>
    ELSE IF "stdout" \in enabled THEN out \in {<<>>, <<"part">>}
    ELSE out = <<>>

(* Provided that somebody connects, the program ends unless request_key()  *)
(* hangs in its exchanges: it never asks for a key that accept() would     *)
(* then hold back, waiting on a socket nobody connects to.                 *)
Terminates == <>(pc \in Ended) \/ <>[](pc = "request")

(* What cli.h says of the sources, of the options of the modules: a module *)
(* the command line asks for is enabled.                                   *)
CommandLineEnables == pc = "request" => asked.options \subseteq enabled

(* What module.h says of handle_success(): the key is provisioned to all   *)
(* the modules, so that a failure of the socket (UL_ERRNO) does not keep   *)
(* it from an enabled mod_stdout.                                          *)
KeyToAllModules ==
  pc = "handled" /\ err = "UL_ERRNO" =>
    enabled \ {"sd_socket"} \subseteq delivered

=============================================================================
