# Verification of the unlocked client

TLA+ models of the unlocked client (`src/`), checked with TLC, and proofs of
their safety, checked with TLAPS. The client runs once, usually started by systemd
in the initial RAM disk: it asks a server for a disk key, waits for an operator to
accept the request, and writes the key to a socket or to its standard output.

Theorems and runs are about the code as it is. Where the code does something
else than its headers say, a run shows the difference (section 5).

## 1. The system

| Part | State | Operations | Talks to |
|---|---|---|---|
| `client.c` | locals of `request_key()`: the request, the response, `request_id`, `request_state`, `key` | POST, poll with GET, PATCH, `handle_success()` | https-client (calls), module (call) |
| `https-client.c` | the list of headers and the curl handle of an exchange, `struct Response` | `https_hmac_GET/PATCH/POST()`, `header_callback()`, `write_callback()`, `add_*_header()`, `get_content_type()` | libcurl, which calls the two callbacks; the server |
| `cli.c` | `cli_args`, `config_args`, `sub_parsers`, `sub_parser_inputs`, `sub_parser_count` | `handle_args()`, `merge_config()`, `parse_config_file()`, `register_child_parser()` | argp (calls `parse_opt()` and the parsers of the modules), iniparser, module |
| `main.c` | `arguments`, `err` | one sequence with three exits | everything |
| `mod/module.c` | `modules`, `module_count` | `register_module()`, `parse_config()`, `initialize_modules()`, `handle_success()`, `handle_failure()`, `cleanup_modules()` | the callbacks of the modules |
| `mod/mod_sd_socket.c` | `enabled`, `socket_fd` | option, `[sd_socket]`, `init()`, `success()` | systemd (descriptors), the process at the other end |
| `mod/mod_stdout.c` | `enabled` | option, `[stdout]`, `success()` | standard output |
| `sockets.c` | `socket_fd` | `init_socket()`, `socket_callback()`, `cleanup_socket()` | nobody: not called by the program |
| `error.c`, `log.c` | `is_debug` of `cli.c` | `logger()`: stream and wording of messages | everything |
| systemd units | the socket and its queue | start of the service | the program, those who need the key |

The client has one thread. What makes it hard is its environment: the server
and its operator act between any two of its steps; an exchange can be lost
before or after the server has served it; the process can be killed and another
one started while a request of the first is still under way; every allocation
can fail, and several failures are not looked at by the caller; and most return
values of an exchange are ignored, so that what happens next depends on what is
left in `struct Response`.

What makes each part correct:

* `client.c`: a process works on its own request, asks for the key only after
  the request was accepted, hands a key on only when the server fulfilled that
  request, tells a denial from a failure, ends, and releases what it allocated.
* `https-client.c`: the text that is signed can be rebuilt from what is sent, the
  response holds exactly what arrived, no byte is written past a buffer,
  everything is released.
* `cli.c`, `main.c`: the last source that has a value wins, and no request is
  made with a configuration that could not be read.
* `module.c` and the modules: the socket and the configuration agree before a
  key is spent, and success is reported only when every enabled module has
  written the key; the loops of the registry keep their order, and what was
  initialised is cleaned up, once.
* The service: no request yields the key to two readers, nobody who has connected
  is forgotten, and a key that was released reaches somebody if nothing fails.

## 2. Modules

| Module | About |
|---|---|
| `KeyProvision` | Abstract: ask once, an operator decides, the key is released once, only the asker is provided. No exchanges, no memory. |
| `KeyRequest` | `request_key()` of several processes, the wire, the server and its operator. |
| `KeyRequestRefinement` | The refinement mapping from `KeyRequest` to `KeyProvision`. |
| `KeyRequestInvariant` | The inductive invariant of `KeyRequest`. |
| `KeyRequestProofs`, `KeyRequestRefinementProofs` | Theorems about `KeyRequest`. |
| `ServiceProofs` | Theorems about `Service`, on top of those. |
| `ProgramProofs`, `HttpsExchangeProofs`, `HeaderTextProofs` | Invariants of these modules and theorems about them. |
| `ModuleRegistryProofs`, `ModuleRegistryRefinementProofs` | The same for `ModuleRegistry`, and that it implements `Broadcast`. |
| `Service` | `KeyRequest` under systemd: the socket unit, its queue, `handle_success()` with the `success()` of both modules, the start of the next process. Extends `KeyRequest`. |
| `Configuration` | `struct arguments` and `merge_config()`. |
| `Program` | `main()`, the registry, the arguments, both modules, the reader of the socket, the standard output. Extends `Configuration`. |
| `Broadcast` | Abstract: the members that listen are told in order, none twice, until one reports an error. |
| `ModuleRegistry` | `module.c` for any modules and callbacks, under `main()` and under its tests; implements `Broadcast`. |
| `HttpsExchange` | One exchange: the list of headers, callbacks, buffer, what is released. |
| `HeaderText` | The text of headers, character by character: `get_content_type()`, `joinHeaderNames()`, the text that is signed. |
| `MCKeyRequest`, `MCService`, `MCProgram`, `MCModuleRegistry`, `MCHttpsExchange`, `MCHeaderText` | Instances for TLC. |

### KeyRequest

`pc[c]` is the place of process `c` in `request_key()`. An exchange is two
actions, one that sends and one for its return, because everything else can
happen in between:

| Action | Code |
|---|---|
| `Post` | up to `https_hmac_POST()`: body, url, `init_https_client()` |
| `PostReturns` | frees, the `switch` over the status, `get_request_id()`, the url of the request |
| `Poll`, `PollReturns` | the `do` loop and the decision after it (`Conclude`) |
| `Patch`, `PatchReturns` | the PATCH and the copy of its answer |
| `Deliver` | `handle_success()`, which returns whatever the modules return |
| `Kill` | the process is killed at any point |

`heap[c]` is the set of things `c` has allocated; every return lists what is
left of it, so that a missing `free()` shows. `reqBody[c]` is what
`request.body` points to. A response consists of a status and a payload; a
payload is told apart only as far as the client can tell: JSON, text, nothing,
the key or a beginning of it. `Outcomes(c)` is what an exchange can leave in the
response: nothing, the answer, an answer cut short, or an answer whose body
found no memory. Failing allocations are chosen per step, in any combination. A
NULL pointer that is dereferenced is the state "crashed".

The server is not in this repository. It is modelled from what `client.c`
expects of it: a POST answered with 201 and a JSON request, a GET with its state,
a PATCH of an accepted request with the key, errors otherwise. A request can be
withdrawn (`Expire`), which stands for the states the client calls unexpected.

### Service

`Service` puts the processes of `KeyRequest` under systemd. The socket unit
requires the service, so the first process starts at boot (`Boot`); later ones
start when nobody runs and somebody is in `queue`. The queue belongs to systemd
and outlives the process. `handle_success()`, one action in `KeyRequest`
(`Deliver`), is taken apart here, since readers, other processes and the end of
this one can come between its steps. `module` says whose `success()` the loop is
at:

| Action | Code |
|---|---|
| `Accept`, `AcceptFails` | `accept()` of `mod_sd_socket.c`, which blocks while the queue is empty |
| `Send`, `SendFails` | `send()`; after it the loop goes on to `mod_stdout`, registered second (`main.c:75-76`) |
| `WriteStdout` | `success()` of `mod_stdout.c`, if it is enabled; then `handle_success()` returns |
| `Dies` | the process is killed before, between or after these |

So a reader may hold the key (`got`) while its process reports `UL_ERR`, because
the standard output failed, or is killed. `HandlersReturn` ends `Deliver` with the
result. A reader that has given up stays in the queue. Writing to it fails with
`EPIPE`: systemd starts services with SIGPIPE ignored (`IgnoreSIGPIPE=` is on by
default and the units do not change it). `Program`, which need not run under
systemd, has the signal as well. `peer` is the accepted connection, closed when
the process ends.

By construction every step of `Service` is one of `KeyRequest` or leaves its
variables alone; the proofs use that to carry `KeyOnlyIfFulfilled` over. What
the model also shows: after a denial with a reader in the queue, systemd starts
the next process, which asks again.

### Program

Each function called by `main()` is an action; `handle_success()` is one action
per module, so that the other end of the socket can act in between. The
two arrays of `cli.c` and the one of `module.c` are kept with their counts,
because a failed `realloc()` loses the array and not the count: the loops of
`module.c` need `Readable`, argp needs its terminator. A value of an
argument is represented by its origin. `asked` is a record of what the two
sources contained, for the properties.
`request_key()` up to `handle_success()` is one action here, with the outcomes
`KeyRequest` allows: the key, an error, or a crash. It polls without bound, and no
transfer has a timeout, so no fairness makes it end. Without memory for its
arguments `main()` ends at once (`CreateArguments`). With several descriptors
whoever needs the key may connect to another socket than the first
("elsewhere"), which is the only one `success()` would accept from.

`out` is what the standard output holds, as a sequence of kinds: "debug", "key",
"part" of a key. `Stream` is the choice of `logger()`; messages of one kind in a
row count once, which keeps the model finite and hides nothing `StdoutIsKey`
looks at. Messages of the level "debug" are off until `Merge`, whatever the
command line says.

### ModuleRegistry

A module is a name and the set of its callbacks that are not NULL. While a loop of
`module.c` runs, `phase` is the callback it calls and `index` its counter; the
five loops share `Pass`, `Call`, `Return` and `Crash`, since they differ
in the callback and in whether they look at `enabled` (`Listens`). `Afterwards`
is how `main()` goes on. The `caller` is `main()`, or a test, which registers
modules, calls one of the two handlers and cleans up, again and again.
`handle_failure()` is called by the tests only. A `realloc()` that fails loses
the array, as in `Program`; one that is repeated afterwards leaves
uninitialised elements.

`Broadcast` is what these loops do, seen from outside: the first error ends them
(`Stops`). `module.h` says something else of it, that all registered modules are
told (finding 3). Its `audience` is the places of the modules that listen, `told`
those the loop has been at; a module that does not listen is passed in a
stuttering step. A loop that reads through a
lost array is the end of the broadcast (`Die`).

### HttpsExchange

The head of an answer arrives line by line and the body in chunks of any size,
each through its callback. `body` is the memory behind `response->body`, cell by
cell, with "garbage" for what was never written. Of a header only the name is
kept; what is signed is in `HeaderText`, and over which body in `KeyRequest`
(`SignedAsSent`). libcurl is modelled by its documented contract: a callback that
returns something else than it was given ends the transfer.

### HeaderText

A character is a string; "content-type" in either case counts as one, which keeps
the lines short. `Copy` computes the length in `size_t` of modulus `SizeMod`, so
that a length below zero wraps around: `malloc()` then refuses it or the copy
overruns. A line of an answer ends in CR LF or in a bare LF (`LineEnd`): libcurl
passes on what the server sent. The buffers of `authHeader()` are their cells and
the size that was computed for them, separately, as in the code.
`DistinctNames` holds of the requests the client builds; the headers of an answer
may repeat. A name is a token as HTTP has it, without colons and blanks, and no
text of C has a terminator inside. The server is not part of this repository:
`ServerText` is what one has to do that gets the joined names, the headers and the
body (`Words`, `Named`).

## 3. What the runs check

| Run | Instance | Distinct states | Shows |
|---|---|---|---|
| `key_request` | two processes, two ids, all five faults | 270 thousand | six safety properties, the inductive invariant, the refinement of `KeyProvision`, and that the poll loop ends |
| `service` | two starts of the service, two readers, failing exchanges and output, withdrawn requests, kills | 878 thousand | who gets a key, what success means, and that nobody waits forever |
| `service_serves` | the same without faults | 1.2 thousand | readers are served, accepted keys arrive |
| `not_the_key` | one process, a server that refuses | small | finding 1 |
| `program` | two strings, one number, all four faults | 1.6 million | five safety properties of `main()`, and that it ends or hangs in its request |
| `options` | no fault | small | finding 2 |
| `all_modules` | input and output fail | small | finding 3 |
| `https_exchange` | bodies of up to three bytes, two heads, both faults | 8.6 thousand | four properties of one exchange |
| `registry` | three modules of four shapes, both callers, both faults | 597 thousand | the loops of `module.c` implement `Broadcast`; order of initialisation, use and cleanup |
| `failure_untold` | one module | small | finding 4 |
| `header_text` | two headers, four names, five values, either line end | 301 thousand | the content type, the buffers, the signed text |
| `bare_line_feed` | one header | small | finding 5 |

In every run of safety properties there is also one type invariant, which says a
little more than types: which arrays may hold uninitialised elements, that a connection is
accepted once, and the like.

**Bounds.** `Clients`: two processes are a service and its successor, or two
disks; processes interact only through the ids of the server, and the theorems
cover any number. `MaxId` = 2 gives each process its request; a process opens
one at most (`OwnRequest`), so a larger server has nothing more to offer. `MaxBody`
= 3 allows three chunks, so that the buffer is allocated and grows twice; its
arithmetic depends on the sum of the lengths only. `Heads` are a head
with and one without header lines. `StringFields` stands for the required
members (`host`, `key_handle`, `secret`, `username` are treated alike),
`NumberFields` for `port` and `validate`, which have defaults.
`Clients` in `Service` bounds how often systemd starts the service: two starts
are a process and its successor, and three would repeat the second. Two `Readers`
are one that is served and one that waits, or gives up. `MaxHeaders` = 2: a header
before the one that is looked for, a name after another; `SizeMod` = 64 is above
the length of every buffer and small enough to wrap around. Three `Modules` are
one before and one after the one that fails; `MCShapes` has no callback, the
handlers, those of `mod_sd_socket`, and all.
`fd_count` ranges from an error (-1) to several descriptors (2).

`service` leaves out a server that refuses a valid request and a lack of memory,
for the time they take: to the unit the first is one more request without a key.
`key_request` has both, and the theorems about `Service` cover every set of faults.

**Symmetry.** No run uses any: the runs with many alike processes have liveness
properties, with which it is not sound.

**Deadlock.** The checks are switched off (`CHECK_DEADLOCK FALSE`) since every
process ends and then nothing is left to do. That nobody stops earlier is what
`LoopEnds`, `NobodyWaitsForever`, `Terminates` and `service_serves` say.

**Fairness.** A single-threaded process runs until it waits: weak fairness of
each of its actions. `LoopEnds` and the properties of `Service` also need an environment
that goes on: every exchange is answered (`Create \/ Show \/ Fulfil`) and the
operator looks at every request (`Decide`). Neither is in the power of the code:
no timeout is set for libcurl, and the loop polls as long as the state is
PENDING. No fault is ever due. `Deliver` is not fair, since `accept()` may wait
forever; accordingly `LoopEnds` ends with the delivery. `Terminates` assumes
that somebody connects (`Connect`) to a socket that was passed, and nothing of
`RequestKey`: it allows `main()` to stay in the request for good, and says that
it does not hang anywhere else, in particular in `accept()` on a socket nobody
connects to. Its mutant takes the first of several sockets.
`ServiceFairness` has each step of `handle_success()` fair, and adds that systemd
starts what is due and that every reader connects at last; `ReaderIsServed`
excuses a reader once systemd has stopped starting the service, which it does at
its start limit. `NobodyWaitsForever` has
the same fairness and allows the faults: a reader is sent the key or its
connection is closed.

Every property is paired with a plausible slip in the code, a "Seeded fault" in
the modules, under which TLC finds it violated: an id invented when none
was found, a poll repeated after a failure, a body that is not reset after
`free()`, the wrong source winning, a loop that goes on after an error, and so
on. They are not part of any specification.

## 4. What is proved

`KeyRequestProofs`, for any set of processes, any number of ids and any set of
faults, from the assumptions that `NoClient` is no client, `MaxId` a natural
number and `Faults` a set of known faults:

* `TypeCorrect`, and `InvariantCorrect`: `KeyRequestInv` is inductive;
* its consequences `SignedCorrect`, `OwnRequestCorrect`,
  `KeyOnlyIfFulfilledCorrect`, `PatchOnlyIfAcceptedCorrect`,
  `DeniedIsDeniedCorrect`, `NothingLeakedCorrect`.

`KeyRequestRefinementProofs`: `ProvisionImplemented`, every step of `KeyRequest`
is a step of `KeyProvision` or leaves it alone.

`ServiceProofs`, for any number of starts and readers, from the same assumptions
and that `NoReader` is no reader: `ServiceInvariant`, and its consequences
`ServiceTypeCorrect`, `SuccessIsServedCorrect` and `OneRequestPerReaderCorrect`;
and `ServiceKeyOnlyIfFulfilled`.

**The argument for the service.** That a process serves one reader needs
that nobody was served while it stands before `send()`, which `ServedInv` gives:
whoever has been sent the key has it from a process that has ended, in whatever
way, or is running and past `mod_sd_socket` (`module`). `ModuleInv` adds that its
peer is then the one it has served: an error of `mod_stdout`, or a kill after
`send()`, does not lead to a second `send()`. That a reader's key is
not overwritten needs that a connection that is accepted has not been served
(`PeerInv`), hence that one in the queue has not (`QueueInv`), hence that nobody
connects twice. The lemma `RunKeeps` deals with all steps of a process that give
nothing away; it rests on `ProceedFails`: `request_key()` returns no success
without having called `handle_success()`. `OneRequestPerReader` adds
`KeyOnlyIfFulfilled`, carried over from `KeyRequest`: the request is owned by the
process that hands its key on, so two processes have two.

**The argument for KeyRequest.** None of the properties is inductive alone:
that a process which is handed a key owns a fulfilled request depends on what is
under way for it, which depends on where the process was when it sent it, even
when it has ended since. `KeyRequestInv` therefore has, for every process, what it holds at
each place (`LocalInv`); that a request under way was sent from the place where
the process waits and names its own id, and that a POST under way means that
the process owns nothing yet (`RequestInv`); that an answer says what is still
true, where "accepted" may have become "expired" but never "denied"
(`AnswerInv`); and what the process has learned (`KnowledgeInv`). `ServerInv` adds that
no two requests have the same owner. A step of one process leaves the others
alone (`UntouchedKeeps`); a step of the server on one process's request keeps
the others' invariants (`ServerKeepsOthers`); then there is one lemma per
action. The refinement uses the invariant in two places: a PATCH that is fulfilled is
for an accepted request, and a process that is handed the key owns a fulfilled
one.

`ProgramProofs`, for any set of members of `struct arguments`, at least one of
them a string, and any faults: `ProgramCorrect`, the inductive `ProgramInv`, and
`ProgramTypeCorrect`, `RequestIsConfiguredHolds`, `LastSourceWinsHolds`,
`SocketMatchesHolds`, `SuccessIsDeliveryHolds`, `StdoutIsKeyHolds`.

`ModuleRegistryProofs`, for any finite set of modules with any callbacks, under
`main()` and the tests: `RegistryCorrect`, the inductive `RegistryInv`, and
`RegistryTypeCorrect`, `NoUseAfterCleanupHolds`, `KeyAfterInitHolds`,
`InitialisedAreCleanedHolds`. `ModuleRegistryRefinementProofs`:
`BroadcastImplemented`.

`HttpsExchangeProofs`, for bodies of any length that arrive in any chunks:
`ExchangeCorrect`, the inductive `ExchangeInv`, and `ExchangeTypeCorrect`,
`NoOverflowHolds`, `BodyIsWhatArrivedHolds`, `KeyIsTextHolds`, `ReleasedHolds`.

`HeaderTextProofs`, for any names, values, bodies and number of headers, as long
as no name is empty or has a colon or a blank, no text has a terminator, and no
line reaches half of `SizeMod` (no object is larger than `PTRDIFF_MAX`):
`HeaderTextCorrect`, `SignatureCorrect` and `RebuiltCorrect`, the inductive
`HeaderTextInv`, `SignatureInv` and `RebuiltInv`, and `HeaderTextTypeCorrect`,
`OverrunOnlyIfWrappedHolds`, `WarnedRightlyHolds`, `BuffersFilledHolds`,
`SignedIsRebuiltHolds`.

**The argument for Program.** `SuccessIsDelivery` needs that the loop of
`handle_success()` has been at exactly the modules before its index
(`DeliveryInv`), and that every enabled module is among those it will be at:
`RegistryInv` keeps `enabled` within what is registered while the arrays can be
read, and says which arrays a failed `realloc()` can leave, so that a lost array
crashes a loop instead of skipping modules. `LastSourceWins` needs what the two
structures hold before `merge_config()` combines them, and that a failed
`handle_args()` leaves the defaults (`ConfigurationInv`). There
a proof failed for a reason: `main()` passes the defaults to `validate_args()`
then, and what stops them is a string member without a default. With no string
member at all the request would be made. `Configuration` therefore
assumes that there is one, as `struct arguments` has.

**The argument for ModuleRegistry.** A module has one place in the array and
leaves the set of those on offer when it takes it (`PlacesInv`); so a loop that is
at `index` has called exactly the listeners before it, each once (`LoopInv`).
`CallsInv` carries that over from one loop to the next: when `main()` asks for a
key, the loop over `init()` has come to its end. That `cleanup()`
is called last needs `CallerInv`: `main()` ends with that loop, and the modules
of the tests have no `cleanup()` that it could call. For the refinement
each of `Pass`, `Call`, `Return` and `Crash` is a step of the
abstract loop or leaves it alone.

**The argument for HttpsExchange.** `CellsInv` says for every cell what it
holds: the first `Arrived` bytes of the text, a newline, a terminator, and
what has not arrived is the rest of the text; `NoOverflow` follows from the
length. `HeadersInv` gives the whole list at every step, which bounds it.

**The argument for HeaderText.** libcurl has the end of the head (`LinesInv`)
and the list holds what was before it (`KeptInv`). The work is in the lemmas
about one line: `LineProperties`, it is the name, a colon, the value and an end of
one or two characters; `SkipBeforeEnd`, what `get_content_type()` skips stops
before that end, since neither of its characters is a colon or a blank. After CR
LF, therefore, `strlen(source) - 2` is not negative, and after a bare LF only if
anything is left of the header (`CopyOfLine`); nothing is left only of a value that
was skipped and of a name no longer than "content-type", whose next character
would have stopped the skipping (`TypeTextIsEmpty`). `TypeTextIsValue`: what is
copied is the value without what was skipped. `TypeOfAnswer`
carries it over to the first header that announces a type. For
`OverrunOnlyIfWrapped` the list may have lost headers, but every line in it is
one of the answer (`KeptLines`). `MinProperties` is
induction over numbers in the form the provers can use: a set of numbers has a least
element. A failed proof corrected the model here too: the code skips colons
as well as blanks, also those a value begins with, so that
`Content-Type: :application/json` passes; `IsJson` says so now.

What `authHeader()` writes is a text joined from a list (`FlattenSeq`), and the
size it allocates a sum over that list: functions defined by recursion, of which
the provers know an equation only where the existence of the function has been
shown (`SumProperties`, `FlattenProperties`). `JoinedTexts` relates the two:
whatever precedes the last piece is a text without a terminator, and its length is
the sum of all numbers but the last. It uses `SetInduction`, which is induction
for one set instead of one predicate, from `MinProperties`. `NamesFilled` and
`TextFilled` apply it to the names and to the whole text, where the number
`strstr()` finds has to be the length of the name (`DataProperties`, which is
where a name must not have a colon); `TerminatorAt` adds that the first terminator
is then the last byte.

`SignedIsRebuilt` needs to know where each piece is, not only how long all of
them are: `JoinedPieces` gives the places. `NamesEnded` says that those of the
names are ends of words, a name having no blank; `EndsFound` that a reader who
goes from blank to blank finds exactly these, which is also why the function it
computes exists; `WordsFound` that what is between them are the names in lower
case. Since no two headers have the same name (`RebuiltInv`), each is found under
its own (`HeaderIsNamed`).

Every safety invariant the runs check is proved. Only model-checked:

* Liveness: `LoopEnds`, `Terminates`, `NobodyWaitsForever` and the properties of
  `service_serves`. The provers reach neither liveness under fairness nor `ENABLED`.

## 5. Where the code and its documentation differ

1. `not_the_key`: `request_key()` takes any body of the answer to the PATCH for
   the key, the text of an error included (`client.c:141`). `KeyOnlyIfFulfilled`
   is what does hold.
2. `options`: for the modules, the configuration file overrides the command
   line (`cli.c:189`), contrary to `cli.h:80-85`. For the members of `struct
   arguments` the order is as documented (`LastSourceWins`).
3. `all_modules`: the first module that fails keeps the key from those after it
   (`module.c:86`). `SuccessIsDelivery` says that the exit status tells.
   `cleanup_modules()` stops alike (`module.c:33`), where `module.h:111` speaks of
   all registered modules; `InitialisedAreCleaned` is what does hold. `cleanup()`
   of the two built-in modules never fails.
4. `failure_untold`: nobody calls `handle_failure()`, so a failure never reaches
   the callback `module.h:87` describes (`main.c:99`). No built-in module has one.
5. `bare_line_feed`: `get_content_type()` takes it that every header ends in
   "\r\n" (`https-client.c:129`). After a bare LF the value loses its last
   character, so that JSON is warned about; without a value the length wraps
   around and the copy leaves its memory. `OverrunOnlyIfWrapped` says that this is
   the only way to it, `WarnedRightly` excuses such lines.

Read, and not a matter of a model: `doc/configuration.md` names the key
`use_socked` where the code reads `use_socket`; `skip_validation` is set and
never read; `validate_args()` rejects a port 0, which `merge_config()` takes for
unset, so that it never sees one (`--port abc` is the default port); `--verbose`
writes the bodies of answers to the standard output (`https-client.c:307`).

## 6. What is not modelled

* `date_header()`: the text of a date; a name in the list of `HttpsExchange`.
* `sockets.c`: compiled into the library and called by nothing, tests included.
  Without a caller there is no order of its operations to be faithful to.
* The wording of messages in `error.c` and `log.c`.
* The order of units during boot, stop jobs (`PartOf=`), `ExecStartPre=`, and the
  package. A stop job is a kill followed by no start.
* The number conversion of the id (`client.c:257`): ids are a small set.
* The buffer of the connection: `send()` on a blocking socket writes all of a key
  or fails, since the program installs no signal handler.
* cJSON, iniparser, argp, libcurl, OpenSSL: used through what the code relies on.
* Time: `sleep(1)` between polls has no effect on order.

## 7. Plan

In this order, most important first; all but the last are done.

1. `KeyRequest` with its invariant, `KeyProvision` and the refinement.
2. Proofs: types, the invariant, the safety properties, the refinement.
3. `Configuration` and `Program`.
4. `HttpsExchange`.
5. `ModuleRegistry` and `Broadcast`.
6. `HeaderText`.
7. `Service` and its proofs.
8. Proofs, below.

No proof is left that the provers could reach. What the lemmas of several proof
modules repeat about sequences could be shared, and the small steps of the
recursive functions stated once.
