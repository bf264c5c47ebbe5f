------------------------------ MODULE Service ------------------------------
(***************************************************************************)
(* The client as systemd runs it (src/packaging/systemd): a socket unit    *)
(* listens for the processes that need the key and starts the service, at  *)
(* boot or because somebody has connected.  One client process runs at a   *)
(* time; it requests the key, see KeyRequest, and its module mod_sd_socket *)
(* hands it to the first connection in the queue of the socket.            *)
(*                                                                         *)
(* A service that is started again is the next member of Clients, so that  *)
(* their number bounds how often systemd starts it.                        *)
(***************************************************************************)
EXTENDS KeyRequest, Sequences

CONSTANTS
  Readers,      \* processes that need the key, such as systemd-cryptsetup
  NoReader,     \* not a reader
  OutputFaults  \* whether accept(), send() and writing to stdout may fail

ASSUME ReadersAssumption == NoReader \notin Readers
ASSUME OutputFaultsAssumption == OutputFaults \in BOOLEAN

VARIABLES
  running,  \* the process of the service
  module,   \* whose success() its handle_success() is at
  queue,    \* the connections nobody has accepted yet, oldest first
  peer,     \* client_fd: the connection the running process has accepted
  reader,   \* reader[r]: "away", "connected" or "gone"
  got       \* got[r]: the process whose send() reached r

unitVars == <<running, module, queue, peer, reader, got>>
serviceVars == <<vars, unitVars>>

HasEnded(c) == pc[c] \in {"done", "crashed"}

-----------------------------------------------------------------------------
(* systemd.                                                                *)

(* The socket unit requires the service, which is thereby started at boot. *)
Boot == \A c \in Clients : pc[c] = "start"

(* Seeded fault: the service is started at boot only. *)
StartAtBoot(c) ==
  /\ running = NoClient
  /\ pc[c] = "start" /\ Boot
  /\ running' = c
  /\ UNCHANGED <<vars, module, queue, peer, reader, got>>

(* The service is started, once it does not run any more, as long as there *)
(* are connections in the queue, those of processes that are gone too.     *)
Start(c) ==
  /\ running = NoClient
  /\ pc[c] = "start"
  /\ Boot \/ queue # <<>>
  /\ running' = c
  /\ UNCHANGED <<vars, module, queue, peer, reader, got>>

(* Seeded fault: the connection outlives the process that accepted it. *)
ExitOpen(c) ==
  /\ running = c /\ HasEnded(c)
  /\ running' = NoClient /\ module' = "sd_socket"
  /\ UNCHANGED <<vars, queue, peer, reader, got>>

(* The process has ended; what it had accepted is closed.  systemd keeps   *)
(* the socket and its queue.                                               *)
Exit(c) ==
  /\ running = c /\ HasEnded(c)
  /\ running' = NoClient /\ module' = "sd_socket" /\ peer' = NoReader
  /\ UNCHANGED <<vars, queue, reader, got>>

-----------------------------------------------------------------------------
(* Those who need the key.                                                 *)

Connect(r) ==
  /\ reader[r] = "away"
  /\ reader' = [reader EXCEPT ![r] = "connected"]
  /\ queue' = Append(queue, r)
  /\ UNCHANGED <<vars, running, module, peer, got>>

GiveUp(r) ==
  /\ "kill" \in Faults
  /\ reader[r] = "connected" /\ got[r] = NoClient
  /\ reader' = [reader EXCEPT ![r] = "gone"]
  /\ UNCHANGED <<vars, running, module, queue, peer, got>>

-----------------------------------------------------------------------------
(* handle_success(): success() of mod_sd_socket, then that of mod_stdout,  *)
(* which is registered after it; the first error ends the loop.            *)

(* The running process is in handle_success(), at module m. *)
Delivering(c, m) == running = c /\ pc[c] = "deliver" /\ module = m

(* handle_success() returns e to request_key(), which returns it to main(). *)
HandlersReturn(c, e) == Deliver(c) /\ err'[c] = e

(* Seeded fault: the socket does not block. *)
AcceptAtOnce(c) ==
  /\ Delivering(c, "sd_socket") /\ peer = NoReader
  /\ \/ /\ queue # <<>>
        /\ peer' = Head(queue) /\ queue' = Tail(queue)
        /\ UNCHANGED vars
     \/ /\ queue = <<>>
        /\ HandlersReturn(c, "UL_ERRNO")
        /\ UNCHANGED <<queue, peer>>
  /\ UNCHANGED <<running, module, reader, got>>

(* accept() blocks as long as the queue is empty. *)
Accept(c) ==
  /\ Delivering(c, "sd_socket") /\ peer = NoReader
  /\ queue # <<>>
  /\ peer' = Head(queue) /\ queue' = Tail(queue)
  /\ UNCHANGED <<vars, running, module, reader, got>>

AcceptFails(c) ==
  /\ OutputFaults
  /\ Delivering(c, "sd_socket") /\ peer = NoReader
  /\ HandlersReturn(c, "UL_ERRNO")
  /\ UNCHANGED unitVars

(* Seeded fault: the connection is served and the next one accepted. *)
ServeAndStay(c) ==
  /\ Delivering(c, "sd_socket") /\ peer # NoReader
  /\ reader[peer] = "connected"
  /\ got' = [got EXCEPT ![peer] = c]
  /\ peer' = NoReader
  /\ UNCHANGED <<vars, running, module, queue, reader>>

(* The key is in the buffer of the connection, which stays open; the loop  *)
(* goes on to the next module.                                             *)
Send(c) ==
  /\ Delivering(c, "sd_socket") /\ peer # NoReader
  /\ reader[peer] = "connected"
  /\ got' = [got EXCEPT ![peer] = c]
  /\ module' = "stdout"
  /\ UNCHANGED <<vars, running, queue, peer, reader>>

(* Seeded fault: a failed send() is not noticed. *)
Unnoticed == "UL_OK"

(* What success() returns when send() fails. *)
SendError == "UL_ERRNO"

(* send() fails, with EPIPE if nobody reads at the other end: systemd      *)
(* starts a service with SIGPIPE ignored.                                  *)
SendFails(c) ==
  /\ Delivering(c, "sd_socket") /\ peer # NoReader
  /\ OutputFaults \/ reader[peer] = "gone"
  /\ HandlersReturn(c, SendError)
  /\ UNCHANGED unitVars

(* success() of mod_stdout: it may be disabled; fwrite() and fflush() may  *)
(* fail when the reader has its key already.                               *)
WriteStdout(c) ==
  /\ Delivering(c, "stdout")
  /\ \E e \in {"UL_OK"} \cup (IF OutputFaults THEN {"UL_ERR"} ELSE {}) :
       HandlersReturn(c, e)
  /\ UNCHANGED unitVars

-----------------------------------------------------------------------------
ServiceInit ==
  /\ Init
  /\ running = NoClient
  /\ module = "sd_socket"
  /\ queue = <<>>
  /\ peer = NoReader
  /\ reader = [r \in Readers |-> "away"]
  /\ got = [r \in Readers |-> NoClient]

(* The steps of the process before it hands the key on, and its end.       *)
Proceed(c) ==
  /\ running = c
  /\ \/ Post(c) \/ PostReturns(c) \/ Poll(c) \/ PollReturns(c)
     \/ Patch(c) \/ PatchReturns(c)
  /\ UNCHANGED unitVars

Dies(c) == running = c /\ Kill(c) /\ UNCHANGED unitVars

ServerAnswers(c) == Serve(c) /\ UNCHANGED unitVars
Decides(i) == Decide(i) /\ UNCHANGED unitVars
Expires(i) == Expire(i) /\ UNCHANGED unitVars

ServiceNext ==
  \/ \E c \in Clients :
       \/ Start(c) \/ Proceed(c) \/ Accept(c) \/ AcceptFails(c)
       \/ Send(c) \/ SendFails(c) \/ WriteStdout(c)
       \/ Dies(c) \/ Exit(c) \/ ServerAnswers(c)
  \/ \E i \in Ids : Decides(i) \/ Expires(i)
  \/ \E r \in Readers : Connect(r) \/ GiveUp(r)

ServiceSpec == ServiceInit /\ [][ServiceNext]_serviceVars

(* systemd starts what is due, a process runs until it waits, an exchange  *)
(* is answered, the operator looks at every request, and whoever needs the *)
(* key connects.  No fault is ever due.                                    *)
ServiceFairness ==
  /\ WF_serviceVars(\E c \in Clients : Start(c))
  /\ \A c \in Clients :
       /\ WF_serviceVars(Proceed(c)) /\ WF_serviceVars(Exit(c))
       /\ WF_serviceVars(Accept(c)) /\ WF_serviceVars(Send(c) \/ SendFails(c))
       /\ WF_serviceVars(WriteStdout(c))
       /\ WF_serviceVars((Create(c) \/ Show(c) \/ Fulfil(c)) /\ UNCHANGED unitVars)
  /\ \A i \in Ids : WF_serviceVars(Decides(i))
  /\ \A r \in Readers : WF_serviceVars(Connect(r))

FairServiceSpec == ServiceSpec /\ ServiceFairness

-----------------------------------------------------------------------------
(* The type invariant of the unit's variables: a connection is accepted    *)
(* once, and only by the process that runs.                                *)
ServiceTypeOK ==
  /\ running \in Clients \cup {NoClient}
  /\ queue \in Seq(Readers)
  /\ module \in {"sd_socket", "stdout"}
  /\ peer \in Readers \cup {NoReader}
  /\ reader \in [Readers -> {"away", "connected", "gone"}]
  /\ got \in [Readers -> Clients \cup {NoClient}]
  /\ peer # NoReader =>
       running # NoClient /\ \A i \in 1 .. Len(queue) : queue[i] # peer

HoldsKey(r) == got[r] # NoClient /\ given[got[r]] \in {"key", "part"}

(* No request yields the key to two readers: whoever has been sent the key *)
(* or a part of it has it from a request the operator accepted and the     *)
(* server fulfilled, and another reader costs another request, however     *)
(* the processes that served them have ended.                              *)
OneRequestPerReader ==
  \A r \in Readers :
    HoldsKey(r) =>
      LET i == requestId[got[r]] IN
      /\ i # NoId /\ reqState[i] = "FULFILLED"
      /\ \A s \in Readers \ {r} : HoldsKey(s) => requestId[got[s]] # i

(* The service reports success only if somebody has been given the key,    *)
(* however the connection it accepted has fared in the meantime.           *)
SuccessIsServed ==
  \A c \in Clients :
    pc[c] = "done" /\ err[c] = "UL_OK" => \E r \in Readers : got[r] = c

(* r is connected and has not been sent anything. *)
Waiting(r) ==
  /\ got[r] = NoClient
  /\ r = peer \/ \E i \in DOMAIN queue : queue[i] = r

(* Whatever fails, nobody waits forever on the socket: a connection is     *)
(* served or closed, though the process that accepted it is killed, cannot *)
(* reach the server, or finds the reader gone, unless systemd does not     *)
(* start the service any more.                                             *)
NobodyWaitsForever ==
  \A r \in Readers :
    Waiting(r) ~> ~Waiting(r) \/ \A c \in Clients : HasEnded(c)

(* Without faults a reader that has connected is served, a denial of one   *)
(* request notwithstanding, unless systemd does not start the service any  *)
(* more.                                                                   *)
ReaderIsServed ==
  \A r \in Readers :
    reader[r] = "connected" ~> \/ got[r] # NoClient
                               \/ \A c \in Clients : HasEnded(c)

(* Without faults the key of an accepted request reaches a reader, though  *)
(* none may have been there when the operator accepted.                    *)
AcceptedReachesReader ==
  \A c \in Clients, i \in Ids :
    reqState[i] = "ACCEPTED" /\ reqOwner[i] = c
      ~> given[c] = "key" /\ \E r \in Readers : got[r] = c

=============================================================================
