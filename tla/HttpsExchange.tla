--------------------------- MODULE HttpsExchange ---------------------------
(***************************************************************************)
(* One exchange of src/src/https-client.c: https_hmac_GET(), _PATCH() or   *)
(* _POST() builds a list of headers, libcurl performs the request and      *)
(* hands headers and body of the answer to two callbacks, and the caller   *)
(* reads the response whatever the exchange returned.  libcurl, the        *)
(* allocator and the server are the environment.                           *)
(***************************************************************************)
EXTENDS Integers, Sequences, SequencesExt

CONSTANTS
  Bytes,    \* bytes of a body, other than NUL and newline
  MaxBody,  \* bound on the length of a body
  Heads,    \* the sequences of lines an answer's head can be
  Faults    \* which faults of the environment occur

FaultKinds == {"oom",  \* an allocation fails
               "net"}  \* the transfer fails at any point

ASSUME BytesAssumption == Bytes \cap {"NUL", "\n", "garbage"} = {}
ASSUME MaxBodyAssumption == MaxBody \in Nat
ASSUME FaultsAssumption == Faults \subseteq FaultKinds

(* The lines of a head that have a colon; the others are the status line   *)
(* and the empty line after the last header.                               *)
FieldLines == {"Date", "Content-Type"}
Lines == FieldLines \cup {"status", "empty"}

ASSUME HeadsAssumption == Heads \subseteq Seq(Lines)

(* The bodies a server sends. *)
Texts == UNION {[1 .. n -> Bytes \cup {"NUL"}] : n \in 0 .. MaxBody}
Verbs == {"GET", "PATCH", "POST"}

VARIABLES
  pc,       \* where the exchange is
  verb,     \* which of the three functions runs
  headers,  \* the local list of headers, <<>> for NULL
  owned,    \* what the exchange has allocated and not released
  result,   \* the value it returned
  answer,   \* what the server still has to send: header lines, then body
  text,     \* the whole body the server sends
  body,     \* response->body: the allocated cells, <<>> for NULL
  body_len, \* response->body_len
  fields,   \* response->headers, <<>> for NULL
  overflow  \* whether a callback wrote past the cells it allocated

response == <<body, body_len, fields, overflow>>
vars == <<pc, verb, headers, owned, result, answer, text, response>>

-----------------------------------------------------------------------------
(* The list of headers; of a header only the name is kept.                 *)

Fails(A) == IF "oom" \in Faults THEN A ELSE {}

Finish(e) == pc' = "done" /\ result' = e

(* One header more.  Without memory curl_slist_append() returns NULL: the  *)
(* list built so far is lost, only https_hmac_POST() tries to free it.     *)
AddHeader(at, name, next) ==
  /\ pc = at
  /\ \/ /\ headers' = Append(headers, name)
        /\ owned' = owned \cup {"list"}
        /\ pc' = next
        /\ UNCHANGED result
     \/ /\ "oom" \in Faults
        /\ headers' = <<>>
        /\ Finish("UL_MALLOC")
        /\ UNCHANGED owned
  /\ UNCHANGED <<verb, answer, text, response>>

AddDate == AddHeader("date", "Date", "auth")

(* HMAC() returns NULL without memory, and hmac_sha512() reads the digest. *)
DigestMissing ==
  /\ pc = "auth" /\ "oom" \in Faults
  /\ pc' = "crashed"
  /\ UNCHANGED <<verb, headers, owned, result, answer, text, response>>

AddAuth ==
  \/ AddHeader("auth", "Authorization", "accept")
  \/ DigestMissing

AddAccept ==
  AddHeader("accept", "Accept", IF verb = "GET" THEN "init" ELSE "type")

AddContentType == AddHeader("type", "Content-Type", "init")

EasyInit ==
  /\ pc = "init"
  /\ \/ /\ owned' = owned \cup {"handle"}
        /\ pc' = "perform"
        /\ UNCHANGED <<headers, result>>
     \/ /\ "oom" \in Faults
        /\ headers' = <<>>
        /\ owned' = owned \ {"list"}
        /\ Finish("UL_CURL")
  /\ UNCHANGED <<verb, answer, text, response>>

-----------------------------------------------------------------------------
(* curl_easy_perform().                                                    *)

(* Seeded fault: an error returns before curl_easy_cleanup(). *)
ReturnOnError(e) ==
  /\ Finish(e)
  /\ headers' = <<>>
  /\ owned' = IF e = "UL_OK" THEN owned \ {"list", "handle"} ELSE owned

(* What follows the transfer, however it ended. *)
PerformReturns(e) ==
  /\ Finish(e)
  /\ headers' = <<>>
  /\ owned' = owned \ {"list", "handle"}

(* A line of the answer's head reaches header_callback(), which keeps it   *)
(* if it has a colon.  A header that cannot be appended takes all the      *)
(* others with it, and the transfer goes on.                               *)
HeaderArrives ==
  /\ pc = "perform" /\ answer.head # <<>>
  /\ answer' = [answer EXCEPT !.head = Tail(@)]
  /\ LET line == Head(answer.head) IN
     \/ /\ line \notin FieldLines
        /\ UNCHANGED <<pc, headers, owned, result, fields>>
     \/ /\ line \in FieldLines
        /\ fields' \in {Append(fields, line)} \cup Fails({<<>>})
        /\ UNCHANGED <<pc, headers, owned, result>>
     \/ /\ "oom" \in Faults
        /\ line \in FieldLines
        /\ PerformReturns("UL_CURL")
        /\ UNCHANGED fields
  /\ UNCHANGED <<verb, text, body, body_len, overflow>>

(* Cells of memory: what was there, then what was never written. *)
Allocate(size) ==
  [i \in 1 .. size |-> IF i <= Len(body) THEN body[i] ELSE "garbage"]

(* memcpy() and two assignments, as far as they are inside the cells. *)
Write(cells, data) ==
  [i \in DOMAIN cells |->
     IF i \in body_len + 1 .. body_len + Len(data) THEN data[i - body_len]
     ELSE IF i = body_len + Len(data) + 1 THEN "\n"
     ELSE IF i = body_len + Len(data) + 2 THEN "NUL"
     ELSE cells[i]]

(* Seeded faults: the second chunk is given room for itself only; the      *)
(* newline is counted.                                                     *)
RoomForChunk(data) == Len(data) + 2
LengthWithNewline(data) == body_len + Len(data) + 1

(* The room write_callback() asks for, and the length it records. *)
Room(data) == (IF body = <<>> THEN 0 ELSE body_len) + Len(data) + 2
NewLength(data) == body_len + Len(data)

(* Seeded fault: a failed allocation is reported as the chunk's length.    *)
FailureUnnoticed ==
  /\ body' = <<>>
  /\ UNCHANGED <<pc, headers, owned, result, body_len, overflow>>

(* write_callback() returns 0, and libcurl gives up the transfer.  The     *)
(* old cells are lost; body_len keeps the length they had.                 *)
ChunkRefused ==
  /\ body' = <<>>
  /\ PerformReturns("UL_CURL")
  /\ UNCHANGED <<body_len, overflow>>

(* A chunk of the body reaches write_callback().  An empty one only comes  *)
(* when the whole body is empty; for it, 0 is not a failure.               *)
ChunkArrives ==
  /\ pc = "perform" /\ answer.head = <<>> /\ answer.chunk
  /\ \E n \in 0 .. Len(answer.body) :
       LET data == SubSeq(answer.body, 1, n) IN
       /\ n = 0 => text = <<>>
       /\ answer' = [answer EXCEPT !.body = SubSeq(@, n + 1, Len(@)),
                                   !.chunk = n < Len(answer.body)]
       /\ \/ /\ body' = Write(Allocate(Room(data)), data)
             /\ body_len' = NewLength(data)
             /\ overflow' = (overflow \/ body_len + n + 2 > Room(data))
             /\ UNCHANGED <<pc, headers, owned, result>>
          \/ /\ "oom" \in Faults
             /\ n > 0
             /\ ChunkRefused
          \/ /\ "oom" \in Faults
             /\ n = 0
             /\ UNCHANGED <<pc, headers, owned, result, body, body_len, overflow>>
  /\ UNCHANGED <<verb, text, fields>>

(* The transfer ends: complete, or anywhere before. *)
TransferEnds ==
  /\ pc = "perform"
  /\ \/ /\ answer.head = <<>> /\ answer.body = <<>>
        /\ PerformReturns("UL_OK")
     \/ /\ "net" \in Faults
        /\ PerformReturns("UL_CURL")
  /\ UNCHANGED <<verb, answer, text, response>>

-----------------------------------------------------------------------------
(* What request_key() makes of the body: strdup() copies the cells before  *)
(* the first NUL, and the last of them, the newline of write_callback(),   *)
(* is overwritten.                                                         *)
CString(cells) ==
  SelectInSeq(cells, LAMBDA x : x = "NUL") - 1

(* Seeded fault: the newline is kept. *)
WholeString(cells) == SubSeq(cells, 1, CString(cells))

KeyOf(cells) == SubSeq(cells, 1, CString(cells) - 1)

Init ==
  /\ pc = "date"
  /\ verb \in Verbs
  /\ headers = <<>>
  /\ owned = {}
  /\ result = "none"
  /\ text \in Texts
  /\ \E head \in Heads :
       answer = [head |-> head, body |-> text, chunk |-> TRUE]
  /\ body = <<>> /\ body_len = 0 /\ fields = <<>>
  /\ overflow = FALSE

Next ==
  \/ AddDate \/ AddAuth \/ AddAccept \/ AddContentType \/ EasyInit
  \/ HeaderArrives \/ ChunkArrives \/ TransferEnds

Spec == Init /\ [][Next]_vars

-----------------------------------------------------------------------------
Cells == Bytes \cup {"NUL", "\n", "garbage"}

(* The type invariant. *)
TypeOK ==
  /\ pc \in {"date", "auth", "accept", "type", "init", "perform", "done",
            "crashed"}
  /\ verb \in Verbs
  /\ Len(headers) \in 0 .. 4
  /\ owned \subseteq {"list", "handle"}
  /\ result \in {"none", "UL_OK", "UL_CURL", "UL_MALLOC"}
  /\ answer \in [head : Seq(Lines), body : Texts, chunk : BOOLEAN]
  /\ text \in Texts
  /\ body \in Seq(Cells)
  /\ body_len \in 0 .. MaxBody
  /\ fields \in Seq(FieldLines)
  /\ overflow \in BOOLEAN

(* However the body is cut into chunks and whichever allocation fails, no  *)
(* chunk is copied past the cells allocated for it: after a failure        *)
(* body_len does not fit body any more, and libcurl must not go on.        *)
NoOverflow == ~overflow

(* Whatever the exchange returned, the body its caller reads is what has   *)
(* arrived, a newline and a terminator, or NULL.                           *)
BodyIsWhatArrived ==
  body # <<>> =>
    body = SubSeq(text, 1, Len(text) - Len(answer.body)) \o <<"\n", "NUL">>

(* The key request_key() takes from a complete answer is the text the      *)
(* server sent, unless the text holds a NUL.                               *)
KeyIsText ==
  result = "UL_OK" /\ text # <<>> /\ "NUL" \notin ToSet(text) =>
    body # <<>> /\ KeyOf(body) = text

(* Unless the list of headers could not be completed, an exchange releases *)
(* the list and the handle, however the transfer ended.                    *)
Released == pc = "done" /\ result # "UL_MALLOC" => owned = {}

=============================================================================
