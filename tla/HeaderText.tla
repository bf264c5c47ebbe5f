----------------------------- MODULE HeaderText -----------------------------
(***************************************************************************)
(* What src/src/https-client.c does with the text of headers, character by *)
(* character: the lines of an answer are kept by header_callback(), and    *)
(* get_content_type() looks for one of them; authHeader() joins the names  *)
(* of the headers of a request and their text in two buffers whose sizes   *)
(* it has computed before.                                                 *)
(*                                                                         *)
(* A character is a string; "content-type" and "Content-Type" count as one *)
(* character each, the second being the first in upper case.               *)
(***************************************************************************)
EXTENDS Integers, Sequences, SequencesExt

CONSTANTS
  Names,       \* the names of headers
  Values,      \* their values
  Bodies,      \* the bodies of requests
  MaxHeaders,  \* bound on the headers of a message
  SizeMod,     \* size_t counts modulo SizeMod
  Faults       \* which faults occur

FaultKinds == {"oom"}  \* malloc() or curl_slist_append() returns NULL

(* A text of C has no terminator before its end. *)
ASSUME TextAssumption ==
  Names \cup Values \cup Bodies \subseteq Seq(STRING \ {"NUL"})
(* A name of HTTP is a token. *)
ASSUME NamesAssumption ==
  \A n \in Names : n # <<>> /\ ToSet(n) \cap {":", " "} = {}
ASSUME FaultsAssumption == Faults \subseteq FaultKinds
ASSUME SizeAssumption == SizeMod \in Nat \ {0} /\ SizeMod % 2 = 0

Headers == [name : Names, blanks : 0 .. 2, value : Values, crlf : BOOLEAN]

(* The text of a header, as it is in the list of a request.                *)
Data(h) == h.name \o <<":">> \o [i \in 1 .. h.blanks |-> " "] \o h.value

(* libcurl passes a line on as the server has ended it.                    *)
LineEnd(h) == IF h.crlf THEN <<"CR", "LF">> ELSE <<"LF">>

(* A header of an answer, as libcurl passes it on. *)
Line(h) == Data(h) \o LineEnd(h)

(* No object is larger than PTRDIFF_MAX. *)
ASSUME LinesAssumption == \A h \in Headers : Len(Line(h)) < SizeMod \div 2

(* A line of a head that is not a header. *)
StatusLine == <<"x", "CR", "LF">>

VARIABLES
  pc,        \* what is under way
  head,      \* the headers of the message
  lines,     \* the lines that libcurl has not passed on yet
  kept,      \* response->headers, <<>> for NULL
  lost,      \* whether an allocation has failed
  warning,   \* what validate_content_type() warned about
  content,   \* request->body, <<>> for NULL
  names,     \* what joinHeaderNames() wrote, and its headers_size
  signed     \* what authHeader() wrote, and its data_to_sign_size

vars == <<pc, head, lines, kept, lost, warning, content, names, signed>>

-----------------------------------------------------------------------------
(* Characters.                                                             *)

tolower(x) ==
  CASE x = "Content-Type" -> "content-type"
    [] x = "X" -> "x" [] x = "J" -> "j"
    [] OTHER -> x

strToLower(s) == [i \in DOMAIN s |-> tolower(s[i])]

(* strcasestr(data, "content-type") == data *)
Announces(data) == data # <<>> /\ tolower(data[1]) = "content-type"

(* What is left of s once the characters of C at its beginning are gone. *)
SkipAll(s, C) ==
  LET n == SelectInSeq(s, LAMBDA x : x \notin C) IN
  IF n = 0 THEN <<>> ELSE SubSeq(s, n, Len(s))

-----------------------------------------------------------------------------
(* get_content_type().                                                     *)

(* malloc() fails for what exceeds PTRDIFF_MAX. *)
Refused(size) == size >= SizeMod \div 2

Null == [kind |-> "NULL"]
Overrun == [kind |-> "overrun"]
String(s) == [kind |-> "string", text |-> s]

(* A copy of the first len characters of s and a terminator; a length      *)
(* below zero wraps around, and no byte at all may be allocated for it.    *)
Copy(s, len) ==
  LET size == len % SizeMod IN
  IF Refused((size + 1) % SizeMod) THEN Null
  ELSE IF size > Len(s) THEN Overrun
  ELSE String(strToLower(SubSeq(s, 1, size)))

(* Seeded fault: only the colon is skipped. *)
SkipColon(data) == SkipAll(Tail(data), {":"})

Source(data) == SkipAll(Tail(data), {":", " "})

get_content_type(list) ==
  LET found == SelectInSeq(list, Announces) IN
  IF found = 0 THEN Null
  ELSE Copy(Source(list[found]), Len(Source(list[found])) - 2)

(* Seeded faults: every line is kept; the end of the line is not kept. *)
KeepAll(list, line) == Append(list, line)
KeepChomped(list, line) ==
  IF ":" \in ToSet(line) THEN Append(list, SubSeq(line, 1, Len(line) - 2))
                         ELSE list

(* header_callback() *)
Keep(list, line) == IF ":" \in ToSet(line) THEN Append(list, line) ELSE list

(* A line of the head.  Without memory for its copy the transfer ends; if  *)
(* it is curl_slist_append() that fails, the list is lost and the transfer *)
(* goes on.                                                                *)
Receive ==
  /\ pc = "receive" /\ lines # <<>>
  /\ lines' = Tail(lines)
  /\ \/ kept' = Keep(kept, Head(lines)) /\ UNCHANGED <<pc, lost>>
     \/ /\ "oom" \in Faults /\ ":" \in ToSet(Head(lines))
        /\ lost' = TRUE
        /\ \/ kept' = <<>> /\ UNCHANGED pc
           \/ pc' = "received" /\ UNCHANGED kept
  /\ UNCHANGED <<head, warning, content, names, signed>>

Received ==
  /\ pc = "receive" /\ lines = <<>>
  /\ pc' = "received"
  /\ UNCHANGED <<head, lines, kept, lost, warning, content, names, signed>>

(* What validate_content_type() finds wrong; "j" stands for                *)
(* "application/json".                                                     *)
Verdict(type) ==
  CASE type.kind = "NULL" -> "missing"
    [] type.kind = "string" /\ type.text = <<"j">> -> "none"
    [] OTHER -> "unexpected"

(* validate_content_type() of src/src/client.c *)
validate_content_type ==
  /\ pc = "received"
  /\ \E type \in {get_content_type(kept)}
                   \cup (IF "oom" \in Faults THEN {Null} ELSE {}) :
       /\ lost' = (lost \/ type # get_content_type(kept))
       /\ IF type = Overrun
          THEN pc' = "crashed" /\ UNCHANGED warning
          ELSE pc' = "done" /\ warning' = Verdict(type)
  /\ UNCHANGED <<head, lines, kept, content, names, signed>>

-----------------------------------------------------------------------------
(* authHeader().                                                           *)

Buffer(cells, size) == [cells |-> cells, size |-> size]

(* strstr(data, ":") - data *)
Separator(data) == SelectInSeq(data, LAMBDA x : x = ":") - 1

Sum(numbers) ==
  LET sum[i \in 0 .. Len(numbers)] ==
        IF i = 0 THEN 0 ELSE sum[i - 1] + numbers[i]
  IN  sum[Len(numbers)]

(* Seeded fault: no room for the blanks between the names.                 *)
NamesSizeShort(list) == 1 + Sum([i \in DOMAIN list |-> Separator(list[i])])

NamesSize(list) ==
  1 + Sum([i \in DOMAIN list |->
             Separator(list[i]) + (IF i < Len(list) THEN 1 ELSE 0)])

After(list, i) == IF i < Len(list) THEN " " ELSE "NUL"

joinHeaderNames(list) ==
  Buffer(IF list = <<>> THEN <<"NUL">>
         ELSE strToLower(FlattenSeq(
                [i \in DOMAIN list |->
                   SubSeq(list[i], 1, Separator(list[i]))
                     \o <<After(list, i)>>])),
         NamesSize(list))

(* Seeded fault: newlines between the headers only.                        *)
NewlinesBetween(list, body) ==
  Buffer(FlattenSeq([i \in DOMAIN list |->
                       IF i = 1 THEN list[i] ELSE <<"LF">> \o list[i]])
           \o body \o <<"NUL">>,
         Len(body) + Sum([i \in DOMAIN list |-> Len(list[i]) + 1]))

TextSize(list, body) ==
  1 + Len(body) + Sum([i \in DOMAIN list |-> Len(list[i]) + 1])

DataToSign(list, body) ==
  Buffer(FlattenSeq([i \in DOMAIN list |-> list[i] \o <<"LF">>])
           \o body \o <<"NUL">>,
         TextSize(list, body))

(* authHeader() up to hmac_sha512(); a failed allocation makes it return   *)
(* NULL.                                                                   *)
authHeader ==
  /\ pc = "sign"
  /\ LET list == [i \in DOMAIN head |-> Data(head[i])] IN
     \/ /\ names' = joinHeaderNames(list)
        /\ signed' = DataToSign(list, content)
        /\ pc' = "signed"
        /\ UNCHANGED lost
     \/ /\ "oom" \in Faults
        /\ lost' = TRUE /\ pc' = "done"
        /\ UNCHANGED <<names, signed>>
  /\ UNCHANGED <<head, lines, kept, warning, content>>

-----------------------------------------------------------------------------
(* No two headers of a request have the same name. *)
DistinctNames(list) ==
  \A i, j \in DOMAIN list :
    strToLower(list[i].name) = strToLower(list[j].name) => i = j

Init ==
  /\ pc \in {"receive", "sign"}
  /\ head \in UNION {[1 .. n -> Headers] : n \in 0 .. MaxHeaders}
  /\ pc = "sign" => DistinctNames(head) /\ \A i \in DOMAIN head : head[i].crlf
  /\ lines = IF pc = "receive"
             THEN <<StatusLine>> \o [i \in DOMAIN head |-> Line(head[i])]
             ELSE <<>>
  /\ kept = <<>> /\ lost = FALSE /\ warning = "none"
  /\ content \in IF pc = "sign" THEN Bodies ELSE {<<>>}
  /\ names = Buffer(<<>>, 0) /\ signed = Buffer(<<>>, 0)

Next == Receive \/ Received \/ validate_content_type \/ authHeader

Spec == Init /\ [][Next]_vars

-----------------------------------------------------------------------------
(* The type invariant: of the lines of a head the headers are kept. *)
TypeOK ==
  /\ pc \in {"receive", "received", "sign", "signed", "done", "crashed"}
  /\ head \in Seq(Headers)
  /\ lines \in Seq({StatusLine} \cup {Line(h) : h \in Headers})
  /\ kept \in Seq({Line(h) : h \in Headers})
  /\ lost \in BOOLEAN
  /\ warning \in {"none", "missing", "unexpected"}
  /\ content \in Bodies \cup {<<>>}
  /\ names.size \in Nat /\ signed.size \in Nat

(* The header of the answer that get_content_type() stops at, 0 for none.  *)
Candidate == SelectInSeq(head, LAMBDA h : Announces(h.name))

(* A value that starts with colons counts as the value after them.         *)
IsJson(h) ==
  Len(h.name) = 1 /\ strToLower(SkipAll(h.value, {":", " "})) = <<"j">>

(* A warning is given exactly when the answer has no content type or       *)
(* another than JSON, in any case and with any blanks.  The exceptions are *)
(* a header that only begins with the name, one that ends in a bare LF,    *)
(* whose value loses a byte, and a lack of memory.                         *)
WarnedRightly ==
  pc = "done" /\ ~lost
    /\ (Candidate # 0 =>
          Len(head[Candidate].name) = 1 /\ head[Candidate].crlf) =>
    warning = IF Candidate = 0 THEN "missing"
              ELSE IF IsJson(head[Candidate]) THEN "none"
              ELSE "unexpected"

(* A content type of nothing but what is skipped, whose line ends in LF:   *)
(* only one character is left of the two that are taken off the end.       *)
LengthWraps(h) ==
  /\ Announces(h.name) /\ Len(h.name) = 1
  /\ ~h.crlf
  /\ SkipAll(h.value, {":", " "}) = <<>>

(* get_content_type() copies past its memory only if the answer has such a *)
(* header, never on account of a CR LF, a longer name, blanks, or a header *)
(* that was lost on the way.                                               *)
OverrunOnlyIfWrapped ==
  pc = "crashed" => \E i \in DOMAIN head : LengthWraps(head[i])

(* What the comment of get_content_type() takes for granted: the last two  *)
(* characters of a header are \r\n, so that strlen(source) - 2 is a length *)
(* and the copy stays within its memory.                                   *)
NoOverrun == pc # "crashed"

(* A buffer whose last byte, and only that, is the terminator.             *)
Filled(b) ==
  /\ Len(b.cells) = b.size
  /\ SelectInSeq(b.cells, LAMBDA x : x = "NUL") = b.size

(* Both buffers of authHeader() are as large as what is written to them:   *)
(* filled to the last byte, which is the terminator and the only one.      *)
BuffersFilled == pc = "signed" => Filled(names) /\ Filled(signed)

(* The server's end.  Where the words of a text end: at a blank, the last  *)
(* of them at the terminator.                                              *)
WordEnds(cells) ==
  LET end[k \in 0 .. Len(cells)] ==
        IF k = 0 THEN 0
        ELSE Min({i \in end[k - 1] + 1 .. Len(cells) : cells[i] = " "}
                   \cup {Len(cells)})
  IN  end

Words(cells) ==
  LET end == WordEnds(cells)
      count == Min({k \in 1 .. Len(cells) : end[k] = Len(cells)})
  IN  [k \in 1 .. count |-> SubSeq(cells, end[k - 1] + 1, end[k] - 1)]

(* The header of a request that has a name, as it is signed.               *)
Named(list, name) ==
  LET i == SelectInSeq(list, LAMBDA h : strToLower(h.name) = name)
  IN  IF i = 0 THEN <<"unknown">> ELSE Data(list[i]) \o <<"LF">>

(* What a server signs: the headers it finds under the names it was given, *)
(* in that order, and the body.                                            *)
ServerText(list, cells, body) ==
  LET words == Words(cells)
  IN  FlattenSeq([k \in DOMAIN words |-> Named(list, words[k])]) \o body

(* The server that looks the named headers up in the request rebuilds the  *)
(* text that was signed, whatever the case of their names.                 *)
SignedIsRebuilt ==
  pc = "signed" /\ head # <<>> =>
    signed.cells = ServerText(head, names.cells, content) \o <<"NUL">>

=============================================================================
