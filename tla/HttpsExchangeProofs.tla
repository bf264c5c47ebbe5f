------------------------ MODULE HttpsExchangeProofs ------------------------
(***************************************************************************)
(* The safety of one exchange of https-client.c for bodies of any length,  *)
(* cut into chunks anywhere, and any failing allocation: the theorems      *)
(* state what the runs of HttpsExchange check on a few bytes.              *)
(***************************************************************************)
EXTENDS HttpsExchange, SequenceTheorems, TLAPS

-----------------------------------------------------------------------------
(* The inductive invariant.                                                *)

BeforePerform == {"date", "auth", "accept", "type", "init"}

(* Where the exchange is says which headers the list has.                  *)
HeadersInv ==
  /\ pc = "date" => headers = <<>>
  /\ pc \in {"auth", "crashed"} => headers = <<"Date">>
  /\ pc = "accept" => headers = <<"Date", "Authorization">>
  /\ pc = "type" =>
       headers = <<"Date", "Authorization", "Accept">>
  /\ pc \in {"init", "perform"} =>
       headers \in {<<"Date", "Authorization", "Accept">>,
                    <<"Date", "Authorization", "Accept", "Content-Type">>}
  /\ pc = "done" => headers = <<>>

(* Nothing has arrived before the transfer, and its result is set once,    *)
(* when the exchange returns: UL_OK only after the last byte.              *)
ResultInv ==
  /\ pc \in BeforePerform => body = <<>> /\ answer.body = text
  /\ pc # "done" => result = "none"
  /\ pc \in BeforePerform => owned \subseteq {"list"}
  /\ result = "UL_OK" =>
       answer.body = <<>> /\ (text # <<>> => body # <<>>)

(* How much of the body has arrived. *)
Arrived == Len(text) - Len(answer.body)

(* What has not arrived is the end of the text; body_len fits the cells,   *)
(* except after a refused chunk, which ends the transfer.                  *)
CellsInv ==
  /\ Arrived \in 0 .. Len(text)
  /\ \A i \in 1 .. Len(answer.body) : answer.body[i] = text[Arrived + i]
  /\ body = <<>> /\ pc # "done" => body_len = 0 /\ Arrived = 0
  /\ body # <<>> =>
       /\ body_len = Arrived
       /\ Len(body) = Arrived + 2
       /\ \A i \in 1 .. Arrived : body[i] = text[i]
       /\ body[Arrived + 1] = "\n" /\ body[Arrived + 2] = "NUL"

ExchangeInv ==
  /\ TypeOK /\ HeadersInv /\ ResultInv /\ CellsInv /\ NoOverflow /\ Released

-----------------------------------------------------------------------------
(* Lemmas about the list of headers.                                       *)

(* curl_slist_append() puts a header after the others.                     *)
LEMMA AppendOne ==
  ASSUME NEW a
  PROVE  Append(<<>>, a) = <<a>>
  OBVIOUS

(* A list is another one with a header put after the others.               *)
LEMMA AppendIs ==
  ASSUME NEW S, NEW s \in Seq(S), NEW t \in Seq(S), NEW e \in S,
         Len(t) = Len(s) + 1, t[Len(s) + 1] = e,
         \A i \in 1 .. Len(s) : t[i] = s[i]
  PROVE  Append(s, e) = t
<1>1. /\ Append(s, e) \in Seq(S)
      /\ Len(Append(s, e)) = Len(t)
      /\ \A i \in 1 .. Len(s) : Append(s, e)[i] = t[i]
      /\ Append(s, e)[Len(s) + 1] = t[Len(s) + 1]
  BY AppendProperties
<1>2. \A i \in 1 .. Len(Append(s, e)) : i \in 1 .. Len(s) \/ i = Len(s) + 1
  BY <1>1, LenProperties
<1> QED
  BY <1>1, <1>2, SeqEqual

(* The list with its second header.                                        *)
LEMMA AppendTwo ==
  ASSUME NEW a, NEW b
  PROVE  Append(<<a>>, b) = <<a, b>>
<1> DEFINE S == {a, b}
           short == <<a>>
           long == <<a, b>>
<1>1. <<a>> \in Seq({a, b}) /\ <<a, b>> \in Seq({a, b}) /\ b \in {a, b}
  OBVIOUS
<1>2. /\ Len(<<a>>) = 1 /\ Len(<<a, b>>) = 2
      /\ <<a>>[1] = a /\ <<a, b>>[1] = a /\ <<a, b>>[2] = b
  OBVIOUS
<1>3. \A i \in 1 .. 1 : i = 1
  OBVIOUS
<1>4. \A i \in 1 .. Len(<<a>>) : <<a, b>>[i] = <<a>>[i]
  BY <1>2, <1>3
<1>5. Len(<<a, b>>) = Len(<<a>>) + 1 /\ <<a, b>>[Len(<<a>>) + 1] = b
  BY <1>2
<1>6. short \in Seq(S) /\ long \in Seq(S) /\ b \in S
  BY <1>1
<1>7. Len(long) = Len(short) + 1 /\ long[Len(short) + 1] = b
  BY <1>5
<1>8. \A i \in 1 .. Len(short) : long[i] = short[i]
  BY <1>4
<1> HIDE DEF S, short, long
<1>9. Append(short, b) = long
  BY <1>6, <1>7, <1>8, AppendIs
<1> QED
  BY <1>9 DEF short, long

(* The list with its third header.                                         *)
LEMMA AppendThree ==
  ASSUME NEW a, NEW b, NEW c
  PROVE  Append(<<a, b>>, c) = <<a, b, c>>
<1> DEFINE S == {a, b, c}
           short == <<a, b>>
           long == <<a, b, c>>
<1>1. /\ <<a, b>> \in Seq({a, b, c}) /\ <<a, b, c>> \in Seq({a, b, c})
      /\ c \in {a, b, c}
  OBVIOUS
<1>2. /\ Len(<<a, b>>) = 2 /\ Len(<<a, b, c>>) = 3
      /\ <<a, b>>[1] = a /\ <<a, b>>[2] = b
      /\ <<a, b, c>>[1] = a /\ <<a, b, c>>[2] = b /\ <<a, b, c>>[3] = c
  OBVIOUS
<1>3. \A i \in 1 .. 2 : i = 1 \/ i = 2
  OBVIOUS
<1>4. \A i \in 1 .. Len(<<a, b>>) : <<a, b, c>>[i] = <<a, b>>[i]
  BY <1>2, <1>3
<1>5. /\ Len(<<a, b, c>>) = Len(<<a, b>>) + 1
      /\ <<a, b, c>>[Len(<<a, b>>) + 1] = c
  BY <1>2
<1>6. short \in Seq(S) /\ long \in Seq(S) /\ c \in S
  BY <1>1
<1>7. Len(long) = Len(short) + 1 /\ long[Len(short) + 1] = c
  BY <1>5
<1>8. \A i \in 1 .. Len(short) : long[i] = short[i]
  BY <1>4
<1> HIDE DEF S, short, long
<1>9. Append(short, c) = long
  BY <1>6, <1>7, <1>8, AppendIs
<1> QED
  BY <1>9 DEF short, long

(* The list with its fourth header.                                        *)
LEMMA AppendFour ==
  ASSUME NEW a, NEW b, NEW c, NEW d
  PROVE  Append(<<a, b, c>>, d) = <<a, b, c, d>>
<1> DEFINE S == {a, b, c, d}
           short == <<a, b, c>>
           long == <<a, b, c, d>>
<1>1. /\ <<a, b, c>> \in Seq({a, b, c, d})
      /\ <<a, b, c, d>> \in Seq({a, b, c, d})
      /\ d \in {a, b, c, d}
  OBVIOUS
<1>2. /\ Len(<<a, b, c>>) = 3 /\ Len(<<a, b, c, d>>) = 4
      /\ <<a, b, c>>[1] = a /\ <<a, b, c>>[2] = b /\ <<a, b, c>>[3] = c
      /\ <<a, b, c, d>>[1] = a /\ <<a, b, c, d>>[2] = b
      /\ <<a, b, c, d>>[3] = c /\ <<a, b, c, d>>[4] = d
  OBVIOUS
<1>3. \A i \in 1 .. 3 : i = 1 \/ i = 2 \/ i = 3
  OBVIOUS
<1>4. \A i \in 1 .. Len(<<a, b, c>>) : <<a, b, c, d>>[i] = <<a, b, c>>[i]
  BY <1>2, <1>3
<1>5. /\ Len(<<a, b, c, d>>) = Len(<<a, b, c>>) + 1
      /\ <<a, b, c, d>>[Len(<<a, b, c>>) + 1] = d
  BY <1>2
<1>6. short \in Seq(S) /\ long \in Seq(S) /\ d \in S
  BY <1>1
<1>7. Len(long) = Len(short) + 1 /\ long[Len(short) + 1] = d
  BY <1>5
<1>8. \A i \in 1 .. Len(short) : long[i] = short[i]
  BY <1>4
<1> HIDE DEF S, short, long
<1>9. Append(short, d) = long
  BY <1>6, <1>7, <1>8, AppendIs
<1> QED
  BY <1>9 DEF short, long

-----------------------------------------------------------------------------
(* Lemmas about bodies.                                                    *)

(* A body is a sequence of at most MaxBody cells, and so is its end.       *)
LEMMA TextProperties ==
  ASSUME NEW t \in Texts
  PROVE  /\ t \in Seq(Bytes \cup {"NUL"})
         /\ Len(t) \in 0 .. MaxBody
         /\ DOMAIN t = 1 .. Len(t)
         /\ \A n \in 0 .. Len(t) : SubSeq(t, n + 1, Len(t)) \in Texts
<1>1. PICK k \in 0 .. MaxBody : t \in [1 .. k -> Bytes \cup {"NUL"}]
  BY DEF Texts
<1>2. t \in Seq(Bytes \cup {"NUL"}) /\ Len(t) = k
  BY <1>1, MaxBodyAssumption
<1>3. ASSUME NEW n \in 0 .. Len(t)
      PROVE  SubSeq(t, n + 1, Len(t)) \in Texts
  <2> DEFINE u == SubSeq(t, n + 1, Len(t))
  <2>1. u \in Seq(Bytes \cup {"NUL"}) /\ Len(u) = Len(t) - n
    BY <1>2, SubSeqProperties
  <2>2. u \in [1 .. Len(t) - n -> Bytes \cup {"NUL"}]
    BY <2>1, LenProperties
  <2>3. Len(t) - n \in 0 .. MaxBody
    BY <1>2, MaxBodyAssumption
  <2> QED
    BY <2>2, <2>3 DEF Texts
<1> QED
  BY <1>1, <1>2, <1>3, LenProperties

(* What the end of a body holds: the cells after the first n.              *)
LEMMA RestOfText ==
  ASSUME NEW t \in Texts, NEW n \in 0 .. Len(t)
  PROVE  LET rest == SubSeq(t, n + 1, Len(t)) IN
         /\ rest \in Texts
         /\ Len(rest) = Len(t) - n
         /\ \A i \in 1 .. Len(rest) : rest[i] = t[n + i]
<1>1. t \in Seq(Bytes \cup {"NUL"}) /\ Len(t) \in Nat
  BY TextProperties, MaxBodyAssumption
<1> DEFINE rest == SubSeq(t, n + 1, Len(t))
<1>2. \A i \in n + 1 .. Len(t) : t[i] \in Bytes \cup {"NUL"}
  BY <1>1, ElementOfSeq
<1>3. Len(rest) = Len(t) - n
  BY <1>1, <1>2, SubSeqProperties
<1>4. \A i \in 1 .. Len(t) - n : rest[i] = t[n + i]
  BY <1>1, <1>2, SubSeqProperties
<1> QED
  BY <1>3, <1>4, TextProperties

(* What a chunk holds: the first n cells.                                  *)
LEMMA StartOfText ==
  ASSUME NEW t \in Texts, NEW n \in 0 .. Len(t)
  PROVE  LET data == SubSeq(t, 1, n) IN
         /\ data \in Seq(Bytes \cup {"NUL"})
         /\ Len(data) = n
         /\ \A i \in 1 .. n : data[i] = t[i]
<1>1. t \in Seq(Bytes \cup {"NUL"}) /\ Len(t) \in Nat
  BY TextProperties, MaxBodyAssumption
<1>2. \A i \in 1 .. n : t[i] \in Bytes \cup {"NUL"}
  BY <1>1, ElementOfSeq
<1>3. Len(SubSeq(t, 1, n)) = n
  BY <1>1, <1>2, SubSeqProperties
<1>4. \A i \in 1 .. n : SubSeq(t, 1, n)[i] = t[i]
  BY <1>1, <1>2, SubSeqProperties
<1> QED
  BY <1>2, <1>3, <1>4, SubSeqProperties

(* What write_callback() leaves in memory is what has arrived and the      *)
(* chunk, a newline and a terminator, in exactly the cells it asked for.   *)
LEMMA WrittenCells ==
  ASSUME TypeOK, CellsInv, pc = "perform", NEW n \in 0 .. Len(answer.body)
  PROVE  LET data == SubSeq(answer.body, 1, n)
             new == Write(Allocate(Room(data)), data) IN
         /\ body_len = Arrived
         /\ Len(data) = n
         /\ Room(data) = Arrived + n + 2
         /\ new \in Seq(Cells)
         /\ Len(new) = Arrived + n + 2
         /\ \A i \in 1 .. Arrived + n : new[i] = text[i]
         /\ new[Arrived + n + 1] = "\n" /\ new[Arrived + n + 2] = "NUL"
<1> DEFINE data == SubSeq(answer.body, 1, n)
           size == Arrived + n + 2
           cells == Allocate(Room(data))
           new == Write(cells, data)
<1>1. /\ answer.body \in Texts /\ text \in Texts /\ body \in Seq(Cells)
      /\ Len(answer.body) \in Nat /\ Len(text) \in Nat
      /\ Arrived \in Nat /\ n \in Nat /\ Arrived + n <= Len(text)
  <2>1. answer.body \in Texts /\ text \in Texts /\ body \in Seq(Cells)
    BY DEF TypeOK
  <2>2. Len(answer.body) \in Nat /\ Len(text) \in Nat
    BY <2>1, TextProperties, MaxBodyAssumption
  <2>3. Arrived = Len(text) - Len(answer.body) /\ Arrived \in 0 .. Len(text)
    BY DEF CellsInv, Arrived
  <2> QED
    BY <2>1, <2>2, <2>3
<1>2. /\ data \in Seq(Bytes \cup {"NUL"}) /\ Len(data) = n
      /\ \A i \in 1 .. n : data[i] = answer.body[i]
  BY <1>1, StartOfText
<1>3. body_len = Arrived /\ Room(data) = size
  BY <1>1, <1>2 DEF CellsInv, Room
<1>4. cells = [i \in 1 .. size |->
                IF i <= Len(body) THEN body[i] ELSE "garbage"]
  BY <1>3 DEF Allocate
<1>5. DOMAIN cells = 1 .. size
  BY <1>4
<1>6. new = [i \in 1 .. size |->
              IF i \in Arrived + 1 .. Arrived + n THEN data[i - Arrived]
              ELSE IF i = Arrived + n + 1 THEN "\n"
              ELSE IF i = Arrived + n + 2 THEN "NUL"
              ELSE cells[i]]
  BY <1>2, <1>3, <1>5 DEF Write
<1>7. ASSUME NEW i \in 1 .. Arrived + n
      PROVE  new[i] = text[i] /\ new[i] \in Cells
  <2>1. i \in 1 .. size /\ i # Arrived + n + 1 /\ i # Arrived + n + 2
    BY <1>1
  <2>2. text[i] \in Cells
    <3>1. i \in 1 .. Len(text)
      BY <1>1
    <3>2. text \in Seq(Bytes \cup {"NUL"})
      BY <1>1, TextProperties
    <3> QED
      BY <3>1, <3>2, ElementOfSeq DEF Cells
  <2>3. CASE i \in Arrived + 1 .. Arrived + n
    <3>1. new[i] = data[i - Arrived] /\ i - Arrived \in 1 .. n
      BY <1>1, <1>6, <2>1, <2>3
    <3>2. data[i - Arrived] = answer.body[i - Arrived]
      BY <1>2, <3>1
    <3>3. answer.body[i - Arrived] = text[Arrived + (i - Arrived)]
      <4>1. \A j \in 1 .. Len(answer.body) :
              answer.body[j] = text[Arrived + j]
        BY DEF CellsInv
      <4>2. i - Arrived \in 1 .. Len(answer.body)
        BY <1>1, <3>1
      <4> QED
        BY <4>1, <4>2
    <3>4. Arrived + (i - Arrived) = i
      BY <1>1
    <3> QED
      BY <2>2, <3>1, <3>2, <3>3, <3>4
  <2>4. CASE i \in 1 .. Arrived
    <3>1. body # <<>> /\ Len(body) = Arrived + 2 /\ body[i] = text[i]
      BY <1>1, <2>4 DEF CellsInv
    <3>2. new[i] = cells[i]
      BY <1>1, <1>6, <2>1, <2>4
    <3>3. cells[i] = body[i]
      BY <1>1, <1>4, <2>1, <2>4, <3>1
    <3> QED
      BY <2>2, <3>1, <3>2, <3>3
  <2> QED
    BY <1>1, <2>3, <2>4
<1>8. new[Arrived + n + 1] = "\n" /\ new[Arrived + n + 2] = "NUL"
  BY <1>1, <1>6
<1>9. size \in Nat /\ \A i \in 1 .. size :
        i \in 1 .. Arrived + n \/ i = Arrived + n + 1 \/ i = Arrived + n + 2
  BY <1>1
<1>10. "\n" \in Cells /\ "NUL" \in Cells
  BY DEF Cells
<1>11. \A i \in 1 .. size : new[i] \in Cells
  BY <1>7, <1>8, <1>9, <1>10
<1>12. new \in Seq(Cells) /\ Len(new) = size
  <2>1. new = [i \in 1 .. size |-> new[i]]
    BY <1>6
  <2>2. [i \in 1 .. size |-> new[i]] \in Seq(Cells)
    BY <1>9, <1>11, IsASeq
  <2>3. DOMAIN new = 1 .. size
    BY <1>6
  <2> HIDE DEF new
  <2>4. new \in Seq(Cells)
    BY <2>1, <2>2
  <2> QED
    BY <2>3, <2>4, <1>9, LenProperties
<1> QED
  BY <1>2, <1>3, <1>7, <1>8, <1>12

-----------------------------------------------------------------------------
(* The steps.                                                              *)

(* Lists of headers have the lengths one expects.                          *)
LEMMA HeaderLengths ==
  ASSUME NEW a, NEW b, NEW c, NEW d
  PROVE  /\ Len(<<>>) \in 0 .. 4 /\ Len(<<a>>) \in 0 .. 4
         /\ Len(<<a, b>>) \in 0 .. 4 /\ Len(<<a, b, c>>) \in 0 .. 4
         /\ Len(<<a, b, c, d>>) \in 0 .. 4
  OBVIOUS

(* A step that leaves the transfer alone leaves the cells alone.           *)
LEMMA CellsFrame ==
  ASSUME CellsInv, NoOverflow, pc # "done",
         UNCHANGED <<answer, text, response>>
  PROVE  CellsInv' /\ NoOverflow'
<1>1. /\ answer' = answer /\ text' = text /\ body' = body
      /\ body_len' = body_len /\ overflow' = overflow
  BY DEF response
<1>2. Arrived' = Arrived
  BY <1>1 DEF Arrived
<1> QED
  BY <1>1, <1>2 DEF CellsInv, NoOverflow

(* Before the transfer a step either goes on or returns an error, and the  *)
(* list is all there is to release.                                        *)
LEMMA StepBeforeTransfer ==
  ASSUME ExchangeInv, pc \in BeforePerform,
         UNCHANGED <<verb, answer, text, response>>,
         pc' \in BeforePerform \cup {"perform", "done", "crashed"},
         pc' # "done" => result' = "none",
         pc' = "done" => result' \in {"UL_MALLOC", "UL_CURL"},
         pc' = "done" /\ result' # "UL_MALLOC" => owned' = {},
         owned' \subseteq {"list", "handle"},
         pc' \in BeforePerform => owned' \subseteq {"list"},
         Len(headers') \in 0 .. 4, HeadersInv'
  PROVE  ExchangeInv'
<1>1. /\ verb' = verb /\ answer' = answer /\ text' = text /\ body' = body
      /\ body_len' = body_len /\ fields' = fields /\ overflow' = overflow
  BY DEF response
<1>2. TypeOK /\ ResultInv /\ CellsInv /\ NoOverflow
  BY DEF ExchangeInv
<1>3. CellsInv' /\ NoOverflow'
  <2>1. pc # "done"
    BY DEF BeforePerform
  <2> QED
    BY <1>2, <2>1, CellsFrame
<1>4. TypeOK'
  <2>1. pc' \in {"date", "auth", "accept", "type", "init", "perform", "done",
                 "crashed"}
    BY DEF BeforePerform
  <2>2. result' \in {"none", "UL_OK", "UL_CURL", "UL_MALLOC"}
    OBVIOUS
  <2> QED
    BY <1>1, <1>2, <2>1, <2>2 DEF TypeOK
<1>5. ResultInv'
  <2>1. result' # "UL_OK"
    OBVIOUS
  <2>2. body' = <<>> /\ answer'.body = text'
    BY <1>1, <1>2 DEF ResultInv
  <2> QED
    BY <2>1, <2>2 DEF ResultInv
<1>6. Released'
  BY DEF Released
<1> QED
  BY <1>3, <1>4, <1>5, <1>6 DEF ExchangeInv

(* Adding a header succeeds and goes on, or fails and returns.             *)
LEMMA AddHeaderPreserves ==
  ASSUME ExchangeInv, pc \in {"date", "auth", "accept", "type"},
         UNCHANGED <<verb, answer, text, response>>,
         \/ /\ pc' \in BeforePerform /\ result' = result
            /\ owned' = owned \cup {"list"}
            /\ HeadersInv' /\ Len(headers') \in 0 .. 4
         \/ /\ headers' = <<>> /\ owned' = owned
            /\ pc' = "done" /\ result' = "UL_MALLOC"
  PROVE  ExchangeInv'
<1>1. /\ pc \in BeforePerform /\ result = "none"
      /\ owned \subseteq {"list"}
  BY DEF BeforePerform, ExchangeInv, ResultInv
<1>2. CASE /\ pc' \in BeforePerform /\ result' = result
           /\ owned' = owned \cup {"list"}
           /\ HeadersInv' /\ Len(headers') \in 0 .. 4
  <2>1. pc' # "done" /\ owned' \subseteq {"list"}
    BY <1>1, <1>2 DEF BeforePerform
  <2> QED
    BY <1>1, <1>2, <2>1, StepBeforeTransfer
<1>3. CASE /\ headers' = <<>> /\ owned' = owned
           /\ pc' = "done" /\ result' = "UL_MALLOC"
  <2>1. HeadersInv' /\ pc' \notin BeforePerform /\ Len(headers') \in 0 .. 4
    BY <1>3, HeaderLengths DEF HeadersInv, BeforePerform
  <2> QED
    BY <1>1, <1>3, <2>1, StepBeforeTransfer
<1> QED
  BY <1>2, <1>3

(* The date header is the first.                                           *)
LEMMA AddDatePreserves ==
  ASSUME ExchangeInv, AddDate
  PROVE  ExchangeInv'
<1>1. /\ pc = "date" /\ UNCHANGED <<verb, answer, text, response>>
      /\ \/ /\ headers' = Append(headers, "Date")
            /\ owned' = owned \cup {"list"} /\ pc' = "auth"
            /\ result' = result
         \/ /\ headers' = <<>> /\ owned' = owned
            /\ pc' = "done" /\ result' = "UL_MALLOC"
  BY DEF AddDate, AddHeader, Finish
<1>2. headers = <<>>
  BY <1>1 DEF ExchangeInv, HeadersInv
<1>3. ASSUME headers' = Append(headers, "Date"), pc' = "auth"
      PROVE  HeadersInv' /\ Len(headers') \in 0 .. 4
  <2>1. headers' = <<"Date">>
    BY <1>2, <1>3, AppendOne
  <2> QED
    BY <1>1, <1>3, <2>1, HeaderLengths DEF HeadersInv
<1> QED
  BY <1>1, <1>3, AddHeaderPreserves DEF BeforePerform

(* The signature is the second.                                            *)
LEMMA AddAuthPreserves ==
  ASSUME ExchangeInv, AddAuth
  PROVE  ExchangeInv'
<1>1. CASE AddHeader("auth", "Authorization", "accept")
  <2>1. /\ pc = "auth" /\ UNCHANGED <<verb, answer, text, response>>
        /\ \/ /\ headers' = Append(headers, "Authorization")
              /\ owned' = owned \cup {"list"} /\ pc' = "accept"
              /\ result' = result
           \/ /\ headers' = <<>> /\ owned' = owned
              /\ pc' = "done" /\ result' = "UL_MALLOC"
    BY <1>1 DEF AddHeader, Finish
  <2>2. headers = <<"Date">>
    BY <2>1 DEF ExchangeInv, HeadersInv
  <2>3. ASSUME headers' = Append(headers, "Authorization"),
               pc' = "accept"
        PROVE  HeadersInv' /\ Len(headers') \in 0 .. 4
    <3>1. headers' = <<"Date", "Authorization">>
      BY <2>2, <2>3, AppendTwo
    <3> QED
      BY <2>1, <2>3, <3>1, HeaderLengths DEF HeadersInv
  <2> QED
    BY <2>1, <2>3, AddHeaderPreserves DEF BeforePerform
<1>2. CASE DigestMissing
  <2>1. /\ pc = "auth" /\ pc' = "crashed" /\ headers' = headers
        /\ owned' = owned /\ result' = result
        /\ UNCHANGED <<verb, answer, text, response>>
    BY <1>2 DEF DigestMissing
  <2>2. verb' = verb
    BY <2>1
  <2>3. HeadersInv' /\ Len(headers') \in 0 .. 4
    BY <2>1, <2>2 DEF ExchangeInv, HeadersInv, TypeOK
  <2>4. result' = "none" /\ owned' \subseteq {"list"}
    BY <2>1 DEF ExchangeInv, ResultInv, BeforePerform
  <2> QED
    BY <2>1, <2>3, <2>4, StepBeforeTransfer DEF BeforePerform
<1> QED
  BY <1>1, <1>2 DEF AddAuth

(* The third header.                                                       *)
LEMMA AddAcceptPreserves ==
  ASSUME ExchangeInv, AddAccept
  PROVE  ExchangeInv'
<1>1. /\ pc = "accept" /\ UNCHANGED <<verb, answer, text, response>>
      /\ \/ /\ headers' = Append(headers, "Accept")
            /\ owned' = owned \cup {"list"}
            /\ pc' = (IF verb = "GET" THEN "init" ELSE "type")
            /\ result' = result
         \/ /\ headers' = <<>> /\ owned' = owned
            /\ pc' = "done" /\ result' = "UL_MALLOC"
  BY DEF AddAccept, AddHeader, Finish
<1>2. headers = <<"Date", "Authorization">>
  BY <1>1 DEF ExchangeInv, HeadersInv
<1>3. ASSUME headers' = Append(headers, "Accept"), pc' \in {"init", "type"}
      PROVE  HeadersInv' /\ Len(headers') \in 0 .. 4
  <2>1. headers' = <<"Date", "Authorization", "Accept">>
    BY <1>2, <1>3, AppendThree
  <2> QED
    BY <1>1, <1>3, <2>1, HeaderLengths DEF HeadersInv
<1>4. pc' = (IF verb = "GET" THEN "init" ELSE "type") =>
        pc' \in {"init", "type"} /\ pc' \in BeforePerform
  BY DEF BeforePerform
<1> QED
  BY <1>1, <1>3, <1>4, AddHeaderPreserves

(* The fourth header, of the requests with a body.                         *)
LEMMA AddContentTypePreserves ==
  ASSUME ExchangeInv, AddContentType
  PROVE  ExchangeInv'
<1>1. /\ pc = "type" /\ UNCHANGED <<verb, answer, text, response>>
      /\ \/ /\ headers' = Append(headers, "Content-Type")
            /\ owned' = owned \cup {"list"} /\ pc' = "init"
            /\ result' = result
         \/ /\ headers' = <<>> /\ owned' = owned
            /\ pc' = "done" /\ result' = "UL_MALLOC"
  BY DEF AddContentType, AddHeader, Finish
<1>2. headers = <<"Date", "Authorization", "Accept">>
  BY <1>1 DEF ExchangeInv, HeadersInv
<1>3. ASSUME headers' = Append(headers, "Content-Type"), pc' = "init"
      PROVE  HeadersInv' /\ Len(headers') \in 0 .. 4
  <2>1. headers' = <<"Date", "Authorization", "Accept", "Content-Type">>
    BY <1>2, <1>3, AppendFour
  <2> QED
    BY <1>1, <1>3, <2>1, HeaderLengths DEF HeadersInv
<1> QED
  BY <1>1, <1>3, AddHeaderPreserves DEF BeforePerform

(* The transfer starts with the handle, or the list is released.           *)
LEMMA EasyInitPreserves ==
  ASSUME ExchangeInv, EasyInit
  PROVE  ExchangeInv'
<1>1. /\ pc = "init" /\ pc \in BeforePerform
      /\ UNCHANGED <<verb, answer, text, response>>
      /\ \/ /\ owned' = owned \cup {"handle"} /\ pc' = "perform"
            /\ headers' = headers /\ result' = result
         \/ /\ headers' = <<>> /\ owned' = owned \ {"list"}
            /\ pc' = "done" /\ result' = "UL_CURL"
  BY DEF EasyInit, Finish, BeforePerform
<1>2. owned \subseteq {"list"} /\ result = "none"
  BY <1>1 DEF ExchangeInv, ResultInv
<1>3. CASE /\ owned' = owned \cup {"handle"} /\ pc' = "perform"
           /\ headers' = headers /\ result' = result
  <2>1. HeadersInv' /\ Len(headers') \in 0 .. 4
    BY <1>1, <1>3 DEF ExchangeInv, HeadersInv, TypeOK
  <2> QED
    BY <1>1, <1>2, <1>3, <2>1, StepBeforeTransfer DEF BeforePerform
<1>4. CASE /\ headers' = <<>> /\ owned' = owned \ {"list"}
           /\ pc' = "done" /\ result' = "UL_CURL"
  <2>1. HeadersInv' /\ Len(headers') \in 0 .. 4
    BY <1>4, HeaderLengths DEF HeadersInv
  <2>2. owned' = {}
    BY <1>2, <1>4
  <2> QED
    BY <1>1, <1>4, <2>1, <2>2, StepBeforeTransfer DEF BeforePerform
<1> QED
  BY <1>1, <1>3, <1>4

(* During the transfer a step either goes on with the same list, or the    *)
(* exchange releases everything and returns, UL_OK only with the whole     *)
(* body.                                                                   *)
LEMMA StepOfTransfer ==
  ASSUME ExchangeInv, pc = "perform", UNCHANGED <<verb, text>>,
         answer' \in [head : Seq(Lines), body : Texts, chunk : BOOLEAN],
         body' \in Seq(Cells), body_len' \in 0 .. MaxBody,
         fields' \in Seq(FieldLines), NoOverflow', overflow' \in BOOLEAN,
         CellsInv',
         \/ UNCHANGED <<pc, headers, owned, result>>
         \/ PerformReturns("UL_CURL")
         \/ /\ PerformReturns("UL_OK")
            /\ answer'.body = <<>> /\ (text' # <<>> => body' # <<>>)
  PROVE  ExchangeInv'
<1>1. TypeOK /\ HeadersInv /\ ResultInv
  BY DEF ExchangeInv
<1>2. verb' = verb /\ text' = text
  OBVIOUS
<1>3. CASE UNCHANGED <<pc, headers, owned, result>>
  <2>1. pc' = pc /\ headers' = headers /\ owned' = owned /\ result' = result
    BY <1>3
  <2>2. TypeOK'
    BY <1>1, <1>2, <2>1 DEF TypeOK
  <2>3. HeadersInv'
    BY <1>1, <1>2, <2>1 DEF HeadersInv
  <2>4. pc' = "perform" /\ result' = "none"
    BY <1>1, <2>1 DEF ResultInv
  <2>5. ResultInv' /\ Released'
    BY <2>4 DEF ResultInv, Released, BeforePerform
  <2> QED
    BY <2>2, <2>3, <2>5 DEF ExchangeInv
<1>4. CASE \/ PerformReturns("UL_CURL")
           \/ /\ PerformReturns("UL_OK")
              /\ answer'.body = <<>> /\ (text' # <<>> => body' # <<>>)
  <2>1. /\ pc' = "done" /\ headers' = <<>>
        /\ owned' = owned \ {"list", "handle"}
        /\ result' \in {"UL_OK", "UL_CURL"}
        /\ result' = "UL_OK" =>
             answer'.body = <<>> /\ (text' # <<>> => body' # <<>>)
    BY <1>4 DEF PerformReturns, Finish
  <2>2. owned' = {}
    BY <1>1, <2>1 DEF TypeOK
  <2>3. Len(headers') \in 0 .. 4
    BY <2>1, HeaderLengths
  <2>4. TypeOK'
    BY <1>1, <1>2, <2>1, <2>2, <2>3 DEF TypeOK
  <2>5. HeadersInv'
    BY <2>1 DEF HeadersInv
  <2>6. ResultInv' /\ Released'
    BY <2>1, <2>2 DEF ResultInv, Released, BeforePerform
  <2> QED
    BY <2>4, <2>5, <2>6 DEF ExchangeInv
<1> QED
  BY <1>3, <1>4

(* A line of the head leaves the cells alone.                              *)
LEMMA HeaderArrivesPreserves ==
  ASSUME ExchangeInv, HeaderArrives
  PROVE  ExchangeInv'
<1> DEFINE line == Head(answer.head)
<1>1. /\ pc = "perform" /\ answer.head # <<>>
      /\ answer' = [answer EXCEPT !.head = Tail(answer.head)]
      /\ verb' = verb /\ text' = text /\ body' = body
      /\ body_len' = body_len /\ overflow' = overflow
  BY DEF HeaderArrives
<1>2. TypeOK /\ CellsInv /\ NoOverflow
  BY DEF ExchangeInv
<1>3. answer.head \in Seq(Lines) /\ Tail(answer.head) \in Seq(Lines)
  BY <1>1, <1>2, HeadTailProperties DEF TypeOK
<1>4. /\ answer' \in [head : Seq(Lines), body : Texts, chunk : BOOLEAN]
      /\ answer'.body = answer.body
  BY <1>1, <1>2, <1>3 DEF TypeOK
<1>5. fields' \in Seq(FieldLines)
  <2>1. fields \in Seq(FieldLines) /\ <<>> \in Seq(FieldLines)
    BY <1>2, EmptySeq DEF TypeOK
  <2>2. line \in FieldLines => Append(fields, line) \in Seq(FieldLines)
    BY <2>1, AppendProperties
  <2>3. \/ fields' = fields
        \/ /\ line \in FieldLines
           /\ fields' \in {Append(fields, line)} \cup Fails({<<>>})
    BY DEF HeaderArrives
  <2> QED
    BY <2>1, <2>2, <2>3 DEF Fails
<1>6. CellsInv'
  <2>1. Arrived' = Arrived
    BY <1>1, <1>4 DEF Arrived
  <2>2. pc # "done"
    BY <1>1
  <2> QED
    BY <1>1, <1>2, <1>4, <2>1, <2>2 DEF CellsInv
<1>7. /\ NoOverflow' /\ body' \in Seq(Cells) /\ body_len' \in 0 .. MaxBody
      /\ overflow' \in BOOLEAN
  BY <1>1, <1>2 DEF NoOverflow, TypeOK
<1>8. UNCHANGED <<pc, headers, owned, result>> \/ PerformReturns("UL_CURL")
  BY DEF HeaderArrives
<1> QED
  BY <1>1, <1>4, <1>5, <1>6, <1>7, <1>8, StepOfTransfer

(* The transfer ends.                                                      *)
LEMMA TransferEndsPreserves ==
  ASSUME ExchangeInv, TransferEnds
  PROVE  ExchangeInv'
<1>1. /\ pc = "perform" /\ verb' = verb /\ answer' = answer
      /\ text' = text /\ body' = body /\ body_len' = body_len
      /\ fields' = fields /\ overflow' = overflow
      /\ UNCHANGED <<answer, text, response>>
  BY DEF TransferEnds, response
<1>2. TypeOK /\ CellsInv /\ NoOverflow
  BY DEF ExchangeInv
<1>3. CellsInv' /\ NoOverflow'
  BY <1>1, <1>2, CellsFrame
<1>4. /\ answer' \in [head : Seq(Lines), body : Texts, chunk : BOOLEAN]
      /\ body' \in Seq(Cells) /\ body_len' \in 0 .. MaxBody
      /\ fields' \in Seq(FieldLines) /\ overflow' \in BOOLEAN
  BY <1>1, <1>2 DEF TypeOK
<1>5. answer.body = <<>> /\ text # <<>> => body # <<>>
  <2>1. SUFFICES ASSUME answer.body = <<>>, body = <<>>
                 PROVE  text = <<>>
    OBVIOUS
  <2>2. Arrived = 0 /\ Len(<<>>) = 0
    BY <1>1, <1>2, <2>1 DEF CellsInv
  <2>3. text \in Seq(Bytes \cup {"NUL"}) /\ Len(text) \in Nat
    BY <1>2, TextProperties, MaxBodyAssumption DEF TypeOK
  <2>4. Len(text) = 0
    BY <2>1, <2>2, <2>3 DEF Arrived
  <2> QED
    BY <2>3, <2>4, EmptySeq
<1>6. \/ PerformReturns("UL_CURL")
      \/ PerformReturns("UL_OK") /\ answer.body = <<>>
  BY DEF TransferEnds
<1> QED
  BY <1>1, <1>3, <1>4, <1>5, <1>6, StepOfTransfer

(* A chunk arrives: it is written, or refused, and then the transfer ends. *)
LEMMA ChunkArrivesPreserves ==
  ASSUME ExchangeInv, ChunkArrives
  PROVE  ExchangeInv'
<1>1. PICK n \in 0 .. Len(answer.body) :
        LET data == SubSeq(answer.body, 1, n) IN
        /\ n = 0 => text = <<>>
        /\ answer' = [answer EXCEPT
             !.body = SubSeq(answer.body, n + 1, Len(answer.body)),
             !.chunk = n < Len(answer.body)]
        /\ \/ /\ body' = Write(Allocate(Room(data)), data)
              /\ body_len' = NewLength(data)
              /\ overflow' = (overflow \/ body_len + n + 2 > Room(data))
              /\ UNCHANGED <<pc, headers, owned, result>>
           \/ /\ n > 0
              /\ ChunkRefused
           \/ /\ n = 0
              /\ UNCHANGED <<pc, headers, owned, result, body, body_len,
                             overflow>>
  BY DEF ChunkArrives
<1> DEFINE data == SubSeq(answer.body, 1, n)
<1>2. pc = "perform" /\ verb' = verb /\ text' = text /\ fields' = fields
  BY DEF ChunkArrives
<1>3. TypeOK /\ CellsInv /\ NoOverflow
  BY DEF ExchangeInv
<1>4. /\ answer.body \in Texts /\ text \in Texts
      /\ Len(answer.body) \in Nat /\ Len(text) \in 0 .. MaxBody
      /\ Arrived = Len(text) - Len(answer.body) /\ Arrived \in 0 .. Len(text)
      /\ n \in Nat /\ n <= Len(answer.body) /\ MaxBody \in Nat
  <2>1. answer.body \in Texts /\ text \in Texts
    BY <1>3 DEF TypeOK
  <2>2. Len(answer.body) \in Nat /\ Len(text) \in 0 .. MaxBody
    BY <2>1, TextProperties, MaxBodyAssumption
  <2> QED
    BY <1>3, <2>1, <2>2, MaxBodyAssumption DEF CellsInv, Arrived
<1>5. /\ answer' \in [head : Seq(Lines), body : Texts, chunk : BOOLEAN]
      /\ Len(answer'.body) = Len(answer.body) - n
      /\ \A i \in 1 .. Len(answer'.body) :
           answer'.body[i] = answer.body[n + i]
  <2> DEFINE rest == SubSeq(answer.body, n + 1, Len(answer.body))
  <2>1. /\ rest \in Texts /\ Len(rest) = Len(answer.body) - n
        /\ \A i \in 1 .. Len(rest) : rest[i] = answer.body[n + i]
    BY <1>4, RestOfText
  <2>2. answer'.body = rest
    BY <1>1, <1>3 DEF TypeOK
  <2>3. (n < Len(answer.body)) \in BOOLEAN
    OBVIOUS
  <2> HIDE DEF rest
  <2>4. answer' \in [head : Seq(Lines), body : Texts, chunk : BOOLEAN]
    BY <1>1, <1>3, <2>1, <2>3 DEF TypeOK, rest
  <2> QED
    BY <2>1, <2>2, <2>4
<1>6. Arrived' = Arrived + n /\ Arrived' \in 0 .. Len(text')
  <2>1. Arrived' = Len(text) - Len(answer'.body)
    BY <1>2 DEF Arrived
  <2>2. Arrived' = Len(text) - (Len(answer.body) - n)
    BY <1>5, <2>1
  <2>3. /\ Len(text) - (Len(answer.body) - n) = Arrived + n
        /\ Arrived + n \in 0 .. Len(text)
    BY <1>4
  <2> QED
    BY <1>2, <2>2, <2>3
<1>7. \A i \in 1 .. Len(answer'.body) : answer'.body[i] = text'[Arrived' + i]
  <2> SUFFICES ASSUME NEW i \in 1 .. Len(answer.body) - n
               PROVE  answer'.body[i] = text[(Arrived + n) + i]
    BY <1>2, <1>5, <1>6
  <2>1. n + i \in 1 .. Len(answer.body)
    BY <1>4
  <2>2. answer.body[n + i] = text[Arrived + (n + i)]
    BY <1>3, <2>1 DEF CellsInv
  <2>3. Arrived + (n + i) = (Arrived + n) + i
    BY <1>4
  <2> QED
    BY <1>5, <2>2, <2>3
<1>8. CASE /\ body' = Write(Allocate(Room(data)), data)
           /\ body_len' = NewLength(data)
           /\ overflow' = (overflow \/ body_len + n + 2 > Room(data))
           /\ UNCHANGED <<pc, headers, owned, result>>
  <2>1. /\ body_len = Arrived /\ Len(data) = n
        /\ Room(data) = Arrived + n + 2
        /\ body' \in Seq(Cells) /\ Len(body') = Arrived + n + 2
        /\ \A i \in 1 .. Arrived + n : body'[i] = text[i]
        /\ body'[Arrived + n + 1] = "\n" /\ body'[Arrived + n + 2] = "NUL"
    BY <1>2, <1>3, <1>8, WrittenCells
  <2>2. body_len' = Arrived + n
    BY <1>8, <2>1 DEF NewLength
  <2>3. ~overflow'
    <3>1. \A k \in Int : ~(k > k)
      OBVIOUS
    <3>2. overflow' = (overflow \/ Arrived + n + 2 > Arrived + n + 2)
      BY <1>8, <2>1
    <3>3. Arrived + n + 2 \in Int
      BY <1>4
    <3> QED
      BY <1>3, <3>1, <3>2, <3>3, Zenon DEF NoOverflow
  <2>4. body' # <<>>
    BY <1>4, <2>1
  <2>5. CellsInv'
    <3>1. /\ body_len' = Arrived' /\ Len(body') = Arrived' + 2
          /\ \A i \in 1 .. Arrived' : body'[i] = text'[i]
          /\ body'[Arrived' + 1] = "\n" /\ body'[Arrived' + 2] = "NUL"
      BY <1>2, <1>6, <2>1, <2>2
    <3> QED
      BY <1>6, <1>7, <2>4, <3>1 DEF CellsInv
  <2>6. body_len' \in 0 .. MaxBody
    BY <1>4, <2>2
  <2>7. NoOverflow' /\ overflow' \in BOOLEAN /\ fields' \in Seq(FieldLines)
    BY <1>2, <1>3, <1>8, <2>3 DEF NoOverflow, TypeOK
  <2> QED
    BY <1>2, <1>5, <1>8, <2>1, <2>5, <2>6, <2>7, StepOfTransfer
<1>9. CASE n > 0 /\ ChunkRefused
  <2>1. /\ body' = <<>> /\ body_len' = body_len /\ overflow' = overflow
        /\ PerformReturns("UL_CURL") /\ pc' = "done"
    BY <1>9 DEF ChunkRefused, PerformReturns, Finish
  <2>2. CellsInv'
    BY <1>6, <1>7, <2>1 DEF CellsInv
  <2>3. /\ body' \in Seq(Cells) /\ body_len' \in 0 .. MaxBody
        /\ NoOverflow' /\ overflow' \in BOOLEAN /\ fields' \in Seq(FieldLines)
    BY <1>2, <1>3, <2>1, EmptySeq DEF NoOverflow, TypeOK
  <2> QED
    BY <1>2, <1>5, <2>1, <2>2, <2>3, StepOfTransfer
<1>10. CASE /\ n = 0
            /\ UNCHANGED <<pc, headers, owned, result, body, body_len,
                           overflow>>
  <2>1. /\ body' = body /\ body_len' = body_len /\ overflow' = overflow
        /\ pc' = pc
    BY <1>10
  <2>2. Arrived' = Arrived /\ pc # "done"
    BY <1>2, <1>4, <1>6, <1>10
  <2>3. CellsInv'
    BY <1>2, <1>3, <1>6, <1>7, <2>1, <2>2 DEF CellsInv
  <2>4. /\ body' \in Seq(Cells) /\ body_len' \in 0 .. MaxBody
        /\ NoOverflow' /\ overflow' \in BOOLEAN /\ fields' \in Seq(FieldLines)
    BY <1>2, <1>3, <2>1 DEF NoOverflow, TypeOK
  <2> QED
    BY <1>2, <1>5, <1>10, <2>3, <2>4, StepOfTransfer
<1> QED
  BY <1>1, <1>8, <1>9, <1>10

-----------------------------------------------------------------------------
(* The theorems.                                                           *)

(* An exchange begins with nothing allocated and nothing arrived.          *)
LEMMA InitEstablishes == Init => ExchangeInv
<1> SUFFICES ASSUME Init
             PROVE  ExchangeInv
  OBVIOUS
<1>1. PICK head \in Heads :
        answer = [head |-> head, body |-> text, chunk |-> TRUE]
  BY DEF Init
<1>2. /\ pc = "date" /\ verb \in Verbs /\ headers = <<>> /\ owned = {}
      /\ result = "none" /\ text \in Texts /\ body = <<>> /\ body_len = 0
      /\ fields = <<>> /\ overflow = FALSE
  BY DEF Init
<1>3. TypeOK
  <2>1. answer \in [head : Seq(Lines), body : Texts, chunk : BOOLEAN]
    BY <1>1, <1>2, HeadsAssumption
  <2>2. body \in Seq(Cells) /\ fields \in Seq(FieldLines)
    BY <1>2, EmptySeq
  <2>3. body_len \in 0 .. MaxBody
    BY <1>2, MaxBodyAssumption
  <2>4. Len(headers) \in 0 .. 4
    BY <1>2, HeaderLengths
  <2> QED
    BY <1>2, <2>1, <2>2, <2>3, <2>4 DEF TypeOK
<1>4. HeadersInv /\ ResultInv /\ NoOverflow /\ Released
  BY <1>1, <1>2 DEF HeadersInv, ResultInv, NoOverflow, Released
<1>5. CellsInv
  <2>1. Len(text) \in Nat /\ answer.body = text
    BY <1>1, <1>2, TextProperties, MaxBodyAssumption
  <2>2. Arrived = 0
    BY <2>1 DEF Arrived
  <2>3. \A i \in 1 .. Len(text) : 0 + i = i
    BY <2>1
  <2> QED
    BY <1>2, <2>1, <2>2, <2>3 DEF CellsInv
<1> QED
  BY <1>3, <1>4, <1>5 DEF ExchangeInv

(* Every step of the exchange preserves the invariant.                     *)
LEMMA NextPreserves == ExchangeInv /\ [Next]_vars => ExchangeInv'
<1> SUFFICES ASSUME ExchangeInv, [Next]_vars
             PROVE  ExchangeInv'
  OBVIOUS
<1>1. CASE AddDate
  BY <1>1, AddDatePreserves
<1>2. CASE AddAuth
  BY <1>2, AddAuthPreserves
<1>3. CASE AddAccept
  BY <1>3, AddAcceptPreserves
<1>4. CASE AddContentType
  BY <1>4, AddContentTypePreserves
<1>5. CASE EasyInit
  BY <1>5, EasyInitPreserves
<1>6. CASE HeaderArrives
  BY <1>6, HeaderArrivesPreserves
<1>7. CASE ChunkArrives
  BY <1>7, ChunkArrivesPreserves
<1>8. CASE TransferEnds
  BY <1>8, TransferEndsPreserves
<1>9. CASE UNCHANGED vars
  <2>1. /\ pc' = pc /\ verb' = verb /\ headers' = headers /\ owned' = owned
        /\ result' = result /\ answer' = answer /\ text' = text
        /\ body' = body /\ body_len' = body_len /\ fields' = fields
        /\ overflow' = overflow
    BY <1>9 DEF vars, response
  <2>2. Arrived' = Arrived
    BY <2>1 DEF Arrived
  <2>3. TypeOK' /\ ResultInv' /\ NoOverflow' /\ Released'
    BY <2>1 DEF ExchangeInv, TypeOK, ResultInv, NoOverflow, Released
  <2>4. HeadersInv'
    BY <2>1 DEF ExchangeInv, HeadersInv
  <2>5. CellsInv'
    BY <2>1, <2>2 DEF ExchangeInv, CellsInv
  <2> QED
    BY <2>3, <2>4, <2>5 DEF ExchangeInv
<1> QED
  BY <1>1, <1>2, <1>3, <1>4, <1>5, <1>6, <1>7, <1>8, <1>9 DEF Next

(* ExchangeInv holds in every state of an exchange.                        *)
THEOREM ExchangeCorrect == Spec => []ExchangeInv
<1> QED
  BY InitEstablishes, NextPreserves, PTL DEF Spec

(* Every variable has its type; in particular a list has at most the four  *)
(* headers the three functions add, and body_len never exceeds the body.   *)
THEOREM ExchangeTypeCorrect == Spec => []TypeOK
<1>1. ExchangeInv => TypeOK
  BY DEF ExchangeInv
<1> QED
  BY <1>1, ExchangeCorrect, PTL

(* However long the body, wherever it is cut and whichever realloc() fails,*)
(* write_callback() never copies past the cells it allocated.              *)
THEOREM NoOverflowHolds == Spec => []NoOverflow
<1>1. ExchangeInv => NoOverflow
  BY DEF ExchangeInv
<1> QED
  BY <1>1, ExchangeCorrect, PTL

(* Whatever an exchange returned it has released its list and its handle,  *)
(* but for the list that a failed curl_slist_append() loses.               *)
THEOREM ReleasedHolds == Spec => []Released
<1>1. ExchangeInv => Released
  BY DEF ExchangeInv
<1> QED
  BY <1>1, ExchangeCorrect, PTL

(* The response the caller reads is NULL, or what has arrived followed by  *)
(* a newline and a terminator.                                             *)
LEMMA CellsAreWhatArrived ==
  ASSUME ExchangeInv, body # <<>>
  PROVE  body = SubSeq(text, 1, Arrived) \o <<"\n", "NUL">>
<1> DEFINE start == SubSeq(text, 1, Arrived)
           end == <<"\n", "NUL">>
<1>1. /\ text \in Texts /\ body \in Seq(Cells)
      /\ Arrived \in 0 .. Len(text) /\ Len(body) = Arrived + 2
      /\ \A i \in 1 .. Arrived : body[i] = text[i]
      /\ body[Arrived + 1] = "\n" /\ body[Arrived + 2] = "NUL"
  BY DEF ExchangeInv, TypeOK, CellsInv
<1>2. Len(text) \in Nat /\ Arrived \in Nat
  BY <1>1, TextProperties, MaxBodyAssumption
<1>3. /\ start \in Seq(Bytes \cup {"NUL"}) /\ Len(start) = Arrived
      /\ \A i \in 1 .. Arrived : start[i] = text[i]
  BY <1>1, StartOfText
<1>4. start \in Seq(Cells)
  <2>1. Bytes \cup {"NUL"} \subseteq Cells
    BY DEF Cells
  <2> QED
    BY <1>3, <2>1, SeqMonotonic
<1>5. /\ end \in Seq(Cells) /\ Len(end) = 2
      /\ end[1] = "\n" /\ end[2] = "NUL"
  <2>1. "\n" \in Cells /\ "NUL" \in Cells
    BY DEF Cells
  <2> QED
    BY <2>1
<1> HIDE DEF start, end
<1>6. /\ start \o end \in Seq(Cells)
      /\ Len(start \o end) = Arrived + 2
      /\ \A i \in 1 .. Arrived + 2 :
           (start \o end)[i] = IF i <= Arrived THEN start[i]
                                               ELSE end[i - Arrived]
  <2>1. /\ start \o end \in Seq(Cells)
        /\ Len(start \o end) = Len(start) + Len(end)
        /\ \A i \in 1 .. Len(start) + Len(end) :
             (start \o end)[i] = IF i <= Len(start) THEN start[i]
                                                   ELSE end[i - Len(start)]
    BY <1>4, <1>5, ConcatProperties
  <2> QED
    BY <1>3, <1>5, <2>1
<1>7. ASSUME NEW i \in 1 .. Arrived + 2
      PROVE  (start \o end)[i] = body[i]
  <2>1. CASE i \in 1 .. Arrived
    <3>1. (start \o end)[i] = start[i]
      BY <1>2, <1>6, <2>1
    <3> QED
      BY <1>1, <1>3, <2>1, <3>1
  <2>2. CASE i = Arrived + 1
    <3>1. (start \o end)[i] = end[i - Arrived] /\ i - Arrived = 1
      BY <1>2, <1>6, <2>2
    <3> QED
      BY <1>1, <1>5, <2>2, <3>1
  <2>3. CASE i = Arrived + 2
    <3>1. (start \o end)[i] = end[i - Arrived] /\ i - Arrived = 2
      BY <1>2, <1>6, <2>3
    <3> QED
      BY <1>1, <1>5, <2>3, <3>1
  <2>4. i \in 1 .. Arrived \/ i = Arrived + 1 \/ i = Arrived + 2
    BY <1>2
  <2> QED
    BY <2>1, <2>2, <2>3, <2>4
<1>8. body = start \o end
  BY <1>1, <1>6, <1>7, SeqEqual
<1> QED
  BY <1>8 DEF start, end

(* For every length and every cut: the body of the response is what has    *)
(* arrived, a newline and a terminator.                                    *)
THEOREM BodyIsWhatArrivedHolds == Spec => []BodyIsWhatArrived
<1>1. ExchangeInv => BodyIsWhatArrived
  BY CellsAreWhatArrived DEF BodyIsWhatArrived, Arrived
<1> QED
  BY <1>1, ExchangeCorrect, PTL

(* strdup() of a response finds the terminator that write_callback() put   *)
(* after the newline.                                                      *)
LEMMA LengthOfString ==
  ASSUME ExchangeInv, body # <<>>, "NUL" \notin ToSet(text)
  PROVE  CString(body) = Arrived + 1
<1> DEFINE nuls == {i \in 1 .. Len(body) : body[i] = "NUL"}
<1>1. /\ text \in Texts /\ Arrived \in 0 .. Len(text)
      /\ Len(body) = Arrived + 2
      /\ \A i \in 1 .. Arrived : body[i] = text[i]
      /\ body[Arrived + 1] = "\n" /\ body[Arrived + 2] = "NUL"
  BY DEF ExchangeInv, TypeOK, CellsInv
<1>2. Len(text) \in Nat /\ Arrived \in Nat /\ DOMAIN text = 1 .. Len(text)
  BY <1>1, TextProperties, MaxBodyAssumption
<1>3. \A i \in 1 .. Arrived : body[i] # "NUL"
  <2>1. \A i \in 1 .. Len(text) : text[i] # "NUL"
    BY <1>2 DEF ToSet
  <2> QED
    BY <1>1, <1>2, <2>1
<1>4. nuls = {Arrived + 2}
  <2>1. ASSUME NEW i \in 1 .. Len(body), body[i] = "NUL"
        PROVE  i = Arrived + 2
    <3>1. i \in 1 .. Arrived \/ i = Arrived + 1 \/ i = Arrived + 2
      BY <1>1, <1>2
    <3> QED
      BY <1>1, <1>3, <2>1, <3>1
  <2>2. Arrived + 2 \in 1 .. Len(body)
    BY <1>1, <1>2
  <2> QED
    BY <1>1, <2>1, <2>2
<1>5. CString(body) = (IF nuls # {} THEN Min(nuls) ELSE 0) - 1
  BY DEF CString, SelectInSeq
<1>6. Min(nuls) = Arrived + 2
  BY <1>2, <1>4 DEF Min
<1> QED
  BY <1>2, <1>4, <1>5, <1>6

(* The key request_key() takes from a complete response is the text the    *)
(* server sent.                                                            *)
THEOREM KeyIsTextHolds == Spec => []KeyIsText
<1>1. ASSUME ExchangeInv, result = "UL_OK", text # <<>>,
             "NUL" \notin ToSet(text)
      PROVE  body # <<>> /\ KeyOf(body) = text
  <2>1. answer.body = <<>> /\ body # <<>>
    BY <1>1 DEF ExchangeInv, ResultInv
  <2>2. text \in Seq(Bytes \cup {"NUL"}) /\ Len(text) \in Nat
    BY <1>1, TextProperties, MaxBodyAssumption DEF ExchangeInv, TypeOK
  <2>3. Arrived = Len(text)
    BY <2>1, <2>2 DEF Arrived
  <2>4. /\ Len(body) = Len(text) + 2 /\ body \in Seq(Cells)
        /\ \A i \in 1 .. Len(text) : body[i] = text[i]
    BY <1>1, <2>1, <2>3 DEF ExchangeInv, TypeOK, CellsInv
  <2>5. KeyOf(body) = SubSeq(body, 1, Len(text))
    <3>1. CString(body) = Len(text) + 1
      BY <1>1, <2>1, <2>3, LengthOfString
    <3>2. (Len(text) + 1) - 1 = Len(text)
      BY <2>2
    <3> QED
      BY <3>1, <3>2 DEF KeyOf
  <2>6. \A i \in 1 .. Len(text) : body[i] \in Bytes \cup {"NUL"}
    BY <2>2, <2>4, ElementOfSeq
  <2>7. /\ SubSeq(body, 1, Len(text)) \in Seq(Bytes \cup {"NUL"})
        /\ Len(SubSeq(body, 1, Len(text))) = Len(text)
        /\ \A i \in 1 .. Len(text) : SubSeq(body, 1, Len(text))[i] = body[i]
    BY <2>2, <2>4, <2>6, SubSeqProperties
  <2>8. SubSeq(body, 1, Len(text)) = text
    BY <2>2, <2>4, <2>7, SeqEqual
  <2> QED
    BY <2>1, <2>5, <2>8
<1>2. ExchangeInv => KeyIsText
  BY <1>1 DEF KeyIsText
<1> QED
  BY <1>2, ExchangeCorrect, PTL

=============================================================================
