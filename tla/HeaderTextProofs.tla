-------------------------- MODULE HeaderTextProofs --------------------------
(***************************************************************************)
(* Of the reading of an answer, for headers of any text and number: which  *)
(* warning is given, and which headers alone can make the length computed  *)
(* for the copy wrap around.  Of the signature of a request: that the      *)
(* buffers are as large as what is written to them, and that a server      *)
(* rebuilds the text.                                                      *)
(***************************************************************************)
EXTENDS HeaderText, SequenceTheorems, WellFoundedInduction, TLAPS

-----------------------------------------------------------------------------
(* The inductive invariant.                                                *)

HeaderLines == {Line(h) : h \in Headers}

(* How many lines of the head libcurl has passed on. *)
Passed == Len(head) + 1 - Len(lines)

(* libcurl still has the end of the head. *)
LinesInv ==
  /\ Passed \in 0 .. Len(head) + 1
  /\ \A i \in 1 .. Len(lines) :
       Passed + i > 1 => lines[i] = Line(head[Passed + i - 1])
  /\ lines # <<>> /\ Passed = 0 => lines[1] = StatusLine

(* The first n headers are kept. *)
Holds(n) ==
  /\ Len(kept) = n
  /\ \A i \in 1 .. n : kept[i] = Line(head[i])

(* Unless an allocation has failed, the headers passed on are kept. *)
KeptInv ==
  ~lost =>
    /\ pc = "receive" => Holds(IF Passed = 0 THEN 0 ELSE Passed - 1)
    /\ pc = "received" => Holds(Len(head))

(* Every line that is kept is that of a header of the answer. *)
KeptLines ==
  \A i \in 1 .. Len(kept) : \E j \in 1 .. Len(head) : kept[i] = Line(head[j])

HeaderTextInv ==
  /\ head \in Seq(Headers)
  /\ lines \in Seq({StatusLine} \cup HeaderLines)
  /\ kept \in Seq(HeaderLines)
  /\ pc \in {"receive", "received", "sign", "signed", "done", "crashed"}
  /\ pc = "receive" => LinesInv
  /\ KeptInv /\ KeptLines /\ OverrunOnlyIfWrapped /\ WarnedRightly

-----------------------------------------------------------------------------
(* Lemmas about numbers and sequences.                                     *)

(* A set of numbers has a smallest one.                                    *)
LEMMA MinProperties ==
  ASSUME NEW I, I \subseteq Nat, I # {}
  PROVE  Min(I) \in I /\ \A i \in I : Min(I) <= i
<1> DEFINE less == {pair \in Nat \X Nat : pair[1] < pair[2]}
<1>1. IsWellFoundedOn(less, Nat)
  BY NatLessThanWellFounded DEF OpToRel
<1> HIDE DEF less
<1>2. PICK x \in I : \A y \in I : <<y, x>> \notin less
  BY <1>1, WFMin
<1>3. \A y \in I : x <= y
  <2>1. \A y \in I : ~(y < x)
    BY <1>2 DEF less
  <2> QED
    BY <2>1
<1> QED
  BY <1>3 DEF Min

(* The same element over and over.                                         *)
LEMMA RepeatProperties ==
  ASSUME NEW S, NEW x \in S, NEW n \in Nat
  PROVE  /\ [i \in 1 .. n |-> x] \in Seq(S)
         /\ Len([i \in 1 .. n |-> x]) = n
<1>1. [i \in 1 .. n |-> x] \in Seq(S)
  OBVIOUS
<1>2. Len([i \in 1 .. n |-> x]) = n
  OBVIOUS
<1> QED
  BY <1>1, <1>2

(* The end of a sequence that itself ends in t.                            *)
LEMMA EndOfConcat ==
  ASSUME NEW S, NEW s \in Seq(S), NEW t \in Seq(S),
         NEW n \in 1 .. Len(s) + 1
  PROVE  SubSeq(s \o t, n, Len(s) + Len(t)) = SubSeq(s, n, Len(s)) \o t
<1> DEFINE all == s \o t
           start == SubSeq(s, n, Len(s))
           left == SubSeq(all, n, Len(s) + Len(t))
           right == start \o t
           k == Len(s) + 1 - n
<1>1. /\ Len(s) \in Nat /\ Len(t) \in Nat /\ n \in Nat
      /\ k \in Nat /\ k + n = Len(s) + 1
  BY LenProperties
<1>2. /\ all \in Seq(S) /\ Len(all) = Len(s) + Len(t)
      /\ \A i \in 1 .. Len(s) + Len(t) :
           all[i] = IF i <= Len(s) THEN s[i] ELSE t[i - Len(s)]
  BY ConcatProperties
<1>3. /\ start \in Seq(S) /\ Len(start) = k
      /\ \A i \in 1 .. k : start[i] = s[n + i - 1]
  <2>1. \A i \in n .. Len(s) : s[i] \in S
    BY <1>1, ElementOfSeq
  <2>2. /\ start \in Seq(S)
        /\ Len(start) = IF n <= Len(s) THEN Len(s) - n + 1 ELSE 0
        /\ \A i \in 1 .. Len(s) - n + 1 : start[i] = s[n + i - 1]
    BY <1>1, <2>1, SubSeqProperties
  <2> QED
    BY <1>1, <2>2
<1>4. /\ left \in Seq(S) /\ Len(left) = k + Len(t)
      /\ \A i \in 1 .. k + Len(t) : left[i] = all[n + i - 1]
  <2>1. \A i \in n .. Len(s) + Len(t) : all[i] \in S
    BY <1>1, <1>2, ElementOfSeq
  <2> HIDE DEF all
  <2>2. /\ left \in Seq(S)
        /\ Len(left) = IF n <= Len(s) + Len(t)
                       THEN Len(s) + Len(t) - n + 1 ELSE 0
        /\ \A i \in 1 .. Len(s) + Len(t) - n + 1 : left[i] = all[n + i - 1]
    BY <1>1, <2>1, SubSeqProperties
  <2> QED
    BY <1>1, <2>2
<1> HIDE DEF start, all
<1>5. /\ right \in Seq(S) /\ Len(right) = Len(start) + Len(t)
      /\ \A i \in 1 .. Len(start) + Len(t) :
           right[i] = IF i <= Len(start) THEN start[i] ELSE t[i - Len(start)]
  BY <1>3, ConcatProperties
<1> HIDE DEF left, right, k
<1>6. ASSUME NEW i \in 1 .. Len(left)
      PROVE  left[i] = right[i]
  <2>1. i \in 1 .. k + Len(t) /\ left[i] = all[n + i - 1]
    BY <1>1, <1>4
  <2>2. right[i] = IF i <= k THEN start[i] ELSE t[i - k]
    BY <1>3, <1>5, <2>1
  <2>3. CASE i <= k
    <3>1. /\ n + i - 1 \in 1 .. Len(s) + Len(t) /\ n + i - 1 <= Len(s)
          /\ i \in 1 .. k
      BY <1>1, <2>1, <2>3
    <3>2. all[n + i - 1] = s[n + i - 1]
      BY <1>2, <3>1
    <3>3. start[i] = s[n + i - 1]
      BY <1>3, <3>1
    <3> QED
      BY <2>1, <2>2, <2>3, <3>2, <3>3
  <2>4. CASE i > k
    <3>1. /\ n + i - 1 \in 1 .. Len(s) + Len(t) /\ ~(n + i - 1 <= Len(s))
          /\ (n + i - 1) - Len(s) = i - k /\ ~(i <= k)
      <4>1. i \in Nat /\ i <= k + Len(t)
        BY <1>1, <2>1
      <4> QED
        BY <1>1, <2>4, <4>1
    <3>2. all[n + i - 1] = t[(n + i - 1) - Len(s)]
      BY <1>2, <3>1
    <3>3. right[i] = t[i - k]
      BY <2>2, <3>1
    <3> QED
      BY <2>1, <3>1, <3>2, <3>3
  <2> QED
    BY <1>1, <2>1, <2>3, <2>4
<1>7. left = right
  BY <1>3, <1>4, <1>5, <1>6, SeqEqual
<1> QED
  BY <1>7 DEF left, right, start, all

(* The end of a sequence is the end of what it ends in.                    *)
LEMMA EndOfEnd ==
  ASSUME NEW S, NEW p \in Seq(S), NEW s \in Seq(S),
         NEW n \in 1 .. Len(s)
  PROVE  SubSeq(p \o s, Len(p) + n, Len(p) + Len(s)) = SubSeq(s, n, Len(s))
<1>1. Len(p) \in Nat /\ Len(s) \in Nat
  BY LenProperties
<1>2. /\ Len(p) + n \in Len(p) + 1 .. Len(p) + Len(s)
      /\ Len(p) + Len(s) \in Len(p) + 1 .. Len(p) + Len(s)
      /\ (Len(p) + n) - Len(p) = n /\ (Len(p) + Len(s)) - Len(p) = Len(s)
  BY <1>1
<1> QED
  BY <1>2, SubSeqOfConcat2

-----------------------------------------------------------------------------
(* Lemmas about SkipAll.                                                   *)

(* Either every character is skipped, or those before the first that is    *)
(* not in C.                                                               *)
LEMMA SkipAllCases ==
  ASSUME NEW S, NEW s \in Seq(S), NEW C
  PROVE  \/ /\ \A i \in 1 .. Len(s) : s[i] \in C
            /\ SkipAll(s, C) = <<>>
         \/ \E n \in 1 .. Len(s) :
              /\ s[n] \notin C /\ \A i \in 1 .. n - 1 : s[i] \in C
              /\ SkipAll(s, C) = SubSeq(s, n, Len(s))
<1> DEFINE I == {i \in 1 .. Len(s) : s[i] \notin C}
<1>1. SkipAll(s, C) = LET n == IF I # {} THEN Min(I) ELSE 0 IN
                      IF n = 0 THEN <<>> ELSE SubSeq(s, n, Len(s))
  BY DEF SkipAll, SelectInSeq
<1>2. Len(s) \in Nat /\ I \subseteq Nat
  BY LenProperties
<1>3. CASE I = {}
  BY <1>1, <1>3
<1>4. CASE I # {}
  <2>1. Min(I) \in I /\ \A i \in I : Min(I) <= i
    BY <1>2, <1>4, MinProperties
  <2>2. Min(I) \in 1 .. Len(s) /\ s[Min(I)] \notin C
    BY <2>1
  <2>3. SkipAll(s, C) = SubSeq(s, Min(I), Len(s))
    <3>1. Min(I) # 0
      BY <1>2, <2>2
    <3> HIDE DEF I
    <3> QED
      BY <1>1, <1>4, <3>1
  <2>4. \A i \in 1 .. Min(I) - 1 : s[i] \in C
    <3> SUFFICES ASSUME NEW i \in 1 .. Min(I) - 1, s[i] \notin C
                 PROVE  FALSE
      OBVIOUS
    <3>1. i \in 1 .. Len(s) /\ ~(Min(I) <= i)
      BY <1>2, <2>2
    <3> QED
      BY <2>1, <3>1
  <2> QED
    BY <2>2, <2>3, <2>4
<1> QED
  BY <1>3, <1>4

(* The first character that is not in C is where the rest begins.          *)
LEMMA SkipAllFrom ==
  ASSUME NEW S, NEW s \in Seq(S), NEW C, NEW n \in 1 .. Len(s),
         s[n] \notin C, \A i \in 1 .. n - 1 : s[i] \in C
  PROVE  SkipAll(s, C) = SubSeq(s, n, Len(s))
<1>1. PICK m \in 1 .. Len(s) :
        /\ s[m] \notin C /\ \A i \in 1 .. m - 1 : s[i] \in C
        /\ SkipAll(s, C) = SubSeq(s, m, Len(s))
  BY SkipAllCases
<1>2. m = n
  <2>1. Len(s) \in Nat
    BY LenProperties
  <2>2. ~(m < n) /\ ~(n < m)
    BY <1>1, <2>1
  <2> QED
    BY <2>1, <2>2
<1> QED
  BY <1>1, <1>2

(* What is left is a sequence of the same characters, and not a longer one.*)
LEMMA SkipAllType ==
  ASSUME NEW S, NEW s \in Seq(S), NEW C
  PROVE  /\ SkipAll(s, C) \in Seq(S)
         /\ Len(SkipAll(s, C)) \in 0 .. Len(s)
<1>1. Len(s) \in Nat
  BY LenProperties
<1>2. CASE SkipAll(s, C) = <<>>
  BY <1>1, <1>2, EmptySeq
<1>3. ASSUME NEW n \in 1 .. Len(s), SkipAll(s, C) = SubSeq(s, n, Len(s))
      PROVE  /\ SkipAll(s, C) \in Seq(S)
             /\ Len(SkipAll(s, C)) \in 0 .. Len(s)
  <2>1. \A i \in n .. Len(s) : s[i] \in S
    BY <1>1, ElementOfSeq
  <2>2. /\ SubSeq(s, n, Len(s)) \in Seq(S)
        /\ Len(SubSeq(s, n, Len(s))) =
             IF n <= Len(s) THEN Len(s) - n + 1 ELSE 0
    BY <1>1, <2>1, SubSeqProperties
  <2> QED
    BY <1>1, <1>3, <2>2
<1> QED
  BY <1>2, <1>3, SkipAllCases

(* Skipping ends before an end that begins with a character not in C.      *)
LEMMA SkipBeforeEnd ==
  ASSUME NEW S, NEW s \in Seq(S), NEW t \in Seq(S), NEW C,
         Len(t) >= 1, t[1] \notin C
  PROVE  SkipAll(s \o t, C) = SkipAll(s, C) \o t
<1>1. Len(s) \in Nat /\ Len(t) \in Nat
  BY LenProperties
<1>2. /\ s \o t \in Seq(S) /\ Len(s \o t) = Len(s) + Len(t)
      /\ \A i \in 1 .. Len(s) + Len(t) :
           (s \o t)[i] = IF i <= Len(s) THEN s[i] ELSE t[i - Len(s)]
  BY ConcatProperties
<1>3. CASE (\A i \in 1 .. Len(s) : s[i] \in C) /\ SkipAll(s, C) = <<>>
  <2>1. Len(s) + 1 \in 1 .. Len(s \o t) /\ (s \o t)[Len(s) + 1] \notin C
    <3>1. /\ Len(s) + 1 \in 1 .. Len(s) + Len(t) /\ ~(Len(s) + 1 <= Len(s))
          /\ (Len(s) + 1) - Len(s) = 1
      BY <1>1
    <3> QED
      BY <1>2, <3>1
  <2>2. \A i \in 1 .. (Len(s) + 1) - 1 : (s \o t)[i] \in C
    BY <1>1, <1>2, <1>3
  <2>3. SkipAll(s \o t, C) = SubSeq(s \o t, Len(s) + 1, Len(s) + Len(t))
    BY <1>2, <2>1, <2>2, SkipAllFrom
  <2>4. Len(s) + 1 \in 1 .. Len(s) + 1 /\ SubSeq(s, Len(s) + 1, Len(s)) = <<>>
    BY <1>1, SubSeqEmpty
  <2> QED
    BY <1>3, <2>3, <2>4, EndOfConcat
<1>4. ASSUME NEW n \in 1 .. Len(s), s[n] \notin C,
             \A i \in 1 .. n - 1 : s[i] \in C,
             SkipAll(s, C) = SubSeq(s, n, Len(s))
      PROVE  SkipAll(s \o t, C) = SkipAll(s, C) \o t
  <2>1. n \in 1 .. Len(s \o t) /\ (s \o t)[n] \notin C
    BY <1>1, <1>2, <1>4
  <2>2. \A i \in 1 .. n - 1 : (s \o t)[i] \in C
    BY <1>1, <1>2, <1>4
  <2>3. SkipAll(s \o t, C) = SubSeq(s \o t, n, Len(s) + Len(t))
    BY <1>2, <2>1, <2>2, SkipAllFrom
  <2>4. n \in 1 .. Len(s) + 1
    BY <1>1
  <2> QED
    BY <1>4, <2>3, <2>4, EndOfConcat
<1> QED
  BY <1>3, <1>4, SkipAllCases

(* A beginning of characters in C is skipped.                              *)
LEMMA SkipBeginning ==
  ASSUME NEW S, NEW p \in Seq(S), NEW s \in Seq(S), NEW C,
         \A i \in 1 .. Len(p) : p[i] \in C
  PROVE  SkipAll(p \o s, C) = SkipAll(s, C)
<1>1. Len(p) \in Nat /\ Len(s) \in Nat
  BY LenProperties
<1>2. /\ p \o s \in Seq(S) /\ Len(p \o s) = Len(p) + Len(s)
      /\ \A i \in 1 .. Len(p) + Len(s) :
           (p \o s)[i] = IF i <= Len(p) THEN p[i] ELSE s[i - Len(p)]
  BY ConcatProperties
<1>3. CASE (\A i \in 1 .. Len(s) : s[i] \in C) /\ SkipAll(s, C) = <<>>
  <2>1. \A i \in 1 .. Len(p \o s) : (p \o s)[i] \in C
    <3> SUFFICES ASSUME NEW i \in 1 .. Len(p) + Len(s)
                 PROVE  (p \o s)[i] \in C
      BY <1>2
    <3>1. i <= Len(p) => i \in 1 .. Len(p)
      OBVIOUS
    <3>2. ~(i <= Len(p)) => i - Len(p) \in 1 .. Len(s)
      BY <1>1
    <3> QED
      BY <1>2, <1>3, <3>1, <3>2
  <2> QED
    BY <1>2, <1>3, <2>1, SkipAllCases
<1>4. ASSUME NEW n \in 1 .. Len(s), s[n] \notin C,
             \A i \in 1 .. n - 1 : s[i] \in C,
             SkipAll(s, C) = SubSeq(s, n, Len(s))
      PROVE  SkipAll(p \o s, C) = SkipAll(s, C)
  <2>1. Len(p) + n \in 1 .. Len(p \o s) /\ (p \o s)[Len(p) + n] \notin C
    <3>1. /\ Len(p) + n \in 1 .. Len(p) + Len(s) /\ ~(Len(p) + n <= Len(p))
          /\ (Len(p) + n) - Len(p) = n
      BY <1>1
    <3> QED
      BY <1>2, <1>4, <3>1
  <2>2. ASSUME NEW i \in 1 .. (Len(p) + n) - 1
        PROVE  (p \o s)[i] \in C
    <3>1. i \in 1 .. Len(p) + Len(s)
      BY <1>1
    <3>2. i <= Len(p) => i \in 1 .. Len(p)
      OBVIOUS
    <3>3. ~(i <= Len(p)) => i - Len(p) \in 1 .. n - 1
      BY <1>1
    <3> QED
      BY <1>2, <1>4, <3>1, <3>2, <3>3
  <2>3. SkipAll(p \o s, C) = SubSeq(p \o s, Len(p) + n, Len(p) + Len(s))
    BY <1>2, <2>1, <2>2, SkipAllFrom
  <2> QED
    BY <1>4, <2>3, EndOfEnd
<1> QED
  BY <1>3, <1>4, SkipAllCases

-----------------------------------------------------------------------------
(* Lemmas about the lines of a head.                                       *)

Characters == (STRING \ {"NUL"}) \cup {" ", ":", "CR", "LF"}

Blanks(h) == [i \in 1 .. h.blanks |-> " "]

(* The parts of a line.                                                    *)
LEMMA PartsOfLine ==
  ASSUME NEW h \in Headers
  PROVE  /\ h.name \in Seq(Characters) /\ h.name # <<>> /\ Len(h.name) >= 1
         /\ h.value \in Seq(Characters)
         /\ Blanks(h) \in Seq(Characters) /\ <<":">> \in Seq(Characters)
         /\ \A i \in 1 .. Len(Blanks(h)) : Blanks(h)[i] = " "
         /\ LineEnd(h) \in Seq(Characters)
         /\ Len(LineEnd(h)) = IF h.crlf THEN 2 ELSE 1
         /\ Len(LineEnd(h)) \in 1 .. 2
         /\ LineEnd(h)[1] = "CR" \/ LineEnd(h)[1] = "LF"
         /\ h.crlf \in BOOLEAN /\ Line(h) = Data(h) \o LineEnd(h)
<1>1. /\ h.name \in Names /\ h.value \in Values /\ h.blanks \in 0 .. 2
      /\ h.crlf \in BOOLEAN
  BY DEF Headers
<1>2. /\ h.name \in Seq(Characters) /\ h.name # <<>>
      /\ h.value \in Seq(Characters)
  <2>1. /\ h.name \in Seq(STRING \ {"NUL"}) /\ h.name # <<>>
        /\ h.value \in Seq(STRING \ {"NUL"})
    BY <1>1, TextAssumption, NamesAssumption
  <2>2. STRING \ {"NUL"} \subseteq Characters
    BY DEF Characters
  <2> QED
    BY <2>1, <2>2, SeqMonotonic
<1>3. Len(h.name) >= 1
  BY <1>2, EmptySeq
<1>4. /\ Blanks(h) \in Seq(Characters)
      /\ \A i \in 1 .. Len(Blanks(h)) : Blanks(h)[i] = " "
  <2>1. h.blanks \in Nat
    BY <1>1
  <2>2. " " \in Characters
    BY DEF Characters
  <2>3. Blanks(h) \in Seq(Characters) /\ Len(Blanks(h)) = h.blanks
    BY <2>1, <2>2, RepeatProperties DEF Blanks
  <2> QED
    BY <2>3 DEF Blanks
<1>5. /\ <<":">> \in Seq(Characters) /\ LineEnd(h) \in Seq(Characters)
      /\ Len(LineEnd(h)) = IF h.crlf THEN 2 ELSE 1
      /\ Len(LineEnd(h)) \in 1 .. 2
      /\ LineEnd(h)[1] = "CR" \/ LineEnd(h)[1] = "LF"
  <2>1. ":" \in Characters /\ "CR" \in Characters /\ "LF" \in Characters
    BY DEF Characters
  <2>2. /\ <<":">> \in Seq(Characters) /\ <<"LF">> \in Seq(Characters)
        /\ <<"CR", "LF">> \in Seq(Characters)
    BY <2>1
  <2>3. /\ Len(<<"CR", "LF">>) = 2 /\ <<"CR", "LF">>[1] = "CR"
        /\ Len(<<"LF">>) = 1 /\ <<"LF">>[1] = "LF"
    OBVIOUS
  <2> QED
    BY <2>2, <2>3 DEF LineEnd
<1>6. Line(h) = Data(h) \o LineEnd(h)
  BY DEF Line
<1> QED
  BY <1>1, <1>2, <1>3, <1>4, <1>5, <1>6

(* Texts can be joined in any grouping.                                    *)
LEMMA TextsAssociate ==
  \A s, t, u \in Seq(Characters) : (s \o t) \o u = s \o (t \o u)
BY ConcatAssociative

(* A line begins with its name and has a colon after it.                   *)
LEMMA FrontProperties ==
  ASSUME NEW h \in Headers
  PROVE  /\ Data(h) \in Seq(Characters)
         /\ (<<":">> \o Blanks(h)) \o h.value \in Seq(Characters)
         /\ Data(h) = h.name \o ((<<":">> \o Blanks(h)) \o h.value)
         /\ Len(Data(h)) >= Len(h.name) + 1
         /\ Data(h)[1] = h.name[1]
         /\ Data(h)[Len(h.name) + 1] = ":"
<1> DEFINE n == h.name
           c == <<":">>
           b == Blanks(h)
           v == h.value
           first == c \o b
           rest == first \o v
           line == Data(h)
<1>1. /\ n \in Seq(Characters) /\ c \in Seq(Characters)
      /\ b \in Seq(Characters) /\ v \in Seq(Characters)
  BY PartsOfLine
<1>2. Len(n) >= 1
  BY PartsOfLine
<1>3. Len(c) = 1 /\ c[1] = ":"
  OBVIOUS
<1>4. line = ((n \o c) \o b) \o v
  BY DEF Data, Blanks
<1> HIDE DEF n, c, b, v, line
<1>5. /\ Len(n) \in Nat /\ Len(c) \in Nat /\ Len(b) \in Nat
      /\ Len(v) \in Nat
  BY <1>1, LenProperties
<1>6. /\ first \in Seq(Characters) /\ Len(first) = Len(c) + Len(b)
      /\ \A i \in 1 .. Len(c) + Len(b) :
           first[i] = IF i <= Len(c) THEN c[i] ELSE b[i - Len(c)]
  BY <1>1, ConcatProperties
<1>7. first \in Seq(Characters)
  BY <1>6
<1>8. (n \o c) \o b = n \o first
  BY <1>1, TextsAssociate
<1> HIDE DEF first
<1>9. (n \o first) \o v = n \o (first \o v)
  <2>1. n \in Seq(Characters) /\ v \in Seq(Characters)
    BY <1>1
  <2>2. \A f \in Seq(Characters) : (n \o f) \o v = n \o (f \o v)
    BY <2>1, TextsAssociate
  <2> QED
    BY <1>7, <2>2
<1>10. line = n \o rest
  BY <1>4, <1>8, <1>9, Zenon
<1>11. /\ first \o v \in Seq(Characters)
       /\ Len(first \o v) = Len(first) + Len(v)
       /\ \A i \in 1 .. Len(first) + Len(v) : (first \o v)[i] =
            IF i <= Len(first) THEN first[i] ELSE v[i - Len(first)]
  BY <1>1, <1>7, ConcatProperties
<1> HIDE DEF rest
<1>12. rest \in Seq(Characters) /\ Len(rest) = 1 + Len(b) + Len(v)
  BY <1>3, <1>5, <1>6, <1>11 DEF rest
<1>13. rest[1] = ":"
  <2>1. first[1] = c[1]
    BY <1>3, <1>5, <1>6
  <2>2. 1 \in 1 .. Len(first) + Len(v) /\ 1 <= Len(first)
    BY <1>3, <1>5, <1>6
  <2> QED
    BY <1>3, <1>11, <2>1, <2>2 DEF rest
<1>14. rest \in Seq(Characters)
  BY <1>12
<1>15. /\ n \o rest \in Seq(Characters)
       /\ Len(n \o rest) = Len(n) + Len(rest)
       /\ \A i \in 1 .. Len(n) + Len(rest) :
            (n \o rest)[i] = IF i <= Len(n) THEN n[i] ELSE rest[i - Len(n)]
  BY <1>1, <1>14, ConcatProperties
<1>16. line[1] = n[1]
  <2>1. 1 \in 1 .. Len(n) + Len(rest) /\ 1 <= Len(n)
    BY <1>2, <1>5, <1>12
  <2> QED
    BY <1>10, <1>15, <2>1
<1>17. line[Len(n) + 1] = ":"
  <2>1. /\ Len(n) + 1 \in 1 .. Len(n) + Len(rest)
        /\ ~(Len(n) + 1 <= Len(n)) /\ (Len(n) + 1) - Len(n) = 1
    BY <1>5, <1>12
  <2> QED
    BY <1>10, <1>13, <1>15, <2>1
<1>18. line \in Seq(Characters) /\ Len(line) >= Len(n) + 1
  BY <1>5, <1>10, <1>12, <1>15
<1>19. line = n \o ((c \o b) \o v) /\ (c \o b) \o v \in Seq(Characters)
  BY <1>10, <1>12 DEF rest, first
<1> QED
  BY <1>16, <1>17, <1>18, <1>19 DEF n, c, b, v, line

(* What get_content_type() and header_callback() look for in a line.       *)
LEMMA LineProperties ==
  ASSUME NEW h \in Headers
  PROVE  /\ Line(h) \in Seq(Characters) /\ Line(h) # <<>>
         /\ Len(Line(h)) = Len(Data(h)) + Len(LineEnd(h))
         /\ ":" \in ToSet(Line(h))
         /\ Announces(Line(h)) <=> Announces(h.name)
<1>1. /\ Data(h) \in Seq(Characters) /\ Len(Data(h)) \in Nat
      /\ Len(h.name) \in Nat /\ Len(h.name) >= 1 /\ h.name # <<>>
      /\ Len(Data(h)) >= Len(h.name) + 1
      /\ Data(h)[1] = h.name[1] /\ Data(h)[Len(h.name) + 1] = ":"
  BY FrontProperties, PartsOfLine, LenProperties
<1>2. /\ Line(h) = Data(h) \o LineEnd(h)
      /\ LineEnd(h) \in Seq(Characters) /\ Len(LineEnd(h)) \in 1 .. 2
  BY PartsOfLine
<1>3. /\ Line(h) \in Seq(Characters)
      /\ Len(Line(h)) = Len(Data(h)) + Len(LineEnd(h))
      /\ \A i \in 1 .. Len(Data(h)) : Line(h)[i] = Data(h)[i]
  <2>1. /\ Data(h) \o LineEnd(h) \in Seq(Characters)
        /\ Len(Data(h) \o LineEnd(h)) = Len(Data(h)) + Len(LineEnd(h))
        /\ \A i \in 1 .. Len(Data(h)) + Len(LineEnd(h)) :
             (Data(h) \o LineEnd(h))[i] =
               IF i <= Len(Data(h)) THEN Data(h)[i]
                                     ELSE LineEnd(h)[i - Len(Data(h))]
    BY <1>1, <1>2, ConcatProperties
  <2>2. \A i \in 1 .. Len(Data(h)) :
          i \in 1 .. Len(Data(h)) + Len(LineEnd(h)) /\ i <= Len(Data(h))
    BY <1>1, <1>2
  <2> QED
    BY <1>2, <2>1, <2>2
<1>4. Line(h)[1] = h.name[1] /\ Line(h)[Len(h.name) + 1] = ":"
  <2>1. /\ 1 \in 1 .. Len(Data(h))
        /\ Len(h.name) + 1 \in 1 .. Len(Data(h))
    BY <1>1
  <2> QED
    BY <1>1, <1>3, <2>1
<1>5. Line(h) # <<>>
  BY <1>1, <1>2, <1>3
<1>6. ":" \in ToSet(Line(h))
  <2>1. Len(h.name) + 1 \in DOMAIN Line(h)
    BY <1>1, <1>2, <1>3, LenProperties
  <2> QED
    BY <1>4, <2>1 DEF ToSet
<1>7. Announces(Line(h)) <=> Announces(h.name)
  BY <1>1, <1>4, <1>5 DEF Announces
<1> QED
  BY <1>3, <1>5, <1>6, <1>7

(* A status line has no colon: header_callback() does not keep it.         *)
LEMMA StatusLineHasNoColon == ":" \notin ToSet(StatusLine)
  BY DEF ToSet, StatusLine

-----------------------------------------------------------------------------
(* Lemmas about get_content_type().                                        *)

(* What follows the first character, of a sequence that ends in t.         *)
LEMMA TailOfConcat ==
  ASSUME NEW S, NEW s \in Seq(S), NEW t \in Seq(S), Len(s) >= 1
  PROVE  Tail(s \o t) = Tail(s) \o t
<1>1. Len(s) \in Nat /\ Len(t) \in Nat
  BY LenProperties
<1>2. s \o t \in Seq(S) /\ Len(s \o t) = Len(s) + Len(t)
  BY ConcatProperties
<1>3. s # <<>> /\ s \o t # <<>>
  BY <1>1, <1>2, EmptySeq
<1>4. Tail(s) = SubSeq(s, 2, Len(s))
  BY <1>3, TailIsSubSeq
<1>5. Tail(s \o t) = SubSeq(s \o t, 2, Len(s) + Len(t))
  BY <1>2, <1>3, TailIsSubSeq
<1>6. 2 \in 1 .. Len(s) + 1
  BY <1>1
<1>7. SubSeq(s \o t, 2, Len(s) + Len(t)) = SubSeq(s, 2, Len(s)) \o t
  BY <1>6, EndOfConcat
<1> QED
  BY <1>4, <1>5, <1>7

(* The characters before a value. *)
Skipped == {":", " "}

(* What get_content_type() copies of a header. *)
TypeText(h) == SkipAll(Tail(Data(h)), Skipped)

(* The source of the copy has the end of the line.                         *)
LEMMA SourceOfLine ==
  ASSUME NEW h \in Headers
  PROVE  /\ TypeText(h) \in Seq(Characters)
         /\ Source(Line(h)) = TypeText(h) \o LineEnd(h)
         /\ Len(TypeText(h)) + 1 + Len(LineEnd(h)) <= Len(Line(h))
<1>1. /\ Data(h) \in Seq(Characters) /\ LineEnd(h) \in Seq(Characters)
      /\ Line(h) = Data(h) \o LineEnd(h)
      /\ Len(LineEnd(h)) \in 1 .. 2
      /\ LineEnd(h)[1] = "CR" \/ LineEnd(h)[1] = "LF"
  BY PartsOfLine, FrontProperties
<1>2. /\ Len(Data(h)) \in Nat /\ Len(Data(h)) >= 2
      /\ Len(Line(h)) = Len(Data(h)) + Len(LineEnd(h))
  <2>1. /\ Len(Data(h)) \in Nat /\ Len(h.name) \in Nat
        /\ Len(h.name) >= 1 /\ Len(Data(h)) >= Len(h.name) + 1
    BY PartsOfLine, FrontProperties, LenProperties
  <2> QED
    BY <2>1, LineProperties
<1>3. Tail(Line(h)) = Tail(Data(h)) \o LineEnd(h)
  <2>1. Len(Data(h)) >= 1
    BY <1>2
  <2> QED
    BY <1>1, <2>1, TailOfConcat
<1>4. /\ Tail(Data(h)) \in Seq(Characters)
      /\ Len(Tail(Data(h))) = Len(Data(h)) - 1
  <2>1. Data(h) # <<>>
    BY <1>2
  <2> QED
    BY <1>1, <2>1, HeadTailProperties
<1>5. Source(Line(h)) = TypeText(h) \o LineEnd(h)
  <2> DEFINE rest == Tail(Data(h))
  <2>1. Len(LineEnd(h)) >= 1 /\ LineEnd(h)[1] \notin Skipped
    <3>1. "CR" \notin Skipped /\ "LF" \notin Skipped
      BY DEF Skipped
    <3> QED
      BY <1>1, <3>1
  <2>2. rest \in Seq(Characters) /\ LineEnd(h) \in Seq(Characters)
    BY <1>1, <1>4
  <2> HIDE DEF rest
  <2>3. SkipAll(rest \o LineEnd(h), Skipped)
          = SkipAll(rest, Skipped) \o LineEnd(h)
    BY <2>1, <2>2, SkipBeforeEnd
  <2>4. Source(Line(h)) = SkipAll(rest \o LineEnd(h), Skipped)
    BY <1>3 DEF Source, rest, Skipped
  <2> QED
    BY <2>3, <2>4 DEF TypeText, rest
<1>6. /\ TypeText(h) \in Seq(Characters)
      /\ Len(TypeText(h)) \in 0 .. Len(Tail(Data(h)))
  BY <1>4, SkipAllType DEF TypeText
<1> QED
  BY <1>1, <1>2, <1>4, <1>5, <1>6

(* After exactly "content-type" the text is the value.                     *)
LEMMA TypeTextIsValue ==
  ASSUME NEW h \in Headers, Len(h.name) = 1
  PROVE  TypeText(h) = SkipAll(h.value, Skipped)
<1> DEFINE p == <<":">> \o Blanks(h)
           rest == p \o h.value
<1>1. /\ h.name \in Seq(Characters) /\ h.value \in Seq(Characters)
      /\ <<":">> \in Seq(Characters) /\ Blanks(h) \in Seq(Characters)
      /\ \A i \in 1 .. Len(Blanks(h)) : Blanks(h)[i] = " "
  BY PartsOfLine
<1>2. rest \in Seq(Characters) /\ Data(h) = h.name \o rest
  BY FrontProperties
<1>3. /\ p \in Seq(Characters)
      /\ \A i \in 1 .. Len(p) : p[i] \in Skipped
  <2> DEFINE c == <<":">>
             b == Blanks(h)
  <2>1. Len(c) = 1 /\ c[1] = ":"
    OBVIOUS
  <2>2. c \in Seq(Characters) /\ b \in Seq(Characters)
    BY <1>1
  <2>3. \A i \in 1 .. Len(b) : b[i] = " "
    BY <1>1
  <2> HIDE DEF c, b
  <2>4. /\ c \o b \in Seq(Characters) /\ Len(c \o b) = Len(c) + Len(b)
        /\ \A i \in 1 .. Len(c) + Len(b) :
             (c \o b)[i] = IF i <= Len(c) THEN c[i] ELSE b[i - Len(c)]
    BY <2>2, ConcatProperties
  <2>5. Len(b) \in Nat
    BY <2>2, LenProperties
  <2>6. ASSUME NEW i \in 1 .. Len(c) + Len(b)
        PROVE  (c \o b)[i] \in Skipped
    <3>1. CASE i = 1
      <4>1. i \in 1 .. Len(c) + Len(b) /\ i <= Len(c)
        BY <2>1, <3>1
      <4>2. (c \o b)[i] = c[1]
        BY <2>4, <3>1, <4>1
      <4> QED
        BY <2>1, <4>2 DEF Skipped
    <3>2. CASE i # 1
      <4>1. ~(i <= Len(c)) /\ i - Len(c) \in 1 .. Len(b)
        BY <2>1, <2>5, <3>2
      <4>2. (c \o b)[i] = " "
        BY <2>3, <2>4, <4>1
      <4> QED
        BY <4>2 DEF Skipped
    <3> QED
      BY <3>1, <3>2
  <2> QED
    BY <2>4, <2>6 DEF c, b
<1> HIDE DEF p
<1>4. Tail(Data(h)) = Tail(h.name) \o rest
  <2>1. Len(h.name) >= 1
    OBVIOUS
  <2> HIDE DEF rest
  <2>2. Tail(h.name \o rest) = Tail(h.name) \o rest
    BY <1>1, <1>2, <2>1, TailOfConcat
  <2> QED
    BY <1>2, <2>2
<1>5. Tail(h.name) = <<>>
  <2> DEFINE n == h.name
  <2>1. n # <<>> /\ n \in Seq(Characters) /\ Len(n) = 1
    BY PartsOfLine
  <2> HIDE DEF n
  <2>2. Tail(n) \in Seq(Characters) /\ Len(Tail(n)) = Len(n) - 1
    BY <2>1, HeadTailProperties
  <2>3. Len(Tail(n)) = 0
    BY <2>1, <2>2
  <2>4. Tail(n) = <<>>
    BY <2>2, <2>3, EmptySeq
  <2> QED
    BY <2>4 DEF n
<1>6. Tail(Data(h)) = rest
  <2> HIDE DEF rest
  <2>1. <<>> \o rest = rest
    BY <1>2, ConcatEmptySeq
  <2> QED
    BY <1>4, <1>5, <2>1
<1>7. SkipAll(p \o h.value, Skipped) = SkipAll(h.value, Skipped)
  BY <1>1, <1>3, SkipBeginning
<1> QED
  BY <1>6, <1>7 DEF TypeText

(* Nothing is left of a header only if its name is no longer than          *)
(* "content-type" and nothing is left of its value.                        *)
LEMMA TypeTextIsEmpty ==
  ASSUME NEW h \in Headers, TypeText(h) = <<>>
  PROVE  Len(h.name) = 1 /\ SkipAll(h.value, Skipped) = <<>>
<1> DEFINE n == h.name
           line == Data(h)
           all == Tail(line)
           rest == (<<":">> \o Blanks(h)) \o h.value
<1>1. /\ n \in Seq(Characters) /\ Len(n) \in Nat /\ Len(n) >= 1
      /\ line \in Seq(Characters) /\ Len(line) \in Nat
      /\ rest \in Seq(Characters) /\ Len(rest) \in Nat
      /\ line = n \o rest /\ Len(line) >= Len(n) + 1
  BY PartsOfLine, FrontProperties, LenProperties
<1>2. TypeText(h) = SkipAll(all, Skipped)
  BY DEF TypeText
<1>3. \A k \in 1 .. Len(n) : n[k] \notin Skipped
  <2>1. h.name \in Names
    BY DEF Headers
  <2>2. DOMAIN n = 1 .. Len(n)
    BY <1>1, LenProperties
  <2> QED
    BY <2>1, <2>2, NamesAssumption DEF ToSet, Skipped
<1> HIDE DEF n, line, rest
<1>4. /\ all \in Seq(Characters) /\ Len(all) = Len(line) - 1
      /\ \A k \in 1 .. Len(all) : all[k] = line[k + 1]
  <2>1. line # <<>>
    BY <1>1, EmptySeq
  <2> QED
    BY <1>1, <2>1, HeadTailProperties
<1> HIDE DEF all
<1>5. Len(n) = 1
  <2> SUFFICES ASSUME Len(n) # 1
               PROVE  FALSE
    OBVIOUS
  <2> DEFINE i == Len(n)
             j == Len(rest)
             k0 == Len(line)
             m == Len(all)
  <2>0. /\ i \in Nat /\ i >= 1 /\ i # 1 /\ j \in Nat
        /\ k0 \in Nat /\ k0 >= i + 1 /\ m = k0 - 1
    BY <1>1, <1>4
  <2> HIDE DEF i, j, k0, m
  <2>1. 2 \in 1 .. i /\ 2 \in 1 .. i + j /\ 2 <= i /\ 1 \in 1 .. m /\ 1 + 1 = 2
    BY <2>0
  <2> USE DEF i, j, m
  <2>2. \A k \in 1 .. Len(n) + Len(rest) :
          line[k] = IF k <= Len(n) THEN n[k] ELSE rest[k - Len(n)]
    BY <1>1, ConcatProperties
  <2>3. all[1] = n[2]
    BY <1>4, <2>1, <2>2
  <2>4. all[1] \notin Skipped /\ \A k \in 1 .. 1 - 1 : all[k] \in Skipped
    BY <1>3, <2>1, <2>3
  <2>5. SkipAll(all, Skipped) = SubSeq(all, 1, Len(all))
    BY <1>4, <2>1, <2>4, SkipAllFrom
  <2>6. SubSeq(all, 1, Len(all)) = all
    BY <1>4, SubSeqFull
  <2>7. all # <<>>
    BY <1>4, <2>1, EmptySeq
  <2> QED
    BY <1>2, <2>5, <2>6, <2>7
<1> QED
  BY <1>5, TypeTextIsValue DEF n

(* The copy of a text of n characters without the last n - m of them.      *)
LEMMA CopyOfFront ==
  ASSUME NEW s \in Seq(Characters), NEW m \in 0 .. Len(s),
         m + 1 < SizeMod \div 2
  PROVE  Copy(s, m) = String(strToLower(SubSeq(s, 1, m)))
<1>1. /\ m \in 0 .. SizeMod - 1 /\ m + 1 \in 0 .. SizeMod - 1
      /\ ~(m + 1 >= SizeMod \div 2) /\ ~(m > Len(s))
  <2>1. Len(s) \in Nat
    BY LenProperties
  <2> QED
    BY <2>1, SizeAssumption
<1>2. \A k \in 0 .. SizeMod - 1 : k % SizeMod = k
  BY SizeAssumption
<1>3. m % SizeMod = m /\ (m + 1) % SizeMod = m + 1
  BY <1>1, <1>2
<1>4. ~Refused((m + 1) % SizeMod)
  BY <1>1, <1>3 DEF Refused
<1> QED
  BY <1>1, <1>3, <1>4 DEF Copy

(* After CR LF the copy is the whole text, in lower case.  The length can  *)
(* only wrap if there is no text before a bare LF.                         *)
LEMMA CopyOfLine ==
  ASSUME NEW h \in Headers
  PROVE  LET copy == Copy(Source(Line(h)), Len(Source(Line(h))) - 2) IN
         /\ h.crlf => copy = String(strToLower(TypeText(h)))
         /\ copy = Overrun => ~h.crlf /\ TypeText(h) = <<>>
<1> DEFINE t == TypeText(h)
           e == LineEnd(h)
           s == t \o e
<1>1. /\ t \in Seq(Characters) /\ Source(Line(h)) = s
      /\ Len(t) + 1 + Len(e) <= Len(Line(h)) /\ Len(t) \in Nat
  BY SourceOfLine, LenProperties
<1>2. /\ e \in Seq(Characters) /\ h.crlf \in BOOLEAN
      /\ Len(e) = IF h.crlf THEN 2 ELSE 1
  BY PartsOfLine
<1>3. Len(Line(h)) < SizeMod \div 2 /\ Len(Line(h)) \in Nat
  BY LinesAssumption, LineProperties, LenProperties
<1> HIDE DEF t, e
<1>4. s \in Seq(Characters) /\ Len(s) = Len(t) + Len(e)
  <2>1. t \in Seq(Characters) /\ e \in Seq(Characters)
    BY <1>1, <1>2
  <2> QED
    BY <2>1, ConcatProperties
<1>5. SubSeq(s, 1, Len(t)) = t
  <2>1. CASE Len(t) = 0
    <3>1. t = <<>>
      BY <1>1, <2>1, EmptySeq
    <3>2. SubSeq(s, 1, 0) = <<>>
      BY SubSeqEmpty
    <3> QED
      BY <2>1, <3>1, <3>2
  <2>2. CASE Len(t) # 0
    <3>1. 1 \in 1 .. Len(t) /\ Len(t) \in 1 .. Len(t)
      BY <1>1, <2>2
    <3>2. SubSeq(s, 1, Len(t)) = SubSeq(t, 1, Len(t))
      BY <1>1, <1>2, <3>1, SubSeqOfConcat1
    <3> QED
      BY <1>1, <3>2, SubSeqFull
  <2> QED
    BY <2>1, <2>2
<1> HIDE DEF s
<1>6. \A text : String(text) # Overrun
  BY DEF String, Overrun
<1>7. CASE h.crlf
  <2>1. /\ Len(s) - 2 = Len(t) /\ Len(t) \in 0 .. Len(s)
        /\ Len(t) + 1 < SizeMod \div 2
    BY <1>1, <1>2, <1>3, <1>4, <1>7, SizeAssumption
  <2>2. Copy(s, Len(t)) = String(strToLower(SubSeq(s, 1, Len(t))))
    BY <1>4, <2>1, CopyOfFront
  <2> QED
    BY <1>1, <1>5, <1>6, <1>7, <2>1, <2>2 DEF t
<1>8. CASE ~h.crlf
  <2> SUFFICES ASSUME t # <<>>
               PROVE  Copy(s, Len(s) - 2) # Overrun
    BY <1>1, <1>8 DEF t
  <2>1. Len(t) >= 1
    BY <1>1, EmptySeq
  <2>2. /\ Len(s) - 2 \in 0 .. Len(s) /\ Len(s) - 2 + 1 < SizeMod \div 2
    BY <1>1, <1>2, <1>3, <1>4, <1>8, <2>1, SizeAssumption
  <2> DEFINE m == Len(s) - 2
  <2>3. m \in 0 .. Len(s) /\ m + 1 < SizeMod \div 2
    BY <2>2
  <2> HIDE DEF m
  <2>4. Copy(s, m) = String(strToLower(SubSeq(s, 1, m)))
    BY <1>4, <2>3, CopyOfFront
  <2> QED
    BY <1>6, <2>4 DEF m
<1> QED
  BY <1>2, <1>7, <1>8

(* The first header that announces a content type.                         *)
LEMMA FoundInList ==
  ASSUME NEW list, Len(list) \in Nat
  PROVE  LET found == SelectInSeq(list, Announces)
             I == {i \in 1 .. Len(list) : Announces(list[i])} IN
         /\ found = IF I # {} THEN Min(I) ELSE 0
         /\ found # 0 => found \in 1 .. Len(list) /\ Announces(list[found])
<1> DEFINE found == SelectInSeq(list, Announces)
           I == {i \in 1 .. Len(list) : Announces(list[i])}
<1>1. found = IF I # {} THEN Min(I) ELSE 0
  BY DEF SelectInSeq
<1>2. I \subseteq Nat
  OBVIOUS
<1>3. I # {} => Min(I) \in I
  BY <1>2, MinProperties
<1>4. \A i \in I : i \in 1 .. Len(list) /\ Announces(list[i])
  OBVIOUS
<1> HIDE DEF I, found
<1>5. found # 0 => found \in 1 .. Len(list) /\ Announces(list[found])
  BY <1>1, <1>3, <1>4
<1> QED
  BY <1>1, <1>5 DEF I, found

(* What get_content_type() returns for a list of header lines.             *)
LEMMA TypeOfList ==
  ASSUME NEW list \in Seq(HeaderLines)
  PROVE  LET found == SelectInSeq(list, Announces) IN
         /\ found = 0 => get_content_type(list) = Null
         /\ \A h \in Headers : found # 0 /\ list[found] = Line(h) =>
              /\ h.crlf =>
                   get_content_type(list) = String(strToLower(TypeText(h)))
              /\ get_content_type(list) = Overrun => LengthWraps(h)
         /\ get_content_type(list) = Overrun => found \in 1 .. Len(list)
<1> DEFINE found == SelectInSeq(list, Announces)
<1>1. Len(list) \in Nat
  BY LenProperties
<1>2. found # 0 => found \in 1 .. Len(list) /\ Announces(list[found])
  BY <1>1, FoundInList
<1>3. get_content_type(list) =
        IF found = 0 THEN Null
        ELSE Copy(Source(list[found]), Len(Source(list[found])) - 2)
  BY DEF get_content_type
<1> HIDE DEF found
<1>4. ASSUME NEW h \in Headers, found # 0, list[found] = Line(h)
      PROVE  /\ h.crlf =>
                  get_content_type(list) = String(strToLower(TypeText(h)))
             /\ get_content_type(list) = Overrun => LengthWraps(h)
  <2>1. /\ h.crlf => get_content_type(list) = String(strToLower(TypeText(h)))
        /\ get_content_type(list) = Overrun => ~h.crlf /\ TypeText(h) = <<>>
    BY <1>3, <1>4, CopyOfLine
  <2>2. Announces(h.name)
    BY <1>2, <1>4, LineProperties
  <2>3. TypeText(h) = <<>> =>
          Len(h.name) = 1 /\ SkipAll(h.value, {":", " "}) = <<>>
    BY TypeTextIsEmpty DEF Skipped
  <2> QED
    BY <2>1, <2>2, <2>3 DEF LengthWraps
<1>5. Null # Overrun
  BY DEF Null, Overrun
<1> QED
  BY <1>2, <1>3, <1>4, <1>5 DEF found

(* A list of lines of the answer makes the length wrap only if the answer  *)
(* has a header that does.                                                 *)
LEMMA OverrunOfAnswer ==
  ASSUME head \in Seq(Headers), kept \in Seq(HeaderLines), KeptLines,
         get_content_type(kept) = Overrun
  PROVE  \E i \in DOMAIN head : LengthWraps(head[i])
<1> DEFINE found == SelectInSeq(kept, Announces)
<1>1. found \in 1 .. Len(kept)
  BY TypeOfList
<1>2. found # 0
  <2>1. Len(kept) \in Nat
    BY LenProperties
  <2> HIDE DEF found
  <2> QED
    BY <1>1, <2>1
<1>3. PICK j \in 1 .. Len(head) : kept[found] = Line(head[j])
  BY <1>1 DEF KeptLines
<1>4. head[j] \in Headers /\ DOMAIN head = 1 .. Len(head)
  BY ElementOfSeq, LenProperties
<1>5. LengthWraps(head[j])
  BY <1>2, <1>3, <1>4, TypeOfList
<1> QED
  BY <1>4, <1>5

(* A list that has all headers of the answer is searched with the result   *)
(* that the headers have.                                                  *)
LEMMA TypeOfAnswer ==
  ASSUME head \in Seq(Headers), kept \in Seq(HeaderLines), Holds(Len(head)),
         Candidate # 0 => head[Candidate].crlf
  PROVE  /\ Candidate = 0 => get_content_type(kept) = Null
         /\ Candidate # 0 =>
              /\ Candidate \in 1 .. Len(head)
              /\ get_content_type(kept) =
                   String(strToLower(TypeText(head[Candidate])))
<1> DEFINE I == {i \in 1 .. Len(kept) : Announces(kept[i])}
           J == {i \in 1 .. Len(head) : Announces(head[i].name)}
           found == SelectInSeq(kept, Announces)
<1>1. Len(head) \in Nat /\ Len(kept) = Len(head)
  BY LenProperties DEF Holds
<1>2. I = J
  <2> SUFFICES ASSUME NEW i \in 1 .. Len(head)
               PROVE  Announces(kept[i]) <=> Announces(head[i].name)
    BY <1>1
  <2>1. head[i] \in Headers /\ kept[i] = Line(head[i])
    BY ElementOfSeq DEF Holds
  <2> QED
    BY <2>1, LineProperties
<1>3. Candidate = IF J # {} THEN Min(J) ELSE 0
  BY DEF Candidate, SelectInSeq
<1>4. /\ found = IF I # {} THEN Min(I) ELSE 0
      /\ found # 0 => found \in 1 .. Len(kept)
  BY <1>1, FoundInList
<1> HIDE DEF I, J, found
<1>5. found = Candidate
  BY <1>2, <1>3, <1>4
<1>6. Candidate = 0 => get_content_type(kept) = Null
  BY <1>5, TypeOfList DEF found
<1>7. ASSUME Candidate # 0
      PROVE  /\ Candidate \in 1 .. Len(head)
             /\ get_content_type(kept) =
                  String(strToLower(TypeText(head[Candidate])))
  <2>1. Candidate \in 1 .. Len(head)
    BY <1>1, <1>4, <1>5, <1>7
  <2>2. head[Candidate] \in Headers /\ kept[Candidate] = Line(head[Candidate])
    BY <2>1, ElementOfSeq DEF Holds
  <2>3. found # 0 /\ kept[found] = Line(head[Candidate])
    BY <1>5, <1>7, <2>2
  <2> QED
    BY <1>7, <2>1, <2>2, <2>3, TypeOfList DEF found
<1> QED
  BY <1>6, <1>7

(* The verdict on such a list.                                             *)
LEMMA VerdictOnAnswer ==
  ASSUME head \in Seq(Headers), kept \in Seq(HeaderLines), Holds(Len(head)),
         Candidate # 0 =>
           Len(head[Candidate].name) = 1 /\ head[Candidate].crlf
  PROVE  Verdict(get_content_type(kept)) =
           IF Candidate = 0 THEN "missing"
           ELSE IF IsJson(head[Candidate]) THEN "none"
           ELSE "unexpected"
<1>1. CASE Candidate = 0
  <2>1. get_content_type(kept) = Null
    BY <1>1, TypeOfAnswer
  <2>2. Null.kind = "NULL"
    BY DEF Null
  <2> QED
    BY <1>1, <2>1, <2>2 DEF Verdict
<1>2. CASE Candidate # 0
  <2> DEFINE h == head[Candidate]
             t == strToLower(TypeText(h))
  <2>1. Candidate \in 1 .. Len(head) /\ get_content_type(kept) = String(t)
    BY <1>2, TypeOfAnswer
  <2>2. h \in Headers /\ Len(h.name) = 1
    BY <1>2, <2>1, ElementOfSeq
  <2>3. TypeText(h) = SkipAll(h.value, Skipped)
    BY <2>2, TypeTextIsValue
  <2>4. IsJson(h) <=> t = <<"j">>
    BY <2>2, <2>3 DEF IsJson, Skipped
  <2> HIDE DEF h, t
  <2>5. String(t).kind = "string" /\ String(t).text = t
    BY DEF String
  <2>6. Verdict(String(t)) = IF t = <<"j">> THEN "none" ELSE "unexpected"
    BY <2>5 DEF Verdict
  <2> QED
    BY <1>2, <2>1, <2>4, <2>6 DEF h
<1> QED
  BY <1>1, <1>2

-----------------------------------------------------------------------------
(* Lemmas about sums and joined texts.                                     *)

(* Induction, for a set: what holds of m and passes on to the next number  *)
(* holds up to n.                                                          *)
LEMMA SetInduction ==
  ASSUME NEW m \in Nat, NEW n \in Nat, NEW good,
         m <= n => m \in good,
         \A k \in m + 1 .. n : k - 1 \in good => k \in good
  PROVE  \A k \in m .. n : k \in good
<1> DEFINE bad == {k \in m .. n : k \notin good}
<1> SUFFICES ASSUME bad # {}
             PROVE  FALSE
  OBVIOUS
<1>1. bad \subseteq Nat
  OBVIOUS
<1>2. PICK k \in bad : \A i \in bad : k <= i
  BY <1>1, MinProperties
<1>3. k \in m .. n /\ k \notin good
  BY <1>2
<1>4. k # m
  BY <1>3
<1>5. k \in m + 1 .. n /\ k - 1 \in m .. n /\ ~(k <= k - 1)
  BY <1>3, <1>4
<1>6. k - 1 \in good
  BY <1>2, <1>5
<1> QED
  BY <1>3, <1>5, <1>6

(* The sum of numbers, one after the other.                                *)
LEMMA SumProperties ==
  ASSUME NEW numbers \in Seq(Nat)
  PROVE  \E f : /\ f[0] = 0
                /\ \A i \in 1 .. Len(numbers) :
                     f[i] = f[i - 1] + numbers[i]
                /\ \A i \in 0 .. Len(numbers) : f[i] \in Nat
                /\ Sum(numbers) = f[Len(numbers)]
<1> DEFINE n == Len(numbers)
           Sums(f, k) == [i \in 0 .. k |->
                            IF i = 0 THEN 0 ELSE f[i - 1] + numbers[i]]
           summable == {k \in 0 .. n : \E f : f = Sums(f, k)}
<1>1. n \in Nat /\ \A i \in 1 .. n : numbers[i] \in Nat
  BY LenProperties, ElementOfSeq
<1> HIDE DEF n
<1>2. 0 \in summable
  <2> DEFINE f == [i \in 0 .. 0 |-> 0]
  <2>1. f = Sums(f, 0)
    OBVIOUS
  <2> HIDE DEF f, Sums
  <2>2. \E h : h = Sums(h, 0)
    BY <2>1
  <2> QED
    BY <1>1, <2>2
<1>3. ASSUME NEW k \in 0 + 1 .. n, k - 1 \in summable
      PROVE  k \in summable
  <2>1. PICK f : f = Sums(f, k - 1)
    BY <1>3
  <2> DEFINE g == [i \in 0 .. k |->
                     IF i = k THEN f[k - 1] + numbers[k] ELSE f[i]]
  <2>2. k \in Nat /\ k # 0 /\ k \in 0 .. n
    BY <1>1
  <2>3. ASSUME NEW i \in 0 .. k
        PROVE  g[i] = IF i = 0 THEN 0 ELSE g[i - 1] + numbers[i]
    <3>1. CASE i = 0
      <4>1. 0 \in 0 .. k - 1 /\ 0 # k
        BY <2>2
      <4>2. f[0] = 0
        BY <2>1, <4>1
      <4> QED
        BY <3>1, <4>1, <4>2
    <3>2. CASE i = k
      <4>1. g[k] = f[k - 1] + numbers[k]
        BY <2>2
      <4>2. g[k - 1] = f[k - 1]
        BY <2>2
      <4> QED
        BY <2>2, <3>2, <4>1, <4>2
    <3>3. CASE i # 0 /\ i # k
      <4>1. /\ i \in 0 .. k - 1 /\ i - 1 \in 0 .. k /\ i - 1 # k /\ i # k
            /\ i # 0
        BY <2>2, <3>3
      <4>2. f[i] = f[i - 1] + numbers[i]
        BY <2>1, <4>1
      <4>3. g[i] = f[i] /\ g[i - 1] = f[i - 1]
        BY <4>1
      <4> QED
        BY <4>1, <4>2, <4>3
    <3> QED
      BY <3>1, <3>2, <3>3
  <2>4. g = Sums(g, k)
    BY <2>3
  <2> HIDE DEF g
  <2> QED
    BY <2>2, <2>4
<1>4. \E f : f = Sums(f, n)
  <2> HIDE DEF Sums
  <2>1. n \in 0 .. n
    BY <1>1
  <2>2. \A k \in 0 .. n : k \in summable
    <3> HIDE DEF summable
    <3> QED
      BY <1>1, <1>2, <1>3, SetInduction
  <2> QED
    BY <2>1, <2>2
<1> DEFINE sum == CHOOSE f : f = Sums(f, n)
<1>5. sum = Sums(sum, n)
  <2> HIDE DEF Sums
  <2> QED
    BY <1>4, Zenon
<1>6. Sum(numbers) = sum[n]
  BY DEF Sum, n
<1> HIDE DEF sum
<1>7. /\ sum[0] = 0
      /\ \A i \in 1 .. n : sum[i] = sum[i - 1] + numbers[i]
  <2>1. ASSUME NEW i \in 0 .. n
        PROVE  sum[i] = IF i = 0 THEN 0 ELSE sum[i - 1] + numbers[i]
    BY <1>5
  <2>2. 0 \in 0 .. n /\ \A i \in 1 .. n : i \in 0 .. n /\ i # 0
    BY <1>1
  <2> QED
    BY <2>1, <2>2
<1>8. \A i \in 0 .. n : sum[i] \in Nat
  <2> DEFINE natural == {i \in 0 .. n : sum[i] \in Nat}
  <2>1. 0 \in natural
    BY <1>1, <1>7
  <2>2. ASSUME NEW i \in 0 + 1 .. n, i - 1 \in natural
        PROVE  i \in natural
    <3>1. i \in 1 .. n /\ i \in 0 .. n
      BY <1>1
    <3>2. sum[i] = sum[i - 1] + numbers[i] /\ numbers[i] \in Nat
      BY <1>1, <1>7, <3>1
    <3> QED
      BY <2>2, <3>1, <3>2
  <2>3. \A i \in 0 .. n : i \in natural
    <3> HIDE DEF natural
    <3> QED
      BY <1>1, <2>1, <2>2, SetInduction
  <2> QED
    BY <2>3
<1> QED
  BY <1>6, <1>7, <1>8 DEF n

(* Texts joined, one after the other.                                      *)
LEMMA FlattenProperties ==
  ASSUME NEW n \in Nat \ {0}, NEW seqs, Len(seqs) = n
  PROVE  \E f : /\ f[1] = seqs[1]
                /\ \A i \in 2 .. n : f[i] = f[i - 1] \o seqs[i]
                /\ FlattenSeq(seqs) = f[n]
<1> DEFINE Joins(f, k) == [i \in 1 .. k |->
                             IF i = 1 THEN seqs[i] ELSE f[i - 1] \o seqs[i]]
           joinable == {k \in 1 .. n : \E f : f = Joins(f, k)}
<1>1. 1 \in joinable
  <2> DEFINE f == [i \in 1 .. 1 |-> seqs[i]]
  <2>1. f = Joins(f, 1)
    OBVIOUS
  <2> HIDE DEF f, Joins
  <2>2. \E h : h = Joins(h, 1)
    BY <2>1
  <2> QED
    BY <2>2
<1>2. ASSUME NEW k \in 1 + 1 .. n, k - 1 \in joinable
      PROVE  k \in joinable
  <2>1. PICK f : f = Joins(f, k - 1)
    BY <1>2
  <2> DEFINE g == [i \in 1 .. k |->
                     IF i = k THEN f[k - 1] \o seqs[k] ELSE f[i]]
  <2>2. k \in Nat /\ k # 1 /\ k # 0 /\ k \in 1 .. n
    OBVIOUS
  <2>3. ASSUME NEW i \in 1 .. k
        PROVE  g[i] = IF i = 1 THEN seqs[i] ELSE g[i - 1] \o seqs[i]
    <3>1. CASE i = 1
      <4>1. 1 \in 1 .. k - 1 /\ 1 # k
        BY <2>2
      <4>2. f[1] = seqs[1]
        BY <2>1, <4>1
      <4> QED
        BY <3>1, <4>1, <4>2
    <3>2. CASE i = k
      <4>1. g[k] = f[k - 1] \o seqs[k]
        BY <2>2
      <4>2. g[k - 1] = f[k - 1]
        BY <2>2
      <4> QED
        BY <2>2, <3>2, <4>1, <4>2
    <3>3. CASE i # 1 /\ i # k
      <4>1. /\ i \in 1 .. k - 1 /\ i - 1 \in 1 .. k /\ i - 1 # k /\ i # k
            /\ i # 1
        BY <2>2, <3>3
      <4>2. f[i] = f[i - 1] \o seqs[i]
        BY <2>1, <4>1
      <4>3. g[i] = f[i] /\ g[i - 1] = f[i - 1]
        BY <4>1
      <4> QED
        BY <4>1, <4>2, <4>3
    <3> QED
      BY <3>1, <3>2, <3>3
  <2>4. g = Joins(g, k)
    BY <2>3
  <2> HIDE DEF g, Joins
  <2> QED
    BY <2>2, <2>4
<1>3. \E f : f = Joins(f, n)
  <2> HIDE DEF Joins
  <2>1. n \in 1 .. n /\ n \in Nat /\ 1 \in Nat
    OBVIOUS
  <2>2. \A k \in 1 .. n : k \in joinable
    <3> HIDE DEF joinable
    <3> QED
      BY <1>1, <1>2, <2>1, SetInduction
  <2> QED
    BY <2>1, <2>2
<1> DEFINE joined == CHOOSE f : f = Joins(f, n)
<1>4. joined = Joins(joined, n)
  <2> HIDE DEF Joins
  <2> QED
    BY <1>3, Zenon
<1>5. FlattenSeq(seqs) = joined[n]
  BY DEF FlattenSeq
<1> HIDE DEF joined
<1>6. ASSUME NEW i \in 1 .. n
      PROVE  joined[i] = IF i = 1 THEN seqs[i]
                         ELSE joined[i - 1] \o seqs[i]
  BY <1>4
<1>7. 1 \in 1 .. n /\ \A i \in 2 .. n : i \in 1 .. n /\ i # 1
  OBVIOUS
<1>8. /\ joined[1] = seqs[1]
      /\ \A i \in 2 .. n : joined[i] = joined[i - 1] \o seqs[i]
  BY <1>6, <1>7
<1> QED
  BY <1>5, <1>8

CellSet == Characters \cup {"NUL"}

(* Joined texts are the last of them after a text p as long as the others. *)
LEMMA JoinedTexts ==
  ASSUME NEW n \in Nat \ {0}, NEW seqs,
         NEW numbers \in Seq(Nat),
         Len(seqs) = n, Len(numbers) = n, seqs[n] \in Seq(CellSet),
         \A i \in 1 .. n - 1 :
           seqs[i] \in Seq(Characters) /\ Len(seqs[i]) = numbers[i]
  PROVE  \E p \in Seq(Characters) : /\ FlattenSeq(seqs) = p \o seqs[n]
                           /\ Sum(numbers) = Len(p) + numbers[n]
<1>1. PICK f : /\ f[1] = seqs[1]
               /\ \A i \in 2 .. n : f[i] = f[i - 1] \o seqs[i]
               /\ FlattenSeq(seqs) = f[n]
  BY FlattenProperties
<1>2. PICK s : /\ s[0] = 0
               /\ \A i \in 1 .. n : s[i] = s[i - 1] + numbers[i]
               /\ \A i \in 0 .. n : s[i] \in Nat
               /\ Sum(numbers) = s[n]
  BY SumProperties
<1>3. \A i \in 1 .. n : numbers[i] \in Nat
  BY ElementOfSeq
<1> DEFINE Ends(k, p) == f[k] = p \o seqs[k] /\ s[k] = Len(p) + numbers[k]
           good == {k \in 1 .. n : \E p \in Seq(Characters) : Ends(k, p)}
<1>4. 1 \in good
  <2>1. seqs[1] \in Seq(CellSet)
    <3>1. CASE n = 1
      BY <3>1
    <3>2. CASE n # 1
      <4>1. 1 \in 1 .. n - 1
        BY <3>2
      <4> QED
        BY <4>1, SeqMonotonic DEF CellSet
    <3> QED
      BY <3>1, <3>2
  <2>2. <<>> \o seqs[1] = seqs[1]
    BY <2>1, ConcatEmptySeq
  <2>3. <<>> \in Seq(Characters) /\ Len(<<>>) = 0
    BY EmptySeq
  <2>4. s[1] = 0 + numbers[1]
    <3>1. 1 \in 1 .. n /\ 1 - 1 = 0
      OBVIOUS
    <3> QED
      BY <1>2, <3>1
  <2>5. Ends(1, <<>>)
    BY <1>1, <2>2, <2>3, <2>4
  <2> HIDE DEF Ends
  <2>6. \E p \in Seq(Characters) : Ends(1, p)
    BY <2>3, <2>5
  <2>7. 1 \in 1 .. n
    OBVIOUS
  <2> QED
    BY <2>6, <2>7
<1>5. ASSUME NEW k \in 1 + 1 .. n, k - 1 \in good
      PROVE  k \in good
  <2>1. PICK p \in Seq(Characters) : Ends(k - 1, p)
    BY <1>5
  <2>2. /\ k \in 1 .. n /\ k \in 2 .. n
        /\ k - 1 \in 1 .. n - 1 /\ k - 1 \in 1 .. n
    OBVIOUS
  <2> DEFINE q == p \o seqs[k - 1]
  <2>3. q \in Seq(Characters) /\ Len(q) = Len(p) + numbers[k - 1]
    <3>1. seqs[k - 1] \in Seq(Characters) /\ Len(seqs[k - 1]) = numbers[k - 1]
      BY <2>2
    <3> QED
      BY <3>1, ConcatProperties
  <2>4. f[k] = q \o seqs[k]
    BY <1>1, <2>1, <2>2
  <2>5. s[k] = Len(q) + numbers[k]
    <3>1. s[k] = s[k - 1] + numbers[k]
      BY <1>2, <2>2
    <3> QED
      BY <2>1, <2>3, <3>1
  <2>6. Ends(k, q)
    BY <2>4, <2>5
  <2> HIDE DEF q, Ends
  <2> QED
    BY <2>2, <2>3, <2>6
<1>6. n \in good
  <2>1. n \in 1 .. n /\ n \in Nat /\ 1 \in Nat
    OBVIOUS
  <2> HIDE DEF good
  <2> QED
    BY <1>4, <1>5, <2>1, SetInduction
<1> QED
  BY <1>1, <1>2, <1>6

-----------------------------------------------------------------------------
(* Lemmas about the buffers of authHeader().                               *)

(* A buffer of some size that is filled.                                   *)
Measured(b) == b.size \in Nat /\ Filled(b)

(* Where a text ends.                                                      *)
LEMMA TerminatorAt ==
  ASSUME NEW cells, NEW size \in Nat \ {0},
         Len(cells) = size, cells[size] = "NUL",
         \A i \in 1 .. size - 1 : cells[i] # "NUL"
  PROVE  Measured(Buffer(cells, size))
<1> DEFINE J == {i \in 1 .. Len(cells) : cells[i] = "NUL"}
<1>1. SelectInSeq(cells, LAMBDA x : x = "NUL") =
        IF J # {} THEN Min(J) ELSE 0
  BY DEF SelectInSeq
<1>2. size \in J /\ J \subseteq Nat /\ J # {}
  <2>1. size \in 1 .. Len(cells)
    OBVIOUS
  <2> QED
    BY <2>1
<1>3. \A i \in J : i = size
  <2>1. \A i \in 1 .. Len(cells) : i \in 1 .. size - 1 \/ i = size
    OBVIOUS
  <2> QED
    BY <2>1
<1> HIDE DEF J
<1>4. Min(J) = size
  BY <1>2, <1>3, MinProperties
<1>5. /\ Buffer(cells, size).cells = cells
      /\ Buffer(cells, size).size = size
  BY DEF Buffer
<1> QED
  BY <1>1, <1>2, <1>4, <1>5 DEF Measured, Filled

(* A text and its terminator.                                              *)
LEMMA TerminatedText ==
  ASSUME NEW t \in Seq(Characters)
  PROVE  /\ t \o <<"NUL">> \in Seq(CellSet)
         /\ Len(t \o <<"NUL">>) = Len(t) + 1
         /\ (t \o <<"NUL">>)[Len(t) + 1] = "NUL"
         /\ \A i \in 1 .. Len(t) : (t \o <<"NUL">>)[i] # "NUL"
<1> DEFINE end == <<"NUL">>
<1>1. Len(t) \in Nat /\ \A i \in 1 .. Len(t) : t[i] \in Characters
  BY LenProperties, ElementOfSeq
<1>2. end \in Seq(CellSet) /\ Len(end) = 1 /\ end[1] = "NUL"
  <2>1. "NUL" \in CellSet
    BY DEF CellSet
  <2> QED
    BY <2>1
<1>3. t \in Seq(CellSet)
  BY SeqMonotonic DEF CellSet
<1> HIDE DEF end
<1>4. /\ t \o end \in Seq(CellSet) /\ Len(t \o end) = Len(t) + Len(end)
      /\ \A i \in 1 .. Len(t) + Len(end) :
           (t \o end)[i] = IF i <= Len(t) THEN t[i] ELSE end[i - Len(t)]
  BY <1>2, <1>3, ConcatProperties
<1>5. /\ Len(t) + 1 \in 1 .. Len(t) + Len(end)
      /\ ~(Len(t) + 1 <= Len(t)) /\ (Len(t) + 1) - Len(t) = 1
      /\ \A i \in 1 .. Len(t) :
           i \in 1 .. Len(t) + Len(end) /\ i <= Len(t)
  BY <1>1, <1>2
<1>6. (t \o end)[Len(t) + 1] = "NUL"
  BY <1>2, <1>4, <1>5
<1>7. "NUL" \notin Characters
  BY DEF Characters
<1>8. \A i \in 1 .. Len(t) : (t \o end)[i] # "NUL"
  BY <1>1, <1>4, <1>5, <1>7
<1> QED
  BY <1>2, <1>4, <1>6, <1>8 DEF end

(* What precedes the line end of a header is its name and more, and the    *)
(* first colon follows the name.                                           *)
LEMMA DataProperties ==
  ASSUME NEW h \in Headers
  PROVE  /\ Data(h) \in Seq(Characters)
         /\ Separator(Data(h)) = Len(h.name)
         /\ SubSeq(Data(h), 1, Len(h.name)) = h.name
         /\ h.name \in Seq(Characters) /\ Len(h.name) \in Nat
<1> DEFINE n == h.name
           rest == (<<":">> \o Blanks(h)) \o h.value
           line == Data(h)
           J == {i \in 1 .. Len(line) : line[i] = ":"}
<1>1. /\ n \in Seq(Characters) /\ Len(n) \in Nat /\ Len(n) >= 1
  BY PartsOfLine, LenProperties
<1>2. /\ line \in Seq(Characters) /\ rest \in Seq(Characters)
      /\ line = n \o rest
      /\ Len(line) >= Len(n) + 1 /\ line[Len(n) + 1] = ":"
  BY FrontProperties
<1>3. \A i \in 1 .. Len(n) : n[i] # ":"
  <2>1. h.name \in Names
    BY DEF Headers
  <2>2. DOMAIN n = 1 .. Len(n)
    BY <1>1, LenProperties
  <2> QED
    BY <2>1, <2>2, NamesAssumption DEF ToSet
<1>4. Len(line) \in Nat
  BY <1>2, LenProperties
<1> HIDE DEF n, rest, line
<1>6. \A i \in 1 .. Len(n) : line[i] = n[i]
  <2>1. /\ Len(n \o rest) = Len(n) + Len(rest)
        /\ \A i \in 1 .. Len(n) + Len(rest) :
             (n \o rest)[i] = IF i <= Len(n) THEN n[i] ELSE rest[i - Len(n)]
    BY <1>1, <1>2, ConcatProperties
  <2>2. Len(rest) \in Nat
    BY <1>2, LenProperties
  <2>3. \A i \in 1 .. Len(n) : i \in 1 .. Len(n) + Len(rest) /\ i <= Len(n)
    BY <1>1, <2>2
  <2> QED
    BY <1>2, <2>1, <2>3
<1>7. Separator(line) = Len(n)
  <2>1. SelectInSeq(line, LAMBDA x : x = ":") =
          IF J # {} THEN Min(J) ELSE 0
    BY DEF SelectInSeq
  <2>2. Len(n) + 1 \in J /\ J \subseteq Nat
    BY <1>1, <1>2, <1>4
  <2>3. \A i \in J : ~(i \in 1 .. Len(n))
    BY <1>3, <1>6
  <2> HIDE DEF J
  <2>4. Min(J) \in J /\ Min(J) <= Len(n) + 1 /\ J # {}
    BY <2>2, MinProperties
  <2>5. Min(J) \in Nat /\ Min(J) # 0 /\ ~(Min(J) \in 1 .. Len(n))
    BY <2>2, <2>3, <2>4 DEF J
  <2>6. Min(J) = Len(n) + 1
    BY <1>1, <2>4, <2>5
  <2> QED
    BY <1>1, <2>1, <2>4, <2>6 DEF Separator
<1>8. SubSeq(line, 1, Len(n)) = n
  <2>1. 1 \in 1 .. Len(n) /\ Len(n) \in 1 .. Len(n)
    BY <1>1
  <2>2. SubSeq(n \o rest, 1, Len(n)) = SubSeq(n, 1, Len(n))
    BY <1>1, <1>2, <2>1, SubSeqOfConcat1
  <2>3. SubSeq(n, 1, Len(n)) = n
    BY <1>1, SubSeqFull
  <2> QED
    BY <1>2, <2>2, <2>3
<1> QED
  BY <1>1, <1>2, <1>7, <1>8 DEF n, line

(* The list of headers of a request. *)
DataList(hs) == [i \in DOMAIN hs |-> Data(hs[i])]

(* A list is as long as its headers.                                       *)
LEMMA ListProperties ==
  ASSUME NEW hs \in Seq(Headers)
  PROVE  /\ DOMAIN DataList(hs) = 1 .. Len(hs)
         /\ DataList(hs) \in Seq(Seq(Characters))
         /\ Len(DataList(hs)) = Len(hs) /\ Len(hs) \in Nat
         /\ \A i \in 1 .. Len(hs) :
              hs[i] \in Headers /\ DataList(hs)[i] = Data(hs[i])
<1>1. DOMAIN hs = 1 .. Len(hs) /\ Len(hs) \in Nat
  BY LenProperties
<1>2. \A i \in 1 .. Len(hs) : hs[i] \in Headers
  BY ElementOfSeq
<1>3. \A i \in 1 .. Len(hs) : Data(hs[i]) \in Seq(Characters)
  BY <1>2, DataProperties
<1>4. DataList(hs) = [i \in 1 .. Len(hs) |-> Data(hs[i])]
  BY <1>1 DEF DataList
<1>5. DataList(hs) \in Seq(Seq(Characters))
  BY <1>1, <1>3, <1>4
<1>6. Len(DataList(hs)) = Len(hs)
  BY <1>1, <1>4
<1> QED
  BY <1>1, <1>2, <1>4, <1>5, <1>6

(* A sequence of one element.                                              *)
LEMMA OneElement ==
  ASSUME NEW S, NEW x \in S
  PROVE  <<x>> \in Seq(S) /\ Len(<<x>>) = 1 /\ <<x>>[1] = x
  OBVIOUS

(* A sum of nothing.                                                       *)
LEMMA EmptySum ==
  ASSUME NEW numbers \in Seq(Nat), Len(numbers) = 0
  PROVE  Sum(numbers) = 0
BY SumProperties

(* The names of the headers fill the buffer that joinHeaderNames() has     *)
(* measured, and the terminator is in its last byte.                       *)
LEMMA NamesFilled ==
  ASSUME NEW hs \in Seq(Headers)
  PROVE  Measured(joinHeaderNames(DataList(hs)))
<1> DEFINE list == DataList(hs)
           n == Len(hs)
           numbers == [i \in DOMAIN list |-> Separator(list[i])
                         + (IF i < Len(list) THEN 1 ELSE 0)]
           pieces == [i \in DOMAIN list |->
                        SubSeq(list[i], 1, Separator(list[i]))
                          \o <<After(list, i)>>]
<1>1. /\ DOMAIN list = 1 .. n /\ list \in Seq(Seq(Characters))
      /\ Len(list) = n /\ n \in Nat
      /\ \A i \in 1 .. n : hs[i] \in Headers /\ list[i] = Data(hs[i])
  BY ListProperties
<1> HIDE DEF list, n
<1>2. \A i \in 1 .. n :
        /\ hs[i].name \in Seq(Characters) /\ Len(hs[i].name) \in Nat
        /\ Separator(list[i]) = Len(hs[i].name)
        /\ SubSeq(list[i], 1, Separator(list[i])) = hs[i].name
  BY <1>1, DataProperties
<1>3. /\ \A i \in 1 .. n :
           numbers[i] = Len(hs[i].name) + (IF i < n THEN 1 ELSE 0)
      /\ numbers \in Seq(Nat) /\ Len(numbers) = n
  <2>1. numbers = [i \in 1 .. n |->
                     Len(hs[i].name) + (IF i < n THEN 1 ELSE 0)]
    BY <1>1, <1>2
  <2>2. ASSUME NEW i \in 1 .. n
        PROVE  Len(hs[i].name) + (IF i < n THEN 1 ELSE 0) \in Nat
    <3> DEFINE k == Len(hs[i].name)
    <3>1. k \in Nat
      BY <1>2
    <3> HIDE DEF k
    <3>2. k + (IF i < n THEN 1 ELSE 0) \in Nat
      BY <3>1
    <3> QED
      BY <3>2 DEF k
  <2> DEFINE e(i) == Len(hs[i].name) + (IF i < n THEN 1 ELSE 0)
  <2>3. numbers = [i \in 1 .. n |-> e(i)] /\ \A i \in 1 .. n : e(i) \in Nat
    BY <2>1, <2>2
  <2> HIDE DEF numbers, e
  <2>4. n \in Nat
    BY <1>1
  <2>5. [i \in 1 .. n |-> e(i)] \in Seq(Nat)
    BY <2>3, <2>4
  <2>6. Len([i \in 1 .. n |-> e(i)]) = n
    BY <2>4
  <2>7. \A i \in 1 .. n : numbers[i] = e(i)
    BY <2>3
  <2> QED
    BY <2>3, <2>5, <2>6, <2>7 DEF e
<1>4. /\ \A i \in 1 .. n : pieces[i] =
           hs[i].name \o <<IF i < n THEN " " ELSE "NUL">>
      /\ Len(pieces) = n
  <2>1. pieces = [i \in 1 .. n |->
                    hs[i].name \o <<IF i < n THEN " " ELSE "NUL">>]
    BY <1>1, <1>2 DEF After
  <2> DEFINE e(i) == hs[i].name \o <<IF i < n THEN " " ELSE "NUL">>
  <2>2. pieces = [i \in 1 .. n |-> e(i)]
    BY <2>1
  <2> HIDE DEF pieces, e
  <2>3. Len([i \in 1 .. n |-> e(i)]) = n
    <3>1. n \in Nat
      BY <1>1
    <3> QED
      BY <3>1
  <2>4. \A i \in 1 .. n : pieces[i] = e(i)
    BY <2>2
  <2> QED
    BY <2>2, <2>3, <2>4 DEF e
<1>5. NamesSize(list) = 1 + Sum(numbers)
  BY DEF NamesSize
<1>6. joinHeaderNames(list) =
        Buffer(IF list = <<>> THEN <<"NUL">>
               ELSE strToLower(FlattenSeq(pieces)), NamesSize(list))
  BY DEF joinHeaderNames
<1> HIDE DEF numbers, pieces
<1>7. CASE n = 0
  <2>1. list = <<>>
    BY <1>1, <1>7, EmptySeq
  <2>2. NamesSize(list) = 1
    <3>1. Sum(numbers) = 0
      BY <1>3, <1>7, EmptySum
    <3> QED
      BY <1>5, <3>1
  <2>3. Measured(Buffer(<<"NUL">>, 1))
    <3>1. Len(<<"NUL">>) = 1 /\ <<"NUL">>[1] = "NUL"
      OBVIOUS
    <3>2. 1 \in Nat \ {0} /\ \A i \in 1 .. 1 - 1 : FALSE
      OBVIOUS
    <3> HIDE DEF list
    <3> QED
      BY <3>1, <3>2, TerminatorAt
  <2> QED
    BY <1>6, <2>1, <2>2, <2>3 DEF list
<1>8. CASE n # 0
  <2> DEFINE text == FlattenSeq(pieces)
             last == hs[n].name
  <2>1. /\ n \in 1 .. n /\ n \in Nat \ {0} /\ list # <<>>
        /\ \A i \in 1 .. n - 1 : i \in 1 .. n /\ i < n
    <3>1. list # <<>>
      BY <1>1, <1>8, EmptySeq
    <3> QED
      BY <1>1, <1>8, <3>1
  <2>2. /\ last \in Seq(Characters)
        /\ pieces[n] = last \o <<"NUL">> /\ numbers[n] = Len(last)
    <3>1. ~(n < n) /\ Len(last) \in Nat /\ last \in Seq(Characters)
      BY <1>2, <2>1
    <3>2. pieces[n] = last \o <<IF n < n THEN " " ELSE "NUL">>
      BY <1>4, <2>1
    <3>3. numbers[n] = Len(last) + (IF n < n THEN 1 ELSE 0)
      BY <1>3, <2>1
    <3> HIDE DEF last
    <3>4. pieces[n] = last \o <<"NUL">>
      BY <3>1, <3>2
    <3>5. numbers[n] = Len(last)
      BY <3>1, <3>3
    <3> QED
      BY <3>1, <3>4, <3>5
  <2>3. pieces[n] \in Seq(CellSet)
    BY <2>2, TerminatedText
  <2>4. ASSUME NEW i \in 1 .. n - 1
        PROVE  pieces[i] \in Seq(Characters) /\ Len(pieces[i]) = numbers[i]
    <3>1. /\ pieces[i] = hs[i].name \o <<" ">>
          /\ numbers[i] = Len(hs[i].name) + 1
          /\ hs[i].name \in Seq(Characters)
      BY <1>2, <1>3, <1>4, <2>1
    <3> DEFINE t == hs[i].name
               blank == <<" ">>
    <3>2. blank \in Seq(Characters) /\ Len(blank) = 1
      <4>1. " " \in Characters
        BY DEF Characters
      <4> QED
        BY <4>1, OneElement
    <3>3. /\ t \in Seq(Characters) /\ pieces[i] = t \o blank
          /\ numbers[i] = Len(t) + 1
      BY <3>1
    <3> HIDE DEF t, blank
    <3>4. t \in Seq(Characters) /\ blank \in Seq(Characters)
      BY <3>2, <3>3
    <3>5. /\ t \o blank \in Seq(Characters)
          /\ Len(t \o blank) = Len(t) + Len(blank)
      BY <3>4, ConcatProperties
    <3> QED
      BY <3>2, <3>3, <3>5
  <2>5. PICK p \in Seq(Characters) :
          text = p \o pieces[n] /\ Sum(numbers) = Len(p) + numbers[n]
    BY <1>3, <1>4, <2>1, <2>3, <2>4, JoinedTexts
  <2> HIDE DEF text, last
  <2> DEFINE all == p \o last
  <2>6. /\ all \in Seq(Characters) /\ Len(all) = Len(p) + Len(last)
    BY <2>2, ConcatProperties
  <2>7. text = all \o <<"NUL">>
    <3>1. <<"NUL">> \in Seq(CellSet)
      <4>1. "NUL" \in CellSet
        BY DEF CellSet
      <4> QED
        BY <4>1
    <3>2. p \in Seq(CellSet) /\ last \in Seq(CellSet)
      BY <2>2, SeqMonotonic DEF CellSet
    <3>3. (p \o last) \o <<"NUL">> = p \o (last \o <<"NUL">>)
      BY <3>1, <3>2, ConcatAssociative
    <3> QED
      BY <2>2, <2>5, <3>3
  <2>8. NamesSize(list) = Len(all) + 1 /\ Len(all) \in Nat
    <3>1. Len(p) \in Nat /\ Len(last) \in Nat
      BY <2>2, <2>5, LenProperties
    <3> QED
      BY <1>5, <2>2, <2>5, <2>6, <3>1
  <2> HIDE DEF all
  <2>9. /\ text \in Seq(CellSet) /\ Len(text) = Len(all) + 1
        /\ text[Len(all) + 1] = "NUL"
        /\ \A i \in 1 .. Len(all) : text[i] # "NUL"
    BY <2>6, <2>7, TerminatedText
  <2> DEFINE lower == strToLower(text)
  <2>10. /\ DOMAIN text = 1 .. Len(all) + 1
         /\ lower = [i \in 1 .. Len(all) + 1 |-> tolower(text[i])]
    BY <2>9, LenProperties DEF strToLower
  <2>11. \A x : tolower(x) = "NUL" <=> x = "NUL"
    BY DEF tolower
  <2>12. Len(lower) = Len(all) + 1
    BY <2>8, <2>10
  <2>13. /\ lower[Len(all) + 1] = "NUL"
         /\ \A i \in 1 .. Len(all) : lower[i] # "NUL"
    <3>1. /\ Len(all) + 1 \in 1 .. Len(all) + 1
          /\ \A i \in 1 .. Len(all) : i \in 1 .. Len(all) + 1
      BY <2>8
    <3> QED
      BY <2>9, <2>10, <2>11, <3>1
  <2> HIDE DEF lower
  <2>14. Measured(Buffer(lower, Len(all) + 1))
    <3>1. Len(all) + 1 \in Nat \ {0} /\ (Len(all) + 1) - 1 = Len(all)
      BY <2>8
    <3> QED
      BY <2>12, <2>13, <3>1, TerminatorAt
  <2> QED
    BY <1>6, <2>1, <2>8, <2>14 DEF lower, text, list
<1> QED
  BY <1>1, <1>7, <1>8

(* The text that is signed fills the buffer that authHeader() has          *)
(* measured, and the terminator is in its last byte.                       *)
LEMMA TextFilled ==
  ASSUME NEW hs \in Seq(Headers), NEW text \in Seq(Characters)
  PROVE  Measured(DataToSign(DataList(hs), text))
<1> DEFINE list == DataList(hs)
           n == Len(hs)
           numbers == [i \in DOMAIN list |-> Len(list[i]) + 1]
           pieces == [i \in DOMAIN list |-> list[i] \o <<"LF">>]
           joined == FlattenSeq(pieces)
<1>1. /\ DOMAIN list = 1 .. n /\ n \in Nat
      /\ \A i \in 1 .. n : list[i] \in Seq(Characters)
  <2>1. /\ DOMAIN list = 1 .. n /\ n \in Nat
        /\ list \in Seq(Seq(Characters)) /\ Len(list) = n
    BY ListProperties
  <2> HIDE DEF list
  <2> QED
    BY <2>1, ElementOfSeq
<1> HIDE DEF list, n
<1>2. \A i \in 1 .. n :
        /\ list[i] \o <<"LF">> \in Seq(Characters)
        /\ Len(list[i] \o <<"LF">>) = Len(list[i]) + 1
        /\ Len(list[i]) + 1 \in Nat
  <2> SUFFICES ASSUME NEW i \in 1 .. n
               PROVE  /\ list[i] \o <<"LF">> \in Seq(Characters)
                      /\ Len(list[i] \o <<"LF">>) = Len(list[i]) + 1
                      /\ Len(list[i]) + 1 \in Nat
    OBVIOUS
  <2> DEFINE t == list[i]
             end == <<"LF">>
  <2>1. t \in Seq(Characters)
    BY <1>1
  <2>2. end \in Seq(Characters) /\ Len(end) = 1
    <3>1. "LF" \in Characters
      BY DEF Characters
    <3> QED
      BY <3>1, OneElement
  <2> HIDE DEF t, end
  <2>3. t \o end \in Seq(Characters) /\ Len(t \o end) = Len(t) + Len(end)
    BY <2>1, <2>2, ConcatProperties
  <2>4. Len(t) \in Nat
    BY <2>1, LenProperties
  <2> QED
    BY <2>2, <2>3, <2>4 DEF t, end
<1>3. /\ numbers \in Seq(Nat) /\ Len(numbers) = n
      /\ \A i \in 1 .. n : numbers[i] = Len(list[i]) + 1
  <2> DEFINE e(i) == Len(list[i]) + 1
  <2>1. numbers = [i \in 1 .. n |-> e(i)] /\ \A i \in 1 .. n : e(i) \in Nat
    BY <1>1, <1>2
  <2> HIDE DEF numbers, e
  <2>2. n \in Nat
    BY <1>1
  <2>3. [i \in 1 .. n |-> e(i)] \in Seq(Nat)
    BY <2>1, <2>2
  <2>4. Len([i \in 1 .. n |-> e(i)]) = n
    BY <2>2
  <2>5. \A i \in 1 .. n : numbers[i] = e(i)
    BY <2>1
  <2> QED
    BY <2>1, <2>3, <2>4, <2>5 DEF e
<1>4. /\ pieces \in Seq(Seq(Characters)) /\ Len(pieces) = n
      /\ \A i \in 1 .. n : pieces[i] = list[i] \o <<"LF">>
  <2> DEFINE e(i) == list[i] \o <<"LF">>
  <2>1. /\ pieces = [i \in 1 .. n |-> e(i)]
        /\ \A i \in 1 .. n : e(i) \in Seq(Characters)
    BY <1>1, <1>2
  <2> HIDE DEF pieces, e
  <2>2. n \in Nat
    BY <1>1
  <2>3. [i \in 1 .. n |-> e(i)] \in Seq(Seq(Characters))
    BY <2>1, <2>2
  <2>4. Len([i \in 1 .. n |-> e(i)]) = n
    BY <2>2
  <2>5. \A i \in 1 .. n : pieces[i] = e(i)
    BY <2>1
  <2> QED
    BY <2>1, <2>3, <2>4, <2>5 DEF e
<1>5. TextSize(list, text) = 1 + Len(text) + Sum(numbers)
  BY DEF TextSize
<1>6. DataToSign(list, text) =
        Buffer(joined \o text \o <<"NUL">>, TextSize(list, text))
  BY DEF DataToSign
<1> HIDE DEF numbers, pieces
<1>7. joined \in Seq(Characters) /\ Len(joined) = Sum(numbers)
  <2>1. CASE n = 0
    <3>1. joined = pieces
      BY <1>4, <2>1 DEF FlattenSeq
    <3>2. pieces = <<>>
      BY <1>4, <2>1, EmptySeq
    <3>3. Sum(numbers) = 0
      BY <1>3, <2>1, EmptySum
    <3> QED
      BY <3>1, <3>2, <3>3, EmptySeq
  <2>2. CASE n # 0
    <3>1. n \in Nat \ {0} /\ n \in 1 .. n
      BY <1>1, <2>2
    <3>2. /\ pieces[n] \in Seq(Characters) /\ Len(pieces[n]) = numbers[n]
      BY <1>2, <1>3, <1>4, <3>1
    <3>3. pieces[n] \in Seq(CellSet)
      BY <3>2, SeqMonotonic DEF CellSet
    <3>4. \A i \in 1 .. n - 1 :
            pieces[i] \in Seq(Characters) /\ Len(pieces[i]) = numbers[i]
      <4>1. \A i \in 1 .. n - 1 : i \in 1 .. n
        BY <1>1
      <4> QED
        BY <1>2, <1>3, <1>4, <4>1
    <3>5. PICK p \in Seq(Characters) :
            joined = p \o pieces[n] /\ Sum(numbers) = Len(p) + numbers[n]
      <4>1. numbers \in Seq(Nat) /\ Len(numbers) = n /\ Len(pieces) = n
        BY <1>3, <1>4
      <4>2. n \in Nat \ {0}
        BY <3>1
      <4> HIDE DEF list, n
      <4> QED
        BY <3>3, <3>4, <4>1, <4>2, JoinedTexts
    <3> HIDE DEF joined
    <3>6. /\ p \o pieces[n] \in Seq(Characters)
          /\ Len(p \o pieces[n]) = Len(p) + Len(pieces[n])
      BY <3>2, ConcatProperties
    <3>7. joined \in Seq(Characters)
      BY <3>5, <3>6
    <3>8. Len(joined) = Len(p) + numbers[n]
      BY <3>2, <3>5, <3>6
    <3> QED
      BY <3>5, <3>7, <3>8
  <2> QED
    BY <2>1, <2>2
<1> HIDE DEF joined
<1> DEFINE all == joined \o text
<1>8. all \in Seq(Characters) /\ Len(all) = Len(joined) + Len(text)
  BY <1>7, ConcatProperties
<1>9. Len(joined) \in Nat /\ Len(text) \in Nat
  BY <1>7, LenProperties
<1> HIDE DEF all
<1>10. TextSize(list, text) = Len(all) + 1 /\ Len(all) \in Nat
  BY <1>5, <1>7, <1>8, <1>9
<1> DEFINE cells == all \o <<"NUL">>
<1>11. /\ Len(cells) = Len(all) + 1 /\ cells[Len(all) + 1] = "NUL"
       /\ \A i \in 1 .. Len(all) : cells[i] # "NUL"
  BY <1>8, TerminatedText
<1> HIDE DEF cells
<1>12. Measured(Buffer(cells, Len(all) + 1))
  <2>1. Len(all) + 1 \in Nat \ {0} /\ (Len(all) + 1) - 1 = Len(all)
    BY <1>10
  <2> QED
    BY <1>11, <2>1, TerminatorAt
<1> QED
  BY <1>6, <1>10, <1>12 DEF cells, all, list

-----------------------------------------------------------------------------
(* Lemmas about the server, which cuts the names into words.               *)

(* The pieces of a joined text: piece i ends at e[i].                      *)
PiecesEnd(seqs, n, e) ==
  /\ e[0] = 0
  /\ \A i \in 0 .. n : e[i] \in Nat /\ i <= e[i] /\ e[i] <= e[n]
  /\ \A i \in 1 .. n : e[i] = e[i - 1] + Len(seqs[i])
  /\ FlattenSeq(seqs) \in Seq(CellSet)
  /\ Len(FlattenSeq(seqs)) = e[n]
  /\ \A i \in 1 .. n : \A j \in 1 .. Len(seqs[i]) :
       FlattenSeq(seqs)[e[i - 1] + j] = seqs[i][j]

(* They are found one after the other.                                     *)
LEMMA JoinedPieces ==
  ASSUME NEW n \in Nat \ {0}, NEW seqs, Len(seqs) = n,
         \A i \in 1 .. n : seqs[i] \in Seq(CellSet) /\ Len(seqs[i]) # 0
  PROVE  \E e : PiecesEnd(seqs, n, e)
<1>1. PICK f : /\ f[1] = seqs[1]
               /\ \A i \in 2 .. n : f[i] = f[i - 1] \o seqs[i]
               /\ FlattenSeq(seqs) = f[n]
  <2>1. n \in Nat \ {0} /\ Len(seqs) = n
    OBVIOUS
  <2> QED
    BY <2>1, FlattenProperties
<1>2. \A i \in 1 .. n : Len(seqs[i]) \in Nat
  BY LenProperties
<1> DEFINE l(i) == Len(seqs[i])
           numbers == [i \in 1 .. n |-> l(i)]
<1>3. /\ numbers \in Seq(Nat) /\ Len(numbers) = n
      /\ \A i \in 1 .. n : numbers[i] = Len(seqs[i])
  <2>1. \A i \in 1 .. n : l(i) \in Nat
    BY <1>2
  <2> HIDE DEF l
  <2>2. numbers \in Seq(Nat) /\ Len(numbers) = n
    BY <2>1
  <2>3. \A i \in 1 .. n : numbers[i] = l(i)
    OBVIOUS
  <2> QED
    BY <2>2, <2>3 DEF l
<1> HIDE DEF numbers, l
<1>4. PICK e : /\ e[0] = 0
               /\ \A i \in 1 .. n : e[i] = e[i - 1] + Len(seqs[i])
               /\ \A i \in 0 .. n : e[i] \in Nat
  <2>1. PICK f1 : /\ f1[0] = 0
                  /\ \A i \in 1 .. Len(numbers) :
                       f1[i] = f1[i - 1] + numbers[i]
                  /\ \A i \in 0 .. Len(numbers) : f1[i] \in Nat
                  /\ Sum(numbers) = f1[Len(numbers)]
    BY <1>3, SumProperties
  <2>2. \A i \in 1 .. n : f1[i] = f1[i - 1] + numbers[i]
    BY <1>3, <2>1
  <2>3. \A i \in 1 .. n : f1[i] = f1[i - 1] + Len(seqs[i])
    BY <1>3, <2>2
  <2>4. \A i \in 0 .. n : f1[i] \in Nat
    BY <1>3, <2>1
  <2> QED
    BY <2>1, <2>3, <2>4
<1>5. ASSUME NEW k \in 1 .. n
      PROVE  /\ e[k - 1] \in Nat /\ e[k] \in Nat
             /\ e[k] > e[k - 1] /\ e[k] = e[k - 1] + Len(seqs[k])
  <2>1. k \in 0 .. n /\ k - 1 \in 0 .. n
    OBVIOUS
  <2>2. Len(seqs[k]) \in Nat /\ Len(seqs[k]) # 0
    BY <1>2
  <2>3. e[k - 1] \in Nat /\ e[k] \in Nat /\ e[k] = e[k - 1] + Len(seqs[k])
    BY <1>4, <2>1
  <2> QED
    BY <2>2, <2>3
(* What is joined up to k. *)
<1> DEFINE Placed(k, i) ==
             \A j \in 1 .. Len(seqs[i]) : f[k][e[i - 1] + j] = seqs[i][j]
           Joined(k) == f[k] \in Seq(CellSet) /\ Len(f[k]) = e[k]
           good == {k \in 1 .. n :
                      /\ Joined(k) /\ k <= e[k]
                      /\ \A i \in 1 .. k : e[i] <= e[k] /\ Placed(k, i)}
<1>6. 1 \in good
  <2>1. 1 \in 1 .. n /\ 1 - 1 = 0 /\ \A i \in 1 .. 1 : i = 1
    OBVIOUS
  <2>2. e[1] = Len(seqs[1]) /\ e[1] \in Nat /\ e[1] > 0
    BY <1>4, <1>5, <2>1
  <2>3. Joined(1)
    BY <1>1, <2>1, <2>2
  <2>4. Placed(1, 1)
    <3>1. ASSUME NEW j \in 1 .. Len(seqs[1])
          PROVE  f[1][e[1 - 1] + j] = seqs[1][j]
      <4>1. e[1 - 1] + j = j
        BY <1>4, <2>1, <2>2
      <4> QED
        BY <1>1, <4>1
    <3> QED
      BY <3>1
  <2> HIDE DEF Joined, Placed
  <2> QED
    BY <2>1, <2>2, <2>3, <2>4
<1>7. ASSUME NEW k \in 1 + 1 .. n, k - 1 \in good
      PROVE  k \in good
  <2> DEFINE a == f[k - 1]
             b == seqs[k]
  <2>1. /\ k \in 1 .. n /\ k \in 2 .. n /\ k - 1 \in 1 .. n
        /\ \A i \in 1 .. k : i \in 1 .. k - 1 \/ i = k
    OBVIOUS
  <2>2. /\ a \in Seq(CellSet) /\ Len(a) = e[k - 1] /\ k - 1 <= e[k - 1]
        /\ \A i \in 1 .. k - 1 : e[i] <= e[k - 1] /\ Placed(k - 1, i)
    BY <1>7
  <2>3. /\ e[k - 1] \in Nat /\ e[k] \in Nat
        /\ e[k] > e[k - 1] /\ e[k] = e[k - 1] + Len(b)
    BY <1>5, <2>1
  <2>4. b \in Seq(CellSet) /\ Len(b) \in Nat
    BY <1>2, <2>1
  <2>5. f[k] = a \o b
    BY <1>1, <2>1
  <2> HIDE DEF a, b, Placed
  <2>6. /\ a \o b \in Seq(CellSet) /\ Len(a \o b) = Len(a) + Len(b)
        /\ \A i \in 1 .. Len(a) + Len(b) :
             (a \o b)[i] = IF i <= Len(a) THEN a[i] ELSE b[i - Len(a)]
    BY <2>2, <2>4, ConcatProperties
  <2>7. Joined(k)
    BY <2>2, <2>3, <2>5, <2>6
  <2>8. k <= e[k]
    BY <2>2, <2>3
  <2>9. ASSUME NEW i \in 1 .. k - 1
        PROVE  e[i] <= e[k] /\ Placed(k, i)
    <3>1. i \in 1 .. n /\ e[i] <= e[k - 1] /\ Placed(k - 1, i)
      BY <2>1, <2>2
    <3>2. /\ e[i - 1] \in Nat /\ e[i] \in Nat
          /\ e[i] = e[i - 1] + Len(seqs[i])
      BY <1>5, <3>1
    <3>3. Len(seqs[i]) \in Nat
      BY <1>2, <3>1
    <3>4. ASSUME NEW j \in 1 .. Len(seqs[i])
          PROVE  f[k][e[i - 1] + j] = seqs[i][j]
      <4>1. /\ e[i - 1] + j <= Len(a)
            /\ e[i - 1] + j \in 1 .. Len(a) + Len(b)
        <5> DEFINE x == e[i - 1]
        <5>1. /\ x \in Nat /\ x + Len(seqs[i]) <= Len(a)
              /\ Len(a) \in Nat /\ Len(b) \in Nat
          BY <2>2, <2>3, <2>4, <3>1, <3>2
        <5> HIDE DEF x
        <5>2. x + j <= Len(a) /\ x + j \in 1 .. Len(a) + Len(b)
          BY <3>3, <5>1
        <5> QED
          BY <5>2 DEF x
      <4>2. a[e[i - 1] + j] = seqs[i][j]
        BY <3>1 DEF Placed, a
      <4> QED
        BY <2>5, <2>6, <4>1, <4>2
    <3>5. e[i] <= e[k]
      <4> DEFINE x == e[i]
                 y == e[k - 1]
                 z == e[k]
      <4>1. x \in Nat /\ y \in Nat /\ z \in Nat /\ x <= y /\ z > y
        BY <2>3, <3>1, <3>2
      <4> HIDE DEF x, y, z
      <4>2. x <= z
        BY <4>1
      <4> QED
        BY <4>2 DEF x, z
    <3>6. Placed(k, i)
      BY <3>4 DEF Placed
    <3> QED
      BY <3>5, <3>6
  <2>10. e[k] <= e[k] /\ Placed(k, k)
    <3>1. ASSUME NEW j \in 1 .. Len(b)
          PROVE  f[k][e[k - 1] + j] = b[j]
      <4>1. /\ ~(Len(a) + j <= Len(a)) /\ (Len(a) + j) - Len(a) = j
            /\ Len(a) + j \in 1 .. Len(a) + Len(b)
        <5> DEFINE x == Len(a)
                   y == Len(b)
        <5>1. x \in Nat /\ y \in Nat /\ j \in 1 .. y
          BY <2>2, <2>3, <2>4
        <5> HIDE DEF x, y
        <5>2. ~(x + j <= x) /\ (x + j) - x = j /\ x + j \in 1 .. x + y
          BY <5>1
        <5> QED
          BY <5>2 DEF x, y
      <4> DEFINE p == Len(a) + j
      <4>2. /\ p \in 1 .. Len(a) + Len(b)
            /\ ~(p <= Len(a)) /\ p - Len(a) = j
        BY <4>1
      <4> HIDE DEF p
      <4>3. (a \o b)[p] = b[p - Len(a)]
        BY <2>6, <4>2
      <4>4. (a \o b)[p] = b[j]
        BY <4>2, <4>3
      <4> QED
        BY <2>2, <2>5, <4>4 DEF p
    <3> QED
      BY <2>3, <3>1 DEF Placed, b
  <2> HIDE DEF Joined
  <2> QED
    BY <2>1, <2>7, <2>8, <2>9, <2>10
<1>8. \A k \in 1 .. n : k \in good
  <2>1. n \in Nat /\ 1 \in Nat
    OBVIOUS
  <2> HIDE DEF good
  <2> QED
    BY <1>6, <1>7, <2>1, SetInduction
<1>9. n \in 1 .. n /\ \A i \in 0 .. n : i = 0 \/ i \in 1 .. n
  OBVIOUS
<1>10. /\ Joined(n)
       /\ \A i \in 1 .. n : e[i] <= e[n] /\ i <= e[i] /\ Placed(n, i)
  <2> HIDE DEF Joined, Placed
  <2> QED
    BY <1>8, <1>9
<1>11. \A i \in 0 .. n : e[i] \in Nat /\ i <= e[i] /\ e[i] <= e[n]
  <2> HIDE DEF Joined, Placed, good
  <2>1. e[n] \in Nat /\ 0 <= e[n] /\ 0 <= e[0]
    BY <1>4, <1>9
  <2> QED
    BY <1>4, <1>9, <1>10, <2>1
<1>12. /\ FlattenSeq(seqs) \in Seq(CellSet)
       /\ Len(FlattenSeq(seqs)) = e[n]
  BY <1>1, <1>10
<1>13. \A i \in 1 .. n : \A j \in 1 .. Len(seqs[i]) :
         FlattenSeq(seqs)[e[i - 1] + j] = seqs[i][j]
  BY <1>1, <1>10
<1> HIDE DEF Joined, Placed, good
<1>14. PiecesEnd(seqs, n, e)
  BY <1>4, <1>11, <1>12, <1>13 DEF PiecesEnd
<1> QED
  BY <1>14

(* The provers of arithmetic do not read this string.                      *)
Blank == " "

(* Where the next word ends.                                               *)
LEMMA NextEnd ==
  ASSUME NEW cells, NEW size \in Nat, NEW a \in Nat, NEW b \in Nat,
         a < b, b <= size, b = size \/ cells[b] = Blank,
         \A i \in a + 1 .. b - 1 : cells[i] # Blank
  PROVE  Min({i \in a + 1 .. size : cells[i] = Blank} \cup {size}) = b
<1> DEFINE I == {i \in a + 1 .. size : cells[i] = Blank} \cup {size}
<1>1. I \subseteq Nat /\ b \in I
  OBVIOUS
<1>2. \A i \in I : i >= b
  <2>1. ASSUME NEW i \in a + 1 .. size, cells[i] = Blank
        PROVE  i >= b
    <3>1. ~(i \in a + 1 .. b - 1)
      BY <2>1
    <3> QED
      BY <3>1
  <2> QED
    BY <2>1
<1> HIDE DEF I
<1>3. Min(I) \in I /\ Min(I) <= b
  BY <1>1, MinProperties
<1>4. Min(I) \in Nat /\ Min(I) >= b
  BY <1>1, <1>2, <1>3
<1>5. Min(I) = b
  BY <1>3, <1>4
<1> QED
  BY <1>5 DEF I

(* At the end there is no other.                                           *)
LEMMA NoNextEnd ==
  ASSUME NEW cells, NEW size \in Nat
  PROVE  Min({i \in size + 1 .. size : cells[i] = Blank} \cup {size}) = size
<1> DEFINE I == {i \in size + 1 .. size : cells[i] = Blank} \cup {size}
<1>1. I = {size}
  OBVIOUS
<1> HIDE DEF I
<1>2. I \subseteq Nat /\ I # {}
  BY <1>1
<1>3. Min(I) \in I
  BY <1>2, MinProperties
<1> QED
  BY <1>1, <1>3 DEF I

(* A text of n words that end at e[1], ..., e[n].                          *)
Ended(cells, n, e) ==
  /\ Len(cells) = e[n] /\ e[0] = 0
  /\ \A i \in 0 .. n : e[i] \in Nat /\ i <= e[i] /\ e[i] <= e[n]
  /\ \A i \in 1 .. n : e[i - 1] < e[i]
  /\ \A i \in 1 .. n : \A j \in e[i - 1] + 1 .. e[i] - 1 : cells[j] # Blank
  /\ \A i \in 1 .. n - 1 : cells[e[i]] = Blank

(* The ends found are those of the words.                                  *)
LEMMA EndsFound ==
  ASSUME NEW cells, NEW n \in Nat \ {0}, NEW e, Ended(cells, n, e)
  PROVE  \A k \in 0 .. n : WordEnds(cells)[k] = e[k]
<1> DEFINE size == Len(cells)
           Step(x) == Min({i \in x + 1 .. size : cells[i] = Blank} \cup {size})
           Ends(f) == [k \in 0 .. size |-> IF k = 0 THEN 0 ELSE Step(f[k - 1])]
           w == [k \in 0 .. size |-> IF k <= n THEN e[k] ELSE size]
           end == WordEnds(cells)
<1>1. size = e[n] /\ size \in Nat /\ n <= size /\ e[0] = 0
  <2>1. n \in 0 .. n
    OBVIOUS
  <2> QED
    BY <2>1 DEF Ended
<1>2. ASSUME NEW k \in 1 .. n
      PROVE  Step(e[k - 1]) = e[k]
  <2> DEFINE a == e[k - 1]
             b == e[k]
  <2>1. k \in 0 .. n /\ k - 1 \in 0 .. n /\ (k = n \/ k \in 1 .. n - 1)
    OBVIOUS
  <2>2. /\ a \in Nat /\ b \in Nat /\ a < b /\ b <= size
        /\ \A j \in a + 1 .. b - 1 : cells[j] # Blank
    BY <1>1, <2>1 DEF Ended
  <2>3. b = size \/ cells[b] = Blank
    BY <1>1, <2>1 DEF Ended
  <2> HIDE DEF a, b, size
  <2>4. Step(a) = b
    BY <1>1, <2>2, <2>3, NextEnd
  <2> QED
    BY <2>4 DEF a, b
<1>3. Step(size) = size
  <2> HIDE DEF size
  <2> QED
    BY <1>1, NoNextEnd
<1> HIDE DEF Step
<1>4. w = Ends(w)
  <2> HIDE DEF size
  <2>1. ASSUME NEW k \in 0 .. size
        PROVE  w[k] = IF k = 0 THEN 0 ELSE Step(w[k - 1])
    <3>1. CASE k = 0
      BY <1>1, <3>1
    <3>2. CASE k \in 1 .. n
      <4>1. k # 0 /\ k <= n /\ k - 1 \in 0 .. size /\ k - 1 <= n
        BY <1>1, <3>2
      <4> QED
        BY <1>2, <3>2, <4>1
    <3>3. CASE k > n
      <4>1. w[k - 1] = size
        <5>1. CASE k = n + 1
          <6>1. k - 1 = n /\ n \in 0 .. size /\ n <= n
            BY <1>1, <5>1
          <6> QED
            BY <1>1, <6>1
        <5>2. CASE k # n + 1
          <6>1. k - 1 \in 0 .. size /\ ~(k - 1 <= n)
            BY <1>1, <3>3, <5>2
          <6> QED
            BY <6>1
        <5> QED
          BY <5>1, <5>2
      <4>2. w[k] = size /\ k # 0
        BY <3>3
      <4> QED
        BY <1>3, <4>1, <4>2
    <3> QED
      BY <3>1, <3>2, <3>3
  <2> QED
    BY <2>1
<1>5. end = Ends(end)
  <2>1. \E f : f = Ends(f)
    <3> HIDE DEF Ends, w
    <3> QED
      BY <1>4
  <2>2. end = CHOOSE f : f = Ends(f)
    BY DEF WordEnds, Step, Blank
  <2> HIDE DEF Ends, end
  <2> QED
    BY <2>1, <2>2, Zenon
<1> DEFINE good == {k \in 0 .. n : end[k] = e[k]}
<1> HIDE DEF end, size
<1>6. 0 \in good
  BY <1>1, <1>5
<1>7. ASSUME NEW k \in 0 + 1 .. n, k - 1 \in good
      PROVE  k \in good
  <2>1. k \in 0 .. size /\ k # 0 /\ k \in 1 .. n /\ k \in 0 .. n
    BY <1>1
  <2>2. end[k] = Step(end[k - 1])
    BY <1>5, <2>1
  <2> QED
    BY <1>2, <1>7, <2>1, <2>2
<1> HIDE DEF good
<1>8. \A k \in 0 .. n : k \in good
  <2>1. n \in Nat /\ 0 \in Nat
    OBVIOUS
  <2> QED
    BY <1>6, <1>7, <2>1, SetInduction
<1> QED
  BY <1>8 DEF good, end

(* The words are what is between the ends.                                 *)
LEMMA WordsFound ==
  ASSUME NEW cells, NEW n \in Nat \ {0}, NEW e, Ended(cells, n, e)
  PROVE  /\ DOMAIN Words(cells) = 1 .. n
         /\ \A k \in 1 .. n :
              Words(cells)[k] = SubSeq(cells, e[k - 1] + 1, e[k] - 1)
<1> DEFINE end == WordEnds(cells)
           I == {k \in 1 .. Len(cells) : end[k] = Len(cells)}
<1>1. \A k \in 0 .. n : end[k] = e[k]
  BY EndsFound
<1>2. /\ Len(cells) = e[n] /\ Len(cells) \in Nat
      /\ n \in 1 .. Len(cells) /\ n \in 0 .. n
  <2>1. n \in 0 .. n
    OBVIOUS
  <2>2. e[n] \in Nat /\ n <= e[n] /\ Len(cells) = e[n]
    BY <2>1 DEF Ended
  <2> QED
    BY <2>1, <2>2
<1>3. n \in I /\ I \subseteq Nat
  BY <1>1, <1>2
<1>4. ASSUME NEW k \in I
      PROVE  k >= n
  <2> SUFFICES ASSUME k < n
               PROVE  FALSE
    OBVIOUS
  <2>1. k \in 0 .. n /\ k + 1 \in 1 .. n /\ k + 1 \in 0 .. n
        /\ (k + 1) - 1 = k
    OBVIOUS
  <2>2. end[k] = e[k] /\ end[k] = e[n]
    BY <1>1, <1>2, <2>1
  <2>3. e[k] < e[k + 1] /\ e[k + 1] <= e[n] /\ e[k] \in Nat
        /\ e[k + 1] \in Nat /\ e[n] \in Nat
    BY <1>2, <2>1 DEF Ended
  <2> QED
    BY <2>2, <2>3
<1> HIDE DEF end, I
<1>5. Min(I) = n
  <2>1. Min(I) \in I /\ Min(I) <= n
    BY <1>3, MinProperties
  <2>2. Min(I) >= n /\ Min(I) \in Nat
    BY <1>3, <1>4, <2>1
  <2> QED
    BY <2>1, <2>2
<1>6. Words(cells) =
        [k \in 1 .. Min(I) |-> SubSeq(cells, end[k - 1] + 1, end[k] - 1)]
  BY DEF Words, I, end
<1>7. \A k \in 1 .. n : end[k - 1] = e[k - 1] /\ end[k] = e[k]
  <2>1. \A k \in 1 .. n : k - 1 \in 0 .. n /\ k \in 0 .. n
    OBVIOUS
  <2> QED
    BY <1>1, <2>1
<1> QED
  BY <1>5, <1>6, <1>7

(* The pieces of the joined names.                                         *)
Mark(hs, i) == IF i < Len(hs) THEN Blank ELSE "NUL"
NamePieces(hs) == [i \in 1 .. Len(hs) |-> hs[i].name \o <<Mark(hs, i)>>]

(* They are what joinHeaderNames() joins.                                  *)
LEMMA NamesAreJoined ==
  ASSUME NEW hs \in Seq(Headers), Len(hs) # 0
  PROVE  /\ joinHeaderNames(DataList(hs)).cells =
              strToLower(FlattenSeq(NamePieces(hs)))
         /\ Len(NamePieces(hs)) = Len(hs)
         /\ \A i \in 1 .. Len(hs) :
              NamePieces(hs)[i] = hs[i].name \o <<Mark(hs, i)>>
<1> DEFINE list == DataList(hs)
           n == Len(hs)
           pieces == [i \in DOMAIN list |->
                        SubSeq(list[i], 1, Separator(list[i]))
                          \o <<After(list, i)>>]
           e(i) == hs[i].name \o <<Mark(hs, i)>>
<1>1. /\ DOMAIN list = 1 .. n /\ list \in Seq(Seq(Characters))
      /\ Len(list) = n /\ n \in Nat
      /\ \A i \in 1 .. n : hs[i] \in Headers /\ list[i] = Data(hs[i])
  BY ListProperties
<1>2. list # <<>>
  BY <1>1, EmptySeq
<1> HIDE DEF list
<1>3. \A i \in 1 .. n :
        SubSeq(list[i], 1, Separator(list[i])) = hs[i].name
  BY <1>1, DataProperties
<1>4. \A i \in 1 .. n : After(list, i) = Mark(hs, i)
  BY <1>1 DEF After, Mark, Blank
<1>5. pieces = [i \in 1 .. n |-> e(i)]
  BY <1>1, <1>3, <1>4
<1>6. NamePieces(hs) = [i \in 1 .. n |-> e(i)]
  BY DEF NamePieces
<1>7. joinHeaderNames(list).cells = strToLower(FlattenSeq(pieces))
  BY <1>2 DEF joinHeaderNames, Buffer
<1> HIDE DEF pieces, e, n
<1>8. /\ Len([i \in 1 .. n |-> e(i)]) = n
      /\ \A i \in 1 .. n : [i1 \in 1 .. n |-> e(i1)][i] = e(i)
  BY <1>1
<1>9. joinHeaderNames(list).cells = strToLower(FlattenSeq(NamePieces(hs)))
  BY <1>5, <1>6, <1>7
<1>10. /\ Len(NamePieces(hs)) = n
       /\ \A i \in 1 .. n : NamePieces(hs)[i] = e(i)
  BY <1>6, <1>8
<1> QED
  BY <1>9, <1>10 DEF list, e, n

(* A name and its mark.                                                    *)
LEMMA PieceProperties ==
  ASSUME NEW h \in Headers, NEW x \in {Blank, "NUL"}
  PROVE  /\ h.name \o <<x>> \in Seq(CellSet)
         /\ Len(h.name) \in Nat /\ Len(h.name) # 0
         /\ h.name \in Seq(Characters)
         /\ Len(h.name \o <<x>>) = Len(h.name) + 1
         /\ \A j \in 1 .. Len(h.name) :
              /\ (h.name \o <<x>>)[j] = h.name[j]
              /\ h.name[j] # Blank
         /\ (h.name \o <<x>>)[Len(h.name) + 1] = x
<1> DEFINE t == h.name
           end == <<x>>
<1>1. t \in Seq(Characters) /\ Len(t) \in Nat /\ Len(t) # 0
  <2>1. t \in Seq(Characters) /\ Len(t) >= 1
    BY PartsOfLine
  <2> HIDE DEF t
  <2>2. Len(t) \in Nat
    BY <2>1, LenProperties
  <2> QED
    BY <2>1, <2>2
<1>2. end \in Seq(CellSet) /\ Len(end) = 1 /\ end[1] = x
  <2>1. x \in CellSet
    BY DEF CellSet, Characters, Blank
  <2> QED
    BY <2>1, OneElement
<1>3. t \in Seq(CellSet)
  BY <1>1, SeqMonotonic DEF CellSet
<1>4. \A j \in 1 .. Len(t) : t[j] # Blank
  <2>1. h.name \in Names
    BY DEF Headers
  <2>2. DOMAIN t = 1 .. Len(t)
    BY <1>1, LenProperties
  <2>3. ToSet(t) \cap {":", Blank} = {}
    BY <2>1, NamesAssumption DEF Blank
  <2> HIDE DEF t
  <2> QED
    BY <2>2, <2>3 DEF ToSet
<1> HIDE DEF t, end
<1>5. /\ t \o end \in Seq(CellSet) /\ Len(t \o end) = Len(t) + Len(end)
      /\ \A i \in 1 .. Len(t) + Len(end) :
           (t \o end)[i] = IF i <= Len(t) THEN t[i] ELSE end[i - Len(t)]
  BY <1>2, <1>3, ConcatProperties
<1>6. /\ Len(t) + 1 \in 1 .. Len(t) + Len(end)
      /\ ~(Len(t) + 1 <= Len(t)) /\ (Len(t) + 1) - Len(t) = 1
      /\ \A i \in 1 .. Len(t) :
           i \in 1 .. Len(t) + Len(end) /\ i <= Len(t)
  BY <1>1, <1>2
<1>7. (t \o end)[Len(t) + 1] = x
  BY <1>2, <1>5, <1>6
<1>8. \A j \in 1 .. Len(t) : (t \o end)[j] = t[j]
  BY <1>5, <1>6
<1>9. Len(t \o end) = Len(t) + 1
  BY <1>2, <1>5
<1> QED
  BY <1>1, <1>4, <1>5, <1>7, <1>8, <1>9 DEF t, end

(* The joined names are words that end at some places e, and word k is the *)
(* name of header k in lower case.                                         *)
LEMMA NamesEnded ==
  ASSUME NEW hs \in Seq(Headers), Len(hs) # 0,
         NEW cells, cells = joinHeaderNames(DataList(hs)).cells
  PROVE  \E e : /\ Ended(cells, Len(hs), e)
                /\ \A k \in 1 .. Len(hs) :
                     SubSeq(cells, e[k - 1] + 1, e[k] - 1) =
                       strToLower(hs[k].name)
<1> DEFINE n == Len(hs)
           pieces == NamePieces(hs)
           all == FlattenSeq(pieces)
<1>1. /\ n \in Nat \ {0} /\ Len(pieces) = n /\ cells = strToLower(all)
      /\ \A i \in 1 .. n : /\ hs[i] \in Headers
                           /\ pieces[i] = hs[i].name \o <<Mark(hs, i)>>
  BY ListProperties, NamesAreJoined
<1>2. \A i \in 1 .. n : Mark(hs, i) \in {Blank, "NUL"}
  BY DEF Mark
<1>3. \A i \in 1 .. n :
        /\ pieces[i] \in Seq(CellSet) /\ Len(hs[i].name) \in Nat
        /\ hs[i].name \in Seq(Characters)
        /\ Len(pieces[i]) = Len(hs[i].name) + 1 /\ Len(hs[i].name) # 0
        /\ \A j \in 1 .. Len(hs[i].name) :
             pieces[i][j] = hs[i].name[j] /\ hs[i].name[j] # Blank
        /\ pieces[i][Len(hs[i].name) + 1] = Mark(hs, i)
  <2> HIDE DEF n, pieces
  <2>1. ASSUME NEW i \in 1 .. n
        PROVE  /\ pieces[i] \in Seq(CellSet) /\ Len(hs[i].name) \in Nat
               /\ hs[i].name \in Seq(Characters)
               /\ Len(pieces[i]) = Len(hs[i].name) + 1 /\ Len(hs[i].name) # 0
               /\ \A j \in 1 .. Len(hs[i].name) :
                    pieces[i][j] = hs[i].name[j] /\ hs[i].name[j] # Blank
               /\ pieces[i][Len(hs[i].name) + 1] = Mark(hs, i)
    <3> DEFINE h == hs[i]
               x == Mark(hs, i)
    <3>1. h \in Headers /\ x \in {Blank, "NUL"}
      BY <1>1, <1>2
    <3>2. pieces[i] = h.name \o <<x>>
      BY <1>1
    <3> HIDE DEF h, x
    <3>3. /\ h.name \o <<x>> \in Seq(CellSet)
          /\ Len(h.name) \in Nat /\ Len(h.name) # 0
          /\ h.name \in Seq(Characters)
          /\ Len(h.name \o <<x>>) = Len(h.name) + 1
          /\ \A j \in 1 .. Len(h.name) :
               (h.name \o <<x>>)[j] = h.name[j] /\ h.name[j] # Blank
          /\ (h.name \o <<x>>)[Len(h.name) + 1] = x
      BY <3>1, PieceProperties
    <3> QED
      BY <3>2, <3>3 DEF h, x
  <2> QED
    BY <2>1
<1> HIDE DEF n, pieces
<1>4. \A i \in 1 .. n : pieces[i] \in Seq(CellSet) /\ Len(pieces[i]) # 0
  BY <1>3
<1>5. PICK e : PiecesEnd(pieces, n, e)
  <2>1. n \in Nat \ {0} /\ Len(pieces) = n
    BY <1>1
  <2> QED
    BY <1>4, <2>1, JoinedPieces
<1>6. /\ \A i \in 0 .. n : e[i] \in Nat /\ i <= e[i] /\ e[i] <= e[n]
      /\ \A i \in 1 .. n : e[i] = e[i - 1] + Len(pieces[i])
      /\ e[0] = 0
      /\ all \in Seq(CellSet)
      /\ Len(all) = e[n]
      /\ \A i \in 1 .. n : \A j \in 1 .. Len(pieces[i]) :
           all[e[i - 1] + j] = pieces[i][j]
  BY <1>5 DEF PiecesEnd
<1> HIDE DEF all
<1>7. e[n] \in Nat
  <2>1. n \in 0 .. n
    BY <1>1
  <2> QED
    BY <1>6, <2>1
<1>8. Len(cells) = e[n] /\ \A i \in 1 .. e[n] : cells[i] = tolower(all[i])
  <2> DEFINE c(i) == tolower(all[i])
  <2>1. DOMAIN all = 1 .. e[n]
    BY <1>6, LenProperties
  <2>2. cells = [i \in 1 .. e[n] |-> c(i)]
    BY <1>1, <2>1 DEF strToLower
  <2> HIDE DEF c
  <2>3. Len([i \in 1 .. e[n] |-> c(i)]) = e[n]
    BY <1>7
  <2>4. \A i \in 1 .. e[n] : cells[i] = c(i)
    BY <2>2
  <2> QED
    BY <2>2, <2>3, <2>4 DEF c
<1>9. \A x : tolower(x) = Blank <=> x = Blank
  BY DEF tolower, Blank
(* The place of a piece. *)
<1>10. ASSUME NEW k \in 1 .. n
      PROVE  /\ e[k - 1] \in Nat /\ e[k] \in Nat /\ e[k] <= e[n]
             /\ Len(hs[k].name) \in Nat
             /\ e[k] = e[k - 1] + Len(hs[k].name) + 1
             /\ \A j \in 1 .. Len(hs[k].name) :
                  /\ cells[e[k - 1] + j] = tolower(hs[k].name[j])
                  /\ cells[e[k - 1] + j] # Blank
             /\ cells[e[k]] = tolower(Mark(hs, k))
  <2> DEFINE a == e[k - 1]
             b == e[k]
             l == Len(hs[k].name)
             end == e[n]
  <2>1. k \in 0 .. n /\ k - 1 \in 0 .. n
    BY <1>1
  <2>2. a \in Nat /\ b \in Nat /\ b <= end /\ b = a + Len(pieces[k])
    BY <1>6, <2>1
  <2>3. l \in Nat /\ Len(pieces[k]) = l + 1
    BY <1>3
  <2>4. \A j \in 1 .. Len(pieces[k]) : all[a + j] = pieces[k][j]
    BY <1>6
  <2>5. /\ \A j \in 1 .. l : pieces[k][j] = hs[k].name[j]
                             /\ hs[k].name[j] # Blank
        /\ pieces[k][l + 1] = Mark(hs, k)
    BY <1>3
  <2>6. \A i \in 1 .. end : cells[i] = tolower(all[i])
    BY <1>8
  <2>7. end \in Nat
    BY <1>7
  <2> HIDE DEF a, b, l, end
  <2>8. b = a + (l + 1)
    BY <2>2, <2>3
  <2>9. /\ \A j \in 1 .. l : j \in 1 .. Len(pieces[k]) /\ a + j \in 1 .. end
        /\ l + 1 \in 1 .. Len(pieces[k]) /\ b \in 1 .. end
    BY <2>2, <2>3, <2>7, <2>8
  <2>10. \A j \in 1 .. l : cells[a + j] = tolower(hs[k].name[j])
    BY <2>4, <2>5, <2>6, <2>9
  <2>11. \A j \in 1 .. l : cells[a + j] # Blank
    BY <1>9, <2>5, <2>10
  <2>12. cells[b] = tolower(Mark(hs, k))
    BY <2>4, <2>5, <2>6, <2>8, <2>9
  <2>13. b = a + l + 1
    BY <2>2, <2>3
  <2> QED
    BY <2>2, <2>3, <2>10, <2>11, <2>12, <2>13 DEF a, b, l, end
<1>11. Ended(cells, n, e)
  <2>1. ASSUME NEW i \in 1 .. n
        PROVE  /\ e[i - 1] < e[i]
               /\ \A j \in e[i - 1] + 1 .. e[i] - 1 : cells[j] # Blank
    <3> DEFINE a == e[i - 1]
               b == e[i]
               l == Len(hs[i].name)
    <3>1. /\ a \in Nat /\ b \in Nat /\ l \in Nat /\ b = a + l + 1
          /\ \A j \in 1 .. l : cells[a + j] # Blank
      BY <1>10
    <3> HIDE DEF a, b, l
    <3>2. ASSUME NEW j \in a + 1 .. b - 1
          PROVE  cells[j] # Blank
      <4>1. j - a \in 1 .. l /\ a + (j - a) = j
        BY <3>1
      <4>2. cells[a + (j - a)] # Blank
        BY <3>1, <4>1
      <4> QED
        BY <4>1, <4>2
    <3>3. a < b
      BY <3>1
    <3> QED
      BY <3>2, <3>3 DEF a, b
  <2>2. ASSUME NEW i \in 1 .. n - 1
        PROVE  cells[e[i]] = Blank
    <3>1. i \in 1 .. n /\ i < n
      BY <1>1
    <3>2. Mark(hs, i) = Blank
      BY <3>1 DEF Mark, n
    <3> QED
      BY <1>9, <1>10, <3>1, <3>2
  <2> QED
    BY <1>6, <1>8, <2>1, <2>2 DEF Ended
<1>12. ASSUME NEW k \in 1 .. n
       PROVE  SubSeq(cells, e[k - 1] + 1, e[k] - 1) = strToLower(hs[k].name)
  <2> DEFINE a == e[k - 1]
             b == e[k]
             name == hs[k].name
             l == Len(name)
             c(i) == tolower(name[i])
             low == [i \in 1 .. l |-> c(i)]
             S == {c(i) : i \in 1 .. l}
  <2>1. /\ a \in Nat /\ b \in Nat /\ l \in Nat /\ b = a + l + 1
        /\ \A j \in 1 .. l : cells[a + j] = c(j)
    BY <1>10
  <2>2. strToLower(name) = low
    <3>1. DOMAIN name = 1 .. l
      BY <1>3, LenProperties
    <3> QED
      BY <3>1 DEF strToLower
  <2>3. \A i \in 1 .. l : c(i) \in S
    OBVIOUS
  <2> HIDE DEF a, b, name, l, c, S
  <2>4. low \in Seq(S) /\ Len(low) = l /\ \A i \in 1 .. l : low[i] = c(i)
    BY <2>1, <2>3
  <2> HIDE DEF low
  <2> DEFINE word == SubSeq(cells, a + 1, b - 1)
  <2>5. \A i \in a + 1 .. b - 1 : cells[i] \in S
    <3>1. ASSUME NEW i \in a + 1 .. b - 1
          PROVE  cells[i] \in S
      <4>1. i - a \in 1 .. l /\ a + (i - a) = i
        BY <2>1
      <4> QED
        BY <2>1, <2>3, <4>1
    <3> QED
      BY <3>1
  <2>6. a + 1 \in Int /\ b - 1 \in Int /\ (b - 1) - (a + 1) + 1 = l
        /\ (a + 1 <= b - 1 \/ l = 0)
    BY <2>1
  <2>7. /\ word \in Seq(S)
        /\ Len(word) = IF a + 1 <= b - 1 THEN (b - 1) - (a + 1) + 1 ELSE 0
        /\ \A i \in 1 .. (b - 1) - (a + 1) + 1 :
             word[i] = cells[(a + 1) + i - 1]
    BY <2>5, <2>6, SubSeqProperties
  <2> HIDE DEF word
  <2>8. Len(word) = l
    BY <2>1, <2>6, <2>7
  <2>9. \A i \in 1 .. l : word[i] = low[i]
    <3>1. \A i \in 1 .. l : (a + 1) + i - 1 = a + i
      BY <2>1
    <3> QED
      BY <2>1, <2>4, <2>6, <2>7, <3>1
  <2>10. word = low
    BY <2>4, <2>7, <2>8, <2>9, SeqEqual
  <2> QED
    BY <2>2, <2>10 DEF word, a, b, name
<1> QED
  BY <1>11, <1>12 DEF n

(* A header is found under its name in lower case.                         *)
LEMMA HeaderIsNamed ==
  ASSUME NEW hs \in Seq(Headers), DistinctNames(hs), NEW k \in 1 .. Len(hs)
  PROVE  Named(hs, strToLower(hs[k].name)) = Data(hs[k]) \o <<"LF">>
<1> DEFINE name == strToLower(hs[k].name)
           J == {i \in 1 .. Len(hs) : strToLower(hs[i].name) = name}
           i0 == SelectInSeq(hs, LAMBDA h : strToLower(h.name) = name)
<1>1. i0 = IF J # {} THEN Min(J) ELSE 0
  BY DEF SelectInSeq
<1>2. DOMAIN hs = 1 .. Len(hs) /\ Len(hs) \in Nat
  BY LenProperties
<1>3. k \in J /\ J \subseteq Nat /\ J # {}
  OBVIOUS
<1>4. \A i \in J : i = k
  BY <1>2 DEF DistinctNames
<1>5. Named(hs, name) =
        IF i0 = 0 THEN <<"unknown">> ELSE Data(hs[i0]) \o <<"LF">>
  BY DEF Named
<1> HIDE DEF J, i0, name
<1>6. Min(J) = k
  BY <1>3, <1>4, MinProperties
<1>7. i0 = k /\ k # 0
  BY <1>1, <1>3, <1>6
<1> QED
  BY <1>5, <1>7 DEF name

(* The text that the server signs is the text that has been signed.        *)
LEMMA TextIsRebuilt ==
  ASSUME NEW hs \in Seq(Headers), Len(hs) # 0, DistinctNames(hs), NEW text
  PROVE  DataToSign(DataList(hs), text).cells =
           ServerText(hs, joinHeaderNames(DataList(hs)).cells, text)
             \o <<"NUL">>
<1> DEFINE list == DataList(hs)
           n == Len(hs)
           cells == joinHeaderNames(list).cells
           words == Words(cells)
<1>1. n \in Nat \ {0} /\ DOMAIN list = 1 .. n
      /\ \A i \in 1 .. n : list[i] = Data(hs[i])
  BY ListProperties
<1>2. PICK e : /\ Ended(cells, n, e)
               /\ \A k \in 1 .. n :
                    SubSeq(cells, e[k - 1] + 1, e[k] - 1) =
                      strToLower(hs[k].name)
  BY NamesEnded
<1> HIDE DEF cells
<1>3. /\ DOMAIN words = 1 .. n
      /\ \A k \in 1 .. n : words[k] = strToLower(hs[k].name)
  <2> HIDE DEF n
  <2>1. /\ DOMAIN words = 1 .. n
        /\ \A k \in 1 .. n :
             words[k] = SubSeq(cells, e[k - 1] + 1, e[k] - 1)
    BY <1>1, <1>2, WordsFound
  <2> QED
    BY <1>2, <2>1
<1> HIDE DEF words, list
<1>4. \A k \in 1 .. n : Named(hs, words[k]) = list[k] \o <<"LF">>
  BY <1>1, <1>3, HeaderIsNamed
<1>5. [k \in DOMAIN words |-> Named(hs, words[k])] =
        [i \in DOMAIN list |-> list[i] \o <<"LF">>]
  BY <1>1, <1>3, <1>4
<1>6. ServerText(hs, cells, text) =
        FlattenSeq([i \in DOMAIN list |-> list[i] \o <<"LF">>]) \o text
  BY <1>5 DEF ServerText, words
<1>7. DataToSign(list, text).cells =
        FlattenSeq([i \in DOMAIN list |-> list[i] \o <<"LF">>])
          \o text \o <<"NUL">>
  BY DEF DataToSign, Buffer
<1> QED
  BY <1>6, <1>7 DEF cells, list

-----------------------------------------------------------------------------
(* The steps.                                                              *)

(* A head of n headers has a status line and n lines to come, none kept.   *)
LEMMA InitEstablishes == Init => HeaderTextInv
<1> SUFFICES ASSUME Init
             PROVE  HeaderTextInv
  OBVIOUS
<1>1. /\ pc \in {"receive", "sign"} /\ kept = <<>> /\ lost = FALSE
      /\ lines = IF pc = "receive"
                 THEN <<StatusLine>> \o [i \in DOMAIN head |-> Line(head[i])]
                 ELSE <<>>
  BY DEF Init
<1>2. head \in Seq(Headers)
  <2>1. PICK n \in 0 .. MaxHeaders : head \in [1 .. n -> Headers]
    BY DEF Init
  <2>2. n \in Nat
    BY <2>1
  <2> QED
    BY <2>1, <2>2
<1>3. Len(head) \in Nat /\ DOMAIN head = 1 .. Len(head)
  BY <1>2, LenProperties
<1>4. kept \in Seq(HeaderLines) /\ Len(kept) = 0
  BY <1>1, EmptySeq
<1> DEFINE all == {StatusLine} \cup HeaderLines
           status == <<StatusLine>>
           rest == [i \in 1 .. Len(head) |-> Line(head[i])]
<1>5. /\ status \in Seq(all) /\ Len(status) = 1 /\ status[1] = StatusLine
  <2>1. StatusLine \in all
    OBVIOUS
  <2> HIDE DEF all
  <2> QED
    BY <2>1
<1>6. rest \in Seq(all) /\ Len(rest) = Len(head)
  <2>1. \A i \in 1 .. Len(head) : Line(head[i]) \in all
    BY <1>2, ElementOfSeq DEF HeaderLines
  <2> HIDE DEF all
  <2>2. rest \in [1 .. Len(head) -> all]
    BY <2>1
  <2>3. DOMAIN rest = 1 .. Len(head)
    OBVIOUS
  <2> HIDE DEF rest
  <2> QED
    BY <1>3, <2>2, <2>3, LenProperties
<1>7. /\ status \o rest \in Seq(all)
      /\ Len(status \o rest) = Len(status) + Len(rest)
      /\ \A i \in 1 .. Len(status) + Len(rest) : (status \o rest)[i] =
           IF i <= Len(status) THEN status[i] ELSE rest[i - Len(status)]
  <2>1. status \in Seq(all) /\ rest \in Seq(all)
    BY <1>5, <1>6
  <2> HIDE DEF status, rest, all
  <2> QED
    BY <2>1, ConcatProperties
<1>8. pc = "receive" => lines = status \o rest
  BY <1>1, <1>3
<1>9. lines \in Seq(all)
  <2>1. pc # "receive" => lines \in Seq(all)
    BY <1>1, EmptySeq
  <2> QED
    BY <1>7, <1>8, <2>1
<1>10. ASSUME pc = "receive"
       PROVE  LinesInv /\ Passed = 0
  <2>1. Len(lines) = 1 + Len(head)
    BY <1>5, <1>6, <1>7, <1>8, <1>10
  <2>2. Passed = 0
    BY <1>3, <2>1 DEF Passed
  <2>3. lines[1] = StatusLine
    <3>1. 1 \in 1 .. 1 + Len(head) /\ 1 <= 1
      BY <1>3
    <3> HIDE DEF status, rest
    <3> QED
      BY <1>5, <1>6, <1>7, <1>8, <1>10, <3>1
  <2>4. ASSUME NEW i \in 1 .. Len(lines), i > 1
        PROVE  lines[i] = Line(head[i - 1])
    <3>1. i \in 1 .. 1 + Len(head) /\ ~(i <= 1) /\ i - 1 \in 1 .. Len(head)
      BY <1>3, <2>1, <2>4
    <3>2. rest[i - 1] = Line(head[i - 1])
      BY <3>1
    <3> HIDE DEF status, rest
    <3> QED
      BY <1>5, <1>6, <1>7, <1>8, <1>10, <3>1, <3>2
  <2>5. \A i \in 1 .. Len(lines) : 0 + i = i /\ 0 + i - 1 = i - 1
    BY <1>3, <2>1
  <2> QED
    BY <1>3, <2>2, <2>3, <2>4, <2>5 DEF LinesInv
<1>11. KeptInv
  BY <1>1, <1>4, <1>10 DEF KeptInv, Holds
<1>12. KeptLines /\ OverrunOnlyIfWrapped /\ WarnedRightly
  BY <1>1, <1>4 DEF KeptLines, OverrunOnlyIfWrapped, WarnedRightly
<1> QED
  BY <1>1, <1>2, <1>4, <1>9, <1>10, <1>11, <1>12 DEF HeaderTextInv

(* header_callback() keeps the line of a header and no other.              *)
LEMMA KeepProperties ==
  ASSUME NEW list \in Seq(HeaderLines),
         NEW line \in {StatusLine} \cup HeaderLines
  PROVE  /\ Keep(list, line) \in Seq(HeaderLines)
         /\ line = StatusLine => Keep(list, line) = list
         /\ line \in HeaderLines => Keep(list, line) = Append(list, line)
<1>1. line = StatusLine => Keep(list, line) = list
  BY StatusLineHasNoColon DEF Keep
<1>2. line \in HeaderLines => Keep(list, line) = Append(list, line)
  BY LineProperties DEF Keep, HeaderLines
<1>3. line \in HeaderLines => Append(list, line) \in Seq(HeaderLines)
  BY AppendProperties
<1> QED
  BY <1>1, <1>2, <1>3

(* The next line is passed on.                                             *)
LEMMA LinesPreserved ==
  ASSUME LinesInv, head \in Seq(Headers),
         lines \in Seq({StatusLine} \cup HeaderLines), lines # <<>>,
         head' = head, lines' = Tail(lines)
  PROVE  LinesInv' /\ Passed' = Passed + 1
<1>1. /\ Len(head) \in Nat /\ Len(lines) \in Nat /\ Len(lines) >= 1
  BY LenProperties, EmptySeq
<1>2. /\ Len(Tail(lines)) = Len(lines) - 1
      /\ \A i \in 1 .. Len(Tail(lines)) : Tail(lines)[i] = lines[i + 1]
  BY HeadTailProperties
<1>3. Passed' = Len(head) + 1 - Len(Tail(lines))
  BY DEF Passed
<1>4. Passed' = Passed + 1
  <2>1. Passed' = Len(head) + 1 - (Len(lines) - 1)
    BY <1>2, <1>3
  <2>2. Len(head) + 1 - (Len(lines) - 1) = (Len(head) + 1 - Len(lines)) + 1
    BY <1>1
  <2> QED
    BY <2>1, <2>2 DEF Passed
<1>5. Passed \in 0 .. Len(head) /\ Passed = Len(head) + 1 - Len(lines)
  BY <1>1 DEF LinesInv, Passed
<1>6. ASSUME NEW i \in 1 .. Len(lines) - 1
      PROVE  Tail(lines)[i] = Line(head[(Passed + 1) + i - 1])
  <2>1. /\ i + 1 \in 1 .. Len(lines) /\ i \in 1 .. Len(Tail(lines))
        /\ Passed + (i + 1) > 1
        /\ Passed + (i + 1) - 1 = (Passed + 1) + i - 1
    BY <1>1, <1>2, <1>5
  <2>2. lines[i + 1] = Line(head[Passed + (i + 1) - 1])
    BY <2>1 DEF LinesInv
  <2> QED
    BY <1>2, <2>1, <2>2
<1>7. Passed + 1 \in 0 .. Len(head) + 1 /\ Passed + 1 # 0
  BY <1>1, <1>5
<1>8. /\ Passed' \in 0 .. Len(head') + 1 /\ Passed' # 0
      /\ \A i \in 1 .. Len(lines') : lines'[i] = Line(head'[Passed' + i - 1])
  BY <1>2, <1>4, <1>6, <1>7
<1> QED
  BY <1>4, <1>8 DEF LinesInv

(* The line that is passed on next is the status line or that of a header  *)
(* of the answer.                                                          *)
LEMMA NextLine ==
  ASSUME LinesInv, head \in Seq(Headers),
         lines \in Seq({StatusLine} \cup HeaderLines), lines # <<>>,
         lines[1] \in HeaderLines
  PROVE  \E j \in 1 .. Len(head) : lines[1] = Line(head[j])
<1>1. Len(head) \in Nat /\ Len(lines) \in Nat /\ Len(lines) >= 1
  BY LenProperties, EmptySeq
<1>2. Passed # 0
  <2>1. \A h \in Headers : Line(h) # StatusLine
    BY LineProperties, StatusLineHasNoColon
  <2> QED
    BY <2>1 DEF LinesInv, HeaderLines
<1>3. Passed \in 1 .. Len(head)
  BY <1>1, <1>2 DEF LinesInv, Passed
<1>4. 1 \in 1 .. Len(lines) /\ Passed + 1 > 1 /\ Passed + 1 - 1 = Passed
  BY <1>1, <1>3
<1>5. lines[1] = Line(head[Passed])
  BY <1>4 DEF LinesInv
<1> QED
  BY <1>3, <1>5

(* A header that is passed on is kept, unless memory runs out.             *)
LEMMA ReceivePreserves ==
  ASSUME HeaderTextInv, Receive
  PROVE  HeaderTextInv'
<1> DEFINE line == Head(lines)
<1>1. /\ pc = "receive" /\ lines # <<>> /\ lines' = Tail(lines)
      /\ head' = head /\ warning' = warning
      /\ \/ kept' = Keep(kept, line) /\ pc' = pc /\ lost' = lost
         \/ /\ lost' = TRUE
            /\ \/ kept' = <<>> /\ pc' = pc
               \/ pc' = "received" /\ kept' = kept
  BY DEF Receive
<1>2. /\ head \in Seq(Headers) /\ kept \in Seq(HeaderLines)
      /\ lines \in Seq({StatusLine} \cup HeaderLines)
      /\ LinesInv /\ KeptInv
  BY <1>1 DEF HeaderTextInv
<1>3. /\ line \in {StatusLine} \cup HeaderLines
      /\ Tail(lines) \in Seq({StatusLine} \cup HeaderLines)
      /\ line = lines[1]
  BY <1>1, <1>2, HeadTailProperties
<1>4. kept' \in Seq(HeaderLines)
  <2>1. Keep(kept, line) \in Seq(HeaderLines)
    BY <1>2, <1>3, KeepProperties
  <2>2. <<>> \in Seq(HeaderLines)
    BY EmptySeq
  <2> QED
    BY <1>1, <1>2, <2>1, <2>2
<1>5. LinesInv' /\ Passed' = Passed + 1
  BY <1>1, <1>2, LinesPreserved
<1>6. KeptInv'
  <2>1. CASE lost'
    BY <2>1 DEF KeptInv
  <2>2. CASE ~lost'
    <3>1. /\ kept' = Keep(kept, line) /\ pc' = "receive" /\ ~lost
          /\ Holds(IF Passed = 0 THEN 0 ELSE Passed - 1)
      BY <1>1, <1>2, <2>2 DEF KeptInv
    <3>2. Passed \in 0 .. Len(head) /\ Len(head) \in Nat /\ Len(lines) >= 1
      <4>1. Len(head) \in Nat /\ Len(lines) \in Nat /\ Len(lines) >= 1
        BY <1>1, <1>2, LenProperties, EmptySeq
      <4> QED
        BY <1>2, <4>1 DEF LinesInv, Passed
    <3>3. /\ Len(kept') = Passed
          /\ \A i \in 1 .. Passed : kept'[i] = Line(head[i])
      <4>1. CASE Passed = 0
        <5>1. line = StatusLine
          BY <1>1, <1>2, <1>3, <4>1 DEF LinesInv
        <5>2. kept' = kept
          BY <1>2, <1>3, <3>1, <5>1, KeepProperties
        <5> QED
          BY <3>1, <4>1, <5>2 DEF Holds
      <4>2. CASE Passed # 0
        <5>1. /\ 1 \in 1 .. Len(lines)
              /\ Passed + 1 > 1 /\ Passed + 1 - 1 = Passed
          BY <1>2, <3>2, <4>2, LenProperties
        <5>2. line = Line(head[Passed])
          BY <1>2, <1>3, <5>1 DEF LinesInv
        <5>3. line \in HeaderLines
          <6>1. head[Passed] \in Headers
            BY <1>2, <3>2, <4>2, ElementOfSeq
          <6> QED
            BY <5>2, <6>1 DEF HeaderLines
        <5>4. kept' = Append(kept, line)
          BY <1>2, <3>1, <5>3, KeepProperties
        <5>5. /\ Len(kept) = Passed - 1
              /\ \A i \in 1 .. Passed - 1 : kept[i] = Line(head[i])
          BY <3>1, <4>2 DEF Holds
        <5>6. /\ Len(kept') = Len(kept) + 1
              /\ \A i \in 1 .. Len(kept) : kept'[i] = kept[i]
              /\ kept'[Len(kept) + 1] = line
          BY <1>2, <5>3, <5>4, AppendProperties
        <5>7. /\ Len(kept) + 1 = Passed
              /\ \A i \in 1 .. Passed : i \in 1 .. Passed - 1 \/ i = Passed
          BY <3>2, <4>2, <5>5
        <5> QED
          BY <5>2, <5>5, <5>6, <5>7
      <4> QED
        BY <4>1, <4>2
    <3>4. Passed' # 0 /\ Passed' - 1 = Passed
      BY <1>5, <3>2
    <3> QED
      BY <1>1, <3>1, <3>3, <3>4 DEF KeptInv, Holds
  <2> QED
    BY <2>1, <2>2
<1>7. KeptLines'
  <2>1. KeptLines
    BY DEF HeaderTextInv
  <2>2. CASE kept' = kept
    BY <1>1, <2>1, <2>2 DEF KeptLines
  <2>3. CASE kept' = <<>>
    <3>1. Len(kept') = 0
      BY <2>3
    <3> QED
      BY <3>1 DEF KeptLines
  <2>4. CASE kept' = Append(kept, line) /\ line \in HeaderLines
    <3>1. PICK j \in 1 .. Len(head) : line = Line(head[j])
      BY <1>2, <1>3, <2>4, NextLine
    <3>2. /\ Len(kept') = Len(kept) + 1 /\ Len(kept) \in Nat
          /\ \A i \in 1 .. Len(kept) : kept'[i] = kept[i]
          /\ kept'[Len(kept) + 1] = line
      BY <1>2, <2>4, AppendProperties, LenProperties
    <3>3. \A i \in 1 .. Len(kept') : i \in 1 .. Len(kept) \/ i = Len(kept) + 1
      BY <3>2
    <3>4. \A i \in 1 .. Len(kept') :
            \E k \in 1 .. Len(head) : kept'[i] = Line(head[k])
      BY <2>1, <3>1, <3>2, <3>3 DEF KeptLines
    <3> QED
      BY <1>1, <3>4 DEF KeptLines
  <2> QED
    BY <1>1, <1>2, <1>3, <2>2, <2>3, <2>4, KeepProperties
<1>8. OverrunOnlyIfWrapped' /\ WarnedRightly'
  BY <1>1 DEF OverrunOnlyIfWrapped, WarnedRightly
<1> QED
  BY <1>1, <1>2, <1>3, <1>4, <1>5, <1>6, <1>7, <1>8 DEF HeaderTextInv

(* The content type of an answer stays what it is.                         *)
LEMMA CandidateUnchanged ==
  ASSUME head' = head
  PROVE  Candidate' = Candidate
<1> DEFINE J == {i \in 1 .. Len(head) : Announces(head[i].name)}
<1>1. Candidate = IF J # {} THEN Min(J) ELSE 0
  BY DEF Candidate, SelectInSeq
<1>2. Candidate' = IF J' # {} THEN Min(J') ELSE 0
  BY DEF Candidate, SelectInSeq
<1>3. J' = J
  BY DEF Announces
<1> HIDE DEF J
<1> QED
  BY <1>1, <1>2, <1>3

(* All lines have been passed on.                                          *)
LEMMA ReceivedPreserves ==
  ASSUME HeaderTextInv, Received
  PROVE  HeaderTextInv'
<1>1. /\ pc = "receive" /\ lines = <<>> /\ pc' = "received" /\ head' = head
      /\ lines' = lines /\ kept' = kept /\ lost' = lost /\ warning' = warning
  BY DEF Received
<1>2. /\ head \in Seq(Headers) /\ kept \in Seq(HeaderLines)
      /\ lines \in Seq({StatusLine} \cup HeaderLines)
      /\ LinesInv /\ KeptInv
  BY <1>1 DEF HeaderTextInv
<1>3. Len(head) \in Nat /\ Len(lines) = 0
  BY <1>1, <1>2, LenProperties
<1>4. (IF Passed = 0 THEN 0 ELSE Passed - 1) = Len(head)
  BY <1>3 DEF Passed
<1>5. KeptInv'
  <2>1. CASE lost
    BY <1>1, <2>1 DEF KeptInv
  <2>2. CASE ~lost
    <3>1. Holds(Len(head))
      BY <1>1, <1>2, <1>4, <2>2 DEF KeptInv
    <3> QED
      BY <1>1, <3>1 DEF KeptInv, Holds
  <2> QED
    BY <2>1, <2>2
<1>6. KeptLines' /\ OverrunOnlyIfWrapped' /\ WarnedRightly'
  BY <1>1 DEF HeaderTextInv, KeptLines, OverrunOnlyIfWrapped, WarnedRightly
<1> QED
  BY <1>1, <1>2, <1>5, <1>6 DEF HeaderTextInv

(* The verdict is the right one, and is reached without a crash unless the *)
(* length wraps.                                                           *)
LEMMA ValidatePreserves ==
  ASSUME HeaderTextInv, validate_content_type
  PROVE  HeaderTextInv'
<1>1. PICK type :
        /\ type = get_content_type(kept) \/ type = Null
        /\ lost' = (lost \/ type # get_content_type(kept))
        /\ IF type = Overrun
           THEN pc' = "crashed" /\ warning' = warning
           ELSE pc' = "done" /\ warning' = Verdict(type)
  BY DEF validate_content_type
<1>2. /\ pc = "received" /\ head' = head /\ lines' = lines /\ kept' = kept
  BY DEF validate_content_type
<1>3. /\ head \in Seq(Headers) /\ kept \in Seq(HeaderLines)
      /\ lines \in Seq({StatusLine} \cup HeaderLines) /\ KeptInv
      /\ KeptLines
  BY DEF HeaderTextInv
<1>4. OverrunOnlyIfWrapped'
  <2>1. CASE type = Overrun
    <3>1. get_content_type(kept) = Overrun
      <4>1. Null # Overrun
        BY DEF Null, Overrun
      <4> QED
        BY <1>1, <2>1, <4>1
    <3>2. \E i \in DOMAIN head : LengthWraps(head[i])
      BY <1>3, <3>1, OverrunOfAnswer
    <3> QED
      BY <1>2, <3>2 DEF OverrunOnlyIfWrapped
  <2>2. CASE type # Overrun
    BY <1>1, <2>2 DEF OverrunOnlyIfWrapped
  <2> QED
    BY <2>1, <2>2
<1>5. pc' \in {"crashed", "done"} /\ (pc' = "done" => warning' = Verdict(type))
  BY <1>1
<1>6. WarnedRightly'
  <2>1. Candidate' = Candidate
    BY <1>2, CandidateUnchanged
  <2>2. ASSUME pc' = "done", ~lost',
               Candidate # 0 =>
                 Len(head[Candidate].name) = 1 /\ head[Candidate].crlf
        PROVE  warning' = IF Candidate = 0 THEN "missing"
                          ELSE IF IsJson(head[Candidate]) THEN "none"
                          ELSE "unexpected"
    <3>1. ~lost /\ type = get_content_type(kept)
      BY <1>1, <2>2
    <3>2. Holds(Len(head))
      BY <1>2, <1>3, <3>1 DEF KeptInv
    <3> QED
      BY <1>3, <1>5, <2>2, <3>1, <3>2, VerdictOnAnswer
  <2> QED
    BY <1>2, <2>1, <2>2 DEF WarnedRightly
<1>7. KeptLines' /\ KeptInv'
  BY <1>2, <1>3, <1>5 DEF KeptLines, KeptInv
<1> QED
  BY <1>2, <1>3, <1>4, <1>5, <1>6, <1>7 DEF HeaderTextInv

(* The signature of a request has nothing to do with an answer.            *)
LEMMA AuthHeaderPreserves ==
  ASSUME HeaderTextInv, authHeader
  PROVE  HeaderTextInv'
<1>1. /\ pc = "sign" /\ head' = head /\ lines' = lines /\ kept' = kept
      /\ pc' = "signed" \/ (pc' = "done" /\ lost' = TRUE)
  BY DEF authHeader
<1>2. KeptLines' /\ OverrunOnlyIfWrapped' /\ KeptInv' /\ WarnedRightly'
  BY <1>1
  DEF HeaderTextInv, KeptLines, OverrunOnlyIfWrapped, KeptInv, WarnedRightly
<1> QED
  BY <1>1, <1>2 DEF HeaderTextInv

(* Every step preserves the invariant.                                     *)
LEMMA NextPreserves == HeaderTextInv /\ [Next]_vars => HeaderTextInv'
<1> SUFFICES ASSUME HeaderTextInv, [Next]_vars
             PROVE  HeaderTextInv'
  OBVIOUS
<1>1. CASE Receive
  BY <1>1, ReceivePreserves
<1>2. CASE Received
  BY <1>2, ReceivedPreserves
<1>3. CASE validate_content_type
  BY <1>3, ValidatePreserves
<1>4. CASE authHeader
  BY <1>4, AuthHeaderPreserves
<1>5. CASE UNCHANGED vars
  <2>1. /\ pc' = pc /\ head' = head /\ lines' = lines /\ kept' = kept
        /\ lost' = lost /\ warning' = warning
    BY <1>5 DEF vars
  <2>2. Passed' = Passed /\ Candidate' = Candidate
    BY <2>1, CandidateUnchanged DEF Passed
  <2>3. LinesInv' <=> LinesInv
    BY <2>1, <2>2 DEF LinesInv
  <2>4. KeptInv' <=> KeptInv
    BY <2>1, <2>2 DEF KeptInv, Holds
  <2>5. WarnedRightly' <=> WarnedRightly
    BY <2>1, <2>2 DEF WarnedRightly
  <2>6. /\ KeptLines' <=> KeptLines
        /\ OverrunOnlyIfWrapped' <=> OverrunOnlyIfWrapped
    BY <2>1 DEF KeptLines, OverrunOnlyIfWrapped
  <2> QED
    BY <2>1, <2>3, <2>4, <2>5, <2>6 DEF HeaderTextInv
<1> QED
  BY <1>1, <1>2, <1>3, <1>4, <1>5 DEF Next

-----------------------------------------------------------------------------
(* The buffers and the types.                                              *)

(* The buffers are empty until authHeader() fills them.                    *)
SignatureInv ==
  /\ lost \in BOOLEAN /\ warning \in {"none", "missing", "unexpected"}
  /\ content \in Bodies \cup {<<>>}
  /\ names.size \in Nat /\ signed.size \in Nat
  /\ BuffersFilled

(* It holds at first.                                                      *)
LEMMA SignatureInit == Init => SignatureInv
<1> SUFFICES ASSUME Init
             PROVE  SignatureInv
  OBVIOUS
<1>1. content \in Bodies \cup {<<>>}
  BY DEF Init
<1>2. names.size = 0 /\ signed.size = 0
  BY DEF Init, Buffer
<1>3. /\ lost = FALSE /\ warning = "none" /\ pc # "signed"
  BY DEF Init
<1>4. BuffersFilled
  BY <1>3 DEF BuffersFilled
<1>5. names.size \in Nat /\ signed.size \in Nat
  BY <1>2
<1> QED
  BY <1>1, <1>3, <1>4, <1>5 DEF SignatureInv

(* Both buffers are measured right, for any list and any body.             *)
LEMMA AuthHeaderFills ==
  ASSUME HeaderTextInv, SignatureInv, authHeader
  PROVE  SignatureInv'
<1>1. /\ warning' = warning /\ content' = content
  BY DEF authHeader
<1>2. CASE pc' = "done" /\ lost' = TRUE /\ names' = names /\ signed' = signed
  BY <1>1, <1>2 DEF SignatureInv, BuffersFilled
<1>3. CASE /\ names' = joinHeaderNames(DataList(head))
           /\ signed' = DataToSign(DataList(head), content)
           /\ lost' = lost
  <2>1. head \in Seq(Headers)
    BY DEF HeaderTextInv
  <2>2. content \in Seq(Characters)
    <3>1. CASE content = <<>>
      BY <3>1, EmptySeq
    <3>2. CASE content \in Bodies
      <4>1. content \in Seq(STRING \ {"NUL"})
        BY <3>2, TextAssumption
      <4>2. STRING \ {"NUL"} \subseteq Characters
        BY DEF Characters
      <4> QED
        BY <4>1, <4>2, SeqMonotonic
    <3> QED
      BY <3>1, <3>2 DEF SignatureInv
  <2>3. Measured(names') /\ Measured(signed')
    BY <1>3, <2>1, <2>2, NamesFilled, TextFilled
  <2>4. BuffersFilled' /\ names'.size \in Nat /\ signed'.size \in Nat
    BY <2>3 DEF BuffersFilled, Measured
  <2> QED
    BY <1>1, <1>3, <2>4 DEF SignatureInv
<1>4. DataList(head) = [i \in DOMAIN head |-> Data(head[i])]
  BY DEF DataList
<1> QED
  BY <1>2, <1>3, <1>4 DEF authHeader

(* No other step touches the buffers.                                      *)
LEMMA SignatureNext ==
  HeaderTextInv /\ SignatureInv /\ [Next]_vars => SignatureInv'
<1> SUFFICES ASSUME HeaderTextInv, SignatureInv, [Next]_vars
             PROVE  SignatureInv'
  OBVIOUS
<1>1. CASE Receive \/ Received
  <2>1. /\ warning' = warning /\ content' = content /\ names' = names
        /\ signed' = signed /\ pc' \in {"receive", "received"}
        /\ lost' \in {lost, TRUE}
    BY <1>1 DEF Receive, Received
  <2> QED
    BY <2>1 DEF SignatureInv, BuffersFilled
<1>2. CASE validate_content_type
  <2>1. /\ content' = content /\ names' = names /\ signed' = signed
        /\ pc' \in {"crashed", "done"} /\ lost' \in BOOLEAN
        /\ warning' = warning \/ \E type : warning' = Verdict(type)
    BY <1>2 DEF validate_content_type, SignatureInv
  <2>2. \A type : Verdict(type) \in {"none", "missing", "unexpected"}
    BY DEF Verdict
  <2> QED
    BY <2>1, <2>2 DEF SignatureInv, BuffersFilled
<1>3. CASE authHeader
  BY <1>3, AuthHeaderFills
<1>4. CASE UNCHANGED vars
  BY <1>4 DEF vars, SignatureInv, BuffersFilled
<1> QED
  BY <1>1, <1>2, <1>3, <1>4 DEF Next

-----------------------------------------------------------------------------
(* The text that is signed.                                                *)

(* What is signed can be rebuilt as long as no two headers of the request  *)
(* have the same name.                                                     *)
RebuiltInv ==
  /\ pc = "sign" => DistinctNames(head)
  /\ SignedIsRebuilt

(* It holds at first.                                                      *)
LEMMA RebuiltInit == Init => RebuiltInv
<1> SUFFICES ASSUME Init
             PROVE  RebuiltInv
  OBVIOUS
<1>1. /\ pc = "sign" => DistinctNames(head)
      /\ pc # "signed"
  BY DEF Init
<1> QED
  BY <1>1 DEF RebuiltInv, SignedIsRebuilt

(* Only authHeader() signs, and a request is signed once.                  *)
LEMMA RebuiltNext ==
  HeaderTextInv /\ RebuiltInv /\ [Next]_vars => RebuiltInv'
<1> SUFFICES ASSUME HeaderTextInv, RebuiltInv, [Next]_vars
             PROVE  RebuiltInv'
  OBVIOUS
<1>1. CASE Receive \/ Received \/ validate_content_type
  <2>1. pc' \in {"receive", "received", "crashed", "done"}
    BY <1>1 DEF Receive, Received, validate_content_type
  <2> QED
    BY <2>1 DEF RebuiltInv, SignedIsRebuilt
<1>2. CASE authHeader
  <2>1. CASE pc' = "done"
    BY <2>1 DEF RebuiltInv, SignedIsRebuilt
  <2>2. CASE pc' = "signed"
    <3>1. /\ pc = "sign" /\ head' = head /\ content' = content
          /\ names' = joinHeaderNames(DataList(head))
          /\ signed' = DataToSign(DataList(head), content)
      BY <1>2, <2>2 DEF authHeader, DataList
    <3>2. head \in Seq(Headers) /\ DistinctNames(head)
      BY <3>1 DEF HeaderTextInv, RebuiltInv
    <3>3. ASSUME head # <<>>
          PROVE  signed'.cells =
                   ServerText(head, names'.cells, content) \o <<"NUL">>
      <4>1. Len(head) # 0
        BY <3>2, <3>3, EmptySeq
      <4> QED
        BY <3>1, <3>2, <4>1, TextIsRebuilt
    <3> QED
      BY <2>2, <3>1, <3>3 DEF RebuiltInv, SignedIsRebuilt
  <2> QED
    BY <1>2, <2>1, <2>2 DEF authHeader
<1>3. CASE UNCHANGED vars
  BY <1>3 DEF vars, RebuiltInv, SignedIsRebuilt
<1> QED
  BY <1>1, <1>2, <1>3 DEF Next

-----------------------------------------------------------------------------
(* The theorems.                                                           *)

(* HeaderTextInv holds in every state.                                     *)
THEOREM HeaderTextCorrect == Spec => []HeaderTextInv
<1> QED
  BY InitEstablishes, NextPreserves, PTL DEF Spec

(* For an answer with any headers, whichever of them are lost: the length  *)
(* get_content_type() computes with "strlen(source) - 2" wraps around only *)
(* if the answer has a content type without a value whose line ends in a   *)
(* bare LF; after CR LF, or a longer name, it never does.                  *)
THEOREM OverrunOnlyIfWrappedHolds == Spec => []OverrunOnlyIfWrapped
<1>1. HeaderTextInv => OverrunOnlyIfWrapped
  BY DEF HeaderTextInv
<1> QED
  BY <1>1, HeaderTextCorrect, PTL

(* For an answer with any headers in any case and with any blanks: a       *)
(* warning is given exactly when its content type is missing or not JSON,  *)
(* with the exceptions of WarnedRightly.                                   *)
THEOREM WarnedRightlyHolds == Spec => []WarnedRightly
<1>1. HeaderTextInv => WarnedRightly
  BY DEF HeaderTextInv
<1> QED
  BY <1>1, HeaderTextCorrect, PTL

(* SignatureInv holds in every state.                                      *)
THEOREM SignatureCorrect == Spec => []SignatureInv
<1> QED
  BY SignatureInit, SignatureNext, HeaderTextCorrect, PTL DEF Spec

(* For any list of headers and any body: the sizes authHeader() and        *)
(* joinHeaderNames() compute are those of what they write, terminator      *)
(* included, so that memcpy() and strcat() stay within the buffers.        *)
THEOREM BuffersFilledHolds == Spec => []BuffersFilled
<1>1. SignatureInv => BuffersFilled
  BY DEF SignatureInv
<1> QED
  BY <1>1, SignatureCorrect, PTL

(* Every variable has its type: of the lines of a head the headers are     *)
(* kept, and nothing else.                                                 *)
THEOREM HeaderTextTypeCorrect == Spec => []TypeOK
<1>1. HeaderTextInv /\ SignatureInv => TypeOK
  BY DEF HeaderTextInv, SignatureInv, TypeOK, HeaderLines
<1> QED
  BY <1>1, HeaderTextCorrect, SignatureCorrect, PTL

(* RebuiltInv holds in every state.                                        *)
THEOREM RebuiltCorrect == Spec => []RebuiltInv
<1> QED
  BY RebuiltInit, RebuiltNext, HeaderTextCorrect, PTL DEF Spec

(* For any list of headers with distinct names and any body: the server    *)
(* that is told the names and has the headers rebuilds the text that was   *)
(* signed.                                                                 *)
THEOREM SignedIsRebuiltHolds == Spec => []SignedIsRebuilt
<1>1. RebuiltInv => SignedIsRebuilt
  BY DEF RebuiltInv
<1> QED
  BY <1>1, RebuiltCorrect, PTL

=============================================================================
