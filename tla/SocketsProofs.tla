--------------------------- MODULE SocketsProofs ---------------------------
(***************************************************************************)
(* The theorems about the socket, for every number of connections and of   *)
(* messages and every way of cutting what is written into chunks.  The     *)
(* inductive invariant follows the bytes: what the server has not handled  *)
(* of a connection is always the last of the messages written on it, each  *)
(* followed by its newline.                                                *)
(***************************************************************************)
EXTENDS Sockets, PaymentProofs

Reply == [text: Seq(Symbols), outcome: Outcomes]

(* The text is the messages after the first h, a line each.                *)
Framed(text, messages, h) ==
    /\ h \in 0..Len(messages)
    /\ Len(text) = 2 * (Len(messages) - h)
    /\ \A k \in 1..(Len(messages) - h) :
          text[2 * k - 1] = messages[h + k] /\ text[2 * k] = NL

(* The requests of a connection are lines that were handled, the first h.  *)
FromHandled(c, h) ==
    \A r \in Requests :
        origin[r] # None /\ origin[r].conn = c =>
            \E k \in 1..h : origin[r].text = <<written[c][k]>>

InOrder(c) ==
    \E h \in 0..Len(written[c]) :
        /\ Framed(buffer[c] \o stream[c], written[c], h)
        /\ FromHandled(c, h)

LinesInOrder == \A c \in Conns : InOrder(c)

WrittenOnce ==
    \A c \in Conns :
        \A i, j \in DOMAIN written[c] : written[c][i] = written[c][j] => i = j

NothingBeforeConnecting == \A c \in Conns : conn[c] = "none" => written[c] = <<>>

OneRequestPerLine ==
    \A q, r \in Requests : origin[q] # None /\ origin[q] = origin[r] => q = r

ReplyTo(r) == [text |-> origin[r].text, outcome |-> job[r].outcome]

AnsweredHaveReplies ==
    \A r \in Requests :
        /\ job[r].pc = "answered"
        /\ conn[origin[r].conn] = "open"
        => ReplyTo(r) \in ToSet(replies[origin[r].conn])

AnsweredOn(c) ==
    {r \in Requests : origin[r] # None /\ origin[r].conn = c /\ job[r].pc = "answered"}

NoReplyTooMany == \A c \in Conns : Len(replies[c]) <= Cardinality(AnsweredOn(c))

SocketsParts ==
    /\ SocketsTypeOK
    /\ LinesInOrder
    /\ WrittenOnce
    /\ NothingBeforeConnecting
    /\ OneRequestPerLine
    /\ AnsweredHaveReplies
    /\ NoReplyTooMany

SocketsInv == DaemonInv /\ SocketsParts

-----------------------------------------------------------------------------
(* Lines.                                                                  *)

LEMMA PairProperties ==
  ASSUME NEW S, NEW a \in S, NEW b \in S
  PROVE  <<a, b>> \in Seq(S) /\ Len(<<a, b>>) = 2 /\ <<a, b>>[1] = a /\ <<a, b>>[2] = b
  OBVIOUS

LEMMA ThreePieces ==
  ASSUME NEW read \in Seq(Symbols), NEW chunk \in Seq(Symbols), NEW rest \in Seq(Symbols)
  PROVE  (read \o chunk) \o rest = read \o (chunk \o rest)
<1> DEFINE S == Symbols
<1>1. read \in Seq(S) /\ chunk \in Seq(S) /\ rest \in Seq(S)
  OBVIOUS
<1> HIDE DEF S
<1> QED BY <1>1, ConcatAssociative

(* A message that is written is one line more at the end.                  *)
LEMMA FramedWithAnother ==
  ASSUME NEW text \in Seq(Symbols), NEW messages \in Seq(Messages), NEW h,
         Framed(text, messages, h), NEW message \in Messages
  PROVE  Framed(text \o <<message, NL>>, Append(messages, message), h)
<1> DEFINE n == Len(messages)
           longer == Append(messages, message)
           all == text \o <<message, NL>>
<1>1. n \in Nat /\ h \in 0..n /\ Len(text) = 2 * (n - h) /\ Len(text) \in Nat
  BY LenProperties DEF Framed
<1>2. <<message, NL>> \in Seq(Symbols) /\ Len(<<message, NL>>) = 2
      /\ <<message, NL>>[1] = message /\ <<message, NL>>[2] = NL
  BY PairProperties DEF Symbols
<1>3. Len(all) = Len(text) + 2
      /\ \A i \in 1..(Len(text) + 2) :
            all[i] = IF i <= Len(text) THEN text[i] ELSE <<message, NL>>[i - Len(text)]
  BY <1>2, ConcatProperties
<1>4. /\ Len(longer) = n + 1
      /\ \A i \in 1..n : longer[i] = messages[i]
      /\ longer[n + 1] = message
  BY AppendProperties
<1>5. ASSUME NEW k \in 1..(n + 1 - h)
      PROVE  all[2 * k - 1] = longer[h + k] /\ all[2 * k] = NL
  <2>1. CASE k = n + 1 - h
    <3>1. 2 * k - 1 = Len(text) + 1 /\ 2 * k = Len(text) + 2 /\ h + k = n + 1
      BY <1>1, <2>1
    <3> DEFINE m == Len(text)
    <3>2. /\ m + 1 \in 1..(m + 2) /\ ~ m + 1 <= m /\ m + 1 - m = 1
          /\ m + 2 \in 1..(m + 2) /\ ~ m + 2 <= m /\ m + 2 - m = 2
      BY <1>1
    <3>3. all[m + 1] = <<message, NL>>[m + 1 - m] /\ all[m + 2] = <<message, NL>>[m + 2 - m]
      BY <1>3, <3>2
    <3> QED BY <1>2, <1>4, <3>1, <3>2, <3>3
  <2>2. CASE k # n + 1 - h
    <3>1. k \in 1..(n - h) /\ h + k \in 1..n
          /\ 2 * k - 1 \in 1..Len(text) /\ 2 * k \in 1..Len(text)
      BY <1>1, <2>2
    <3>2. text[2 * k - 1] = messages[h + k] /\ text[2 * k] = NL
      BY <3>1 DEF Framed
    <3>3. all[2 * k - 1] = text[2 * k - 1] /\ all[2 * k] = text[2 * k]
      BY <1>1, <1>3, <3>1
    <3> QED BY <1>4, <3>1, <3>2, <3>3
  <2> QED BY <2>1, <2>2
<1>6. h \in 0..(n + 1) /\ Len(all) = 2 * (n + 1 - h)
  BY <1>1, <1>3
<1> HIDE DEF longer, all
<1>7. Framed(all, longer, h)
  BY <1>1, <1>4, <1>5, <1>6 DEF Framed
<1> QED BY <1>7 DEF all, longer

(* The first newline of a text of lines ends the first of its messages.    *)
LEMMA FirstNewline ==
  ASSUME SocketsAssumption, NEW read \in Seq(Symbols), NEW rest \in Seq(Symbols),
         NEW messages \in Seq(Messages), NEW h,
         Framed(read \o rest, messages, h), HasLine(read)
  PROVE  /\ h + 1 \in 1..Len(messages)
         /\ Len(read) >= 2
         /\ read[1] = messages[h + 1] /\ read[2] = NL
         /\ LineEnd(read) = 2
<1> DEFINE n == Len(messages)
           all == read \o rest
<1>1. n \in Nat /\ h \in 0..n /\ Len(all) = 2 * (n - h)
  BY LenProperties DEF Framed
<1>2. /\ Len(read) \in Nat /\ Len(rest) \in Nat /\ Len(all) = Len(read) + Len(rest)
      /\ \A i \in 1..Len(read) : all[i] = read[i]
  BY ConcatProperties, LenProperties
<1>3. PICK i \in 1..Len(read) : read[i] = NL
  BY DEF HasLine, Contains
<1>4. 1 \in 1..(n - h)
  BY <1>1, <1>2, <1>3
<1>5. all[1] = messages[h + 1] /\ all[2] = NL
  <2>1. \A k \in 1..(n - h) : all[2 * k - 1] = messages[h + k] /\ all[2 * k] = NL
    BY DEF Framed
  <2>2. all[2 * 1 - 1] = messages[h + 1] /\ all[2 * 1] = NL
    BY <1>4, <2>1
  <2>3. 2 * 1 - 1 = 1 /\ 2 * 1 = 2
    OBVIOUS
  <2> HIDE DEF all
  <2> QED BY <2>2, <2>3
<1>6. h + 1 \in 1..n /\ messages[h + 1] \in Messages
  BY <1>1, <1>4, ElementOfSeq
<1>7. read[1] = messages[h + 1] /\ read[1] # NL
  <2>1. 1 \in 1..Len(read)
    BY <1>2, <1>3
  <2> QED BY <1>2, <1>5, <1>6, <2>1 DEF SocketsAssumption
<1>8. Len(read) >= 2
  BY <1>2, <1>3, <1>7
<1>9. read[2] = NL
  <2>1. 2 \in 1..Len(read)
    BY <1>2, <1>8
  <2> QED BY <1>2, <1>5, <2>1
<1>10. LineEnd(read) = 2
  <2> DEFINE I == {j \in 1..Len(read) : read[j] = NL}
  <2>1. 2 \in I /\ 1 \notin I /\ I \subseteq 1..Len(read)
    BY <1>2, <1>7, <1>8, <1>9
  <2>2. \A j \in I : 2 <= j
    BY <1>2, <2>1
  <2>3. Min(I) \in I /\ \A j \in I : Min(I) <= j
    BY <2>1, <2>2 DEF Min
  <2>4. Min(I) = 2
    BY <1>2, <2>1, <2>2, <2>3
  <2> QED BY <2>1, <2>4 DEF LineEnd, SelectInSeq
<1> QED BY <1>6, <1>7, <1>8, <1>9, <1>10

(* What is cut off is the first line, and what is left are the others.     *)
LEMMA CutFirstLine ==
  ASSUME SocketsAssumption, NEW read \in Seq(Symbols), NEW rest \in Seq(Symbols),
         NEW messages \in Seq(Messages), NEW h,
         Framed(read \o rest, messages, h), HasLine(read)
  PROVE  /\ h + 1 \in 1..Len(messages)
         /\ FirstLine(read) = <<messages[h + 1]>>
         /\ AfterFirstLine(read) \in Seq(Symbols)
         /\ Framed(AfterFirstLine(read) \o rest, messages, h + 1)
<1> DEFINE n == Len(messages)
           m == Len(read)
           all == read \o rest
           cut == SubSeq(read, 3, m)
           left == cut \o rest
<1>1. /\ h + 1 \in 1..n /\ m >= 2
      /\ read[1] = messages[h + 1]
      /\ LineEnd(read) = 2
  BY FirstNewline
<1>2. /\ n \in Nat /\ h \in 0..n /\ Len(all) = 2 * (n - h)
      /\ \A k \in 1..(n - h) : all[2 * k - 1] = messages[h + k] /\ all[2 * k] = NL
  BY LenProperties DEF Framed
<1>3. /\ m \in Nat /\ Len(rest) \in Nat /\ Len(all) = m + Len(rest)
      /\ \A i \in 1..(m + Len(rest)) : all[i] = IF i <= m THEN read[i] ELSE rest[i - m]
      /\ \A i \in 1..m : read[i] \in Symbols
  BY ConcatProperties, LenProperties, ElementOfSeq
<1>4. FirstLine(read) = <<messages[h + 1]>>
  <2>1. 2 - 1 = 1
    OBVIOUS
  <2>2. FirstLine(read) = SubSeq(read, 1, 1)
    BY <1>1, <2>1 DEF FirstLine
  <2>3. 1 \in 1..m
    BY <1>1, <1>3
  <2>4. /\ SubSeq(read, 1, 1) \in Seq(Symbols)
        /\ Len(SubSeq(read, 1, 1)) = 1
        /\ SubSeq(read, 1, 1)[1] = read[1]
    <3>1. \A i \in 1..1 : read[i] \in Symbols
      BY <1>3, <2>3
    <3>2. /\ SubSeq(read, 1, 1) \in Seq(Symbols)
          /\ Len(SubSeq(read, 1, 1)) = IF 1 <= 1 THEN 1 - 1 + 1 ELSE 0
          /\ \A i \in 1..(1 - 1 + 1) : SubSeq(read, 1, 1)[i] = read[1 + i - 1]
      BY <3>1, SubSeqProperties
    <3>3. 1 \in 1..(1 - 1 + 1) /\ 1 + 1 - 1 = 1 /\ 1 - 1 + 1 = 1 /\ 1 <= 1
      OBVIOUS
    <3> QED BY <3>2, <3>3
  <2>5. <<read[1]>> \in Seq(Symbols) /\ Len(<<read[1]>>) = 1 /\ <<read[1]>>[1] = read[1]
    BY <1>3, <2>3
  <2>6. SubSeq(read, 1, 1) = <<read[1]>>
    <3> DEFINE s == SubSeq(read, 1, 1)
               t == <<read[1]>>
    <3>1. s \in Seq(Symbols) /\ t \in Seq(Symbols) /\ Len(s) = Len(t)
          /\ \A i \in 1..Len(s) : s[i] = t[i]
      BY <2>4, <2>5
    <3> HIDE DEF s, t
    <3>2. s = t
      BY <3>1, SeqEqual
    <3> QED BY <3>2 DEF s, t
  <2> QED BY <1>1, <2>2, <2>6
<1>5. AfterFirstLine(read) = cut
  <2>1. 2 + 1 = 3
    OBVIOUS
  <2> QED BY <1>1, <2>1 DEF AfterFirstLine
<1>6. /\ cut \in Seq(Symbols) /\ Len(cut) = m - 2
      /\ \A i \in 1..(m - 2) : cut[i] = read[i + 2]
  <2>1. \A i \in 3..m : read[i] \in Symbols
    BY <1>3
  <2>2. /\ cut \in Seq(Symbols)
        /\ Len(cut) = IF 3 <= m THEN m - 3 + 1 ELSE 0
        /\ \A i \in 1..(m - 3 + 1) : cut[i] = read[3 + i - 1]
    BY <1>3, <2>1, SubSeqProperties
  <2>3. Len(cut) = m - 2
    <3>1. m \in Nat /\ m >= 2
      BY <1>1, <1>3
    <3>2. Len(cut) = IF 3 <= m THEN m - 3 + 1 ELSE 0
      BY <2>2
    <3> HIDE DEF m, cut
    <3> QED BY <3>1, <3>2
  <2>4. ASSUME NEW i \in 1..(m - 2)
        PROVE  cut[i] = read[i + 2]
    <3>1. i \in 1..(m - 3 + 1) /\ 3 + i - 1 = i + 2
      BY <1>3
    <3> QED BY <2>2, <3>1
  <2> QED BY <2>2, <2>3, <2>4
<1> HIDE DEF cut
<1>7. /\ left \in Seq(Symbols) /\ Len(left) = m - 2 + Len(rest)
      /\ \A i \in 1..(m - 2 + Len(rest)) :
            left[i] = IF i <= m - 2 THEN cut[i] ELSE rest[i - (m - 2)]
  <2> HIDE DEF m
  <2>1. /\ left \in Seq(Symbols)
        /\ Len(left) = Len(cut) + Len(rest)
        /\ \A i \in 1..(Len(cut) + Len(rest)) :
              left[i] = IF i <= Len(cut) THEN cut[i] ELSE rest[i - Len(cut)]
    BY <1>6, ConcatProperties
  <2> QED BY <1>6, <2>1
<1> HIDE DEF all, left, n, m
<1>8. \A i \in 1..Len(left) : left[i] = all[i + 2]
  <2>1. ASSUME NEW i \in 1..Len(left)
        PROVE  left[i] = all[i + 2]
    <3>1. i \in 1..(m - 2 + Len(rest)) /\ i + 2 \in 1..(m + Len(rest))
      BY <1>1, <1>3, <1>7
    <3>2. CASE i <= m - 2
      <4>1. i \in 1..(m - 2) /\ i + 2 <= m
        BY <1>3, <3>1, <3>2
      <4> QED BY <1>3, <1>6, <1>7, <3>1, <3>2, <4>1
    <3>3. CASE ~ i <= m - 2
      <4>1. ~ i + 2 <= m /\ i + 2 - m = i - (m - 2)
        BY <1>3, <3>1, <3>3
      <4>2. left[i] = rest[i - (m - 2)]
        BY <1>7, <3>1, <3>3
      <4>3. all[i + 2] = rest[i + 2 - m]
        BY <1>3, <3>1, <4>1
      <4> QED BY <4>1, <4>2, <4>3
    <3> QED BY <3>2, <3>3
  <2> QED BY <2>1
<1>9. Len(left) = 2 * (n - (h + 1)) /\ h + 1 \in 0..n
  <2>1. Len(left) = 2 * (n - h) - 2
    <3>1. Len(left) = m - 2 + Len(rest)
      BY <1>7
    <3>2. m \in Nat /\ Len(rest) \in Nat /\ m + Len(rest) = 2 * (n - h)
      BY <1>2, <1>3
    <3>3. n \in Nat /\ h \in Nat
      BY <1>2
    <3>4. \A a, b, c \in Int : a + b = c => a - 2 + b = c - 2
      OBVIOUS
    <3>5. 2 * (n - h) \in Int
      BY <3>3
    <3> QED BY <3>1, <3>2, <3>4, <3>5
  <2>2. n \in Nat /\ h \in Nat /\ h + 1 \in 0..n
    BY <1>1, <1>2
  <2>3. 2 * (n - h) - 2 = 2 * (n - (h + 1))
    BY <2>2
  <2> QED BY <2>1, <2>2, <2>3
<1>10. ASSUME NEW k \in 1..(n - (h + 1))
       PROVE  left[2 * k - 1] = messages[h + 1 + k] /\ left[2 * k] = NL
  <2>1. /\ k + 1 \in 1..(n - h) /\ h + (k + 1) = h + 1 + k
        /\ 2 * (k + 1) - 1 = 2 * k - 1 + 2 /\ 2 * (k + 1) = 2 * k + 2
        /\ 2 * k - 1 \in 1..Len(left) /\ 2 * k \in 1..Len(left)
    <3>1. n \in Nat /\ h \in Nat /\ k \in Nat /\ k >= 1 /\ k <= n - (h + 1)
      BY <1>2
    <3> QED BY <1>9, <3>1
  <2>2. all[2 * (k + 1) - 1] = messages[h + (k + 1)] /\ all[2 * (k + 1)] = NL
    BY <1>2, <2>1
  <2>3. left[2 * k - 1] = all[2 * k - 1 + 2] /\ left[2 * k] = all[2 * k + 2]
    BY <1>8, <2>1
  <2> QED BY <2>1, <2>2, <2>3
<1>11. Framed(left, messages, h + 1)
  BY <1>9, <1>10 DEF Framed, n
<1> QED BY <1>1, <1>4, <1>5, <1>6, <1>11 DEF n, left

-----------------------------------------------------------------------------
(* Replies.                                                                *)

LEMMA OneReplyOrNone ==
  ASSUME NEW x
  PROVE  SetToSeq({}) = <<>> /\ SetToSeq({x}) = <<x>>
<1>1. SetToSeq({}) = <<>>
  <2>1. Cardinality({}) = 0 /\ 1..0 = {}
    BY FS_EmptySet
  <2>2. <<>> \in [1..0 -> {}] /\ IsInjective(<<>>)
    BY <2>1 DEF IsInjective
  <2>3. \A f \in [1..0 -> {}] : f = <<>>
    BY <2>1
  <2>4. SetToSeq({}) \in [1..0 -> {}]
    BY <2>1, <2>2 DEF SetToSeq
  <2> QED BY <2>3, <2>4
<1>2. SetToSeq({x}) = <<x>>
  <2>1. Cardinality({x}) = 1 /\ 1..1 = {1}
    BY FS_Singleton
  <2>2. <<x>> \in [1..1 -> {x}] /\ IsInjective(<<x>>)
    BY <2>1 DEF IsInjective
  <2>3. \A f \in [1..1 -> {x}] : f = <<x>>
    BY <2>1
  <2>4. SetToSeq({x}) \in [1..1 -> {x}]
    BY <2>1, <2>2 DEF SetToSeq
  <2> QED BY <2>3, <2>4
<1> QED BY <1>1, <1>2

-----------------------------------------------------------------------------
(* One connection.                                                         *)

LEMMA ConnectionTypes ==
  ASSUME SocketsTypeOK, NEW c \in Conns
  PROVE  /\ conn[c] \in InUse \cup {"none", "closed", "severed", "lost"}
         /\ written[c] \in Seq(Messages) /\ Len(written[c]) \in Nat
         /\ stream[c] \in Seq(Symbols) /\ buffer[c] \in Seq(Symbols)
         /\ buffer[c] \o stream[c] \in Seq(Symbols)
         /\ replies[c] \in Seq(Reply) /\ Len(replies[c]) \in Nat
<1>1. /\ conn[c] \in InUse \cup {"none", "closed", "severed", "lost"}
      /\ written[c] \in Seq(Messages)
      /\ stream[c] \in Seq(Symbols) /\ buffer[c] \in Seq(Symbols)
      /\ replies[c] \in Seq(Reply)
  BY DEF SocketsTypeOK, Reply
<1> QED BY <1>1, LenProperties, ConcatProperties

(* The bytes of a connection may move from the stream to the buffer.       *)
LEMMA SameBytes ==
  ASSUME NEW c \in Conns, InOrder(c),
         written'[c] = written[c],
         buffer'[c] \o stream'[c] = buffer[c] \o stream[c],
         \A r \in Requests : origin'[r] # None /\ origin'[r].conn = c => origin'[r] = origin[r]
  PROVE  InOrder(c)'
<1>1. PICK h \in 0..Len(written[c]) : /\ Framed(buffer[c] \o stream[c], written[c], h)
                                      /\ FromHandled(c, h)
  BY DEF InOrder
<1>2. Framed(buffer'[c] \o stream'[c], written'[c], h)
  BY <1>1
<1>3. FromHandled(c, h)'
  BY <1>1 DEF FromHandled
<1> QED BY <1>1, <1>2, <1>3 DEF InOrder, Framed

(* A connection whose bytes are dropped has no line left.                  *)
LEMMA DroppedBytes ==
  ASSUME NEW c \in Conns, InOrder(c), written[c] \in Seq(Messages),
         written' = written, origin' = origin,
         buffer'[c] = <<>>, stream'[c] = <<>>
  PROVE  InOrder(c)'
<1> DEFINE n == Len(written[c])
<1>1. PICK h \in 0..n : FromHandled(c, h)
  BY DEF InOrder
<1>2. n \in Nat /\ 1..h \subseteq 1..n
  BY LenProperties
<1>3. FromHandled(c, n)'
  BY <1>1, <1>2 DEF FromHandled
<1>4. buffer'[c] \o stream'[c] = <<>> /\ Len(<<>>) = 0
  BY EmptySeq, ConcatEmptySeq
<1>5. Framed(<<>>, written'[c], n)
  BY <1>2, <1>4 DEF Framed
<1>6. n \in 0..Len(written'[c])
  BY <1>2
<1> QED BY <1>3, <1>4, <1>5, <1>6 DEF InOrder

(* A request has come on a connection that was made.                       *)
LEMMA RequestsComeConnected ==
  ASSUME SocketsParts, NEW r \in Requests, origin[r] # None
  PROVE  /\ origin[r] \in Origins /\ origin[r].conn \in Conns
         /\ conn[origin[r].conn] # "none"
         /\ \E k \in DOMAIN written[origin[r].conn] :
               origin[r].text = <<written[origin[r].conn][k]>>
<1>1. origin[r] \in Origins /\ origin[r].conn \in Conns
  BY DEF SocketsParts, SocketsTypeOK, Origins
<1> DEFINE c == origin[r].conn
<1>2. PICK h \in 0..Len(written[c]) : FromHandled(c, h)
  BY <1>1 DEF SocketsParts, LinesInOrder, InOrder
<1>3. PICK k \in 1..h : origin[r].text = <<written[c][k]>>
  BY <1>2 DEF FromHandled
<1>4. Len(written[c]) \in Nat /\ DOMAIN written[c] = 1..Len(written[c])
  <2>1. written[c] \in Seq(Messages)
    BY <1>1, ConnectionTypes DEF SocketsParts
  <2> QED BY <2>1, LenProperties
<1>5. k \in 1..Len(written[c])
  BY <1>2, <1>4
<1>6. written[c] # <<>>
  BY <1>4, <1>5, EmptySeq
<1>7. conn[c] # "none"
  BY <1>1, <1>6 DEF SocketsParts, NothingBeforeConnecting
<1> QED BY <1>1, <1>3, <1>4, <1>5, <1>7

-----------------------------------------------------------------------------
(* Requests and replies.                                                   *)

(* No request begins or is answered.                                       *)
NothingAnswered ==
    /\ UNCHANGED <<origin, replies>>
    /\ \A r \in Requests :
          /\ job'[r].pc = "idle" <=> job[r].pc = "idle"
          /\ job'[r].pc = "answered" <=> job[r].pc = "answered"
          /\ job'[r].outcome = job[r].outcome
    /\ \A c \in Conns : conn'[c] = "open" => conn[c] \in {"none", "open"}

RequestParts ==
    /\ \A r \in Requests : job[r].pc = "idle" <=> origin[r] = None
    /\ OneRequestPerLine
    /\ AnsweredHaveReplies
    /\ NoReplyTooMany

LEMMA NothingAnsweredKeepsReplies ==
  ASSUME SocketsParts, NothingAnswered
  PROVE  RequestParts'
<1>1. /\ origin' = origin /\ replies' = replies
      /\ \A r \in Requests :
            /\ job'[r].pc = "idle" <=> job[r].pc = "idle"
            /\ job'[r].pc = "answered" <=> job[r].pc = "answered"
            /\ job'[r].outcome = job[r].outcome
      /\ \A c \in Conns : conn'[c] = "open" => conn[c] \in {"none", "open"}
  BY DEF NothingAnswered
<1>2. \A r \in Requests : job'[r].pc = "idle" <=> origin'[r] = None
  BY <1>1 DEF SocketsParts, SocketsTypeOK
<1>3. OneRequestPerLine'
  BY <1>1 DEF SocketsParts, OneRequestPerLine
<1>4. AnsweredHaveReplies'
  <2>1. ASSUME NEW r \in Requests, job'[r].pc = "answered", conn'[origin'[r].conn] = "open"
        PROVE  ReplyTo(r)' \in ToSet(replies'[origin'[r].conn])
    <3>1. job[r].pc = "answered" /\ origin[r] # None
      BY <1>1, <2>1 DEF SocketsParts, SocketsTypeOK
    <3>2. conn[origin[r].conn] = "open"
      BY <1>1, <2>1, <3>1, RequestsComeConnected
    <3>3. ReplyTo(r) \in ToSet(replies[origin[r].conn])
      BY <3>1, <3>2 DEF SocketsParts, AnsweredHaveReplies
    <3> QED BY <1>1, <3>3 DEF ReplyTo
  <2> QED BY <2>1 DEF AnsweredHaveReplies
<1>5. NoReplyTooMany'
  <2>1. \A c \in Conns : AnsweredOn(c)' = AnsweredOn(c)
    BY <1>1 DEF AnsweredOn
  <2> QED BY <1>1, <2>1 DEF SocketsParts, NoReplyTooMany
<1> QED BY <1>2, <1>3, <1>4, <1>5 DEF RequestParts

(* One request begins, goes on or is answered.                             *)
OneMoves(r) ==
    /\ \A q \in Requests \ {r} : job'[q] = job[q] /\ origin'[q] = origin[q]
    /\ job[r].pc # "answered" /\ job'[r].pc # "idle"
    /\ origin'[r] \in Origins
    /\ origin[r] # None => origin'[r] = origin[r]
    /\ UNCHANGED conn

AnsweredHere(r, c) ==
    job'[r].pc = "answered" /\ origin'[r].conn = c /\ conn[c] \in InUse

LEMMA RespondToOne ==
  ASSUME NEW r \in Requests, OneMoves(r), Respond, NEW c \in Conns
  PROVE  replies'[c] = replies[c] \o (IF AnsweredHere(r, c) THEN <<ReplyTo(r)'>> ELSE <<>>)
<1> DEFINE answers == {[text |-> origin'[q].text, outcome |-> job'[q].outcome] : q \in RepliesOn(c)}
<1>1. replies'[c] = replies[c] \o SetToSeq(answers)
  BY DEF Respond
<1>2. RepliesOn(c) = IF AnsweredHere(r, c) THEN {r} ELSE {}
  BY DEF RepliesOn, NowAnswered, AnsweredHere, OneMoves
<1>3. CASE AnsweredHere(r, c)
  <2>1. answers = {ReplyTo(r)'}
    BY <1>2, <1>3 DEF ReplyTo
  <2> HIDE DEF answers
  <2> QED BY <1>1, <1>3, <2>1, OneReplyOrNone
<1>4. CASE ~ AnsweredHere(r, c)
  <2>1. answers = {}
    BY <1>2, <1>4
  <2> HIDE DEF answers
  <2> QED BY <1>1, <1>4, <2>1, OneReplyOrNone
<1> QED BY <1>3, <1>4

LEMMA OutcomeOfAnswer ==
  ASSUME DaemonInv', NEW r \in Requests, job'[r].pc = "answered"
  PROVE  job'[r].outcome \in Outcomes
<1>1. IF job'[r].reservation = 0
      THEN WithoutRow(job'[r])
      ELSE WithRow(job'[r], rows'[job'[r].reservation])
  BY DEF DaemonInv, DaemonParts, JobsMatchRows
<1>2. ASSUME NEW j, WithoutRow(j), j.pc = "answered"
      PROVE  j.outcome \in Outcomes
  BY <1>2 DEF WithoutRow, Outcomes
<1>3. ASSUME NEW j, NEW row, WithRow(j, row), j.pc = "answered"
      PROVE  j.outcome \in Outcomes
  BY <1>3 DEF WithRow, Progress, Outcomes
<1> QED BY <1>1, <1>2, <1>3

(* What is appended to the replies of a connection stays in them.          *)
LEMMA RepliesGrow ==
  ASSUME NEW S, NEW old \in Seq(S), NEW x \in S
  PROVE  /\ old \o <<x>> \in Seq(S)
         /\ Len(old \o <<x>>) = Len(old) + 1
         /\ ToSet(old) \subseteq ToSet(old \o <<x>>)
         /\ x \in ToSet(old \o <<x>>)
<1>1. /\ Append(old, x) \in Seq(S)
      /\ Len(Append(old, x)) = Len(old) + 1
      /\ \A i \in 1..Len(old) : Append(old, x)[i] = old[i]
      /\ Append(old, x)[Len(old) + 1] = x
  BY AppendProperties
<1>2. old \o <<x>> = Append(old, x)
  BY AppendIsConcat
<1>3. /\ Len(old) \in Nat /\ DOMAIN old = 1..Len(old)
      /\ DOMAIN Append(old, x) = 1..(Len(old) + 1)
  BY <1>1, LenProperties
<1>4. ASSUME NEW y \in ToSet(old)
      PROVE  y \in ToSet(Append(old, x))
  <2>1. PICK i \in 1..Len(old) : y = old[i]
    BY <1>3 DEF ToSet
  <2>2. i \in 1..(Len(old) + 1)
    BY <1>3
  <2> QED BY <1>1, <1>3, <2>1, <2>2 DEF ToSet
<1>5. x \in ToSet(Append(old, x))
  <2>1. Len(old) + 1 \in 1..(Len(old) + 1)
    BY <1>3
  <2> QED BY <1>1, <1>3, <2>1 DEF ToSet
<1> QED BY <1>1, <1>2, <1>4, <1>5

LEMMA OneMoveKeepsReplies ==
  ASSUME DaemonAssumption, SocketsParts, DaemonInv',
         NEW r \in Requests, OneMoves(r), Respond,
         origin[r] = None => \A q \in Requests : origin[q] # origin'[r],
         None \notin Origins
  PROVE  RequestParts' /\ replies' \in [Conns -> Seq(Reply)]
<1>1. /\ \A q \in Requests \ {r} : job'[q] = job[q] /\ origin'[q] = origin[q]
      /\ job[r].pc # "answered" /\ job'[r].pc # "idle"
      /\ origin'[r] \in Origins /\ origin'[r] # None
      /\ origin[r] # None => origin'[r] = origin[r]
      /\ conn' = conn
  BY DEF OneMoves
<1>2. /\ \A q \in Requests : job[q].pc = "idle" <=> origin[q] = None
      /\ \A c \in Conns : replies[c] \in Seq(Reply)
  BY ConnectionTypes DEF SocketsParts, SocketsTypeOK
<1>3. job'[r].pc = "answered" => ReplyTo(r)' \in Reply
  <2>1. job'[r].pc = "answered" => job'[r].outcome \in Outcomes
    BY OutcomeOfAnswer
  <2>2. origin'[r].text \in Seq(Symbols)
    BY <1>1 DEF Origins
  <2> QED BY <2>1, <2>2 DEF ReplyTo, Reply
<1>4. ASSUME NEW c \in Conns
      PROVE  /\ replies'[c] \in Seq(Reply)
             /\ ToSet(replies[c]) \subseteq ToSet(replies'[c])
             /\ AnsweredHere(r, c) => ReplyTo(r)' \in ToSet(replies'[c])
             /\ Len(replies'[c]) = IF AnsweredHere(r, c) THEN Len(replies[c]) + 1
                                                         ELSE Len(replies[c])
  <2>1. replies'[c] = replies[c] \o (IF AnsweredHere(r, c) THEN <<ReplyTo(r)'>> ELSE <<>>)
    BY RespondToOne
  <2>2. CASE AnsweredHere(r, c)
    <3>1. ReplyTo(r)' \in Reply
      BY <1>3, <2>2 DEF AnsweredHere
    <3>2. replies'[c] = replies[c] \o <<ReplyTo(r)'>>
      BY <2>1, <2>2
    <3> QED BY <1>2, <2>2, <3>1, <3>2, RepliesGrow
  <2>3. CASE ~ AnsweredHere(r, c)
    <3>1. replies'[c] = replies[c]
      BY <1>2, <2>1, <2>3, ConcatEmptySeq
    <3> QED BY <1>2, <2>3, <3>1
  <2> QED BY <2>2, <2>3
<1>5. replies' \in [Conns -> Seq(Reply)]
  <2>1. replies' = [c \in Conns |-> replies'[c]]
    BY DEF Respond
  <2> QED BY <1>4, <2>1
<1>6. \A q \in Requests : job'[q].pc = "idle" <=> origin'[q] = None
  BY <1>1, <1>2
<1>7. OneRequestPerLine'
  BY <1>1 DEF SocketsParts, OneRequestPerLine
<1>8. AnsweredHaveReplies'
  <2>1. ASSUME NEW q \in Requests, job'[q].pc = "answered", conn'[origin'[q].conn] = "open"
        PROVE  ReplyTo(q)' \in ToSet(replies'[origin'[q].conn])
    <3>1. CASE q = r
      <4>1. origin'[r].conn \in Conns
        BY <1>1 DEF Origins
      <4>2. AnsweredHere(r, origin'[r].conn)
        BY <1>1, <2>1, <3>1 DEF AnsweredHere, InUse
      <4> QED BY <1>4, <3>1, <4>1, <4>2
    <3>2. CASE q # r
      <4>1. job'[q] = job[q] /\ origin'[q] = origin[q] /\ job[q].pc = "answered"
            /\ conn[origin[q].conn] = "open"
        BY <1>1, <2>1, <3>2
      <4>2. origin[q].conn \in Conns
        BY <1>2, <4>1, RequestsComeConnected
      <4>3. ReplyTo(q) \in ToSet(replies[origin[q].conn])
        BY <4>1 DEF SocketsParts, AnsweredHaveReplies
      <4>4. ReplyTo(q)' = ReplyTo(q)
        BY <4>1 DEF ReplyTo
      <4> QED BY <1>4, <4>1, <4>2, <4>3, <4>4
    <3> QED BY <3>1, <3>2
  <2> QED BY <2>1 DEF AnsweredHaveReplies
<1>9. NoReplyTooMany'
  <2>1. ASSUME NEW c \in Conns
        PROVE  Len(replies'[c]) <= Cardinality(AnsweredOn(c)')
    <3>1. /\ IsFiniteSet(AnsweredOn(c)) /\ Cardinality(AnsweredOn(c)) \in Nat
          /\ IsFiniteSet(AnsweredOn(c)')
      <4>1. AnsweredOn(c) \in SUBSET Requests /\ AnsweredOn(c)' \in SUBSET Requests
        BY DEF AnsweredOn
      <4> QED BY <4>1, FS_Subset, FS_CardinalityType DEF DaemonAssumption
    <3>2. Len(replies[c]) <= Cardinality(AnsweredOn(c)) /\ Len(replies[c]) \in Nat
      BY ConnectionTypes DEF SocketsParts, NoReplyTooMany
    <3>3. r \notin AnsweredOn(c) /\ AnsweredOn(c) \in SUBSET (AnsweredOn(c)')
      BY <1>1 DEF AnsweredOn
    <3>4. CASE AnsweredHere(r, c)
      <4>1. AnsweredOn(c)' = AnsweredOn(c) \cup {r}
        BY <1>1, <3>4 DEF AnsweredOn, AnsweredHere
      <4>2. Cardinality(AnsweredOn(c)') = Cardinality(AnsweredOn(c)) + 1
        BY <3>1, <3>3, <4>1, FS_AddElement
      <4> QED BY <1>4, <3>1, <3>2, <3>4, <4>2
    <3>5. CASE ~ AnsweredHere(r, c)
      <4>1. Cardinality(AnsweredOn(c)) <= Cardinality(AnsweredOn(c)')
            /\ Cardinality(AnsweredOn(c)') \in Nat
        BY <3>1, <3>3, FS_Subset, FS_CardinalityType
      <4> QED BY <1>4, <3>1, <3>2, <3>5, <4>1
    <3> QED BY <3>4, <3>5
  <2> QED BY <2>1 DEF NoReplyTooMany
<1> QED BY <1>5, <1>6, <1>7, <1>8, <1>9 DEF RequestParts

-----------------------------------------------------------------------------
(* The daemon under the socket.                                            *)

(* A line that holds no request is refused, or fails the process.          *)
TurnsAway(r) == RefuseLine(r) \/ FailLine(r)

TurnedAway(new) ==
    /\ new.reservation = 0 /\ new.sent = FALSE
    /\ \/ new.pc = "answered" /\ new.outcome = "refused"
       \/ new.pc = "dropped" /\ new.outcome = "none"

LEMMA WhatTurningAwayDoes ==
  ASSUME DaemonInv, NEW r \in Requests, job[r].pc = "idle", TurnsAway(r)
  PROVE  /\ job[r].reservation = 0 /\ job[r].sent = FALSE
         /\ UNCHANGED <<ledgerVars, pathVars>>
         /\ \E new \in Jobs : TurnedAway(new) /\ job' = [job EXCEPT ![r] = new]
<1>1. TypeOK /\ DaemonParts /\ job \in [Requests -> Jobs]
  BY DEF DaemonInv, DaemonParts
<1>2. job[r].reservation = 0 /\ job[r].sent = FALSE /\ job[r].outcome = "none"
  BY <1>1, WhereItStands DEF WithoutRow, WithRow, Progress, Jobs
<1>3. CASE RefuseLine(r)
  <2> DEFINE new == [job[r] EXCEPT !.pc = "answered", !.outcome = "refused"]
  <2>1. job' = [job EXCEPT ![r] = new] /\ UNCHANGED <<ledgerVars, pathVars>>
    BY <1>3 DEF RefuseLine
  <2>2. new \in Jobs /\ TurnedAway(new)
    BY <1>1, <1>2 DEF Jobs, Finished, TurnedAway
  <2> HIDE DEF new
  <2> QED BY <1>2, <2>1, <2>2
<1>4. CASE FailLine(r)
  <2> DEFINE new == [job[r] EXCEPT !.pc = "dropped"]
  <2>1. job' = [job EXCEPT ![r] = new] /\ UNCHANGED <<ledgerVars, pathVars>>
    BY <1>4 DEF FailLine
  <2>2. new \in Jobs /\ TurnedAway(new)
    BY <1>1, <1>2 DEF Jobs, Finished, TurnedAway
  <2> HIDE DEF new
  <2> QED BY <1>2, <2>1, <2>2
<1> QED BY <1>3, <1>4 DEF TurnsAway

LEMMA TurningAwayKeepsInv ==
  ASSUME DaemonAssumption, DaemonInv, NEW r \in Requests, job[r].pc = "idle", TurnsAway(r)
  PROVE  DaemonInv'
<1>1. TypeOK /\ DaemonParts /\ job \in [Requests -> Jobs]
  BY DEF DaemonInv, DaemonParts
<1>2. /\ job[r].reservation = 0 /\ ~ job[r].sent
      /\ UNCHANGED <<ledgerVars, pathVars>>
  BY WhatTurningAwayDoes
<1>3. PICK new \in Jobs : TurnedAway(new) /\ job' = [job EXCEPT ![r] = new]
  BY WhatTurningAwayDoes
<1>4. /\ new \in Jobs /\ new.reservation = 0 /\ new.sent = job[r].sent
      /\ new.pc \in {"answered", "dropped"}
  BY <1>1, <1>3, WhatTurningAwayDoes DEF TurnedAway
<1>5. WithoutRow(new)
  BY <1>3 DEF TurnedAway, WithoutRow
<1>6. OwnRowMoves(r) /\ UNCHANGED <<intents, allowance, revoked, daemon, moved>>
  BY <1>2, RowsStay DEF pathVars
<1>7. intents' \in Seq(IntentRow) /\ Len(intents') = Len(intents)
  BY <1>1, <1>6 DEF DaemonParts, TablesOK
<1>8. new.pc # "reserving" /\ new.pc \notin Undecided
  BY <1>4 DEF Undecided
<1>9. DaemonParts'
  BY <1>1, <1>2, <1>3, <1>4, <1>5, <1>6, <1>7, <1>8, OneJobMoves
<1>10. TypeOK'
  BY <1>1, <1>2 DEF TypeOK, ledgerVars
<1> QED BY <1>9, <1>10 DEF DaemonInv

JobMoves(r) ==
    /\ \A q \in Requests \ {r} : job'[q] = job[q]
    /\ job[r].pc # "answered" /\ job'[r].pc # "idle"

(* Whatever is changed of one request, with the point it is at.            *)
LEMMA PointMoves ==
  ASSUME job \in [Requests -> Jobs], NEW r \in Requests, NEW pc, pc # "idle",
         job[r].pc # "answered",
         \E new : new.pc = pc /\ job' = [job EXCEPT ![r] = new]
  PROVE  JobMoves(r)
  BY DEF JobMoves

LEMMA AnswerMoves ==
  ASSUME job \in [Requests -> Jobs], NEW r \in Requests, job[r].pc # "answered",
         NEW outcome, Answer(r, outcome)
  PROVE  JobMoves(r)
<1> DEFINE new == [job[r] EXCEPT !.pc = "answered", !.outcome = outcome, !.plan = None]
<1>1. new.pc = "answered" /\ job' = [job EXCEPT ![r] = new]
  BY DEF Answer, Jobs
<1> HIDE DEF new
<1> QED BY <1>1, PointMoves

LEMMA GotoMoves ==
  ASSUME job \in [Requests -> Jobs], NEW r \in Requests, job[r].pc # "answered",
         NEW pc, pc # "idle", Goto(r, pc)
  PROVE  JobMoves(r)
<1> DEFINE new == [job[r] EXCEPT !.pc = pc]
<1>1. new.pc = pc /\ job' = [job EXCEPT ![r] = new]
  BY DEF Goto, Jobs
<1> HIDE DEF new
<1> QED BY <1>1, PointMoves

LEMMA AdvanceMoves ==
  ASSUME job \in [Requests -> Jobs], NEW r \in Requests, Advance(r)
  PROVE  JobMoves(r) /\ job[r].pc # "idle"
<1>1. job[r].pc \in InFlight
  BY DEF Advance, Probe, Decide, ReserveBudget, BeginSigning, Signed, SigningFails, SignerGone,
         ReplayOk, ReplayRefused, ReplayLost, ReadBody, Runs, InFlight
<1>2. job[r].pc # "idle" /\ job[r].pc # "answered"
  BY <1>1 DEF InFlight
<1>3. CASE \E outcome : Answer(r, outcome)
  BY <1>2, <1>3, AnswerMoves
<1>4. CASE \E pc \in InFlight : Goto(r, pc)
  <2>1. \A pc \in InFlight : pc # "idle"
    BY DEF InFlight
  <2> QED BY <1>2, <1>4, <2>1, GotoMoves
<1>5. CASE \E quote : job' = [job EXCEPT ![r].quote = quote, ![r].pc = "gating"]
  <2>1. PICK quote : job' = [job EXCEPT ![r].quote = quote, ![r].pc = "gating"]
    BY <1>5
  <2> DEFINE new == [job[r] EXCEPT !.quote = quote, !.pc = "gating"]
  <2>2. new.pc = "gating" /\ job' = [job EXCEPT ![r] = new]
    BY <2>1 DEF Jobs
  <2> HIDE DEF new
  <2> QED BY <1>2, <2>2, PointMoves
<1>6. CASE \E plan : job' = [job EXCEPT ![r].pc = "reserving", ![r].plan = plan]
  <2>1. PICK plan : job' = [job EXCEPT ![r].pc = "reserving", ![r].plan = plan]
    BY <1>6
  <2> DEFINE new == [job[r] EXCEPT !.pc = "reserving", !.plan = plan]
  <2>2. new.pc = "reserving" /\ job' = [job EXCEPT ![r] = new]
    BY <2>1 DEF Jobs
  <2> HIDE DEF new
  <2> QED BY <1>2, <2>2, PointMoves
<1>7. CASE job' = [job EXCEPT ![r].pc = "admitted", ![r].plan = None,
                              ![r].reservation = InsertedRowId]
  <2> DEFINE new == [job[r] EXCEPT !.pc = "admitted", !.plan = None,
                                   !.reservation = InsertedRowId]
  <2>1. new.pc = "admitted" /\ job' = [job EXCEPT ![r] = new]
    BY <1>7 DEF Jobs
  <2> HIDE DEF new
  <2> QED BY <1>2, <2>1, PointMoves
<1>8. CASE job' = [job EXCEPT ![r].pc = "replaying", ![r].sent = TRUE]
  <2> DEFINE new == [job[r] EXCEPT !.pc = "replaying", !.sent = TRUE]
  <2>1. new.pc = "replaying" /\ job' = [job EXCEPT ![r] = new]
    BY <1>8 DEF Jobs
  <2> HIDE DEF new
  <2> QED BY <1>2, <2>1, PointMoves
<1>9. \/ \E outcome : Answer(r, outcome)
      \/ \E pc \in InFlight : Goto(r, pc)
      \/ \E quote : job' = [job EXCEPT ![r].quote = quote, ![r].pc = "gating"]
      \/ \E plan : job' = [job EXCEPT ![r].pc = "reserving", ![r].plan = plan]
      \/ job' = [job EXCEPT ![r].pc = "admitted", ![r].plan = None,
                            ![r].reservation = InsertedRowId]
      \/ job' = [job EXCEPT ![r].pc = "replaying", ![r].sent = TRUE]
  <2>1. "signing" \in InFlight /\ "hung" \in InFlight /\ "reading" \in InFlight
    BY DEF InFlight
  <2>2. Probe(r) => \/ \E outcome : Answer(r, outcome)
                    \/ \E quote : job' = [job EXCEPT ![r].quote = quote, ![r].pc = "gating"]
    BY DEF Probe
  <2>3. Decide(r) => \/ \E outcome : Answer(r, outcome)
                     \/ \E plan : job' = [job EXCEPT ![r].pc = "reserving", ![r].plan = plan]
    BY DEF Decide
  <2>4. ReserveBudget(r) => \/ \E outcome : Answer(r, outcome)
                            \/ job' = [job EXCEPT ![r].pc = "admitted", ![r].plan = None,
                                                  ![r].reservation = InsertedRowId]
    BY DEF ReserveBudget
  <2>5. (BeginSigning(r) \/ SignerGone(r) \/ ReplayOk(r)) =>
           \/ \E outcome : Answer(r, outcome)
           \/ \E pc \in InFlight : Goto(r, pc)
    BY <2>1 DEF BeginSigning, RefusedAfterAdmission, SignerGone, ReplayOk
  <2>6. (SigningFails(r) \/ ReplayRefused(r) \/ ReplayLost(r) \/ ReadBody(r)) =>
           \E outcome : Answer(r, outcome)
    BY DEF SigningFails, RefusedAfterAdmission, ReplayRefused, ReplayLost, ReadBody
  <2>7. Signed(r) => job' = [job EXCEPT ![r].pc = "replaying", ![r].sent = TRUE]
    BY DEF Signed
  <2> QED BY <2>2, <2>3, <2>4, <2>5, <2>6, <2>7 DEF Advance
<1> QED BY <1>2, <1>3, <1>4, <1>5, <1>6, <1>7, <1>8, <1>9

LEMMA HandlingMoves ==
  ASSUME job \in [Requests -> Jobs], NEW r \in Requests, job[r].pc = "idle",
         TurnsAway(r) \/ \E claim \in Claims : Receive(r, claim)
  PROVE  JobMoves(r)
<1>1. CASE RefuseLine(r)
  <2> DEFINE new == [job[r] EXCEPT !.pc = "answered", !.outcome = "refused"]
  <2>1. new.pc = "answered" /\ job' = [job EXCEPT ![r] = new]
    BY <1>1 DEF RefuseLine, Jobs
  <2> HIDE DEF new
  <2> QED BY <2>1, PointMoves
<1>2. CASE FailLine(r)
  <2> DEFINE new == [job[r] EXCEPT !.pc = "dropped"]
  <2>1. new.pc = "dropped" /\ job' = [job EXCEPT ![r] = new]
    BY <1>2 DEF FailLine, Jobs
  <2> HIDE DEF new
  <2> QED BY <2>1, PointMoves
<1>3. ASSUME NEW claim \in Claims, Receive(r, claim)
      PROVE  JobMoves(r)
  <2> DEFINE ok == Authentic(claim)
             new == [job[r] EXCEPT !.claim = claim,
                                   !.pc = IF ok THEN "probing" ELSE "answered",
                                   !.outcome = IF ok THEN "none" ELSE "refused"]
  <2>1. job' = [job EXCEPT ![r] = new]
    BY <1>3 DEF Receive
  <2>2. job[r] \in Jobs
    OBVIOUS
  <2> HIDE DEF ok
  <2>3. new.pc = (IF ok THEN "probing" ELSE "answered")
    BY <2>2 DEF Jobs
  <2>4. new.pc # "idle"
    BY <2>3
  <2> HIDE DEF new
  <2> QED BY <2>1, <2>4, PointMoves
<1> QED BY <1>1, <1>2, <1>3 DEF TurnsAway

-----------------------------------------------------------------------------
(* The steps of the socket.                                                *)

ConnStates == InUse \cup {"none", "closed", "severed", "lost"}

(* What a step that answers nothing and writes nothing has to show.        *)
LEMMA QuietStep ==
  ASSUME SocketsParts, NothingAnswered, UNCHANGED written,
         conn' \in [Conns -> ConnStates],
         stream' \in [Conns -> Seq(Symbols)], buffer' \in [Conns -> Seq(Symbols)],
         LinesInOrder',
         failing' \in BOOLEAN,
         \A c \in Conns : conn'[c] = "none" => conn[c] = "none"
  PROVE  SocketsParts'
<1>1. RequestParts'
  BY NothingAnsweredKeepsReplies
<1>2. SocketsTypeOK'
  BY <1>1 DEF SocketsParts, SocketsTypeOK, RequestParts, NothingAnswered, ConnStates
<1>3. WrittenOnce' /\ NothingBeforeConnecting'
  BY DEF SocketsParts, WrittenOnce, NothingBeforeConnecting
<1> QED BY <1>1, <1>2, <1>3 DEF SocketsParts, RequestParts

LEMMA SamePlaces ==
  ASSUME UNCHANGED <<job, origin, replies>>,
         \A c \in Conns : conn'[c] = "open" => conn[c] \in {"none", "open"}
  PROVE  NothingAnswered
  BY DEF NothingAnswered

LEMMA ConnectionStepKeepsParts ==
  ASSUME SocketsParts, NEW c \in Conns, Connect(c) \/ AgentEnds(c)
  PROVE  SocketsParts'
<1>1. UNCHANGED <<job, written, stream, buffer, origin, replies>>
  BY DEF Connect, AgentEnds, vars
<1>2. conn \in [Conns -> ConnStates] /\ failing' \in BOOLEAN
  BY DEF SocketsParts, SocketsTypeOK, ConnStates, Connect, AgentEnds
<1>3. /\ conn' \in [Conns -> ConnStates]
      /\ \A d \in Conns : /\ conn'[d] = "open" => conn[d] \in {"none", "open"}
                          /\ conn'[d] = "none" => conn[d] = "none"
  BY <1>2 DEF Connect, AgentEnds, ConnStates, InUse
<1>4. NothingAnswered
  BY <1>1, <1>3, SamePlaces
<1>5. stream' \in [Conns -> Seq(Symbols)] /\ buffer' \in [Conns -> Seq(Symbols)]
  BY <1>1 DEF SocketsParts, SocketsTypeOK
<1>6. LinesInOrder'
  BY <1>1, SameBytes DEF SocketsParts, LinesInOrder
<1> QED BY <1>1, <1>2, <1>3, <1>4, <1>5, <1>6, QuietStep

LEMMA DeliverKeepsParts ==
  ASSUME SocketsParts, NEW c \in Conns, Deliver(c)
  PROVE  SocketsParts'
<1>1. UNCHANGED <<job, conn, written, origin, replies>>
  BY DEF Deliver, vars
<1>2. PICK n \in 1..Len(stream[c]) :
          /\ buffer' = [buffer EXCEPT ![c] = Gathered(@, SubSeq(stream[c], 1, n))]
          /\ stream' = [stream EXCEPT ![c] = SubSeq(@, n + 1, Len(@))]
  BY DEF Deliver
<1> DEFINE old == stream[c]
           m == Len(old)
           chunk == SubSeq(old, 1, n)
           rest == SubSeq(old, n + 1, m)
<1>3. /\ buffer[c] \in Seq(Symbols) /\ old \in Seq(Symbols) /\ m \in Nat
      /\ buffer \in [Conns -> Seq(Symbols)] /\ stream \in [Conns -> Seq(Symbols)]
  BY ConnectionTypes, LenProperties DEF SocketsParts, SocketsTypeOK
<1>4. chunk \in Seq(Symbols) /\ rest \in Seq(Symbols)
  <2>1. \A i \in 1..m : old[i] \in Symbols
    BY <1>3, ElementOfSeq
  <2>2. n \in Int /\ n + 1 \in Int /\ m \in Int /\ 1 \in Int
        /\ 1..n \subseteq 1..m /\ (n + 1)..m \subseteq 1..m
    BY <1>3
  <2>3. (\A i \in 1..n : old[i] \in Symbols) /\ (\A i \in (n + 1)..m : old[i] \in Symbols)
    BY <2>1, <2>2
  <2> HIDE DEF old, m
  <2> QED BY <2>2, <2>3, SubSeqProperties
<1>5. chunk \o rest = old
  <2>1. 1 \in 1..(m + 1) /\ n \in (1 - 1)..m /\ m \in n..m
    BY <1>3
  <2>2. chunk \o rest = SubSeq(old, 1, m)
    BY <1>3, <2>1, ConcatAdjacentSubSeq
  <2>3. SubSeq(old, 1, m) = old
    BY <1>3, SubSeqFull
  <2> QED BY <2>2, <2>3
<1>6. buffer[c] \o chunk \in Seq(Symbols)
  BY <1>3, <1>4, ConcatProperties
<1>7. (buffer[c] \o chunk) \o rest = buffer[c] \o old
  <2> DEFINE read == buffer[c]
  <2>1. read \in Seq(Symbols)
    BY <1>3
  <2> HIDE DEF read, chunk, rest
  <2>2. (read \o chunk) \o rest = read \o (chunk \o rest)
    BY <1>4, <2>1, ThreePieces
  <2> QED BY <1>5, <2>2 DEF read
<1> HIDE DEF chunk, rest
<1>8. /\ buffer' = [buffer EXCEPT ![c] = buffer[c] \o chunk]
      /\ stream' = [stream EXCEPT ![c] = rest]
  BY <1>2 DEF Gathered, chunk, rest
<1>9. stream' \in [Conns -> Seq(Symbols)] /\ buffer' \in [Conns -> Seq(Symbols)]
  BY <1>3, <1>4, <1>6, <1>8
<1>10. \A d \in Conns : buffer'[d] \o stream'[d] = buffer[d] \o stream[d]
  BY <1>3, <1>7, <1>8
<1>11. LinesInOrder'
  BY <1>1, <1>10, SameBytes DEF SocketsParts, LinesInOrder
<1>12. NothingAnswered
  BY <1>1, SamePlaces
<1>13. conn' \in [Conns -> ConnStates] /\ failing' \in BOOLEAN
  BY <1>1 DEF SocketsParts, SocketsTypeOK, ConnStates, Deliver
<1> QED BY <1>1, <1>9, <1>11, <1>12, <1>13, QuietStep

(* The connection ends, with what was not handled of it.                   *)
LEMMA ClosingKeepsParts ==
  ASSUME SocketsParts, NEW c \in Conns, ReadEnd(c) \/ Break(c)
  PROVE  SocketsParts'
<1>1. /\ UNCHANGED <<job, written, origin, replies>>
      /\ conn' = [conn EXCEPT ![c] = "closed"]
      /\ buffer' = [buffer EXCEPT ![c] = <<>>]
      /\ \/ stream' = stream /\ stream[c] = <<>>
         \/ stream' = [stream EXCEPT ![c] = <<>>]
  BY DEF ReadEnd, Break, vars
<1>2. /\ conn \in [Conns -> ConnStates] /\ failing' \in BOOLEAN
      /\ buffer \in [Conns -> Seq(Symbols)] /\ stream \in [Conns -> Seq(Symbols)]
      /\ <<>> \in Seq(Symbols)
  BY EmptySeq DEF SocketsParts, SocketsTypeOK, ConnStates, ReadEnd, Break
<1>3. /\ conn' \in [Conns -> ConnStates]
      /\ \A d \in Conns : /\ conn'[d] = "open" => conn[d] \in {"none", "open"}
                          /\ conn'[d] = "none" => conn[d] = "none"
  BY <1>1, <1>2 DEF ConnStates, InUse
<1>4. stream' \in [Conns -> Seq(Symbols)] /\ buffer' \in [Conns -> Seq(Symbols)]
      /\ stream'[c] = <<>> /\ buffer'[c] = <<>>
      /\ \A d \in Conns \ {c} : stream'[d] = stream[d] /\ buffer'[d] = buffer[d]
  BY <1>1, <1>2
<1>5. ASSUME NEW d \in Conns
      PROVE  InOrder(d)'
  <2>1. InOrder(d) /\ written[d] \in Seq(Messages)
    BY ConnectionTypes DEF SocketsParts, LinesInOrder
  <2>2. CASE d = c
    BY <1>1, <1>4, <2>1, <2>2, DroppedBytes
  <2>3. CASE d # c
    BY <1>1, <1>4, <2>1, <2>3, SameBytes
  <2> QED BY <2>2, <2>3
<1>6. NothingAnswered /\ LinesInOrder'
  BY <1>1, <1>3, <1>5, SamePlaces DEF LinesInOrder
<1> QED BY <1>1, <1>2, <1>3, <1>4, <1>6, QuietStep

LEMMA WriteKeepsParts ==
  ASSUME SocketsParts, NEW c \in Conns, NEW message \in Messages, Write(c, message)
  PROVE  SocketsParts'
<1> DEFINE old == written[c]
           text == buffer[c] \o stream[c]
<1>1. /\ UNCHANGED <<job, conn, buffer, failing, origin, replies>>
      /\ conn[c] = "open" /\ message \notin AllWritten
      /\ written' = [written EXCEPT ![c] = Append(old, message)]
      /\ stream' = [stream EXCEPT ![c] = stream[c] \o <<message, NL>>]
  BY DEF Write, vars
<1>2. /\ written \in [Conns -> Seq(Messages)]
      /\ stream \in [Conns -> Seq(Symbols)] /\ buffer \in [Conns -> Seq(Symbols)]
      /\ conn \in [Conns -> ConnStates]
      /\ old \in Seq(Messages) /\ Len(old) \in Nat /\ DOMAIN old = 1..Len(old)
      /\ text \in Seq(Symbols)
  BY ConnectionTypes, LenProperties DEF SocketsParts, SocketsTypeOK, ConnStates
<1>3. <<message, NL>> \in Seq(Symbols)
  BY PairProperties DEF Symbols
<1>4. /\ Append(old, message) \in Seq(Messages)
      /\ Len(Append(old, message)) = Len(old) + 1
      /\ DOMAIN Append(old, message) = 1..(Len(old) + 1)
      /\ \A i \in 1..Len(old) : Append(old, message)[i] = old[i]
      /\ Append(old, message)[Len(old) + 1] = message
  BY <1>2, AppendProperties, LenProperties
<1>5. stream[c] \o <<message, NL>> \in Seq(Symbols)
      /\ buffer[c] \o (stream[c] \o <<message, NL>>) = text \o <<message, NL>>
  <2> DEFINE read == buffer[c]
             unread == stream[c]
             line == <<message, NL>>
  <2>1. read \in Seq(Symbols) /\ unread \in Seq(Symbols) /\ line \in Seq(Symbols)
    BY <1>2, <1>3
  <2> HIDE DEF read, unread, line
  <2>2. unread \o line \in Seq(Symbols) /\ (read \o unread) \o line = read \o (unread \o line)
    BY <2>1, ConcatProperties, ThreePieces
  <2> QED BY <2>2 DEF read, unread, line
<1>6. /\ written' \in [Conns -> Seq(Messages)] /\ stream' \in [Conns -> Seq(Symbols)]
      /\ written'[c] = Append(old, message)
      /\ buffer'[c] \o stream'[c] = text \o <<message, NL>>
      /\ \A d \in Conns \ {c} : written'[d] = written[d] /\ stream'[d] = stream[d]
  BY <1>1, <1>2, <1>4, <1>5
<1>7. LinesInOrder'
  <2>1. InOrder(c)'
    <3>1. PICK h \in 0..Len(old) : Framed(text, old, h) /\ FromHandled(c, h)
      BY DEF SocketsParts, LinesInOrder, InOrder
    <3>2. Framed(text \o <<message, NL>>, Append(old, message), h)
      BY <1>2, <3>1, FramedWithAnother
    <3>3. \A k \in 1..h : written'[c][k] = written[c][k]
      <4>1. 1..h \subseteq 1..Len(old)
        BY <1>2
      <4> QED BY <1>4, <1>6, <4>1
    <3>4. FromHandled(c, h)'
      BY <1>1, <3>1, <3>3 DEF FromHandled
    <3>5. h \in 0..Len(written'[c])
      BY <1>2, <1>4, <1>6
    <3> QED BY <1>6, <3>2, <3>4, <3>5 DEF InOrder
  <2>2. ASSUME NEW d \in Conns, d # c
        PROVE  InOrder(d)'
    BY <1>1, <1>6, <2>2, SameBytes DEF SocketsParts, LinesInOrder
  <2> QED BY <2>1, <2>2 DEF LinesInOrder
<1>8. WrittenOnce'
  <2>1. ASSUME NEW d \in Conns, NEW i \in DOMAIN written'[d], NEW j \in DOMAIN written'[d],
               written'[d][i] = written'[d][j]
        PROVE  i = j
    <3>1. CASE d # c
      BY <1>6, <2>1, <3>1 DEF SocketsParts, WrittenOnce
    <3>2. CASE d = c
      <4>1. \A k \in 1..Len(old) : old[k] # message
        <5>1. \A k \in 1..Len(old) : old[k] \in ToSet(written[c])
          BY <1>2 DEF ToSet
        <5>2. ToSet(written[c]) \subseteq AllWritten
          BY DEF AllWritten
        <5> QED BY <1>1, <5>1, <5>2
      <4>2. i \in 1..(Len(old) + 1) /\ j \in 1..(Len(old) + 1)
            /\ Append(old, message)[i] = Append(old, message)[j]
        BY <1>4, <1>6, <2>1, <3>2
      <4>3. \A k \in 1..(Len(old) + 1) : k \in 1..Len(old) \/ k = Len(old) + 1
        BY <1>2
      <4>4. CASE i \in 1..Len(old) /\ j \in 1..Len(old)
        <5>1. old[i] = old[j]
          BY <1>4, <4>2, <4>4
        <5>2. \A k, l \in DOMAIN old : old[k] = old[l] => k = l
          BY DEF SocketsParts, WrittenOnce
        <5> QED BY <1>2, <4>4, <5>1, <5>2
      <4>5. CASE ~ (i \in 1..Len(old) /\ j \in 1..Len(old))
        BY <1>4, <4>1, <4>2, <4>3, <4>5
      <4> QED BY <4>4, <4>5
    <3> QED BY <3>1, <3>2
  <2> QED BY <2>1 DEF WrittenOnce
<1>9. NothingBeforeConnecting'
  BY <1>1, <1>6 DEF SocketsParts, NothingBeforeConnecting
<1>10. RequestParts'
  <2>1. NothingAnswered
    BY <1>1, SamePlaces
  <2> QED BY <2>1, NothingAnsweredKeepsReplies
<1>11. SocketsTypeOK'
  BY <1>1, <1>6, <1>10 DEF SocketsParts, SocketsTypeOK, RequestParts
<1> QED BY <1>7, <1>8, <1>9, <1>10, <1>11 DEF SocketsParts, RequestParts

(* A line is handled by one request that was idle.                         *)
LEMMA WhatHandlingDoes ==
  ASSUME SocketsAssumption, NEW c \in Conns, HandleLine(c)
  PROVE  \E r \in Requests :
            /\ job[r].pc = "idle"
            /\ origin' = [origin EXCEPT ![r] = [conn |-> c, text |-> FirstLine(buffer[c])]]
            /\ TurnsAway(r) \/ \E claim \in Claims : Receive(r, claim)
<1>1. PICK r \in Requests :
         LET claim == ReadableIn(FirstLine(buffer[c]))
         IN  /\ job[r].pc = "idle"
             /\ origin' = [origin EXCEPT ![r] = [conn |-> c, text |-> FirstLine(buffer[c])]]
             /\ \/ TurnsAway(r)
                \/ claim \notin {None, JsonNull} /\ Receive(r, claim)
  BY DEF HandleLine, TurnsAway
<1>2. ReadableIn(FirstLine(buffer[c])) \in Claims \cup {None, JsonNull}
  BY DEF ReadableIn, SocketsAssumption
<1> QED BY <1>1, <1>2

LEMMA HandleLineKeepsParts ==
  ASSUME DaemonAssumption, SocketsAssumption, SocketsParts, DaemonInv, DaemonInv',
         NEW c \in Conns, HandleLine(c)
  PROVE  SocketsParts'
<1> DEFINE lines == written[c]
           read == buffer[c]
           unread == stream[c]
<1>1. /\ HasLine(read)
      /\ UNCHANGED <<conn, written, stream>>
      /\ buffer' = [buffer EXCEPT ![c] = AfterFirstLine(read)]
      /\ Respond
  BY DEF HandleLine
<1>2. PICK r \in Requests :
         /\ job[r].pc = "idle"
         /\ origin' = [origin EXCEPT ![r] = [conn |-> c, text |-> FirstLine(read)]]
         /\ TurnsAway(r) \/ \E claim \in Claims : Receive(r, claim)
  BY WhatHandlingDoes
<1>3. /\ lines \in Seq(Messages) /\ Len(lines) \in Nat /\ DOMAIN lines = 1..Len(lines)
      /\ read \in Seq(Symbols) /\ unread \in Seq(Symbols)
      /\ buffer \in [Conns -> Seq(Symbols)]
      /\ origin \in [Requests -> Origins \cup {None}]
      /\ \A q \in Requests : job[q].pc = "idle" <=> origin[q] = None
  BY ConnectionTypes, LenProperties DEF SocketsParts, SocketsTypeOK
<1>4. PICK h \in 0..Len(lines) : Framed(read \o unread, lines, h) /\ FromHandled(c, h)
  BY DEF SocketsParts, LinesInOrder, InOrder
<1>5. /\ h + 1 \in 1..Len(lines)
      /\ FirstLine(read) = <<lines[h + 1]>>
      /\ AfterFirstLine(read) \in Seq(Symbols)
      /\ Framed(AfterFirstLine(read) \o unread, lines, h + 1)
  <2> HIDE DEF lines, read, unread
  <2> QED BY <1>1, <1>3, <1>4, CutFirstLine
<1>6. [conn |-> c, text |-> <<lines[h + 1]>>] \in Origins
  <2>1. lines[h + 1] \in Symbols
    BY <1>3, <1>5, ElementOfSeq DEF Symbols
  <2>2. <<lines[h + 1]>> \in Seq(Symbols)
    BY <2>1
  <2> QED BY <2>2 DEF Origins
<1>7. /\ origin' \in [Requests -> Origins \cup {None}]
      /\ origin'[r].conn = c /\ origin'[r].text = <<lines[h + 1]>>
      /\ origin'[r] \in Origins /\ origin'[r] # None
      /\ \A q \in Requests \ {r} : origin'[q] = origin[q]
      /\ origin[r] = None
  BY <1>2, <1>3, <1>5, <1>6 DEF SocketsAssumption
<1>8. OneMoves(r)
  <2>1. JobMoves(r)
    BY <1>2, HandlingMoves DEF DaemonInv, DaemonParts
  <2> QED BY <1>1, <1>7, <2>1 DEF OneMoves, JobMoves
<1>9. ASSUME NEW q \in Requests
      PROVE  origin[q] # origin'[r]
  <2>1. SUFFICES ASSUME origin[q] = origin'[r] PROVE FALSE
    OBVIOUS
  <2>2. PICK k \in 1..h : origin[q].text = <<lines[k]>>
    BY <1>4, <1>7, <2>1 DEF FromHandled
  <2>3. lines[k] = lines[h + 1]
    BY <1>7, <2>1, <2>2
  <2>4. k \in 1..Len(lines) /\ k # h + 1
    BY <1>3, <1>4
  <2>5. \A i, j \in DOMAIN lines : lines[i] = lines[j] => i = j
    BY DEF SocketsParts, WrittenOnce
  <2> QED BY <1>3, <1>5, <2>3, <2>4, <2>5
<1>10. RequestParts' /\ replies' \in [Conns -> Seq(Reply)]
  BY <1>1, <1>8, <1>9, OneMoveKeepsReplies DEF SocketsAssumption
<1>11. InOrder(c)'
  <2>1. FromHandled(c, h + 1)'
    <3>1. ASSUME NEW q \in Requests, origin'[q] # None, origin'[q].conn = c
          PROVE  \E k \in 1..(h + 1) : origin'[q].text = <<written'[c][k]>>
      <4>1. CASE q = r
        <5>1. h + 1 \in 1..(h + 1)
          BY <1>4
        <5> QED BY <1>1, <1>7, <4>1, <5>1
      <4>2. CASE q # r
        <5>1. PICK k \in 1..h : origin[q].text = <<lines[k]>>
          BY <1>4, <1>7, <3>1, <4>2 DEF FromHandled
        <5>2. k \in 1..(h + 1)
          BY <1>4
        <5> QED BY <1>1, <1>7, <4>2, <5>1, <5>2
      <4> QED BY <4>1, <4>2
    <3> QED BY <3>1 DEF FromHandled
  <2>2. buffer'[c] \o stream'[c] = AfterFirstLine(read) \o unread
    BY <1>1, <1>3
  <2>3. Framed(buffer'[c] \o stream'[c], written'[c], h + 1)
    BY <1>1, <1>5, <2>2
  <2>4. h + 1 \in 0..Len(written'[c])
    BY <1>1, <1>3, <1>5
  <2> QED BY <2>1, <2>3, <2>4 DEF InOrder
<1>12. LinesInOrder'
  <2>1. ASSUME NEW d \in Conns, d # c
        PROVE  InOrder(d)'
    <3>1. buffer'[d] \o stream'[d] = buffer[d] \o stream[d] /\ written'[d] = written[d]
      BY <1>1, <1>3, <2>1
    <3>2. \A q \in Requests : origin'[q] # None /\ origin'[q].conn = d => origin'[q] = origin[q]
      BY <1>7, <2>1
    <3>3. InOrder(d)
      BY DEF SocketsParts, LinesInOrder
    <3> QED BY <3>1, <3>2, <3>3, SameBytes
  <2> QED BY <1>11, <2>1 DEF LinesInOrder
<1>13. buffer' \in [Conns -> Seq(Symbols)]
  BY <1>1, <1>3, <1>5
<1>14. SocketsTypeOK'
  <2>1. failing' \in BOOLEAN
    BY DEF HandleLine, SocketsParts, SocketsTypeOK
  <2> QED BY <1>1, <1>7, <1>10, <1>13, <2>1
          DEF SocketsParts, SocketsTypeOK, RequestParts, Reply
<1>15. WrittenOnce' /\ NothingBeforeConnecting'
  BY <1>1 DEF SocketsParts, WrittenOnce, NothingBeforeConnecting
<1> QED BY <1>10, <1>12, <1>14, <1>15 DEF SocketsParts, RequestParts

LEMMA AdvanceAndRespondKeepsParts ==
  ASSUME DaemonAssumption, SocketsAssumption, SocketsParts, DaemonInv, DaemonInv',
         NEW r \in Requests, AdvanceAndRespond(r)
  PROVE  SocketsParts'
<1>1. UNCHANGED <<conn, written, stream, buffer, failing, origin>> /\ Respond /\ Advance(r)
  BY DEF AdvanceAndRespond
<1>2. JobMoves(r) /\ job[r].pc # "idle"
  BY <1>1, AdvanceMoves DEF DaemonInv, DaemonParts
<1>3. origin[r] \in Origins /\ origin[r] # None
  BY <1>2 DEF SocketsParts, SocketsTypeOK
<1>4. OneMoves(r)
  BY <1>1, <1>2, <1>3 DEF OneMoves, JobMoves
<1>5. RequestParts' /\ replies' \in [Conns -> Seq(Reply)]
  BY <1>1, <1>3, <1>4, OneMoveKeepsReplies DEF SocketsAssumption
<1>6. LinesInOrder'
  BY <1>1, SameBytes DEF SocketsParts, LinesInOrder
<1>7. SocketsTypeOK'
  BY <1>1, <1>5 DEF SocketsParts, SocketsTypeOK, RequestParts, Reply
<1>8. WrittenOnce' /\ NothingBeforeConnecting'
  BY <1>1 DEF SocketsParts, WrittenOnce, NothingBeforeConnecting
<1> QED BY <1>5, <1>6, <1>7, <1>8 DEF SocketsParts, RequestParts

(* The process ends: nothing in flight is answered any more.               *)
LEMMA EndOfProcessKeepsParts ==
  ASSUME SocketsParts, DaemonInv, Exit \/ Crash \/ UnhandledRejection
  PROVE  SocketsParts'
<1>1. PICK last \in {"severed", "lost"} : EndOfProcess(last)
  BY DEF Exit, Crash, UnhandledRejection
<1>2. /\ Stop
      /\ conn' = [c \in Conns |-> IF conn[c] \in InUse THEN last ELSE conn[c]]
      /\ stream' = [c \in Conns |-> <<>>]
      /\ buffer' = [c \in Conns |-> <<>>]
      /\ failing' = FALSE
      /\ UNCHANGED <<written, origin, replies>>
  BY <1>1 DEF EndOfProcess
<1>3. conn \in [Conns -> ConnStates]
  BY DEF SocketsParts, SocketsTypeOK, ConnStates
<1>4. /\ conn' \in [Conns -> ConnStates]
      /\ \A d \in Conns : /\ conn'[d] = "open" => conn[d] \in {"none", "open"}
                          /\ conn'[d] = "none" => conn[d] = "none"
  BY <1>1, <1>2, <1>3 DEF ConnStates, InUse
<1>5. ASSUME NEW r \in Requests
      PROVE  /\ job'[r].pc = "idle" <=> job[r].pc = "idle"
             /\ job'[r].pc = "answered" <=> job[r].pc = "answered"
             /\ job'[r].outcome = job[r].outcome
  <2>1. CASE job[r].pc \in InFlight
    <3> DEFINE new == [job[r] EXCEPT !.pc = "dropped", !.plan = None]
    <3>1. job'[r] = new
      BY <1>2, <2>1 DEF Stop
    <3>2. job[r] \in Jobs
      BY DEF DaemonInv, DaemonParts
    <3>3. new.pc = "dropped" /\ new.outcome = job[r].outcome
      BY <3>2 DEF Jobs
    <3> HIDE DEF new
    <3> QED BY <2>1, <3>1, <3>3 DEF InFlight
  <2>2. CASE job[r].pc \notin InFlight
    BY <1>2, <2>2 DEF Stop
  <2> QED BY <2>1, <2>2
<1>6. NothingAnswered
  BY <1>2, <1>4, <1>5 DEF NothingAnswered
<1>7. stream' \in [Conns -> Seq(Symbols)] /\ buffer' \in [Conns -> Seq(Symbols)]
      /\ \A d \in Conns : stream'[d] = <<>> /\ buffer'[d] = <<>>
  <2>1. <<>> \in Seq(Symbols)
    BY EmptySeq
  <2> QED BY <1>2, <2>1
<1>8. LinesInOrder'
  <2>1. ASSUME NEW d \in Conns
        PROVE  InOrder(d)'
    <3>1. InOrder(d) /\ written[d] \in Seq(Messages)
      BY ConnectionTypes DEF SocketsParts, LinesInOrder
    <3> QED BY <1>2, <1>7, <3>1, DroppedBytes
  <2> QED BY <2>1 DEF LinesInOrder
<1> QED BY <1>2, <1>4, <1>6, <1>7, <1>8, QuietStep

(* What the operator, the sellers, the clock and the signals do.           *)
LEMMA ElsewhereKeepsParts ==
  ASSUME SocketsParts, UNCHANGED <<job, socketVars>>
  PROVE  SocketsParts'
  BY DEF socketVars, SocketsParts, SocketsTypeOK, LinesInOrder, InOrder, FromHandled, WrittenOnce,
         NothingBeforeConnecting, OneRequestPerLine, AnsweredHaveReplies, ReplyTo,
         NoReplyTooMany, AnsweredOn

-----------------------------------------------------------------------------
(* The invariant.                                                          *)

SocketsAssumptions == LedgerAssumption /\ DaemonAssumption /\ SocketsAssumption

LEMMA InitSocketsInv ==
  ASSUME SocketsAssumptions, SocketsInit
  PROVE  SocketsInv
<1>1. DaemonInv
  BY InitDaemonInv DEF SocketsAssumptions, Assumptions, SocketsInit
<1>2. /\ \A r \in Requests : job[r].pc = "idle" /\ origin[r] = None
      /\ \A c \in Conns : /\ conn[c] = "none" /\ written[c] = <<>> /\ stream[c] = <<>>
                          /\ buffer[c] = <<>> /\ replies[c] = <<>>
  BY DEF SocketsInit, Init, NewJob
<1>3. \A S : <<>> \in Seq(S) /\ Len(<<>>) = 0
  BY EmptySeq
<1>4. SocketsTypeOK
  BY <1>2, <1>3 DEF SocketsInit, SocketsTypeOK
<1>5. LinesInOrder
  <2>1. ASSUME NEW c \in Conns
        PROVE  InOrder(c)
    <3>1. buffer[c] \o stream[c] = <<>>
      BY <1>2, <1>3, ConcatEmptySeq
    <3>2. 0 \in 0..Len(<<>>) /\ Len(<<>>) - 0 = 0 /\ Len(<<>>) = 0 /\ 1..0 = {}
      BY <1>3
    <3>3. Framed(<<>>, <<>>, 0)
      BY <3>2 DEF Framed
    <3>4. FromHandled(c, 0)
      BY <1>2 DEF FromHandled
    <3> QED BY <1>2, <3>1, <3>2, <3>3, <3>4 DEF InOrder
  <2> QED BY <2>1 DEF LinesInOrder
<1>6. WrittenOnce /\ NothingBeforeConnecting /\ OneRequestPerLine /\ AnsweredHaveReplies
  BY <1>2 DEF WrittenOnce, NothingBeforeConnecting, OneRequestPerLine, AnsweredHaveReplies
<1>7. NoReplyTooMany
  <2>1. \A c \in Conns : AnsweredOn(c) = {}
    BY <1>2 DEF AnsweredOn
  <2>2. \A c \in Conns : Len(replies[c]) = 0
    BY <1>2, <1>3
  <2>3. 0 <= Cardinality({})
    BY FS_EmptySet
  <2> QED BY <2>1, <2>2, <2>3 DEF NoReplyTooMany
<1> QED BY <1>1, <1>4, <1>5, <1>6, <1>7 DEF SocketsInv, SocketsParts

(* A step of the socket is one of the daemon, or turns a line away.        *)
LEMMA SocketsStepTheDaemon ==
  ASSUME SocketsAssumptions, [SocketsNext]_allVars
  PROVE  \/ [Next]_vars
         \/ \E r \in Requests : job[r].pc = "idle" /\ TurnsAway(r)
<1>1. ASSUME NEW c \in Conns, HandleLine(c)
      PROVE  \/ [Next]_vars
             \/ \E r \in Requests : job[r].pc = "idle" /\ TurnsAway(r)
  BY <1>1, WhatHandlingDoes DEF SocketsAssumptions, Next
<1>2. ASSUME NEW c \in Conns,
             \/ Connect(c) \/ \E message \in Messages : Write(c, message)
             \/ AgentEnds(c) \/ Deliver(c) \/ ReadEnd(c) \/ Break(c)
      PROVE  UNCHANGED vars
  BY <1>2 DEF Connect, Write, AgentEnds, Deliver, ReadEnd, Break
<1>3. ASSUME NEW r \in Requests, AdvanceAndRespond(r)
      PROVE  Next
  BY <1>3 DEF AdvanceAndRespond, Next
<1>4. Terminate \/ Exit \/ Crash \/ UnhandledRejection \/ Restart \/ Outside => Next
  BY DEF Terminate, Exit, Crash, UnhandledRejection, EndOfProcess, Restart, Outside, Next
<1>5. UNCHANGED allVars => UNCHANGED vars
  BY DEF allVars, vars
<1> QED BY <1>1, <1>2, <1>3, <1>4, <1>5 DEF SocketsNext, ServerStep

LEMMA StepSocketsInv ==
  ASSUME SocketsAssumptions, SocketsInv, [SocketsNext]_allVars
  PROVE  SocketsInv' /\ [LedgerNext]_ledgerVars
<1>1. /\ DaemonInv /\ SocketsParts
      /\ LedgerAssumption /\ DaemonAssumption /\ SocketsAssumption /\ Assumptions
  BY DEF SocketsInv, SocketsAssumptions, Assumptions
<1>2. DaemonInv' /\ [LedgerNext]_ledgerVars
  <2>1. CASE [Next]_vars
    BY <1>1, <2>1, StepDaemonInv
  <2>2. CASE \E r \in Requests : job[r].pc = "idle" /\ TurnsAway(r)
    BY <1>1, <2>2, TurningAwayKeepsInv DEF TurnsAway, RefuseLine, FailLine
  <2> QED BY <2>1, <2>2, SocketsStepTheDaemon
<1>3. ASSUME NEW c \in Conns,
             \/ Connect(c) \/ \E message \in Messages : Write(c, message)
             \/ AgentEnds(c) \/ ServerStep(c) \/ Break(c)
      PROVE  SocketsParts'
  BY <1>1, <1>2, <1>3, ConnectionStepKeepsParts, WriteKeepsParts, DeliverKeepsParts,
     HandleLineKeepsParts, ClosingKeepsParts DEF ServerStep
<1>4. ASSUME NEW r \in Requests, AdvanceAndRespond(r)
      PROVE  SocketsParts'
  BY <1>1, <1>2, <1>4, AdvanceAndRespondKeepsParts
<1>5. Exit \/ Crash \/ UnhandledRejection => SocketsParts'
  BY <1>1, EndOfProcessKeepsParts
<1>6. Terminate \/ Restart \/ Outside \/ UNCHANGED allVars => SocketsParts'
  <2>1. Terminate \/ Restart \/ Outside \/ UNCHANGED allVars => UNCHANGED <<job, socketVars>>
    BY DEF Terminate, Shutdown, Restart, Start, Outside, SetAllowance, Revoke, SellerSettles,
           TimePasses, allVars, socketVars
  <2> QED BY <1>1, <2>1, ElsewhereKeepsParts
<1>7. SocketsParts'
  BY <1>3, <1>4, <1>5, <1>6 DEF SocketsNext
<1> QED BY <1>2, <1>7 DEF SocketsInv

LEMMA AlwaysSocketsInv == SocketsSpec => []SocketsInv
<1>1. SocketsInit => SocketsInv
  BY InitSocketsInv, LedgerAssumption, DaemonAssumption, SocketsAssumption DEF SocketsAssumptions
<1>2. SocketsInv /\ [SocketsNext]_allVars => SocketsInv'
  BY StepSocketsInv, LedgerAssumption, DaemonAssumption, SocketsAssumption DEF SocketsAssumptions
<1> QED BY <1>1, <1>2, PTL DEF SocketsSpec

LEMMA InvAnswers ==
  ASSUME SocketsInv
  PROVE  AnsweredOnceWhereAsked
<1>1. SocketsParts
  BY DEF SocketsInv
<1>2. ASSUME NEW r \in Requests, origin[r] # None
      PROVE  /\ \E k \in DOMAIN written[origin[r].conn] :
                   origin[r].text = <<written[origin[r].conn][k]>>
             /\ \A other \in Requests \ {r} : origin[other] # origin[r]
             /\ job[r].pc = "answered" /\ conn[origin[r].conn] = "open" =>
                   [text |-> origin[r].text, outcome |-> job[r].outcome]
                       \in ToSet(replies[origin[r].conn])
  <2>1. \A other \in Requests \ {r} : origin[other] # origin[r]
    BY <1>1, <1>2 DEF SocketsParts, OneRequestPerLine
  <2>2. job[r].pc = "answered" /\ conn[origin[r].conn] = "open" =>
           ReplyTo(r) \in ToSet(replies[origin[r].conn])
    BY <1>1 DEF SocketsParts, AnsweredHaveReplies
  <2> QED BY <1>1, <1>2, <2>1, <2>2, RequestsComeConnected DEF ReplyTo
<1>3. \A c \in Conns : Len(replies[c]) <= Cardinality(AnsweredOn(c))
  BY <1>1 DEF SocketsParts, NoReplyTooMany
<1> QED BY <1>2, <1>3 DEF AnsweredOnceWhereAsked, AnsweredOn

-----------------------------------------------------------------------------
(* The theorems.                                                           *)

(* server.ts: what the server holds of its connections has its type, and   *)
(* the requests that have a connection are those that began.               *)
THEOREM SocketsTypeCorrect == SocketsSpec => []SocketsTypeOK
<1>1. SocketsInv => SocketsTypeOK
  BY DEF SocketsInv, SocketsParts
<1> QED BY <1>1, AlwaysSocketsInv, PTL

(***************************************************************************)
(* server.ts: however many connections there are, whatever chunks the      *)
(* bytes arrive in and whichever request finishes first, a message is      *)
(* handled at most once, and its own answer is written once, on its own    *)
(* connection, if that is open when the request ends.                      *)
(***************************************************************************)
THEOREM AnswersGoWhereAsked == SocketsSpec => []AnsweredOnceWhereAsked
<1>1. SocketsInv => AnsweredOnceWhereAsked
  BY InvAnswers
<1> QED BY <1>1, AlwaysSocketsInv, PTL

(***************************************************************************)
(* Behind its socket, where lines may be no requests, the daemon keeps     *)
(* what it promises of the requests themselves: authorizations within      *)
(* their limits, money that moved covered, answers that agree with the     *)
(* ledger, attempts numbered in order.                                     *)
(***************************************************************************)
THEOREM SocketsKeepTheDaemonsPromises ==
    SocketsSpec => [](/\ AuthorizedWithinLimits
                      /\ MovedIsCoveredOrRefused
                      /\ AnswerMatchesLedger
                      /\ AttemptsNumbered)
<1>1. SocketsInv => /\ AuthorizedWithinLimits
                    /\ MovedIsCoveredOrRefused
                    /\ AnswerMatchesLedger
                    /\ AttemptsNumbered
  BY InvLimits DEF SocketsInv, DaemonInv, DaemonParts
<1> QED BY <1>1, AlwaysSocketsInv, PTL

LEMMA CondemnedBehindTheSocket ==
  ASSUME SocketsAssumptions, SocketsInv, [SocketsNext]_allVars
  PROVE  [\A r \in Requests :
             Condemned(r) => \/ Condemned(r)'
                             \/ job'[r].pc \in Finished /\ ~ job'[r].sent]_vars
<1>1. DaemonInv /\ Assumptions /\ DaemonAssumption
  BY DEF SocketsInv, SocketsAssumptions, Assumptions
<1>2. CASE [Next]_vars
  BY <1>1, <1>2, CondemnedStaysSo
<1>3. ASSUME NEW r \in Requests, job[r].pc = "idle", TurnsAway(r)
      PROVE  \A q \in Requests : Condemned(q) => Condemned(q)'
  <2>1. ASSUME NEW q \in Requests, Condemned(q)
        PROVE  Condemned(q)'
    <3>1. q # r
      BY <1>3, <2>1 DEF Condemned
    <3>2. job'[q] = job[q] /\ revoked' = revoked
      BY <1>1, <1>3, <3>1 DEF TurnsAway, RefuseLine, FailLine, pathVars, DaemonInv, DaemonParts
    <3> QED BY <2>1, <3>2 DEF Condemned
  <2> QED BY <2>1
<1> QED BY <1>2, <1>3, SocketsStepTheDaemon

(* A revocation reaches the requests behind the socket as well.            *)
THEOREM RevocationReachesTheSocket == SocketsSpec => RevocationStopsRequests
<1>1. SocketsInv /\ [SocketsNext]_allVars =>
        [\A r \in Requests :
            Condemned(r) => \/ Condemned(r)'
                            \/ job'[r].pc \in Finished /\ ~ job'[r].sent]_vars
  BY CondemnedBehindTheSocket, LedgerAssumption, DaemonAssumption, SocketsAssumption
     DEF SocketsAssumptions
<1> QED BY <1>1, AlwaysSocketsInv, PTL DEF SocketsSpec, RevocationStopsRequests

(* And its agents stay within the allowance together, in every window.     *)
THEOREM SocketsStayWithinAllowance == SocketsSpec => []EveryWindowWithinAllowance
<1>1. SocketsInit => LedgerInit
  BY DEF SocketsInit, Init
<1>2. SocketsInv /\ [SocketsNext]_allVars => [LedgerNext]_ledgerVars
  BY StepSocketsInv, LedgerAssumption, DaemonAssumption, SocketsAssumption DEF SocketsAssumptions
<1>3. SocketsSpec => LedgerSpec
  BY <1>1, <1>2, AlwaysSocketsInv, PTL DEF SocketsSpec, LedgerSpec
<1> QED BY <1>3, PoolNeverExceeded, PTL

(* A line that is no request is a payment denied before it was asked for,  *)
(* or ignored by a process that fails over it.                             *)
LEMMA TurnedAwayPays ==
  ASSUME DaemonInv, NEW r \in Requests, job[r].pc = "idle", TurnsAway(r)
  PROVE  Promised!Deny(r) \/ Promised!Ignore(r)
<1>1. TypeOK /\ DaemonParts /\ job[r] \in Jobs
  BY DEF DaemonInv, DaemonParts
<1>2. /\ job[r].reservation = 0 /\ job[r].sent = FALSE
      /\ rows' = rows /\ moved' = moved
  BY WhatTurningAwayDoes DEF ledgerVars, pathVars
<1>3. PICK new \in Jobs : TurnedAway(new) /\ job' = [job EXCEPT ![r] = new]
  BY WhatTurningAwayDoes
<1>4. Promised!Stands(r, "new", "none", FALSE)
  BY <1>2, PaymentStands, Stages DEF Shown
<1>5. CASE new.pc = "answered"
  <2>1. Shown(new, rows') = [stage |-> "ended", budget |-> "none", sent |-> FALSE,
                             answer |-> "refused"]
    BY <1>3, <1>5, Stages DEF Shown, Finished, TurnedAway
  <2>2. Promised!Becomes(r, "ended", "none", FALSE, "refused")
    BY <1>1, <1>2, <1>3, <2>1, PaymentBecomes DEF TurnedAway
  <2> QED BY <1>4, <2>2 DEF Promised!Deny
<1>6. CASE new.pc = "dropped"
  <2>1. Shown(new, rows') = [stage |-> "ended", budget |-> "none", sent |-> FALSE,
                             answer |-> "none"]
    BY <1>3, <1>6, Stages DEF Shown, Finished, TurnedAway
  <2>2. Promised!Becomes(r, "ended", "none", FALSE, "none")
    BY <1>1, <1>2, <1>3, <2>1, PaymentBecomes DEF TurnedAway
  <2> QED BY <1>4, <2>2 DEF Promised!Ignore
<1> QED BY <1>3, <1>5, <1>6 DEF TurnedAway

(***************************************************************************)
(* server.ts in front of it changes nothing about a payment: however lines *)
(* are cut, misread, refused or cut off, each request behind the socket    *)
(* runs the course of one payment.                                         *)
(***************************************************************************)
THEOREM SocketsImplementPayment == SocketsSpec => ImplementsPayment
<1>1. SocketsInit => Promised!PaymentInit
  BY InitPays DEF SocketsInit
<1>2. SocketsInv /\ SocketsInv' /\ [SocketsNext]_allVars
        => [Promised!PaymentNext]_(Promised!paymentVars)
  <2> SUFFICES ASSUME SocketsInv, SocketsInv', [SocketsNext]_allVars
               PROVE  [Promised!PaymentNext]_(Promised!paymentVars)
    OBVIOUS
  <2>1. SocketsAssumptions /\ Assumptions /\ DaemonInv /\ DaemonInv'
    BY LedgerAssumption, DaemonAssumption, SocketsAssumption
       DEF SocketsAssumptions, Assumptions, SocketsInv
  <2>2. CASE [Next]_vars
    BY <2>1, <2>2, StepPays
  <2>3. ASSUME NEW r \in Requests, job[r].pc = "idle", TurnsAway(r)
        PROVE  Promised!PaymentNext
    BY <2>1, <2>3, TurnedAwayPays DEF Promised!PaymentNext, Promised!PaymentStep
  <2> QED BY <2>1, <2>2, <2>3, SocketsStepTheDaemon
<1> QED BY <1>1, <1>2, AlwaysSocketsInv, PTL DEF SocketsSpec, ImplementsPayment, Promised!PaymentSpec

=============================================================================
