-------------------------- MODULE LineSocket_proofs --------------------------
(***************************************************************************)
(* Proofs about LineSocket: the line buffer is large enough for all that   *)
(* stratum_recv_line does with it, the messages of the two senders do not  *)
(* mix, and no line is lost, for every size of the buffer, of recv, of the *)
(* lines and of the messages, and any number of them.                      *)
(***************************************************************************)
EXTENDS LineSocket, SequenceTheorems, WellFoundedInduction, TLAPS

Chars == Nat \X Nat

-----------------------------------------------------------------------------
(* Receiving                                                               *)

(* What holds of the receiving half: its types, and that the buffer fits.  *)
ReceivingOK ==
  /\ wire \in Seq(Chars) /\ sockbuf \in Seq(Chars) /\ lines \in Seq(Nat)
  /\ sockbuf_size \in Nat
  /\ BufferFits

(* A line is a sequence of characters. *)
LEMMA LineType == ASSUME NEW i \in Nat, NEW width \in Nat
                  PROVE  Line(i, width) \in Seq(Chars) /\ Len(Line(i, width)) = width + 1
BY DEF Line, NL, Chars

(* The buffer grows past the string and its NUL. *)
LEMMA GrownFits == ASSUME NEW n \in Nat, sockbuf_size \in Nat
                   PROVE  Grown(n) \in Nat /\ n < Grown(n)
<1>1. n % RBUFSIZE \in 0 .. RBUFSIZE - 1
  BY SizeAssumption
<1>. QED  BY <1>1, SizeAssumption DEF Grown

(* A set of natural numbers has a smallest element. *)
LEMMA Smallest == ASSUME NEW T \in SUBSET Nat, T # {}
                  PROVE  \E x \in T : \A y \in T : x <= y
<1>1. PICK x \in T : \A y \in T : <<y, x>> \notin OpToRel(<, Nat)
  <2>. DEFINE R == OpToRel(<, Nat)
  <2>1. IsWellFoundedOn(R, Nat)
    BY NatLessThanWellFounded
  <2>. HIDE DEF R
  <2>2. \E x \in T : \A y \in T : ~(<<y, x>> \in R)
    BY <2>1, WFMin, Zenon
  <2>. QED  BY <2>2 DEF R
<1>2. \A y \in T : ~(y < x)
  BY <1>1 DEF OpToRel
<1>. QED  BY <1>2

(* The token that strtok finds lies within the buffer. *)
LEMMA TokenWithin ==
  ASSUME sockbuf \in Seq(Chars), \E i \in DOMAIN sockbuf : sockbuf[i] # NL
  PROVE  /\ Skipped \in 0 .. Len(sockbuf) - 1
         /\ TokenEnd \in Skipped + 1 .. Len(sockbuf)
<1>. DEFINE letters == {i \in DOMAIN sockbuf : sockbuf[i] # NL}
<1>1. PICK first \in letters : \A i \in letters : first <= i
  <2>1. letters \in SUBSET Nat /\ letters # {}
    OBVIOUS
  <2>. HIDE DEF letters
  <2>. QED  BY <2>1, Smallest, Zenon
<1>2. /\ first - 1 \in 0 .. Len(sockbuf) - 1
      /\ sockbuf[(first - 1) + 1] # NL
      /\ \A i \in 1 .. first - 1 : sockbuf[i] = NL
  BY <1>1
<1>3. /\ Skipped \in 0 .. Len(sockbuf) - 1
      /\ sockbuf[Skipped + 1] # NL
  BY <1>2 DEF Skipped
<1>. DEFINE newlines == {i \in Skipped + 2 .. Len(sockbuf) : sockbuf[i] = NL}
<1>4. \E e \in Skipped + 1 .. Len(sockbuf) :
        /\ \A i \in Skipped + 1 .. e : sockbuf[i] # NL
        /\ e < Len(sockbuf) => sockbuf[e + 1] = NL
  <2>1. CASE newlines = {}
    BY <2>1, <1>3
  <2>2. CASE newlines # {}
    <3>1. newlines \in SUBSET Nat
      BY <1>3
    <3>2. PICK next \in newlines : \A i \in newlines : next <= i
      <4>. HIDE DEF newlines
      <4>. QED  BY <3>1, <2>2, Smallest, Zenon
    <3>3. next - 1 \in Skipped + 1 .. Len(sockbuf)
      BY <3>2, <1>3
    <3>4. \A i \in Skipped + 1 .. next - 1 : sockbuf[i] # NL
      BY <3>2, <1>3
    <3>5. next - 1 < Len(sockbuf) => sockbuf[(next - 1) + 1] = NL
      BY <3>2, <1>3
    <3>. QED  BY <3>3, <3>4, <3>5
  <2>. QED  BY <2>1, <2>2
<1>. HIDE DEF newlines, letters
<1>5. TokenEnd \in Skipped + 1 .. Len(sockbuf)
  BY <1>4 DEF TokenEnd
<1>. QED  BY <1>3, <1>5

(* What is left in the buffer is shorter than what was in it. *)
LEMMA RestShorter ==
  ASSUME sockbuf \in Seq(Chars), \E i \in DOMAIN sockbuf : sockbuf[i] # NL
  PROVE  Rest \in Seq(Chars) /\ Len(Rest) <= Len(sockbuf)
<1>. DEFINE len == TokenEnd - Skipped
<1>1. /\ Skipped \in 0 .. Len(sockbuf) - 1
      /\ TokenEnd \in Skipped + 1 .. Len(sockbuf)
  BY TokenWithin
<1>2. \A last \in 0 .. Len(sockbuf) :
        /\ SubSeq(sockbuf, len + 2, last) \in Seq(Chars)
        /\ Len(SubSeq(sockbuf, len + 2, last)) <= Len(sockbuf)
  BY <1>1
<1>. QED  BY <1>1, <1>2 DEF Rest

LEMMA InitReceiving == Init => ReceivingOK
BY SizeAssumption DEF Init, ReceivingOK, BufferFits

LEMMA NextReceiving == ReceivingOK /\ [Next]_vars => ReceivingOK'
<1>. SUFFICES ASSUME ReceivingOK, [Next]_vars
              PROVE  ReceivingOK'
  OBVIOUS
<1>. USE DEF ReceivingOK, BufferFits
<1>1. ASSUME NEW width \in Widths, PoolWrite(width)
      PROVE  ReceivingOK'
  <2>1. lines' \in Seq(Nat) /\ Len(lines') \in Nat /\ width \in Nat
    BY <1>1, SizeAssumption DEF PoolWrite
  <2>2. wire' \in Seq(Chars)
    BY <2>1, <1>1, LineType DEF PoolWrite
  <2>. QED  BY <2>1, <2>2, <1>1 DEF PoolWrite
<1>2. ASSUME RecvLine
      PROVE  ReceivingOK'
  BY <1>2 DEF RecvLine, history
<1>3. ASSUME Receive
      PROVE  ReceivingOK'
  <2>1. PICK n \in 1 .. Len(wire) : /\ sockbuf' = sockbuf \o SubSeq(wire, 1, n)
                                    /\ wire' = SubSeq(wire, n + 1, Len(wire))
    BY <1>3 DEF Receive
  <2>2. sockbuf' \in Seq(Chars) /\ wire' \in Seq(Chars) /\ Len(sockbuf') + 1 \in Nat
    BY <2>1
  <2>3. sockbuf_size' = Grown(Len(sockbuf') + 1) /\ lines' = lines
    BY <1>3 DEF Receive
  <2>. QED  BY <2>2, <2>3, GrownFits
<1>4. ASSUME Token
      PROVE  ReceivingOK'
  BY <1>4, RestShorter DEF Token
<1>5. ASSUME Reconnect
      PROVE  ReceivingOK'
  BY <1>5 DEF Reconnect
<1>6. ASSUME NEW p \in Senders, Sender(p)
      PROVE  ReceivingOK'
  <2>1. UNCHANGED receiving
    BY <1>6 DEF Sender, SendLine, Send, SendFails
  <2>. QED  BY <2>1 DEF receiving, history
<1>7. ASSUME UNCHANGED vars
      PROVE  ReceivingOK'
  BY <1>7 DEF vars, receiving, history
<1>. QED  BY <1>1, <1>2, <1>3, <1>4, <1>5, <1>6, <1>7
          DEF Next, Reader, Timeout, RecvFails, NoToken

(* The buffer of stratum_recv_line holds its string, the NUL and the byte  *)
(* more that memmove touches, however the pool's characters arrive.        *)
THEOREM BufferAlwaysFits == Spec => []BufferFits
<1>1. Init => ReceivingOK
  BY InitReceiving
<1>2. ReceivingOK /\ [Next]_vars => ReceivingOK'
  BY NextReceiving
<1>3. ReceivingOK => BufferFits
  BY DEF ReceivingOK
<1>. QED  BY <1>1, <1>2, <1>3, PTL DEF Spec

-----------------------------------------------------------------------------
(* Sending                                                                 *)

(* The character at i follows what a message has before it, or starts one. *)
Follows(i) ==
  \E p \in Senders, k \in 1 .. Length + 1 :
    /\ out[i] = Line(p, Length)[k]
    /\ k = 1 => i = 1 \/ out[i - 1] = NL
    /\ k > 1 => i > 1 /\ out[i - 1] = <<p, k - 1>>

(* How far the message under way has come, as what was written last shows. *)
LastSent ==
  IF sock_lock = Nobody \/ sent = 0
  THEN out = << >> \/ out[Len(out)] = NL
  ELSE out # << >> /\ out[Len(out)] = <<sock_lock, sent>>

SendingOK ==
  /\ out \in Seq(Chars) /\ sock_lock \in Senders \cup {Nobody} /\ cut \in BOOLEAN
  /\ sent \in Nat /\ (sock_lock # Nobody => sent <= Length)
  /\ ~cut => LastSent /\ \A i \in 1 .. Len(out) : Follows(i)

LEMMA SameFollows == ASSUME out' = out, NEW i \in 1 .. Len(out), Follows(i)
                     PROVE  Follows(i)'
BY Zenon DEF Follows

LEMMA InitSending == Init => SendingOK
<1>. SUFFICES ASSUME Init
              PROVE  SendingOK
  OBVIOUS
<1>1. out = << >> /\ sock_lock = Nobody /\ sent = 0 /\ cut \in BOOLEAN
  BY Zenon DEF Init
<1>2. out \in Seq(Chars) /\ 1 .. Len(out) = {} /\ sent \in Nat
  BY <1>1
<1>3. LastSent /\ \A i \in 1 .. Len(out) : Follows(i)
  BY <1>1, <1>2, Zenon DEF LastSent
<1>. QED  BY <1>1, <1>2, <1>3, Zenon DEF SendingOK

LEMMA SendSending == ASSUME SendingOK, NEW p \in Senders, Send(p)
                     PROVE  SendingOK'
<1>. DEFINE line == Line(p, Length)
<1>1. PICK n \in 1 .. Length + 1 - sent :
        sent' = sent + n /\ out' = out \o SubSeq(line, sent + 1, sent + n)
  BY DEF Send
<1>2. /\ p \in Nat /\ p # Nobody /\ Length \in Nat \ {0} /\ sock_lock = p /\ sent \in Nat
      /\ out \in Seq(Chars) /\ cut' = cut /\ sent <= Length
      /\ sock_lock' = IF sent' = Length + 1 THEN Nobody ELSE p
  BY SizeAssumption DEF Send, Senders, Stratum, Workio, Nobody, SendingOK
<1>3. line \in Seq(Chars) /\ Len(line) = Length + 1
  BY <1>2, LineType
<1>4. /\ \A k \in 1 .. Length : line[k] = <<p, k>>
      /\ line[Length + 1] = NL
  BY <1>2 DEF Line
<1>. DEFINE more == SubSeq(line, sent + 1, sent + n)
<1>. HIDE DEF line
<1>5. /\ more \in Seq(Chars) /\ Len(more) = n
      /\ \A j \in 1 .. n : more[j] = line[sent + j]
  BY <1>1, <1>2, <1>3
<1>. HIDE DEF more
<1>6. /\ out' \in Seq(Chars) /\ Len(out') = Len(out) + n
      /\ \A i \in 1 .. Len(out) : out'[i] = out[i]
      /\ \A j \in 1 .. n : out'[Len(out) + j] = line[sent + j]
  BY <1>1, <1>2, <1>5 DEF more
<1>7. sent' \in Nat /\ (sock_lock' # Nobody => sent' <= Length)
  BY <1>1, <1>2
<1>8. ASSUME ~cut
      PROVE  LastSent'
  <2>1. out'[Len(out')] = line[sent'] /\ out' # << >>
    <3>1. n \in 1 .. n /\ Len(out') = Len(out) + n /\ Len(out') # 0 /\ sent' = sent + n
      BY <1>1, <1>2, <1>6
    <3>2. out'[Len(out) + n] = line[sent + n]
      BY <3>1, <1>6
    <3>. QED  BY <3>1, <3>2
  <2>2. CASE sent' = Length + 1
    <3>1. sock_lock' = Nobody /\ out'[Len(out')] = NL
      BY <2>1, <2>2, <1>2, <1>4
    <3>. QED  BY <3>1, Zenon DEF LastSent
  <2>3. CASE sent' # Length + 1
    <3>1. sent' \in 1 .. Length /\ sock_lock' = p
      BY <2>3, <1>1, <1>2
    <3>2. out'[Len(out')] = <<p, sent'>> /\ sent' # 0
      BY <2>1, <3>1, <1>4
    <3>. QED  BY <3>1, <3>2, <2>1, <1>2, Zenon DEF LastSent
  <2>. QED  BY <2>2, <2>3
<1>9. ASSUME ~cut, NEW i \in 1 .. Len(out')
      PROVE  Follows(i)'
  <2>1. CASE i \in 1 .. Len(out)
    <3>1. Follows(i)
      BY <2>1, <1>9 DEF SendingOK
    <3>2. out'[i] = out[i] /\ (i > 1 => i - 1 \in 1 .. Len(out) /\ out'[i - 1] = out[i - 1])
      BY <2>1, <1>2, <1>6
    <3>3. PICK q \in Senders, k \in 1 .. Length + 1 :
            /\ out[i] = Line(q, Length)[k]
            /\ k = 1 => i = 1 \/ out[i - 1] = NL
            /\ k > 1 => i > 1 /\ out[i - 1] = <<q, k - 1>>
      BY <3>1, Zenon DEF Follows
    <3>4. Len(out) \in Nat /\ i \in Nat /\ i >= 1
      BY <2>1, <1>2
    <3>5. k = 1 => i = 1 \/ out'[i - 1] = NL
      BY <3>2, <3>3, <3>4
    <3>6. k > 1 => i > 1 /\ out'[i - 1] = <<q, k - 1>>
      BY <3>2, <3>3, <3>4
    <3>7. out'[i] = Line(q, Length)[k]
      BY <3>2, <3>3
    <3>. QED  BY <3>5, <3>6, <3>7, Zenon DEF Follows
  <2>2. CASE i \notin 1 .. Len(out)
    <3>1. PICK j \in 1 .. n : i = Len(out) + j
      <4>1. i - Len(out) \in 1 .. n
        BY <2>2, <1>2, <1>6
      <4>. QED  BY <4>1, <1>2
    <3>2. sent + j \in 1 .. Length + 1 /\ out'[i] = line[sent + j]
      <4>1. sent + j \in 1 .. Length + 1
        BY <3>1, <1>1, <1>2
      <4>2. out'[Len(out) + j] = line[sent + j]
        BY <3>1, <1>6
      <4>. QED  BY <4>1, <4>2, <3>1
    <3>3. /\ sent + j = 1 => i = 1 \/ out'[i - 1] = NL
          /\ sent + j > 1 => i > 1 /\ out'[i - 1] = <<p, sent + j - 1>>
      <4>1. CASE j = 1
        <5>1. i - 1 = Len(out) /\ (i > 1 => out'[i - 1] = out[Len(out)])
          <6>1. i = Len(out) + 1 /\ Len(out) \in Nat
            BY <4>1, <3>1, <1>2
          <6>2. i > 1 => Len(out) \in 1 .. Len(out)
            BY <6>1
          <6>. QED  BY <6>1, <6>2, <1>6
        <5>2. LastSent
          BY <1>9 DEF SendingOK
        <5>3. CASE sent = 0
          <6>1. out = << >> \/ out[Len(out)] = NL
            BY <5>2, <5>3, Zenon DEF LastSent
          <6>. QED  BY <6>1, <4>1, <5>1, <5>3, <3>1, <1>2
        <5>4. CASE sent # 0
          <6>1. out # << >> /\ out[Len(out)] = <<p, sent>>
            BY <5>2, <5>4, <1>2, Zenon DEF LastSent
          <6>. QED  BY <6>1, <4>1, <5>1, <5>4, <3>1, <1>2
        <5>. QED  BY <5>3, <5>4
      <4>2. CASE j # 1
        <5>1. j - 1 \in 1 .. n /\ i - 1 = Len(out) + (j - 1) /\ i > 1
          BY <4>2, <3>1, <1>2
        <5>2. out'[i - 1] = line[sent + (j - 1)]
          BY <5>1, <1>6
        <5>3. sent + (j - 1) \in 1 .. Length
          BY <5>1, <1>1, <1>2
        <5>. QED  BY <5>1, <5>2, <5>3, <1>2, <1>4
      <4>. QED  BY <4>1, <4>2
    <3>4. out'[i] = Line(p, Length)[sent + j]
      BY <3>2 DEF line
    <3>5. \E q \in Senders, k \in 1 .. Length + 1 :
            /\ out'[i] = Line(q, Length)[k]
            /\ k = 1 => i = 1 \/ out'[i - 1] = NL
            /\ k > 1 => i > 1 /\ out'[i - 1] = <<q, k - 1>>
      <4>1. PICK k \in 1 .. Length + 1 : k = sent + j
        BY <3>2
      <4>2. out'[i] = Line(p, Length)[k]
        BY <4>1, <3>4
      <4>3. /\ k = 1 => i = 1 \/ out'[i - 1] = NL
            /\ k > 1 => i > 1 /\ out'[i - 1] = <<p, k - 1>>
        BY <4>1, <3>3, <1>2
      <4>. QED  BY <4>2, <4>3, Zenon
    <3>. QED  BY <3>5, Zenon DEF Follows
  <2>. QED  BY <2>1, <2>2
<1>. QED  BY <1>2, <1>6, <1>7, <1>8, <1>9 DEF SendingOK

LEMMA NextSending == SendingOK /\ [Next]_vars => SendingOK'
<1>. SUFFICES ASSUME SendingOK, [Next]_vars
              PROVE  SendingOK'
  OBVIOUS
<1>1. ASSUME NEW p \in Senders, Send(p)
      PROVE  SendingOK'
  BY <1>1, SendSending
<1>2. ASSUME NEW p \in Senders, SendLine(p)
      PROVE  SendingOK'
  <2>1. /\ sock_lock = Nobody /\ sock_lock' = p /\ sent' = 0
        /\ out' = out /\ cut' = cut
    BY <1>2 DEF SendLine
  <2>2. ~cut => LastSent'
    BY <2>1, Zenon DEF SendingOK, LastSent
  <2>3. ~cut => \A i \in 1 .. Len(out) : Follows(i)'
    BY <2>1, SameFollows DEF SendingOK
  <2>. QED  BY <2>1, <2>2, <2>3, SizeAssumption DEF SendingOK
<1>3. ASSUME NEW p \in Senders, SendFails(p)
      PROVE  SendingOK'
  <2>1. /\ sock_lock = p /\ sock_lock' = Nobody /\ sent' = sent
        /\ out' = out /\ cut' = (cut \/ sent > 0)
    BY <1>3 DEF SendFails
  <2>2. ~cut' => ~cut /\ sent = 0
    <3>1. ~cut' => ~cut /\ ~(sent > 0)
      BY <2>1, Zenon
    <3>2. ~(sent > 0) => sent = 0
      BY DEF SendingOK
    <3>. QED  BY <3>1, <3>2, Zenon
  <2>3. ~cut' => LastSent'
    BY <2>1, <2>2, Zenon DEF SendingOK, LastSent
  <2>4. ~cut' => \A i \in 1 .. Len(out) : Follows(i)'
    BY <2>1, <2>2, SameFollows DEF SendingOK
  <2>. QED  BY <2>1, <2>3, <2>4 DEF SendingOK
<1>4. ASSUME Reconnect
      PROVE  SendingOK'
  <2>1. out' = << >> /\ sock_lock' = Nobody /\ sent' = sent /\ cut' \in BOOLEAN
    BY <1>4, Zenon DEF Reconnect
  <2>2. out' \in Seq(Chars) /\ 1 .. Len(out') = {} /\ sent' \in Nat
    BY <2>1 DEF SendingOK
  <2>3. LastSent' /\ \A i \in 1 .. Len(out') : Follows(i)'
    BY <2>1, <2>2, Zenon DEF LastSent
  <2>. QED  BY <2>1, <2>2, <2>3, Zenon DEF SendingOK
<1>5. ASSUME UNCHANGED sending
      PROVE  SendingOK'
  <2>1. sock_lock' = sock_lock /\ sent' = sent /\ out' = out /\ cut' = cut
    BY <1>5 DEF sending
  <2>2. ~cut => LastSent'
    BY <2>1, Zenon DEF SendingOK, LastSent
  <2>3. ~cut => \A i \in 1 .. Len(out) : Follows(i)'
    BY <2>1, SameFollows DEF SendingOK
  <2>. QED  BY <2>1, <2>2, <2>3 DEF SendingOK
<1>. QED  BY <1>1, <1>2, <1>3, <1>4, <1>5
          DEF Next, Reader, Sender, Timeout, RecvFails, NoToken,
              PoolWrite, RecvLine, Receive, Token, vars

(* sock_lock keeps the messages of the stratum thread and of the workio    *)
(* thread apart, however send cuts them: only a message that was given up  *)
(* half way spoils the next.                                               *)
THEOREM MessagesAlwaysApart == Spec => []MessagesApart
<1>1. Init => SendingOK
  BY InitSending
<1>2. SendingOK /\ [Next]_vars => SendingOK'
  BY NextSending
<1>3. SendingOK => MessagesApart
  <2>1. SendingOK => DOMAIN out = 1 .. Len(out)
    BY DEF SendingOK
  <2>. QED  BY <2>1, Zenon DEF SendingOK, MessagesApart, Follows
<1>. QED  BY <1>1, <1>2, <1>3, PTL DEF Spec

-----------------------------------------------------------------------------
(* No line is lost                                                         *)

(* Induction on the numbers up to n, for a set of them.                    *)
LEMMA UpTo ==
  ASSUME NEW S, NEW n \in Nat, 0 \in S,
         \A i \in 0 .. n : i < n /\ i \in S => i + 1 \in S
  PROVE  \A i \in 0 .. n : i \in S
<1>. DEFINE T == {i \in 0 .. n : i \notin S}
<1>. SUFFICES ASSUME T # {} PROVE FALSE
  OBVIOUS
<1>1. PICK m \in T : \A i \in T : m <= i
  <2>1. T \in SUBSET Nat
    OBVIOUS
  <2>. HIDE DEF T
  <2>. QED  BY <2>1, Smallest, Zenon
<1>2. m # 0 /\ m \in 0 .. n
  OBVIOUS
<1>3. m - 1 \in 0 .. n /\ m - 1 < n /\ m - 1 \in S
  BY <1>1, <1>2
<1>4. (m - 1) + 1 \in S
  BY <1>3
<1>. QED  BY <1>2, <1>4

(* The characters of the lines ls from number r on, up to number i: the    *)
(* function that NothingLost defines, for any ls and r.                    *)
StepOf(f, ls, r, i) ==
  IF i = 0 THEN << >>
  ELSE IF i <= r THEN f[i - 1] ELSE f[i - 1] \o Line(i, ls[i])
IsPending(f, ls, r, n) == f = [i \in 0 .. n |-> StepOf(f, ls, r, i)]
Pending(ls, r) == CHOOSE f : IsPending(f, ls, r, Len(ls))

LEMMA PendingExists ==
  ASSUME NEW ls, NEW r, NEW n \in Nat
  PROVE  \E f : IsPending(f, ls, r, n)
<1>. DEFINE S == {k \in 0 .. n : \E f : IsPending(f, ls, r, k)}
<1>1. 0 \in S
  <2>1. IsPending([i \in 0 .. 0 |-> << >>], ls, r, 0)
    BY DEF IsPending, StepOf
  <2>. QED  BY <2>1
<1>2. ASSUME NEW k \in 0 .. n, k < n, k \in S
      PROVE  k + 1 \in S
  <2>1. PICK g : IsPending(g, ls, r, k)
    BY <1>2
  <2>. DEFINE f == [i \in 0 .. k + 1 |-> IF i <= k THEN g[i] ELSE StepOf(g, ls, r, i)]
  <2>2. ASSUME NEW i \in 0 .. k + 1
        PROVE  f[i] = StepOf(f, ls, r, i)
    <3>1. f[i] = StepOf(g, ls, r, i)
      BY <2>1 DEF IsPending
    <3>2. i # 0 => f[i - 1] = g[i - 1]
      OBVIOUS
    <3>. HIDE DEF f
    <3>. QED  BY <3>1, <3>2 DEF StepOf
  <2>3. f = [i \in 0 .. k + 1 |-> f[i]]
    OBVIOUS
  <2>4. IsPending(f, ls, r, k + 1)
    <3>. HIDE DEF f
    <3>. QED  BY <2>2, <2>3 DEF IsPending
  <2>. QED  BY <2>4, <1>2
<1>3. \A i \in 0 .. n : i \in S
  <2>. HIDE DEF S
  <2>. QED  BY <1>1, <1>2, UpTo
<1>. QED  BY <1>3

LEMMA PendingSteps ==
  ASSUME NEW ls \in Seq(Nat), NEW r \in Nat
  PROVE  /\ Pending(ls, r)[0] = << >>
         /\ \A i \in 1 .. Len(ls) :
              Pending(ls, r)[i] = IF i <= r THEN Pending(ls, r)[i - 1]
                                  ELSE Pending(ls, r)[i - 1] \o Line(i, ls[i])
<1>. DEFINE f == Pending(ls, r)
<1>1. IsPending(f, ls, r, Len(ls))
  <2>1. Len(ls) \in Nat
    OBVIOUS
  <2>2. \E h : IsPending(h, ls, r, Len(ls))
    BY <2>1, PendingExists
  <2>. QED  BY <2>2, Zenon DEF Pending
<1>2. \A i \in 0 .. Len(ls) : f[i] = StepOf(f, ls, r, i)
  <2>. HIDE DEF f
  <2>. QED  BY <1>1 DEF IsPending
<1>. HIDE DEF f
<1>3. f[0] = << >> /\ \A i \in 1 .. Len(ls) :
        f[i] = IF i <= r THEN f[i - 1] ELSE f[i - 1] \o Line(i, ls[i])
  BY <1>2 DEF StepOf
<1>. QED  BY <1>3 DEF f

LEMMA PendingType ==
  ASSUME NEW ls \in Seq(Nat), NEW r \in Nat
  PROVE  \A i \in 0 .. Len(ls) : Pending(ls, r)[i] \in Seq(Chars)
<1>. DEFINE f == Pending(ls, r)
            S == {i \in 0 .. Len(ls) : f[i] \in Seq(Chars)}
<1>0. Len(ls) \in Nat
  OBVIOUS
<1>1. 0 \in S
  <2>1. f[0] = << >>
    BY PendingSteps
  <2>2. << >> \in Seq(Chars)
    BY EmptySeq
  <2>3. f[0] \in Seq(Chars)
    <3>. HIDE DEF f
    <3>. QED  BY <2>1, <2>2
  <2>. QED  BY <1>0, <2>3
<1>2. ASSUME NEW i \in 0 .. Len(ls), i < Len(ls), i \in S
      PROVE  i + 1 \in S
  <2>0. i + 1 \in 1 .. Len(ls) /\ i + 1 \in Nat /\ ls[i + 1] \in Nat
    BY <1>0, <1>2
  <2>1. Line(i + 1, ls[i + 1]) \in Seq(Chars)
    BY <2>0, LineType
  <2>2. f[i + 1] = IF i + 1 <= r THEN f[i] ELSE f[i] \o Line(i + 1, ls[i + 1])
    BY <1>2, PendingSteps
  <2>3. f[i] \in Seq(Chars)
    BY <1>2
  <2>4. f[i + 1] \in Seq(Chars)
    <3>. HIDE DEF f
    <3>. QED  BY <2>1, <2>2, <2>3
  <2>. QED  BY <2>0, <2>4
<1>3. \A i \in 0 .. Len(ls) : i \in S
  <2>. HIDE DEF S
  <2>. QED  BY <1>0, <1>1, <1>2, UpTo
<1>. QED  BY <1>3

(* Nothing is pending of the lines that were returned. *)
LEMMA PendingNone ==
  ASSUME NEW ls \in Seq(Nat), NEW r \in Nat
  PROVE  \A i \in 0 .. Len(ls) : i <= r => Pending(ls, r)[i] = << >>
<1>. DEFINE f == Pending(ls, r)
            S == {i \in 0 .. Len(ls) : i <= r => f[i] = << >>}
<1>0. Len(ls) \in Nat
  OBVIOUS
<1>1. 0 \in S
  BY PendingSteps
<1>2. ASSUME NEW i \in 0 .. Len(ls), i < Len(ls), i \in S
      PROVE  i + 1 \in S
  <2>1. i + 1 <= r => f[i + 1] = f[i]
    BY <1>2, PendingSteps
  <2>2. i <= r => f[i] = << >>
    BY <1>2
  <2>. HIDE DEF f
  <2>. QED  BY <1>2, <2>1, <2>2
<1>3. \A i \in 0 .. Len(ls) : i \in S
  <2>. HIDE DEF S
  <2>. QED  BY <1>0, <1>1, <1>2, UpTo
<1>. QED  BY <1>3

(* A line that is written comes last. *)
LEMMA PendingWritten ==
  ASSUME NEW ls \in Seq(Nat), NEW width \in Nat, NEW r \in Nat, r <= Len(ls)
  PROVE  Pending(Append(ls, width), r)[Len(ls) + 1]
           = Pending(ls, r)[Len(ls)] \o Line(Len(ls) + 1, width)
<1>. DEFINE more == Append(ls, width)
            f == Pending(ls, r)
            g == Pending(more, r)
            S == {i \in 0 .. Len(ls) : g[i] = f[i]}
<1>0. /\ more \in Seq(Nat) /\ Len(more) = Len(ls) + 1 /\ more[Len(ls) + 1] = width
      /\ \A i \in 1 .. Len(ls) : more[i] = ls[i]
      /\ Len(ls) \in Nat
  OBVIOUS
<1>. HIDE DEF more
<1>1. 0 \in S
  BY <1>0, PendingSteps
<1>2. ASSUME NEW i \in 0 .. Len(ls), i < Len(ls), i \in S
      PROVE  i + 1 \in S
  <2>0. i + 1 \in 1 .. Len(ls) /\ i + 1 \in 1 .. Len(more) /\ (i + 1) - 1 = i
    BY <1>0, <1>2
  <2>1. f[i + 1] = IF i + 1 <= r THEN f[i] ELSE f[i] \o Line(i + 1, ls[i + 1])
    BY <2>0, PendingSteps
  <2>2. g[i + 1] = IF i + 1 <= r THEN g[i] ELSE g[i] \o Line(i + 1, more[i + 1])
    BY <1>0, <2>0, PendingSteps
  <2>3. g[i] = f[i] /\ more[i + 1] = ls[i + 1]
    BY <1>0, <2>0, <1>2
  <2>. HIDE DEF f, g
  <2>. QED  BY <1>2, <2>1, <2>2, <2>3
<1>3. \A i \in 0 .. Len(ls) : i \in S
  <2>. HIDE DEF S
  <2>. QED  BY <1>0, <1>1, <1>2, UpTo
<1>4. g[Len(ls)] = f[Len(ls)]
  BY <1>3
<1>5. g[Len(ls) + 1] = g[Len(ls)] \o Line(Len(ls) + 1, more[Len(ls) + 1])
  <2>1. /\ Len(ls) + 1 \in 1 .. Len(more) /\ (Len(ls) + 1) - 1 = Len(ls)
        /\ ~(Len(ls) + 1 <= r)
    BY <1>0
  <2>. QED  BY <1>0, <2>1, PendingSteps
<1>. QED  BY <1>0, <1>4, <1>5 DEF more

(* The first pending line is the one after those returned. *)
LEMMA PendingFirst ==
  ASSUME NEW ls \in Seq(Nat), NEW r \in Nat, r < Len(ls)
  PROVE  Pending(ls, r)[Len(ls)]
           = Line(r + 1, ls[r + 1]) \o Pending(ls, r + 1)[Len(ls)]
<1>. DEFINE f == Pending(ls, r)
            g == Pending(ls, r + 1)
            head == Line(r + 1, ls[r + 1])
            S == {i \in 0 .. Len(ls) : r < i => f[i] = head \o g[i]}
<1>0. Len(ls) \in Nat /\ r + 1 \in 1 .. Len(ls) /\ r + 1 \in Nat /\ ls[r + 1] \in Nat
  OBVIOUS
<1>h. head \in Seq(Chars)
  BY <1>0, LineType
<1>1. 0 \in S
  <2>. HIDE DEF f, g, head
  <2>. QED  BY <1>0
<1>2. ASSUME NEW i \in 0 .. Len(ls), i < Len(ls), i \in S
      PROVE  i + 1 \in S
  <2>0. i + 1 \in 1 .. Len(ls) /\ (i + 1) - 1 = i /\ i + 1 \in Nat /\ ls[i + 1] \in Nat
    BY <1>0, <1>2
  <2>1. f[i + 1] = IF i + 1 <= r THEN f[i] ELSE f[i] \o Line(i + 1, ls[i + 1])
    BY <1>0, <2>0, PendingSteps
  <2>2. g[i + 1] = IF i + 1 <= r + 1 THEN g[i] ELSE g[i] \o Line(i + 1, ls[i + 1])
    BY <1>0, <2>0, PendingSteps
  <2>3. CASE i < r
    <3>. HIDE DEF f, g, head
    <3>. QED  BY <1>2, <2>0, <2>3
  <2>4. CASE i = r
    <3>1. f[i] = << >> /\ g[i] = << >>
      BY <1>2, <2>4, PendingNone
    <3>2. f[i + 1] = << >> \o head /\ g[i + 1] = << >>
      <4>. HIDE DEF f, g
      <4>. QED  BY <2>1, <2>2, <2>4, <3>1
    <3>3. f[i + 1] = head /\ head \o << >> = head
      <4>. HIDE DEF f, g, head
      <4>. QED  BY <1>h, <3>2, ConcatEmptySeq
    <3>4. f[i + 1] = head \o g[i + 1]
      <4>. HIDE DEF f, g, head
      <4>. QED  BY <3>2, <3>3
    <3>. HIDE DEF f, g, head
    <3>. QED  BY <1>2, <2>0, <3>4
  <2>5. CASE r < i
    <3>1. f[i] = head \o g[i]
      BY <1>2, <2>5
    <3>2. g[i] \in Seq(Chars) /\ Line(i + 1, ls[i + 1]) \in Seq(Chars)
      BY <1>0, <2>0, PendingType, LineType
    <3>3. f[i + 1] = f[i] \o Line(i + 1, ls[i + 1]) /\ g[i + 1] = g[i] \o Line(i + 1, ls[i + 1])
      <4>. HIDE DEF f, g
      <4>1. ~(i + 1 <= r) /\ ~(i + 1 <= r + 1)
        BY <1>0, <1>2, <2>5
      <4>. QED  BY <2>1, <2>2, <4>1
    <3>h. head \in Seq(Chars)
      BY <1>h
    <3>4. (head \o g[i]) \o Line(i + 1, ls[i + 1]) = head \o (g[i] \o Line(i + 1, ls[i + 1]))
      <4>1. \A a, b, c \in Seq(Chars) : (a \o b) \o c = a \o (b \o c)
        BY ConcatAssociative
      <4>. HIDE DEF f, g, head
      <4>. QED  BY <3>h, <3>2, <4>1
    <3>5. f[i + 1] = head \o g[i + 1]
      <4>. HIDE DEF f, g, head
      <4>. QED  BY <3>1, <3>3, <3>4
    <3>. HIDE DEF f, g, head
    <3>. QED  BY <1>0, <2>0, <3>5
  <2>. HIDE DEF S
  <2>6. i < r \/ i = r \/ r < i
    BY <1>0
  <2>. QED  BY <2>3, <2>4, <2>5, <2>6
<1>3. \A i \in 0 .. Len(ls) : i \in S
  <2>. HIDE DEF S
  <2>. QED  BY <1>0, <1>1, <1>2, UpTo
<1>4. r < Len(ls) => f[Len(ls)] = head \o g[Len(ls)]
  <2>. HIDE DEF f, g, head
  <2>. QED  BY <1>0, <1>3
<1>. QED  BY <1>4

LEMMA ConcatAt ==
  ASSUME NEW s \in Seq(Chars), NEW t \in Seq(Chars)
  PROVE  /\ s \o t \in Seq(Chars) /\ Len(s \o t) = Len(s) + Len(t)
         /\ \A i \in 1 .. Len(s) : (s \o t)[i] = s[i]
         /\ \A i \in 1 .. Len(t) : (s \o t)[Len(s) + i] = t[i]
<1>1. /\ s \o t \in Seq(Chars) /\ Len(s \o t) = Len(s) + Len(t)
      /\ \A i \in 1 .. Len(s) + Len(t) :
           (s \o t)[i] = IF i <= Len(s) THEN s[i] ELSE t[i - Len(s)]
  BY ConcatProperties
<1>2. ASSUME NEW i \in 1 .. Len(s)
      PROVE  (s \o t)[i] = s[i]
  <2>1. i \in 1 .. Len(s) + Len(t) /\ i <= Len(s)
    OBVIOUS
  <2>. QED  BY <1>1, <2>1
<1>3. ASSUME NEW i \in 1 .. Len(t)
      PROVE  (s \o t)[Len(s) + i] = t[i]
  <2>1. /\ Len(s) + i \in 1 .. Len(s) + Len(t) /\ ~(Len(s) + i <= Len(s))
        /\ (Len(s) + i) - Len(s) = i
    OBVIOUS
  <2>. QED  BY <1>1, <2>1
<1>. QED  BY <1>1, <1>2, <1>3

(* When the first pending line is in sockbuf as far as its newline, strtok *)
(* finds just it, and what follows it is left.                             *)
LEMMA TokenIsLine ==
  ASSUME sockbuf \in Seq(Chars), wire \in Seq(Chars), Has(sockbuf, NL),
         NEW x \in Nat \ {0}, NEW width \in Nat \ {0}, NEW rest \in Seq(Chars),
         sockbuf \o wire = Line(x, width) \o rest
  PROVE  /\ \E i \in DOMAIN sockbuf : sockbuf[i] # NL
         /\ SubSeq(sockbuf, Skipped + 1, TokenEnd) = SubSeq(Line(x, width), 1, width)
         /\ Rest \o wire = rest
<1>. DEFINE line == Line(x, width)
            both == sockbuf \o wire
<1>1. /\ line \in Seq(Chars) /\ Len(line) = width + 1
      /\ \A i \in 1 .. width : line[i] # NL
      /\ line[width + 1] = NL
  BY LineType DEF Line, NL
<1>2. both = line \o rest
  OBVIOUS
<1>. HIDE DEF line
<1>3. /\ Len(both) = Len(sockbuf) + Len(wire)
      /\ \A i \in 1 .. Len(sockbuf) : both[i] = sockbuf[i]
      /\ \A i \in 1 .. Len(wire) : both[Len(sockbuf) + i] = wire[i]
  BY ConcatAt
<1>4. /\ Len(both) = width + 1 + Len(rest)
      /\ \A i \in 1 .. width + 1 : both[i] = line[i]
      /\ \A i \in 1 .. Len(rest) : both[width + 1 + i] = rest[i]
  <2>. HIDE DEF both
  <2>1. /\ Len(line \o rest) = width + 1 + Len(rest)
        /\ \A i \in 1 .. width + 1 : (line \o rest)[i] = line[i]
        /\ \A i \in 1 .. Len(rest) : (line \o rest)[width + 1 + i] = rest[i]
    <3>1. /\ Len(line \o rest) = Len(line) + Len(rest)
          /\ \A i \in 1 .. Len(line) : (line \o rest)[i] = line[i]
          /\ \A i \in 1 .. Len(rest) : (line \o rest)[Len(line) + i] = rest[i]
      BY <1>1, ConcatAt
    <3>. QED  BY <1>1, <3>1
  <2>. QED  BY <1>2, <2>1
<1>. HIDE DEF both
<1>5. width + 1 <= Len(sockbuf)
  <2>1. PICK j \in 1 .. Len(sockbuf) : sockbuf[j] = NL
    BY DEF Has
  <2>2. ~(j <= width)
    BY <1>1, <1>3, <1>4, <2>1
  <2>. QED  BY <2>1, <2>2
<1>6. /\ \A i \in 1 .. width + 1 : sockbuf[i] = line[i]
      /\ \A i \in 1 .. width : sockbuf[i] # NL
      /\ sockbuf[width + 1] = NL
  <2>1. ASSUME NEW i \in 1 .. width + 1
        PROVE  sockbuf[i] = line[i]
    <3>1. i \in 1 .. Len(sockbuf)
      BY <1>5
    <3>. QED  BY <1>3, <1>4, <3>1
  <2>. QED  BY <1>1, <2>1
<1>7. Skipped = 0
  <2>1. /\ 0 \in 0 .. Len(sockbuf) - 1
        /\ sockbuf[0 + 1] # NL /\ \A i \in 1 .. 0 : sockbuf[i] = NL
    BY <1>5, <1>6
  <2>2. \A k \in 0 .. Len(sockbuf) - 1 :
          sockbuf[k + 1] # NL /\ (\A i \in 1 .. k : sockbuf[i] = NL) => k = 0
    BY <1>6
  <2>. QED  BY <2>1, <2>2 DEF Skipped
<1>8. TokenEnd = width
  <2>1. /\ width \in Skipped + 1 .. Len(sockbuf)
        /\ \A i \in Skipped + 1 .. width : sockbuf[i] # NL
        /\ width < Len(sockbuf) => sockbuf[width + 1] = NL
    BY <1>5, <1>6, <1>7
  <2>2. ASSUME NEW e \in Skipped + 1 .. Len(sockbuf),
               \A i \in Skipped + 1 .. e : sockbuf[i] # NL,
               e < Len(sockbuf) => sockbuf[e + 1] = NL
        PROVE  e = width
    <3>1. ~(e < width)
      BY <1>5, <1>6, <1>7, <2>2
    <3>2. ~(width < e)
      BY <1>5, <1>6, <1>7, <2>2
    <3>. QED  BY <1>7, <3>1, <3>2
  <2>3. TokenEnd \in Skipped + 1 .. Len(sockbuf)
        /\ (\A i \in Skipped + 1 .. TokenEnd : sockbuf[i] # NL)
        /\ (TokenEnd < Len(sockbuf) => sockbuf[TokenEnd + 1] = NL)
    BY <2>1 DEF TokenEnd
  <2>. QED  BY <2>2, <2>3
<1>9. SubSeq(sockbuf, 1, width) = SubSeq(line, 1, width)
  <2>1. /\ SubSeq(sockbuf, 1, width) \in Seq(Chars) /\ Len(SubSeq(sockbuf, 1, width)) = width
        /\ \A i \in 1 .. width : SubSeq(sockbuf, 1, width)[i] = sockbuf[i]
    BY <1>5
  <2>2. /\ SubSeq(line, 1, width) \in Seq(Chars) /\ Len(SubSeq(line, 1, width)) = width
        /\ \A i \in 1 .. width : SubSeq(line, 1, width)[i] = line[i]
    BY <1>1
  <2>. QED  BY <1>6, <2>1, <2>2, SeqEqual
<1>10. Rest \o wire = rest
  <2>. DEFINE left == SubSeq(sockbuf, width + 2, Len(sockbuf))
  <2>1. Rest = left
    BY <1>7, <1>8 DEF Rest
  <2>2. /\ left \in Seq(Chars) /\ Len(left) = Len(sockbuf) - width - 1
        /\ \A i \in 1 .. Len(sockbuf) - width - 1 : left[i] = sockbuf[width + 1 + i]
    BY <1>5
  <2>. HIDE DEF left
  <2>3. /\ left \o wire \in Seq(Chars)
        /\ Len(left \o wire) = Len(left) + Len(wire)
        /\ \A i \in 1 .. Len(left) : (left \o wire)[i] = left[i]
        /\ \A i \in 1 .. Len(wire) : (left \o wire)[Len(left) + i] = wire[i]
    BY <2>2, ConcatAt
  <2>4. Len(left \o wire) = Len(rest)
    BY <1>3, <1>4, <2>2, <2>3
  <2>5. ASSUME NEW i \in 1 .. Len(rest)
        PROVE  (left \o wire)[i] = rest[i]
    <3>1. rest[i] = both[width + 1 + i]
      BY <1>4
    <3>2. CASE i <= Len(left)
      <4>1. (left \o wire)[i] = sockbuf[width + 1 + i]
        BY <2>2, <2>3, <3>2
      <4>2. width + 1 + i \in 1 .. Len(sockbuf)
        BY <2>2, <3>2
      <4>. QED  BY <1>3, <3>1, <4>1, <4>2
    <3>3. CASE ~(i <= Len(left))
      <4>1. /\ i - Len(left) \in 1 .. Len(wire)
            /\ Len(left) + (i - Len(left)) = i
            /\ Len(sockbuf) + (i - Len(left)) = width + 1 + i
        BY <2>2, <2>3, <2>4, <3>3
      <4>2. (left \o wire)[i] = wire[i - Len(left)]
        BY <2>3, <4>1
      <4>3. wire[i - Len(left)] = both[Len(sockbuf) + (i - Len(left))]
        BY <1>3, <4>1
      <4>. QED  BY <3>1, <4>1, <4>2, <4>3
    <3>. QED  BY <3>2, <3>3
  <2>6. left \o wire = rest
    BY <2>3, <2>4, <2>5, SeqEqual
  <2>. QED  BY <2>1, <2>6
<1>11. \E i \in DOMAIN sockbuf : sockbuf[i] # NL
  <2>1. 1 \in DOMAIN sockbuf /\ sockbuf[1] # NL
    BY <1>5, <1>6
  <2>. QED  BY <2>1
<1>. QED  BY <1>7, <1>8, <1>9, <1>10, <1>11 DEF line

(* The lines returned, and those that lie in sockbuf and on the way.       *)
Whole(i) == SubSeq(Line(i, lines[i]), 1, lines[i])
Delivered ==
  /\ Len(returned) <= Len(lines)
  /\ \A i \in 1 .. Len(lines) : lines[i] # 0
  /\ rpc = "token" => Has(sockbuf, NL)
  /\ \A i \in 1 .. Len(returned) : returned[i] = Whole(i)
  /\ sockbuf \o wire = Pending(lines, Len(returned))[Len(lines)]
LinesOK ==
  /\ ReceivingOK
  /\ returned \in Seq(Seq(Chars))
  /\ ~odd => Delivered

LEMMA PendingEmpty ==
  /\ Len(<< >>) = 0 /\ << >> \o << >> = << >>
  /\ Pending(<< >>, 0)[0] = << >>
<1>1. << >> \in Seq(Nat) /\ 0 \in Nat
  OBVIOUS
<1>2. Pending(<< >>, 0)[0] = << >>
  BY <1>1, PendingSteps
<1>. QED  BY <1>2

LEMMA WriteDelivers ==
  ASSUME LinesOK, Delivered, NEW width \in Widths, width # 0, PoolWrite(width)
  PROVE  Delivered'
<1>. DEFINE n == Len(lines)
            r == Len(returned)
<1>1. /\ lines \in Seq(Nat) /\ wire \in Seq(Chars) /\ sockbuf \in Seq(Chars)
      /\ n \in Nat /\ r \in Nat /\ width \in Nat /\ r <= n /\ returned \in Seq(Seq(Chars))
  BY SizeAssumption DEF LinesOK, ReceivingOK, Delivered
<1>2. /\ lines' = Append(lines, width) /\ Len(lines') = n + 1 /\ lines' \in Seq(Nat)
      /\ wire' = wire \o Line(n + 1, width)
      /\ sockbuf' = sockbuf /\ returned' = returned /\ rpc' = rpc
  BY <1>1 DEF PoolWrite
<1>3. /\ \A i \in 1 .. n : lines'[i] = lines[i]
      /\ lines'[n + 1] = width
  BY <1>1, <1>2
<1>4. \A i \in 1 .. n + 1 : lines'[i] # 0
  <2>1. \A i \in 1 .. n : lines[i] # 0
    BY DEF Delivered
  <2>2. \A i \in 1 .. n + 1 : i \in 1 .. n \/ i = n + 1
    BY <1>1
  <2>. QED  BY <1>3, <2>1, <2>2
<1>5. \A i \in 1 .. r : returned[i] = SubSeq(Line(i, lines'[i]), 1, lines'[i])
  <2>1. \A i \in 1 .. r : returned[i] = SubSeq(Line(i, lines[i]), 1, lines[i])
    BY DEF Delivered, Whole
  <2>2. \A i \in 1 .. r : i \in 1 .. n
    BY <1>1
  <2>. QED  BY <1>3, <2>1, <2>2
<1>6. sockbuf \o wire' = Pending(lines', r)[n + 1]
  <2>1. Line(n + 1, width) \in Seq(Chars)
    BY <1>1, LineType
  <2>2. sockbuf \o (wire \o Line(n + 1, width)) = (sockbuf \o wire) \o Line(n + 1, width)
    <3>1. \A a, b, c \in Seq(Chars) : (a \o b) \o c = a \o (b \o c)
      BY ConcatAssociative
    <3>. QED  BY <1>1, <2>1, <3>1
  <2>3. sockbuf \o wire = Pending(lines, r)[n]
    BY DEF Delivered
  <2>4. Pending(Append(lines, width), r)[n + 1] = Pending(lines, r)[n] \o Line(n + 1, width)
    BY <1>1, PendingWritten
  <2>. QED  BY <1>2, <2>2, <2>3, <2>4
<1>7. rpc' = "token" => Has(sockbuf', NL)
  BY <1>2 DEF Delivered
<1>8. Len(returned') = r /\ r <= n + 1
  BY <1>1, <1>2
<1>9. sockbuf' \o wire' = Pending(lines', Len(returned'))[Len(lines')]
  BY <1>2, <1>6
<1>10. \A i \in 1 .. Len(returned') : returned'[i] = SubSeq(Line(i, lines'[i]), 1, lines'[i])
  BY <1>2, <1>5
<1>. QED  BY <1>2, <1>4, <1>7, <1>8, <1>9, <1>10 DEF Delivered, Whole

LEMMA ReceiveDelivers ==
  ASSUME LinesOK, Delivered, Receive, rpc' = "token" => Has(sockbuf', NL)
  PROVE  Delivered'
<1>1. PICK n \in 1 .. Len(wire) : /\ sockbuf' = sockbuf \o SubSeq(wire, 1, n)
                                  /\ wire' = SubSeq(wire, n + 1, Len(wire))
  BY DEF Receive
<1>2. wire \in Seq(Chars) /\ sockbuf \in Seq(Chars)
  BY DEF LinesOK, ReceivingOK
<1>3. /\ SubSeq(wire, 1, n) \in Seq(Chars) /\ SubSeq(wire, n + 1, Len(wire)) \in Seq(Chars)
      /\ SubSeq(wire, 1, n) \o SubSeq(wire, n + 1, Len(wire)) = wire
  <2>1. /\ 1 \in 1 .. Len(wire) + 1 /\ n \in 1 - 1 .. Len(wire)
        /\ Len(wire) \in n .. Len(wire)
    BY <1>2
  <2>2. SubSeq(wire, 1, Len(wire)) = wire
    BY <1>2, SubSeqFull
  <2>3. SubSeq(wire, 1, n) \o SubSeq(wire, n + 1, Len(wire)) = SubSeq(wire, 1, Len(wire))
    BY <1>2, <2>1, ConcatAdjacentSubSeq
  <2>4. SubSeq(wire, 1, n) \in Seq(Chars)
    BY <1>2
  <2>5. SubSeq(wire, n + 1, Len(wire)) \in Seq(Chars)
    BY <1>2
  <2>. QED  BY <2>2, <2>3, <2>4, <2>5
<1>4. sockbuf' \o wire' = sockbuf \o wire
  <2>1. \A a, b, c \in Seq(Chars) : (a \o b) \o c = a \o (b \o c)
    BY ConcatAssociative
  <2>2. (sockbuf \o SubSeq(wire, 1, n)) \o SubSeq(wire, n + 1, Len(wire))
          = sockbuf \o (SubSeq(wire, 1, n) \o SubSeq(wire, n + 1, Len(wire)))
    BY <1>2, <1>3, <2>1
  <2>. QED  BY <1>1, <1>3, <2>2
<1>5. UNCHANGED <<lines, returned>>
  BY DEF Receive
<1>. QED  BY <1>4, <1>5 DEF Delivered, Whole

LEMMA TokenDelivers ==
  ASSUME LinesOK, Delivered, Token
  PROVE  Delivered'
<1>. DEFINE n == Len(lines)
            r == Len(returned)
            rest == Pending(lines, r + 1)[n]
<1>1. /\ lines \in Seq(Nat) /\ wire \in Seq(Chars) /\ sockbuf \in Seq(Chars)
      /\ n \in Nat /\ r \in Nat /\ r <= n /\ returned \in Seq(Seq(Chars))
      /\ Has(sockbuf, NL) /\ sockbuf \o wire = Pending(lines, r)[n]
  BY DEF LinesOK, ReceivingOK, Delivered, Token
<1>2. /\ returned' = Append(returned, SubSeq(sockbuf, Skipped + 1, TokenEnd))
      /\ sockbuf' = Rest /\ rpc' = "idle" /\ UNCHANGED <<wire, lines>>
  BY DEF Token
<1>3. r < n
  <2>. SUFFICES ASSUME r = n PROVE FALSE
    BY <1>1
  <2>1. Pending(lines, r)[n] = << >>
    BY <1>1, PendingNone
  <2>2. Len(sockbuf) = 0
    <3>1. Len(sockbuf \o wire) = 0
      BY <1>1, <2>1
    <3>. QED  BY <1>1, <3>1
  <2>. QED  BY <1>1, <2>2 DEF Has
<1>4. sockbuf \o wire = Line(r + 1, lines[r + 1]) \o rest /\ rest \in Seq(Chars)
  <2>1. rest \in Seq(Chars)
    <3>1. n \in 0 .. Len(lines) /\ r + 1 \in Nat
      BY <1>1
    <3>. QED  BY <1>1, <3>1, PendingType
  <2>2. Pending(lines, r)[n] = Line(r + 1, lines[r + 1]) \o rest
    BY <1>1, <1>3, PendingFirst
  <2>. QED  BY <1>1, <2>1, <2>2
<1>5. r + 1 \in Nat \ {0} /\ lines[r + 1] \in Nat \ {0}
  BY <1>1, <1>3 DEF Delivered
<1>. HIDE DEF rest
<1>6. /\ SubSeq(sockbuf, Skipped + 1, TokenEnd) = Whole(r + 1)
      /\ Rest \o wire = rest
  BY <1>1, <1>4, <1>5, TokenIsLine DEF Whole
<1>7. returned' = Append(returned, Whole(r + 1))
  BY <1>2, <1>6
<1>8. /\ Len(returned') = r + 1 /\ returned'[r + 1] = Whole(r + 1)
      /\ \A i \in 1 .. r : returned'[i] = returned[i]
  BY <1>1, <1>7
<1>9. \A i \in 1 .. r + 1 : returned'[i] = Whole(i)
  <2>1. \A i \in 1 .. r : returned[i] = Whole(i)
    BY DEF Delivered
  <2>2. \A i \in 1 .. r + 1 : i \in 1 .. r \/ i = r + 1
    BY <1>1
  <2>. QED  BY <1>8, <2>1, <2>2
<1>10. \A i \in 1 .. r + 1 : Whole(i)' = Whole(i)
  BY <1>2 DEF Whole
<1>11. sockbuf' \o wire' = Pending(lines', Len(returned'))[Len(lines')]
  BY <1>2, <1>6, <1>8 DEF rest
<1>12. \A i \in 1 .. Len(lines') : lines'[i] # 0
  BY <1>2 DEF Delivered
<1>13. Len(returned') <= Len(lines')
  BY <1>1, <1>2, <1>3, <1>8
<1>14. \A i \in 1 .. Len(returned') : returned'[i] = SubSeq(Line(i, lines'[i]), 1, lines'[i])
  BY <1>2, <1>8, <1>9 DEF Whole
<1>. QED  BY <1>2, <1>11, <1>12, <1>13, <1>14 DEF Delivered, Whole

LEMMA NextLines == LinesOK /\ [Next]_vars => LinesOK'
<1>. SUFFICES ASSUME LinesOK, [Next]_vars
              PROVE  LinesOK'
  OBVIOUS
<1>0. ReceivingOK'
  BY NextReceiving DEF LinesOK
<1>1. ASSUME NEW width \in Widths, PoolWrite(width)
      PROVE  LinesOK'
  <2>1. returned' = returned /\ (~odd' => ~odd /\ width # 0)
    BY <1>1 DEF PoolWrite
  <2>2. ~odd' => Delivered'
    BY <1>1, <2>1, WriteDelivers DEF LinesOK
  <2>. QED  BY <1>0, <2>1, <2>2 DEF LinesOK
<1>2. ASSUME RecvLine
      PROVE  LinesOK'
  <2>1. /\ UNCHANGED <<wire, sockbuf, lines, returned, odd>>
        /\ rpc' = "token" => Has(sockbuf, NL)
    BY <1>2 DEF RecvLine, history
  <2>2. Delivered => Delivered'
    BY <2>1 DEF Delivered, Whole
  <2>. QED  BY <1>0, <2>1, <2>2 DEF LinesOK
<1>3. ASSUME Receive
      PROVE  LinesOK'
  <2>1. PICK late \in {FALSE, Slow} :
          /\ rpc' = IF late \/ Has(sockbuf', NL) THEN "token" ELSE "read"
          /\ odd' = (odd \/ (late /\ ~Has(sockbuf', NL)))
    BY <1>3 DEF Receive
  <2>2. ~odd' => ~odd /\ (rpc' = "token" => Has(sockbuf', NL))
    BY <2>1
  <2>3. ~odd' => Delivered'
    BY <1>3, <2>2, ReceiveDelivers DEF LinesOK
  <2>4. returned' = returned
    BY <1>3 DEF Receive
  <2>. QED  BY <1>0, <2>3, <2>4 DEF LinesOK
<1>4. ASSUME Token
      PROVE  LinesOK'
  <2>1. odd' = odd
    BY <1>4 DEF Token
  <2>2. ~odd' => Delivered'
    BY <1>4, <2>1, TokenDelivers DEF LinesOK
  <2>3. returned' \in Seq(Seq(Chars))
    <3>1. /\ Skipped \in 0 .. Len(sockbuf) - 1
          /\ TokenEnd \in Skipped + 1 .. Len(sockbuf)
      BY <1>4, TokenWithin DEF Token, LinesOK, ReceivingOK
    <3>2. SubSeq(sockbuf, Skipped + 1, TokenEnd) \in Seq(Chars)
      BY <3>1 DEF LinesOK, ReceivingOK
    <3>. QED  BY <1>4, <3>2 DEF Token, LinesOK
  <2>. QED  BY <1>0, <2>2, <2>3 DEF LinesOK
<1>5. ASSUME Reconnect
      PROVE  LinesOK'
  <2>1. /\ lines' = << >> /\ returned' = << >> /\ sockbuf' = << >> /\ wire' = << >>
        /\ rpc' = "idle"
    BY <1>5 DEF Reconnect
  <2>2. Delivered'
    BY <2>1, PendingEmpty DEF Delivered
  <2>. QED  BY <1>0, <2>1, <2>2 DEF LinesOK
<1>6. ASSUME (\E p \in Senders : Sender(p)) \/ UNCHANGED vars
      PROVE  LinesOK'
  <2>1. UNCHANGED <<wire, sockbuf, rpc, lines, returned, odd>>
    BY <1>6 DEF Sender, SendLine, Send, SendFails, vars, receiving, history
  <2>2. Delivered => Delivered'
    BY <2>1 DEF Delivered, Whole
  <2>. QED  BY <1>0, <2>1, <2>2 DEF LinesOK
<1>. QED  BY <1>1, <1>2, <1>3, <1>4, <1>5, <1>6
          DEF Next, Reader, Timeout, RecvFails, NoToken

(* Every line the pool writes is returned whole, once and in order, as     *)
(* long as none is blank or late: for lines of any number and length,      *)
(* however recv cuts them and whatever the size of the buffer.             *)
THEOREM NoLineIsLost == Spec => []NothingLost
<1>1. Init => LinesOK
  <2>. SUFFICES ASSUME Init PROVE LinesOK
    OBVIOUS
  <2>1. Delivered
    BY PendingEmpty DEF Init, Delivered
  <2>2. returned \in Seq(Seq(Chars))
    BY DEF Init
  <2>. QED  BY <2>1, <2>2, InitReceiving DEF LinesOK
<1>2. LinesOK /\ [Next]_vars => LinesOK'
  BY NextLines
<1>3. LinesOK => NothingLost
  <2>. SUFFICES ASSUME LinesOK, ~odd PROVE NothingLost
    BY DEF NothingLost
  <2>1. Delivered /\ returned \in Seq(Seq(Chars))
    BY DEF LinesOK
  <2>2. Pending(lines, Len(returned)) =
          CHOOSE all : all = [i \in 0 .. Len(lines) |->
            IF i = 0 THEN << >>
            ELSE IF i <= Len(returned) THEN all[i - 1]
                 ELSE all[i - 1] \o Line(i, lines[i])]
    BY DEF Pending, IsPending, StepOf
  <2>3. DOMAIN returned = 1 .. Len(returned)
    BY <2>1
  <2>. QED  BY <2>1, <2>2, <2>3, Zenon DEF NothingLost, Delivered, Whole
<1>. QED  BY <1>1, <1>2, <1>3, PTL DEF Spec

=============================================================================
