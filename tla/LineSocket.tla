----------------------------- MODULE LineSocket -----------------------------
(***************************************************************************)
(* The socket of a stratum session in util.c, character by character: how  *)
(* stratum_recv_line makes lines of what recv returns, with the buffer     *)
(* that stratum_buffer_append grows, and how the threads that call         *)
(* stratum_send_line share the socket under sock_lock. StratumSession is   *)
(* built on lines; this is what they rest on.                              *)
(*                                                                         *)
(* A character is a pair, so that the properties can tell where it is      *)
(* from: <<i, k>> is character k of line i of the pool, or of a message of *)
(* sender i. A connection that ends is replaced by a new one at once.      *)
(* Not modelled: a connection that cannot be made (StratumSession).        *)
(***************************************************************************)
EXTENDS Naturals, Sequences

CONSTANTS
  RBUFSIZE,   \* the unit sockbuf grows by
  RECVSIZE,   \* what one recv takes at most
  Widths,     \* lengths of the pool's lines; 0 is a blank line
  Slow,       \* whether a line may take longer than 60 seconds
  MaxLines,   \* bound: lines the pool writes on a connection
  Length,     \* the length of a message to the pool
  MaxOut      \* bound: characters written on a connection

(* The stratum thread, which also reads, and the workio thread.            *)
Stratum == 1
Workio == 2
Senders == {Stratum, Workio}
Nobody == 0

ASSUME SizeAssumption ==
  /\ {RBUFSIZE, RECVSIZE, Length, MaxOut, MaxLines} \subseteq Nat \ {0}
  /\ RECVSIZE < RBUFSIZE
  /\ Widths \subseteq Nat /\ Slow \in BOOLEAN

VARIABLES
  wire,         \* characters of the pool that recv has not returned yet
  sockbuf,      \* sctx->sockbuf up to its NUL
  sockbuf_size, \* sctx->sockbuf_size
  rpc,          \* where stratum_recv_line is: "idle", "read" or "token"
  sock_lock,    \* the sender that holds it, or Nobody
  sent,         \* how much of its message that sender has written
  out,          \* what was written on this connection
  lines,        \* history: the lengths of the lines the pool wrote
  returned,     \* history: the strings stratum_recv_line returned
  cut,          \* history: a message was given up half way
  odd           \* history: a blank line was written or a line was late

history == <<lines, returned, odd>>
receiving == <<wire, sockbuf, sockbuf_size, rpc, history>>
sending == <<sock_lock, sent, out, cut>>
vars == <<receiving, sending>>

NL == <<0, 0>>
Has(s, c) == \E i \in DOMAIN s : s[i] = c
Line(i, width) == [k \in 1 .. width + 1 |-> IF k <= width THEN <<i, k>> ELSE NL]

-----------------------------------------------------------------------------
(* Receiving                                                               *)

(* The pool writes a line. *)
PoolWrite(width) ==
  /\ Len(lines) < MaxLines
  /\ lines' = Append(lines, width)
  /\ wire' = wire \o Line(Len(lines'), width)
  /\ odd' = (odd \/ width = 0)
  /\ UNCHANGED <<sockbuf, sockbuf_size, rpc, returned, sending>>

(* Mutant: only the socket is looked at. *)
SocketOnlyFull == wire # << >>

(* stratum_socket_full. *)
SocketFull == sockbuf # << >> \/ wire # << >>

(* The head of stratum_recv_line, called when there is something. *)
RecvLine ==
  /\ rpc = "idle" /\ sock_lock # Stratum /\ SocketFull
  /\ rpc' = IF Has(sockbuf, NL) THEN "token" ELSE "read"
  /\ UNCHANGED <<wire, sockbuf, sockbuf_size, history, sending>>

(* Mutant: realloc only when the string does not fit. *)
GrownTight(n) == IF n > sockbuf_size THEN n + (RBUFSIZE - (n % RBUFSIZE)) ELSE sockbuf_size

(* The size of sockbuf for n bytes, of which the last is the NUL. *)
Grown(n) == IF n >= sockbuf_size THEN n + (RBUFSIZE - (n % RBUFSIZE)) ELSE sockbuf_size

(* recv returns some of the characters, and stratum_buffer_append keeps    *)
(* them. The loop ends with the line, or when 60 seconds are over.         *)
Receive ==
  /\ rpc = "read"
  /\ \E n \in 1 .. Len(wire) :
       /\ n <= RECVSIZE
       /\ sockbuf' = sockbuf \o SubSeq(wire, 1, n)
       /\ wire' = SubSeq(wire, n + 1, Len(wire))
  /\ sockbuf_size' = Grown(Len(sockbuf') + 1)
  /\ \E late \in {FALSE, Slow} :
       /\ rpc' = IF late \/ Has(sockbuf', NL) THEN "token" ELSE "read"
       /\ odd' = (odd \/ (late /\ ~Has(sockbuf', NL)))
  /\ UNCHANGED <<lines, returned, sending>>

(* strtok skips the newlines at the head of sockbuf, ... *)
Skipped == CHOOSE k \in 0 .. Len(sockbuf) - 1 :
  sockbuf[k + 1] # NL /\ \A i \in 1 .. k : sockbuf[i] = NL

(* ... and takes what follows up to the next, which it makes a NUL.        *)
TokenEnd == CHOOSE e \in Skipped + 1 .. Len(sockbuf) :
  /\ \A i \in Skipped + 1 .. e : sockbuf[i] # NL
  /\ e < Len(sockbuf) => sockbuf[e + 1] = NL

(* Mutant: the newline is left in sockbuf. *)
RestNewline == SubSeq(sockbuf, TokenEnd - Skipped + 1, Len(sockbuf))

(* The move of the rest reckons with the length of the token only, not     *)
(* with the newlines skipped: then it ends at that NUL.                    *)
Rest ==
  LET len == TokenEnd - Skipped
  IN IF Skipped = 0 THEN SubSeq(sockbuf, len + 2, Len(sockbuf))
     ELSE SubSeq(sockbuf, len + 2, TokenEnd)

Token ==
  /\ rpc = "token" /\ \E i \in DOMAIN sockbuf : sockbuf[i] # NL
  /\ returned' = Append(returned, SubSeq(sockbuf, Skipped + 1, TokenEnd))
  /\ sockbuf' = Rest
  /\ rpc' = "idle"
  /\ UNCHANGED <<wire, sockbuf_size, lines, odd, sending>>

(* stratum_disconnect and stratum_connect: a new connection, with the      *)
(* buffer as large as it was.                                              *)
Reconnect ==
  /\ sock_lock = Nobody
  /\ wire' = << >> /\ sockbuf' = << >> /\ out' = << >>
  /\ rpc' = "idle" /\ cut' = FALSE
  /\ lines' = << >> /\ returned' = << >> /\ odd' = FALSE
  /\ UNCHANGED <<sockbuf_size, sock_lock, sent>>

(* The timeout of the main loop. *)
Timeout == rpc = "idle" /\ ~SocketFull /\ Reconnect

(* stratum_recv_line returns NULL: no character in time, or the end of the *)
(* connection; or there are newlines only.                                 *)
RecvFails == rpc = "read" /\ Reconnect
NoToken == rpc = "token" /\ (\A i \in DOMAIN sockbuf : sockbuf[i] = NL) /\ Reconnect

Reader == RecvLine \/ Receive \/ Token \/ Timeout \/ RecvFails \/ NoToken

-----------------------------------------------------------------------------
(* Sending                                                                 *)

(* stratum_send_line takes sock_lock for the whole of send_line. *)
SendLine(p) ==
  /\ sock_lock = Nobody
  /\ p = Stratum => rpc = "idle"
  /\ Len(out) + Length + 1 <= MaxOut
  /\ sock_lock' = p /\ sent' = 0
  /\ UNCHANGED <<out, cut, receiving>>

(* Mutant: the lock is given up between two calls of send. *)
SendUnlocked(p) ==
  /\ \/ sock_lock = p
     \/ sock_lock = Nobody /\ 0 < sent /\ sent <= Length
  /\ \E n \in 1 .. Length + 1 - sent :
       /\ sent' = sent + n
       /\ out' = out \o SubSeq(Line(p, Length), sent + 1, sent + n)
  /\ sock_lock' = Nobody
  /\ UNCHANGED <<cut, receiving>>

(* send takes some of the characters. *)
Send(p) ==
  /\ sock_lock = p
  /\ \E n \in 1 .. Length + 1 - sent :
       /\ sent' = sent + n
       /\ out' = out \o SubSeq(Line(p, Length), sent + 1, sent + n)
  /\ sock_lock' = IF sent' = Length + 1 THEN Nobody ELSE p
  /\ UNCHANGED <<cut, receiving>>

(* send fails, or select finds the socket full: the message is given up    *)
(* where it is. The workio thread will try the whole of it again.          *)
SendFails(p) ==
  /\ sock_lock = p
  /\ cut' = (cut \/ sent > 0)
  /\ sock_lock' = Nobody
  /\ UNCHANGED <<sent, out, receiving>>

Sender(p) == SendLine(p) \/ Send(p) \/ SendFails(p)

-----------------------------------------------------------------------------
Init ==
  /\ wire = << >> /\ sockbuf = << >> /\ sockbuf_size = RBUFSIZE /\ rpc = "idle"
  /\ sock_lock = Nobody /\ sent = 0 /\ out = << >> /\ cut = FALSE
  /\ lines = << >> /\ returned = << >> /\ odd = FALSE

Next ==
  \/ \E width \in Widths : PoolWrite(width)
  \/ Reader
  \/ \E p \in Senders : Sender(p)

Spec == Init /\ [][Next]_vars

(* The threads run, and the reading thread looks for a line again after    *)
(* any number of messages sent.                                            *)
FairSpec ==
  /\ Spec
  /\ WF_vars(Receive \/ Token) /\ SF_vars(RecvLine)
  /\ \A p \in Senders : WF_vars(Send(p))

-----------------------------------------------------------------------------
(* Properties                                                              *)

(* sockbuf is large enough for its string, the NUL, and the one byte more  *)
(* that the memmove of stratum_recv_line touches.                          *)
BufferFits == Len(sockbuf) + 2 <= sockbuf_size

(* Every line is returned whole, once and in order, as long as no line is  *)
(* blank or late: what was written is what was returned, and then what     *)
(* lies in sockbuf and on the way.                                         *)
NothingLost ==
  LET Whole(i) == SubSeq(Line(i, lines[i]), 1, lines[i])
      all[i \in 0 .. Len(lines)] ==
        IF i = 0 THEN << >>
        ELSE IF i <= Len(returned) THEN all[i - 1] ELSE all[i - 1] \o Line(i, lines[i])
  IN ~odd => /\ Len(returned) <= Len(lines)
             /\ \A i \in DOMAIN returned : returned[i] = Whole(i)
             /\ sockbuf \o wire = all[Len(lines)]

(* The messages of the two threads do not mix, whatever part of one a call *)
(* of send takes, unless a message was given up half way: the next is then *)
(* glued to its head.                                                      *)
MessagesApart ==
  ~cut => \A i \in DOMAIN out :
    \E p \in Senders, k \in 1 .. Length + 1 :
      /\ out[i] = Line(p, Length)[k]
      /\ k = 1 => i = 1 \/ out[i - 1] = NL
      /\ k > 1 => i > 1 /\ out[i - 1] = <<p, k - 1>>

(* A line that was written comes to be returned, unless it is late or      *)
(* blank, or the connection is given up: none stays in sockbuf.            *)
LineReturned ==
  Len(lines) = MaxLines /\ ~odd ~> Len(returned) = MaxLines \/ odd \/ Len(lines) < MaxLines

=============================================================================
