----------------------------- MODULE Transport ------------------------------
(***************************************************************************)
(* The webcam over TCP: usb-hook.c turns each call of usb_control_msg into *)
(* bytes, and the loop of netserver.c turns the bytes into calls of        *)
(* handle_usb_vendor_int.                                                  *)
(*                                                                         *)
(* Both sides call read() once for each thing they expect.  TCP keeps the  *)
(* order of the bytes, and nothing else: a read may return the beginning   *)
(* of what was written.  Every byte carries the number of the message it   *)
(* belongs to and its place there.                                         *)
(***************************************************************************)
EXTENDS Naturals, Sequences

CONSTANTS
  Header,       \* the bytes of a request (7),
  Page,         \* of the page that follows a request 0x51 (16),
  Reply,        \* and of a reply (20)
  Connections,  \* how many times the client is run,
  MaxCalls      \* and how many requests it makes each time

ASSUME TransportAssumption ==
  /\ {Header, Page, Reply} \subseteq Nat \ {0}
  /\ {Connections, MaxCalls} \subseteq Nat \ {0}

VARIABLES
  cuts,       \* whether TCP cuts what is written at once into pieces
  conn,       \* the connection of the client
  made,       \* made[c]: the requests made on connection c
  up, down,   \* the two directions of each connection
  client,     \* "idle", "asked" (in read) or "closed"
  got,        \* the last reply: the bytes that read() has put in the buffer
  misread,    \* a reply was shorter than the client takes it to be
  server,     \* "accept", "header", "payload" or "exit"
  peer,       \* the connection of the server
  handled     \* the requests given to handle_usb_vendor_int, with their bytes

vars == <<cuts, conn, made, up, down, client, got, misread, server, peer, handled>>

Runs == 1 .. Connections

\* A direction: the bytes written so far, how many have arrived and how many have
\* been read, and whether the writer has closed it.
NoBytes == [bytes |-> <<>>, arrived |-> 0, read |-> 0, closed |-> FALSE]

Message(kind, n, size) == [i \in 1 .. size |-> <<kind, n, i>>]

Write(p, bytes) == [p EXCEPT !.bytes = @ \o bytes]

\* What a read of size bytes returns, and what is left.  It waits for a byte or for
\* the end.
CanRead(p) == p.arrived > p.read \/ (p.closed /\ p.read = Len(p.bytes))
Returned(p, size) ==
  LET n == IF p.arrived - p.read < size THEN p.arrived - p.read ELSE size
  IN SubSeq(p.bytes, p.read + 1, p.read + n)
After(p, bytes) == [p EXCEPT !.read = @ + Len(bytes)]

Init ==
  /\ cuts \in BOOLEAN
  /\ conn = 1
  /\ made = [c \in Runs |-> <<>>]
  /\ up = [c \in Runs |-> NoBytes] /\ down = [c \in Runs |-> NoBytes]
  /\ client = "idle" /\ got = <<>> /\ misread = FALSE
  /\ server = "accept" /\ peer = 0 /\ handled = <<>>

-----------------------------------------------------------------------------
(* usb_control_msg *)

\* The requests of a connection are numbered.
Number == Len(made[conn]) + 1
CanCall == client = "idle" /\ Len(made[conn]) < MaxCalls

\* Slip: the length of the header is not counted exactly.
SendTooFew ==
  /\ CanCall
  /\ made' = [made EXCEPT ![conn] = Append(@, "0x51")]
  /\ up' = [up EXCEPT ![conn] = Write(@, Message("0x51", Number, Header + Page - 1))]
  /\ UNCHANGED <<cuts, conn, down, client, got, misread, server, peer, handled>>

\* 0x51: the header and the page in one write, and no wait.
Send ==
  /\ CanCall
  /\ made' = [made EXCEPT ![conn] = Append(@, "0x51")]
  /\ up' = [up EXCEPT ![conn] = Write(@, Message("0x51", Number, Header + Page))]
  /\ UNCHANGED <<cuts, conn, down, client, got, misread, server, peer, handled>>

\* 0x56: the header, and a read of the reply.
Ask ==
  /\ CanCall
  /\ made' = [made EXCEPT ![conn] = Append(@, "0x56")]
  /\ up' = [up EXCEPT ![conn] = Write(@, Message("0x56", Number, Header))]
  /\ client' = "asked"
  /\ UNCHANGED <<cuts, conn, down, got, misread, server, peer, handled>>

\* The caller looks for the two offsets before the end of what it is told to have
\* been given: it misreads a short reply, and goes on.
Receive ==
  /\ client = "asked" /\ CanRead(down[conn])
  /\ got' = Returned(down[conn], Reply)
  /\ down' = [down EXCEPT ![conn] = After(@, got')]
  /\ misread' = (misread \/ Len(got') < Reply)
  /\ client' = "idle"
  /\ UNCHANGED <<cuts, conn, made, up, server, peer, handled>>

\* usb_close, or the end of the process, at any point.
Close ==
  /\ client # "closed"
  /\ up' = [up EXCEPT ![conn].closed = TRUE]
  /\ client' = "closed"
  /\ UNCHANGED <<cuts, conn, made, down, got, misread, server, peer, handled>>

\* usb_open, in another process: it is refused when there is no server.
Open ==
  /\ client = "closed" /\ conn < Connections /\ server # "exit"
  /\ conn' = conn + 1
  /\ client' = "idle" /\ got' = <<>> /\ misread' = FALSE
  /\ UNCHANGED <<cuts, made, up, down, server, peer, handled>>

-----------------------------------------------------------------------------
(* TCP *)

Arrivals(p) == IF cuts THEN p.arrived + 1 .. Len(p.bytes) ELSE {Len(p.bytes)} \ {p.arrived}

ArriveUp(c) ==
  /\ \E n \in Arrivals(up[c]) : up' = [up EXCEPT ![c].arrived = n]
  /\ UNCHANGED <<cuts, conn, made, down, client, got, misread, server, peer, handled>>

ArriveDown(c) ==
  /\ \E n \in Arrivals(down[c]) : down' = [down EXCEPT ![c].arrived = n]
  /\ UNCHANGED <<cuts, conn, made, up, client, got, misread, server, peer, handled>>

-----------------------------------------------------------------------------
(* loop, in netserver.c *)

clientVars == <<cuts, conn, made, client, got, misread>>

\* Slip: a connection is taken for granted.
AcceptAny ==
  /\ server = "accept"
  /\ peer' = peer + 1
  /\ server' = "header"
  /\ UNCHANGED <<clientVars, up, down, handled>>

\* accept: the connections wait in the order in which they were opened.
Accept ==
  /\ server = "accept" /\ peer < conn
  /\ peer' = peer + 1
  /\ server' = "header"
  /\ UNCHANGED <<clientVars, up, down, handled>>

\* Slip: the reply is the buffer as the last request has left it.
AnswerFirst(bytes) ==
  /\ handled' = Append(handled, <<peer, bytes>>)
  /\ down' = [down EXCEPT ![peer] = Write(@, Message("reply", Len(handled), Reply))]

\* 0x56 is handled, and then the reply is written: the state of the webcam after
\* so many requests.
Answer(bytes) ==
  /\ handled' = Append(handled, <<peer, bytes>>)
  /\ down' = [down EXCEPT ![peer] = Write(@, Message("reply", Len(handled) + 1, Reply))]

\* Slip: the end of a connection is the end of the server.
HangUpForGood == server' = "exit"

\* The connection is closed, and the next one is accepted.
HangUp == server' = "accept"

\* error() or exit(): the connections that wait are closed, too.
Die ==
  /\ server' = "exit"
  /\ down' = [c \in Runs |-> [down[c] EXCEPT !.closed = TRUE]]

\* A request, or anything else than Header bytes: the end of the connection.
ReadHeader ==
  /\ server = "header" /\ CanRead(up[peer])
  /\ LET bytes == Returned(up[peer], Header)
     IN /\ up' = [up EXCEPT ![peer] = After(@, bytes)]
        /\ \/ /\ Len(bytes) # Header
              /\ HangUp
              /\ down' = [down EXCEPT ![peer].closed = TRUE]
              /\ UNCHANGED handled
           \/ /\ Len(bytes) = Header /\ bytes = Message("0x51", bytes[1][2], Header)
              /\ server' = "payload"
              /\ UNCHANGED <<down, handled>>
           \/ /\ Len(bytes) = Header /\ bytes = Message("0x56", bytes[1][2], Header)
              /\ Answer(bytes)
              /\ UNCHANGED server
           \/ /\ Len(bytes) = Header
              /\ \A k \in {"0x51", "0x56"} : bytes # Message(k, bytes[1][2], Header)
              /\ Die
              /\ UNCHANGED handled
  /\ UNCHANGED <<clientVars, peer>>

\* Slip: a short page is handled like any other.
ReadPayloadUnchecked ==
  /\ server = "payload" /\ CanRead(up[peer])
  /\ LET bytes == Returned(up[peer], Page)
     IN /\ up' = [up EXCEPT ![peer] = After(@, bytes)]
        /\ server' = "header" /\ handled' = Append(handled, <<peer, bytes>>)
  /\ UNCHANGED <<clientVars, down, peer>>

\* The page of a request 0x51: anything else than Page bytes is fatal.
ReadPayload ==
  /\ server = "payload" /\ CanRead(up[peer])
  /\ LET bytes == Returned(up[peer], Page)
     IN /\ up' = [up EXCEPT ![peer] = After(@, bytes)]
        /\ IF Len(bytes) = Page
             THEN server' = "header" /\ handled' = Append(handled, <<peer, bytes>>) /\ down' = down
             ELSE Die /\ UNCHANGED handled
  /\ UNCHANGED <<clientVars, peer>>

-----------------------------------------------------------------------------
Serve == Accept \/ ReadHeader \/ ReadPayload
Arrive == \E c \in Runs : ArriveUp(c) \/ ArriveDown(c)

Next == Send \/ Ask \/ Receive \/ Close \/ Open \/ Arrive \/ Serve

\* The network delivers, the server runs and read() returns; the client may stop.
Spec ==
  /\ Init /\ [][Next]_vars
  /\ WF_vars(Arrive) /\ WF_vars(Serve) /\ WF_vars(Receive)

-----------------------------------------------------------------------------
(* Properties *)

Byte == {"0x51", "0x56", "reply"} \X Nat \X Nat

PipesOK(pipes) ==
  /\ pipes \in [Runs -> [bytes : Seq(Byte), arrived : Nat, read : Nat, closed : BOOLEAN]]
  /\ \A c \in Runs : pipes[c].read <= pipes[c].arrived /\ pipes[c].arrived <= Len(pipes[c].bytes)

\* Every variable has its type, and nobody reads what has not arrived.
TypeOK ==
  /\ cuts \in BOOLEAN /\ misread \in BOOLEAN
  /\ conn \in Runs /\ peer \in 0 .. conn
  /\ made \in [Runs -> Seq({"0x51", "0x56"})]
  /\ PipesOK(up) /\ PipesOK(down)
  /\ client \in {"idle", "asked", "closed"}
  /\ server \in {"accept", "header", "payload", "exit"}
  /\ server \in {"header", "payload"} => peer # 0
  /\ got \in Seq(Byte)
  /\ handled \in Seq(Runs \X Seq(Byte))

\* The bytes with which request n of connection c must be handled.
Given(c, n) ==
  IF made[c][n] = "0x56"
    THEN Message("0x56", n, Header)
    ELSE SubSeq(Message("0x51", n, Header + Page), Header + 1, Header + Page)

\* The connection of the i-th request handled, and the number that it has there.
ConnOf(i) == handled[i][1]
NumberOf(i) == handled[i][2][1][2]

\* However TCP cuts the bytes, and whenever the client goes away, the server
\* handles whole requests, each of them once and in the order in which they were
\* made, and those of a client before those of the next one.  (The two checks of
\* the length in netserver.c make it stop rather than handle a piece.)
InOrder ==
  \A i \in 1 .. Len(handled) :
    /\ NumberOf(i) \in 1 .. Len(made[ConnOf(i)])
    /\ handled[i][2] = Given(ConnOf(i), NumberOf(i))
    /\ i > 1 => ConnOf(i - 1) <= ConnOf(i)
    /\ NumberOf(i) = IF i > 1 /\ ConnOf(i - 1) = ConnOf(i) THEN NumberOf(i - 1) + 1 ELSE 1

\* A reply tells what the webcam has become after all the requests made so far,
\* unless some reply was cut: usb_control_msg returns the length of a reply that was
\* cut, and the rest of it is taken for the beginning of the next one.
RightReply ==
  client = "idle" /\ got # <<>> /\ ~misread /\ made[conn] # <<>>
      /\ made[conn][Len(made[conn])] = "0x56"
    => /\ got = Message("reply", got[1][2], Reply)
       /\ got[1][2] \in 1 .. Len(handled)
       /\ handled[got[1][2]] = <<conn, Given(conn, Len(made[conn]))>>

\* When what is written at once arrives at once, no reply is misread and the server
\* outlives its clients, wherever they stop.
Undisturbed == ~cuts => ~misread /\ server # "exit"

\* A call of usb_control_msg returns, for a client that waits, even one that waits
\* for the server to be done with the client before, and even when a cut has made
\* the server hang up or stop.
Answered == client = "asked" ~> client # "asked"
=============================================================================
