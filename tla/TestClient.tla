----------------------------- MODULE TestClient -----------------------------
(***************************************************************************)
(* The test client (test/client.c) talking to the gateway: requests and     *)
(* acknowledgements, and the heartbeat, whose PING and PONG are the same     *)
(* frame (protocol.h 43-44).  Towards the gateway frames stay whole, its     *)
(* parser reassembles them (FrameStream); towards the client they are        *)
(* sequences of pieces, because handle_server_data sees one recv at a time.  *)
(*                                                                         *)
(* Both sides send with blocking calls: whoever finds the other's socket     *)
(* buffer full does nothing else until there is room.  The automatic mode,    *)
(* which sends every three seconds, and the commands of the interactive one  *)
(* are the same here: the client may send any of its frames at any time.     *)
(***************************************************************************)
EXTENDS Naturals, SequencesExt

CONSTANTS
    MaxPings,     \* bound: heartbeats started, by either side
    MaxRequests,  \* bound: requests of the client
    SocketRoom,   \* frames that fit on the way in each direction
    Splits        \* TRUE: TCP may cut a frame in two

ASSUME ClientAssumption ==
    /\ MaxPings \in Nat /\ MaxRequests \in Nat \ {0}
    /\ SocketRoom \in Nat \ {0} /\ Splits \in BOOLEAN

\* A frame towards the client: the first piece holds the magic numbers, the first
\* two are the header.
PROTO_HEADER_SIZE == 2
frame_len == 3
Piece(kind, p) == [kind |-> kind, part |-> p]
Frame(kind) == [p \in 1 .. frame_len |-> Piece(kind, p)]

Count(s, x) == Cardinality({k \in DOMAIN s : s[k] = x})

VARIABLES
    up,        \* external: frames on the way to the gateway
    down,      \* external: pieces on the way to the client
    closed,    \* the client has closed the connection
    todo,      \* frames the client is about to send, the first of them in send()
    reply,     \* the frame the gateway's worker has in send(), if any
    pings,     \* heartbeats started
    answers,   \* heartbeat frames sent in answer to one, counted to MaxPings + 1
    requests,  \* requests sent
    acks       \* acknowledgements handled

vars == <<up, down, closed, todo, reply, pings, answers, requests, acks>>

\* Counting stops one above what AnsweredOnce allows.
Counted(n) == IF n > MaxPings THEN MaxPings + 1 ELSE n

UpFull   == Len(up) >= SocketRoom
DownFull == Len(down) > (SocketRoom - 1) * frame_len

\* The client connects and registers.
Init ==
    /\ up = << >> /\ down = << >> /\ closed = FALSE
    /\ todo = <<"REQUEST">> /\ reply = << >>
    /\ pings = 0 /\ answers = 0 /\ requests = 1 /\ acks = 0

-----------------------------------------------------------------------------
(* The gateway.                                                            *)

\* The heartbeat thread finds the client idle for more than ten seconds.
GatewayPing ==
    /\ pings < MaxPings /\ ~closed /\ ~DownFull
    /\ pings' = pings + 1
    /\ down' = down \o Frame("PING")
    /\ UNCHANGED <<up, closed, todo, reply, answers, requests, acks>>

\* client_worker and the handlers of menu.c: a heartbeat frame is answered with
\* CMD_PONG, which is CMD_PING, a request with its acknowledgement.
GatewayHandle ==
    /\ up # << >> /\ reply = << >>
    /\ up' = Tail(up)
    /\ reply' = <<IF Head(up) = "PING" THEN "PING" ELSE "ACK">>
    /\ answers' = IF Head(up) = "PING" THEN Counted(answers + 1) ELSE answers
    /\ UNCHANGED <<down, closed, todo, pings, requests, acks>>

GatewaySend ==
    /\ reply # << >> /\ (closed \/ ~DownFull)
    /\ down' = IF closed THEN down ELSE down \o Frame(Head(reply))
    /\ reply' = << >>
    /\ UNCHANGED <<up, closed, todo, pings, answers, requests, acks>>

-----------------------------------------------------------------------------
(* The client.                                                             *)

Waiting == ~closed /\ todo = << >>    \* in select()

\* do_ping: by command, or in turn in the automatic mode.
do_ping ==
    /\ Waiting /\ pings < MaxPings
    /\ pings' = pings + 1
    /\ todo' = <<"PING">>
    /\ UNCHANGED <<up, down, closed, reply, answers, requests, acks>>

\* do_register, do_sensor, do_gpio.
do_request ==
    /\ Waiting /\ requests < MaxRequests
    /\ requests' = requests + 1
    /\ todo' = <<"REQUEST">>
    /\ UNCHANGED <<up, down, closed, reply, pings, answers, acks>>

send_frame ==
    /\ todo # << >> /\ ~UpFull
    /\ up' = Append(up, Head(todo)) /\ todo' = Tail(todo)
    /\ UNCHANGED <<down, closed, reply, pings, answers, requests, acks>>

\* Mutant: the loop skips one piece after a frame it has handled.
handle_server_data_skip(buf) ==
    LET scan[o \in 0 .. Len(buf) + frame_len + 1] ==
            CASE o + PROTO_HEADER_SIZE > Len(buf) -> << >>
              [] o + PROTO_HEADER_SIZE <= Len(buf) /\ buf[o + 1].part # 1 -> scan[o + 1]
              [] o + frame_len <= Len(buf) /\ buf[o + 1].part = 1 ->
                    <<buf[o + 1].kind>> \o scan[o + frame_len + 1]
              [] OTHER -> << >>
    IN  scan[0]

\* The frames found in one buffer; half a frame at its end is dropped with it.
handle_server_data(buf) ==
    LET scan[o \in 0 .. Len(buf) + frame_len] ==
            IF o + PROTO_HEADER_SIZE > Len(buf) THEN << >>
            ELSE IF buf[o + 1].part # 1 THEN scan[o + 1]
            ELSE IF o + frame_len > Len(buf) THEN << >>
            ELSE <<buf[o + 1].kind>> \o scan[o + frame_len]
    IN  scan[0]

\* One recv of the main loop: every PING in it is answered with a PING.
ClientReceive ==
    /\ Waiting /\ down # << >>
    /\ \E n \in 1 .. Len(down) :
          /\ Splits \/ n % frame_len = 0
          /\ LET got   == handle_server_data(SubSeq(down, 1, n))
                 pongs == Count(got, "PING")
             IN  /\ todo' = [k \in 1 .. pongs |-> "PING"]
                 /\ answers' = Counted(answers + pongs)
                 /\ acks' = acks + (Len(got) - pongs)
          /\ down' = SubSeq(down, n + 1, Len(down))
    /\ UNCHANGED <<up, closed, reply, pings, requests>>

\* q, or the end of the input.
ClientQuit ==
    /\ Waiting
    /\ closed' = TRUE /\ down' = << >>
    /\ UNCHANGED <<up, todo, reply, pings, answers, requests, acks>>

Gateway == GatewayPing \/ GatewayHandle \/ GatewaySend
Client  == do_ping \/ do_request \/ send_frame \/ ClientReceive \/ ClientQuit

Next == Gateway \/ Client

Spec == Init /\ [][Next]_vars

\* Both sides go on reading and sending.
FairSpec ==
    /\ Spec
    /\ WF_vars(GatewayHandle) /\ WF_vars(GatewaySend)
    /\ WF_vars(send_frame) /\ WF_vars(ClientReceive)

-----------------------------------------------------------------------------
(* Properties.                                                             *)

\* Every variable has its type, and the sockets hold what fits.
TypeOK ==
    /\ up \in Seq({"REQUEST", "PING"}) /\ Len(up) <= SocketRoom
    /\ down \in Seq([kind : {"ACK", "PING"}, part : 1 .. frame_len])
    /\ Len(down) <= SocketRoom * frame_len
    /\ todo \in Seq({"REQUEST", "PING"}) /\ reply \in Seq({"ACK", "PING"}) /\ Len(reply) <= 1
    /\ closed \in BOOLEAN /\ pings \in 0 .. MaxPings /\ answers \in 0 .. MaxPings + 1
    /\ requests \in 1 .. MaxRequests /\ acks \in 0 .. MaxRequests

Total == Count(todo, "REQUEST") + Count(up, "REQUEST") + Count(reply, "ACK")
            + Count(down, Piece("ACK", 1)) + acks

\* No request is acknowledged twice, wherever TCP cuts the frames; and as long as it
\* cuts none, every request is on its way or in a send(), or its acknowledgement
\* is, or it has been acknowledged: none is lost (client.c 118-172, menu.c 29-87).
RequestsConserved ==
    ~closed => Total <= requests /\ (~Splits => Total = requests)

\* Every request of a client that stays is acknowledged in the end, however many
\* heartbeats there are, as long as they do not fill the buffers.
AllAcked == []<>(closed \/ acks = requests)

(* What documents and comments say, and the code does not do.               *)

\* gateway.c:516 and client.c:140, "PING -> PONG": a heartbeat is a request and one
\* answer to it (protocol.h 43-44).
AnsweredOnce == answers <= pings

\* client.c:133, "half a packet: wait for the next recv": no frame is lost because
\* recv returned the middle of it.
HalfFrameKept ==
    (up = << >> /\ down = << >> /\ todo = << >> /\ reply = << >> /\ ~closed)
        => acks = requests

\* README.md:417, the heartbeat keeps a long connection up: the two sides do not
\* wait for each other in send().
NotJammed == ~(UpFull /\ todo # << >> /\ DownFull /\ reply # << >>)
=============================================================================
