---------------------------- MODULE FrameStream -----------------------------
(***************************************************************************)
(* The framing of src/src/protocol.c over one TCP connection: a device      *)
(* writes frames, TCP cuts the bytes into pieces of any size, and           *)
(* client_worker (gateway.c 498-551) reassembles them in recv_buf.  A byte  *)
(* is a small number.  The header has three of its bytes, the two magic     *)
(* numbers and payload_len (cmd, flags and seq are carried and not looked   *)
(* at here); the length field takes one byte.                               *)
(***************************************************************************)
EXTENDS Integers, SequencesExt

CONSTANTS
    PROTO_MAGIC_1, PROTO_MAGIC_2,
    PROTO_MAX_PAYLOAD,
    Payload,    \* what devices send
    Noise,      \* bytes on the line that belong to no frame
    MaxFrames,  \* bound: frames sent
    MaxNoise    \* bound: pieces of noise

\* Devices respect the limit of the protocol, which proto_parse_frame does not
\* check, and noise does not look like the start of a frame.
ASSUME StreamAssumption ==
    /\ PROTO_MAGIC_1 \in Nat /\ PROTO_MAGIC_2 \in Nat /\ PROTO_MAX_PAYLOAD \in Nat
    /\ \A p \in Payload : p \in Seq(Nat) /\ Len(p) <= PROTO_MAX_PAYLOAD
    /\ \A n \in Noise : n \in Seq(Nat) /\ \A k \in DOMAIN n : n[k] # PROTO_MAGIC_1
    /\ MaxFrames \in Nat /\ MaxNoise \in Nat

PROTO_HEADER_SIZE   == 3
PROTO_CHECKSUM_SIZE == 1
PROTO_FRAME_MAX     == PROTO_HEADER_SIZE + PROTO_MAX_PAYLOAD + PROTO_CHECKSUM_SIZE

\* recv is offered sizeof(recv_buf) - recv_len - 1 bytes.
Room == PROTO_FRAME_MAX * 4 - 1

VARIABLES
    sent,     \* payloads the device has sent
    noises,   \* pieces of noise so far
    wire,     \* external: bytes sent and not received
    recv_buf, \* the first recv_len bytes
    offset,   \* of the parse loop
    pc,       \* of the worker
    handled   \* payloads given to a handler

vars == <<sent, noises, wire, recv_buf, offset, pc, handled>>

Init ==
    /\ sent = << >> /\ noises = 0 /\ wire = << >>
    /\ recv_buf = << >> /\ offset = 0 /\ pc = "recv" /\ handled = << >>

-----------------------------------------------------------------------------
(* Frames.                                                                 *)

\* ^ on uint8_t: the bits in which a and b differ.
Bit(x, k) == (x \div 2 ^ k) % 2
Xor == [a, b \in 0 .. 255 |-> MapThenSumSet(LAMBDA k : 2 ^ k,
                                            {k \in 0 .. 7 : Bit(a, k) # Bit(b, k)})]

proto_checksum(data) == FoldLeft(LAMBDA cs, b : Xor[cs, b % 256], 0, data)

proto_build_frame(payload) ==
    LET head == <<PROTO_MAGIC_1, PROTO_MAGIC_2, Len(payload)>> \o payload
    IN  Append(head, proto_checksum(head))

frame_len(raw) == PROTO_HEADER_SIZE + raw[3] + PROTO_CHECKSUM_SIZE

\* Mutant: the checksum byte is not waited for.
proto_parse_eager(raw) ==
    CASE Len(raw) < PROTO_HEADER_SIZE -> 0
      [] \/ raw[1] # PROTO_MAGIC_1 \/ raw[2] # PROTO_MAGIC_2 -> -1
      [] Len(raw) < frame_len(raw) - PROTO_CHECKSUM_SIZE -> 0
      [] OTHER -> frame_len(raw)

\* Mutant: half a frame is reported as an error, the caller skips a byte.
proto_parse_impatient(raw) ==
    IF Len(raw) < PROTO_HEADER_SIZE THEN 0
    ELSE IF /\ raw[1] = PROTO_MAGIC_1 /\ raw[2] = PROTO_MAGIC_2
            /\ Len(raw) >= frame_len(raw)
         THEN frame_len(raw) ELSE -1

\* The length of the frame raw begins with, 0 when more bytes are needed, -1
\* when raw does not begin with a frame.
proto_parse_frame(raw) ==
    IF Len(raw) < PROTO_HEADER_SIZE THEN 0
    ELSE IF raw[1] # PROTO_MAGIC_1 \/ raw[2] # PROTO_MAGIC_2 THEN -1
    ELSE LET n == frame_len(raw) IN
         IF Len(raw) < n THEN 0
         ELSE IF proto_checksum(SubSeq(raw, 1, n - PROTO_CHECKSUM_SIZE)) = raw[n]
              THEN n ELSE -1

-----------------------------------------------------------------------------
(* The device and the line.                                                *)

Send(p) ==
    /\ Len(sent) < MaxFrames
    /\ sent' = Append(sent, p)
    /\ wire' = wire \o proto_build_frame(p)
    /\ UNCHANGED <<noises, recv_buf, offset, pc, handled>>

Disturb(n) ==
    /\ noises < MaxNoise
    /\ noises' = noises + 1
    /\ wire' = wire \o n
    /\ UNCHANGED <<sent, recv_buf, offset, pc, handled>>

-----------------------------------------------------------------------------
(* client_worker.                                                          *)

\* recv: as many of the bytes as have come and fit; with no room it returns 0,
\* which the worker takes for the end of the connection.
Receive ==
    /\ pc = "recv" /\ wire # << >>
    /\ \E k \in 0 .. Len(wire) :
          /\ Len(recv_buf) + k <= Room
          /\ k = 0 => Len(recv_buf) = Room
          /\ recv_buf' = recv_buf \o SubSeq(wire, 1, k)
          /\ wire' = SubSeq(wire, k + 1, Len(wire))
          /\ pc' = IF k = 0 THEN "closed" ELSE "parse"
    /\ UNCHANGED <<sent, noises, offset, handled>>

Rest == SubSeq(recv_buf, offset + 1, Len(recv_buf))

\* A complete frame: it is handled and skipped.
ParseFrame ==
    /\ pc = "parse" /\ offset < Len(recv_buf)
    /\ LET n == proto_parse_frame(Rest) IN
       /\ n > 0
       /\ handled' = Append(handled, SubSeq(Rest, PROTO_HEADER_SIZE + 1,
                                            n - PROTO_CHECKSUM_SIZE))
       /\ offset' = offset + n
    /\ UNCHANGED <<sent, noises, wire, recv_buf, pc>>

\* No frame starts here: one byte is skipped.
ParseSkip ==
    /\ pc = "parse" /\ offset < Len(recv_buf)
    /\ proto_parse_frame(Rest) = -1
    /\ offset' = offset + 1
    /\ UNCHANGED <<sent, noises, wire, recv_buf, pc, handled>>

\* Mutant: one frame per recv, the others stay in the buffer.
ParseOnce ==
    /\ pc = "parse"
    /\ offset = 0 => proto_parse_frame(Rest) = 0
    /\ recv_buf' = Rest
    /\ offset' = 0
    /\ pc' = "recv"
    /\ UNCHANGED <<sent, noises, wire, handled>>

\* The buffer is used up, or ends in half a frame, which moves to the front.
ParseEnd ==
    /\ pc = "parse"
    /\ offset < Len(recv_buf) => proto_parse_frame(Rest) = 0
    /\ recv_buf' = Rest
    /\ offset' = 0
    /\ pc' = "recv"
    /\ UNCHANGED <<sent, noises, wire, handled>>

Next ==
    \/ \E p \in Payload : Send(p)
    \/ \E n \in Noise : Disturb(n)
    \/ Receive \/ ParseFrame \/ ParseSkip \/ ParseEnd

Spec == Init /\ [][Next]_vars

\* TCP delivers what was sent, and the worker runs.
FairSpec == Spec /\ WF_vars(Receive \/ ParseFrame \/ ParseSkip \/ ParseEnd)

-----------------------------------------------------------------------------
(* Properties.                                                             *)

TypeOK ==
    /\ sent \in Seq(Payload) /\ Len(sent) <= MaxFrames /\ noises \in 0 .. MaxNoise
    /\ offset \in 0 .. Len(recv_buf) /\ Len(recv_buf) <= Room
    /\ pc \in {"recv", "parse", "closed"}

\* However TCP cuts the stream, the handlers get what the device sent, unchanged,
\* once and in order, with noise between the frames or not (gateway.c 504-551).
InOrder == IsPrefix(handled, sent)

\* Without noise the parser never loses its place: the bytes it has still to parse
\* or receive are exactly those of the frames that are not handled yet.
InSync ==
    noises = 0 =>
        Rest \o wire = FlattenSeq([k \in 1 .. Len(sent) - Len(handled) |->
                                      proto_build_frame(sent[Len(handled) + k])])

\* Between two calls of recv less than one frame is kept, so that recv is never
\* offered zero bytes, whose result 0 would end the connection (gateway.c 498-501).
HalfFrame == pc = "recv" => Len(recv_buf) < PROTO_FRAME_MAX

\* Every frame is handled in the end, whatever half of it came first.
AllHandled == []<>(handled = sent)
=============================================================================
