------------------------- MODULE FrameStream_proofs -------------------------
(* Proofs about FrameStream, for any payloads within the limit of the protocol, *)
(* any noise without the first magic number, and any cut of the stream.        *)
EXTENDS FrameStream, SequenceTheorems, WellFoundedInduction, TLAPS

-----------------------------------------------------------------------------
(* Frames and the parser.                                                  *)

\* What a byte of the stream can be.  Of the checksum only that it is a function
\* of the bytes matters.
Cell == Nat \union {proto_checksum(s) : s \in Seq(Nat)}

Header(p)  == <<PROTO_MAGIC_1, PROTO_MAGIC_2, Len(p)>> \o p
FrameLen(p) == Len(p) + 4

LEMMA HeaderShape ==
    ASSUME NEW p \in Payload
    PROVE  /\ p \in Seq(Nat) /\ Len(p) \in Nat /\ FrameLen(p) \in Nat
           /\ Header(p) \in Seq(Nat) /\ Len(Header(p)) = Len(p) + 3
           /\ Header(p)[1] = PROTO_MAGIC_1 /\ Header(p)[2] = PROTO_MAGIC_2
           /\ Header(p)[3] = Len(p)
           /\ \A j \in 1 .. Len(p) : Header(p)[3 + j] = p[j]
<1>1. p \in Seq(Nat) /\ Len(p) \in Nat
  BY StreamAssumption
<1>2. PICK m : m = <<PROTO_MAGIC_1, PROTO_MAGIC_2, Len(p)>>
  OBVIOUS
<1>3. /\ m \in Seq(Nat) /\ Len(m) = 3
      /\ m[1] = PROTO_MAGIC_1 /\ m[2] = PROTO_MAGIC_2 /\ m[3] = Len(p)
  BY <1>1, <1>2, StreamAssumption
<1>4. /\ m \o p \in Seq(Nat) /\ Len(m \o p) = 3 + Len(p)
      /\ \A j \in 1 .. 3 : (m \o p)[j] = m[j]
      /\ \A j \in 1 .. Len(p) : (m \o p)[3 + j] = p[j]
  <2>1. PICK n \in Nat : n = Len(p)
    BY <1>1
  <2>2. /\ m \o p \in Seq(Nat) /\ Len(m \o p) = 3 + n
        /\ \A j \in 1 .. 3 + n : (m \o p)[j] = IF j <= 3 THEN m[j] ELSE p[j - 3]
    <3>1. /\ m \o p \in Seq(Nat) /\ Len(m \o p) = Len(m) + Len(p)
          /\ \A j \in 1 .. Len(m) + Len(p) :
                (m \o p)[j] = IF j <= Len(m) THEN m[j] ELSE p[j - Len(m)]
      BY <1>1, <1>3, ConcatProperties
    <3>2. Len(m) = 3 /\ Len(p) = n
      BY <1>3, <2>1
    <3> QED
      BY <3>1, <3>2
  <2>3. \A j \in 1 .. 3 : j \in 1 .. 3 + n /\ j <= 3
    OBVIOUS
  <2>4. \A j \in 1 .. n : 3 + j \in 1 .. 3 + n /\ ~(3 + j <= 3) /\ (3 + j) - 3 = j
    OBVIOUS
  <2> QED
    BY <2>1, <2>2, <2>3, <2>4
<1>5. Header(p) = m \o p
  BY <1>2 DEF Header
<1>6. 1 \in 1 .. 3 /\ 2 \in 1 .. 3 /\ 3 \in 1 .. 3 /\ 3 + Len(p) = Len(p) + 3
  BY <1>1
<1> QED
  BY <1>1, <1>3, <1>4, <1>5, <1>6 DEF FrameLen

LEMMA FrameShape ==
    ASSUME NEW p \in Payload
    PROVE  /\ proto_build_frame(p) \in Seq(Cell)
           /\ Len(proto_build_frame(p)) = FrameLen(p)
           /\ \A j \in 1 .. Len(p) + 3 : proto_build_frame(p)[j] = Header(p)[j]
           /\ proto_build_frame(p)[FrameLen(p)] = proto_checksum(Header(p))
<1>1. proto_build_frame(p) = Append(Header(p), proto_checksum(Header(p)))
  BY DEF proto_build_frame, Header
<1>2. PICK s \in Seq(Nat) : s = Header(p)
  BY HeaderShape
<1>3. PICK c : s = Header(p) /\ c = proto_checksum(Header(p))
  BY <1>2
<1>4. s \in Seq(Cell) /\ c \in Cell
  <2>1. Nat \subseteq Cell
    BY DEF Cell
  <2>2. s \in Seq(Cell)
    BY <2>1, SeqDef
  <2> QED
    BY <1>3, <2>2 DEF Cell
<1>5. /\ Append(s, c) \in Seq(Cell) /\ Len(Append(s, c)) = Len(s) + 1
      /\ \A j \in 1 .. Len(s) : Append(s, c)[j] = s[j]
      /\ Append(s, c)[Len(s) + 1] = c
  BY <1>4
<1>6. Len(p) \in Nat /\ Len(s) = Len(p) + 3 /\ Len(s) + 1 = FrameLen(p)
  BY <1>3, HeaderShape DEF FrameLen
<1> QED
  BY <1>1, <1>3, <1>5, <1>6

\* Where a frame starts, the parser waits for the whole of it, and then takes it.
LEMMA ParseAtFrame ==
    ASSUME NEW p \in Payload, NEW raw \in Seq(Cell),
           \A j \in 1 .. FrameLen(p) : j <= Len(raw) => raw[j] = proto_build_frame(p)[j]
    PROVE  /\ Len(raw) < FrameLen(p) => proto_parse_frame(raw) = 0
           /\ Len(raw) >= FrameLen(p) =>
                /\ proto_parse_frame(raw) = FrameLen(p)
                /\ SubSeq(raw, PROTO_HEADER_SIZE + 1, FrameLen(p) - PROTO_CHECKSUM_SIZE) = p
<1>1. PICK n \in Nat : n = Len(p)
  BY HeaderShape
<1>2. PICK r \in Nat : r = Len(raw)
  OBVIOUS
<1>3. CASE r < 3
  BY <1>1, <1>2, <1>3 DEF proto_parse_frame, PROTO_HEADER_SIZE, FrameLen
<1>4. CASE r >= 3
  <2>1. 1 \in 1 .. n + 3 /\ 2 \in 1 .. n + 3 /\ 3 \in 1 .. n + 3
        /\ \A j \in 1 .. n + 3 : j \in 1 .. FrameLen(p)
    BY <1>1 DEF FrameLen
  <2>2. raw[1] = PROTO_MAGIC_1 /\ raw[2] = PROTO_MAGIC_2 /\ raw[3] = n
    <3>1. /\ Header(p)[1] = PROTO_MAGIC_1 /\ Header(p)[2] = PROTO_MAGIC_2
          /\ Header(p)[3] = n
      BY <1>1, HeaderShape
    <3>2. \A j \in 1 .. n + 3 : proto_build_frame(p)[j] = Header(p)[j]
      BY <1>1, FrameShape
    <3>3. 1 <= Len(raw) /\ 2 <= Len(raw) /\ 3 <= Len(raw)
      BY <1>2, <1>4
    <3>4. \A j \in 1 .. 3 : j \in 1 .. n + 3 /\ j \in 1 .. FrameLen(p)
      BY <2>1
    <3> QED
      BY <2>1, <3>1, <3>2, <3>3
  <2>3. frame_len(raw) = n + 4 /\ FrameLen(p) = n + 4
    BY <1>1, <2>2 DEF frame_len, PROTO_HEADER_SIZE, PROTO_CHECKSUM_SIZE, FrameLen
  <2>4. CASE r < n + 4
    BY <1>2, <1>4, <2>2, <2>3, <2>4 DEF proto_parse_frame, PROTO_HEADER_SIZE
  <2>5. CASE r >= n + 4
    <3>1. /\ \A j \in 1 .. n + 3 : raw[j] = Header(p)[j]
          /\ raw[n + 4] = proto_checksum(Header(p))
      <4>1. \A j \in 1 .. n + 4 : raw[j] = proto_build_frame(p)[j]
        BY <1>2, <2>3, <2>5
      <4>2. n + 4 \in 1 .. n + 4 /\ \A j \in 1 .. n + 3 : j \in 1 .. n + 4
        OBVIOUS
      <4> QED
        BY <1>1, <2>3, <4>1, <4>2, FrameShape
    <3>2. SubSeq(raw, 1, n + 3) = Header(p)
      <4>1. /\ SubSeq(raw, 1, n + 3) \in Seq(Cell) /\ Len(SubSeq(raw, 1, n + 3)) = n + 3
            /\ \A j \in 1 .. n + 3 : SubSeq(raw, 1, n + 3)[j] = raw[j]
        BY <1>2, <2>5
      <4>2. Header(p) \in Seq(Cell) /\ Len(Header(p)) = n + 3
        BY <1>1, HeaderShape, SeqDef DEF Cell
      <4> QED
        BY <3>1, <4>1, <4>2, SeqEqual
    <3>3. SubSeq(raw, 4, n + 3) = p
      <4>1. /\ SubSeq(raw, 4, n + 3) \in Seq(Cell) /\ Len(SubSeq(raw, 4, n + 3)) = n
            /\ \A j \in 1 .. n : SubSeq(raw, 4, n + 3)[j] = raw[3 + j]
        BY <1>2, <2>5
      <4>2. p \in Seq(Cell) /\ Len(p) = n
        <5>1. p \in Seq(Nat) /\ Nat \subseteq Cell
          BY HeaderShape DEF Cell
        <5> QED
          BY <1>1, <5>1, SeqDef
      <4>3. \A j \in 1 .. n : 3 + j \in 1 .. n + 3
        OBVIOUS
      <4>4. \A j \in 1 .. n : raw[3 + j] = p[j]
        BY <1>1, <3>1, <4>3, HeaderShape
      <4> QED
        BY <4>1, <4>2, <4>4, SeqEqual
    <3>4. proto_parse_frame(raw) = n + 4
      <4>1. proto_checksum(SubSeq(raw, 1, frame_len(raw) - PROTO_CHECKSUM_SIZE))
               = raw[frame_len(raw)]
        <5>1. frame_len(raw) - PROTO_CHECKSUM_SIZE = n + 3
          BY <2>3 DEF PROTO_CHECKSUM_SIZE
        <5>2. SubSeq(raw, 1, frame_len(raw) - PROTO_CHECKSUM_SIZE) = Header(p)
          BY <3>2, <5>1
        <5>3. raw[frame_len(raw)] = proto_checksum(Header(p))
          BY <2>3, <3>1
        <5> QED
          BY <5>2, <5>3
      <4>2. ~(Len(raw) < PROTO_HEADER_SIZE) /\ ~(Len(raw) < frame_len(raw))
        BY <1>2, <1>4, <2>3, <2>5 DEF PROTO_HEADER_SIZE
      <4>3. proto_parse_frame(raw) = frame_len(raw)
        BY <2>2, <4>1, <4>2 DEF proto_parse_frame
      <4> QED
        BY <2>3, <4>3
    <3>5. PROTO_HEADER_SIZE + 1 = 4 /\ FrameLen(p) - PROTO_CHECKSUM_SIZE = n + 3
      BY <2>3 DEF PROTO_HEADER_SIZE, PROTO_CHECKSUM_SIZE
    <3> QED
      BY <1>2, <2>3, <2>5, <3>3, <3>4, <3>5
  <2> QED
    BY <2>4, <2>5
<1> QED
  BY <1>3, <1>4

\* In noise it skips, once there is enough for a header.
LEMMA ParseAtNoise ==
    ASSUME NEW raw \in Seq(Cell), raw[1] # PROTO_MAGIC_1
    PROVE  proto_parse_frame(raw) = IF Len(raw) < 3 THEN 0 ELSE -1
BY DEF proto_parse_frame, PROTO_HEADER_SIZE

-----------------------------------------------------------------------------
(* The invariant.  S is everything that has been on the line; st[k] bytes of it *)
(* come before frame k, and en[k] before what follows frame k; b bytes come      *)
(* before recv_buf.                                                          *)

TypeInv ==
    /\ sent \in Seq(Payload) /\ Len(sent) <= MaxFrames /\ handled \in Seq(Payload)
    /\ noises \in 0 .. MaxNoise
    /\ wire \in Seq(Cell) /\ recv_buf \in Seq(Cell) /\ Len(recv_buf) <= Room
    /\ offset \in 0 .. Len(recv_buf) /\ pc \in {"recv", "parse"}
    /\ pc = "recv" => offset = 0 /\ Len(recv_buf) < PROTO_FRAME_MAX

\* Frames in the order in which they were sent; no frame begins in what is between them.
Layout(S, st, en) ==
    /\ st \in [1 .. Len(sent) + 1 -> Nat] /\ en \in [0 .. Len(sent) -> Nat]
    /\ en[0] = 0 /\ st[Len(sent) + 1] = Len(S)
    /\ \A k \in 1 .. Len(sent) :
          /\ en[k] = st[k] + FrameLen(sent[k])
          /\ \A j \in 1 .. FrameLen(sent[k]) : S[st[k] + j] = proto_build_frame(sent[k])[j]
    /\ \A k \in 0 .. Len(sent) :
          /\ en[k] <= st[k + 1] /\ st[k + 1] <= Len(S)
          /\ noises = 0 => en[k] = st[k + 1]
          /\ \A x \in en[k] + 1 .. st[k + 1] : S[x] # PROTO_MAGIC_1

\* S ends in r and w, after b bytes.
Ends(S, b, r, w) ==
    /\ b + Len(r) + Len(w) = Len(S)
    /\ \A x \in 1 .. Len(r) : r[x] = S[b + x]
    /\ \A x \in 1 .. Len(w) : w[x] = S[b + Len(r) + x]

\* The bytes that are left, and the frames that have been handled.
Place(S, st, en, b) ==
    /\ Ends(S, b, recv_buf, wire)
    /\ Len(handled) <= Len(sent) /\ \A k \in 1 .. Len(handled) : handled[k] = sent[k]
    /\ en[Len(handled)] <= b + offset /\ b + offset <= st[Len(handled) + 1]

Inv ==
    /\ TypeInv
    /\ \E S \in Seq(Cell), b \in Nat : \E st, en : Layout(S, st, en) /\ Place(S, st, en, b)

\* What the parser sees: the end of the buffer.
LEMMA RestShape ==
    ASSUME TypeInv
    PROVE  /\ Rest \in Seq(Cell) /\ Len(Rest) = Len(recv_buf) - offset
           /\ \A x \in 1 .. Len(Rest) : Rest[x] = recv_buf[offset + x]
<1>1. PICK r \in Seq(Cell) : r = recv_buf
  BY DEF TypeInv
<1>2. PICK o \in Nat : o = offset /\ o <= Len(r)
  BY <1>1 DEF TypeInv
<1>3. /\ SubSeq(r, o + 1, Len(r)) \in Seq(Cell)
      /\ Len(SubSeq(r, o + 1, Len(r))) = Len(r) - o
      /\ \A x \in 1 .. Len(r) - o : SubSeq(r, o + 1, Len(r))[x] = r[o + x]
  BY <1>1, <1>2
<1>4. Rest = SubSeq(r, o + 1, Len(r))
  BY <1>1, <1>2 DEF Rest
<1> QED
  BY <1>1, <1>2, <1>3, <1>4

\* Where the parser stands: between frames, or at the first byte of the next one.
AtNoise(st, b) ==
    /\ b + offset < st[Len(handled) + 1]
    /\ proto_parse_frame(Rest) = IF Len(Rest) < 3 THEN 0 ELSE -1

AtFrame(st, b) ==
    /\ Len(handled) < Len(sent) /\ b + offset = st[Len(handled) + 1]
    /\ LET p == sent[Len(handled) + 1] IN
       /\ Len(Rest) < FrameLen(p) => proto_parse_frame(Rest) = 0
       /\ Len(Rest) >= FrameLen(p) =>
            /\ proto_parse_frame(Rest) = FrameLen(p)
            /\ SubSeq(Rest, PROTO_HEADER_SIZE + 1, FrameLen(p) - PROTO_CHECKSUM_SIZE) = p

LEMMA Position ==
    ASSUME TypeInv, NEW S \in Seq(Cell), NEW st, NEW en, NEW b \in Nat,
           Layout(S, st, en), Place(S, st, en, b), offset < Len(recv_buf)
    PROVE  AtNoise(st, b) \/ AtFrame(st, b)
<1>1. PICK h \in Nat, n \in Nat : h = Len(handled) /\ n = Len(sent) /\ h <= n
  BY DEF TypeInv, Place
<1>2. PICK o \in Nat, r \in Nat : o = offset /\ r = Len(recv_buf) /\ o < r
  <2>1. offset \in Nat /\ Len(recv_buf) \in Nat
    BY DEF TypeInv
  <2> QED
    BY <2>1
<1>3. h + 1 \in 1 .. n + 1 /\ h \in 0 .. n
  BY <1>1
<1>4. PICK e \in Nat, f \in Nat : e = en[h] /\ f = st[h + 1]
  BY <1>1, <1>3 DEF Layout
<1>5. e <= b + o /\ b + o <= f
  BY <1>1, <1>2, <1>4 DEF Place
<1>6. PICK t \in Seq(Cell) : t = Rest
  BY RestShape
<1>7. PICK l \in Nat \ {0} : l = Len(t) /\ l = r - o
  BY <1>2, <1>6, RestShape
<1>8. \A x \in 1 .. l : t[x] = S[b + o + x]
  <2>1. \A x \in 1 .. l : t[x] = recv_buf[o + x]
    BY <1>2, <1>6, <1>7, RestShape
  <2>4. \A x \in 1 .. l : o + x \in 1 .. r
    BY <1>2, <1>7
  <2>2. \A x \in 1 .. r : recv_buf[x] = S[b + x]
    BY <1>2 DEF Place, Ends
  <2>3. \A x \in 1 .. l : b + (o + x) = b + o + x
    OBVIOUS
  <2> QED
    BY <2>1, <2>2, <2>3, <2>4
<1>9. CASE b + o < f
  <2>1. b + o + 1 \in e + 1 .. f
    BY <1>5, <1>9
  <2>2. S[b + o + 1] # PROTO_MAGIC_1
    BY <1>1, <1>3, <1>4, <2>1 DEF Layout
  <2>3. t[1] # PROTO_MAGIC_1
    BY <1>7, <1>8, <2>2
  <2>4. proto_parse_frame(t) = IF Len(t) < 3 THEN 0 ELSE -1
    BY <2>3, ParseAtNoise
  <2> QED
    BY <1>1, <1>2, <1>4, <1>6, <1>9, <2>4 DEF AtNoise
<1>10. CASE b + o = f
  <2>1. h # n
    <3>1. SUFFICES ASSUME h = n PROVE FALSE
      OBVIOUS
    <3>2. PICK s \in Nat, w \in Nat : s = Len(S) /\ w = Len(wire)
      BY DEF TypeInv
    <3>3. f = s /\ b + r + w = s
      BY <1>1, <1>2, <1>4, <3>1, <3>2 DEF Layout, Place, Ends
    <3> QED
      BY <1>2, <1>10, <3>3
  <2>2. h < n /\ h + 1 \in 1 .. n
    BY <1>1, <2>1
  <2>3. PICK p \in Payload : p = sent[h + 1]
    BY <1>1, <2>2 DEF TypeInv
  <2>4. \A j \in 1 .. FrameLen(p) : S[f + j] = proto_build_frame(p)[j]
    BY <1>1, <1>4, <2>2, <2>3 DEF Layout
  <2>5. \A j \in 1 .. FrameLen(p) : j <= Len(t) => t[j] = proto_build_frame(p)[j]
    <3>1. ASSUME NEW j \in 1 .. FrameLen(p), j <= Len(t)
          PROVE  t[j] = proto_build_frame(p)[j]
      <4>1. j \in Nat /\ j \in 1 .. l
        BY <1>7, <3>1, HeaderShape
      <4>2. t[j] = S[b + o + j]
        BY <1>8, <4>1
      <4> QED
        BY <1>10, <2>4, <4>2
    <3> QED
      BY <3>1
  <2>6. /\ Len(t) < FrameLen(p) => proto_parse_frame(t) = 0
        /\ Len(t) >= FrameLen(p) =>
             /\ proto_parse_frame(t) = FrameLen(p)
             /\ SubSeq(t, PROTO_HEADER_SIZE + 1, FrameLen(p) - PROTO_CHECKSUM_SIZE) = p
    BY <2>5, ParseAtFrame
  <2> QED
    BY <1>1, <1>2, <1>4, <1>6, <1>10, <2>2, <2>3, <2>6 DEF AtFrame
<1> QED
  BY <1>5, <1>9, <1>10

-----------------------------------------------------------------------------
(* The device and the line.                                                *)

LEMMA Longer ==
    ASSUME NEW s \in Seq(Cell), NEW t \in Seq(Cell)
    PROVE  /\ s \o t \in Seq(Cell) /\ Len(s \o t) = Len(s) + Len(t)
           /\ \A x \in 1 .. Len(s) : (s \o t)[x] = s[x]
           /\ \A x \in 1 .. Len(t) : (s \o t)[Len(s) + x] = t[x]
<1>1. /\ s \o t \in Seq(Cell) /\ Len(s \o t) = Len(s) + Len(t)
      /\ \A x \in 1 .. Len(s) + Len(t) :
            (s \o t)[x] = IF x <= Len(s) THEN s[x] ELSE t[x - Len(s)]
  BY ConcatProperties
<1>2. PICK n \in Nat, m \in Nat : n = Len(s) /\ m = Len(t)
  OBVIOUS
<1>3. \A x \in 1 .. n : x \in 1 .. n + m /\ x <= n
  OBVIOUS
<1>4. \A x \in 1 .. m : n + x \in 1 .. n + m /\ ~(n + x <= n) /\ (n + x) - n = x
  OBVIOUS
<1> QED
  BY <1>1, <1>2, <1>3, <1>4

\* New bytes come at the end of the stream.
LEMMA BytesLonger ==
    ASSUME NEW S \in Seq(Cell), NEW r \in Seq(Cell), NEW w \in Seq(Cell), NEW t \in Seq(Cell),
           NEW b \in Nat, Ends(S, b, r, w)
    PROVE  Ends(S \o t, b, r, w \o t)
<1>1. PICK k \in Nat, l \in Nat, m \in Nat, n \in Nat :
        k = Len(r) /\ l = Len(w) /\ m = Len(t) /\ n = Len(S)
  OBVIOUS
<1>2. /\ b + k + l = n
      /\ \A x \in 1 .. k : r[x] = S[b + x]
      /\ \A x \in 1 .. l : w[x] = S[b + k + x]
  BY <1>1 DEF Ends
<1>3. /\ S \o t \in Seq(Cell) /\ Len(S \o t) = n + m
      /\ \A x \in 1 .. n : (S \o t)[x] = S[x]
      /\ \A x \in 1 .. m : (S \o t)[n + x] = t[x]
  BY <1>1, Longer
<1>4. /\ w \o t \in Seq(Cell) /\ Len(w \o t) = l + m
      /\ \A x \in 1 .. l : (w \o t)[x] = w[x]
      /\ \A x \in 1 .. m : (w \o t)[l + x] = t[x]
  BY <1>1, Longer
<1>5. \A x \in 1 .. k : b + x \in 1 .. n
  BY <1>2
<1>6. \A x \in 1 .. l : b + k + x \in 1 .. n
  BY <1>2
<1>7. ASSUME NEW x \in 1 .. l + m
      PROVE  (w \o t)[x] = (S \o t)[b + k + x]
  <2>1. CASE x <= l
    <3>1. x \in 1 .. l
      BY <2>1
    <3> QED
      BY <1>2, <1>3, <1>4, <1>6, <3>1
  <2>2. CASE x > l
    <3>1. PICK y \in 1 .. m : x = l + y
      <4>1. x - l \in 1 .. m /\ x = l + (x - l)
        BY <2>2
      <4> QED
        BY <4>1
    <3>2. b + k + x = n + y
      BY <1>2, <3>1
    <3> QED
      BY <1>3, <1>4, <3>1, <3>2
  <2>3. x <= l \/ x > l
    OBVIOUS
  <2> QED
    BY <2>1, <2>2, <2>3
<1>8. b + k + (l + m) = n + m
  BY <1>2
<1>9. \A x \in 1 .. k : r[x] = (S \o t)[b + x]
  BY <1>2, <1>3, <1>5
<1> QED
  BY <1>1, <1>3, <1>4, <1>7, <1>8, <1>9 DEF Ends

LEMMA SendInv ==
    ASSUME Inv, NEW p \in Payload, Send(p)
    PROVE  Inv'
<1>1. PICK S \in Seq(Cell), b \in Nat : \E st, en : Layout(S, st, en) /\ Place(S, st, en, b)
  BY DEF Inv
<1>2. PICK st, en : Layout(S, st, en) /\ Place(S, st, en, b)
  BY <1>1
<1>3. PICK t \in Seq(Cell) : t = proto_build_frame(p) /\ Len(t) = FrameLen(p)
  BY FrameShape
<1>4. PICK n \in Nat, s \in Nat, m \in Nat, h \in Nat :
        n = Len(sent) /\ s = Len(S) /\ m = FrameLen(p) /\ h = Len(handled)
  BY HeaderShape DEF Inv, TypeInv
<1>5. TypeInv /\ wire' = wire \o t /\ UNCHANGED <<noises, recv_buf, offset, pc, handled>>
  BY <1>3 DEF Send, Inv
<1>6. /\ sent' \in Seq(Payload) /\ Len(sent') = n + 1 /\ Len(sent') <= MaxFrames
      /\ \A k \in 1 .. n : sent'[k] = sent[k]
      /\ sent'[n + 1] = p
  <2>1. sent \in Seq(Payload) /\ sent' = Append(sent, p) /\ Len(sent) < MaxFrames
    BY <1>5 DEF Send, TypeInv
  <2> QED
    BY <1>4, <2>1, StreamAssumption
<1>7. PICK U \in Seq(Cell) :
        /\ U = S \o t /\ Len(U) = s + m
        /\ \A x \in 1 .. s : U[x] = S[x]
        /\ \A x \in 1 .. m : U[s + x] = t[x]
  <2>1. /\ S \o t \in Seq(Cell) /\ Len(S \o t) = Len(S) + Len(t)
        /\ \A x \in 1 .. Len(S) : (S \o t)[x] = S[x]
        /\ \A x \in 1 .. Len(t) : (S \o t)[Len(S) + x] = t[x]
    BY Longer
  <2>2. Len(S) = s /\ Len(t) = m
    BY <1>3, <1>4
  <2> QED
    BY <2>1, <2>2
<1> DEFINE st2 == [k \in 1 .. n + 2 |-> IF k = n + 2 THEN s + m ELSE st[k]]
           en2 == [k \in 0 .. n + 1 |-> IF k = n + 1 THEN s + m ELSE en[k]]
<1>8. /\ st \in [1 .. n + 1 -> Nat] /\ en \in [0 .. n -> Nat] /\ en[0] = 0 /\ st[n + 1] = s
      /\ \A k \in 1 .. n :
            /\ en[k] = st[k] + FrameLen(sent[k])
            /\ \A j \in 1 .. FrameLen(sent[k]) :
                  S[st[k] + j] = proto_build_frame(sent[k])[j]
      /\ \A k \in 0 .. n :
            /\ en[k] <= st[k + 1] /\ st[k + 1] <= s
            /\ noises = 0 => en[k] = st[k + 1]
            /\ \A x \in en[k] + 1 .. st[k + 1] : S[x] # PROTO_MAGIC_1
  BY <1>2, <1>4 DEF Layout
<1>9. /\ st2 \in [1 .. n + 2 -> Nat] /\ en2 \in [0 .. n + 1 -> Nat]
      /\ \A k \in 1 .. n + 1 : st2[k] = st[k]
      /\ \A k \in 0 .. n : en2[k] = en[k] /\ st2[k + 1] = st[k + 1]
      /\ st2[n + 2] = s + m /\ en2[n + 1] = s + m
  <2>1. \A k \in 1 .. n + 1 : k \in 1 .. n + 2 /\ k # n + 2
    OBVIOUS
  <2>2. \A k \in 0 .. n : k \in 0 .. n + 1 /\ k # n + 1 /\ k + 1 \in 1 .. n + 1
    OBVIOUS
  <2>3. \A k \in 1 .. n + 2 : k = n + 2 \/ k \in 1 .. n + 1
    OBVIOUS
  <2>4. \A k \in 0 .. n + 1 : k = n + 1 \/ k \in 0 .. n
    OBVIOUS
  <2>5. s + m \in Nat /\ n + 2 \in 1 .. n + 2 /\ n + 1 \in 0 .. n + 1
    OBVIOUS
  <2> QED
    BY <1>8, <2>1, <2>2, <2>3, <2>4, <2>5
<1> HIDE DEF st2, en2
<1>10. ASSUME NEW k \in 1 .. n + 1
       PROVE  /\ en2[k] = st2[k] + FrameLen(sent'[k])
              /\ \A j \in 1 .. FrameLen(sent'[k]) :
                    U[st2[k] + j] = proto_build_frame(sent'[k])[j]
  <2>1. CASE k \in 1 .. n
    <3>1. PICK q \in Payload : q = sent[k]
      BY <1>4, <1>5, <2>1 DEF TypeInv
    <3>2. PICK a \in Nat, l \in Nat : a = st[k] /\ l = FrameLen(q)
      BY <1>8, <3>1, HeaderShape
    <3>3. en[k] = a + l /\ en[k] <= st[k + 1] /\ st[k + 1] <= s /\ st[k + 1] \in Nat
      <4>1. k \in 0 .. n /\ k + 1 \in 1 .. n + 1
        BY <2>1
      <4> QED
        BY <1>8, <2>1, <3>1, <3>2, <4>1
    <3>4. \A j \in 1 .. l : a + j \in 1 .. s
      BY <3>3
    <3>5. \A j \in 1 .. l : U[a + j] = proto_build_frame(q)[j]
      BY <1>7, <1>8, <2>1, <3>1, <3>2, <3>4
    <3>6. k \in 0 .. n
      BY <2>1
    <3> QED
      BY <1>6, <1>9, <2>1, <3>1, <3>2, <3>3, <3>5, <3>6
  <2>2. CASE k = n + 1
    <3>1. sent'[k] = p /\ st2[k] = s /\ en2[k] = s + m
      BY <1>6, <1>8, <1>9, <2>2
    <3> QED
      BY <1>3, <1>4, <1>7, <3>1
  <2> QED
    BY <2>1, <2>2
<1>11. ASSUME NEW k \in 0 .. n + 1
       PROVE  /\ en2[k] <= st2[k + 1] /\ st2[k + 1] <= s + m
              /\ noises' = 0 => en2[k] = st2[k + 1]
              /\ \A x \in en2[k] + 1 .. st2[k + 1] : U[x] # PROTO_MAGIC_1
  <2>1. CASE k \in 0 .. n
    <3>1. PICK a \in Nat, c \in Nat : a = en[k] /\ c = st[k + 1] /\ a <= c /\ c <= s
      <4>1. k + 1 \in 1 .. n + 1
        BY <2>1
      <4>2. en[k] \in Nat /\ st[k + 1] \in Nat
        BY <1>8, <2>1, <4>1
      <4> QED
        BY <1>8, <2>1, <4>2
    <3>2. \A x \in a + 1 .. c : x \in 1 .. s
      BY <3>1
    <3>3. \A x \in a + 1 .. c : U[x] # PROTO_MAGIC_1
      BY <1>7, <1>8, <2>1, <3>1, <3>2
    <3>4. noises' = 0 => a = c
      BY <1>5, <1>8, <2>1, <3>1
    <3>5. en2[k] = a /\ st2[k + 1] = c
      BY <1>9, <2>1, <3>1
    <3>6. c <= s + m
      BY <3>1
    <3> QED
      BY <3>1, <3>3, <3>4, <3>5, <3>6
  <2>2. CASE k = n + 1
    <3>1. en2[k] = s + m /\ st2[k + 1] = s + m
      BY <1>9, <2>2
    <3>2. ~ \E x \in (s + m) + 1 .. s + m : TRUE
      OBVIOUS
    <3> QED
      BY <3>1, <3>2
  <2> QED
    BY <2>1, <2>2
<1>12. Layout(U, st2, en2)'
  <2>1. en2[0] = 0 /\ st2[(n + 1) + 1] = s + m
    BY <1>8, <1>9
  <2>2. (n + 1) + 1 = n + 2
    OBVIOUS
  <2> QED
    BY <1>6, <1>7, <1>9, <1>10, <1>11, <2>1, <2>2 DEF Layout
<1>13. Place(U, st2, en2, b)'
  <2>1. Ends(U, b, recv_buf, wire')
    <3>1. PICK r \in Seq(Cell), w \in Seq(Cell) : r = recv_buf /\ w = wire
      BY <1>5 DEF TypeInv
    <3>2. Ends(S \o t, b, r, w \o t)
      BY <1>2, <3>1, BytesLonger DEF Place
    <3> QED
      BY <1>5, <1>7, <3>1, <3>2
  <2>2. /\ h <= n /\ \A k \in 1 .. h : handled[k] = sent[k]
        /\ en[h] <= b + offset /\ b + offset <= st[h + 1]
    BY <1>2, <1>4 DEF Place
  <2>3. h \in 0 .. n /\ h <= n + 1 /\ \A k \in 1 .. h : k \in 1 .. n
    BY <2>2
  <2>4. \A k \in 1 .. h : handled[k] = sent'[k]
    BY <1>6, <2>2, <2>3
  <2>5. en2[h] <= b + offset /\ b + offset <= st2[h + 1]
    BY <1>9, <2>2, <2>3
  <2> QED
    BY <1>4, <1>5, <1>6, <2>1, <2>3, <2>4, <2>5 DEF Place
<1>14. TypeInv'
  <2>1. wire \in Seq(Cell) /\ wire' \in Seq(Cell)
    BY <1>5, Longer DEF TypeInv
  <2> QED
    BY <1>5, <1>6, <2>1 DEF TypeInv
<1> QED
  BY <1>12, <1>13, <1>14 DEF Inv

LEMMA DisturbInv ==
    ASSUME Inv, NEW z \in Noise, Disturb(z)
    PROVE  Inv'
<1>1. PICK S \in Seq(Cell), b \in Nat : \E st, en : Layout(S, st, en) /\ Place(S, st, en, b)
  BY DEF Inv
<1>2. PICK st, en : Layout(S, st, en) /\ Place(S, st, en, b)
  BY <1>1
<1>3. PICK t \in Seq(Cell) : t = z /\ \A x \in 1 .. Len(t) : t[x] # PROTO_MAGIC_1
  <2>1. z \in Seq(Nat) /\ Nat \subseteq Cell
    BY StreamAssumption DEF Cell
  <2>2. z \in Seq(Cell)
    BY <2>1, SeqDef
  <2>3. \A x \in 1 .. Len(z) : z[x] # PROTO_MAGIC_1
    BY <2>1, StreamAssumption
  <2> QED
    BY <2>2, <2>3
<1>4. PICK n \in Nat, s \in Nat, m \in Nat, h \in Nat :
        n = Len(sent) /\ s = Len(S) /\ m = Len(t) /\ h = Len(handled)
  BY DEF Inv, TypeInv
<1>5. /\ TypeInv /\ wire' = wire \o t /\ UNCHANGED <<sent, recv_buf, offset, pc, handled>>
      /\ noises < MaxNoise /\ noises' = noises + 1
  BY <1>3 DEF Disturb, Inv
<1>6. noises' \in 0 .. MaxNoise /\ noises' # 0
  <2>1. noises \in 0 .. MaxNoise /\ MaxNoise \in Nat
    BY <1>5, StreamAssumption DEF TypeInv
  <2> QED
    BY <1>5, <2>1
<1>7. PICK U \in Seq(Cell) :
        /\ U = S \o t /\ Len(U) = s + m
        /\ \A x \in 1 .. s : U[x] = S[x]
        /\ \A x \in 1 .. m : U[s + x] = t[x]
  <2>1. /\ S \o t \in Seq(Cell) /\ Len(S \o t) = Len(S) + Len(t)
        /\ \A x \in 1 .. Len(S) : (S \o t)[x] = S[x]
        /\ \A x \in 1 .. Len(t) : (S \o t)[Len(S) + x] = t[x]
    BY Longer
  <2> QED
    BY <1>4, <2>1
<1>8. /\ st \in [1 .. n + 1 -> Nat] /\ en \in [0 .. n -> Nat] /\ en[0] = 0 /\ st[n + 1] = s
      /\ \A k \in 1 .. n :
            /\ en[k] = st[k] + FrameLen(sent[k])
            /\ \A j \in 1 .. FrameLen(sent[k]) :
                  S[st[k] + j] = proto_build_frame(sent[k])[j]
      /\ \A k \in 0 .. n :
            /\ en[k] <= st[k + 1] /\ st[k + 1] <= s
            /\ \A x \in en[k] + 1 .. st[k + 1] : S[x] # PROTO_MAGIC_1
  BY <1>2, <1>4 DEF Layout
<1> DEFINE st2 == [st EXCEPT ![n + 1] = s + m]
<1>9. /\ st2 \in [1 .. n + 1 -> Nat] /\ st2[n + 1] = s + m
      /\ \A k \in 1 .. n : st2[k] = st[k]
  <2>1. n + 1 \in 1 .. n + 1 /\ s + m \in Nat /\ \A k \in 1 .. n : k \in 1 .. n + 1 /\ k # n + 1
    OBVIOUS
  <2> QED
    BY <1>8, <2>1
<1> HIDE DEF st2
<1>10. ASSUME NEW k \in 1 .. n
       PROVE  /\ en[k] = st2[k] + FrameLen(sent[k])
              /\ \A j \in 1 .. FrameLen(sent[k]) :
                    U[st2[k] + j] = proto_build_frame(sent[k])[j]
  <2>1. PICK q \in Payload : q = sent[k]
    BY <1>4, <1>5 DEF TypeInv
  <2>2. PICK a \in Nat, l \in Nat : a = st[k] /\ l = FrameLen(q)
    BY <1>8, HeaderShape
  <2>3. en[k] = a + l /\ en[k] <= st[k + 1] /\ st[k + 1] <= s /\ st[k + 1] \in Nat
    <3>1. k \in 0 .. n /\ k + 1 \in 1 .. n + 1
      OBVIOUS
    <3> QED
      BY <1>8, <2>1, <2>2, <3>1
  <2>4. \A j \in 1 .. l : a + j \in 1 .. s
    BY <2>3
  <2>5. \A j \in 1 .. l : U[a + j] = proto_build_frame(q)[j]
    BY <1>7, <1>8, <2>1, <2>2, <2>4
  <2> QED
    BY <1>9, <2>1, <2>2, <2>3, <2>5
<1>11. ASSUME NEW k \in 0 .. n
       PROVE  /\ en[k] <= st2[k + 1] /\ st2[k + 1] <= s + m
              /\ \A x \in en[k] + 1 .. st2[k + 1] : U[x] # PROTO_MAGIC_1
  <2>1. PICK a \in Nat, c \in Nat : a = en[k] /\ c = st[k + 1] /\ a <= c /\ c <= s
    <3>1. k + 1 \in 1 .. n + 1
      OBVIOUS
    <3>2. en[k] \in Nat /\ st[k + 1] \in Nat
      BY <1>8, <3>1
    <3> QED
      BY <1>8, <3>2
  <2>2. \A x \in a + 1 .. c : x \in 1 .. s
    BY <2>1
  <2>3. \A x \in a + 1 .. c : U[x] # PROTO_MAGIC_1
    BY <1>7, <1>8, <2>1, <2>2
  <2>4. CASE k < n
    <3>1. k + 1 \in 1 .. n /\ c <= s + m
      BY <2>1, <2>4
    <3>2. st2[k + 1] = c
      BY <1>9, <2>1, <3>1
    <3> QED
      BY <2>1, <2>3, <3>1, <3>2
  <2>5. CASE k = n
    <3>1. c = s /\ st2[k + 1] = s + m /\ a <= s + m
      BY <1>8, <1>9, <2>1, <2>5
    <3>2. ASSUME NEW x \in a + 1 .. s + m
          PROVE  U[x] # PROTO_MAGIC_1
      <4>1. CASE x <= s
        <5>1. x \in a + 1 .. c
          BY <3>1, <4>1
        <5> QED
          BY <2>3, <5>1
      <4>2. CASE x > s
        <5>1. x - s \in 1 .. m /\ x = s + (x - s)
          BY <4>2
        <5>2. PICK y \in 1 .. m : x = s + y
          BY <5>1
        <5> QED
          BY <1>3, <1>4, <1>7, <5>2
      <4> QED
        BY <4>1, <4>2
    <3> QED
      BY <2>1, <3>1, <3>2
  <2>6. k < n \/ k = n
    OBVIOUS
  <2> QED
    BY <2>4, <2>5, <2>6
<1>12. Layout(U, st2, en)'
  <2>1. sent' = sent /\ Len(sent') = n /\ noises' # 0
    BY <1>4, <1>5, <1>6
  <2>2. en[0] = 0 /\ st2[n + 1] = Len(U) /\ Len(U) = s + m
    BY <1>7, <1>8, <1>9
  <2>3. /\ st2 \in [1 .. Len(sent') + 1 -> Nat] /\ en \in [0 .. Len(sent') -> Nat]
        /\ en[0] = 0 /\ st2[Len(sent') + 1] = Len(U)
    BY <1>8, <1>9, <2>1, <2>2
  <2>4. \A k \in 1 .. Len(sent') :
           /\ en[k] = st2[k] + FrameLen(sent'[k])
           /\ \A j \in 1 .. FrameLen(sent'[k]) :
                 U[st2[k] + j] = proto_build_frame(sent'[k])[j]
    BY <1>10, <2>1
  <2>5. \A k \in 0 .. Len(sent') :
           /\ en[k] <= st2[k + 1] /\ st2[k + 1] <= Len(U)
           /\ noises' = 0 => en[k] = st2[k + 1]
           /\ \A x \in en[k] + 1 .. st2[k + 1] : U[x] # PROTO_MAGIC_1
    BY <1>11, <2>1, <2>2
  <2> QED
    BY <2>3, <2>4, <2>5 DEF Layout
<1>13. Place(U, st2, en, b)'
  <2>1. Ends(U, b, recv_buf, wire')
    <3>1. PICK r \in Seq(Cell), w \in Seq(Cell) : r = recv_buf /\ w = wire
      BY <1>5 DEF TypeInv
    <3>2. Ends(S \o t, b, r, w \o t)
      BY <1>2, <3>1, BytesLonger DEF Place
    <3> QED
      BY <1>5, <1>7, <3>1, <3>2
  <2>2. /\ h <= n /\ \A k \in 1 .. h : handled[k] = sent[k]
        /\ en[h] <= b + offset /\ b + offset <= st[h + 1]
    BY <1>2, <1>4 DEF Place
  <2>3. b + offset <= st2[h + 1]
    <3>1. CASE h < n
      <4>1. h + 1 \in 1 .. n
        BY <3>1
      <4> QED
        BY <1>9, <2>2, <4>1
    <3>2. CASE h = n
      <4>1. b + offset <= s /\ b + offset \in Nat
        BY <1>5, <1>8, <2>2, <3>2 DEF TypeInv
      <4> QED
        BY <1>9, <3>2, <4>1
    <3>3. h < n \/ h = n
      BY <2>2
    <3> QED
      BY <3>1, <3>2, <3>3
  <2> QED
    BY <1>4, <1>5, <2>1, <2>2, <2>3 DEF Place
<1>14. TypeInv'
  <2>1. wire \in Seq(Cell) /\ wire' \in Seq(Cell)
    BY <1>5, Longer DEF TypeInv
  <2> QED
    BY <1>5, <1>6, <2>1 DEF TypeInv
<1> QED
  BY <1>12, <1>13, <1>14 DEF Inv

-----------------------------------------------------------------------------
(* client_worker.                                                          *)

LEMMA Sizes ==
    /\ PROTO_FRAME_MAX \in Nat /\ Room \in Nat /\ PROTO_FRAME_MAX <= Room
    /\ \A p \in Payload : FrameLen(p) <= PROTO_FRAME_MAX
    /\ 3 < PROTO_FRAME_MAX
<1>1. PROTO_FRAME_MAX = PROTO_MAX_PAYLOAD + 4 /\ Room = PROTO_FRAME_MAX * 4 - 1
  BY StreamAssumption
  DEF PROTO_FRAME_MAX, Room, PROTO_HEADER_SIZE, PROTO_CHECKSUM_SIZE
<1>2. PICK n \in Nat : n = PROTO_MAX_PAYLOAD
  BY StreamAssumption
<1>3. PROTO_FRAME_MAX = n + 4 /\ Room = (n + 4) * 4 - 1
  BY <1>1, <1>2
<1>4. ASSUME NEW p \in Payload PROVE FrameLen(p) <= n + 4
  <2>1. Len(p) \in Nat /\ Len(p) <= n
    BY <1>2, HeaderShape, StreamAssumption
  <2> QED
    BY <2>1 DEF FrameLen
<1> QED
  BY <1>3, <1>4

\* recv moves the next bytes into the buffer.
LEMMA Moved ==
    ASSUME NEW S \in Seq(Cell), NEW r \in Seq(Cell), NEW w \in Seq(Cell), NEW b \in Nat,
           Ends(S, b, r, w), NEW k \in 0 .. Len(w)
    PROVE  /\ SubSeq(w, k + 1, Len(w)) \in Seq(Cell) /\ r \o SubSeq(w, 1, k) \in Seq(Cell)
           /\ Len(r \o SubSeq(w, 1, k)) = Len(r) + k
           /\ Ends(S, b, r \o SubSeq(w, 1, k), SubSeq(w, k + 1, Len(w)))
<1>1. PICK n \in Nat, l \in Nat : n = Len(r) /\ l = Len(w) /\ k <= l
  OBVIOUS
<1>2. PICK u : u = SubSeq(w, 1, k)
  OBVIOUS
<1>3. u \in Seq(Cell) /\ Len(u) = k /\ \A x \in 1 .. k : u[x] = w[x]
  BY <1>1, <1>2
<1>4. PICK v : v = SubSeq(w, k + 1, Len(w))
  OBVIOUS
<1>5. v \in Seq(Cell) /\ Len(v) = l - k /\ \A x \in 1 .. l - k : v[x] = w[k + x]
  BY <1>1, <1>4
<1>6. /\ r \o u \in Seq(Cell) /\ Len(r \o u) = n + k
      /\ \A x \in 1 .. n : (r \o u)[x] = r[x]
      /\ \A x \in 1 .. k : (r \o u)[n + x] = u[x]
  BY <1>1, <1>3, Longer
<1>7. /\ b + n + l = Len(S)
      /\ \A x \in 1 .. n : r[x] = S[b + x]
      /\ \A x \in 1 .. l : w[x] = S[b + n + x]
  BY <1>1 DEF Ends
<1>8. ASSUME NEW x \in 1 .. n + k
      PROVE  (r \o u)[x] = S[b + x]
  <2>1. CASE x \in 1 .. n
    BY <1>6, <1>7, <2>1
  <2>2. CASE x \notin 1 .. n
    <3>1. x - n \in 1 .. k /\ x = n + (x - n)
      BY <2>2
    <3>2. PICK y \in 1 .. k : x = n + y
      BY <3>1
    <3>3. y \in 1 .. l /\ b + n + y = b + x
      BY <1>1, <3>2
    <3>4. w[y] = S[b + n + y]
      BY <1>7, <3>3
    <3> QED
      BY <1>3, <1>6, <3>2, <3>3, <3>4
  <2> QED
    BY <2>1, <2>2
<1>9. ASSUME NEW x \in 1 .. l - k
      PROVE  v[x] = S[b + (n + k) + x]
  <2>1. k + x \in 1 .. l /\ b + n + (k + x) = b + (n + k) + x
    BY <1>1
  <2>2. w[k + x] = S[b + n + (k + x)]
    BY <1>7, <2>1
  <2> QED
    BY <1>5, <2>1, <2>2
<1>10. b + (n + k) + (l - k) = Len(S)
  <2>1. PICK s \in Nat : s = Len(S)
    OBVIOUS
  <2>2. b + n + l = s
    BY <1>7, <2>1
  <2>3. b + (n + k) + (l - k) = s
    BY <2>2
  <2> QED
    BY <2>1, <2>3
<1>11. Ends(S, b, r \o u, v)
  BY <1>5, <1>6, <1>8, <1>9, <1>10 DEF Ends
<1> QED
  BY <1>1, <1>2, <1>4, <1>5, <1>6, <1>11

LEMMA ReceiveInv ==
    ASSUME Inv, Receive
    PROVE  Inv'
<1>1. PICK S \in Seq(Cell), b \in Nat : \E st, en : Layout(S, st, en) /\ Place(S, st, en, b)
  BY DEF Inv
<1>2. PICK st, en : Layout(S, st, en) /\ Place(S, st, en, b)
  BY <1>1
<1>3. PICK r \in Seq(Cell), w \in Seq(Cell) : r = recv_buf /\ w = wire
  BY DEF Inv, TypeInv
<1>4. PICK k \in 0 .. Len(w) :
        /\ pc = "recv" /\ Len(r) + k <= Room
        /\ k = 0 => Len(r) = Room
        /\ recv_buf' = r \o SubSeq(w, 1, k)
        /\ wire' = SubSeq(w, k + 1, Len(w))
        /\ pc' = IF k = 0 THEN "closed" ELSE "parse"
        /\ UNCHANGED <<sent, noises, offset, handled>>
  BY <1>3 DEF Receive
<1>5. offset = 0 /\ Len(r) < PROTO_FRAME_MAX
  BY <1>3, <1>4 DEF Inv, TypeInv
<1>6. pc' = "parse"
  <2>1. Len(r) \in Nat
    OBVIOUS
  <2> QED
    BY <1>4, <1>5, <2>1, Sizes
<1>7. /\ SubSeq(w, k + 1, Len(w)) \in Seq(Cell) /\ r \o SubSeq(w, 1, k) \in Seq(Cell)
      /\ Len(r \o SubSeq(w, 1, k)) = Len(r) + k
      /\ Ends(S, b, r \o SubSeq(w, 1, k), SubSeq(w, k + 1, Len(w)))
  BY <1>2, <1>3, Moved DEF Place
<1>8. TypeInv'
  <2>1. wire' \in Seq(Cell) /\ recv_buf' \in Seq(Cell) /\ Len(recv_buf') <= Room
    BY <1>4, <1>7
  <2>2. offset' \in 0 .. Len(recv_buf')
    BY <1>4, <1>5, <2>1
  <2> QED
    BY <1>4, <1>6, <2>1, <2>2 DEF Inv, TypeInv
<1>9. Layout(S, st, en)' /\ Place(S, st, en, b)'
  BY <1>2, <1>4, <1>7 DEF Layout, Place
<1> QED
  BY <1>8, <1>9 DEF Inv

\* No frame is passed over, and none is taken that was not sent.
LEMMA ParseFrameInv ==
    ASSUME Inv, ParseFrame
    PROVE  Inv'
<1>1. PICK S \in Seq(Cell), b \in Nat : \E st, en : Layout(S, st, en) /\ Place(S, st, en, b)
  BY DEF Inv
<1>2. PICK st, en : Layout(S, st, en) /\ Place(S, st, en, b)
  BY <1>1
<1>3. /\ TypeInv /\ pc = "parse" /\ offset < Len(recv_buf) /\ proto_parse_frame(Rest) > 0
      /\ handled' = Append(handled, SubSeq(Rest, PROTO_HEADER_SIZE + 1,
                               proto_parse_frame(Rest) - PROTO_CHECKSUM_SIZE))
      /\ offset' = offset + proto_parse_frame(Rest)
      /\ UNCHANGED <<sent, noises, wire, recv_buf, pc>>
  BY DEF Inv, ParseFrame
<1>4. AtFrame(st, b)
  <2>1. AtNoise(st, b) \/ AtFrame(st, b)
    BY <1>2, <1>3, Position
  <2>2. ~AtNoise(st, b)
    BY <1>3 DEF AtNoise
  <2> QED
    BY <2>1, <2>2
<1>5. PICK h \in Nat, n \in Nat : h = Len(handled) /\ n = Len(sent) /\ h < n
  BY <1>3, <1>4 DEF TypeInv, AtFrame
<1>6. h + 1 \in 1 .. n /\ h + 1 \in 0 .. n /\ h + 2 \in 1 .. n + 1 /\ h + 1 <= n
      /\ h + 1 \in 1 .. n + 1
  BY <1>5
<1>7. PICK p \in Payload : p = sent[h + 1]
  BY <1>3, <1>5, <1>6 DEF TypeInv
<1>8. PICK l \in Nat, m \in Nat : l = FrameLen(p) /\ m = Len(Rest)
  BY <1>3, HeaderShape, RestShape
<1>9. /\ m >= l /\ proto_parse_frame(Rest) = l
      /\ SubSeq(Rest, PROTO_HEADER_SIZE + 1, l - PROTO_CHECKSUM_SIZE) = p
  <2>1. ~(m < l)
    BY <1>3, <1>4, <1>5, <1>7, <1>8 DEF AtFrame
  <2>2. m >= l
    BY <2>1
  <2> QED
    BY <1>4, <1>5, <1>7, <1>8, <2>2 DEF AtFrame
<1>10. handled' = Append(handled, p) /\ offset' = offset + l
  BY <1>3, <1>9
<1>11. /\ handled' \in Seq(Payload) /\ Len(handled') = h + 1
       /\ \A k \in 1 .. h + 1 : handled'[k] = sent[k]
  <2>1. /\ handled' \in Seq(Payload) /\ Len(handled') = h + 1 /\ handled'[h + 1] = p
        /\ \A k \in 1 .. h : handled'[k] = handled[k]
    <3>1. PICK d \in Seq(Payload) : d = handled /\ Len(d) = h
      BY <1>3, <1>5 DEF TypeInv
    <3>2. /\ Append(d, p) \in Seq(Payload) /\ Len(Append(d, p)) = h + 1
          /\ Append(d, p)[h + 1] = p /\ \A k \in 1 .. h : Append(d, p)[k] = d[k]
      BY <3>1
    <3> QED
      BY <1>10, <3>1, <3>2
  <2>2. \A k \in 1 .. h : handled[k] = sent[k]
    BY <1>2, <1>5 DEF Place
  <2>3. \A k \in 1 .. h + 1 : k = h + 1 \/ k \in 1 .. h
    OBVIOUS
  <2> QED
    BY <1>7, <2>1, <2>2, <2>3
<1>12. TypeInv'
  <2>1. offset \in Nat /\ Len(recv_buf) \in Nat /\ m = Len(recv_buf) - offset
    BY <1>3, <1>8, RestShape DEF TypeInv
  <2>2. offset' \in 0 .. Len(recv_buf')
    BY <1>3, <1>9, <1>10, <2>1
  <2> QED
    BY <1>3, <1>11, <2>2 DEF TypeInv
<1>13. Layout(S, st, en)'
  BY <1>2, <1>3 DEF Layout
<1>14. Place(S, st, en, b)'
  <2>1. b + offset = st[h + 1]
    BY <1>4, <1>5 DEF AtFrame
  <2>2. en[h + 1] = st[h + 1] + l /\ en[h + 1] <= st[(h + 1) + 1]
    BY <1>2, <1>5, <1>6, <1>7, <1>8 DEF Layout
  <2>3. PICK o \in Nat : o = offset
    BY <1>3 DEF TypeInv
  <2>4. b + offset' = en[h + 1]
    <3>1. b + (o + l) = (b + o) + l
      OBVIOUS
    <3> QED
      BY <1>10, <2>1, <2>2, <2>3, <3>1
  <2>5. en[h + 1] \in Nat
    BY <1>2, <1>5, <1>6 DEF Layout
  <2>6. en[h + 1] <= b + offset' /\ b + offset' <= st[(h + 1) + 1]
    BY <2>2, <2>4, <2>5
  <2> QED
    BY <1>2, <1>3, <1>5, <1>6, <1>11, <2>6 DEF Place
<1> QED
  BY <1>12, <1>13, <1>14 DEF Inv

LEMMA ParseSkipInv ==
    ASSUME Inv, ParseSkip
    PROVE  Inv'
<1>1. PICK S \in Seq(Cell), b \in Nat : \E st, en : Layout(S, st, en) /\ Place(S, st, en, b)
  BY DEF Inv
<1>2. PICK st, en : Layout(S, st, en) /\ Place(S, st, en, b)
  BY <1>1
<1>3. /\ TypeInv /\ pc = "parse" /\ offset < Len(recv_buf) /\ proto_parse_frame(Rest) = -1
      /\ offset' = offset + 1
      /\ UNCHANGED <<sent, noises, wire, recv_buf, pc, handled>>
  BY DEF Inv, ParseSkip
<1>4. AtNoise(st, b)
  <2>1. ~AtFrame(st, b)
    <3>1. SUFFICES ASSUME AtFrame(st, b) PROVE FALSE
      OBVIOUS
    <3>2. PICK p \in Payload : p = sent[Len(handled) + 1]
      BY <1>3, <3>1 DEF AtFrame, TypeInv
    <3>3. FrameLen(p) \in Nat /\ Len(Rest) \in Nat
      <4>1. FrameLen(p) \in Nat
        BY <3>2, HeaderShape
      <4>2. Len(Rest) \in Nat
        BY <1>3, RestShape
      <4> QED
        BY <4>1, <4>2
    <3>4. proto_parse_frame(Rest) = 0 \/ proto_parse_frame(Rest) = FrameLen(p)
      BY <3>1, <3>2, <3>3 DEF AtFrame
    <3> QED
      BY <1>3, <3>3, <3>4
  <2> QED
    BY <1>2, <1>3, <2>1, Position
<1>5. PICK o \in Nat, r \in Nat : o = offset /\ r = Len(recv_buf) /\ o < r
  <2>1. offset \in Nat /\ Len(recv_buf) \in Nat
    BY <1>3 DEF TypeInv
  <2> QED
    BY <1>3, <2>1
<1>6. TypeInv'
  <2>1. offset' \in 0 .. Len(recv_buf')
    BY <1>3, <1>5
  <2> QED
    BY <1>3, <2>1 DEF TypeInv
<1>7. Layout(S, st, en)'
  BY <1>2, <1>3 DEF Layout
<1>8. Place(S, st, en, b)'
  <2>1. PICK h \in Nat, n \in Nat : h = Len(handled) /\ n = Len(sent) /\ h <= n
    BY <1>2, <1>3 DEF TypeInv, Place
  <2>2. h \in 0 .. n /\ h + 1 \in 1 .. n + 1
    BY <2>1
  <2>3. PICK e \in Nat, f \in Nat : e = en[h] /\ f = st[h + 1]
    BY <1>2, <2>1, <2>2 DEF Layout
  <2>4. e <= b + o /\ b + o < f
    BY <1>2, <1>4, <1>5, <2>1, <2>3 DEF Place, AtNoise
  <2>5. e <= b + (o + 1) /\ b + (o + 1) <= f
    BY <2>4
  <2> QED
    BY <1>2, <1>3, <1>5, <2>1, <2>3, <2>5 DEF Place
<1> QED
  BY <1>6, <1>7, <1>8 DEF Inv

\* What stays in the buffer is less than one frame.
LEMMA ParseEndInv ==
    ASSUME Inv, ParseEnd
    PROVE  Inv'
<1>1. PICK S \in Seq(Cell), b \in Nat : \E st, en : Layout(S, st, en) /\ Place(S, st, en, b)
  BY DEF Inv
<1>2. PICK st, en : Layout(S, st, en) /\ Place(S, st, en, b)
  BY <1>1
<1>3. /\ TypeInv /\ pc = "parse" /\ recv_buf' = Rest /\ offset' = 0 /\ pc' = "recv"
      /\ offset < Len(recv_buf) => proto_parse_frame(Rest) = 0
      /\ UNCHANGED <<sent, noises, wire, handled>>
  BY DEF Inv, ParseEnd
<1>4. PICK t \in Seq(Cell), l \in Nat : t = Rest /\ l = Len(t)
  BY <1>3, RestShape
<1>5. PICK o \in Nat, r \in Nat : o = offset /\ r = Len(recv_buf) /\ o <= r /\ l = r - o
  <2>1. /\ offset \in Nat /\ Len(recv_buf) \in Nat /\ offset <= Len(recv_buf)
        /\ l = Len(recv_buf) - offset
    BY <1>3, <1>4, RestShape DEF TypeInv
  <2> QED
    BY <2>1
<1>6. l < PROTO_FRAME_MAX
  <2>1. CASE o = r
    BY <1>5, <2>1, Sizes
  <2>2. CASE o < r
    <3>1. AtNoise(st, b) \/ AtFrame(st, b)
      BY <1>2, <1>3, <1>5, <2>2, Position
    <3>2. proto_parse_frame(Rest) = 0
      BY <1>3, <1>5, <2>2
    <3>3. CASE AtNoise(st, b)
      <4>1. l < 3
        BY <1>4, <3>2, <3>3 DEF AtNoise
      <4> QED
        BY <4>1, Sizes
    <3>4. CASE AtFrame(st, b)
      <4>1. PICK p \in Payload : p = sent[Len(handled) + 1]
        BY <1>3, <3>4 DEF AtFrame, TypeInv
      <4>2. PICK m \in Nat : m = FrameLen(p) /\ m >= 4
        BY <4>1, HeaderShape DEF FrameLen
      <4>3. ~(l >= m)
        BY <1>4, <3>2, <3>4, <4>1, <4>2 DEF AtFrame
      <4>4. m <= PROTO_FRAME_MAX
        BY <4>2, Sizes
      <4> QED
        BY <4>3, <4>4, Sizes
    <3> QED
      BY <3>1, <3>3, <3>4
  <2> QED
    BY <1>5, <2>1, <2>2
<1>7. TypeInv'
  <2>1. recv_buf' \in Seq(Cell) /\ Len(recv_buf') = l
    BY <1>3, <1>4
  <2>2. Len(recv_buf') <= Room /\ Len(recv_buf') < PROTO_FRAME_MAX
    BY <1>6, <2>1, Sizes
  <2>3. offset' \in 0 .. Len(recv_buf')
    BY <1>3, <2>1
  <2> QED
    BY <1>3, <2>1, <2>2, <2>3 DEF TypeInv
<1>8. Layout(S, st, en)'
  BY <1>2, <1>3 DEF Layout
<1>9. b + o \in Nat
  OBVIOUS
<1>10. Place(S, st, en, b + o)'
  <2>1. Ends(S, b + o, t, wire)
    <3>1. PICK w \in Seq(Cell), m \in Nat : w = wire /\ m = Len(w)
      BY <1>3 DEF TypeInv
    <3>2. /\ b + r + m = Len(S)
          /\ \A x \in 1 .. r : recv_buf[x] = S[b + x]
          /\ \A x \in 1 .. m : w[x] = S[b + r + x]
      BY <1>2, <1>5, <3>1 DEF Place, Ends
    <3>3. (b + o) + l + m = Len(S) /\ (b + o) + l = b + r
      <4>1. (b + o) + l = b + r
        BY <1>5
      <4> QED
        BY <3>2, <4>1
    <3>4. ASSUME NEW x \in 1 .. l
          PROVE  t[x] = S[(b + o) + x]
      <4>1. t[x] = recv_buf[o + x]
        BY <1>3, <1>4, <1>5, RestShape
      <4>2. o + x \in 1 .. r /\ b + (o + x) = (b + o) + x
        BY <1>5
      <4> QED
        BY <3>2, <4>1, <4>2
    <3> QED
      BY <1>4, <3>1, <3>2, <3>3, <3>4 DEF Ends
  <2>2. (b + o) + 0 = b + o
    OBVIOUS
  <2> QED
    BY <1>2, <1>3, <1>4, <1>5, <2>1, <2>2 DEF Place
<1> QED
  BY <1>7, <1>8, <1>9, <1>10 DEF Inv

LEMMA InitInv == Init => Inv
<1> SUFFICES ASSUME Init PROVE Inv
  OBVIOUS
<1> DEFINE S == << >>
           st == [k \in 1 .. 1 |-> 0]
           en == [k \in 0 .. 0 |-> 0]
<1>1. /\ sent = << >> /\ handled = << >> /\ wire = << >> /\ recv_buf = << >>
      /\ noises = 0 /\ offset = 0 /\ pc = "recv"
  BY DEF Init
<1>2. /\ S \in Seq(Cell) /\ S \in Seq(Payload) /\ Len(S) = 0
  BY EmptySeq
<1>3. TypeInv
  <2>1. 0 \in 0 .. MaxNoise /\ 0 <= MaxFrames /\ 0 <= Room /\ 0 < PROTO_FRAME_MAX /\ 0 \in 0 .. 0
    BY StreamAssumption, Sizes
  <2> QED
    BY <1>1, <1>2, <2>1 DEF TypeInv
<1>4. /\ st \in [1 .. 1 -> Nat] /\ en \in [0 .. 0 -> Nat] /\ en[0] = 0 /\ st[1] = 0
      /\ \A k \in 0 .. 0 : k = 0
  OBVIOUS
<1> HIDE DEF S, st, en
<1>5. Layout(S, st, en)
  <2>1. Len(sent) = 0 /\ \A k \in 1 .. 0 : FALSE
    BY <1>1, <1>2, EmptySeq
  <2>2. st \in [1 .. 0 + 1 -> Nat] /\ st[0 + 1] = 0
    BY <1>4
  <2>3. ASSUME NEW k \in 0 .. 0
        PROVE  /\ en[k] <= st[k + 1] /\ st[k + 1] <= 0 /\ en[k] = st[k + 1]
               /\ \A x \in en[k] + 1 .. st[k + 1] : S[x] # PROTO_MAGIC_1
    <3>1. en[k] = 0 /\ st[k + 1] = 0
      BY <1>4
    <3>2. \A x \in 0 + 1 .. 0 : FALSE
      OBVIOUS
    <3> QED
      BY <3>1, <3>2
  <2> QED
    BY <1>2, <1>4, <2>1, <2>2, <2>3 DEF Layout
<1>6. Place(S, st, en, 0)
  <2>1. Ends(S, 0, recv_buf, wire)
    <3>1. \A x \in 1 .. 0 : FALSE
      OBVIOUS
    <3>2. recv_buf = S /\ wire = S
      BY <1>1 DEF S
    <3> QED
      BY <1>2, <3>1, <3>2 DEF Ends
  <2>2. /\ Len(handled) = 0 /\ Len(sent) = 0 /\ \A k \in 1 .. 0 : FALSE
    BY <1>1, EmptySeq
  <2>3. en[0] <= 0 + offset /\ 0 + offset <= st[0 + 1]
    BY <1>1, <1>4
  <2> QED
    BY <2>1, <2>2, <2>3 DEF Place
<1>7. 0 \in Nat
  OBVIOUS
<1>8. \E a, c : Layout(S, a, c) /\ Place(S, a, c, 0)
  BY <1>5, <1>6
<1>9. \E U \in Seq(Cell), b \in Nat : \E a, c : Layout(U, a, c) /\ Place(U, a, c, b)
  BY <1>2, <1>7, <1>8
<1> QED
  BY <1>3, <1>9 DEF Inv

LEMMA NextInv == Inv /\ [Next]_vars => Inv'
<1> SUFFICES ASSUME Inv, [Next]_vars PROVE Inv'
  OBVIOUS
<1>1. CASE UNCHANGED vars
  <2>1. PICK S \in Seq(Cell), b \in Nat : \E st, en : Layout(S, st, en) /\ Place(S, st, en, b)
    BY DEF Inv
  <2>2. PICK st, en : Layout(S, st, en) /\ Place(S, st, en, b)
    BY <2>1
  <2>3. Layout(S, st, en)' /\ Place(S, st, en, b)'
    BY <1>1, <2>2 DEF vars, Layout, Place
  <2>4. TypeInv'
    BY <1>1 DEF vars, Inv, TypeInv
  <2> QED
    BY <2>3, <2>4 DEF Inv
<1> QED
  BY <1>1, SendInv, DisturbInv, ReceiveInv, ParseFrameInv, ParseSkipInv, ParseEndInv DEF Next

LEMMA InvCorrect == Spec => []Inv
BY InitInv, NextInv, PTL DEF Spec

-----------------------------------------------------------------------------
(* Every variable has its type; between two calls of recv the worker keeps less  *)
(* than it can receive, and never takes a full buffer for the end of the line.    *)
THEOREM TypeCorrect == Spec => []TypeOK
<1>1. Inv => TypeOK
  BY DEF Inv, TypeInv, TypeOK
<1> QED
  BY <1>1, InvCorrect, PTL

(* Between two calls of recv less than one frame is kept (gateway.c 546-551).    *)
THEOREM HalfFrameCorrect == Spec => []HalfFrame
<1>1. Inv => HalfFrame
  BY DEF Inv, TypeInv, HalfFrame
<1> QED
  BY <1>1, InvCorrect, PTL

(* The worker offers recv room every time, so that a result of 0 does mean that   *)
(* the device has closed the connection (gateway.c 498-502).                      *)
THEOREM StaysOpen == Spec => [](pc # "closed")
<1>1. Inv => pc # "closed"
  BY DEF Inv, TypeInv
<1> QED
  BY <1>1, InvCorrect, PTL

(* However TCP cuts the stream, and whatever noise is between the frames, the     *)
(* handlers get what the device has sent: unchanged, once and in order.           *)
THEOREM InOrderCorrect == Spec => []InOrder
<1>1. ASSUME Inv PROVE InOrder
  <2>1. PICK h \in Seq(Payload), s \in Seq(Payload) : h = handled /\ s = sent
    BY <1>1 DEF Inv, TypeInv
  <2>2. Len(h) <= Len(s) /\ \A k \in 1 .. Len(h) : h[k] = s[k]
    BY <1>1, <2>1 DEF Inv, Place
  <2>3. PICK n \in Nat, m \in Nat : n = Len(h) /\ m = Len(s) /\ n <= m
    BY <2>2
  <2>4. /\ SubSeq(h, 1, n) \in Seq(Payload) /\ SubSeq(s, 1, n) \in Seq(Payload)
        /\ Len(SubSeq(h, 1, n)) = n /\ Len(SubSeq(s, 1, n)) = n
        /\ \A k \in 1 .. n : SubSeq(h, 1, n)[k] = h[k] /\ SubSeq(s, 1, n)[k] = s[k]
    BY <2>3
  <2>5. SubSeq(h, 1, n) = SubSeq(s, 1, n)
    BY <2>2, <2>3, <2>4, SeqEqual
  <2> QED
    BY <2>1, <2>2, <2>3, <2>5 DEF InOrder, IsPrefix
<1> QED
  BY <1>1, InvCorrect, PTL

-----------------------------------------------------------------------------
(* Pieces that follow each other without a gap, put together again.          *)

LEMMA LeastNumber ==
    ASSUME NEW S, S \subseteq Nat, S # {}
    PROVE  \E m \in S : \A n \in S : m <= n
<1> DEFINE R == {ss \in Nat \X Nat : ss[1] < ss[2]}
<1>1. IsWellFoundedOn(R, Nat)
  BY NatLessThanWellFounded DEF OpToRel
<1>2. \E m \in S : \A n \in S : <<n, m>> \notin R
  <2> HIDE DEF R
  <2> QED
    BY <1>1, WFMin
<1>3. \A m, n \in S : <<n, m>> \notin R => m <= n
  OBVIOUS
<1> QED
  BY <1>2, <1>3

\* The local function of FlattenSeq.
Flattens(f, q) ==
    f = [i \in 1 .. Len(q) |-> IF i = 1 THEN q[i] ELSE f[i - 1] \o q[i]]

LEMMA FlattenIs ==
    ASSUME NEW q, Len(q) \in Nat \ {0}, NEW g, Flattens(g, q)
    PROVE  FlattenSeq(q) = g[Len(q)]
<1> DEFINE r == CHOOSE f : Flattens(f, q)
<1>1. Flattens(r, q)
  OBVIOUS
<1>2. FlattenSeq(q) = r[Len(q)]
  BY DEF FlattenSeq, Flattens
<1> HIDE DEF r
<1>3. PICK n \in Nat \ {0} : n = Len(q)
  OBVIOUS
<1>4. /\ \A i \in 1 .. n : r[i] = IF i = 1 THEN q[i] ELSE r[i - 1] \o q[i]
      /\ \A i \in 1 .. n : g[i] = IF i = 1 THEN q[i] ELSE g[i - 1] \o q[i]
  BY <1>1, <1>3 DEF Flattens
<1>5. \A i \in 1 .. n : r[i] = g[i]
  <2> DEFINE S == {i \in 1 .. n : r[i] # g[i]}
  <2> SUFFICES ASSUME S # {} PROVE FALSE
    OBVIOUS
  <2>1. PICK m \in S : \A i \in S : m <= i
    <3>1. S \subseteq Nat
      OBVIOUS
    <3> HIDE DEF S
    <3> QED
      BY <3>1, LeastNumber
  <2>2. m \in 1 .. n /\ r[m] # g[m]
    BY <2>1
  <2>3. CASE m = 1
    BY <1>4, <2>2, <2>3
  <2>4. CASE m # 1
    <3>1. m - 1 \in 1 .. n /\ ~(m <= m - 1)
      BY <2>2, <2>4
    <3>2. r[m - 1] = g[m - 1]
      BY <2>1, <3>1
    <3> QED
      BY <1>4, <2>2, <2>4, <3>2
  <2> QED
    BY <2>3, <2>4
<1>6. n \in 1 .. n
  OBVIOUS
<1> QED
  BY <1>2, <1>3, <1>5, <1>6

\* Piece k of B begins after d[k - 1] and ends after d[k] bytes.
LEMMA Flattened ==
    ASSUME NEW B \in Seq(Cell), NEW N \in Nat, NEW q \in Seq(Seq(Cell)), Len(q) = N,
           NEW d \in [0 .. N -> Nat], d[0] = 0, d[N] = Len(B),
           \A k \in 1 .. N : /\ d[k] = d[k - 1] + Len(q[k]) /\ d[k] <= Len(B)
                             /\ \A j \in 1 .. Len(q[k]) : B[d[k - 1] + j] = q[k][j]
    PROVE  FlattenSeq(q) = B
<1>1. CASE N = 0
  <2>1. q = << >> /\ B = << >>
    BY <1>1, EmptySeq
  <2> QED
    BY <1>1, <2>1 DEF FlattenSeq
<1>2. CASE N # 0
  <2> DEFINE g == [i \in 1 .. N |-> SubSeq(B, 1, d[i])]
  <2>1. ASSUME NEW k \in 1 .. N
        PROVE  g[k] = IF k = 1 THEN q[k] ELSE g[k - 1] \o q[k]
    <3>1. k - 1 \in 0 .. N /\ k \in 0 .. N
      OBVIOUS
    <3>2. PICK u \in Nat, v \in Nat, t \in Seq(Cell) :
            u = d[k - 1] /\ v = d[k] /\ t = q[k]
      BY <3>1
    <3>3. PICK l \in Nat : l = Len(t) /\ v = u + l /\ v <= Len(B)
      BY <3>2
    <3>4. \A j \in 1 .. l : B[u + j] = t[j]
      BY <3>2, <3>3
    <3>5. /\ SubSeq(B, 1, v) \in Seq(Cell) /\ Len(SubSeq(B, 1, v)) = v
          /\ \A x \in 1 .. v : SubSeq(B, 1, v)[x] = B[x]
      BY <3>3
    <3>6. g[k] = SubSeq(B, 1, v)
      BY <3>2
    <3>7. CASE k = 1
      <4>1. u = 0 /\ v = l
        BY <3>2, <3>3, <3>7
      <4>2. \A j \in 1 .. l : 0 + j = j
        OBVIOUS
      <4>3. \A j \in 1 .. l : SubSeq(B, 1, v)[j] = t[j]
        BY <3>4, <3>5, <4>1, <4>2
      <4>4. SubSeq(B, 1, v) = t
        BY <3>3, <3>5, <4>1, <4>3, SeqEqual
      <4> QED
        BY <3>2, <3>6, <3>7, <4>4
    <3>8. CASE k # 1
      <4>1. k - 1 \in 1 .. N
        BY <3>8
      <4>2. /\ SubSeq(B, 1, u) \in Seq(Cell) /\ Len(SubSeq(B, 1, u)) = u
            /\ \A x \in 1 .. u : SubSeq(B, 1, u)[x] = B[x]
        <5>1. PICK n \in Nat : n = Len(B)
          OBVIOUS
        <5>2. u <= n
          BY <3>3, <5>1
        <5> QED
          BY <5>1, <5>2
      <4>3. PICK s \in Seq(Cell) : s = SubSeq(B, 1, u)
        BY <4>2
      <4>4. /\ s \o t \in Seq(Cell) /\ Len(s \o t) = v
            /\ \A x \in 1 .. u : (s \o t)[x] = s[x]
            /\ \A x \in 1 .. l : (s \o t)[u + x] = t[x]
        <5>1. /\ s \o t \in Seq(Cell) /\ Len(s \o t) = Len(s) + Len(t)
              /\ \A x \in 1 .. Len(s) : (s \o t)[x] = s[x]
              /\ \A x \in 1 .. Len(t) : (s \o t)[Len(s) + x] = t[x]
          BY Longer
        <5>2. Len(s) = u /\ Len(t) = l /\ v = u + l
          BY <3>3, <4>2, <4>3
        <5> QED
          BY <5>1, <5>2
      <4>5. ASSUME NEW x \in 1 .. v
            PROVE  SubSeq(B, 1, v)[x] = (s \o t)[x]
        <5>1. CASE x \in 1 .. u
          BY <3>5, <4>2, <4>3, <4>4, <5>1
        <5>2. CASE x \notin 1 .. u
          <6>1. x - u \in 1 .. l /\ x = u + (x - u)
            BY <3>3, <5>2
          <6>2. PICK y \in 1 .. l : x = u + y
            BY <6>1
          <6> QED
            BY <3>4, <3>5, <4>4, <6>2
        <5> QED
          BY <5>1, <5>2
      <4>6. SubSeq(B, 1, v) = s \o t
        BY <3>5, <4>4, <4>5, SeqEqual
      <4>7. g[k - 1] = s
        BY <3>2, <4>1, <4>3
      <4> QED
        BY <3>2, <3>6, <3>8, <4>6, <4>7
    <3> QED
      BY <3>7, <3>8
  <2>2. g = [i \in 1 .. N |-> g[i]]
    OBVIOUS
  <2>3. g[N] = B
    <3>1. PICK n \in Nat : n = Len(B)
      OBVIOUS
    <3>2. SubSeq(B, 1, n) = B
      BY <3>1, SubSeqFull
    <3>3. N \in 1 .. N
      BY <1>2
    <3> QED
      BY <3>1, <3>2, <3>3
  <2> HIDE DEF g
  <2>4. Flattens(g, q)
    BY <2>1, <2>2 DEF Flattens
  <2> QED
    BY <1>2, <2>3, <2>4, FlattenIs
<1> QED
  BY <1>1, <1>2

\* Without noise every frame ends where the next one begins.
LEMMA FramesTouch ==
    ASSUME TypeInv, noises = 0, NEW S \in Seq(Cell), NEW st, NEW en, Layout(S, st, en),
           NEW n \in Nat, n = Len(sent), NEW h \in 0 .. n
    PROVE  /\ en \in [0 .. n -> Nat] /\ en[n] = Len(S)
           /\ \A k \in 0 .. n : en[k] = st[k + 1] /\ en[k] <= Len(S)
           /\ \A k \in 1 .. n :
                 /\ sent[k] \in Payload /\ en[k] = en[k - 1] + FrameLen(sent[k])
                 /\ \A j \in 1 .. FrameLen(sent[k]) :
                       S[en[k - 1] + j] = proto_build_frame(sent[k])[j]
           /\ \A k \in h .. n : en[h] <= en[k]
<1>1. /\ en \in [0 .. n -> Nat] /\ st[n + 1] = Len(S)
      /\ \A k \in 0 .. n : en[k] = st[k + 1] /\ st[k + 1] <= Len(S)
      /\ \A k \in 1 .. n :
            /\ en[k] = st[k] + FrameLen(sent[k])
            /\ \A j \in 1 .. FrameLen(sent[k]) :
                  S[st[k] + j] = proto_build_frame(sent[k])[j]
  BY DEF Layout
<1>2. \A k \in 1 .. n : sent[k] \in Payload
  BY DEF TypeInv
<1>3. ASSUME NEW k \in 1 .. n PROVE st[k] = en[k - 1]
  <2>1. k - 1 \in 0 .. n /\ (k - 1) + 1 = k
    OBVIOUS
  <2> QED
    BY <1>1, <2>1
<1>4. n \in 0 .. n
  OBVIOUS
<1>5. \A k \in 1 .. n : en[k - 1] <= en[k]
  <2>1. ASSUME NEW k \in 1 .. n PROVE en[k - 1] <= en[k]
    <3>1. k - 1 \in 0 .. n /\ k \in 0 .. n
      OBVIOUS
    <3>2. PICK a \in Nat, c \in Nat, l \in Nat :
            a = en[k - 1] /\ c = en[k] /\ l = FrameLen(sent[k])
      BY <1>1, <1>2, <3>1, HeaderShape
    <3>3. c = a + l
      BY <1>1, <1>3, <3>2
    <3> QED
      BY <3>2, <3>3
  <2> QED
    BY <2>1
<1>6. \A k \in h .. n : en[h] <= en[k]
  <2> DEFINE L == {k \in h .. n : ~(en[h] <= en[k])}
  <2> SUFFICES ASSUME L # {} PROVE FALSE
    OBVIOUS
  <2>1. PICK m \in L : \A k \in L : m <= k
    <3>1. L \subseteq Nat
      OBVIOUS
    <3> HIDE DEF L
    <3> QED
      BY <3>1, LeastNumber
  <2>2. m \in h .. n /\ ~(en[h] <= en[m])
    BY <2>1
  <2>3. en[h] \in Nat /\ en[m] \in Nat
    <3>1. h \in 0 .. n /\ m \in 0 .. n
      BY <2>2
    <3> QED
      BY <1>1, <3>1
  <2>4. m # h
    BY <2>2, <2>3
  <2>5. m - 1 \in h .. n /\ m \in 1 .. n /\ m - 1 \in 0 .. n /\ ~(m <= m - 1)
    BY <2>2, <2>4
  <2>6. en[h] <= en[m - 1]
    BY <2>1, <2>5
  <2>7. en[m - 1] \in Nat /\ en[m - 1] <= en[m]
    BY <1>1, <1>5, <2>5
  <2> QED
    BY <2>2, <2>3, <2>6, <2>7
<1>7. en[n] = Len(S)
  BY <1>1, <1>4
<1>8. \A k \in 0 .. n : en[k] = st[k + 1] /\ en[k] <= Len(S)
  BY <1>1
<1>9. ASSUME NEW k \in 1 .. n
      PROVE  /\ sent[k] \in Payload /\ en[k] = en[k - 1] + FrameLen(sent[k])
             /\ \A j \in 1 .. FrameLen(sent[k]) :
                   S[en[k - 1] + j] = proto_build_frame(sent[k])[j]
  <2>1. st[k] = en[k - 1]
    BY <1>3
  <2>2. sent[k] \in Payload
    BY <1>2
  <2>3. en[k] = st[k] + FrameLen(sent[k])
    BY <1>1
  <2>4. \A j \in 1 .. FrameLen(sent[k]) : S[st[k] + j] = proto_build_frame(sent[k])[j]
    BY <1>1
  <2> QED
    BY <2>1, <2>2, <2>3, <2>4
<1> QED
  BY <1>1, <1>6, <1>7, <1>8, <1>9

(* Without noise the parser never loses its place: what it has still to parse or    *)
(* to receive is the frames that are not handled yet, and nothing else.             *)
THEOREM InSyncCorrect == Spec => []InSync
<1>1. ASSUME Inv, noises = 0
      PROVE  Rest \o wire = FlattenSeq([k \in 1 .. Len(sent) - Len(handled) |->
                                           proto_build_frame(sent[Len(handled) + k])])
  <2>1. PICK S \in Seq(Cell), b \in Nat : \E st, en : Layout(S, st, en) /\ Place(S, st, en, b)
    BY <1>1 DEF Inv
  <2>2. PICK st, en : Layout(S, st, en) /\ Place(S, st, en, b)
    BY <2>1
  <2>3. TypeInv
    BY <1>1 DEF Inv
  <2>4. PICK n \in Nat, h \in Nat, o \in Nat :
          n = Len(sent) /\ h = Len(handled) /\ h <= n /\ o = offset
    BY <2>2, <2>3 DEF TypeInv, Place
  <2>5. PICK r \in Nat, w \in Nat, z \in Nat :
          r = Len(recv_buf) /\ w = Len(wire) /\ z = Len(S) /\ o <= r
    BY <2>3, <2>4 DEF TypeInv
  <2>6. h \in 0 .. n
    BY <2>4
  <2>7. /\ en \in [0 .. n -> Nat] /\ en[n] = z
        /\ \A k \in 0 .. n : en[k] = st[k + 1] /\ en[k] <= z
        /\ \A k \in 1 .. n :
              /\ sent[k] \in Payload /\ en[k] = en[k - 1] + FrameLen(sent[k])
              /\ \A j \in 1 .. FrameLen(sent[k]) :
                    S[en[k - 1] + j] = proto_build_frame(sent[k])[j]
        /\ \A k \in h .. n : en[h] <= en[k]
    <3>1. PICK i \in 0 .. n : i = h
      BY <2>6
    <3>2. /\ en \in [0 .. n -> Nat] /\ en[n] = Len(S)
          /\ \A k \in 0 .. n : en[k] = st[k + 1] /\ en[k] <= Len(S)
          /\ \A k \in 1 .. n :
                /\ sent[k] \in Payload /\ en[k] = en[k - 1] + FrameLen(sent[k])
                /\ \A j \in 1 .. FrameLen(sent[k]) :
                      S[en[k - 1] + j] = proto_build_frame(sent[k])[j]
          /\ \A k \in i .. n : en[i] <= en[k]
      <4>1. Layout(S, st, en) /\ n = Len(sent) /\ noises = 0
        BY <1>1, <2>2, <2>4
      <4> QED
        BY <2>3, <4>1, FramesTouch
    <3> QED
      BY <2>5, <3>1, <3>2
  <2>8. PICK c \in Nat : c = en[h]
    BY <2>6, <2>7
  <2>9. b + o = c
    <3>1. en[h] <= b + o /\ b + o <= st[h + 1]
      BY <2>2, <2>4 DEF Place
    <3>2. st[h + 1] = c
      BY <2>6, <2>7, <2>8
    <3> QED
      BY <2>8, <3>1, <3>2
  <2>10. /\ b + r + w = z
         /\ \A x \in 1 .. r : recv_buf[x] = S[b + x]
         /\ \A x \in 1 .. w : wire[x] = S[b + r + x]
    BY <2>2, <2>5 DEF Place, Ends
  <2>11. PICK t \in Seq(Cell), u \in Seq(Cell) : t = Rest /\ u = wire
    BY <2>3, RestShape DEF TypeInv
  <2>12. PICK l \in Nat :
           /\ l = Len(t) /\ l = r - o
           /\ \A x \in 1 .. l : t[x] = recv_buf[o + x]
    BY <2>3, <2>4, <2>5, <2>11, RestShape
  <2>13. PICK B \in Seq(Cell) :
           /\ B = t \o u /\ Len(B) = l + w
           /\ \A x \in 1 .. l : B[x] = t[x]
           /\ \A x \in 1 .. w : B[l + x] = u[x]
    <3>1. /\ t \o u \in Seq(Cell) /\ Len(t \o u) = Len(t) + Len(u)
          /\ \A x \in 1 .. Len(t) : (t \o u)[x] = t[x]
          /\ \A x \in 1 .. Len(u) : (t \o u)[Len(t) + x] = u[x]
      BY Longer
    <3>2. Len(t) = l /\ Len(u) = w
      BY <2>5, <2>11, <2>12
    <3> QED
      BY <3>1, <3>2
  <2>14. c + (l + w) = z /\ \A y \in 1 .. w : b + r + y = c + (l + y)
    <3>1. b + o = c /\ b + r + w = z /\ l = r - o
      BY <2>9, <2>10, <2>12
    <3> QED
      BY <2>4, <3>1
  <2>15. ASSUME NEW x \in 1 .. l + w PROVE B[x] = S[c + x]
    <3>1. CASE x \in 1 .. l
      <4>1. o + x \in 1 .. r /\ b + (o + x) = c + x
        BY <2>9, <2>12, <3>1
      <4> QED
        BY <2>10, <2>12, <2>13, <3>1, <4>1
    <3>2. CASE x \notin 1 .. l
      <4>1. x - l \in 1 .. w /\ x = l + (x - l)
        BY <3>2
      <4>2. PICK y \in 1 .. w : x = l + y
        BY <4>1
      <4>3. b + r + y = c + x
        BY <2>14, <4>2
      <4> QED
        BY <2>10, <2>11, <2>13, <4>2, <4>3
    <3> QED
      BY <3>1, <3>2
  <2>16. PICK N \in Nat : N = n - h
    <3>1. n - h \in Nat
      BY <2>4
    <3> QED
      BY <3>1
  <2> DEFINE q == [k \in 1 .. N |-> proto_build_frame(sent[h + k])]
             d == [k \in 0 .. N |-> en[h + k] - c]
  <2>17. \A k \in 1 .. N : h + k \in 1 .. n /\ h + k \in h .. n /\ (h + k) - 1 = h + (k - 1)
    BY <2>4, <2>16
  <2>18. q \in Seq(Seq(Cell)) /\ Len(q) = N
    <3>1. \A k \in 1 .. N : proto_build_frame(sent[h + k]) \in Seq(Cell)
      BY <2>7, <2>17, FrameShape
    <3>2. PICK C : C = Seq(Cell)
      OBVIOUS
    <3>3. q \in [1 .. N -> C] /\ DOMAIN q = 1 .. N
      BY <3>1, <3>2
    <3> HIDE DEF q
    <3>4. q \in Seq(C)
      BY <3>3, SeqDef
    <3>5. Len(q) = N
      BY <3>3, <3>4, LenProperties
    <3> QED
      BY <3>2, <3>4, <3>5
  <2>19. d \in [0 .. N -> Nat] /\ d[0] = 0 /\ d[N] = Len(B)
    <3>1. ASSUME NEW k \in 0 .. N PROVE en[h + k] - c \in Nat
      <4>1. h + k \in h .. n /\ h + k \in 0 .. n
        BY <2>4, <2>16
      <4>2. PICK e \in Nat : e = en[h + k]
        BY <2>7, <4>1
      <4>3. c <= e
        BY <2>7, <2>8, <4>1, <4>2
      <4> QED
        BY <4>2, <4>3
    <3>2. 0 \in 0 .. N /\ N \in 0 .. N /\ h + 0 = h /\ h + N = n
      BY <2>4, <2>16
    <3>3. z - c = l + w /\ c - c = 0
      BY <2>14
    <3>4. d[0] = c - c /\ d[N] = z - c
      BY <2>7, <2>8, <3>2
    <3> QED
      BY <2>13, <3>1, <3>3, <3>4
  <2>20. ASSUME NEW k \in 1 .. N
         PROVE  /\ d[k] = d[k - 1] + Len(q[k]) /\ d[k] <= Len(B)
                /\ \A j \in 1 .. Len(q[k]) : B[d[k - 1] + j] = q[k][j]
    <3>1. /\ k \in 0 .. N /\ k - 1 \in 0 .. N /\ h + k \in 1 .. n /\ h + k \in 0 .. n
          /\ (h + k) - 1 = h + (k - 1) /\ h + (k - 1) \in 0 .. n /\ h + (k - 1) \in h .. n
      BY <2>4, <2>16
    <3>2. PICK p \in Payload : p = sent[h + k]
      BY <2>7, <3>1
    <3>3. PICK m \in Nat : m = FrameLen(p)
      BY HeaderShape
    <3>4. q[k] = proto_build_frame(p) /\ Len(q[k]) = m
      BY <3>2, <3>3, FrameShape
    <3>5. PICK e \in Nat, f \in Nat : e = en[h + (k - 1)] /\ f = en[h + k]
      BY <2>7, <3>1
    <3>6. /\ f = e + m /\ f <= z /\ c <= e
          /\ \A j \in 1 .. m : S[e + j] = proto_build_frame(p)[j]
      <4>1. en[h + k] = en[h + (k - 1)] + FrameLen(sent[h + k])
        BY <2>7, <3>1
      <4>2. \A j \in 1 .. FrameLen(sent[h + k]) :
               S[en[h + (k - 1)] + j] = proto_build_frame(sent[h + k])[j]
        <5>1. \A j \in 1 .. FrameLen(sent[h + k]) :
                 S[en[(h + k) - 1] + j] = proto_build_frame(sent[h + k])[j]
          BY <2>7, <3>1
        <5>2. en[(h + k) - 1] = en[h + (k - 1)]
          BY <3>1
        <5> QED
          BY <5>1, <5>2
      <4>3. en[h + k] <= z /\ en[h] <= en[h + (k - 1)]
        BY <2>7, <3>1
      <4> QED
        BY <2>8, <3>2, <3>3, <3>5, <4>1, <4>2, <4>3
    <3>7. d[k] = f - c /\ d[k - 1] = e - c
      BY <3>1, <3>5
    <3>8. f - c = (e - c) + m /\ f - c <= l + w
      BY <2>14, <3>6
    <3>9. ASSUME NEW j \in 1 .. m PROVE B[(e - c) + j] = proto_build_frame(p)[j]
      <4>1. (e - c) + j \in 1 .. l + w /\ c + ((e - c) + j) = e + j
        BY <2>14, <3>6
      <4> QED
        BY <2>15, <3>6, <4>1
    <3> QED
      BY <2>13, <3>4, <3>7, <3>8, <3>9
  <2> HIDE DEF q, d
  <2>21. FlattenSeq(q) = B
    BY <2>18, <2>19, <2>20, Flattened
  <2> QED
    BY <2>4, <2>11, <2>13, <2>16, <2>21 DEF q
<1> QED
  BY <1>1, InvCorrect, PTL DEF InSync
=============================================================================
