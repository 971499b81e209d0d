------------------------- MODULE TestClient_proofs --------------------------
(* Proofs about TestClient, for any number of requests and heartbeats, any     *)
(* room in the sockets, and whether TCP cuts frames or not.                  *)
EXTENDS TestClient, FiniteSetTheorems, SequenceTheorems, WellFoundedInduction, TLAPS

-----------------------------------------------------------------------------
(* Counting.                                                               *)

LEMMA DisjointUnion ==
    ASSUME NEW S, NEW T, IsFiniteSet(S), IsFiniteSet(T), S \cap T = {}
    PROVE  Cardinality(S \cup T) = Cardinality(S) + Cardinality(T)
<1>1. Cardinality(S) \in Nat /\ Cardinality(T) \in Nat /\ Cardinality(S \cap T) = 0
  BY FS_CardinalityType, FS_EmptySet
<1>2. Cardinality(S \cup T) = Cardinality(S) + Cardinality(T) - Cardinality(S \cap T)
  BY FS_Union
<1> QED
  BY <1>1, <1>2

\* Sets whose elements correspond to each other.
LEMMA SameSize ==
    ASSUME NEW A, NEW B, IsFiniteSet(A), NEW f \in [A -> B],
           \A a, b \in A : f[a] = f[b] => a = b, \A b \in B : \E a \in A : f[a] = b
    PROVE  IsFiniteSet(B) /\ Cardinality(B) = Cardinality(A)
<1>1. f \in Bijection(A, B)
  BY DEF Bijection, Injection, Surjection, IsInjective
<1> QED
  BY <1>1, FS_Bijection DEF ExistsBijection

LEMMA CountType ==
    ASSUME NEW S, NEW s \in Seq(S), NEW x
    PROVE  Count(s, x) \in Nat /\ IsFiniteSet({k \in DOMAIN s : s[k] = x})
<1>1. PICK n \in Nat : DOMAIN s = 1 .. n
  BY LenProperties
<1>2. IsFiniteSet(1 .. n)
  BY FS_Interval
<1>3. {k \in DOMAIN s : s[k] = x} \in SUBSET (1 .. n)
  BY <1>1
<1>4. IsFiniteSet({k \in DOMAIN s : s[k] = x})
  BY <1>2, <1>3, FS_Subset
<1> QED
  BY <1>4, FS_CardinalityType DEF Count

LEMMA CountBoth ==
    ASSUME NEW S, NEW s \in Seq(S), NEW t \in Seq(S), NEW x
    PROVE  Count(s \o t, x) = Count(s, x) + Count(t, x)
<1>1. PICK m \in Nat, n \in Nat : m = Len(s) /\ n = Len(t)
  OBVIOUS
<1>2. PICK u : u = s \o t
  OBVIOUS
<1>3. /\ u \in Seq(S) /\ Len(u) = m + n
      /\ \A k \in 1 .. m + n : u[k] = IF k <= m THEN s[k] ELSE t[k - m]
  BY <1>1, <1>2, ConcatProperties
<1>4. DOMAIN s = 1 .. m /\ DOMAIN t = 1 .. n /\ DOMAIN u = 1 .. m + n
  BY <1>1, <1>3, LenProperties
<1> DEFINE A == {k \in 1 .. m : s[k] = x}
           B == {k \in 1 .. n : t[k] = x}
           D == {k \in 1 .. m + n : u[k] = x}
           Later == {k \in m + 1 .. m + n : u[k] = x}
           f == [k \in B |-> m + k]
<1>5. IsFiniteSet(A) /\ IsFiniteSet(B)
  BY <1>4, CountType
<1>6. \A k \in B : f[k] \in Later
  <2>1. ASSUME NEW k \in B PROVE m + k \in Later
    <3>1. k \in 1 .. n /\ t[k] = x
      OBVIOUS
    <3>2. m + k \in 1 .. m + n /\ ~(m + k <= m) /\ (m + k) - m = k /\ m + k \in m + 1 .. m + n
      BY <3>1
    <3> QED
      BY <1>3, <3>1, <3>2
  <2> QED
    BY <2>1
<1>7. \A k \in Later : \E j \in B : f[j] = k
  <2>1. ASSUME NEW k \in Later PROVE \E j \in B : f[j] = k
    <3>1. k \in m + 1 .. m + n /\ u[k] = x
      OBVIOUS
    <3>2. k - m \in 1 .. n /\ k \in 1 .. m + n /\ ~(k <= m) /\ m + (k - m) = k
      BY <3>1
    <3>3. t[k - m] = x
      BY <1>3, <3>1, <3>2
    <3> QED
      BY <3>2, <3>3
  <2> QED
    BY <2>1
<1>8. \A j, k \in B : f[j] = f[k] => j = k
  OBVIOUS
<1>9. f \in [B -> Later]
  BY <1>6
<1>10. IsFiniteSet(Later) /\ Cardinality(Later) = Cardinality(B)
  <2> HIDE DEF f, B, Later
  <2> QED
    BY <1>5, <1>7, <1>8, <1>9, SameSize
<1>11. D = A \cup Later /\ A \cap Later = {}
  <2>1. ASSUME NEW k PROVE k \in D <=> k \in A \cup Later
    <3>1. CASE k \in 1 .. m
      <4>1. k \in 1 .. m + n /\ k <= m /\ k \notin m + 1 .. m + n
        BY <3>1
      <4> QED
        BY <1>3, <3>1, <4>1
    <3>2. CASE k \notin 1 .. m
      <4>1. k \in 1 .. m + n <=> k \in m + 1 .. m + n
        BY <3>2
      <4> QED
        BY <3>2, <4>1
    <3> QED
      BY <3>1, <3>2
  <2>2. ASSUME NEW k \in A, k \in Later PROVE FALSE
    BY <2>2
  <2> QED
    BY <2>1, <2>2
<1>12. Cardinality(D) = Cardinality(A) + Cardinality(B)
  <2> HIDE DEF A, B, D, Later
  <2> QED
    BY <1>5, <1>10, <1>11, DisjointUnion
<1> QED
  BY <1>2, <1>4, <1>12 DEF Count

LEMMA CountSmall ==
    ASSUME NEW x
    PROVE  Count(<< >>, x) = 0 /\ \A y : Count(<<y>>, x) = IF y = x THEN 1 ELSE 0
<1>1. {k \in DOMAIN << >> : << >>[k] = x} = {}
  BY EmptySeq
<1>2. Count(<< >>, x) = 0
  BY <1>1, FS_EmptySet DEF Count
<1>3. ASSUME NEW y PROVE Count(<<y>>, x) = IF y = x THEN 1 ELSE 0
  <2>1. {k \in DOMAIN <<y>> : <<y>>[k] = x} = IF y = x THEN {1} ELSE {}
    OBVIOUS
  <2> QED
    BY <2>1, FS_EmptySet, FS_Singleton DEF Count
<1> QED
  BY <1>2, <1>3

\* A queue whose first element is taken.
LEMMA CountTail ==
    ASSUME NEW S, NEW s \in Seq(S), s # << >>, NEW x
    PROVE  Count(s, x) = Count(Tail(s), x) + IF Head(s) = x THEN 1 ELSE 0
<1>1. /\ <<Head(s)>> \in Seq(S) /\ Tail(s) \in Seq(S) /\ Head(s) \in S
  OBVIOUS
<1>2. s = <<Head(s)>> \o Tail(s)
  OBVIOUS
<1>3. Count(s, x) = Count(<<Head(s)>>, x) + Count(Tail(s), x)
  <2>1. PICK h, t : h = <<Head(s)>> /\ t = Tail(s)
    OBVIOUS
  <2>2. Count(h \o t, x) = Count(h, x) + Count(t, x)
    BY <1>1, <2>1, CountBoth
  <2>3. s = h \o t
    BY <1>2, <2>1
  <2> QED
    BY <2>1, <2>2, <2>3
<1>4. Count(<<Head(s)>>, x) = IF Head(s) = x THEN 1 ELSE 0
  BY CountSmall
<1>5. Count(Tail(s), x) \in Nat
  BY <1>1, CountType
<1> QED
  BY <1>3, <1>4, <1>5

\* What the gateway sends is an acknowledgement or a heartbeat.
LEMMA CountKinds ==
    ASSUME NEW s \in Seq({"ACK", "PING"})
    PROVE  Count(s, "ACK") + Count(s, "PING") = Len(s)
<1>1. PICK n \in Nat : n = Len(s) /\ DOMAIN s = 1 .. n
  BY LenProperties
<1> DEFINE A == {k \in DOMAIN s : s[k] = "ACK"}
           B == {k \in DOMAIN s : s[k] = "PING"}
<1>2. IsFiniteSet(A) /\ IsFiniteSet(B)
  BY CountType
<1>3. A \cup B = 1 .. n /\ A \cap B = {}
  <2>1. \A k \in 1 .. n : s[k] \in {"ACK", "PING"}
    BY <1>1
  <2> QED
    BY <1>1, <2>1
<1>4. Cardinality(1 .. n) = n
  BY FS_Interval
<1> HIDE DEF A, B
<1>5. Cardinality(A) + Cardinality(B) = n
  BY <1>2, <1>3, <1>4, DisjointUnion
<1> QED
  BY <1>1, <1>5 DEF Count, A, B

-----------------------------------------------------------------------------
(* Pieces that are whole frames, and what the client finds in them.         *)

Kind  == {"ACK", "PING"}
Pieces == [kind : Kind, part : 1 .. frame_len]

Frames(d, ks) ==
    /\ Len(d) = 3 * Len(ks)
    /\ \A j \in 1 .. Len(ks) : /\ d[3 * j - 2] = Piece(ks[j], 1)
                               /\ d[3 * j - 1] = Piece(ks[j], 2)
                               /\ d[3 * j] = Piece(ks[j], 3)

LEMMA Thirds ==
    ASSUME NEW m \in Nat, NEW k \in 1 .. 3 * m
    PROVE  \E j \in 1 .. m : k = 3 * j - 2 \/ k = 3 * j - 1 \/ k = 3 * j
<1>1. (k + 2) \div 3 \in 1 .. m
  OBVIOUS
<1>2. LET j == (k + 2) \div 3 IN k = 3 * j - 2 \/ k = 3 * j - 1 \/ k = 3 * j
  OBVIOUS
<1> QED
  BY <1>1, <1>2

\* The first pieces are as many as the frames.
LEMMA FramesCount ==
    ASSUME NEW d \in Seq(Pieces), NEW ks \in Seq(Kind), Frames(d, ks)
    PROVE  Count(d, Piece("ACK", 1)) = Count(ks, "ACK")
<1>1. PICK m \in Nat : m = Len(ks)
  OBVIOUS
<1>2. /\ Len(d) = 3 * m
      /\ \A j \in 1 .. m : /\ d[3 * j - 2] = Piece(ks[j], 1)
                           /\ d[3 * j - 1] = Piece(ks[j], 2)
                           /\ d[3 * j] = Piece(ks[j], 3)
  BY <1>1 DEF Frames
<1>3. DOMAIN ks = 1 .. m /\ DOMAIN d = 1 .. 3 * m
  BY <1>1, <1>2, LenProperties
<1>4. \A x, p, q : p # q => Piece(x, p) # Piece("ACK", q)
  BY DEF Piece
<1>5. \A x : Piece(x, 1) = Piece("ACK", 1) <=> x = "ACK"
  BY DEF Piece
<1> DEFINE A == {j \in 1 .. m : ks[j] = "ACK"}
           B == {k \in 1 .. 3 * m : d[k] = Piece("ACK", 1)}
           f == [j \in A |-> 3 * j - 2]
<1>6. IsFiniteSet(A)
  BY <1>3, CountType
<1>7. f \in [A -> B]
  <2>1. ASSUME NEW j \in A PROVE 3 * j - 2 \in B
    <3>1. j \in 1 .. m /\ ks[j] = "ACK" /\ 3 * j - 2 \in 1 .. 3 * m
      OBVIOUS
    <3> QED
      BY <1>2, <3>1
  <2> QED
    BY <2>1
<1>8. \A i, j \in A : f[i] = f[j] => i = j
  OBVIOUS
<1>9. ASSUME NEW k \in B PROVE \E j \in A : f[j] = k
  <2>1. k \in 1 .. 3 * m /\ d[k] = Piece("ACK", 1)
    OBVIOUS
  <2>2. PICK j \in 1 .. m : k = 3 * j - 2 \/ k = 3 * j - 1 \/ k = 3 * j
    BY <2>1, Thirds
  <2>3. k = 3 * j - 2
    <3>1. Piece(ks[j], 2) # Piece("ACK", 1) /\ Piece(ks[j], 3) # Piece("ACK", 1)
      BY <1>4
    <3> QED
      BY <1>2, <2>1, <2>2, <3>1
  <2>4. ks[j] = "ACK"
    BY <1>2, <1>5, <2>1, <2>3
  <2> QED
    BY <2>3, <2>4
<1>10. Cardinality(B) = Cardinality(A)
  <2> HIDE DEF A, B, f
  <2> QED
    BY <1>6, <1>7, <1>8, <1>9, SameSize
<1> QED
  BY <1>3, <1>10 DEF Count

LEMMA LeastNumber ==
    ASSUME NEW S, S \subseteq Nat, S # {}
    PROVE  \E m \in S : \A n \in S : m <= n
<1> DEFINE R == {ss \in Nat \X Nat : ss[1] < ss[2]}
<1>1. IsWellFoundedOn(R, Nat)
  BY NatLessThanWellFounded DEF OpToRel
<1>2. \E m \in S : \A n \in S : <<n, m>> \notin R
  <2> HIDE DEF R
  <2> QED
    BY <1>1, WFMin
<1>3. \A m, n \in S : <<n, m>> \notin R => m <= n
  OBVIOUS
<1> QED
  BY <1>2, <1>3

\* The local function of handle_server_data: what is found from o on.
Scans(f, buf) ==
    f = [o \in 0 .. Len(buf) + frame_len |->
            IF o + PROTO_HEADER_SIZE > Len(buf) THEN << >>
            ELSE IF buf[o + 1].part # 1 THEN f[o + 1]
            ELSE IF o + frame_len > Len(buf) THEN << >>
            ELSE <<buf[o + 1].kind>> \o f[o + frame_len]]

\* There is at most one: of two, look at the last place where they differ.
LEMMA ScanUnique ==
    ASSUME NEW buf, Len(buf) \in Nat, NEW f, NEW g, Scans(f, buf), Scans(g, buf)
    PROVE  f[0] = g[0]
<1>1. PICK n \in Nat : n = Len(buf)
  OBVIOUS
<1>2. /\ \A o \in 0 .. n + 3 :
            f[o] = IF o + 2 > n THEN << >>
                   ELSE IF buf[o + 1].part # 1 THEN f[o + 1]
                   ELSE IF o + 3 > n THEN << >>
                   ELSE <<buf[o + 1].kind>> \o f[o + 3]
      /\ \A o \in 0 .. n + 3 :
            g[o] = IF o + 2 > n THEN << >>
                   ELSE IF buf[o + 1].part # 1 THEN g[o + 1]
                   ELSE IF o + 3 > n THEN << >>
                   ELSE <<buf[o + 1].kind>> \o g[o + 3]
  BY <1>1 DEF Scans, PROTO_HEADER_SIZE, frame_len
<1> DEFINE S == {i \in 0 .. n + 3 : f[n + 3 - i] # g[n + 3 - i]}
<1>3. S = {}
  <2> SUFFICES ASSUME S # {} PROVE FALSE
    OBVIOUS
  <2>1. PICK i \in S : \A k \in S : i <= k
    <3>1. S \subseteq Nat
      OBVIOUS
    <3> HIDE DEF S
    <3> QED
      BY <3>1, LeastNumber
  <2>2. PICK o \in 0 .. n + 3 : o = n + 3 - i
    BY <2>1
  <2>3. f[o] # g[o]
    BY <2>1, <2>2
  <2>4. ~(o + 2 > n)
    BY <1>2, <2>3
  <2>5. \A k \in 0 .. n + 3 : k > o => f[k] = g[k]
    <3>1. ASSUME NEW k \in 0 .. n + 3, k > o, f[k] # g[k] PROVE FALSE
      <4>1. n + 3 - k \in 0 .. n + 3 /\ n + 3 - (n + 3 - k) = k /\ ~(i <= n + 3 - k)
        BY <2>1, <2>2, <3>1
      <4>2. n + 3 - k \in S
        BY <3>1, <4>1
      <4> QED
        BY <2>1, <4>1, <4>2
    <3> QED
      BY <3>1
  <2>6. f[o + 1] = g[o + 1] /\ f[o + 3] = g[o + 3]
    <3>1. o + 1 \in 0 .. n + 3 /\ o + 1 > o /\ o + 3 \in 0 .. n + 3 /\ o + 3 > o
      BY <2>4
    <3> QED
      BY <2>5, <3>1
  <2> QED
    BY <1>2, <2>3, <2>6
<1>4. n + 3 \in 0 .. n + 3 /\ n + 3 - (n + 3) = 0
  OBVIOUS
<1> QED
  BY <1>3, <1>4

\* Of whole frames handle_server_data finds every one, and its kind.
LEMMA HandleFrames ==
    ASSUME NEW buf \in Seq(Pieces), NEW ks \in Seq(Kind), Frames(buf, ks)
    PROVE  handle_server_data(buf) = ks
<1>1. PICK m \in Nat : m = Len(ks)
  OBVIOUS
<1>2. /\ Len(buf) = 3 * m
      /\ \A j \in 1 .. m : /\ buf[3 * j - 2] = Piece(ks[j], 1)
                           /\ buf[3 * j - 1] = Piece(ks[j], 2)
                           /\ buf[3 * j] = Piece(ks[j], 3)
  BY <1>1 DEF Frames
<1>3. \A x, p : Piece(x, p).part = p /\ Piece(x, p).kind = x
  BY DEF Piece
<1> DEFINE From(j) == SubSeq(ks, j + 1, m)
           g == [o \in 0 .. 3 * m + 3 |-> From((o + 2) \div 3)]
<1>4. \A j \in Nat : j >= m => From(j) = << >>
  <2>1. ASSUME NEW j \in Nat, j >= m PROVE SubSeq(ks, j + 1, m) = << >>
    <3>1. j + 1 > m
      BY <2>1
    <3> QED
      BY <3>1, SubSeqEmpty
  <2> QED
    BY <2>1
<1>5. \A j \in 0 .. m - 1 : From(j) = <<ks[j + 1]>> \o From(j + 1)
  <2>1. ASSUME NEW j \in 0 .. m - 1
        PROVE  SubSeq(ks, j + 1, m) = <<ks[j + 1]>> \o SubSeq(ks, j + 2, m)
    <3>1. j + 1 \in 1 .. Len(ks) /\ m \in j + 1 .. Len(ks) /\ (j + 1) + 1 = j + 2
      BY <1>1
    <3>2. SubSeq(ks, j + 1, m) = <<ks[j + 1]>> \o SubSeq(ks, (j + 1) + 1, m)
      BY <3>1, SubSeqRecursiveFirst
    <3> QED
      BY <3>1, <3>2
  <2>2. \A j \in 0 .. m - 1 : (j + 1) + 1 = j + 2
    OBVIOUS
  <2> QED
    BY <2>1, <2>2
<1> HIDE DEF From
<1>6. ASSUME NEW o \in 0 .. 3 * m + 3
      PROVE  g[o] = IF o + 2 > 3 * m THEN << >>
                    ELSE IF buf[o + 1].part # 1 THEN g[o + 1]
                    ELSE IF o + 3 > 3 * m THEN << >>
                    ELSE <<buf[o + 1].kind>> \o g[o + 3]
  <2>1. CASE o + 2 > 3 * m
    <3>1. (o + 2) \div 3 \in Nat /\ (o + 2) \div 3 >= m
      BY <2>1
    <3> QED
      BY <1>4, <2>1, <3>1
  <2>2. CASE ~(o + 2 > 3 * m)
    <3>1. o + 1 \in 1 .. 3 * m
      BY <2>2
    <3>2. PICK i \in 1 .. m : o + 1 = 3 * i - 2 \/ o + 1 = 3 * i - 1 \/ o + 1 = 3 * i
      BY <3>1, Thirds
    <3>3. PICK j \in 0 .. m - 1 : i = j + 1
      <4>1. i - 1 \in 0 .. m - 1 /\ i = (i - 1) + 1
        OBVIOUS
      <4> QED
        BY <4>1
    <3>4. o + 1 \in 0 .. 3 * m + 3 /\ o + 3 \in 0 .. 3 * m + 3
      BY <2>2
    <3>5. CASE o + 1 = 3 * i - 2
      <4>1. (o + 2) \div 3 = j /\ (o + 3 + 2) \div 3 = j + 1 /\ ~(o + 3 > 3 * m)
        BY <3>3, <3>5
      <4>2. g[o] = From(j) /\ g[o + 3] = From(j + 1)
        BY <3>4, <4>1
      <4>3. buf[o + 1] = Piece(ks[j + 1], 1)
        BY <1>2, <3>3, <3>5
      <4>4. buf[o + 1].part = 1 /\ buf[o + 1].kind = ks[j + 1]
        BY <1>3, <4>3
      <4> QED
        BY <1>5, <2>2, <4>1, <4>2, <4>4
    <3>6. CASE o + 1 = 3 * i - 1 \/ o + 1 = 3 * i
      <4>1. (o + 2) \div 3 = j + 1 /\ (o + 1 + 2) \div 3 = j + 1
        BY <3>3, <3>6
      <4>2. g[o] = From(j + 1) /\ g[o + 1] = From(j + 1)
        BY <3>4, <4>1
      <4>3. buf[o + 1] = Piece(ks[i], 2) \/ buf[o + 1] = Piece(ks[i], 3)
        BY <1>2, <3>6
      <4>4. buf[o + 1].part # 1
        BY <1>3, <4>3
      <4> QED
        BY <2>2, <4>2, <4>4
    <3> QED
      BY <3>2, <3>5, <3>6
  <2> QED
    BY <2>1, <2>2
<1>7. Scans(g, buf)
  <2>1. g = [o \in 0 .. 3 * m + 3 |-> g[o]]
    OBVIOUS
  <2> HIDE DEF g
  <2> QED
    BY <1>2, <1>6, <2>1 DEF Scans, PROTO_HEADER_SIZE, frame_len
<1>8. g[0] = ks
  <2>1. 0 \in 0 .. 3 * m + 3 /\ (0 + 2) \div 3 = 0
    OBVIOUS
  <2>2. g[0] = From(0)
    BY <2>1
  <2>3. SubSeq(ks, 1, m) = ks
    BY <1>1, SubSeqFull
  <2> QED
    BY <2>2, <2>3 DEF From
<1> DEFINE r == CHOOSE f : Scans(f, buf)
<1>9. Scans(r, buf)
  <2> HIDE DEF g
  <2> QED
    BY <1>7
<1>10. handle_server_data(buf) = r[0]
  BY DEF handle_server_data, Scans
<1> HIDE DEF g, r
<1>11. r[0] = g[0]
  BY <1>2, <1>7, <1>9, ScanUnique
<1> QED
  BY <1>8, <1>10, <1>11

LEMMA FramesJoin ==
    ASSUME NEW d \in Seq(Pieces), NEW ks \in Seq(Kind), Frames(d, ks), NEW x \in Kind
    PROVE  /\ d \o Frame(x) \in Seq(Pieces) /\ Len(d \o Frame(x)) = Len(d) + 3
           /\ ks \o <<x>> \in Seq(Kind) /\ Frames(d \o Frame(x), ks \o <<x>>)
<1>1. PICK m \in Nat : m = Len(ks)
  OBVIOUS
<1>2. /\ Len(d) = 3 * m
      /\ \A j \in 1 .. m : /\ d[3 * j - 2] = Piece(ks[j], 1)
                           /\ d[3 * j - 1] = Piece(ks[j], 2)
                           /\ d[3 * j] = Piece(ks[j], 3)
  BY <1>1 DEF Frames
<1>3. PICK f \in Seq(Pieces) :
        /\ f = Frame(x) /\ Len(f) = 3
        /\ f[1] = Piece(x, 1) /\ f[2] = Piece(x, 2) /\ f[3] = Piece(x, 3)
  <2>1. \A p \in 1 .. 3 : Piece(x, p) \in Pieces
    BY DEF Piece, Pieces, frame_len
  <2>2. Frame(x) = [p \in 1 .. 3 |-> Piece(x, p)]
    BY DEF Frame, frame_len
  <2>3. Frame(x) \in [1 .. 3 -> Pieces] /\ DOMAIN Frame(x) = 1 .. 3
    BY <2>1, <2>2
  <2>4. Frame(x) \in Seq(Pieces)
    BY <2>3, SeqDef
  <2>5. Len(Frame(x)) = 3
    BY <2>3, <2>4, LenProperties
  <2>6. 1 \in 1 .. 3 /\ 2 \in 1 .. 3 /\ 3 \in 1 .. 3
    OBVIOUS
  <2> QED
    BY <2>2, <2>4, <2>5, <2>6
<1>4. PICK e : e = d \o f
  OBVIOUS
<1>5. /\ e \in Seq(Pieces) /\ Len(e) = 3 * m + 3
      /\ \A k \in 1 .. 3 * m + 3 : e[k] = IF k <= 3 * m THEN d[k] ELSE f[k - 3 * m]
  <2>1. /\ d \o f \in Seq(Pieces) /\ Len(d \o f) = Len(d) + Len(f)
        /\ \A k \in 1 .. Len(d) + Len(f) :
              (d \o f)[k] = IF k <= Len(d) THEN d[k] ELSE f[k - Len(d)]
    BY ConcatProperties
  <2>2. Len(d) = 3 * m /\ Len(f) = 3
    BY <1>2, <1>3
  <2> QED
    BY <1>4, <2>1, <2>2
<1>6. PICK ls : ls = ks \o <<x>>
  OBVIOUS
<1>7. /\ ls \in Seq(Kind) /\ Len(ls) = m + 1 /\ ls[m + 1] = x
      /\ \A j \in 1 .. m : ls[j] = ks[j]
  <2>1. /\ Append(ks, x) \in Seq(Kind) /\ Len(Append(ks, x)) = m + 1
        /\ Append(ks, x)[m + 1] = x /\ \A j \in 1 .. m : Append(ks, x)[j] = ks[j]
    BY <1>1
  <2>2. Append(ks, x) = ks \o <<x>>
    OBVIOUS
  <2> QED
    BY <1>6, <2>1, <2>2
<1>8. ASSUME NEW j \in 1 .. m + 1
      PROVE  /\ e[3 * j - 2] = Piece(ls[j], 1)
             /\ e[3 * j - 1] = Piece(ls[j], 2)
             /\ e[3 * j] = Piece(ls[j], 3)
  <2>1. CASE j \in 1 .. m
    <3>1. /\ 3 * j - 2 \in 1 .. 3 * m + 3 /\ 3 * j - 2 <= 3 * m
          /\ 3 * j - 1 \in 1 .. 3 * m + 3 /\ 3 * j - 1 <= 3 * m
          /\ 3 * j \in 1 .. 3 * m + 3 /\ 3 * j <= 3 * m
      BY <2>1
    <3> QED
      BY <1>2, <1>5, <1>7, <2>1, <3>1
  <2>2. CASE j = m + 1
    <3>1. 3 * j - 2 = 3 * m + 1 /\ 3 * j - 1 = 3 * m + 2 /\ 3 * j = 3 * m + 3
      BY <2>2
    <3>2. \A k \in 1 .. 3 : 3 * m + k \in 1 .. 3 * m + 3 /\ ~(3 * m + k <= 3 * m)
                            /\ (3 * m + k) - 3 * m = k
      OBVIOUS
    <3>3. \A k \in 1 .. 3 : e[3 * m + k] = f[k]
      BY <1>5, <3>2
    <3>4. e[3 * m + 1] = f[1] /\ e[3 * m + 2] = f[2] /\ e[3 * m + 3] = f[3]
      BY <3>3
    <3> QED
      BY <1>3, <1>7, <2>2, <3>1, <3>4
  <2> QED
    BY <2>1, <2>2
<1>9. Frames(e, ls)
  BY <1>5, <1>7, <1>8 DEF Frames
<1> QED
  BY <1>2, <1>3, <1>4, <1>5, <1>6, <1>7, <1>9

LEMMA FramesSplit ==
    ASSUME NEW d \in Seq(Pieces), NEW ks \in Seq(Kind), Frames(d, ks),
           NEW i \in Nat, 3 * i <= Len(d)
    PROVE  /\ SubSeq(d, 1, 3 * i) \in Seq(Pieces) /\ SubSeq(d, 3 * i + 1, Len(d)) \in Seq(Pieces)
           /\ Len(SubSeq(d, 3 * i + 1, Len(d))) <= Len(d)
           /\ SubSeq(ks, 1, i) \in Seq(Kind) /\ SubSeq(ks, i + 1, Len(ks)) \in Seq(Kind)
           /\ ks = SubSeq(ks, 1, i) \o SubSeq(ks, i + 1, Len(ks))
           /\ Frames(SubSeq(d, 1, 3 * i), SubSeq(ks, 1, i))
           /\ Frames(SubSeq(d, 3 * i + 1, Len(d)), SubSeq(ks, i + 1, Len(ks)))
<1>1. PICK m \in Nat : m = Len(ks)
  OBVIOUS
<1>2. /\ Len(d) = 3 * m /\ i <= m
      /\ \A j \in 1 .. m : /\ d[3 * j - 2] = Piece(ks[j], 1)
                           /\ d[3 * j - 1] = Piece(ks[j], 2)
                           /\ d[3 * j] = Piece(ks[j], 3)
  BY <1>1 DEF Frames
<1>3. PICK a \in Seq(Pieces), b \in Seq(Pieces) :
        /\ a = SubSeq(d, 1, 3 * i) /\ Len(a) = 3 * i
        /\ \A k \in 1 .. 3 * i : a[k] = d[k]
        /\ b = SubSeq(d, 3 * i + 1, 3 * m) /\ Len(b) = 3 * (m - i)
        /\ \A k \in 1 .. 3 * (m - i) : b[k] = d[3 * i + k]
  <2>1. /\ SubSeq(d, 1, 3 * i) \in Seq(Pieces) /\ Len(SubSeq(d, 1, 3 * i)) = 3 * i
        /\ \A k \in 1 .. 3 * i : SubSeq(d, 1, 3 * i)[k] = d[k]
    BY <1>2
  <2>2. /\ SubSeq(d, 3 * i + 1, 3 * m) \in Seq(Pieces)
        /\ Len(SubSeq(d, 3 * i + 1, 3 * m)) = 3 * (m - i)
        /\ \A k \in 1 .. 3 * (m - i) : SubSeq(d, 3 * i + 1, 3 * m)[k] = d[3 * i + k]
    BY <1>2
  <2> QED
    BY <2>1, <2>2
<1>4. PICK s \in Seq(Kind), t \in Seq(Kind) :
        /\ s = SubSeq(ks, 1, i) /\ Len(s) = i
        /\ \A k \in 1 .. i : s[k] = ks[k]
        /\ t = SubSeq(ks, i + 1, m) /\ Len(t) = m - i
        /\ \A k \in 1 .. m - i : t[k] = ks[i + k]
  <2>1. /\ SubSeq(ks, 1, i) \in Seq(Kind) /\ Len(SubSeq(ks, 1, i)) = i
        /\ \A k \in 1 .. i : SubSeq(ks, 1, i)[k] = ks[k]
    BY <1>1, <1>2
  <2>2. /\ SubSeq(ks, i + 1, m) \in Seq(Kind) /\ Len(SubSeq(ks, i + 1, m)) = m - i
        /\ \A k \in 1 .. m - i : SubSeq(ks, i + 1, m)[k] = ks[i + k]
    BY <1>1, <1>2
  <2> QED
    BY <2>1, <2>2
<1>5. Frames(a, s)
  <2>1. ASSUME NEW j \in 1 .. i
        PROVE  /\ a[3 * j - 2] = Piece(s[j], 1)
               /\ a[3 * j - 1] = Piece(s[j], 2)
               /\ a[3 * j] = Piece(s[j], 3)
    <3>1. /\ j \in 1 .. m /\ 3 * j - 2 \in 1 .. 3 * i /\ 3 * j - 1 \in 1 .. 3 * i
          /\ 3 * j \in 1 .. 3 * i
      BY <1>2
    <3> QED
      BY <1>2, <1>3, <1>4, <3>1
  <2> QED
    BY <1>3, <1>4, <2>1 DEF Frames
<1>6. Frames(b, t)
  <2>1. ASSUME NEW j \in 1 .. m - i
        PROVE  /\ b[3 * j - 2] = Piece(t[j], 1)
               /\ b[3 * j - 1] = Piece(t[j], 2)
               /\ b[3 * j] = Piece(t[j], 3)
    <3>1. /\ i + j \in 1 .. m /\ 3 * j - 2 \in 1 .. 3 * (m - i)
          /\ 3 * j - 1 \in 1 .. 3 * (m - i) /\ 3 * j \in 1 .. 3 * (m - i)
          /\ 3 * i + (3 * j - 2) = 3 * (i + j) - 2
          /\ 3 * i + (3 * j - 1) = 3 * (i + j) - 1 /\ 3 * i + 3 * j = 3 * (i + j)
      BY <1>2
    <3>2. t[j] = ks[i + j]
      BY <1>4
    <3>3. /\ b[3 * j - 2] = d[3 * (i + j) - 2] /\ b[3 * j - 1] = d[3 * (i + j) - 1]
          /\ b[3 * j] = d[3 * (i + j)]
      BY <1>3, <3>1
    <3> QED
      BY <1>2, <3>1, <3>2, <3>3
  <2> QED
    BY <1>3, <1>4, <2>1 DEF Frames
<1>7. ks = s \o t
  <2>1. /\ s \o t \in Seq(Kind) /\ Len(s \o t) = i + (m - i)
        /\ \A k \in 1 .. i + (m - i) : (s \o t)[k] = IF k <= i THEN s[k] ELSE t[k - i]
    <3>1. /\ s \o t \in Seq(Kind) /\ Len(s \o t) = Len(s) + Len(t)
          /\ \A k \in 1 .. Len(s) + Len(t) :
                (s \o t)[k] = IF k <= Len(s) THEN s[k] ELSE t[k - Len(s)]
      BY ConcatProperties
    <3>2. Len(s) = i /\ Len(t) = m - i
      BY <1>4
    <3> QED
      BY <3>1, <3>2
  <2>2. i + (m - i) = m
    BY <1>2
  <2>3. ASSUME NEW k \in 1 .. m PROVE (s \o t)[k] = ks[k]
    <3>1. CASE k <= i
      <4>1. k \in 1 .. i
        BY <3>1
      <4> QED
        BY <1>4, <2>1, <2>2, <3>1, <4>1
    <3>2. CASE ~(k <= i)
      <4>1. k - i \in 1 .. m - i /\ i + (k - i) = k
        BY <1>2, <3>2
      <4> QED
        BY <1>4, <2>1, <2>2, <3>2, <4>1
    <3> QED
      BY <3>1, <3>2
  <2> QED
    BY <1>1, <2>1, <2>2, <2>3, SeqEqual
<1>8. 3 * (m - i) <= 3 * m
  OBVIOUS
<1> QED
  BY <1>1, <1>2, <1>3, <1>4, <1>5, <1>6, <1>7, <1>8

\* A frame more on the way is an acknowledgement more, or a heartbeat.
LEMMA PushCount ==
    ASSUME NEW d \in Seq(Pieces), NEW x \in Kind
    PROVE  /\ d \o Frame(x) \in Seq(Pieces) /\ Len(d \o Frame(x)) = Len(d) + 3
           /\ Count(d \o Frame(x), Piece("ACK", 1))
                 = Count(d, Piece("ACK", 1)) + IF x = "ACK" THEN 1 ELSE 0
<1>1. PICK f \in Seq(Pieces) :
        /\ f = Frame(x) /\ Len(f) = 3 /\ DOMAIN f = 1 .. 3
        /\ \A k \in 1 .. 3 : f[k] = Piece(x, k)
  <2>1. PICK f : f = Frame(x)
    OBVIOUS
  <2>2. f \in [1 .. 3 -> Pieces] /\ DOMAIN f = 1 .. 3 /\ \A k \in 1 .. 3 : f[k] = Piece(x, k)
    BY <2>1 DEF Frame, Pieces, Piece, frame_len
  <2>3. f \in Seq(Pieces)
    BY <2>2, SeqDef
  <2>4. Len(f) = 3
    BY <2>2, <2>3, LenProperties
  <2> QED
    BY <2>1, <2>2, <2>3, <2>4
<1>2. d \o f \in Seq(Pieces) /\ Len(d \o f) = Len(d) + 3
  <2>1. d \o f \in Seq(Pieces) /\ Len(d \o f) = Len(d) + Len(f)
    BY ConcatProperties
  <2> QED
    BY <1>1, <2>1
<1>3. Count(d \o f, Piece("ACK", 1)) = Count(d, Piece("ACK", 1)) + Count(f, Piece("ACK", 1))
  BY CountBoth
<1>4. \A k \in 1 .. 3 : Piece(x, k) = Piece("ACK", 1) <=> (x = "ACK" /\ k = 1)
  BY DEF Piece
<1>5. {k \in DOMAIN f : f[k] = Piece("ACK", 1)} = IF x = "ACK" THEN {1} ELSE {}
  BY <1>1, <1>4
<1>6. Count(f, Piece("ACK", 1)) = IF x = "ACK" THEN 1 ELSE 0
  BY <1>5, FS_EmptySet, FS_Singleton DEF Count
<1> QED
  BY <1>1, <1>2, <1>3, <1>6

(* Of any buffer handle_server_data finds at most the acknowledgements that      *)
(* begin in it.  From is how many begin at o or later.                       *)
From(buf, o) == {k \in 1 .. Len(buf) : k > o /\ buf[k] = Piece("ACK", 1)}

LEMMA FromType ==
    ASSUME NEW buf \in Seq(Pieces), NEW o \in Nat
    PROVE  IsFiniteSet(From(buf, o)) /\ Cardinality(From(buf, o)) \in Nat
<1>1. PICK n \in Nat : n = Len(buf)
  BY LenProperties
<1>2. IsFiniteSet(1 .. n)
  BY FS_Interval
<1>3. From(buf, o) \in SUBSET (1 .. n)
  BY <1>1 DEF From
<1>4. IsFiniteSet(From(buf, o))
  BY <1>2, <1>3, FS_Subset
<1> QED
  BY <1>4, FS_CardinalityType

LEMMA FromLess ==
    ASSUME NEW buf \in Seq(Pieces), NEW o \in Nat, NEW l \in Nat, o <= l
    PROVE  Cardinality(From(buf, l)) <= Cardinality(From(buf, o))
<1>1. PICK n \in Nat : n = Len(buf)
  BY LenProperties
<1>2. From(buf, l) \in SUBSET From(buf, o)
  BY <1>1 DEF From
<1> QED
  BY <1>2, FromType, FS_Subset

\* A frame that begins at o and is an acknowledgement counts at o, not after it.
LEMMA FromHere ==
    ASSUME NEW buf \in Seq(Pieces), NEW o \in Nat, NEW l \in Nat, o < l, o < Len(buf),
           buf[o + 1] = Piece("ACK", 1)
    PROVE  Cardinality(From(buf, l)) + 1 <= Cardinality(From(buf, o))
<1>1. PICK n \in Nat : n = Len(buf)
  BY LenProperties
<1>2. o + 1 \in From(buf, o) /\ o + 1 \notin From(buf, l)
  BY <1>1 DEF From
<1>3. From(buf, l) \cup {o + 1} \in SUBSET From(buf, o)
  <2>1. From(buf, l) \in SUBSET From(buf, o)
    BY <1>1 DEF From
  <2> QED
    BY <1>2, <2>1
<1>4. Cardinality(From(buf, l) \cup {o + 1}) = Cardinality(From(buf, l)) + 1
  BY <1>2, FromType, FS_AddElement
<1> QED
  BY <1>3, <1>4, FromType, FS_Subset

\* What the loop of handle_server_data does at o, when f is what it does later.
At(f, buf, o) ==
    IF o + 2 > Len(buf) THEN << >>
    ELSE IF buf[o + 1].part # 1 THEN f[o + 1]
    ELSE IF o + 3 > Len(buf) THEN << >>
    ELSE <<buf[o + 1].kind>> \o f[o + 3]

Few(s, buf, o) == s \in Seq(Kind) /\ Count(s, "ACK") <= Cardinality(From(buf, o))

LEMMA AtFew ==
    ASSUME NEW buf \in Seq(Pieces), NEW n \in Nat, n = Len(buf), NEW o \in 0 .. n + 3,
           NEW f, \A k \in 0 .. n + 3 : k > o => Few(f[k], buf, k)
    PROVE  Few(At(f, buf, o), buf, o)
<1>1. Few(<< >>, buf, o)
  <2>1. << >> \in Seq(Kind) /\ Count(<< >>, "ACK") = 0
    BY EmptySeq, CountSmall
  <2>2. Cardinality(From(buf, o)) \in Nat
    BY FromType
  <2> QED
    BY <2>1, <2>2 DEF Few
<1>2. CASE ~(o + 2 > n) /\ buf[o + 1].part # 1
  <2>1. o + 1 \in 0 .. n + 3 /\ o + 1 > o /\ o <= o + 1 /\ o \in Nat /\ o + 1 \in Nat
    BY <1>2
  <2>2. Few(f[o + 1], buf, o + 1)
    BY <2>1
  <2>3. Cardinality(From(buf, o + 1)) <= Cardinality(From(buf, o))
    BY <2>1, FromLess
  <2>4. /\ Cardinality(From(buf, o + 1)) \in Nat /\ Cardinality(From(buf, o)) \in Nat
    BY <2>1, FromType
  <2>5. Count(f[o + 1], "ACK") \in Nat
    BY <2>2, CountType DEF Few
  <2>6. Few(f[o + 1], buf, o)
    BY <2>2, <2>3, <2>4, <2>5 DEF Few
  <2> QED
    BY <1>2, <2>6 DEF At
<1>3. CASE ~(o + 2 > n) /\ buf[o + 1].part = 1 /\ ~(o + 3 > n)
  <2>1. /\ o + 3 \in 0 .. n + 3 /\ o + 3 > o /\ o < o + 3 /\ o <= o + 3
        /\ o \in Nat /\ o + 3 \in Nat /\ o < n /\ o + 1 \in 1 .. n
    BY <1>3
  <2>2. PICK t, x : t = f[o + 3] /\ x = buf[o + 1].kind
    OBVIOUS
  <2>3. Few(t, buf, o + 3)
    BY <2>1, <2>2
  <2>4. buf[o + 1] \in Pieces
    BY <2>1
  <2>5. x \in Kind /\ buf[o + 1] = Piece(x, 1)
    BY <1>3, <2>2, <2>4 DEF Pieces, Piece
  <2>6. PICK a \in Nat, b \in Nat, c \in Nat :
           /\ a = Count(t, "ACK") /\ b = Cardinality(From(buf, o + 3))
           /\ c = Cardinality(From(buf, o)) /\ a <= b
    <3>1. Cardinality(From(buf, o + 3)) \in Nat /\ Cardinality(From(buf, o)) \in Nat
      BY <2>1, FromType
    <3>2. Count(t, "ACK") \in Nat
      BY <2>3, CountType DEF Few
    <3> QED
      BY <2>3, <3>1, <3>2 DEF Few
  <2>7. (IF x = "ACK" THEN 1 ELSE 0) + b <= c
    <3>1. CASE x = "ACK"
      <4>1. b + 1 <= c
        BY <2>1, <2>5, <2>6, <3>1, FromHere
      <4> QED
        BY <3>1, <4>1
    <3>2. CASE x # "ACK"
      <4>1. b <= c
        BY <2>1, <2>6, FromLess
      <4> QED
        BY <3>2, <4>1
    <3> QED
      BY <3>1, <3>2
  <2>8. <<x>> \in Seq(Kind) /\ t \in Seq(Kind)
    BY <2>3, <2>5 DEF Few
  <2>9. Count(<<x>> \o t, "ACK") = (IF x = "ACK" THEN 1 ELSE 0) + a
    <3>1. Count(<<x>> \o t, "ACK") = Count(<<x>>, "ACK") + Count(t, "ACK")
      BY <2>8, CountBoth
    <3>2. Count(<<x>>, "ACK") = IF x = "ACK" THEN 1 ELSE 0
      BY CountSmall
    <3> QED
      BY <2>6, <3>1, <3>2
  <2>10. <<x>> \o t \in Seq(Kind)
    BY <2>8, ConcatProperties
  <2>11. (IF x = "ACK" THEN 1 ELSE 0) + a <= c
    BY <2>6, <2>7
  <2>12. Few(<<x>> \o t, buf, o)
    BY <2>6, <2>9, <2>10, <2>11 DEF Few
  <2> QED
    BY <1>3, <2>2, <2>12 DEF At
<1> QED
  BY <1>1, <1>2, <1>3 DEF At

\* The loop has a result for every buffer: begin at its end, and look at the first
\* place, going backwards, at which it would have none.
LEMMA ScanExists ==
    ASSUME NEW buf \in Seq(Pieces)
    PROVE  \E f : Scans(f, buf) /\ Few(f[0], buf, 0)
<1>1. PICK n \in Nat : n = Len(buf)
  BY LenProperties
<1> DEFINE N == n + 3
           Upto(f, i) == \A o \in 0 .. N : N - o <= i => f[o] = At(f, buf, o)
           Done(f, i) == /\ f \in [0 .. N -> Seq(Kind)] /\ Upto(f, i)
                         /\ \A o \in 0 .. N : Few(f[o], buf, o)
           Bad == {i \in 0 .. N : ~\E f : Done(f, i)}
<1>2. Few(<< >>, buf, 0) /\ \A o \in 0 .. N : Few(<< >>, buf, o)
  <2>1. << >> \in Seq(Kind) /\ Count(<< >>, "ACK") = 0
    BY EmptySeq, CountSmall
  <2>2. \A o \in Nat : Cardinality(From(buf, o)) \in Nat
    BY FromType
  <2>3. 0 \in Nat /\ \A o \in 0 .. N : o \in Nat
    OBVIOUS
  <2> QED
    BY <2>1, <2>2, <2>3 DEF Few
<1>3. Bad = {}
  <2> SUFFICES ASSUME Bad # {} PROVE FALSE
    OBVIOUS
  <2>1. PICK i \in Bad : \A k \in Bad : i <= k
    <3>1. Bad \subseteq Nat
      OBVIOUS
    <3> HIDE DEF Bad
    <3> QED
      BY <3>1, LeastNumber
  <2>2. i \in 0 .. N /\ \A f : ~Done(f, i)
    BY <2>1
  <2>3. CASE i = 0
    <3> DEFINE e == [o \in 0 .. N |-> << >>]
    <3>1. e \in [0 .. N -> Seq(Kind)] /\ \A o \in 0 .. N : Few(e[o], buf, o)
      <4>1. << >> \in Seq(Kind)
        BY EmptySeq
      <4> QED
        BY <1>2, <4>1
    <3>2. Upto(e, 0)
      <4>1. ASSUME NEW o \in 0 .. N, N - o <= 0 PROVE e[o] = At(e, buf, o)
        <5>1. o = N /\ o + 2 > n
          BY <4>1
        <5>2. At(e, buf, o) = << >>
          BY <1>1, <5>1 DEF At
        <5> QED
          BY <5>2
      <4> QED
        BY <4>1
    <3> QED
      BY <2>2, <2>3, <3>1, <3>2
  <2>4. CASE i # 0
    <3>1. i - 1 \in 0 .. N /\ ~(i <= i - 1) /\ N - i \in 0 .. N
      BY <2>2, <2>4
    <3>2. PICK f : Done(f, i - 1)
      <4>1. i - 1 \notin Bad
        BY <2>1, <3>1
      <4> QED
        BY <3>1, <4>1
    <3>3. PICK p \in 0 .. N : p = N - i
      BY <3>1
    <3> DEFINE s == At(f, buf, p)
               g == [f EXCEPT ![p] = s]
    <3>4. Few(s, buf, p)
      <4>1. \A k \in 0 .. n + 3 : k > p => Few(f[k], buf, k)
        BY <3>2
      <4>2. p \in 0 .. n + 3
        BY <3>3
      <4> QED
        BY <1>1, <4>1, <4>2, AtFew
    <3>5. s \in Seq(Kind)
      BY <3>4 DEF Few
    <3> HIDE DEF s
    <3>6. /\ g \in [0 .. N -> Seq(Kind)] /\ g[p] = s
          /\ \A o \in 0 .. N : o # p => g[o] = f[o]
      BY <3>2, <3>3, <3>5
    <3> HIDE DEF g
    <3>7. \A o \in 0 .. N : Few(g[o], buf, o)
      BY <3>2, <3>4, <3>6
    <3>8. Upto(g, i)
      <4>1. ASSUME NEW o \in 0 .. N, N - o <= i PROVE g[o] = At(g, buf, o)
        <5>1. o >= p /\ i \in Nat
          BY <2>2, <3>3, <4>1
        <5>2. At(g, buf, o) = At(f, buf, o)
          <6>1. CASE ~(o + 2 > n)
            <7>1. /\ o + 1 \in 0 .. N /\ o + 1 # p /\ o + 3 \in 0 .. N /\ o + 3 # p
              BY <3>3, <5>1, <6>1
            <7>2. g[o + 1] = f[o + 1] /\ g[o + 3] = f[o + 3]
              BY <3>6, <7>1
            <7> QED
              BY <7>2 DEF At
          <6>2. CASE o + 2 > n
            BY <1>1, <6>2 DEF At
          <6> QED
            BY <6>1, <6>2
        <5>3. CASE o = p
          BY <3>6, <5>2, <5>3 DEF s
        <5>4. CASE o # p
          <6>1. N - o <= i - 1
            BY <2>2, <3>3, <5>1, <5>4
          <6>2. f[o] = At(f, buf, o)
            BY <3>2, <6>1
          <6> QED
            BY <3>6, <5>2, <5>4, <6>2
        <5> QED
          BY <5>3, <5>4
      <4> QED
        BY <4>1
    <3>9. Done(g, i)
      BY <3>6, <3>7, <3>8
    <3> QED
      BY <2>2, <3>9
  <2> QED
    BY <2>3, <2>4
<1>4. PICK f : Done(f, N)
  <2>1. N \in 0 .. N
    OBVIOUS
  <2> QED
    BY <1>3, <2>1
<1>5. f \in [0 .. N -> Seq(Kind)] /\ \A o \in 0 .. N : f[o] = At(f, buf, o)
  <2>1. \A o \in 0 .. N : N - o <= N
    OBVIOUS
  <2> QED
    BY <1>4, <2>1
<1>6. Scans(f, buf)
  BY <1>1, <1>5 DEF Scans, At, PROTO_HEADER_SIZE, frame_len
<1>7. Few(f[0], buf, 0)
  <2>1. 0 \in 0 .. N
    OBVIOUS
  <2> QED
    BY <1>4, <2>1
<1> QED
  BY <1>6, <1>7

LEMMA HandleFew ==
    ASSUME NEW buf \in Seq(Pieces)
    PROVE  /\ handle_server_data(buf) \in Seq(Kind)
           /\ Count(handle_server_data(buf), "ACK") <= Count(buf, Piece("ACK", 1))
<1>1. PICK n \in Nat : n = Len(buf) /\ DOMAIN buf = 1 .. n
  BY LenProperties
<1>2. PICK f : Scans(f, buf) /\ Few(f[0], buf, 0)
  BY ScanExists
<1> DEFINE r == CHOOSE g : Scans(g, buf)
<1>3. Scans(r, buf)
  BY <1>2
<1>4. handle_server_data(buf) = r[0]
  BY DEF handle_server_data, Scans
<1> HIDE DEF r
<1>5. r[0] = f[0]
  BY <1>1, <1>2, <1>3, ScanUnique
<1>6. From(buf, 0) = {k \in DOMAIN buf : buf[k] = Piece("ACK", 1)}
  BY <1>1 DEF From
<1> QED
  BY <1>2, <1>4, <1>5, <1>6 DEF Few, Count

-----------------------------------------------------------------------------
(* The invariant: the types; no step makes Total larger but a new request, so  *)
(* that it is never more than the requests; and when TCP cuts no frame, what   *)
(* is on the way to the client is whole frames, and Total is the requests.     *)

Request == {"REQUEST", "PING"}

Inv ==
    /\ TypeOK /\ acks <= requests
    /\ ~closed => Total <= requests
    /\ ~Splits => /\ \E ks \in Seq(Kind) : Frames(down, ks)
                  /\ ~closed => Total = requests

\* The types, and the counts, which are numbers.
LEMMA Typed ==
    ASSUME TypeOK
    PROVE  /\ up \in Seq(Request) /\ Len(up) \in Nat /\ Len(up) <= SocketRoom
           /\ down \in Seq(Pieces) /\ Len(down) \in Nat /\ Len(down) <= SocketRoom * 3
           /\ todo \in Seq(Request) /\ reply \in Seq(Kind) /\ Len(reply) <= 1
           /\ closed \in BOOLEAN /\ pings \in 0 .. MaxPings /\ answers \in 0 .. MaxPings + 1
           /\ requests \in 1 .. MaxRequests /\ acks \in 0 .. MaxRequests
           /\ MaxPings \in Nat /\ MaxRequests \in Nat /\ SocketRoom \in Nat /\ SocketRoom > 0
<1>1. up \in Seq(Request) /\ todo \in Seq(Request) /\ reply \in Seq(Kind) /\ down \in Seq(Pieces)
  BY DEF TypeOK, Request, Kind, Pieces, frame_len
<1>2. Len(up) \in Nat /\ Len(down) \in Nat
  BY <1>1
<1> QED
  BY <1>1, <1>2, ClientAssumption DEF TypeOK, frame_len

LEMMA Counts ==
    ASSUME TypeOK
    PROVE  /\ Count(todo, "REQUEST") \in Nat /\ Count(up, "REQUEST") \in Nat
           /\ Count(reply, "ACK") \in Nat /\ Count(down, Piece("ACK", 1)) \in Nat
           /\ acks \in Nat /\ requests \in Nat
<1>1. Count(todo, "REQUEST") \in Nat /\ Count(up, "REQUEST") \in Nat
  BY Typed, CountType
<1>2. Count(reply, "ACK") \in Nat /\ Count(down, Piece("ACK", 1)) \in Nat
  BY Typed, CountType
<1>3. acks \in Nat /\ requests \in Nat
  <2>1. acks \in 0 .. MaxRequests /\ requests \in 1 .. MaxRequests /\ MaxRequests \in Nat
    BY Typed
  <2> QED
    BY <2>1
<1> QED
  BY <1>1, <1>2, <1>3

LEMMA CountedType ==
    ASSUME NEW n \in Nat, MaxPings \in Nat
    PROVE  Counted(n) \in 0 .. MaxPings + 1
BY DEF Counted

\* A frame fits where the socket is not full.
LEMMA RoomLeft ==
    ASSUME TypeOK, ~DownFull
    PROVE  Len(down) + 3 <= SocketRoom * 3
<1>1. PICK l \in Nat, r \in Nat : l = Len(down) /\ r = SocketRoom
  BY Typed
<1>2. ~(l > (r - 1) * 3)
  BY <1>1 DEF DownFull, frame_len
<1>3. l + 3 <= r * 3
  BY <1>2
<1> QED
  BY <1>1, <1>3

(* Every step but the two of a client that receives and that ends keeps the      *)
(* types and makes Total larger by what it adds to requests.                     *)
Keeps ==
    /\ TypeOK' /\ acks' = acks /\ closed' = closed
    /\ \E n \in {0, 1} : requests' = requests + n /\ (~closed => Total' = Total + n)

LEMMA GatewayPingKeeps == ASSUME TypeOK, GatewayPing PROVE Keeps
<1>1. /\ pings < MaxPings /\ ~closed /\ ~DownFull
      /\ pings' = pings + 1 /\ down' = down \o Frame("PING")
      /\ UNCHANGED <<up, closed, todo, reply, answers, requests, acks>>
  BY DEF GatewayPing
<1>2. /\ down' \in Seq(Pieces) /\ Len(down') = Len(down) + 3
      /\ Count(down', Piece("ACK", 1)) = Count(down, Piece("ACK", 1)) + 0
  <2>1. down \in Seq(Pieces) /\ "PING" \in Kind
    BY Typed DEF Kind
  <2> QED
    BY <1>1, <2>1, PushCount
<1>3. Len(down) + 3 <= SocketRoom * 3
  BY <1>1, RoomLeft
<1>4. pings + 1 \in 0 .. MaxPings
  <2>1. pings \in 0 .. MaxPings /\ MaxPings \in Nat
    BY Typed
  <2> QED
    BY <1>1, <2>1
<1>5. TypeOK'
  BY <1>1, <1>2, <1>3, <1>4 DEF TypeOK, Pieces, Kind, frame_len
<1>6. Total' = Total + 0
  BY <1>1, <1>2, Counts DEF Total
<1>7. requests' = requests + 0
  BY <1>1, Counts
<1> QED
  BY <1>1, <1>5, <1>6, <1>7 DEF Keeps

LEMMA GatewayHandleKeeps == ASSUME TypeOK, GatewayHandle PROVE Keeps
<1>1. PICK h : h = Head(up)
  OBVIOUS
<1>2. /\ up # << >> /\ reply = << >> /\ up' = Tail(up)
      /\ reply' = <<IF h = "PING" THEN "PING" ELSE "ACK">>
      /\ answers' = IF h = "PING" THEN Counted(answers + 1) ELSE answers
      /\ UNCHANGED <<down, closed, todo, pings, requests, acks>>
  BY <1>1 DEF GatewayHandle
<1>3. h \in Request /\ Tail(up) \in Seq(Request) /\ Len(Tail(up)) <= SocketRoom
  <2>1. up \in Seq(Request) /\ Len(up) \in Nat /\ Len(up) <= SocketRoom /\ SocketRoom \in Nat
    BY Typed
  <2>2. Head(up) \in Request /\ Tail(up) \in Seq(Request) /\ Len(Tail(up)) = Len(up) - 1
    BY <1>2, <2>1, HeadTailProperties
  <2> QED
    BY <1>1, <2>1, <2>2
<1>4. PICK x \in {0, 1} : x = IF h = "PING" THEN 0 ELSE 1
  OBVIOUS
<1>5. reply' \in Seq(Kind) /\ Len(reply') = 1 /\ Count(reply', "ACK") = x
  <2>1. PICK y \in Kind : reply' = <<y>> /\ y = IF h = "PING" THEN "PING" ELSE "ACK"
    BY <1>2 DEF Kind
  <2>2. Count(<<y>>, "ACK") = IF y = "ACK" THEN 1 ELSE 0
    BY CountSmall
  <2> QED
    BY <1>4, <2>1, <2>2
<1>6. Count(up, "REQUEST") = Count(up', "REQUEST") + x
  <2>1. up \in Seq(Request)
    BY Typed
  <2>2. Count(up, "REQUEST") = Count(Tail(up), "REQUEST") + IF Head(up) = "REQUEST" THEN 1 ELSE 0
    BY <1>2, <2>1, CountTail
  <2>3. h = "REQUEST" <=> h # "PING"
    BY <1>3 DEF Request
  <2> QED
    BY <1>1, <1>2, <1>4, <2>2, <2>3
<1>7. answers' \in 0 .. MaxPings + 1
  <2>1. answers \in 0 .. MaxPings + 1 /\ MaxPings \in Nat
    BY Typed
  <2>2. answers + 1 \in Nat
    BY <2>1
  <2> QED
    BY <1>2, <2>1, <2>2, CountedType
<1>8. TypeOK'
  BY <1>2, <1>3, <1>5, <1>7 DEF TypeOK, Request, Kind
<1>9. Total' = Total + 0
  <2>1. PICK t \in Nat, u \in Nat, k \in Nat, a \in Nat :
          /\ t = Count(todo, "REQUEST") /\ u = Count(up', "REQUEST")
          /\ k = Count(down, Piece("ACK", 1)) /\ a = acks
    <3>1. Count(up', "REQUEST") \in Nat
      BY <1>2, <1>3, CountType
    <3> QED
      BY <3>1, Counts
  <2>2. Count(reply, "ACK") = 0
    BY <1>2, CountSmall
  <2>3. Total = t + (u + x) + 0 + k + a /\ Total' = t + u + x + k + a
    BY <1>2, <1>5, <1>6, <2>1, <2>2 DEF Total
  <2> QED
    BY <2>1, <2>3
<1>10. requests' = requests + 0
  BY <1>2, Counts
<1> QED
  BY <1>2, <1>8, <1>9, <1>10 DEF Keeps

\* The frame in the gateway's send() is one.
LEMMA ReplyIsOne ==
    ASSUME TypeOK, reply # << >>
    PROVE  reply = <<Head(reply)>> /\ Head(reply) \in Kind
<1>1. reply \in Seq(Kind) /\ Len(reply) <= 1
  BY Typed
<1>2. PICK l \in Nat : l = Len(reply)
  BY <1>1, LenProperties
<1>3. l # 0
  BY <1>1, <1>2, EmptySeq
<1>4. l = 1
  BY <1>1, <1>2, <1>3
<1>5. Len(reply) = 1
  BY <1>2, <1>4
<1> QED
  BY <1>1, <1>5

LEMMA GatewaySendKeeps == ASSUME TypeOK, GatewaySend PROVE Keeps
<1>1. PICK x \in Kind : x = Head(reply) /\ reply = <<x>>
  BY ReplyIsOne DEF GatewaySend
<1>2. /\ closed \/ ~DownFull
      /\ down' = (IF closed THEN down ELSE down \o Frame(x)) /\ reply' = << >>
      /\ UNCHANGED <<up, closed, todo, pings, answers, requests, acks>>
  BY <1>1 DEF GatewaySend
<1>3. << >> \in Seq(Kind) /\ Len(<< >>) = 0 /\ 0 <= 1
  BY EmptySeq
<1>4. requests' = requests + 0
  BY <1>2, Counts
<1>5. CASE closed
  <2>1. TypeOK'
    BY <1>2, <1>3, <1>5 DEF TypeOK, Kind
  <2> QED
    BY <1>2, <1>4, <1>5, <2>1 DEF Keeps
<1>6. CASE ~closed
  <2>1. PICK n \in {0, 1} : n = IF x = "ACK" THEN 1 ELSE 0
    OBVIOUS
  <2>2. /\ down' \in Seq(Pieces) /\ Len(down') = Len(down) + 3
        /\ Count(down', Piece("ACK", 1)) = Count(down, Piece("ACK", 1)) + n
    <3>1. down \in Seq(Pieces)
      BY Typed
    <3> QED
      BY <1>2, <1>6, <2>1, <3>1, PushCount
  <2>3. Len(down) + 3 <= SocketRoom * 3
    BY <1>2, <1>6, RoomLeft
  <2>4. TypeOK'
    BY <1>2, <1>3, <2>2, <2>3 DEF TypeOK, Pieces, Kind, frame_len
  <2>5. Count(reply, "ACK") = n /\ Count(reply', "ACK") = 0
    BY <1>1, <1>2, <2>1, CountSmall
  <2>6. PICK t \in Nat, u \in Nat, k \in Nat, a \in Nat :
          /\ t = Count(todo, "REQUEST") /\ u = Count(up, "REQUEST")
          /\ k = Count(down, Piece("ACK", 1)) /\ a = acks
    BY Counts
  <2>7. Total = t + u + n + k + a /\ Total' = t + u + 0 + (k + n) + a
    BY <1>2, <2>2, <2>5, <2>6 DEF Total
  <2>8. Total' = Total + 0
    BY <2>1, <2>6, <2>7
  <2> QED
    BY <1>2, <1>4, <2>4, <2>8 DEF Keeps
<1> QED
  BY <1>5, <1>6

LEMMA DoPingKeeps == ASSUME TypeOK, do_ping PROVE Keeps
<1>1. /\ todo = << >> /\ pings < MaxPings /\ pings' = pings + 1 /\ todo' = <<"PING">>
      /\ UNCHANGED <<up, down, closed, reply, answers, requests, acks>>
  BY DEF do_ping, Waiting
<1>2. Count(todo', "REQUEST") = Count(todo, "REQUEST")
  <2>1. Count(<<"PING">>, "REQUEST") = 0 /\ Count(<< >>, "REQUEST") = 0
    BY CountSmall
  <2> QED
    BY <1>1, <2>1
<1>3. TypeOK'
  <2>1. pings + 1 \in 0 .. MaxPings
    <3>1. pings \in 0 .. MaxPings /\ MaxPings \in Nat
      BY Typed
    <3> QED
      BY <1>1, <3>1
  <2>2. <<"PING">> \in Seq({"REQUEST", "PING"})
    OBVIOUS
  <2> QED
    BY <1>1, <2>1, <2>2 DEF TypeOK
<1>4. Total' = Total + 0 /\ requests' = requests + 0
  BY <1>1, <1>2, Counts DEF Total
<1> QED
  BY <1>1, <1>3, <1>4 DEF Keeps

LEMMA DoRequestKeeps == ASSUME TypeOK, do_request PROVE Keeps
<1>1. /\ todo = << >> /\ requests < MaxRequests /\ requests' = requests + 1
      /\ todo' = <<"REQUEST">>
      /\ UNCHANGED <<up, down, closed, reply, pings, answers, acks>>
  BY DEF do_request, Waiting
<1>2. Count(todo', "REQUEST") = 1 /\ Count(todo, "REQUEST") = 0
  <2>1. Count(<<"REQUEST">>, "REQUEST") = 1 /\ Count(<< >>, "REQUEST") = 0
    BY CountSmall
  <2> QED
    BY <1>1, <2>1
<1>3. requests + 1 \in 1 .. MaxRequests
  <2>1. requests \in 1 .. MaxRequests /\ MaxRequests \in Nat
    BY Typed
  <2> QED
    BY <1>1, <2>1
<1>4. TypeOK'
  <2>1. <<"REQUEST">> \in Seq({"REQUEST", "PING"})
    OBVIOUS
  <2> QED
    BY <1>1, <1>3, <2>1 DEF TypeOK
<1>5. Total' = Total + 1
  <2>1. PICK u \in Nat, r \in Nat, k \in Nat, a \in Nat :
          /\ u = Count(up, "REQUEST") /\ r = Count(reply, "ACK")
          /\ k = Count(down, Piece("ACK", 1)) /\ a = acks
    BY Counts
  <2>2. Total = 0 + u + r + k + a /\ Total' = 1 + u + r + k + a
    BY <1>1, <1>2, <2>1 DEF Total
  <2> QED
    BY <2>1, <2>2
<1> QED
  BY <1>1, <1>4, <1>5 DEF Keeps

LEMMA SendFrameKeeps == ASSUME TypeOK, send_frame PROVE Keeps
<1>1. PICK h : h = Head(todo)
  OBVIOUS
<1>2. /\ todo # << >> /\ ~UpFull /\ up' = Append(up, h) /\ todo' = Tail(todo)
      /\ UNCHANGED <<down, closed, reply, pings, answers, requests, acks>>
  BY <1>1 DEF send_frame
<1>3. up \in Seq(Request) /\ todo \in Seq(Request)
  BY Typed
<1>4. h \in Request /\ Tail(todo) \in Seq(Request) /\ <<h>> \in Seq(Request)
  BY <1>1, <1>2, <1>3
<1>5. /\ Append(up, h) \in Seq(Request) /\ Len(Append(up, h)) = Len(up) + 1
      /\ Append(up, h) = up \o <<h>>
  BY <1>3, <1>4
<1>6. Len(up) + 1 <= SocketRoom
  <2>1. PICK l \in Nat, r \in Nat : l = Len(up) /\ r = SocketRoom
    BY Typed
  <2>2. ~(l >= r)
    BY <1>2, <2>1 DEF UpFull
  <2> QED
    BY <2>1, <2>2
<1>7. PICK x \in {0, 1} : x = IF h = "REQUEST" THEN 1 ELSE 0
  OBVIOUS
<1>8. Count(todo, "REQUEST") = Count(todo', "REQUEST") + x
  <2>1. Count(todo, "REQUEST")
           = Count(Tail(todo), "REQUEST") + IF Head(todo) = "REQUEST" THEN 1 ELSE 0
    BY <1>2, <1>3, CountTail
  <2> QED
    BY <1>1, <1>2, <1>7, <2>1
<1>9. Count(up', "REQUEST") = Count(up, "REQUEST") + x
  <2>1. Count(up \o <<h>>, "REQUEST") = Count(up, "REQUEST") + Count(<<h>>, "REQUEST")
    BY <1>3, <1>4, CountBoth
  <2>2. Count(<<h>>, "REQUEST") = x
    BY <1>7, CountSmall
  <2> QED
    BY <1>2, <1>5, <2>1, <2>2
<1>10. TypeOK'
  BY <1>2, <1>4, <1>5, <1>6 DEF TypeOK, Request
<1>11. Total' = Total + 0
  <2>1. PICK t \in Nat, u \in Nat, r \in Nat, k \in Nat, a \in Nat :
          /\ t = Count(todo', "REQUEST") /\ u = Count(up, "REQUEST") /\ r = Count(reply, "ACK")
          /\ k = Count(down, Piece("ACK", 1)) /\ a = acks
    <3>1. Count(todo', "REQUEST") \in Nat
      BY <1>2, <1>4, CountType
    <3> QED
      BY <3>1, Counts
  <2>2. Total = (t + x) + u + r + k + a /\ Total' = t + (u + x) + r + k + a
    BY <1>2, <1>8, <1>9, <2>1 DEF Total
  <2> QED
    BY <2>1, <2>2
<1>12. requests' = requests + 0
  BY <1>2, Counts
<1> QED
  BY <1>2, <1>10, <1>11, <1>12 DEF Keeps

(* One recv: at most the acknowledgements that begin in it are counted, and all  *)
(* of them if it is whole frames.                                               *)
LEMMA ReceiveStep ==
    ASSUME TypeOK, acks <= requests, ~closed => Total <= requests, ClientReceive
    PROVE  /\ TypeOK' /\ UNCHANGED <<requests, closed>> /\ ~closed
           /\ Total' \in Nat /\ Total' <= Total /\ acks' <= requests
           /\ \A ks \in Seq(Kind) : ~Splits /\ Frames(down, ks) =>
                 Total' = Total /\ \E t \in Seq(Kind) : Frames(down', t)
<1>1. PICK n, got, p :
        /\ n \in 1 .. Len(down) /\ (Splits \/ n % 3 = 0)
        /\ got = handle_server_data(SubSeq(down, 1, n)) /\ p = Count(got, "PING")
        /\ todo' = [k \in 1 .. p |-> "PING"] /\ answers' = Counted(answers + p)
        /\ acks' = acks + (Len(got) - p)
        /\ down' = SubSeq(down, n + 1, Len(down))
  BY DEF ClientReceive, frame_len
<1>2. ~closed /\ todo = << >> /\ UNCHANGED <<up, closed, reply, pings, requests>>
  BY DEF ClientReceive, Waiting
<1>3. PICK l \in Nat : l = Len(down) /\ l <= SocketRoom * 3 /\ down \in Seq(Pieces) /\ n \in 1 .. l
  <2>1. down \in Seq(Pieces) /\ Len(down) \in Nat /\ Len(down) <= SocketRoom * 3
    BY Typed
  <2> QED
    BY <1>1, <2>1
<1>4. PICK head \in Seq(Pieces), tail \in Seq(Pieces) :
        /\ head = SubSeq(down, 1, n) /\ tail = down' /\ down = head \o tail /\ Len(tail) = l - n
  <2>1. /\ SubSeq(down, 1, n) \in Seq(Pieces) /\ SubSeq(down, n + 1, l) \in Seq(Pieces)
        /\ Len(SubSeq(down, 1, n)) = n /\ Len(SubSeq(down, n + 1, l)) = l - n
        /\ \A k \in 1 .. n : SubSeq(down, 1, n)[k] = down[k]
        /\ \A k \in 1 .. l - n : SubSeq(down, n + 1, l)[k] = down[n + k]
    BY <1>3
  <2>2. PICK a \in Seq(Pieces), b \in Seq(Pieces) :
          /\ a = SubSeq(down, 1, n) /\ b = SubSeq(down, n + 1, l)
          /\ Len(a) = n /\ Len(b) = l - n
          /\ \A k \in 1 .. n : a[k] = down[k] /\ \A m \in 1 .. l - n : b[m] = down[n + m]
    BY <1>3, <2>1
  <2>3. /\ a \o b \in Seq(Pieces) /\ Len(a \o b) = Len(a) + Len(b)
        /\ \A k \in 1 .. Len(a) + Len(b) :
              (a \o b)[k] = IF k <= Len(a) THEN a[k] ELSE b[k - Len(a)]
    BY ConcatProperties
  <2>4. Len(a) + Len(b) = l
    BY <1>3, <2>2
  <2>5. ASSUME NEW k \in 1 .. l PROVE (a \o b)[k] = down[k]
    <3>1. CASE k <= n
      <4>1. k \in 1 .. n
        BY <3>1
      <4> QED
        BY <2>2, <2>3, <2>4, <3>1, <4>1
    <3>2. CASE ~(k <= n)
      <4>1. k - n \in 1 .. l - n /\ n + (k - n) = k
        BY <1>3, <3>2
      <4>2. b[k - n] = down[k]
        BY <1>3, <2>1, <2>2, <4>1
      <4> QED
        BY <2>2, <2>3, <2>4, <3>2, <4>2
    <3> QED
      BY <3>1, <3>2
  <2>6. a \o b = down
    BY <1>3, <2>3, <2>4, <2>5, SeqEqual
  <2> QED
    BY <1>1, <1>3, <2>2, <2>6
<1>5. got \in Seq(Kind) /\ Count(got, "ACK") <= Count(head, Piece("ACK", 1))
  BY <1>1, <1>4, HandleFew
<1>6. PICK a \in Nat, g \in Nat, b \in Nat, k \in Nat :
        /\ a = Count(got, "ACK") /\ g = Len(got) /\ p \in Nat /\ a + p = g
        /\ b = Count(head, Piece("ACK", 1)) /\ k = Count(down', Piece("ACK", 1))
        /\ Count(down, Piece("ACK", 1)) = b + k
  <2>1. Count(got, "ACK") \in Nat /\ Count(got, "PING") \in Nat
    BY <1>5, CountType
  <2>2. Count(head, Piece("ACK", 1)) \in Nat /\ Count(tail, Piece("ACK", 1)) \in Nat
    BY CountType
  <2>3. Count(got, "ACK") + Count(got, "PING") = Len(got)
    BY <1>5, CountKinds DEF Kind
  <2>4. Count(head \o tail, Piece("ACK", 1))
           = Count(head, Piece("ACK", 1)) + Count(tail, Piece("ACK", 1))
    BY CountBoth
  <2>5. Len(got) \in Nat
    BY <1>5, LenProperties
  <2>6. Count(down, Piece("ACK", 1))
           = Count(head, Piece("ACK", 1)) + Count(down', Piece("ACK", 1))
    BY <1>4, <2>4
  <2>7. p \in Nat /\ Count(got, "ACK") + p = Len(got) /\ Count(down', Piece("ACK", 1)) \in Nat
    BY <1>1, <1>4, <2>1, <2>2, <2>3
  <2> QED
    BY <2>1, <2>2, <2>5, <2>6, <2>7
<1>7. PICK u \in Nat, r \in Nat, c \in Nat, q \in Nat :
        /\ u = Count(up, "REQUEST") /\ r = Count(reply, "ACK") /\ c = acks /\ q = requests
  BY Counts
<1>8. todo' \in Seq(Request) /\ Count(todo', "REQUEST") = 0
  <2>1. PICK v : v = todo'
    OBVIOUS
  <2>2. /\ v \in [1 .. p -> Request] /\ DOMAIN v = 1 .. p
        /\ \A j \in 1 .. p : v[j] = "PING"
    BY <1>1, <2>1 DEF Request
  <2>3. v \in Seq(Request)
    BY <1>6, <2>2, SeqDef
  <2>4. {j \in DOMAIN v : v[j] = "REQUEST"} = {}
    BY <2>2
  <2>5. Count(v, "REQUEST") = 0
    BY <2>4, FS_EmptySet DEF Count
  <2> QED
    BY <2>1, <2>3, <2>5
<1>9. acks' = c + a
  <2>1. acks' = c + (g - p)
    BY <1>1, <1>6, <1>7
  <2>2. g - p = a
    BY <1>6
  <2> QED
    BY <2>1, <2>2
<1>10. Total = 0 + u + r + (b + k) + c /\ Total' = 0 + u + r + k + (c + a)
  <2>1. Count(todo, "REQUEST") = 0
    BY <1>2, CountSmall
  <2> QED
    BY <1>2, <1>6, <1>7, <1>8, <1>9, <2>1 DEF Total
<1>11. a <= b
  BY <1>5, <1>6
<1>12. Total' \in Nat /\ Total' <= Total
  BY <1>10, <1>11
<1>13. c + a <= q
  <2>1. Total <= q
    BY <1>2, <1>7
  <2> QED
    BY <1>10, <1>11, <2>1
<1>14. TypeOK'
  <2>1. answers' \in 0 .. MaxPings + 1
    <3>1. answers \in 0 .. MaxPings + 1 /\ MaxPings \in Nat
      BY Typed
    <3>2. answers + p \in Nat
      BY <1>6, <3>1
    <3> QED
      BY <1>1, <3>1, <3>2, CountedType
  <2>2. acks' \in 0 .. MaxRequests
    <3>1. q \in 1 .. MaxRequests /\ MaxRequests \in Nat
      BY <1>7, Typed
    <3> QED
      BY <1>9, <1>13, <3>1
  <2>3. Len(down') <= SocketRoom * 3
    <3>1. PICK e \in Nat : e = SocketRoom * 3
      BY Typed
    <3>2. l - n <= e
      BY <1>3, <3>1
    <3> QED
      BY <1>4, <3>1, <3>2
  <2> QED
    BY <1>2, <1>4, <1>8, <2>1, <2>2, <2>3 DEF TypeOK, Request, Pieces, Kind, frame_len
<1>15. ASSUME NEW ks \in Seq(Kind), ~Splits, Frames(down, ks)
       PROVE  Total' = Total /\ \E t \in Seq(Kind) : Frames(down', t)
  <2>1. PICK i \in Nat : n = 3 * i /\ 3 * i <= l
    <3>1. n % 3 = 0
      BY <1>1, <1>15
    <3>2. n \div 3 \in Nat /\ n = 3 * (n \div 3)
      BY <1>3, <3>1
    <3> QED
      BY <1>3, <3>2
  <2>2. PICK s \in Seq(Kind), t \in Seq(Kind) : Frames(head, s) /\ Frames(down', t)
    <3>1. 3 * i <= Len(down)
      BY <1>3, <2>1
    <3>2. PICK s, t :
            /\ s = SubSeq(ks, 1, i) /\ t = SubSeq(ks, i + 1, Len(ks))
            /\ s \in Seq(Kind) /\ t \in Seq(Kind)
            /\ Frames(SubSeq(down, 1, 3 * i), s)
            /\ Frames(SubSeq(down, 3 * i + 1, Len(down)), t)
      <4>1. down \in Seq(Pieces)
        BY <1>3
      <4>2. /\ SubSeq(ks, 1, i) \in Seq(Kind) /\ SubSeq(ks, i + 1, Len(ks)) \in Seq(Kind)
            /\ Frames(SubSeq(down, 1, 3 * i), SubSeq(ks, 1, i))
            /\ Frames(SubSeq(down, 3 * i + 1, Len(down)), SubSeq(ks, i + 1, Len(ks)))
        BY <1>15, <3>1, <4>1, FramesSplit
      <4> QED
        BY <4>2
    <3>3. SubSeq(down, 1, 3 * i) = head /\ SubSeq(down, 3 * i + 1, Len(down)) = down'
      BY <1>1, <1>4, <2>1
    <3> QED
      BY <3>2, <3>3
  <2>3. got = s
    BY <1>1, <1>4, <2>2, HandleFrames
  <2>4. a = b
    BY <1>6, <2>2, <2>3, FramesCount
  <2>5. Total' = Total
    BY <1>10, <2>4
  <2> QED
    BY <2>2, <2>5
<1> QED
  BY <1>2, <1>7, <1>9, <1>12, <1>13, <1>14, <1>15

\* Frames on the way stay whole, whoever adds one.
LEMMA FramesKept ==
    ASSUME TypeOK, NEW ks \in Seq(Kind), Frames(down, ks),
           \/ GatewayPing \/ GatewayHandle \/ GatewaySend
           \/ do_ping \/ do_request \/ send_frame
    PROVE  \E t \in Seq(Kind) : Frames(down', t)
<1>1. CASE down' = down
  BY <1>1
<1>2. CASE \E x \in Kind : down' = down \o Frame(x)
  BY <1>2, Typed, FramesJoin
<1>3. \/ down' = down
      \/ \E x \in Kind : down' = down \o Frame(x)
  BY ReplyIsOne DEF GatewayPing, GatewayHandle, GatewaySend, do_ping, do_request, send_frame, Kind
<1> QED
  BY <1>1, <1>2, <1>3

LEMMA InitInv == Init => Inv
<1> SUFFICES ASSUME Init PROVE Inv
  OBVIOUS
<1>1. /\ up = << >> /\ down = << >> /\ closed = FALSE /\ todo = <<"REQUEST">>
      /\ reply = << >> /\ pings = 0 /\ answers = 0 /\ requests = 1 /\ acks = 0
  BY DEF Init
<1>2. \A S : << >> \in Seq(S) /\ Len(<< >>) = 0
  BY EmptySeq
<1>3. TypeOK
  <2>1. <<"REQUEST">> \in Seq({"REQUEST", "PING"})
    OBVIOUS
  <2>2. 0 <= SocketRoom /\ 0 <= SocketRoom * 3 /\ 0 \in 0 .. MaxPings /\ 0 \in 0 .. MaxPings + 1
        /\ 1 \in 1 .. MaxRequests /\ 0 \in 0 .. MaxRequests /\ 0 <= 1
    BY ClientAssumption
  <2> QED
    BY <1>1, <1>2, <2>1, <2>2 DEF TypeOK, frame_len
<1>4. Frames(<< >>, << >>)
  <2>1. \A j \in 1 .. 0 : FALSE
    OBVIOUS
  <2> QED
    BY <1>2, <2>1 DEF Frames
<1>5. Total = 1
  <2>1. /\ Count(<< >>, "REQUEST") = 0 /\ Count(<< >>, "ACK") = 0
        /\ Count(<< >>, Piece("ACK", 1)) = 0 /\ Count(<<"REQUEST">>, "REQUEST") = 1
    BY CountSmall
  <2> QED
    BY <1>1, <2>1 DEF Total
<1>6. Frames(down, << >>) /\ << >> \in Seq(Kind)
  BY <1>1, <1>2, <1>4
<1>7. acks <= requests /\ Total <= requests /\ Total = requests
  BY <1>1, <1>5
<1> QED
  BY <1>3, <1>6, <1>7 DEF Inv

LEMMA KeepsInv ==
    ASSUME Inv, Keeps,
           \A ks \in Seq(Kind) : Frames(down, ks) => \E t \in Seq(Kind) : Frames(down', t)
    PROVE  Inv'
<1>1. PICK n \in {0, 1} : requests' = requests + n /\ (~closed => Total' = Total + n)
  BY DEF Keeps
<1>2. PICK a \in Nat, q \in Nat : a = acks /\ q = requests
  BY Counts DEF Inv
<1>3. Total \in Nat
  BY Counts DEF Total, Inv
<1>4. TypeOK' /\ acks' = acks /\ closed' = closed
  BY DEF Keeps
<1>5. acks' <= requests'
  <2>1. a <= q + n
    BY <1>1, <1>2 DEF Inv
  <2> QED
    BY <1>1, <1>2, <1>4, <2>1
<1>6. ~closed => Total' <= requests' /\ (~Splits => Total' = requests')
  BY <1>1, <1>2, <1>3 DEF Inv
<1>7. ~Splits => \E t \in Seq(Kind) : Frames(down', t)
  BY DEF Inv
<1> QED
  BY <1>4, <1>5, <1>6, <1>7 DEF Inv, Frames

LEMMA ClientReceiveInv == ASSUME Inv, ClientReceive PROVE Inv'
<1>1. TypeOK /\ acks <= requests /\ (~closed => Total <= requests)
  BY DEF Inv
<1>2. /\ TypeOK' /\ UNCHANGED <<requests, closed>> /\ ~closed
      /\ Total' \in Nat /\ Total' <= Total /\ acks' <= requests
      /\ \A ks \in Seq(Kind) : ~Splits /\ Frames(down, ks) =>
            Total' = Total /\ \E t \in Seq(Kind) : Frames(down', t)
  BY <1>1, ReceiveStep
<1>3. Total' <= requests
  <2>1. Total \in Nat /\ requests \in Nat
    BY <1>1, Counts DEF Total
  <2> QED
    BY <1>1, <1>2, <2>1
<1>4. ~Splits => Total' = requests /\ \E t \in Seq(Kind) : Frames(down', t)
  BY <1>2 DEF Inv
<1> QED
  BY <1>2, <1>3, <1>4 DEF Inv, Frames

LEMMA ClientQuitInv == ASSUME Inv, ClientQuit PROVE Inv'
<1>1. TypeOK /\ acks <= requests
  BY DEF Inv
<1>2. closed' = TRUE /\ down' = << >>
      /\ UNCHANGED <<up, todo, reply, pings, answers, requests, acks>>
  BY DEF ClientQuit
<1>3. \A S : << >> \in Seq(S) /\ Len(<< >>) = 0
  BY EmptySeq
<1>4. Frames(<< >>, << >>)
  <2>1. \A j \in 1 .. 0 : FALSE
    OBVIOUS
  <2> QED
    BY <1>3, <2>1 DEF Frames
<1>5. TypeOK'
  <2>1. 0 <= SocketRoom * 3
    BY <1>1, Typed
  <2> QED
    BY <1>1, <1>2, <1>3, <2>1 DEF TypeOK, frame_len
<1>6. (\E ks \in Seq(Kind) : Frames(down, ks))'
  BY <1>2, <1>3, <1>4
<1> QED
  BY <1>1, <1>2, <1>5, <1>6 DEF Inv

LEMMA NextInv == ASSUME Inv, [Next]_vars PROVE Inv'
<1>1. CASE UNCHANGED vars
  <2>1. TypeOK' /\ (acks <= requests)'
    BY <1>1 DEF vars, Inv, TypeOK
  <2>2. (~closed => Total <= requests)' /\ (~Splits => (~closed => Total = requests))'
    BY <1>1 DEF vars, Inv, Total
  <2>3. (~Splits => \E ks \in Seq(Kind) : Frames(down, ks))'
    BY <1>1 DEF vars, Inv
  <2> QED
    BY <2>1, <2>2, <2>3 DEF Inv
<1>2. CASE \/ GatewayPing \/ GatewayHandle \/ GatewaySend
           \/ do_ping \/ do_request \/ send_frame
  <2>1. TypeOK
    BY DEF Inv
  <2>2. Keeps
    BY <1>2, <2>1, GatewayPingKeeps, GatewayHandleKeeps, GatewaySendKeeps, DoPingKeeps,
       DoRequestKeeps, SendFrameKeeps
  <2>3. \A ks \in Seq(Kind) : Frames(down, ks) => \E t \in Seq(Kind) : Frames(down', t)
    BY <1>2, <2>1, FramesKept
  <2> QED
    BY <2>2, <2>3, KeepsInv
<1> QED
  BY <1>1, <1>2, ClientReceiveInv, ClientQuitInv DEF Next, Gateway, Client

LEMMA InvCorrect == Spec => []Inv
<1>1. Init => Inv
  BY InitInv
<1>2. Inv /\ [Next]_vars => Inv'
  BY NextInv
<1> QED
  BY <1>1, <1>2, PTL DEF Spec

\* Every variable of the test client and of its connection keeps its type, and the
\* sockets never hold more than their room, wherever TCP cuts the frames.
THEOREM TypeCorrect == Spec => []TypeOK
<1>1. Inv => TypeOK
  BY DEF Inv
<1> QED
  BY <1>1, InvCorrect, PTL

\* handle_server_data counts no acknowledgement twice, wherever TCP cuts the frames;
\* and as long as it cuts none, every request is in one place, or acknowledged.
THEOREM RequestsConservedCorrect == Spec => []RequestsConserved
<1>1. Inv => RequestsConserved
  BY DEF Inv, RequestsConserved
<1> QED
  BY <1>1, InvCorrect, PTL
=============================================================================
