---------------------------- MODULE Gpio_proofs ----------------------------
(* Proofs about Gpio, for any set of pins and any size of the array.        *)
EXTENDS Gpio, SequenceTheorems, TLAPS

-----------------------------------------------------------------------------
(* The list.                                                               *)

\* The first index of p, when p is on the list only once, is its index.
LEMMA FirstIndex ==
    ASSUME NEW s \in Seq(Pin), IsInjective(s), NEW k \in 1 .. Len(s)
    PROVE  RemoveFirst(s, s[k]) = RemoveAt(s, k)
<1> DEFINE I == {j \in 1 .. Len(s) : s[j] = s[k]}
<1>1. I = {k}
  BY LenProperties DEF IsInjective
<1>2. Min(I) = k
  BY <1>1 DEF Min
<1>3. SelectInSeq(s, LAMBDA v : v = s[k]) = k
  BY <1>1, <1>2 DEF SelectInSeq
<1> QED
  BY <1>3 DEF RemoveFirst

\* Compact takes the entry out and keeps the others in order.
LEMMA CompactEntry ==
    ASSUME NEW s \in Seq(Pin), IsInjective(s), NEW k \in 1 .. Len(s)
    PROVE  /\ Compact(s, s[k]) \in Seq(Pin)
           /\ Len(Compact(s, s[k])) = Len(s) - 1
           /\ \A j \in 1 .. Len(s) - 1 :
                 Compact(s, s[k])[j] = IF j < k THEN s[j] ELSE s[j + 1]
<1> DEFINE a == SubSeq(s, 1, k - 1)
           b == SubSeq(s, k + 1, Len(s))
<1>1. Compact(s, s[k]) = a \o b
  BY FirstIndex DEF Compact, RemoveAt
<1>2. Len(s) \in Nat /\ \A j \in 1 .. Len(s) : s[j] \in Pin
  BY LenProperties, ElementOfSeq
<1>3. /\ a \in Seq(Pin) /\ Len(a) = k - 1
      /\ \A j \in 1 .. k - 1 : a[j] = s[j]
  <2>1. 1 \in Int /\ k - 1 \in Int /\ \A j \in 1 .. k - 1 : s[j] \in Pin
    BY <1>2
  <2> QED
    BY <2>1, <1>2, SubSeqProperties
<1>4. /\ b \in Seq(Pin) /\ Len(b) = Len(s) - k
      /\ \A j \in 1 .. Len(s) - k : b[j] = s[k + j]
  <2>1. k + 1 \in Int /\ Len(s) \in Int /\ \A j \in k + 1 .. Len(s) : s[j] \in Pin
    BY <1>2
  <2>2. /\ b \in Seq(Pin)
        /\ Len(b) = IF k + 1 <= Len(s) THEN Len(s) - (k + 1) + 1 ELSE 0
        /\ \A j \in 1 .. Len(s) - (k + 1) + 1 : b[j] = s[k + 1 + j - 1]
    BY <2>1, SubSeqProperties
  <2> QED
    BY <2>2, <1>2
<1> HIDE DEF a, b
<1>5. /\ a \o b \in Seq(Pin) /\ Len(a \o b) = Len(a) + Len(b)
      /\ \A j \in 1 .. Len(a) + Len(b) :
            (a \o b)[j] = IF j <= Len(a) THEN a[j] ELSE b[j - Len(a)]
  BY <1>3, <1>4, ConcatProperties
<1>6. Len(a) + Len(b) = Len(s) - 1
  BY <1>2, <1>3, <1>4
<1>7. ASSUME NEW j \in 1 .. Len(s) - 1
      PROVE  (a \o b)[j] = IF j < k THEN s[j] ELSE s[j + 1]
  <2>1. CASE j < k
    BY <2>1, <1>2, <1>3, <1>5, <1>6
  <2>2. CASE ~(j < k)
    <3>1. j - (k - 1) \in 1 .. Len(s) - k /\ k + (j - (k - 1)) = j + 1
      BY <2>2, <1>2
    <3>2. b[j - (k - 1)] = s[j + 1]
      BY <3>1, <1>4
    <3> QED
      BY <3>2, <2>2, <1>2, <1>3, <1>5, <1>6
  <2> QED
    BY <2>1, <2>2
<1> QED
  BY <1>1, <1>5, <1>6, <1>7

\* A list without repetitions stays one, and its set of pins loses just p.
LEMMA CompactInjective ==
    ASSUME NEW s \in Seq(Pin), IsInjective(s), NEW p
    PROVE  /\ Compact(s, p) \in Seq(Pin) /\ Len(Compact(s, p)) <= Len(s)
           /\ IsInjective(Compact(s, p))
           /\ ToSet(Compact(s, p)) = ToSet(s) \ {p}
<1>0. Len(s) \in Nat /\ DOMAIN s = 1 .. Len(s)
  BY LenProperties
<1>1. CASE p \notin ToSet(s)
  <2>1. Compact(s, p) = s
    BY <1>0, <1>1 DEF Compact, RemoveFirst, ToSet
  <2> QED
    BY <2>1, <1>0, <1>1
<1>2. CASE p \in ToSet(s)
  <2>1. PICK k \in 1 .. Len(s) : s[k] = p
    BY <1>0, <1>2 DEF ToSet
  <2>2. PICK t : t = Compact(s, p)
    OBVIOUS
  <2>3. /\ t \in Seq(Pin) /\ Len(t) = Len(s) - 1
        /\ \A j \in 1 .. Len(s) - 1 : t[j] = IF j < k THEN s[j] ELSE s[j + 1]
    BY <2>1, <2>2, CompactEntry
  <2>4. DOMAIN t = 1 .. Len(s) - 1
    BY <2>3, LenProperties
  <2>5. \A a, b \in 1 .. Len(s) : s[a] = s[b] => a = b
    BY <1>0 DEF IsInjective
  <2>6. IsInjective(t)
    <3> SUFFICES ASSUME NEW a \in 1 .. Len(s) - 1, NEW b \in 1 .. Len(s) - 1,
                        t[a] = t[b]
                 PROVE  a = b
      BY <2>4 DEF IsInjective
    <3> DEFINE up(j) == IF j < k THEN j ELSE j + 1
    <3>1. up(a) \in 1 .. Len(s) /\ up(b) \in 1 .. Len(s)
      BY <1>0
    <3>2. s[up(a)] = s[up(b)]
      BY <2>3
    <3>3. up(a) = up(b)
      BY <3>1, <3>2, <2>5
    <3> QED
      BY <3>3, <1>0
  <2>7. ToSet(t) \subseteq ToSet(s) \ {p}
    <3> SUFFICES ASSUME NEW j \in 1 .. Len(s) - 1
                 PROVE  t[j] \in ToSet(s) \ {p}
      BY <2>4 DEF ToSet
    <3>1. CASE j < k
      <4>1. t[j] = s[j] /\ j \in 1 .. Len(s) /\ j # k
        BY <3>1, <2>3, <1>0
      <4> QED
        BY <4>1, <2>1, <2>5, <1>0 DEF ToSet
    <3>2. CASE ~(j < k)
      <4>1. t[j] = s[j + 1] /\ j + 1 \in 1 .. Len(s) /\ j + 1 # k
        BY <3>2, <2>3, <1>0
      <4> QED
        BY <4>1, <2>1, <2>5, <1>0 DEF ToSet
    <3> QED
      BY <3>1, <3>2
  <2>8. ToSet(s) \ {p} \subseteq ToSet(t)
    <3> SUFFICES ASSUME NEW j \in 1 .. Len(s), s[j] # p
                 PROVE  s[j] \in ToSet(t)
      BY <1>0 DEF ToSet
    <3>1. CASE j < k
      <4>1. j \in 1 .. Len(s) - 1 /\ t[j] = s[j]
        BY <3>1, <2>3, <1>0
      <4> QED
        BY <4>1, <2>4 DEF ToSet
    <3>2. CASE ~(j < k)
      <4>1. j - 1 \in 1 .. Len(s) - 1 /\ ~(j - 1 < k) /\ (j - 1) + 1 = j
        BY <3>2, <2>1, <1>0
      <4>2. t[j - 1] = s[j]
        BY <4>1, <2>3
      <4> QED
        BY <4>1, <4>2, <2>4 DEF ToSet
    <3> QED
      BY <3>1, <3>2
  <2> QED
    BY <2>2, <2>3, <2>6, <2>7, <2>8, <1>0
<1> QED
  BY <1>1, <1>2

\* Appending a pin that is not on the list.
LEMMA AppendNew ==
    ASSUME NEW s \in Seq(Pin), IsInjective(s), NEW p \in Pin, p \notin ToSet(s)
    PROVE  /\ Append(s, p) \in Seq(Pin) /\ Len(Append(s, p)) = Len(s) + 1
           /\ IsInjective(Append(s, p)) /\ ToSet(Append(s, p)) = ToSet(s) \cup {p}
<1>1. Len(s) \in Nat /\ DOMAIN s = 1 .. Len(s)
  BY LenProperties
<1>2. PICK t : t = Append(s, p)
  OBVIOUS
<1>3. /\ t \in Seq(Pin) /\ Len(t) = Len(s) + 1
      /\ \A j \in 1 .. Len(s) : t[j] = s[j]
      /\ t[Len(s) + 1] = p
  BY <1>2, AppendProperties
<1>4. DOMAIN t = 1 .. Len(s) + 1
  BY <1>3, LenProperties
<1>5. 1 .. Len(s) + 1 = (1 .. Len(s)) \cup {Len(s) + 1}
  BY <1>1
<1>6. \A j \in 1 .. Len(s) : s[j] # p
  BY <1>1 DEF ToSet
<1>7. IsInjective(t)
  BY <1>1, <1>3, <1>4, <1>5, <1>6 DEF IsInjective
<1>8. ToSet(t) = ToSet(s) \cup {p}
  BY <1>1, <1>3, <1>4, <1>5 DEF ToSet
<1> QED
  BY <1>2, <1>3, <1>7, <1>8

LEMMA EmptyList ==
    /\ << >> \in Seq(Pin) /\ Len(<< >>) = 0
    /\ IsInjective(<< >>) /\ ToSet(<< >>) = {}
<1>1. << >> \in Seq(Pin) /\ Len(<< >>) = 0
  BY EmptySeq
<1>2. DOMAIN << >> = {}
  OBVIOUS
<1> QED
  BY <1>1, <1>2 DEF IsInjective, ToSet

-----------------------------------------------------------------------------
(* The invariant.  While gpio_cleanup runs, its index is the length of the   *)
(* list: each round takes away just the entry it looks at, because that pin  *)
(* is not on the list a second time.                                         *)

Loop == cleanup = "loop" => i = Len(gpio_initialized)

\* What is in use and not on the list, and why.
Accounted ==
    /\ held \subseteq Tracked \union beyond \union refused
    /\ cleanup = "done" => Tracked = {}

Inv == TypeOK /\ ListAccurate /\ Loop /\ Accounted /\ starts \in Nat

LEMMA InvInit == Init => Inv
BY GpioAssumption, EmptyList
   DEF Init, Inv, TypeOK, ListAccurate, Loop, Accounted, Tracked, Level

\* gpio_init: a pin joins the list as it joins held, wherever else the call ends.
LEMMA InitKeeps ==
    ASSUME Inv, NEW p \in Pin, NEW d \in Direction, NEW v \in Level, gpio_init(p, d, v)
    PROVE  Inv'
<1> USE DEF kernel, history
<1>1. CASE UNCHANGED <<kernel, gpio_initialized, history>>
  BY <1>1 DEF gpio_init, Inv, TypeOK, ListAccurate, Loop, Accounted, Tracked, Return
<1>2. CASE /\ exported' = exported \union {p}
           /\ UNCHANGED <<direction, level, gpio_initialized, history>>
  BY <1>2 DEF gpio_init, Inv, TypeOK, ListAccurate, Loop, Accounted, Tracked, Return
<1>3. CASE /\ p \notin Tracked /\ exported' = exported \union {p}
           /\ direction' = [direction EXCEPT ![p] = d]
           /\ \/ UNCHANGED level
              \/ \E l \in Level : level' = [level EXCEPT ![p] = l]
           /\ IF ret' = "ok" THEN Taken(p) ELSE UNCHANGED <<gpio_initialized, history>>
  <2>1. direction' \in [Pin -> Direction] /\ level' \in [Pin -> Level]
    BY <1>3 DEF Inv, TypeOK
  <2>0. cleanup = "no" /\ cleanup' = cleanup /\ i' = i /\ pin' = p /\ starts' = starts
    BY <1>3 DEF gpio_init, Return, Tracked
  <2>2. CASE UNCHANGED <<gpio_initialized, history>>
    BY <1>3, <2>0, <2>1, <2>2 DEF Inv, TypeOK, ListAccurate, Loop, Accounted, Tracked
  <2>3. CASE Taken(p) /\ Len(gpio_initialized) < GPIO_MAX_PINS
    <3>1. gpio_initialized' = Append(gpio_initialized, p)
      BY <2>3 DEF Taken, Record
    <3>2. /\ gpio_initialized' \in Seq(Pin)
          /\ Len(gpio_initialized') = Len(gpio_initialized) + 1
          /\ IsInjective(gpio_initialized')
          /\ Tracked' = Tracked \union {p}
      BY <1>3, <3>1, AppendNew DEF Inv, TypeOK, ListAccurate, Tracked
    <3>3. Len(gpio_initialized') <= GPIO_MAX_PINS
      BY <2>3, <3>2, LenProperties, GpioAssumption DEF Inv, TypeOK
    <3>4. /\ held' = held \union {p} /\ refused' = refused \ {p}
          /\ beyond' = beyond \ {p}
      BY <2>3 DEF Taken
    <3> QED
      BY <1>3, <2>0, <2>1, <3>2, <3>3, <3>4 DEF Inv, TypeOK, ListAccurate, Loop, Accounted
  <2>4. CASE Taken(p) /\ ~(Len(gpio_initialized) < GPIO_MAX_PINS)
    <3>1. /\ gpio_initialized' = gpio_initialized
          /\ held' = held \union {p} /\ refused' = refused \ {p}
          /\ beyond' = beyond \union {p}
      BY <2>4 DEF Taken, Record
    <3> QED
      BY <1>3, <2>0, <2>1, <3>1 DEF Inv, TypeOK, ListAccurate, Loop, Accounted, Tracked
  <2> QED
    BY <1>3, <2>2, <2>3, <2>4
<1> QED
  BY <1>1, <1>2, <1>3 DEF gpio_init

\* The part of gpio_uninit that gpio_cleanup calls as well.
LEMMA UninitKeeps ==
    ASSUME Inv, NEW p \in Pin, Uninit(p)
    PROVE  /\ exported' \subseteq Pin /\ direction' \in [Pin -> Direction]
           /\ level' \in [Pin -> Level]
           /\ gpio_initialized' \in Seq(Pin)
           /\ Len(gpio_initialized') <= GPIO_MAX_PINS
           /\ pin' \in Pin
           /\ held' \subseteq Pin /\ beyond' \subseteq Pin /\ refused' \subseteq Pin
           /\ ListAccurate' /\ Tracked' = Tracked \ {p}
           /\ held' \subseteq Tracked' \union beyond' \union refused'
<1>1. /\ gpio_initialized' \in Seq(Pin)
      /\ Len(gpio_initialized') <= Len(gpio_initialized)
      /\ IsInjective(gpio_initialized') /\ Tracked' = Tracked \ {p}
  BY CompactInjective DEF Uninit, Inv, TypeOK, ListAccurate, Tracked
<1>2. Len(gpio_initialized') <= GPIO_MAX_PINS
  BY <1>1, LenProperties, GpioAssumption DEF Inv, TypeOK
<1>3. level' \in [Pin -> Level]
  BY DEF Uninit, Inv, TypeOK, Level
<1>4. direction' = direction /\ pin' = p
  BY DEF Uninit, Return
<1>5. CASE /\ exported' = exported \ {p} /\ held' = held \ {p}
           /\ beyond' = beyond \ {p} /\ refused' = refused \ {p}
  BY <1>1, <1>2, <1>3, <1>4, <1>5 DEF Inv, TypeOK, ListAccurate, Accounted
<1>6. CASE /\ UNCHANGED <<exported, held, beyond>>
           /\ refused' = refused \union (held \intersect {p})
  BY <1>1, <1>2, <1>3, <1>4, <1>6 DEF Inv, TypeOK, ListAccurate, Accounted
<1> QED
  BY <1>5, <1>6 DEF Uninit

LEMMA CleanupNextKeeps ==
    ASSUME Inv, CleanupNext
    PROVE  /\ Inv' /\ gpio_initialized[i] \in Pin
           /\ Tracked' = Tracked \ {gpio_initialized[i]}
<1>1. Len(gpio_initialized) \in Nat /\ i = Len(gpio_initialized) /\ i \in 1 .. Len(gpio_initialized)
  BY LenProperties DEF CleanupNext, CleanupMore, Inv, TypeOK, Loop
<1>2. gpio_initialized[i] \in Pin
  BY <1>1, ElementOfSeq DEF Inv, TypeOK
<1>3. PICK p \in Pin : p = gpio_initialized[i]
  BY <1>2
<1>4. Uninit(p)
  BY <1>3 DEF CleanupNext
<1>5. Len(gpio_initialized') = Len(gpio_initialized) - 1
  BY <1>1, <1>3, <1>4, CompactEntry DEF Uninit, Inv, TypeOK, ListAccurate
<1>6. i' = i - 1 /\ cleanup' = "loop" /\ cleanup = "loop" /\ starts' = starts
  BY DEF CleanupNext
<1> QED
  BY <1>1, <1>2, <1>3, <1>4, <1>5, <1>6, UninitKeeps DEF Inv, TypeOK, Loop, Accounted

LEMMA SetTyped ==
    ASSUME level \in [Pin -> Level], NEW p \in Pin, NEW v \in Level, Set(p, v)
    PROVE  level' \in [Pin -> Level] /\ pin' = p
BY DEF Set, Return

LEMMA InvNext == Inv /\ [Next]_vars => Inv'
<1> SUFFICES ASSUME Inv, [Next]_vars PROVE Inv'
  OBVIOUS
<1> USE DEF kernel, history
<1>1. ASSUME NEW p \in Pin, NEW v \in Level, gpio_set(p, v) PROVE Inv'
  <2>1. level' \in [Pin -> Level] /\ pin' = p
    BY <1>1, SetTyped DEF gpio_set, Inv, TypeOK
  <2> QED
    BY <1>1, <2>1 DEF gpio_set, Inv, TypeOK, ListAccurate, Loop, Accounted, Tracked
<1>2. ASSUME NEW p \in Pin, NEW d \in Direction, NEW v \in Level, gpio_init(p, d, v)
      PROVE  Inv'
  BY <1>2, InitKeeps
<1>3. ASSUME NEW p \in Pin, gpio_toggle(p) PROVE Inv'
  <2>1. level' \in [Pin -> Level] /\ pin' = p
    <3>1. CASE UNCHANGED level /\ pin' = p
      BY <3>1 DEF Inv, TypeOK
    <3>2. CASE Set(p, 1 - level[p])
      <4>1. 1 - level[p] \in Level
        BY DEF Inv, TypeOK, Level
      <4> QED
        BY <3>2, <4>1, SetTyped DEF Inv, TypeOK
    <3> QED
      BY <1>3, <3>1, <3>2 DEF gpio_toggle, Return
  <2> QED
    BY <1>3, <2>1 DEF gpio_toggle, Inv, TypeOK, ListAccurate, Loop, Accounted, Tracked
<1>4. ASSUME NEW p \in Pin, gpio_uninit(p) PROVE Inv'
  BY <1>4, UninitKeeps DEF gpio_uninit, Inv, TypeOK, Loop, Accounted
<1>5. CASE CleanupBegin
  BY <1>5, LenProperties DEF CleanupBegin, Inv, TypeOK, ListAccurate, Loop, Accounted, Tracked
<1>6. CASE CleanupNext
  BY <1>6, CleanupNextKeeps
<1>7. CASE CleanupEnd
  <2>1. gpio_initialized = << >>
    BY <1>7, EmptySeq DEF CleanupEnd, CleanupMore, Inv, TypeOK, Loop
  <2> QED
    BY <1>7, <2>1, EmptyList, GpioAssumption
       DEF CleanupEnd, Inv, TypeOK, ListAccurate, Loop, Accounted, Tracked
<1>8. CASE Restart
  BY <1>8, EmptyList, GpioAssumption
     DEF Restart, Inv, TypeOK, ListAccurate, Loop, Accounted, Tracked
<1>9. CASE UNCHANGED vars
  BY <1>9 DEF vars, Inv, TypeOK, ListAccurate, Loop, Accounted, Tracked
<1> QED
  BY <1>1, <1>2, <1>3, <1>4, <1>5, <1>6, <1>7, <1>8, <1>9 DEF Next, Call

LEMMA InvCorrect == Spec => []Inv
<1>1. Init => Inv
  BY InvInit
<1>2. Inv /\ [Next]_vars => Inv'
  BY InvNext
<1> QED
  BY <1>1, <1>2, PTL DEF Spec

\* Every variable has its type, and the loop of gpio_cleanup never reads behind the end
\* of the list it shortens.
THEOREM TypeCorrect == Spec => []TypeOK
<1>1. Inv => TypeOK
  BY DEF Inv
<1> QED
  BY <1>1, InvCorrect, PTL

\* A pin is on the list at most once, is exported, and gpio_init returned 0 for it:
\* also after calls that failed half way, and after restarts.
THEOREM ListAccurateCorrect == Spec => []ListAccurate
<1>1. Inv => ListAccurate
  BY DEF Inv
<1> QED
  BY <1>1, InvCorrect, PTL

\* After gpio_cleanup the pins that gpio_init took are released: the loop skips no entry
\* although gpio_uninit shortens the list under it.  What is still in use was taken when
\* the array was full, or the kernel did not take it back (gpio.c 266-275).
THEOREM CleanupReleasesCorrect == Spec => []CleanupReleases
<1>1. Inv => CleanupReleases
  BY DEF Inv, Accounted, CleanupReleases
<1> QED
  BY <1>1, InvCorrect, PTL
=============================================================================
