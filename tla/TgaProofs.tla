------------------------------ MODULE TgaProofs ------------------------------
(* Theorems about Tga, for all well formed files of any size and any number *)
(* of requests: what a client is told of a file, and the pixels it is sent. *)
EXTENDS Tga, SequenceTheorems, WellFoundedInduction, TLAPS

-----------------------------------------------------------------------------
(* What the properties rest on.                                            *)

\* The flag is set by an earlier short file, or by this one as soon as one of its
\* reads fails, and by the end of the file that is known.
Flag ==
    /\ stage # "idle" => loads > 0
    /\ loads = 0 => ~wasShort
    /\ stage = "header" => (readError <=> wasShort)
    /\ stage = "data" => (wasShort => readError) /\ (readError => wasShort \/ Short(file))
    /\ stage = "end" => (readError <=> wasShort \/ Short(file))
    /\ stage = "idle" => (readError <=> loads > 0 /\ (wasShort \/ Short(file)))

\* The first m packets of a file are in a buffer, and nothing else.
Filled(f, buffer, m) ==
    /\ DOMAIN buffer = 1 .. Area(f)
    /\ \A j \in DOMAIN f.body : \A k \in 1 .. PixelsIn(f, j) :
          buffer[First(f, j) + k] = IF j <= m THEN Expand(f.body[j])[k] ELSE Unset

\* The packets that are decoded.
LastDecoded(f) == IF SkipsLast(f) THEN Len(f.body) - 1 ELSE Len(f.body)

\* As long as every read succeeds, the loop is at the first pixel of the next packet.
OnTrack ==
    /\ stage = "header" => next = 1 /\ current = 0
    /\ stage = "data" /\ ~readError =>
          /\ Supported(file)
          /\ current = First(file, next)
          /\ file.items >= Offset(file, next)
          /\ Filled(file, pixels, next - 1)
          /\ ~IsRle(file) => next = 1
          /\ next = Len(file.body) + 1 => ~SkipsLast(file)

Decoded ==
    stage = "end" /\ ~readError =>
        /\ Supported(file)
        /\ Filled(file, pixels, LastDecoded(file))

\* What the client is told is about the file that was loaded last.
Answer ==
    /\ imsg = NotFound \/ imsg = Describe(file)
    /\ imsg.found => stage = "idle" /\ loads > 0 /\ ~readError /\ Supported(file)
    /\ stage = "idle" /\ loads > 0 /\ ~imsg.found => readError \/ ~Supported(file)

LInv == TypeOK /\ Flag /\ OnTrack /\ Decoded /\ Answer /\ PixelsAsFile

-----------------------------------------------------------------------------
(* Induction over the packets of a file.                                   *)

NatBefore == OpToRel(<, Nat)

LEMMA NatBeforeMembers == \A x, y \in Nat : <<y, x>> \in NatBefore <=> y < x
  BY DEF NatBefore, OpToRel

LEMMA NatBeforeWellFounded == IsWellFoundedOn(NatBefore, Nat)
  BY NatLessThanWellFounded, Zenon DEF NatBefore

\* A set of natural numbers has a least one, which is what an induction needs.
LEMMA LeastNumber ==
  ASSUME NEW S \in SUBSET Nat, S # {}
  PROVE  \E m \in S : \A k \in S : m <= k
  <1>1. PICK x \in S : \A y \in S : ~ (<<y, x>> \in NatBefore)
    BY NatBeforeWellFounded, WFMin
  <1>2. ASSUME NEW y \in S PROVE x <= y
    <2>1. ~ (y < x)
      BY <1>1, NatBeforeMembers
    <2>2. x \in Nat /\ y \in Nat
      OBVIOUS
    <2> QED BY <2>1, <2>2
  <1> QED BY <1>2

-----------------------------------------------------------------------------
(* Files.                                                                  *)

LEMMA FileFields ==
  ASSUME NEW f \in Image
  PROVE  /\ f.depth \in Nat /\ f.alpha \in Nat /\ f.items \in Nat
         /\ f.colourMap \in Nat /\ f.type \in Nat
         /\ f.width \in Nat \ {0} /\ f.height \in Nat \ {0}
         /\ f.body \in Seq(Packet) /\ f.body # <<>>
  BY ImageAssumption

LEMMA AreaType ==
  ASSUME NEW f \in Image
  PROVE  Area(f) \in Nat /\ Area(f) > 0
  <1>1. \A w, h \in Nat \ {0} : w * h \in Nat /\ w * h > 0
    OBVIOUS
  <1> QED BY <1>1, FileFields DEF Area

LEMMA BodyLength ==
  ASSUME NEW f \in Image
  PROVE  Len(f.body) \in Nat /\ Len(f.body) > 0 /\ DOMAIN f.body = 1 .. Len(f.body)
  BY FileFields, EmptySeq

\* The fields of a packet.
LEMMA PacketFields ==
  ASSUME NEW f \in Image, NEW i \in 1 .. Len(f.body)
  PROVE  /\ f.body[i].run \in BOOLEAN /\ PixelsIn(f, i) \in Nat /\ PixelsIn(f, i) > 0
         /\ f.body[i].first \in Nat /\ f.body[i].at \in Nat
         /\ Len(f.body[i].px) \in Nat /\ DOMAIN f.body[i].px = 1 .. Len(f.body[i].px)
  <1>1. f.body[i] \in Packet
    BY FileFields, ElementOfSeq
  <1>2. \A p \in Packet :
           /\ p.run \in BOOLEAN /\ p.n \in Nat /\ p.n > 0 /\ p.first \in Nat /\ p.at \in Nat
           /\ p.px \in Seq(Seq(0 .. 255))
    BY DEF Packet
  <1>3. f.body[i].px \in Seq(Seq(0 .. 255))
    BY <1>1, <1>2
  <1>4. Len(f.body[i].px) \in Nat /\ DOMAIN f.body[i].px = 1 .. Len(f.body[i].px)
    BY <1>3
  <1> QED BY <1>1, <1>2, <1>4 DEF PixelsIn

LEMMA ItemsType ==
  ASSUME NEW f \in Image, NEW i \in 1 .. Len(f.body)
  PROVE  ItemsIn(f, i) \in Nat
  <1>1. Len(f.body[i].px) \in Nat
    BY PacketFields
  <1>2. CASE IsRle(f)
    <2>1. ItemsIn(f, i) = Len(f.body[i].px) + 1
      BY <1>2 DEF ItemsIn
    <2> QED BY <1>1, <2>1
  <1>3. CASE ~IsRle(f)
    <2>1. ItemsIn(f, i) = Len(f.body[i].px) + 0
      BY <1>3 DEF ItemsIn
    <2> QED BY <1>1, <2>1
  <1> QED BY <1>2, <1>3

\* The places of a packet, and of the one that follows.
LEMMA Places ==
  ASSUME NEW f \in Image
  PROVE  /\ First(f, 1) = 0 /\ Offset(f, 1) = Fields
         /\ First(f, Len(f.body) + 1) = Area(f)
         /\ \A i \in 1 .. Len(f.body) :
               /\ First(f, i) = f.body[i].first /\ Offset(f, i) = f.body[i].at
               /\ First(f, i + 1) = First(f, i) + PixelsIn(f, i)
               /\ Offset(f, i + 1) = Offset(f, i) + ItemsIn(f, i)
               /\ Len(f.body[i].px) = IF f.body[i].run THEN 1 ELSE PixelsIn(f, i)
  <1>1. Len(f.body) \in Nat /\ Len(f.body) > 0 /\ DOMAIN f.body = 1 .. Len(f.body)
    BY BodyLength
  <1>2. /\ f.body[1].first = 0 /\ f.body[1].at = Fields
        /\ \A i \in 1 .. Len(f.body) :
              /\ Len(f.body[i].px) = IF f.body[i].run THEN 1 ELSE PixelsIn(f, i)
              /\ First(f, i + 1) = First(f, i) + PixelsIn(f, i)
              /\ Offset(f, i + 1) = Offset(f, i) + ItemsIn(f, i)
    BY <1>1, ImageAssumption
  <1>3. \A i \in 1 .. Len(f.body) : First(f, i) = f.body[i].first /\ Offset(f, i) = f.body[i].at
    BY <1>1 DEF First, Offset
  <1>4. First(f, Len(f.body) + 1) = Area(f)
    BY <1>1 DEF First
  <1>5. 1 \in 1 .. Len(f.body)
    BY <1>1
  <1>6. First(f, 1) = 0 /\ Offset(f, 1) = Fields
    BY <1>2, <1>3, <1>5
  <1> QED BY <1>2, <1>3, <1>4, <1>6

LEMMA PlacesType ==
  ASSUME NEW f \in Image, NEW i \in 1 .. Len(f.body) + 1
  PROVE  First(f, i) \in Nat /\ Offset(f, i) \in Nat
  <1>1. Len(f.body) \in Nat /\ Len(f.body) > 0
    BY BodyLength
  <1>2. CASE i \in 1 .. Len(f.body)
    BY <1>1, <1>2, Places, PacketFields
  <1>3. CASE i = Len(f.body) + 1
    <2>1. First(f, i) = Area(f)
      BY <1>3, Places
    <2>2. Offset(f, i) = Offset(f, Len(f.body)) + ItemsIn(f, Len(f.body))
      BY <1>1, <1>3, Places
    <2>3. Len(f.body) \in 1 .. Len(f.body)
      BY <1>1
    <2>4. Offset(f, Len(f.body)) \in Nat
      BY <2>3, Places, PacketFields
    <2>5. ItemsIn(f, Len(f.body)) \in Nat
      BY <2>3, ItemsType
    <2> QED BY <2>1, <2>2, <2>4, <2>5, AreaType
  <1> QED BY <1>1, <1>2, <1>3

\* Later packets lie after earlier ones, in the image and in the file.
LEMMA Later ==
  ASSUME NEW f \in Image, NEW i \in 1 .. Len(f.body), NEW j \in i + 1 .. Len(f.body) + 1
  PROVE  First(f, i) + PixelsIn(f, i) <= First(f, j) /\ Offset(f, i) <= Offset(f, j)
  <1> DEFINE Good(k) == First(f, i) + PixelsIn(f, i) <= First(f, k) /\ Offset(f, i) <= Offset(f, k)
             Bad == {k \in i + 1 .. Len(f.body) + 1 : ~Good(k)}
  <1>0. Len(f.body) \in Nat /\ Len(f.body) > 0
    BY BodyLength
  <1>1. SUFFICES Bad = {}
    OBVIOUS
  <1>2. SUFFICES ASSUME Bad # {} PROVE FALSE
    OBVIOUS
  <1>3. Bad \in SUBSET Nat
    BY <1>0
  <1>4. PICK m \in Bad : \A k \in Bad : m <= k
    <2> HIDE DEF Bad
    <2> QED BY <1>2, <1>3, LeastNumber
  <1>5. First(f, i) \in Nat /\ Offset(f, i) \in Nat /\ PixelsIn(f, i) \in Nat /\ ItemsIn(f, i) \in Nat
    <2>1. i \in 1 .. Len(f.body) + 1
      BY <1>0
    <2>2. First(f, i) \in Nat /\ Offset(f, i) \in Nat
      BY <2>1, PlacesType
    <2>3. PixelsIn(f, i) \in Nat
      BY PacketFields
    <2>4. ItemsIn(f, i) \in Nat
      BY ItemsType
    <2> QED BY <2>2, <2>3, <2>4
  <1>6. CASE m = i + 1
    <2>1. First(f, m) = First(f, i) + PixelsIn(f, i) /\ Offset(f, m) = Offset(f, i) + ItemsIn(f, i)
      BY <1>6, Places
    <2> QED BY <1>5, <2>1
  <1>7. CASE m # i + 1
    <2>1. m - 1 \in 1 .. Len(f.body) /\ m - 1 \in i + 1 .. Len(f.body) + 1 /\ m - 1 \notin Bad
      BY <1>0, <1>4, <1>7
    <2>2. Good(m - 1)
      BY <2>1
    <2>3. First(f, (m - 1) + 1) = First(f, m - 1) + PixelsIn(f, m - 1)
          /\ Offset(f, (m - 1) + 1) = Offset(f, m - 1) + ItemsIn(f, m - 1)
      BY <2>1, Places
    <2>4. First(f, m - 1) \in Nat /\ Offset(f, m - 1) \in Nat
      BY <2>1, PlacesType
    <2>5. PixelsIn(f, m - 1) \in Nat
      BY <2>1, PacketFields
    <2>6. ItemsIn(f, m - 1) \in Nat
      BY <2>1, ItemsType
    <2>7. (m - 1) + 1 = m
      BY <1>0
    <2>8. First(f, m) = First(f, m - 1) + PixelsIn(f, m - 1)
          /\ Offset(f, m) = Offset(f, m - 1) + ItemsIn(f, m - 1)
      BY <2>3, <2>7
    <2>9. First(f, i) + PixelsIn(f, i) <= First(f, m - 1) /\ Offset(f, i) <= Offset(f, m - 1)
      BY <2>2
    <2>10. First(f, i) + PixelsIn(f, i) <= First(f, m)
      BY <1>5, <2>4, <2>5, <2>8, <2>9
    <2>11. Offset(f, i) <= Offset(f, m)
      BY <1>5, <2>4, <2>6, <2>8, <2>9
    <2> QED BY <2>10, <2>11
  <1> QED BY <1>6, <1>7

\* A packet lies within the image, and starts after the header.
LEMMA Inside ==
  ASSUME NEW f \in Image, NEW i \in 1 .. Len(f.body)
  PROVE  First(f, i) + PixelsIn(f, i) <= Area(f)
  <1>1. Len(f.body) \in Nat
    BY BodyLength
  <1>2. Len(f.body) + 1 \in i + 1 .. Len(f.body) + 1
    BY <1>1
  <1>3. First(f, i) + PixelsIn(f, i) <= First(f, Len(f.body) + 1)
    BY <1>2, Later
  <1> QED BY <1>3, Places

\* Offsets grow.
LEMMA OffsetGrows ==
  ASSUME NEW f \in Image, NEW i \in 1 .. Len(f.body) + 1, NEW j \in i .. Len(f.body) + 1
  PROVE  Offset(f, i) <= Offset(f, j)
  <1>1. Len(f.body) \in Nat
    BY BodyLength
  <1>2. CASE i = j
    BY <1>2, PlacesType
  <1>3. CASE i # j
    <2>1. i \in 1 .. Len(f.body) /\ j \in i + 1 .. Len(f.body) + 1
      BY <1>1, <1>3
    <2> QED BY <2>1, Later
  <1> QED BY <1>2, <1>3

\* Two packets have no pixel in common.
LEMMA Disjoint ==
  ASSUME NEW f \in Image, NEW i \in 1 .. Len(f.body), NEW j \in 1 .. Len(f.body),
         NEW k \in 1 .. PixelsIn(f, i), NEW h \in 1 .. PixelsIn(f, j),
         First(f, i) + k = First(f, j) + h
  PROVE  i = j
  <1>1. SUFFICES ASSUME i # j PROVE FALSE
    OBVIOUS
  <1>2. Len(f.body) \in Nat /\ i \in 1 .. Len(f.body) + 1 /\ j \in 1 .. Len(f.body) + 1
    BY BodyLength
  <1>3. First(f, i) \in Nat /\ First(f, j) \in Nat
    BY <1>2, PlacesType
  <1>4. PixelsIn(f, i) \in Nat /\ PixelsIn(f, j) \in Nat
    BY PacketFields
  <1>5. k \in Nat /\ h \in Nat /\ 1 <= k /\ k <= PixelsIn(f, i) /\ 1 <= h /\ h <= PixelsIn(f, j)
    BY <1>4
  <1>6. ASSUME i < j PROVE FALSE
    <2>1. j \in i + 1 .. Len(f.body) + 1
      BY <1>2, <1>6
    <2>2. First(f, i) + PixelsIn(f, i) <= First(f, j)
      BY <2>1, Later
    <2> QED BY <1>3, <1>4, <1>5, <2>2
  <1>7. ASSUME j < i PROVE FALSE
    <2>1. i \in j + 1 .. Len(f.body) + 1
      BY <1>2, <1>7
    <2>2. First(f, j) + PixelsIn(f, j) <= First(f, i)
      BY <2>1, Later
    <2> QED BY <1>3, <1>4, <1>5, <2>2
  <1> QED BY <1>1, <1>2, <1>6, <1>7

\* A pixel of a packet is a pixel of the image.
LEMMA PixelPlace ==
  ASSUME NEW f \in Image, NEW j \in 1 .. Len(f.body), NEW k \in 1 .. PixelsIn(f, j)
  PROVE  First(f, j) + k \in 1 .. Area(f)
  <1>1. First(f, j) \in Nat
    BY PlacesType, BodyLength
  <1>2. PixelsIn(f, j) \in Nat /\ Area(f) \in Nat
    BY PacketFields, AreaType
  <1>3. First(f, j) + PixelsIn(f, j) <= Area(f)
    BY Inside
  <1>4. k \in Nat /\ 1 <= k /\ k <= PixelsIn(f, j)
    BY <1>2
  <1> QED BY <1>1, <1>2, <1>3, <1>4

\* The pixels that reading packet i writes are those of packet i.
LEMMA Written ==
  ASSUME NEW f \in Image, NEW i \in 1 .. Len(f.body), NEW j \in 1 .. Len(f.body),
         NEW k \in 1 .. PixelsIn(f, j)
  PROVE  First(f, j) + k \in First(f, i) + 1 .. First(f, i) + PixelsIn(f, i) <=> i = j
  <1>1. First(f, i) \in Nat /\ First(f, j) \in Nat
    BY PlacesType, BodyLength
  <1>2. PixelsIn(f, i) \in Nat /\ PixelsIn(f, j) \in Nat
    BY PacketFields
  <1>3. k \in Nat /\ 1 <= k /\ k <= PixelsIn(f, j)
    BY <1>2
  <1>4. ASSUME i = j
        PROVE  First(f, j) + k \in First(f, i) + 1 .. First(f, i) + PixelsIn(f, i)
    BY <1>1, <1>2, <1>3, <1>4
  <1>5. ASSUME First(f, j) + k \in First(f, i) + 1 .. First(f, i) + PixelsIn(f, i)
        PROVE  i = j
    <2> DEFINE h == First(f, j) + k - First(f, i)
    <2>1. h \in 1 .. PixelsIn(f, i) /\ First(f, i) + h = First(f, j) + k
      BY <1>1, <1>2, <1>3, <1>5
    <2> HIDE DEF h
    <2> QED BY <2>1, Disjoint
  <1> QED BY <1>4, <1>5

\* The last packet, and what the loop does with it.
LEMMA LastPacket ==
  ASSUME NEW f \in Image
  PROVE  /\ Len(f.body) \in 1 .. Len(f.body)
         /\ First(f, Len(f.body)) + PixelsIn(f, Len(f.body)) = Area(f)
  <1>1. Len(f.body) \in 1 .. Len(f.body)
    BY BodyLength
  <1>2. First(f, Len(f.body) + 1) = First(f, Len(f.body)) + PixelsIn(f, Len(f.body))
    BY <1>1, Places
  <1> QED BY <1>1, <1>2, Places

\* The loop stops before a packet only if that is the last one, of one pixel.
LEMMA LoopStops ==
  ASSUME NEW f \in Image, NEW i \in 1 .. Len(f.body), ~(First(f, i) < Area(f) - 1)
  PROVE  i = Len(f.body) /\ PixelsIn(f, i) = 1
  <1>1. First(f, i) \in Nat /\ First(f, Len(f.body)) \in Nat
    BY PlacesType, BodyLength
  <1>2. /\ PixelsIn(f, i) \in Nat /\ PixelsIn(f, i) > 0 /\ Area(f) \in Nat
        /\ PixelsIn(f, Len(f.body)) \in Nat /\ PixelsIn(f, Len(f.body)) > 0
    BY PacketFields, LastPacket, AreaType
  <1>3. First(f, i) + PixelsIn(f, i) <= Area(f)
    BY Inside
  <1>4. PixelsIn(f, i) = 1
    BY <1>1, <1>2, <1>3
  <1>5. ASSUME i # Len(f.body) PROVE FALSE
    <2>1. Len(f.body) \in i + 1 .. Len(f.body) + 1
      BY <1>5, BodyLength
    <2>2. First(f, i) + PixelsIn(f, i) <= First(f, Len(f.body))
      BY <2>1, Later
    <2>3. First(f, Len(f.body)) + PixelsIn(f, Len(f.body)) = Area(f)
      BY LastPacket
    <2> QED BY <1>1, <1>2, <1>4, <2>2, <2>3
  <1> QED BY <1>4, <1>5

\* It goes on before one only if that is not the last one, or has more pixels.
LEMMA LoopGoesOn ==
  ASSUME NEW f \in Image, NEW i \in 1 .. Len(f.body) + 1, First(f, i) < Area(f) - 1
  PROVE  /\ i \in 1 .. Len(f.body)
         /\ i = Len(f.body) => PixelsIn(f, i) # 1
  <1>1. Len(f.body) \in Nat /\ Area(f) \in Nat
    BY BodyLength, AreaType
  <1>2. i # Len(f.body) + 1
    BY <1>1, Places
  <1>3. i \in 1 .. Len(f.body)
    BY <1>1, <1>2
  <1>4. First(f, i) \in Nat /\ PixelsIn(f, i) \in Nat
    BY <1>3, PlacesType, PacketFields
  <1>5. i = Len(f.body) => First(f, i) + PixelsIn(f, i) = Area(f)
    BY LastPacket
  <1> QED BY <1>1, <1>3, <1>4, <1>5

-----------------------------------------------------------------------------
(* What is asked for.                                                      *)

LEMMA AfterHeader ==
  ASSUME NEW f \in Image, NEW i \in 1 .. Len(f.body) + 1
  PROVE  Offset(f, i) \in Nat /\ Offset(f, i) >= Fields
  <1>1. 1 \in 1 .. Len(f.body) + 1 /\ i \in 1 .. Len(f.body) + 1
    BY BodyLength
  <1>2. Offset(f, 1) <= Offset(f, i)
    BY <1>1, OffsetGrows
  <1>3. Offset(f, 1) = Fields
    BY Places
  <1> QED BY <1>2, <1>3, PlacesType DEF Fields

LEMMA WantedOf ==
  ASSUME NEW f \in Image, Supported(f)
  PROVE  /\ LastDecoded(f) + 1 \in 1 .. Len(f.body) + 1
         /\ Wanted(f) = Offset(f, LastDecoded(f) + 1)
  <1>1. Len(f.body) \in Nat /\ Len(f.body) > 0
    BY BodyLength
  <1>2. Wanted(f) = Offset(f, IF SkipsLast(f) THEN Len(f.body) ELSE Len(f.body) + 1)
    BY DEF Supported, Wanted
  <1>3. CASE SkipsLast(f)
    <2>1. LastDecoded(f) + 1 = Len(f.body)
      BY <1>1, <1>3 DEF LastDecoded
    <2> QED BY <1>1, <1>2, <1>3, <2>1
  <1>4. CASE ~SkipsLast(f)
    <2>1. LastDecoded(f) + 1 = Len(f.body) + 1
      BY <1>4 DEF LastDecoded
    <2> QED BY <1>1, <1>2, <1>4, <2>1
  <1> QED BY <1>3, <1>4

\* How many items each check of the header asks for.
LEMMA WantedHeader ==
  ASSUME NEW f \in Image
  PROVE  /\ Wanted(f) \in Nat /\ Wanted(f) >= 2
         /\ f.colourMap = 1 => Wanted(f) = 2
         /\ f.colourMap # 1 =>
               /\ Wanted(f) >= 3
               /\ f.type \notin Types => Wanted(f) = 3
               /\ f.type \in Types =>
                     /\ Wanted(f) >= 6
                     /\ f.depth \notin Depths => Wanted(f) = 6
                     /\ f.depth \in Depths =>
                           /\ Wanted(f) >= 7
                           /\ f.alpha \notin Alphas => Wanted(f) = 7
  <1>1. CASE Supported(f)
    <2>1. Wanted(f) \in Nat /\ Wanted(f) >= 7
      BY <1>1, WantedOf, AfterHeader DEF Fields
    <2> QED BY <1>1, <2>1 DEF Supported
  <1>2. CASE ~Supported(f)
    BY <1>2 DEF Supported, Wanted, Fields
  <1> QED BY <1>1, <1>2

-----------------------------------------------------------------------------
(* The header.                                                             *)

\* What is true of the file that is being loaded.
LEMMA Loading ==
  ASSUME TypeOK
  PROVE  /\ file \in Image /\ file.items \in Nat
         /\ next \in 1 .. Len(file.body) + 1 /\ current \in Nat
         /\ readError \in BOOLEAN /\ wasShort \in BOOLEAN /\ loads \in Nat
  BY FileFields, MaxLoadsAssumption DEF TypeOK

\* The header is given up with the flag set if the file is short, or goes on to the
\* pixels.
HeaderRejected ==
    /\ GiveUp
    /\ readError' <=> readError \/ Short(file)
    /\ readError' \/ ~Supported(file)

HeaderAccepted ==
    /\ stage' = "data"
    /\ pixels' = [i \in 1 .. Area(file) |-> Unset]
    /\ UNCHANGED <<file, next, current, imsg, loads, wasShort>>
    /\ readError => readError'
    /\ readError' => readError \/ Short(file)
    /\ readError' \/ (Supported(file) /\ file.items >= Fields)

LEMMA HeaderRead ==
  ASSUME TypeOK, ReadHeader
  PROVE  readError' \in BOOLEAN /\ (HeaderRejected \/ HeaderAccepted)
  <1>1. /\ file.items \in Nat /\ readError \in BOOLEAN /\ Wanted(file) \in Nat
        /\ Wanted(file) >= 2
        /\ file.colourMap = 1 => Wanted(file) = 2
        /\ file.colourMap # 1 =>
               /\ Wanted(file) >= 3
               /\ file.type \notin Types => Wanted(file) = 3
               /\ file.type \in Types =>
                     /\ Wanted(file) >= 6
                     /\ file.depth \notin Depths => Wanted(file) = 6
                     /\ file.depth \in Depths =>
                           /\ Wanted(file) >= 7
                           /\ file.alpha \notin Alphas => Wanted(file) = 7
    BY Loading, WantedHeader
  <1>2. CASE Holds(2, file.colourMap = 1) /\ ReadUpTo(2) /\ GiveUp
    <2>1. file.items >= 2 => file.colourMap = 1
      BY <1>2 DEF Holds
    <2>2. readError' <=> readError \/ file.items < 2
      BY <1>1, <1>2 DEF ReadUpTo
    <2>3. file.items < 2 <=> Short(file)
      BY <1>1, <2>1 DEF Short
    <2>4. file.items >= 2 => ~Supported(file)
      BY <2>1 DEF Supported
    <2> QED BY <1>1, <1>2, <2>2, <2>3, <2>4 DEF HeaderRejected, ReadUpTo
  <1>3. CASE /\ Holds(2, file.colourMap # 1) /\ Holds(3, file.type \notin Types)
             /\ ReadUpTo(3) /\ GiveUp
    <2>1. /\ file.items >= 2 => file.colourMap # 1
          /\ file.items >= 3 => file.type \notin Types
      BY <1>3 DEF Holds
    <2>2. readError' <=> readError \/ file.items < 3
      BY <1>1, <1>3 DEF ReadUpTo
    <2>3. file.items < 3 <=> Short(file)
      BY <1>1, <2>1 DEF Short
    <2>4. file.items >= 3 => ~Supported(file)
      BY <2>1 DEF Supported
    <2> QED BY <1>1, <1>3, <2>2, <2>3, <2>4 DEF HeaderRejected, ReadUpTo
  <1>4. CASE /\ Holds(2, file.colourMap # 1) /\ Holds(3, file.type \in Types)
             /\ file.items < 6 \/ file.depth \notin Depths
             /\ ReadUpTo(6) /\ GiveUp
    <2>1. /\ file.items >= 2 => file.colourMap # 1
          /\ file.items >= 3 => file.type \in Types
          /\ file.items >= 6 => file.depth \notin Depths
      BY <1>1, <1>4 DEF Holds
    <2>2. readError' <=> readError \/ file.items < 6
      BY <1>1, <1>4 DEF ReadUpTo
    <2>3. file.items < 6 <=> Short(file)
      BY <1>1, <2>1 DEF Short
    <2>4. file.items >= 6 => ~Supported(file)
      BY <2>1 DEF Supported
    <2> QED BY <1>1, <1>4, <2>2, <2>3, <2>4 DEF HeaderRejected, ReadUpTo
  <1>5. CASE /\ Holds(2, file.colourMap # 1) /\ Holds(3, file.type \in Types)
             /\ file.items >= 6 /\ file.depth \in Depths
             /\ Holds(7, file.alpha \notin Alphas)
             /\ ReadUpTo(7) /\ GiveUp
    <2>1. /\ file.colourMap # 1 /\ file.type \in Types /\ file.depth \in Depths
          /\ file.items >= 7 => file.alpha \notin Alphas
      BY <1>1, <1>5 DEF Holds
    <2>2. readError' <=> readError \/ file.items < 7
      BY <1>1, <1>5 DEF ReadUpTo
    <2>3. file.items < 7 <=> Short(file)
      BY <1>1, <2>1 DEF Short
    <2>4. file.items >= 7 => ~Supported(file)
      BY <2>1 DEF Supported
    <2> QED BY <1>1, <1>5, <2>2, <2>3, <2>4 DEF HeaderRejected, ReadUpTo
  <1>6. CASE /\ Holds(2, file.colourMap # 1) /\ Holds(3, file.type \in Types)
             /\ file.items >= 6 /\ file.depth \in Depths
             /\ Holds(7, file.alpha \in Alphas)
             /\ ReadUpTo(7)
             /\ stage' = "data"
             /\ pixels' = [i \in 1 .. Area(file) |-> Unset]
             /\ UNCHANGED <<file, next, current, imsg, loads, wasShort>>
    <2>1. /\ file.colourMap # 1 /\ file.type \in Types /\ file.depth \in Depths
          /\ file.items >= 7 => file.alpha \in Alphas
      BY <1>1, <1>6 DEF Holds
    <2>2. readError' <=> readError \/ file.items < 7
      BY <1>1, <1>6 DEF ReadUpTo
    <2>3. file.items < 7 => Short(file)
      BY <1>1, <2>1 DEF Short
    <2>4. file.items >= 7 => Supported(file) /\ file.items >= Fields
      BY <2>1 DEF Supported, Fields
    <2> QED BY <1>1, <1>6, <2>2, <2>3, <2>4 DEF HeaderAccepted, ReadUpTo
  <1> QED BY <1>2, <1>3, <1>4, <1>5, <1>6 DEF ReadHeader

-----------------------------------------------------------------------------
(* The pixels.                                                             *)

LEMMA ExpandedRaw ==
  ASSUME NEW f \in Image, ~IsRle(f)
  PROVE  Len(f.body) = 1 /\ Expand(f.body[1]) = f.body[1].px
  BY ImageAssumption DEF Expand

\* An untouched buffer holds no packet.
LEMMA FilledNone ==
  ASSUME NEW f \in Image, NEW buffer, buffer = [i \in 1 .. Area(f) |-> Unset]
  PROVE  Filled(f, buffer, 0)
  <1>1. ASSUME NEW j \in DOMAIN f.body, NEW k \in 1 .. PixelsIn(f, j)
        PROVE  buffer[First(f, j) + k] = IF j <= 0 THEN Expand(f.body[j])[k] ELSE Unset
    <2>1. j \in 1 .. Len(f.body) /\ ~(j <= 0)
      BY BodyLength
    <2>2. First(f, j) + k \in 1 .. Area(f)
      BY <2>1, PixelPlace
    <2> QED BY <2>1, <2>2
  <1> QED BY <1>1 DEF Filled

\* One read takes all the pixels of a raw file.
LEMMA FilledRaw ==
  ASSUME NEW f \in Image, ~IsRle(f)
  PROVE  Filled(f, f.body[1].px, 1)
  <1>1. Len(f.body) = 1 /\ DOMAIN f.body = 1 .. 1 /\ ~f.body[1].run
    BY ImageAssumption, BodyLength
  <1>2. /\ First(f, 1) = 0 /\ First(f, 1 + 1) = First(f, 1) + PixelsIn(f, 1)
        /\ First(f, 1 + 1) = Area(f)
        /\ Len(f.body[1].px) = PixelsIn(f, 1)
    <2>1. 1 \in 1 .. Len(f.body) /\ Len(f.body) + 1 = 1 + 1
      BY <1>1
    <2>2. /\ First(f, 1) = 0 /\ First(f, 1 + 1) = First(f, 1) + PixelsIn(f, 1)
          /\ First(f, Len(f.body) + 1) = Area(f)
          /\ Len(f.body[1].px) = IF f.body[1].run THEN 1 ELSE PixelsIn(f, 1)
      BY <2>1, Places
    <2> QED BY <1>1, <2>1, <2>2
  <1>3. DOMAIN f.body[1].px = 1 .. PixelsIn(f, 1) /\ PixelsIn(f, 1) \in Nat
    BY <1>1, <1>2, PacketFields
  <1>4. Area(f) = PixelsIn(f, 1)
    BY <1>2, <1>3
  <1>5. ASSUME NEW k \in 1 .. PixelsIn(f, 1)
        PROVE  f.body[1].px[First(f, 1) + k] = Expand(f.body[1])[k]
    <2>1. First(f, 1) + k = k
      BY <1>2, <1>3
    <2> QED BY <2>1, ExpandedRaw
  <1> QED BY <1>1, <1>3, <1>4, <1>5 DEF Filled

\* Reading the packet after the first i - 1.
LEMMA FilledNext ==
  ASSUME TypeOK, NEW i \in 1 .. Len(file.body), i = next,
         Filled(file, pixels, i - 1), current = First(file, i),
         NEW buffer, buffer = [x \in DOMAIN pixels |-> Put(x, file.body[i])]
  PROVE  Filled(file, buffer, i)
  <1>0. /\ file \in Image /\ DOMAIN pixels = 1 .. Area(file) /\ Len(file.body) \in Nat
        /\ DOMAIN file.body = 1 .. Len(file.body)
    BY Loading, BodyLength DEF Filled
  <1>1. ASSUME NEW j \in 1 .. Len(file.body), NEW k \in 1 .. PixelsIn(file, j)
        PROVE  buffer[First(file, j) + k] = IF j <= i THEN Expand(file.body[j])[k] ELSE Unset
    <2> DEFINE x == First(file, j) + k
    <2>0. SUFFICES buffer[x] = IF j <= i THEN Expand(file.body[j])[k] ELSE Unset
      OBVIOUS
    <2>1. x \in 1 .. Area(file)
      BY <1>0, PixelPlace
    <2>2. buffer[x] = Put(x, file.body[i])
      BY <1>0, <2>1
    <2>3. x \in First(file, i) + 1 .. First(file, i) + PixelsIn(file, i) <=> i = j
      BY <1>0, Written
    <2>4. pixels[x] = IF j <= i - 1 THEN Expand(file.body[j])[k] ELSE Unset
      BY <1>0 DEF Filled
    <2>5. First(file, i) \in Nat /\ First(file, j) \in Nat /\ k \in Nat
      BY <1>0, PlacesType
    <2>6. i = j => x - First(file, i) = k
      BY <2>5
    <2>7. Put(x, file.body[i]) = IF x \in First(file, i) + 1 .. First(file, i) + PixelsIn(file, i)
                                 THEN Expand(file.body[i])[x - First(file, i)] ELSE pixels[x]
      BY DEF Put, PixelsIn
    <2> HIDE DEF x
    <2>8. CASE i = j
      <3>1. buffer[x] = Expand(file.body[i])[x - First(file, i)]
        BY <2>2, <2>3, <2>7, <2>8
      <3>2. buffer[x] = Expand(file.body[j])[k] /\ j <= i
        BY <1>0, <2>6, <2>8, <3>1
      <3> QED BY <3>2
    <2>9. CASE i # j
      <3>1. buffer[x] = pixels[x]
        BY <2>2, <2>3, <2>7, <2>9
      <3>2. CASE j <= i
        <4>1. j <= i - 1
          BY <1>0, <2>9, <3>2
        <4> QED BY <2>4, <3>1, <3>2, <4>1
      <3>3. CASE ~(j <= i)
        <4>1. ~(j <= i - 1)
          BY <1>0, <3>3
        <4> QED BY <2>4, <3>1, <3>3, <4>1
      <3> QED BY <3>2, <3>3
    <2> QED BY <2>8, <2>9
  <1>2. DOMAIN buffer = 1 .. Area(file)
    BY <1>0
  <1> QED BY <1>0, <1>1, <1>2 DEF Filled

\* The swap of the colours.
LEMMA FilledSwapped ==
  ASSUME NEW f \in Image, NEW buffer, NEW swapped, Filled(f, buffer, LastDecoded(f)),
         swapped = IF IsTruecolor(f) THEN [i \in DOMAIN buffer |-> SwapRB(buffer[i])] ELSE buffer,
         NEW j \in DOMAIN f.body, NEW k \in 1 .. PixelsIn(f, j)
  PROVE  swapped[First(f, j) + k] =
            IF SkipsLast(f) /\ j = Len(f.body) THEN Unset
            ELSE IF IsTruecolor(f) THEN SwapRB(Expand(f.body[j])[k])
            ELSE Expand(f.body[j])[k]
  <1>1. j \in 1 .. Len(f.body) /\ Len(f.body) \in Nat
    BY BodyLength
  <1>2. First(f, j) + k \in DOMAIN buffer
    BY <1>1, PixelPlace DEF Filled
  <1>3. j <= LastDecoded(f) <=> ~(SkipsLast(f) /\ j = Len(f.body))
    <2>1. CASE SkipsLast(f)
      BY <1>1, <2>1 DEF LastDecoded
    <2>2. CASE ~SkipsLast(f)
      BY <1>1, <2>2 DEF LastDecoded
    <2> QED BY <2>1, <2>2
  <1>4. buffer[First(f, j) + k] = IF j <= LastDecoded(f) THEN Expand(f.body[j])[k] ELSE Unset
    BY DEF Filled
  <1>5. SwapRB(Unset) = Unset
    BY EmptySeq DEF SwapRB, Unset
  <1>6. CASE IsTruecolor(f)
    <2>1. swapped[First(f, j) + k] = SwapRB(buffer[First(f, j) + k])
      BY <1>2, <1>6
    <2> QED BY <1>3, <1>4, <1>5, <1>6, <2>1
  <1>7. CASE ~IsTruecolor(f)
    BY <1>3, <1>4, <1>7
  <1> QED BY <1>6, <1>7

\* The domain of the buffer never changes.
LEMMA BufferKept ==
  ASSUME TypeOK, NEW i \in 1 .. Len(file.body), NEW buffer,
         \/ buffer = [x \in DOMAIN pixels |-> Put(x, file.body[i])]
         \/ ~IsRle(file) /\ buffer = file.body[1].px
         \/ buffer = [x \in DOMAIN pixels |-> SwapRB(pixels[x])]
  PROVE  DOMAIN buffer \in {{}, 1 .. Area(file)}
  <1>1. CASE ~IsRle(file) /\ buffer = file.body[1].px
    BY <1>1, Loading, FilledRaw DEF Filled
  <1> QED BY <1>1 DEF TypeOK

-----------------------------------------------------------------------------
(* The invariant.                                                          *)

LEMMA Described ==
  ASSUME NEW f \in Image, Supported(f)
  PROVE  /\ Describe(f).found /\ Describe(f).depth \in {1, 2, 3, 4}
         /\ Describe(f).format \in Formats
  <1>1. f.depth \in {8, 16, 24, 32} /\ f.alpha \in {0, 8}
    BY DEF Supported, Depths, Alphas
  <1>2. f.depth \div 8 \in {1, 2, 3, 4}
    BY <1>1
  <1>3. FormatOf(f) \in Formats
    BY <1>1 DEF FormatOf, Formats
  <1> QED BY <1>2, <1>3 DEF Describe

\* While a file is being loaded the answer is still open.
LEMMA NotYetFound ==
  ASSUME Answer, stage # "idle"
  PROVE  imsg = NotFound /\ ~imsg.found
  <1>1. NotFound.found = FALSE
    BY DEF NotFound
  <1>2. Describe(file).found = TRUE
    BY DEF Describe
  <1> QED BY <1>1, <1>2 DEF Answer

LEMMA NotFoundIsNot == ~NotFound.found
  BY DEF NotFound

LEMMA LInvInit ==
  ASSUME Init
  PROVE  LInv
  <1>1. TypeOK
    <2>1. /\ file \in Image /\ next = 1 /\ current = 0 /\ pixels = <<>> /\ imsg = NotFound
          /\ loads = 0 /\ readError = FALSE /\ wasShort = FALSE /\ stage = "idle"
      BY DEF Init
    <2>2. 1 \in 1 .. Len(file.body) + 1
      BY <2>1, BodyLength
    <2>3. DOMAIN pixels = {} /\ ~imsg.found /\ 0 \in 0 .. MaxLoads
      BY <2>1, NotFoundIsNot, MaxLoadsAssumption
    <2> QED BY <2>1, <2>2, <2>3 DEF TypeOK
  <1>2. Flag /\ OnTrack /\ Decoded
    BY DEF Init, Flag, OnTrack, Decoded
  <1>3. Answer /\ PixelsAsFile
    BY NotFoundIsNot DEF Init, Answer, PixelsAsFile
  <1> QED BY <1>1, <1>2, <1>3 DEF LInv

LEMMA LoadFromFileKeeps ==
  ASSUME LInv, NEW f \in Image, LoadFromFile(f)
  PROVE  LInv'
  <1>0. TypeOK /\ Flag
    BY DEF LInv
  <1>1. /\ stage = "idle" /\ stage' = "header" /\ file' = f
        /\ next' = 1 /\ current' = 0 /\ pixels' = <<>> /\ imsg' = NotFound
        /\ loads \in Nat /\ loads < MaxLoads /\ loads' = loads + 1
        /\ wasShort' = (wasShort \/ (loads > 0 /\ Short(file)))
        /\ readError' = readError /\ readError \in BOOLEAN /\ wasShort \in BOOLEAN
    BY <1>0, Loading DEF LoadFromFile
  <1>2. TypeOK'
    <2>1. next' \in 1 .. Len(file'.body) + 1
      BY <1>1, BodyLength
    <2>2. loads' \in 0 .. MaxLoads
      BY <1>1, MaxLoadsAssumption
    <2>3. wasShort' \in BOOLEAN
      BY <1>0, <1>1, MaxLoadsAssumption, FileFields, WantedHeader DEF Short, TypeOK
    <2>4. ~imsg'.found /\ DOMAIN pixels' = {}
      BY <1>1, NotFoundIsNot
    <2> QED BY <1>1, <2>1, <2>2, <2>3, <2>4 DEF TypeOK
  <1>3. Flag'
    <2>1. readError <=> loads > 0 /\ (wasShort \/ Short(file))
      BY <1>0, <1>1 DEF Flag
    <2>2. loads = 0 => ~wasShort
      BY <1>0 DEF Flag
    <2>3. readError <=> wasShort \/ (loads > 0 /\ Short(file))
      BY <1>1, <2>1, <2>2
    <2>4. loads' > 0
      BY <1>1
    <2> QED BY <1>1, <2>3, <2>4 DEF Flag
  <1>4. OnTrack' /\ Decoded' /\ Answer' /\ PixelsAsFile'
    BY <1>1, NotFoundIsNot DEF OnTrack, Decoded, Answer, PixelsAsFile
  <1> QED BY <1>2, <1>3, <1>4 DEF LInv

\* A load that fails.
LEMMA GiveUpKeeps ==
  ASSUME LInv, stage # "idle", GiveUp, readError' \in BOOLEAN,
         readError' <=> wasShort \/ Short(file), readError' \/ ~Supported(file)
  PROVE  LInv'
  <1>0. TypeOK /\ Flag /\ Answer
    BY DEF LInv
  <1>1. /\ stage' = "idle" /\ pixels' = <<>> /\ file' = file /\ next' = next
        /\ current' = current /\ imsg' = imsg /\ loads' = loads /\ wasShort' = wasShort
    BY DEF GiveUp
  <1>2. imsg = NotFound /\ ~imsg.found
    BY <1>0, NotYetFound
  <1>3. TypeOK'
    <2>1. DOMAIN pixels' = {}
      BY <1>1
    <2> QED BY <1>0, <1>1, <1>2, <2>1 DEF TypeOK
  <1>4. Flag'
    <2>1. loads > 0
      BY <1>0 DEF Flag
    <2> QED BY <1>0, <1>1, <2>1 DEF Flag
  <1>5. OnTrack' /\ Decoded'
    BY <1>1 DEF OnTrack, Decoded
  <1>6. Answer' /\ PixelsAsFile'
    BY <1>1, <1>2 DEF Answer, PixelsAsFile
  <1> QED BY <1>3, <1>4, <1>5, <1>6 DEF LInv

LEMMA ReadHeaderKeeps ==
  ASSUME LInv, ReadHeader
  PROVE  LInv'
  <1>0. TypeOK /\ Flag /\ OnTrack /\ Answer /\ stage = "header"
    BY DEF LInv, ReadHeader
  <1>1. readError' \in BOOLEAN /\ (HeaderRejected \/ HeaderAccepted)
    BY <1>0, HeaderRead
  <1>2. (readError <=> wasShort) /\ loads > 0
    BY <1>0 DEF Flag
  <1>3. CASE HeaderRejected
    <2>1. /\ GiveUp /\ (readError' \/ ~Supported(file))
          /\ readError' <=> wasShort \/ Short(file)
      BY <1>2, <1>3 DEF HeaderRejected
    <2> QED BY <1>0, <1>1, <2>1, GiveUpKeeps
  <1>4. CASE HeaderAccepted
    <2>1. /\ stage' = "data" /\ file' = file /\ next' = next /\ current' = current
          /\ imsg' = imsg /\ loads' = loads /\ wasShort' = wasShort
          /\ pixels' = [i \in 1 .. Area(file) |-> Unset]
          /\ readError => readError'
          /\ readError' => readError \/ Short(file)
          /\ readError' \/ (Supported(file) /\ file.items >= Fields)
      BY <1>4 DEF HeaderAccepted
    <2>2. imsg = NotFound /\ ~imsg.found
      BY <1>0, NotYetFound
    <2>3. TypeOK'
      <3>1. DOMAIN pixels' = 1 .. Area(file)
        BY <2>1
      <3> QED BY <1>0, <1>1, <2>1, <2>2, <3>1 DEF TypeOK
    <2>4. Flag'
      BY <1>0, <1>2, <2>1 DEF Flag
    <2>5. OnTrack'
      <3>1. next = 1 /\ current = 0
        BY <1>0 DEF OnTrack
      <3>2. /\ file \in Image /\ Len(file.body) \in Nat /\ Len(file.body) > 0
            /\ First(file, 1) = 0 /\ Offset(file, 1) = Fields
        BY <1>0, Loading, BodyLength, Places
      <3>3. Filled(file, pixels', 0)
        BY <2>1, <3>2, FilledNone
      <3> QED BY <2>1, <3>1, <3>2, <3>3 DEF OnTrack
    <2>6. Decoded' /\ Answer' /\ PixelsAsFile'
      BY <2>1, <2>2 DEF Decoded, Answer, PixelsAsFile
    <2> QED BY <2>3, <2>4, <2>5, <2>6 DEF LInv
  <1> QED BY <1>1, <1>3, <1>4

\* A read that leaves the request in its data, or ends it: the answer is still open.
LEMMA ReadingKeeps ==
  ASSUME LInv, stage = "data", stage' \in {"data", "end"},
         UNCHANGED <<file, imsg, loads, wasShort>>,
         readError' \in BOOLEAN, next' \in 1 .. Len(file.body) + 1, current' \in Nat,
         DOMAIN pixels' \in {{}, 1 .. Area(file)},
         wasShort => readError', readError' => wasShort \/ Short(file),
         stage' = "end" => (readError' <=> wasShort \/ Short(file)),
         OnTrack', Decoded'
  PROVE  LInv'
  <1>0. TypeOK /\ Flag /\ Answer
    BY DEF LInv
  <1>1. imsg = NotFound /\ ~imsg.found
    BY <1>0, NotYetFound
  <1>2. TypeOK'
    BY <1>0, <1>1 DEF TypeOK
  <1>3. Flag'
    BY <1>0 DEF Flag
  <1>4. Answer' /\ PixelsAsFile'
    BY <1>1 DEF Answer, PixelsAsFile
  <1> QED BY <1>2, <1>3, <1>4 DEF LInv

\* What is known while no read has failed.
LEMMA Reading ==
  ASSUME LInv, stage = "data"
  PROVE  /\ TypeOK
         /\ wasShort => readError
         /\ readError => wasShort \/ Short(file)
         /\ ~readError => /\ Supported(file)
                          /\ current = First(file, next)
                          /\ file.items >= Offset(file, next)
                          /\ Filled(file, pixels, next - 1)
                          /\ ~IsRle(file) => next = 1
                          /\ next = Len(file.body) + 1 => ~SkipsLast(file)
  <1>1. TypeOK /\ Flag /\ OnTrack
    BY DEF LInv
  <1> QED BY <1>1 DEF Flag, OnTrack

LEMMA ReadRawKeeps ==
  ASSUME LInv, ReadRaw
  PROVE  LInv'
  <1>0. /\ stage = "data" /\ stage' = "end" /\ ~IsRle(file)
        /\ UNCHANGED <<file, next, current, imsg, loads, wasShort>>
        /\ pixels' = IF Present THEN file.body[1].px ELSE pixels
        /\ readError' = (readError \/ ~Present)
    BY DEF ReadRaw
  <1>1. /\ TypeOK
        /\ wasShort => readError
        /\ readError => wasShort \/ Short(file)
        /\ ~readError => Supported(file) /\ next = 1
    BY <1>0, Reading
  <1>2. /\ file \in Image /\ file.items \in Nat /\ next \in 1 .. Len(file.body) + 1
        /\ current \in Nat /\ readError \in BOOLEAN /\ Len(file.body) = 1
    BY <1>0, <1>1, Loading, ExpandedRaw
  <1>3. ~SkipsLast(file) /\ LastDecoded(file) = 1
    BY <1>0, <1>2 DEF SkipsLast, LastDecoded
  <1>4. ASSUME ~readError PROVE Present <=> ~Short(file)
    <2>1. Wanted(file) = Offset(file, 1 + 1)
      BY <1>1, <1>2, <1>3, <1>4, WantedOf
    <2>2. Wanted(file) \in Nat
      BY <1>2, WantedHeader
    <2> QED BY <1>1, <1>2, <1>4, <2>1, <2>2 DEF Present, Short
  <1>5. DOMAIN pixels' \in {{}, 1 .. Area(file)}
    <2>1. CASE Present
      BY <1>0, <1>2, <2>1, FilledRaw DEF Filled
    <2>2. CASE ~Present
      BY <1>0, <1>1, <2>2 DEF TypeOK
    <2> QED BY <2>1, <2>2
  <1>6. Decoded'
    <2>1. ASSUME ~readError' PROVE Supported(file) /\ Filled(file, pixels', 1)
      <3>1. ~readError /\ pixels' = file.body[1].px
        BY <1>0, <2>1
      <3> QED BY <1>0, <1>1, <1>2, <3>1, FilledRaw
    <2> QED BY <1>0, <1>3, <2>1 DEF Decoded
  <1>7. OnTrack'
    BY <1>0 DEF OnTrack
  <1>8. readError' <=> wasShort \/ Short(file)
    BY <1>0, <1>1, <1>4
  <1>9. readError' \in BOOLEAN
    BY <1>0, <1>2 DEF Present
  <1> QED BY <1>0, <1>1, <1>2, <1>5, <1>6, <1>7, <1>8, <1>9, ReadingKeeps

LEMMA ReadPacketKeeps ==
  ASSUME LInv, ReadPacket
  PROVE  LInv'
  <1>0. /\ stage = "data" /\ stage' = "data" /\ IsRle(file) /\ current < Area(file) - 1
        /\ next <= Len(file.body) /\ file.items >= Offset(file, next + 1)
        /\ pixels' = [i \in DOMAIN pixels |-> Put(i, file.body[next])]
        /\ current' = current + PixelsIn(file, next)
        /\ next' = next + 1
        /\ UNCHANGED <<readError, file, imsg, loads, wasShort>>
    BY DEF ReadPacket, MoreToRead, Present, PixelsIn
  <1>1. /\ TypeOK
        /\ wasShort => readError
        /\ readError => wasShort \/ Short(file)
        /\ ~readError => /\ Supported(file)
                         /\ current = First(file, next)
                         /\ Filled(file, pixels, next - 1)
    BY <1>0, Reading
  <1>2. /\ file \in Image /\ Len(file.body) \in Nat /\ next \in 1 .. Len(file.body)
        /\ current \in Nat /\ readError \in BOOLEAN
    BY <1>0, <1>1, Loading, BodyLength
  <1>3. PixelsIn(file, next) \in Nat
    BY <1>2, PacketFields
  <1>4. next' \in 1 .. Len(file.body) + 1 /\ current' \in Nat
    BY <1>0, <1>2, <1>3
  <1>5. DOMAIN pixels' \in {{}, 1 .. Area(file)}
    BY <1>0, <1>1 DEF TypeOK
  <1>6. OnTrack'
    <2> SUFFICES ASSUME ~readError
                 PROVE  /\ Supported(file)
                        /\ current' = First(file, next')
                        /\ file.items >= Offset(file, next')
                        /\ Filled(file, pixels', next' - 1)
                        /\ next' = Len(file.body) + 1 => ~SkipsLast(file)
      BY <1>0 DEF OnTrack
    <2>1. First(file, next + 1) = First(file, next) + PixelsIn(file, next)
      BY <1>2, Places
    <2>2. Filled(file, pixels', next)
      BY <1>0, <1>1, <1>2, FilledNext
    <2>3. next' - 1 = next
      BY <1>0, <1>2
    <2>4. ASSUME next' = Len(file.body) + 1 PROVE ~SkipsLast(file)
      <3>1. next = Len(file.body)
        BY <1>0, <1>2, <2>4
      <3>2. First(file, next) < Area(file) - 1 /\ next \in 1 .. Len(file.body) + 1
        BY <1>0, <1>1, <1>2
      <3>3. PixelsIn(file, Len(file.body)) # 1
        BY <1>2, <3>1, <3>2, LoopGoesOn
      <3> QED BY <3>3 DEF SkipsLast
    <2> QED BY <1>0, <1>1, <2>1, <2>2, <2>3, <2>4
  <1>7. Decoded'
    BY <1>0 DEF Decoded
  <1> QED BY <1>0, <1>1, <1>2, <1>4, <1>5, <1>6, <1>7, ReadingKeeps

\* A file of which a packet is missing that the loop comes to is short.
LEMMA MissingIsShort ==
  ASSUME NEW f \in Image, Supported(f), NEW i \in 1 .. Len(f.body) + 1,
         First(f, i) < Area(f) - 1, f.items < Offset(f, i + 1)
  PROVE  Short(f)
  <1>1. i \in 1 .. Len(f.body) /\ (i = Len(f.body) => PixelsIn(f, i) # 1)
    BY LoopGoesOn
  <1>2. Len(f.body) \in Nat
    BY BodyLength
  <1>3. LastDecoded(f) + 1 \in i + 1 .. Len(f.body) + 1
    BY <1>1, <1>2 DEF LastDecoded, SkipsLast
  <1>4. i + 1 \in 1 .. Len(f.body) + 1
    BY <1>1, <1>2
  <1>5. Offset(f, i + 1) <= Wanted(f)
    BY <1>3, <1>4, OffsetGrows, WantedOf
  <1>6. f.items \in Nat /\ Offset(f, i + 1) \in Nat /\ Wanted(f) \in Nat
    BY <1>4, FileFields, PlacesType, WantedHeader
  <1> QED BY <1>5, <1>6 DEF Short

LEMMA ReadShortPacketKeeps ==
  ASSUME LInv, ReadShortPacket
  PROVE  LInv'
  <1>0. /\ stage = "data" /\ stage' = "data" /\ current < Area(file) - 1
        /\ ~(file.items >= Offset(file, next + 1))
        /\ readError' = TRUE
        /\ current' \in current + 1 .. Area(file)
        /\ UNCHANGED <<file, next, pixels, imsg, loads, wasShort>>
    BY DEF ReadShortPacket, MoreToRead, Present
  <1>1. /\ TypeOK
        /\ wasShort => readError
        /\ readError => wasShort \/ Short(file)
        /\ ~readError => /\ Supported(file)
                         /\ current = First(file, next)
                         /\ next = Len(file.body) + 1 => ~SkipsLast(file)
    BY <1>0, Reading
  <1>2. /\ file \in Image /\ file.items \in Nat /\ next \in 1 .. Len(file.body) + 1
        /\ current \in Nat /\ Area(file) \in Nat
    BY <1>1, Loading, AreaType
  <1>3. ASSUME ~readError PROVE Short(file)
    <2>1. First(file, next) < Area(file) - 1 /\ Supported(file)
      BY <1>0, <1>1, <1>3
    <2>2. next \in 1 .. Len(file.body)
      BY <1>2, <2>1, LoopGoesOn
    <2>3. next + 1 \in 1 .. Len(file.body) + 1
      BY <1>2, <2>2, BodyLength
    <2>4. Offset(file, next + 1) \in Nat
      BY <1>2, <2>3, PlacesType
    <2>5. file.items < Offset(file, next + 1)
      BY <1>0, <1>2, <2>4
    <2> QED BY <1>2, <2>1, <2>5, MissingIsShort
  <1>4. DOMAIN pixels' \in {{}, 1 .. Area(file)}
    BY <1>0, <1>1 DEF TypeOK
  <1>5. current' \in Nat
    BY <1>0, <1>2
  <1>6. OnTrack' /\ Decoded'
    BY <1>0 DEF OnTrack, Decoded
  <1> QED BY <1>0, <1>1, <1>2, <1>3, <1>4, <1>5, <1>6, ReadingKeeps

LEMMA LastPacketReadKeeps ==
  ASSUME LInv, LastPacketRead
  PROVE  LInv'
  <1>0. /\ stage = "data" /\ stage' = "end" /\ IsRle(file) /\ ~(current < Area(file) - 1)
        /\ UNCHANGED <<readError, file, next, current, pixels, imsg, loads, wasShort>>
    BY DEF LastPacketRead, MoreToRead
  <1>1. /\ TypeOK
        /\ wasShort => readError
        /\ readError => wasShort \/ Short(file)
        /\ ~readError => /\ Supported(file)
                         /\ current = First(file, next)
                         /\ file.items >= Offset(file, next)
                         /\ Filled(file, pixels, next - 1)
                         /\ next = Len(file.body) + 1 => ~SkipsLast(file)
    BY <1>0, Reading
  <1>2. /\ file \in Image /\ file.items \in Nat /\ next \in 1 .. Len(file.body) + 1
        /\ current \in Nat /\ readError \in BOOLEAN /\ Len(file.body) \in Nat
    BY <1>1, Loading, BodyLength
  <1>3. ASSUME ~readError PROVE ~Short(file) /\ LastDecoded(file) = next - 1
    <2>1. ASSUME next \in 1 .. Len(file.body) PROVE LastDecoded(file) = next - 1
      <3>1. ~(First(file, next) < Area(file) - 1)
        BY <1>0, <1>1, <1>3
      <3>2. next = Len(file.body) /\ PixelsIn(file, next) = 1
        BY <1>2, <2>1, <3>1, LoopStops
      <3>3. SkipsLast(file)
        BY <1>0, <3>2 DEF SkipsLast
      <3>4. LastDecoded(file) = Len(file.body) - 1
        BY <3>3 DEF LastDecoded
      <3> QED BY <3>2, <3>4
    <2>2. ASSUME next = Len(file.body) + 1 PROVE LastDecoded(file) = next - 1
      <3>1. ~SkipsLast(file)
        BY <1>1, <1>3, <2>2
      <3>2. LastDecoded(file) = Len(file.body)
        BY <3>1 DEF LastDecoded
      <3> QED BY <1>2, <2>2, <3>2
    <2>3. LastDecoded(file) = next - 1
      BY <1>2, <2>1, <2>2
    <2>4. Wanted(file) = Offset(file, next)
      <3>1. (next - 1) + 1 = next
        BY <1>2
      <3> QED BY <1>1, <1>2, <1>3, <2>3, <3>1, WantedOf
    <2>5. Wanted(file) \in Nat
      BY <1>2, WantedHeader
    <2> QED BY <1>1, <1>2, <1>3, <2>3, <2>4, <2>5 DEF Short
  <1>4. DOMAIN pixels' \in {{}, 1 .. Area(file)}
    BY <1>0, <1>1 DEF TypeOK
  <1>5. OnTrack'
    BY <1>0 DEF OnTrack
  <1>6. Decoded'
    BY <1>0, <1>1, <1>3 DEF Decoded
  <1>7. readError' <=> wasShort \/ Short(file)
    BY <1>0, <1>1, <1>3
  <1> QED BY <1>0, <1>1, <1>2, <1>4, <1>5, <1>6, <1>7, ReadingKeeps

LEMMA ClearedKeeps ==
  ASSUME LInv, Cleared
  PROVE  LInv'
  <1>1. /\ stage = "end" /\ stage # "idle" /\ readError /\ readError' = readError /\ GiveUp
        /\ TypeOK /\ Flag
    BY DEF Cleared, LInv
  <1>2. readError <=> wasShort \/ Short(file)
    BY <1>1 DEF Flag
  <1>3. readError' \in BOOLEAN
    BY <1>1 DEF TypeOK
  <1> QED BY <1>1, <1>2, <1>3, GiveUpKeeps

LEMMA LoadedKeeps ==
  ASSUME LInv, Loaded
  PROVE  LInv'
  <1>0. /\ stage = "end" /\ ~readError /\ stage' = "idle" /\ imsg' = Describe(file)
        /\ pixels' = IF IsTruecolor(file) THEN [i \in DOMAIN pixels |-> SwapRB(pixels[i])]
                     ELSE pixels
        /\ UNCHANGED <<readError, file, next, current, loads, wasShort>>
    BY DEF Loaded
  <1>1. /\ TypeOK /\ Supported(file) /\ Filled(file, pixels, LastDecoded(file))
        /\ (readError <=> wasShort \/ Short(file)) /\ loads > 0
    BY <1>0 DEF LInv, Decoded, Flag
  <1>2. file \in Image
    BY <1>1, Loading
  <1>3. /\ Describe(file).found /\ Describe(file).depth \in {1, 2, 3, 4}
        /\ Describe(file).format \in Formats
    BY <1>1, <1>2, Described
  <1>4. TypeOK'
    <2>1. DOMAIN pixels' = DOMAIN pixels
      BY <1>0
    <2> QED BY <1>0, <1>1, <1>3, <2>1 DEF TypeOK
  <1>5. Flag'
    BY <1>0, <1>1 DEF Flag
  <1>6. OnTrack' /\ Decoded'
    BY <1>0 DEF OnTrack, Decoded
  <1>7. Answer'
    BY <1>0, <1>1, <1>3 DEF Answer
  <1>8. PixelsAsFile'
    <2>1. ASSUME NEW j \in DOMAIN file.body, NEW k \in 1 .. PixelsIn(file, j)
          PROVE  pixels'[First(file, j) + k] =
                    IF SkipsLast(file) /\ j = Len(file.body) THEN Unset
                    ELSE IF IsTruecolor(file) THEN SwapRB(Expand(file.body[j])[k])
                    ELSE Expand(file.body[j])[k]
      BY <1>0, <1>1, <1>2, FilledSwapped
    <2> QED BY <1>0, <2>1 DEF PixelsAsFile
  <1> QED BY <1>4, <1>5, <1>6, <1>7, <1>8 DEF LInv

LEMMA LInvNext ==
  ASSUME LInv, [Next]_vars
  PROVE  LInv'
  <1>1. CASE UNCHANGED vars
    BY <1>1 DEF vars, LInv, TypeOK, Flag, OnTrack, Decoded, Answer, PixelsAsFile
  <1> QED BY <1>1, LoadFromFileKeeps, ReadHeaderKeeps, ReadRawKeeps, ReadPacketKeeps,
             ReadShortPacketKeeps, LastPacketReadKeeps, ClearedKeeps, LoadedKeeps DEF Next

\* For all files and any number of requests, the invariant holds.
THEOREM LInvHolds == Spec => []LInv
  BY LInvInit, LInvNext, PTL DEF Spec

-----------------------------------------------------------------------------
(* What follows from it.                                                   *)

\* The variables have their types; what is told of a found file is a depth and a
\* format that netimg knows (imgdb.cpp:84-94).
THEOREM TypeHolds == Spec => []TypeOK
  <1>1. LInv => TypeOK
    BY DEF LInv
  <1> QED BY <1>1, LInvHolds, PTL

\* For any division of an image into packets, every pixel is that of the file with
\* red and blue swapped in colour images, but for a last packet of one pixel, which
\* the loop never comes to (ltga.cpp:189).
THEOREM PixelsAsFileHolds == Spec => []PixelsAsFile
  <1>1. LInv => PixelsAsFile
    BY DEF LInv
  <1> QED BY <1>1, LInvHolds, PTL

\* A file is found if and only if it is supported, not short, and came after no
\* short file: TGAReadError is never reset (ltga.cpp:35).
THEOREM FoundIfReadableHolds == Spec => []FoundIfReadable
  <1>1. ASSUME LInv PROVE FoundIfReadable
    <2> SUFFICES ASSUME stage = "idle", loads > 0
                 PROVE  imsg.found <=> Supported(file) /\ ~Short(file) /\ ~wasShort
      BY DEF FoundIfReadable
    <2>1. readError <=> wasShort \/ Short(file)
      BY <1>1 DEF LInv, Flag
    <2>2. imsg.found => ~readError /\ Supported(file)
      BY <1>1 DEF LInv, Answer
    <2>3. ~imsg.found => readError \/ ~Supported(file)
      BY <1>1 DEF LInv, Answer
    <2> QED BY <2>1, <2>2, <2>3
  <1> QED BY <1>1, LInvHolds, PTL

\* For every supported file, netimg draws as many bytes a pixel as it is sent if and
\* only if the alpha bits account for the depth (imgdb.cpp:84-94).
THEOREM DrawnAsSentHolds == Spec => []DrawnAsSent
  <1>1. ASSUME LInv PROVE DrawnAsSent
    <2> SUFFICES ASSUME imsg.found
                 PROVE  Components(imsg.format) = imsg.depth <=> WellDescribed(file)
      BY DEF DrawnAsSent
    <2>1. imsg = Describe(file) /\ Supported(file)
      BY <1>1, NotFoundIsNot DEF LInv, Answer
    <2>2. file.depth \in {8, 16, 24, 32} /\ file.alpha \in {0, 8}
      BY <2>1 DEF Supported, Depths, Alphas
    <2>3. imsg.depth = file.depth \div 8 /\ imsg.format = FormatOf(file)
      BY <2>1 DEF Describe
    <2>4. imsg.depth = (IF IsTruecolor(file) THEN 3 ELSE 1) + (IF file.alpha = 8 THEN 1 ELSE 0)
             <=> WellDescribed(file)
      <3>1. CASE IsTruecolor(file)
        BY <2>2, <2>3, <3>1 DEF WellDescribed
      <3>2. CASE ~IsTruecolor(file)
        BY <2>2, <2>3, <3>2 DEF WellDescribed
      <3> QED BY <3>1, <3>2
    <2>5. Components(imsg.format) =
             (IF IsTruecolor(file) THEN 3 ELSE 1) + (IF file.alpha = 8 THEN 1 ELSE 0)
      <3>1. CASE IsTruecolor(file)
        BY <2>2, <2>3, <3>1 DEF FormatOf, Components
      <3>2. CASE ~IsTruecolor(file)
        BY <2>2, <2>3, <3>2 DEF FormatOf, Components
      <3> QED BY <3>1, <3>2
    <2> QED BY <2>4, <2>5
  <1> QED BY <1>1, LInvHolds, PTL

=============================================================================
