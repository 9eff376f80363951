--------------------------- MODULE FramingProofs ---------------------------
(* Theorems about Framing, for all lengths, buffer sizes and numbers of    *)
(* packets: the reader stays in step with the stream, and stops only for   *)
(* the reasons that the model names.                                       *)
EXTENDS Framing, SequenceTheorems, TLAPS

-----------------------------------------------------------------------------
(* What makes InStep and ExitMeansNextPacket inductive.                    *)

\* The i-th packet is one that a connection of this kind carries there.
InOrder(i) ==
    LET type == packets[i].type
    IN \/ kind = "answering" /\ i = 1 /\ type \in {"WELCOME", "REDIRECT"}
       \/ kind = "answering" /\ i > 1 /\ type = "SEARCH"
       \/ kind = "asking" /\ type = "SEARCH"
       \/ kind = "query" /\ i = 1 /\ type \in {"QUERY", "UNKNOWN"}
       \/ kind = "transfer" /\ i = 1 /\ type = "IMAGE"
       \/ kind = "reply" /\ i = 1 /\ type \in {"IMAGE", "REFUSAL"}

\* Packets lie one after the other in the stream.
Layout ==
    /\ \A i \in DOMAIN packets :
          /\ InOrder(i)
          /\ packets[i].end = EndOf(i - 1) + PacketLen(packets[i].type, packets[i].n)
    /\ \A i, j \in DOMAIN packets : i < j => packets[i].end < packets[j].end
    /\ written <= Total

\* The packets whose handling passes through stage s.
Through(s) ==
    CASE s \in {"count", "addresses"} -> {"WELCOME", "REDIRECT"}
      [] s = "search" -> {"SEARCH"}
      [] s = "query" -> {"QUERY"}
      [] s \in {"imsg", "pixels", "image"} -> {"IMAGE"}

\* The buffer of a handler begins where the packets dealt with end, and the
\* handler is one for the packet that comes next.
Position ==
    /\ handled <= Len(packets)
    /\ stage \in {"select", "count", "addresses", "search"} => kind \in ToPeer
    /\ stage \in {"query", "imsg", "pixels"} => kind \in ToImagePort
    /\ stage \in {"netimg", "image"} => kind = "reply" /\ handled = 0
    /\ stage = "header" => kind # "reply"
    /\ stage = "header" /\ kind \in ToImagePort => handled = 0
    /\ stage = "netimg" => pos = 0
    /\ stage \in Loops \cup {"netimg", "image"} => start = EndOf(handled)
    /\ stage \in (Loops \ {"header"}) \cup {"image"} =>
          /\ handled < Len(packets)
          /\ packets[handled + 1].type \in Through(stage)

SInv ==
    /\ TypeOK /\ Layout /\ Position
    /\ InStep /\ ExitMeansNextPacket

-----------------------------------------------------------------------------
(* Lengths and positions.                                                  *)

LEMMA Sizes ==
  /\ HeaderLen \in Nat /\ HeaderLen > 0 /\ AddrLen \in Nat /\ BUFFER_SIZE \in Nat
  /\ PeeringLen \in Nat /\ PeeringLen > HeaderLen
  /\ SearchLen \in Nat /\ SearchLen > HeaderLen
  /\ IqryLen \in Nat /\ IqryLen > HeaderLen
  /\ ImsgLen \in Nat /\ ImsgLen > HeaderLen
  BY LengthAssumption

LEMMA MinOfTwo ==
  ASSUME NEW a \in Nat, NEW b \in Nat
  PROVE  Min({a, b}) \in {a, b} /\ Min({a, b}) <= a /\ Min({a, b}) <= b
  <1>1. \E x \in {a, b} : \A y \in {a, b} : x <= y
    BY SMT
  <1> QED BY <1>1 DEF Min

\* No packet is as short as a header alone.
LEMMA Lengths ==
  ASSUME NEW type \in Type, NEW n \in Nat
  PROVE  PacketLen(type, n) \in Nat /\ PacketLen(type, n) > HeaderLen
  <1>1. n * AddrLen \in Nat
    BY Sizes
  <1> QED BY <1>1, Sizes DEF PacketLen, Type

LEMMA Packets ==
  ASSUME TypeOK
  PROVE  /\ Len(packets) \in Nat /\ DOMAIN packets = 1 .. Len(packets)
         /\ packets = <<>> <=> Len(packets) = 0
         /\ \A i \in 1 .. Len(packets) :
               packets[i].end \in Nat /\ packets[i].type \in Type /\ packets[i].n \in Nat
  <1> DEFINE R == [type : Type, n : Nat, end : Nat]
  <1>1. packets \in Seq(R)
    BY DEF TypeOK
  <1>2. \A i \in 1 .. Len(packets) : packets[i] \in R
    BY <1>1, ElementOfSeq
  <1>3. \A r \in R : r.end \in Nat /\ r.type \in Type /\ r.n \in Nat
    OBVIOUS
  <1> HIDE DEF R
  <1>4. Len(packets) \in Nat /\ DOMAIN packets = 1 .. Len(packets)
    BY <1>1
  <1>5. packets = <<>> <=> Len(packets) = 0
    BY <1>1, EmptySeq
  <1> QED BY <1>2, <1>3, <1>4, <1>5

LEMMA Ends ==
  ASSUME TypeOK, NEW i \in 0 .. Len(packets)
  PROVE  EndOf(i) \in Nat
  BY Packets DEF EndOf

LEMMA TotalIsEnd ==
  ASSUME TypeOK
  PROVE  Total = EndOf(Len(packets)) /\ Total \in Nat
  BY Packets DEF Total, EndOf

LEMMA Increasing ==
  ASSUME Layout, NEW i \in DOMAIN packets, NEW j \in DOMAIN packets, i < j
  PROVE  packets[i].end < packets[j].end
  BY DEF Layout

\* While the reader is past the end of packet i, there is another one.
LEMMA Another ==
  ASSUME TypeOK, Layout, NEW i \in 0 .. Len(packets), pos > EndOf(i)
  PROVE  i < Len(packets)
  <1>1. pos <= EndOf(Len(packets)) /\ pos \in Nat
    BY TotalIsEnd DEF TypeOK, Layout
  <1>2. EndOf(i) \in Nat /\ EndOf(Len(packets)) \in Nat /\ Len(packets) \in Nat
    BY Ends DEF TypeOK
  <1> QED BY <1>1, <1>2

\* The buffer of a handler that begins after the packets dealt with belongs to
\* the next one, and that one ends where its length says.
LEMMA CurrentIsNext ==
  ASSUME TypeOK, Layout, NEW h \in Nat, h < Len(packets), start = EndOf(h)
  PROVE  /\ Current = packets[h + 1]
         /\ h + 1 \in DOMAIN packets
         /\ EndOf(h + 1) = start + PacketLen(Current.type, Current.n)
         /\ Current.type \in Type /\ Current.n \in Nat
         /\ InOrder(h + 1)
  <1> DEFINE Holds(i) == start < packets[i].end /\ (i = 1 \/ packets[i - 1].end <= start)
  <1>1. /\ DOMAIN packets = 1 .. Len(packets) /\ Len(packets) \in Nat
        /\ \A i \in DOMAIN packets :
              packets[i].end \in Nat /\ packets[i].type \in Type /\ packets[i].n \in Nat
    BY Packets
  <1> start \in Nat
    BY DEF TypeOK
  <1>m. \A i, j \in DOMAIN packets : i <= j => packets[i].end <= packets[j].end
    <2> TAKE i, j \in DOMAIN packets
    <2> HAVE i <= j
    <2>1. CASE i = j
      BY <2>1, <1>1
    <2>2. CASE i < j
      <3>1. packets[i].end < packets[j].end
        BY <2>2, Increasing
      <3> QED BY <3>1, <1>1
    <2>3. i \in Nat /\ j \in Nat
      BY <1>1
    <2> QED BY <2>1, <2>2, <2>3
  <1>2. h + 1 \in DOMAIN packets
    BY <1>1
  <1>3. packets[h + 1].end = start + PacketLen(packets[h + 1].type, packets[h + 1].n)
    BY <1>2 DEF Layout
  <1>4. Holds(h + 1)
    <2>1. start < packets[h + 1].end
      <3>1. /\ PacketLen(packets[h + 1].type, packets[h + 1].n) \in Nat
            /\ PacketLen(packets[h + 1].type, packets[h + 1].n) > HeaderLen
        BY <1>1, <1>2, Lengths
      <3>2. HeaderLen \in Nat
        BY Sizes
      <3> QED BY <3>1, <3>2, <1>3
    <2>2. h = 0 \/ packets[h].end = start
      BY DEF EndOf
    <2> QED BY <2>1, <2>2, <1>1
  <1>5. ASSUME NEW i \in DOMAIN packets, Holds(i) PROVE i = h + 1
    <2>1. i \in Nat \ {0}
      BY <1>1
    <2>2. CASE i > h + 1
      <3>1. i - 1 \in DOMAIN packets /\ h + 1 <= i - 1
        BY <2>1, <2>2, <1>1
      <3>2. packets[h + 1].end <= packets[i - 1].end
        BY <3>1, <1>m, <1>2
      <3>3. packets[i - 1].end <= start
        BY <1>5, <2>1, <2>2
      <3>4. /\ start < packets[h + 1].end
            /\ packets[h + 1].end \in Nat /\ packets[i - 1].end \in Nat
        BY <3>1, <1>1, <1>2, <1>4
      <3> QED BY <3>2, <3>3, <3>4
    <2>3. CASE i <= h
      <3>1. h \in DOMAIN packets /\ start = packets[h].end
        BY <2>1, <2>3, <1>1 DEF EndOf
      <3>2. packets[i].end <= packets[h].end
        BY <2>1, <2>3, <3>1, <1>m
      <3> QED BY <3>1, <3>2, <1>5, <1>1
    <2> QED BY <2>1, <2>2, <2>3
  <1>6. Current = packets[h + 1]
    <2>1. (CHOOSE i \in DOMAIN packets : Holds(i)) = h + 1
      BY <1>2, <1>4, <1>5
    <2> QED BY <2>1 DEF Current
  <1>7. EndOf(h + 1) = packets[h + 1].end
    BY DEF EndOf
  <1>8. InOrder(h + 1)
    BY <1>2 DEF Layout
  <1> QED BY <1>1, <1>2, <1>3, <1>6, <1>7, <1>8

-----------------------------------------------------------------------------
(* The writer.                                                             *)

LEMMA InitS ==
  ASSUME Init
  PROVE  SInv
  <1> USE DEF Init, FirstStage
  <1>1. packets \in Seq([type : Type, n : Nat, end : Nat]) /\ Len(packets) = 0
        /\ DOMAIN packets = {}
    <2>1. packets = <<>>
      OBVIOUS
    <2> QED BY <2>1
  <1>2. TypeOK
    <2>1. packets \in Seq([type : Type, n : Nat, end : Nat])
      BY <1>1
    <2>2. /\ kind \in Kind /\ written = 0 /\ ended = FALSE /\ start = 0 /\ pos = 0
          /\ handled = 0
      OBVIOUS
    <2>3. busy \in BOOLEAN
      OBVIOUS
    <2>4. stage \in Stage
      <3>1. {"select", "header", "netimg"} \subseteq Stage
        BY DEF Stage, Loops
      <3> QED BY <3>1
    <2> HIDE DEF Init
    <2>5. start <= pos /\ pos <= written /\ start \in Nat /\ pos \in Nat /\ written \in Nat
      BY <2>2
    <2>6. handled \in Nat /\ ended \in BOOLEAN
      BY <2>2
    <2>7. kind \in Kind
      BY <2>2
    <2> HIDE <2>2
    <2> QED BY <2>1, <2>3, <2>4, <2>5, <2>6, <2>7 DEF TypeOK
  <1>3. Layout
    BY <1>1 DEF Layout, Total
  <1>4. EndOf(0) = 0
    BY DEF EndOf
  <1>5. Position
    BY <1>1, <1>4 DEF Position, Kind, ToPeer, ToImagePort, Loops
  <1>6. InStep /\ ExitMeansNextPacket
    BY <1>1, <1>4 DEF InStep, ExitMeansNextPacket, ToPeer, ToImagePort
  <1> QED BY <1>2, <1>3, <1>5, <1>6 DEF SInv

LEMMA BeginS ==
  ASSUME SInv, NEW type \in Type, NEW n \in PeerCounts \cup ImageSizes \cup {0},
         Begin(type, n)
  PROVE  SInv'
  <1> DEFINE last == Len(packets) + 1
             p == [type |-> type, n |-> n, end |-> Total + PacketLen(type, n)]
  <1>0. TypeOK /\ Layout /\ Position /\ InStep /\ ExitMeansNextPacket
    BY DEF SInv
  <1>1. /\ packets' = Append(packets, p) /\ written = Total /\ Sends(type, n)
        /\ kind' = kind /\ written' = written /\ ended' = ended /\ busy' = busy
        /\ stage' = stage /\ start' = start /\ pos' = pos /\ handled' = handled
    BY DEF Begin
  <1>2. n \in Nat
    BY LengthAssumption
  <1>3. Total \in Nat /\ Total = EndOf(Len(packets))
    BY <1>0, TotalIsEnd
  <1>4. PacketLen(type, n) \in Nat /\ PacketLen(type, n) > 0
    BY <1>2, Lengths, Sizes
  <1>5. p \in [type : Type, n : Nat, end : Nat]
    BY <1>2, <1>3, <1>4
  <1>6. /\ packets' \in Seq([type : Type, n : Nat, end : Nat])
        /\ Len(packets') = last
        /\ \A i \in 1 .. Len(packets) : packets'[i] = packets[i]
        /\ packets'[last].type = type /\ packets'[last].n = n
        /\ packets'[last].end = Total + PacketLen(type, n)
    <2>1. p.type = type /\ p.n = n /\ p.end = Total + PacketLen(type, n)
      OBVIOUS
    <2> packets \in Seq([type : Type, n : Nat, end : Nat])
      BY <1>0 DEF TypeOK
    <2> HIDE DEF p
    <2> QED BY <2>1, <1>1, <1>5, AppendProperties
  <1>7. Len(packets) \in Nat /\ DOMAIN packets = 1 .. Len(packets)
    BY <1>0, Packets
  <1> HIDE DEF p
  <1>8. TypeOK'
    BY <1>0, <1>1, <1>6 DEF TypeOK
  <1>9. Len(packets') \in Nat /\ DOMAIN packets' = 1 .. last
    BY <1>8, <1>6, Packets
  <1>10. ASSUME NEW i \in 0 .. Len(packets) PROVE EndOf(i)' = EndOf(i)
    <2>1. i # 0 => packets'[i] = packets[i]
      BY <1>6, <1>7
    <2> QED BY <2>1 DEF EndOf
  <1>11. Total' = Total + PacketLen(type, n)
    <2>1. packets' # <<>>
      BY <1>6, <1>7
    <2> QED BY <2>1, <1>6 DEF Total
  <1>12. Layout'
    <2>1. ASSUME NEW i \in 1 .. last
          PROVE  /\ InOrder(i)'
                 /\ packets'[i].end =
                       EndOf(i - 1)' + PacketLen(packets'[i].type, packets'[i].n)
      <3>1. CASE i < last
        <4>1. i \in 1 .. Len(packets) /\ i - 1 \in 0 .. Len(packets)
          BY <3>1, <1>7
        <4>2. InOrder(i) /\ packets[i].end =
                               EndOf(i - 1) + PacketLen(packets[i].type, packets[i].n)
          BY <4>1, <1>0, <1>7 DEF Layout
        <4>3. InOrder(i)'
          BY <4>1, <4>2, <1>6, <1>1 DEF InOrder
        <4> QED BY <4>1, <4>2, <4>3, <1>6, <1>10
      <3>2. CASE i = last
        <4>1. packets'[i].type = type /\ packets'[i].n = n
              /\ packets'[i].end = Total + PacketLen(type, n)
          BY <3>2, <1>6
        <4>2. EndOf(i - 1)' = Total
          BY <3>2, <1>10, <1>3, <1>7
        <4>3. i >= 1 /\ (packets = <<>> => i = 1) /\ (packets # <<>> => i > 1)
          BY <3>2, <1>7, <1>0, Packets
        <4>4. InOrder(i)'
          BY <4>1, <4>3, <1>1 DEF InOrder, Sends
        <4> QED BY <4>1, <4>2, <4>4
      <3> QED BY <3>1, <3>2, <1>7
    <2>2. ASSUME NEW i \in 1 .. last, NEW j \in 1 .. last, i < j
          PROVE  packets'[i].end < packets'[j].end
      <3>1. i \in 1 .. Len(packets) /\ packets[i].end \in Nat
        BY <2>2, <1>7, <1>0, Packets
      <3>2. CASE j < last
        <4>1. j \in 1 .. Len(packets)
          BY <3>2, <1>7
        <4>2. packets[i].end < packets[j].end
          BY <4>1, <3>1, <2>2, <1>0, <1>7 DEF Layout
        <4> QED BY <4>1, <4>2, <3>1, <1>6
      <3>3. CASE j = last
        <4>1. packets'[j].end = Total + PacketLen(type, n)
          BY <3>3, <1>6
        <4>2. packets[i].end <= Total
          <5>1. Total = packets[Len(packets)].end
            BY <3>1, <1>3, <1>7 DEF EndOf
          <5>2. Len(packets) \in DOMAIN packets /\ i \in DOMAIN packets
            BY <3>1, <1>7
          <5>3. ASSUME i < Len(packets) PROVE packets[i].end < packets[Len(packets)].end
            BY <5>2, <5>3, <1>0, Increasing
          <5>4. CASE i = Len(packets)
            BY <5>1, <5>4, <1>3
          <5>5. CASE i < Len(packets)
            <6>1. packets[i].end < Total
              BY <5>1, <5>3, <5>5
            <6> QED BY <6>1, <3>1, <1>3
          <5>6. i \in 1 .. Len(packets) /\ Len(packets) \in Nat
            BY <3>1, <1>7
          <5>7. i = Len(packets) \/ i < Len(packets)
            BY <5>6
          <5> QED BY <5>4, <5>5, <5>7
        <4>3. packets'[i].end = packets[i].end
          BY <3>1, <1>6
        <4>4. Total < Total + PacketLen(type, n)
          BY <1>3, <1>4
        <4> QED BY <4>1, <4>2, <4>3, <4>4, <3>1, <1>3, <1>4
      <3> QED BY <3>2, <3>3, <1>7
    <2>3. written' <= Total'
      BY <1>1, <1>3, <1>4, <1>11
    <2> QED BY <2>1, <2>2, <2>3, <1>9 DEF Layout
  <1>13. handled \in 0 .. Len(packets)
    BY <1>0, <1>7 DEF Position, TypeOK
  <1>14. /\ EndOf(handled)' = EndOf(handled)
         /\ handled < Len(packets) => /\ EndOf(handled + 1)' = EndOf(handled + 1)
                                      /\ packets'[handled + 1] = packets[handled + 1]
         /\ handled + 1 < Len(packets) => packets'[handled + 2] = packets[handled + 2]
    <2>1. handled \in Nat
      BY <1>13, <1>7
    <2>2. EndOf(handled)' = EndOf(handled)
      BY <1>1, <1>6, <1>7, <1>13 DEF EndOf
    <2>3. handled < Len(packets) => /\ EndOf(handled + 1)' = EndOf(handled + 1)
                                    /\ packets'[handled + 1] = packets[handled + 1]
      <3>1. handled < Len(packets) => handled + 1 \in 1 .. Len(packets) /\ handled + 1 # 0
        BY <1>7, <2>1
      <3>2. handled < Len(packets) => packets'[handled + 1] = packets[handled + 1]
        BY <3>1, <1>6
      <3> QED BY <1>1, <3>1, <3>2 DEF EndOf
    <2>4. handled + 1 < Len(packets) => packets'[handled + 2] = packets[handled + 2]
      <3>1. handled + 1 < Len(packets) => handled + 2 \in 1 .. Len(packets)
        BY <1>7, <2>1
      <3> QED BY <3>1, <1>6
    <2> QED BY <2>2, <2>3, <2>4
  <1>19. Len(packets) < Len(packets')
    BY <1>6, <1>7
  <1>15. Position'
    <2>1. /\ handled' \in Nat /\ handled <= Len(packets) /\ Len(packets) \in Nat
          /\ Len(packets') \in Nat
      BY <1>1, <1>7, <1>9, <1>13
    <2>2. Through(stage)' = Through(stage)
      BY <1>1 DEF Through
    <2> QED BY <1>0, <1>1, <1>14, <1>19, <2>1, <2>2 DEF Position
  <1>16. InStep'
    BY <1>0, <1>1, <1>6, <1>7, <1>13, <1>14 DEF InStep
  <1>17. ExitMeansNextPacket'
    <2>1. handled + 1 < Len(packets) => handled + 1 < Len(packets') /\ handled < Len(packets)
      BY <1>7, <1>9, <1>13, <1>19
    <2> QED BY <1>0, <1>1, <1>14, <2>1 DEF ExitMeansNextPacket
  <1> QED BY <1>8, <1>12, <1>15, <1>16, <1>17 DEF SInv

LEMMA WriteS ==
  ASSUME SInv, Write
  PROVE  SInv'
  <1>0. TypeOK /\ Layout /\ Position /\ InStep /\ ExitMeansNextPacket
    BY DEF SInv
  <1>1. /\ kind' = kind /\ packets' = packets /\ ended' = ended /\ busy' = busy
        /\ stage' = stage /\ start' = start /\ pos' = pos /\ handled' = handled
        /\ written' \in written + 1 .. Total
    BY DEF Write
  <1>2. Total \in Nat /\ Total' = Total
    BY <1>0, <1>1, TotalIsEnd DEF Total
  <1>3. written' \in Nat /\ written' <= Total /\ pos' <= written'
    BY <1>0, <1>1, <1>2 DEF TypeOK
  <1>4. TypeOK'
    BY <1>0, <1>1, <1>3 DEF TypeOK
  <1>5. Layout'
    BY <1>0, <1>1, <1>2, <1>3 DEF Layout, InOrder, EndOf
  <1>6. Position' /\ InStep' /\ ExitMeansNextPacket'
    BY <1>0, <1>1 DEF Position, InStep, ExitMeansNextPacket, Through, EndOf
  <1> QED BY <1>4, <1>5, <1>6 DEF SInv

LEMMA EndS ==
  ASSUME SInv, End
  PROVE  SInv'
  <1>0. TypeOK /\ Layout /\ Position /\ InStep /\ ExitMeansNextPacket
    BY DEF SInv
  <1>1. /\ kind' = kind /\ packets' = packets /\ written' = written /\ busy' = busy
        /\ stage' = stage /\ start' = start /\ pos' = pos /\ handled' = handled
        /\ ended' \in BOOLEAN
    BY DEF End
  <1>4. TypeOK'
    BY <1>0, <1>1 DEF TypeOK
  <1>5. Layout'
    BY <1>0, <1>1 DEF Layout, InOrder, EndOf, Total
  <1>6. Position' /\ InStep' /\ ExitMeansNextPacket'
    BY <1>0, <1>1 DEF Position, InStep, ExitMeansNextPacket, Through, EndOf
  <1> QED BY <1>4, <1>5, <1>6 DEF SInv

-----------------------------------------------------------------------------
(* The reader.                                                             *)

\* No step of the reader touches the stream.
StreamKept == UNCHANGED <<kind, packets, written, ended, busy>>

LEMMA LayoutKept ==
  ASSUME Layout, StreamKept
  PROVE  Layout'
  BY DEF StreamKept, Layout, InOrder, EndOf, Total

LEMMA TypeKept ==
  ASSUME TypeOK, StreamKept, stage' \in Stage, start' \in Nat, pos' \in Nat,
         handled' \in Nat, start' <= pos', pos' <= written
  PROVE  TypeOK'
  BY DEF StreamKept, TypeOK

\* What one recv() brings.
LEMMA Received ==
  ASSUME TypeOK, NEW most \in Nat, Receive(most)
  PROVE  pos' \in Nat /\ pos' > pos /\ pos' <= pos + most /\ pos' <= written
  <1>1. pos + most \in Nat /\ written \in Nat /\ pos \in Nat
    BY DEF TypeOK
  <1>2. Min({pos + most, written}) \in Nat /\ Min({pos + most, written}) <= pos + most
        /\ Min({pos + most, written}) <= written
    BY <1>1, MinOfTwo
  <1> QED BY <1>1, <1>2 DEF Receive

LEMMA ReadS ==
  ASSUME SInv, Read
  PROVE  SInv'
  <1>0. TypeOK /\ Layout /\ Position /\ InStep /\ ExitMeansNextPacket
    BY DEF SInv
  <1>1. /\ StreamKept /\ stage' = stage /\ start' = start /\ handled' = handled
        /\ stage \in Loops /\ Receive(BUFFER_SIZE)
    BY DEF Read, StreamKept
  <1>2. BUFFER_SIZE \in Nat
    BY Sizes
  <1>3. pos' \in Nat /\ pos' > pos /\ pos' <= written
    BY <1>0, <1>1, <1>2, Received
  <1>4. TypeOK'
    BY <1>0, <1>1, <1>3, TypeKept DEF TypeOK
  <1>5. Layout'
    BY <1>0, <1>1, LayoutKept
  <1>6. Position' /\ InStep' /\ ExitMeansNextPacket'
    BY <1>0, <1>1 DEF Position, InStep, ExitMeansNextPacket, Through,
                      EndOf, StreamKept, Loops
  <1> QED BY <1>4, <1>5, <1>6 DEF SInv

\* A handler waits for ever, or a part of it is done: the buffer stays.
LEMMA GoToS ==
  ASSUME SInv, NEW s \in Stage, GoTo(s),
         s \in (Loops \ {"header"}) \cup {"image"} =>
            /\ start = EndOf(handled) /\ handled < Len(packets)
            /\ packets[handled + 1].type \in Through(s),
         s \notin {"select", "header", "netimg", "closed", "serviced", "answered", "shown"},
         s \in {"count", "addresses", "search"} => kind \in ToPeer,
         s \in {"query", "imsg", "pixels"} => kind \in ToImagePort,
         s # "image",
         s = "exited" =>
            /\ kind \in ToPeer /\ handled + 1 < Len(packets) /\ pos > EndOf(handled + 1)
            /\ packets[handled + 2].type = "SEARCH"
  PROVE  SInv'
  <1>0. TypeOK /\ Layout /\ Position /\ InStep /\ ExitMeansNextPacket
    BY DEF SInv
  <1>1. StreamKept /\ stage' = s /\ start' = start /\ handled' = handled /\ pos' = pos
    BY DEF GoTo, StreamKept
  <1>2. EndOf(handled)' = EndOf(handled) /\ EndOf(handled + 1)' = EndOf(handled + 1)
    BY <1>1 DEF EndOf, StreamKept
  <1>4. TypeOK'
    BY <1>0, <1>1, TypeKept DEF TypeOK
  <1>5. Layout'
    BY <1>0, <1>1, LayoutKept
  <1>6. Through(stage)' = Through(s)
    BY <1>1 DEF Through
  <1>7. Position'
    BY <1>0, <1>1, <1>2, <1>6 DEF Position, StreamKept, Loops
  <1>8. InStep'
    BY <1>1 DEF InStep
  <1>9. ExitMeansNextPacket'
    BY <1>1, <1>2 DEF ExitMeansNextPacket, StreamKept
  <1> QED BY <1>4, <1>5, <1>7, <1>8, <1>9 DEF SInv

\* A packet has been dealt with: it was the next one, and the reader is at its
\* end, unless it gives up the connection.
LEMMA HandledS ==
  ASSUME SInv, NEW s \in {"select", "closed", "serviced", "rejected", "dropped"},
         HandledThen(s), handled < Len(packets),
         s \in {"rejected", "dropped"} \/ pos = EndOf(handled + 1),
         s = "select" => kind \in ToPeer
  PROVE  SInv'
  <1>0. TypeOK /\ Layout /\ Position /\ InStep /\ ExitMeansNextPacket
    BY DEF SInv
  <1>1. StreamKept /\ stage' = s /\ start' = start /\ handled' = handled + 1 /\ pos' = pos
    BY DEF HandledThen, StreamKept
  <1>2. EndOf(handled)' = EndOf(handled + 1)
    BY <1>1 DEF EndOf, StreamKept
  <1>3. handled \in Nat /\ handled + 1 \in Nat /\ handled + 1 <= Len(packets)
    BY <1>0, Packets DEF TypeOK
  <1>4. TypeOK'
    <2>1. s \in Stage
      BY DEF Stage, Final
    <2> QED BY <1>0, <1>1, <1>3, <2>1, TypeKept DEF TypeOK
  <1>5. Layout'
    BY <1>0, <1>1, LayoutKept
  <1>7. Position'
    BY <1>0, <1>1, <1>2, <1>3 DEF Position, StreamKept, Loops
  <1>8. InStep'
    BY <1>1, <1>2, <1>3 DEF InStep, StreamKept
  <1>9. ExitMeansNextPacket'
    BY <1>1 DEF ExitMeansNextPacket
  <1> QED BY <1>4, <1>5, <1>7, <1>8, <1>9 DEF SInv

LEMMA HandleP2pTrafficS ==
  ASSUME SInv, HandleP2pTraffic
  PROVE  SInv'
  <1>0. TypeOK /\ Layout /\ Position /\ InStep /\ ExitMeansNextPacket
    BY DEF SInv
  <1>1. /\ StreamKept /\ stage = "select" /\ stage' = "header" /\ start' = pos
        /\ handled' = handled /\ pos' = pos
    BY DEF HandleP2pTraffic, StreamKept
  <1>2. pos = EndOf(handled) /\ EndOf(handled)' = EndOf(handled)
    BY <1>0, <1>1 DEF InStep, EndOf, StreamKept
  <1>3. "header" \in Stage
    BY DEF Stage, Loops
  <1>4. TypeOK'
    BY <1>0, <1>1, <1>3, TypeKept DEF TypeOK
  <1>5. Layout'
    BY <1>0, <1>1, LayoutKept
  <1>7. Position'
    BY <1>0, <1>1, <1>2 DEF Position, StreamKept, Loops, ToPeer, ToImagePort
  <1>8. InStep' /\ ExitMeansNextPacket'
    BY <1>1 DEF InStep, ExitMeansNextPacket
  <1> QED BY <1>4, <1>5, <1>7, <1>8 DEF SInv

\* Once a handler has the header, its packet is the next one in the stream.
LEMMA NextIsThere ==
  ASSUME SInv, stage \in Loops, Got >= HeaderLen
  PROVE  /\ handled \in Nat /\ handled < Len(packets) /\ start = EndOf(handled)
         /\ Current = packets[handled + 1] /\ InOrder(handled + 1)
         /\ Current.type \in Type /\ Current.n \in Nat
         /\ EndOf(handled + 1) = start + PacketLen(Current.type, Current.n)
  <1>0. TypeOK /\ Layout /\ Position
    BY DEF SInv
  <1>1. handled \in Nat /\ start = EndOf(handled) /\ handled \in 0 .. Len(packets)
    BY <1>0, Packets DEF TypeOK, Position
  <1>2. pos > EndOf(handled)
    BY <1>0, <1>1, Sizes DEF TypeOK, Got
  <1>3. handled < Len(packets)
    BY <1>0, <1>1, <1>2, Another
  <1> QED BY <1>0, <1>1, <1>3, CurrentIsNext

\* What a handler has read beyond its packet belongs to the next one, which only
\* a peer sends, and which is a search.
LEMMA BeyondIsSearch ==
  ASSUME SInv, stage \in Loops, Got >= HeaderLen,
         Got > PacketLen(Current.type, Current.n)
  PROVE  /\ kind \in ToPeer /\ handled + 1 < Len(packets) /\ pos > EndOf(handled + 1)
         /\ packets[handled + 2].type = "SEARCH"
  <1>0. TypeOK /\ Layout /\ Position
    BY DEF SInv
  <1>1. /\ handled \in Nat /\ handled < Len(packets) /\ Len(packets) \in Nat
        /\ EndOf(handled + 1) = start + PacketLen(Current.type, Current.n)
        /\ PacketLen(Current.type, Current.n) \in Nat
    BY <1>0, NextIsThere, Packets, Lengths
  <1>2. pos > EndOf(handled + 1)
    BY <1>0, <1>1 DEF Got, TypeOK
  <1>3. handled + 1 < Len(packets)
    <2>1. handled + 1 \in 0 .. Len(packets)
      BY <1>1
    <2> QED BY <1>0, <2>1, <1>2, Another
  <1>4. InOrder(handled + 2)
    <2>1. handled + 2 \in DOMAIN packets
      BY <1>0, <1>1, <1>3, Packets
    <2> QED BY <2>1, <1>0 DEF Layout
  <1>5. kind \in ToPeer /\ packets[handled + 2].type = "SEARCH"
    <2>1. handled + 2 > 1
      BY <1>1
    <2> QED BY <1>4, <2>1 DEF InOrder, ToPeer
  <1> QED BY <1>2, <1>3, <1>5

\* No loop ends before the header is there, and those that are the last of
\* their handler end when the packet is.
LEMMA NeedIs ==
  ASSUME SInv, stage \in Loops, Got >= Need
  PROVE  /\ Got >= HeaderLen /\ Got \in Nat
         /\ stage # "header" => Current.type \in Through(stage)
         /\ stage \in {"addresses", "search", "query", "pixels"}
               \/ (stage = "count" /\ Current.n = 0) =>
                  Need = PacketLen(Current.type, Current.n)
  <1>0. TypeOK /\ Layout /\ Position
    BY DEF SInv
  <1>1. Got \in Nat
    BY <1>0 DEF TypeOK, Got
  <1>2. handled \in Nat /\ Len(packets) \in Nat
    BY <1>0, Packets DEF TypeOK
  <1>3. stage # "header" =>
          /\ handled < Len(packets) /\ start = EndOf(handled)
          /\ packets[handled + 1].type \in Through(stage)
    BY <1>0 DEF Position
  <1>4. stage # "header" => Current = packets[handled + 1] /\ Current.n \in Nat
    BY <1>0, <1>2, <1>3, CurrentIsNext
  <1>5. stage # "header" => Current.n * AddrLen \in Nat
    BY <1>4, Sizes
  <1>6. Got >= HeaderLen
    BY <1>1, <1>4, <1>5, Sizes DEF Need, Loops
  <1>7. stage # "header" => Current.type \in Through(stage)
    BY <1>3, <1>4
  <1>8. stage \in {"addresses", "search", "query", "pixels"} =>
          Need = PacketLen(Current.type, Current.n)
    BY <1>7 DEF Need, PacketLen, Through
  <1>9. stage = "count" /\ Current.n = 0 => Need = PacketLen(Current.type, Current.n)
    <2>1. 0 * AddrLen = 0 /\ PeeringLen + 0 = PeeringLen
      BY Sizes
    <2> QED BY <2>1, <1>7 DEF Need, PacketLen, Through
  <1> QED BY <1>1, <1>6, <1>7, <1>8, <1>9

\* Exactly the packet has been read.
LEMMA ExactlyRead ==
  ASSUME SInv, stage \in Loops, Got >= HeaderLen,
         Got = PacketLen(Current.type, Current.n)
  PROVE  handled < Len(packets) /\ pos = EndOf(handled + 1)
  <1>1. TypeOK
    BY DEF SInv
  <1>2. handled < Len(packets) /\ EndOf(handled + 1) = start + PacketLen(Current.type, Current.n)
    BY NextIsThere
  <1>3. pos \in Nat /\ start \in Nat
    BY <1>1 DEF TypeOK
  <1> QED BY <1>2, <1>3 DEF Got

LEMMA ExitS ==
  ASSUME SInv, stage \in Loops, Got >= HeaderLen,
         Got > PacketLen(Current.type, Current.n), GoTo("exited")
  PROVE  SInv'
  <1>1. /\ kind \in ToPeer /\ handled + 1 < Len(packets) /\ pos > EndOf(handled + 1)
        /\ packets[handled + 2].type = "SEARCH"
    BY BeyondIsSearch
  <1>2. "exited" \in Stage /\ "exited" \notin Loops
    BY DEF Stage, Final, Loops
  <1> QED BY <1>1, <1>2, GoToS

LEMMA ReadNothingS ==
  ASSUME SInv, ReadNothing
  PROVE  SInv'
  <1>1. GoTo("spinning")
    BY DEF ReadNothing, GoTo
  <1>2. "spinning" \in Stage /\ "spinning" \notin Loops
    BY DEF Stage, Final, Loops
  <1> QED BY <1>1, <1>2, GoToS

LEMMA HandlePeerHeaderS ==
  ASSUME SInv, HandlePeerHeader
  PROVE  SInv'
  <1>1. /\ kind \in ToPeer /\ stage = "header" /\ Got >= Need
        /\ GoTo(IF Current.type = "SEARCH" THEN "search" ELSE "count")
    BY DEF HandlePeerHeader
  <1>2. stage \in Loops
    BY <1>1 DEF Loops
  <1>3. Got >= HeaderLen
    BY <1>1, <1>2, NeedIs
  <1>4. /\ handled < Len(packets) /\ start = EndOf(handled)
        /\ Current = packets[handled + 1] /\ InOrder(handled + 1)
    BY <1>2, <1>3, NextIsThere
  <1>5. Current.type \in {"WELCOME", "REDIRECT", "SEARCH"}
    BY <1>1, <1>4 DEF InOrder, ToPeer
  <1>6. {"search", "count"} \subseteq Stage
    BY DEF Stage, Loops
  <1>7. CASE Current.type = "SEARCH"
    <2>1. packets[handled + 1].type \in Through("search") /\ GoTo("search")
      BY <1>1, <1>4, <1>7 DEF Through
    <2> QED BY <2>1, <1>1, <1>4, <1>6, GoToS
  <1>8. CASE Current.type # "SEARCH"
    <2>1. packets[handled + 1].type \in Through("count") /\ GoTo("count")
      BY <1>1, <1>4, <1>5, <1>8 DEF Through
    <2> QED BY <2>1, <1>1, <1>4, <1>6, GoToS
  <1> QED BY <1>7, <1>8

LEMMA HandleCountS ==
  ASSUME SInv, HandleCount
  PROVE  SInv'
  <1>1. stage = "count" /\ Got >= Need
    BY DEF HandleCount
  <1>2. stage \in Loops
    BY <1>1 DEF Loops
  <1>3. Got >= HeaderLen /\ Current.type \in Through("count") /\ Got \in Nat
    BY <1>1, <1>2, NeedIs
  <1>4. /\ handled < Len(packets) /\ start = EndOf(handled)
        /\ Current = packets[handled + 1]
    BY <1>2, <1>3, NextIsThere
  <1>5. kind \in ToPeer
    BY <1>1 DEF SInv, Position
  <1>6. CASE GoTo("addresses")
    <2>1. packets[handled + 1].type \in Through("addresses")
      BY <1>3, <1>4 DEF Through
    <2>2. "addresses" \in Stage
      BY DEF Stage, Loops
    <2> QED BY <1>4, <1>5, <1>6, <2>1, <2>2, GoToS
  <1>7. CASE Current.n = 0 /\ Got > Need /\ GoTo("exited")
    <2>1. Got > PacketLen(Current.type, Current.n)
      BY <1>1, <1>2, <1>7, NeedIs
    <2> QED BY <2>1, <1>2, <1>3, <1>7, ExitS
  <1>8. CASE Current.n = 0 /\ Got = Need /\ HandledThen(AfterResponse)
    <2>1. Got = PacketLen(Current.type, Current.n)
      BY <1>1, <1>2, <1>8, NeedIs
    <2>2. pos = EndOf(handled + 1)
      BY <2>1, <1>2, <1>3, ExactlyRead
    <2>3. AfterResponse \in {"closed", "select"}
      BY DEF AfterResponse
    <2> QED BY <1>4, <1>5, <1>8, <2>2, <2>3, HandledS
  <1> QED BY <1>6, <1>7, <1>8 DEF HandleCount

\* The check of the message length at the end of a handler.
LEMMA CheckedS ==
  ASSUME SInv, stage \in {"addresses", "search", "query", "pixels"}, Got >= Need,
         NEW s \in {"select", "closed", "serviced"}, s = "select" => kind \in ToPeer,
         (Got # Need /\ GoTo("exited")) \/ (Got = Need /\ HandledThen(s))
  PROVE  SInv'
  <1>1. stage \in Loops
    BY DEF Loops
  <1>2. Got >= HeaderLen /\ Got \in Nat /\ Need = PacketLen(Current.type, Current.n)
    BY <1>1, NeedIs
  <1>3. CASE Got # Need /\ GoTo("exited")
    <2>1. PacketLen(Current.type, Current.n) \in Nat
      BY <1>1, <1>2, NextIsThere, Lengths
    <2>2. Got > PacketLen(Current.type, Current.n)
      BY <1>2, <1>3, <2>1
    <2> QED BY <2>2, <1>1, <1>2, <1>3, ExitS
  <1>4. CASE Got = Need /\ HandledThen(s)
    <2>1. handled < Len(packets) /\ pos = EndOf(handled + 1)
      BY <1>1, <1>2, <1>4, ExactlyRead
    <2> QED BY <2>1, <1>4, HandledS
  <1> QED BY <1>3, <1>4

LEMMA HandleAddressesS ==
  ASSUME SInv, HandleAddresses
  PROVE  SInv'
  <1>1. stage = "addresses" /\ Got >= Need
    BY DEF HandleAddresses
  <1>2. kind \in ToPeer
    BY <1>1 DEF SInv, Position
  <1>3. AfterResponse \in {"select", "closed"}
    BY DEF AfterResponse
  <1>4. (Got # Need /\ GoTo("exited")) \/ (Got = Need /\ HandledThen(AfterResponse))
    BY DEF HandleAddresses
  <1> QED BY <1>1, <1>2, <1>3, <1>4, CheckedS

LEMMA HandleSearchS ==
  ASSUME SInv, HandleSearch
  PROVE  SInv'
  <1>1. stage = "search" /\ Got >= Need
    BY DEF HandleSearch
  <1>2. kind \in ToPeer
    BY <1>1 DEF SInv, Position
  <1>3. (Got # Need /\ GoTo("exited")) \/ (Got = Need /\ HandledThen("select"))
    BY DEF HandleSearch
  <1> QED BY <1>1, <1>2, <1>3, CheckedS

LEMMA HandleQueryS ==
  ASSUME SInv, HandleQuery
  PROVE  SInv'
  <1>1. stage = "query" /\ Got >= Need
    BY DEF HandleQuery
  <1>2. (Got # Need /\ GoTo("exited")) \/ (Got = Need /\ HandledThen("serviced"))
    BY DEF HandleQuery
  <1> QED BY <1>1, <1>2, CheckedS

LEMMA HandlePixelsS ==
  ASSUME SInv, HandlePixels
  PROVE  SInv'
  <1>1. stage = "pixels" /\ Got >= Need
    BY DEF HandlePixels
  <1>2. (Got # Need /\ GoTo("exited")) \/ (Got = Need /\ HandledThen("closed"))
    BY DEF HandlePixels
  <1> QED BY <1>1, <1>2, CheckedS

LEMMA HandleImsgS ==
  ASSUME SInv, HandleImsg
  PROVE  SInv'
  <1>1. stage = "imsg" /\ Got >= Need /\ GoTo("pixels")
    BY DEF HandleImsg
  <1>2. stage \in Loops
    BY <1>1 DEF Loops
  <1>3. Got >= HeaderLen /\ Current.type \in Through("imsg")
    BY <1>1, <1>2, NeedIs
  <1>4. handled < Len(packets) /\ start = EndOf(handled) /\ Current = packets[handled + 1]
    BY <1>2, <1>3, NextIsThere
  <1>5. kind \in ToImagePort
    BY <1>1 DEF SInv, Position
  <1>6. packets[handled + 1].type \in Through("pixels")
    BY <1>3, <1>4 DEF Through
  <1>7. "pixels" \in Stage
    BY DEF Stage, Loops
  <1> QED BY <1>1, <1>4, <1>5, <1>6, <1>7, GoToS

LEMMA HandleImageHeaderS ==
  ASSUME SInv, HandleImageHeader
  PROVE  SInv'
  <1>1. kind \in ToImagePort /\ stage = "header" /\ Got >= Need
    BY DEF HandleImageHeader
  <1>2. stage \in Loops
    BY <1>1 DEF Loops
  <1>3. Got >= HeaderLen
    BY <1>1, <1>2, NeedIs
  <1>4. handled < Len(packets) /\ start = EndOf(handled) /\ Current = packets[handled + 1]
    BY <1>2, <1>3, NextIsThere
  <1>5. {"query", "imsg"} \subseteq Stage
    BY DEF Stage, Loops
  <1>6. CASE HandledThen("rejected") \/ HandledThen("dropped")
    BY <1>4, <1>6, HandledS
  <1>7. CASE Current.type = "QUERY" /\ GoTo("query")
    <2>1. packets[handled + 1].type \in Through("query")
      BY <1>4, <1>7 DEF Through
    <2> QED BY <2>1, <1>1, <1>4, <1>5, <1>7, GoToS
  <1>8. CASE Current.type = "IMAGE" /\ GoTo("imsg")
    <2>1. packets[handled + 1].type \in Through("imsg")
      BY <1>4, <1>8 DEF Through
    <2> QED BY <2>1, <1>1, <1>4, <1>5, <1>8, GoToS
  <1> QED BY <1>6, <1>7, <1>8 DEF HandleImageHeader

-----------------------------------------------------------------------------
(* netimg.                                                                 *)

LEMMA ReceiveNoImsgS ==
  ASSUME SInv, ReceiveNoImsg
  PROVE  SInv'
  <1>1. stage = "netimg" /\ GoTo("esize")
    BY DEF ReceiveNoImsg
  <1>2. "esize" \in Stage /\ "esize" \notin Loops
    BY DEF Stage, Final, Loops
  <1> QED BY <1>1, <1>2, GoToS

\* The only packet of a connection to netimg, once some of it has come.
LEMMA ReplyIsThere ==
  ASSUME SInv, stage \in {"netimg", "image"}, NEW p \in Nat, p > 0, p <= written
  PROVE  /\ start = 0 /\ handled = 0 /\ 0 < Len(packets) /\ kind = "reply"
         /\ Current = packets[1] /\ Current.type \in {"IMAGE", "REFUSAL"} /\ Current.n \in Nat
         /\ EndOf(1) = PacketLen(Current.type, Current.n) /\ Current.end = EndOf(1)
  <1>0. TypeOK /\ Layout /\ Position
    BY DEF SInv
  <1>1. kind = "reply" /\ handled = 0 /\ start = EndOf(handled)
    BY <1>0 DEF Position
  <1>2. start = 0 /\ EndOf(0) = 0
    BY <1>1 DEF EndOf
  <1>3. Len(packets) # 0
    BY <1>0, Packets DEF Layout, Total, TypeOK
  <1>4. 0 < Len(packets)
    BY <1>0, <1>3, Packets
  <1>5. /\ Current = packets[0 + 1] /\ Current.n \in Nat /\ InOrder(0 + 1)
        /\ EndOf(0 + 1) = start + PacketLen(Current.type, Current.n)
        /\ Current.type \in Type
    BY <1>0, <1>2, <1>4, CurrentIsNext
  <1>6. PacketLen(Current.type, Current.n) \in Nat
    BY <1>5, Lengths
  <1> QED BY <1>1, <1>2, <1>4, <1>5, <1>6 DEF InOrder, EndOf

LEMMA ReceiveImsgS ==
  ASSUME SInv, ReceiveImsg
  PROVE  SInv'
  <1>0. TypeOK /\ Layout /\ Position
    BY DEF SInv
  <1>1. /\ stage = "netimg" /\ Receive(ImsgLen) /\ StreamKept /\ start' = start
        /\ \/ pos' < ImsgLen /\ stage' = "esize" /\ handled' = handled
           \/ /\ pos' = ImsgLen /\ Current.type = "REFUSAL"
              /\ stage' = "answered" /\ handled' = handled + 1
           \/ /\ pos' = ImsgLen /\ Current.type = "IMAGE"
              /\ stage' = "image" /\ handled' = handled
    BY DEF ReceiveImsg, StreamKept
  <1>2. ImsgLen \in Nat /\ pos = 0
    BY <1>0, <1>1, Sizes DEF Position
  <1>3. pos' \in Nat /\ pos' > 0 /\ pos' <= written
    BY <1>0, <1>1, <1>2, Received
  <1>4. /\ start = 0 /\ handled = 0 /\ 0 < Len(packets) /\ Current = packets[1]
        /\ EndOf(1) = PacketLen(Current.type, Current.n) /\ kind = "reply"
    BY <1>1, <1>3, ReplyIsThere
  <1>5. stage' \in {"esize", "answered", "image"} /\ handled' \in {0, 1}
    BY <1>1, <1>4
  <1>6. TypeOK'
    <2>1. {"esize", "answered", "image"} \subseteq Stage
      BY DEF Stage, Final
    <2>2. start' \in Nat /\ handled' \in Nat /\ start' <= pos'
      BY <1>1, <1>3, <1>4, <1>5
    <2> QED BY <1>0, <1>1, <1>3, <1>5, <2>1, <2>2, TypeKept
  <1>7. Layout'
    BY <1>0, <1>1, LayoutKept
  <1>8. EndOf(handled)' = IF handled' = 0 THEN 0 ELSE EndOf(1)
    BY <1>1, <1>5 DEF EndOf, StreamKept
  <1>9. Position'
    <2>1. handled' <= Len(packets)
      BY <1>0, <1>4, <1>5, Packets
    <2>2. stage' = "image" =>
            start' = EndOf(handled)' /\ handled' = 0 /\ packets[1].type \in Through("image")
      BY <1>1, <1>4, <1>8 DEF Through
    <2> QED BY <1>1, <1>4, <1>5, <2>1, <2>2 DEF Position, StreamKept, Loops
  <1>10. stage' = "answered" => pos' = EndOf(handled)' /\ handled' <= Len(packets)
    BY <1>0, <1>1, <1>4, <1>8, Packets DEF PacketLen
  <1>11. InStep' /\ ExitMeansNextPacket'
    BY <1>1, <1>5, <1>10 DEF InStep, ExitMeansNextPacket, StreamKept
  <1> QED BY <1>6, <1>7, <1>9, <1>11 DEF SInv

LEMMA ReceiveImageS ==
  ASSUME SInv, ReceiveImage
  PROVE  SInv'
  <1>0. TypeOK /\ Layout /\ Position
    BY DEF SInv
  <1>1. /\ stage = "image" /\ Receive(ImsgLen + Current.n - pos) /\ StreamKept
        /\ start' = start
        /\ \/ pos' < Current.end /\ stage' = "image" /\ handled' = handled
           \/ pos' = Current.end /\ stage' = "shown" /\ handled' = handled + 1
    BY DEF ReceiveImage, StreamKept
  <1>2. pos' \in Nat /\ pos' > 0 /\ pos' <= written
    <2>1. handled < Len(packets) /\ handled = 0 /\ start = EndOf(handled)
      BY <1>0, <1>1 DEF Position
    <2>2. Current.n \in Nat
      BY <1>0, <2>1, CurrentIsNext
    <2>3. ImsgLen + Current.n - pos \in Int /\ pos \in Nat /\ written \in Nat
      BY <1>0, <2>2, Sizes DEF TypeOK
    <2>4. pos' \in pos + 1 .. Min({pos + (ImsgLen + Current.n - pos), written})
      BY <1>1 DEF Receive
    <2>5. pos + (ImsgLen + Current.n - pos) \in Nat
      BY <2>2, <2>3, Sizes
    <2>6. /\ Min({pos + (ImsgLen + Current.n - pos), written}) <= written
          /\ Min({pos + (ImsgLen + Current.n - pos), written}) \in Nat
      BY <2>3, <2>5, MinOfTwo
    <2> HIDE <1>1
    <2> QED BY <2>3, <2>4, <2>6
  <1>4. /\ start = 0 /\ handled = 0 /\ 0 < Len(packets) /\ Current = packets[1]
        /\ Current.end = EndOf(1) /\ kind = "reply"
    BY <1>1, <1>2, ReplyIsThere
  <1>5. stage' \in {"shown", "image"} /\ handled' \in {0, 1}
    BY <1>1, <1>4
  <1>6. TypeOK'
    <2>1. {"shown", "image"} \subseteq Stage
      BY DEF Stage, Final
    <2>2. start' \in Nat /\ handled' \in Nat /\ start' <= pos'
      BY <1>1, <1>2, <1>4, <1>5
    <2> QED BY <1>0, <1>1, <1>2, <1>5, <2>1, <2>2, TypeKept
  <1>7. Layout'
    BY <1>0, <1>1, LayoutKept
  <1>8. EndOf(handled)' = IF handled' = 0 THEN 0 ELSE EndOf(1)
    BY <1>1, <1>5 DEF EndOf, StreamKept
  <1>9. Position'
    <2>1. handled' <= Len(packets)
      BY <1>0, <1>4, <1>5, Packets
    <2>2. packets[1].type \in Through("image")
      BY <1>0, <1>1, <1>4 DEF Position
    <2>3. stage' = "image" => start' = EndOf(handled)' /\ handled' = 0
      BY <1>1, <1>4, <1>8
    <2> QED BY <1>1, <1>4, <1>5, <2>1, <2>2, <2>3 DEF Position, StreamKept, Loops
  <1>10. stage' = "shown" => pos' = EndOf(handled)' /\ handled' <= Len(packets)
    BY <1>0, <1>1, <1>4, <1>8, Packets
  <1>11. InStep' /\ ExitMeansNextPacket'
    BY <1>1, <1>5, <1>10 DEF InStep, ExitMeansNextPacket, StreamKept
  <1> QED BY <1>6, <1>7, <1>9, <1>11 DEF SInv

-----------------------------------------------------------------------------
(* Every step.                                                             *)

LEMMA NextS ==
  ASSUME SInv, [Next]_vars
  PROVE  SInv'
  <1>1. CASE Writer
    BY <1>1, BeginS, WriteS, EndS DEF Writer
  <1>2. CASE Reader
    BY <1>2, ReadS, ReadNothingS, HandleP2pTrafficS, HandlePeerHeaderS, HandleCountS,
       HandleAddressesS, HandleSearchS, HandleImageHeaderS, HandleQueryS, HandleImsgS,
       HandlePixelsS, ReceiveImsgS, ReceiveNoImsgS, ReceiveImageS DEF Reader
  <1>3. CASE UNCHANGED vars
    <2>1. /\ kind' = kind /\ packets' = packets /\ written' = written /\ ended' = ended
          /\ busy' = busy /\ stage' = stage /\ start' = start /\ pos' = pos
          /\ handled' = handled
      BY <1>3 DEF vars
    <2>2. TypeOK'
      BY <2>1 DEF SInv, TypeOK
    <2>3. Layout'
      BY <2>1, LayoutKept DEF SInv, StreamKept
    <2>4. Position'
      BY <2>1 DEF SInv, Position, EndOf, Through
    <2>5. InStep' /\ ExitMeansNextPacket'
      BY <2>1 DEF SInv, InStep, ExitMeansNextPacket, EndOf
    <2> QED BY <2>2, <2>3, <2>4, <2>5 DEF SInv
  <1> QED BY <1>1, <1>2, <1>3 DEF Next

\* The inductive invariant: every packet lies where the ones before it end, and
\* a handler's buffer begins where the last packet that was dealt with ends.
THEOREM SInvHolds == Spec => []SInv
  <1>1. Init => SInv
    BY InitS
  <1>2. SInv /\ [Next]_vars => SInv'
    BY NextS
  <1> QED BY <1>1, <1>2, PTL DEF Spec

\* The variables of a connection keep their types: in particular the reader never
\* has more bytes than have been written (Connection::read(), Connection.cpp).
THEOREM TypeHolds == Spec => []TypeOK
  <1>1. SInv => TypeOK
    BY DEF SInv
  <1> QED BY <1>1, SInvHolds, PTL

\* Whenever a reader has finished with a packet, it has taken exactly that packet
\* and those before it from the stream (the length checks of main.cpp).
THEOREM InStepHolds == Spec => []InStep
  <1>1. SInv => InStep
    BY DEF SInv
  <1> QED BY <1>1, SInvHolds, PTL

\* exit(1) for a message of the wrong length only ever means that the peer's next
\* packet, a search, was in the buffer already.
THEOREM ExitMeansNextPacketHolds == Spec => []ExitMeansNextPacket
  <1>1. SInv => ExitMeansNextPacket
    BY DEF SInv
  <1> QED BY <1>1, SInvHolds, PTL
=============================================================================
