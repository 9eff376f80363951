-------------------------------- MODULE Tga --------------------------------
(***************************************************************************)
(* How a node looks for an image among its own files (imgdb.cpp, ltga.cpp):*)
(* LTGA::LoadFromFile() reads the file once per request, decodes it and    *)
(* swaps the colours, and imgdb_loadimg() describes it to the client.  The *)
(* flag TGAReadError is global: it outlives the request that sets it.      *)
(*                                                                         *)
(* A file is its header fields, its packets and the number of its items    *)
(* that are there, so that it may have been cut short anywhere; an item is *)
(* what one read takes: a header field, the first byte of a packet, or a   *)
(* pixel.  A file that is not run-length encoded has one packet without a  *)
(* first byte.  A packet knows where it is: the pixels and the items before*)
(* it.  Packets hold as many pixels together as the header says, and there *)
(* is one pixel at least.  A name without a file only says "not found"     *)
(* (ltga.cpp:111) and leaves all of this as it is.                         *)
(***************************************************************************)
EXTENDS Naturals, Sequences

CONSTANTS Image,      \* the files that may be asked for
          MaxLoads    \* bound: requests to one process

\* A run is one pixel repeated n times; any other packet holds n pixels.
Expand(p) == IF p.run THEN [i \in 1 .. p.n |-> p.px[1]] ELSE p.px

Area(f) == f.width * f.height

IsRle(f) == f.type \in {10, 11}
IsTruecolor(f) == f.type \in {2, 10}

Fields == 7     \* ID length, colour map, type, width, height, depth, descriptor

PixelsIn(f, i) == f.body[i].n
ItemsIn(f, i) == Len(f.body[i].px) + IF IsRle(f) THEN 1 ELSE 0

\* Pixels and items before packet i, the end of the file counted as a packet.
First(f, i) == IF i <= Len(f.body) THEN f.body[i].first ELSE Area(f)
Offset(f, i) ==
    IF i <= Len(f.body) THEN f.body[i].at
    ELSE f.body[Len(f.body)].at + ItemsIn(f, Len(f.body))

Types == {2, 3, 10, 11}
Depths == {8, 16, 24, 32}
Alphas == {0, 8}

Supported(f) ==
    f.colourMap # 1 /\ f.type \in Types /\ f.depth \in Depths /\ f.alpha \in Alphas

\* The last packet is one pixel, which the loop does not come to.
SkipsLast(f) ==
    /\ IsRle(f)
    /\ PixelsIn(f, Len(f.body)) = 1

\* The items that are asked for before the file is given up or loaded.
Wanted(f) ==
    IF f.colourMap = 1 THEN 2
    ELSE IF f.type \notin Types THEN 3
    ELSE IF f.depth \notin Depths THEN 6
    ELSE IF f.alpha \notin Alphas THEN Fields
    ELSE Offset(f, IF SkipsLast(f) THEN Len(f.body) ELSE Len(f.body) + 1)

Short(f) == f.items < Wanted(f)

Packet == [run : BOOLEAN, n : Nat \ {0}, px : Seq(Seq(0 .. 255)), first : Nat, at : Nat]

ASSUME ImageAssumption ==
    /\ Image \subseteq [colourMap : Nat, type : Nat, depth : Nat, alpha : Nat,
                        width : Nat \ {0}, height : Nat \ {0},
                        body : Seq(Packet) \ {<<>>}, items : Nat]
    /\ \A f \in Image :
          /\ f.body[1].first = 0 /\ f.body[1].at = Fields
          /\ ~IsRle(f) => Len(f.body) = 1 /\ ~f.body[1].run
          /\ \A i \in DOMAIN f.body :
                /\ Len(f.body[i].px) = IF f.body[i].run THEN 1 ELSE PixelsIn(f, i)
                /\ First(f, i + 1) = First(f, i) + PixelsIn(f, i)
                /\ Offset(f, i + 1) = Offset(f, i) + ItemsIn(f, i)
ASSUME MaxLoadsAssumption == MaxLoads \in Nat

VARIABLES
    readError,  \* TGAReadError
    stage,      \* where LoadFromFile() is
    file,       \* the file being loaded
    next,       \* the packet to be read
    current,    \* CurrentPixel
    pixels,     \* m_pixels
    imsg,       \* what imgdb_loadimg() says of the last file
    loads,      \* requests so far
    wasShort    \* history: did an earlier request read past the end of its file?

vars == <<readError, stage, file, next, current, pixels, imsg, loads, wasShort>>

Unset == <<>>      \* a pixel that nobody has written
NotFound == [found |-> FALSE, depth |-> 0, format |-> "none"]
Formats == {"LUMINANCE", "LUMINANCE_ALPHA", "RGB", "RGBA"}

TypeOK ==
    /\ readError \in BOOLEAN
    /\ stage \in {"idle", "header", "data", "end"}
    /\ file \in Image
    /\ next \in 1 .. Len(file.body) + 1
    /\ current \in Nat
    /\ DOMAIN pixels \in {{}, 1 .. Area(file)}
    /\ imsg.found => imsg.depth \in {1, 2, 3, 4} /\ imsg.format \in Formats
    /\ loads \in 0 .. MaxLoads
    /\ wasShort \in BOOLEAN

Init ==
    /\ readError = FALSE
    /\ stage = "idle"
    /\ file \in Image
    /\ next = 1 /\ current = 0 /\ pixels = <<>>
    /\ imsg = NotFound
    /\ loads = 0
    /\ wasShort = FALSE

-----------------------------------------------------------------------------
(* imgdb_loadimg() and the header.                                         *)

LoadFromFile(f) ==
    /\ stage = "idle" /\ loads < MaxLoads
    /\ stage' = "header"
    /\ file' = f
    /\ next' = 1 /\ current' = 0 /\ pixels' = <<>>
    /\ imsg' = NotFound
    /\ loads' = loads + 1
    /\ wasShort' = (wasShort \/ (loads > 0 /\ Short(file)))
    /\ UNCHANGED readError

\* LoadFromFile() returns false: imgdb_loadimg() says NETIMG_NFOUND.
GiveUp ==
    /\ stage' = "idle"
    /\ pixels' = <<>>
    /\ UNCHANGED <<file, next, current, imsg, loads, wasShort>>

\* The fields are read one by one up to the first that is not accepted.  A field
\* that is not there leaves what is in memory: any byte in a local variable, 0 in
\* a member.
Holds(i, value) == file.items >= i => value

ReadUpTo(i) == readError' = (readError \/ file.items < i)

ReadHeader ==
    /\ stage = "header"
    /\ \/ Holds(2, file.colourMap = 1) /\ ReadUpTo(2) /\ GiveUp
       \/ /\ Holds(2, file.colourMap # 1) /\ Holds(3, file.type \notin Types)
          /\ ReadUpTo(3) /\ GiveUp
       \/ /\ Holds(2, file.colourMap # 1) /\ Holds(3, file.type \in Types)
          /\ \/ /\ file.items < 6 \/ file.depth \notin Depths
                /\ ReadUpTo(6) /\ GiveUp
             \/ /\ file.items >= 6 /\ file.depth \in Depths
                /\ Holds(7, file.alpha \notin Alphas)
                /\ ReadUpTo(7) /\ GiveUp
             \/ /\ file.items >= 6 /\ file.depth \in Depths
                /\ Holds(7, file.alpha \in Alphas)
                /\ ReadUpTo(7)
                /\ stage' = "data"
                /\ pixels' = [i \in 1 .. Area(file) |-> Unset]
                /\ UNCHANGED <<file, next, current, imsg, loads, wasShort>>

-----------------------------------------------------------------------------
(* The pixels.                                                             *)

\* The packet is there as a whole.
Present == file.items >= Offset(file, next + 1)

ReadRaw ==
    /\ stage = "data" /\ ~IsRle(file)
    /\ pixels' = IF Present THEN file.body[1].px ELSE pixels
    /\ readError' = (readError \/ ~Present)
    /\ stage' = "end"
    /\ UNCHANGED <<file, next, current, imsg, loads, wasShort>>

\* Mutant: the last pixel is asked for as well.
BugMoreToRead == current < Area(file)

\* The loop "while (CurrentPixel < m_width*m_height - 1)".
MoreToRead == current < Area(file) - 1

Put(i, p) == IF i \in current + 1 .. current + p.n THEN Expand(p)[i - current] ELSE pixels[i]

ReadPacket ==
    /\ stage = "data" /\ IsRle(file) /\ MoreToRead
    /\ next <= Len(file.body) /\ Present
    /\ LET p == file.body[next]
       IN /\ pixels' = [i \in DOMAIN pixels |-> Put(i, p)]
          /\ current' = current + p.n
    /\ next' = next + 1
    /\ UNCHANGED <<readError, stage, file, imsg, loads, wasShort>>

\* Nothing, or not all, is there: the loop goes on with whatever count was read
\* last, or past the end of the buffer, which counts as its end.  What it writes
\* does not matter any more.
ReadShortPacket ==
    /\ stage = "data" /\ IsRle(file) /\ MoreToRead
    /\ ~Present
    /\ readError' = TRUE
    /\ current' \in current + 1 .. Area(file)
    /\ UNCHANGED <<stage, file, next, pixels, imsg, loads, wasShort>>

LastPacketRead ==
    /\ stage = "data" /\ IsRle(file) /\ ~MoreToRead
    /\ stage' = "end"
    /\ UNCHANGED <<readError, file, next, current, pixels, imsg, loads, wasShort>>

-----------------------------------------------------------------------------
(* The end of LoadFromFile() and of imgdb_loadimg().                       *)

\* BGR(A) to RGB(A).
SwapRB(p) == IF Len(p) >= 3 THEN [p EXCEPT ![1] = p[3], ![3] = p[1]] ELSE p

\* Mutants: the format follows the depth; the depth is in bits.
BugFormatOf(f) ==
    CASE f.depth = 32 -> "RGBA" [] f.depth = 24 -> "RGB"
      [] f.depth = 16 -> "LUMINANCE_ALPHA" [] f.depth = 8 -> "LUMINANCE"
BugDescribe(f) == [found |-> TRUE, depth |-> f.depth, format |-> "RGB"]

\* im_format.
FormatOf(f) ==
    CASE IsTruecolor(f) /\ f.alpha = 0 -> "RGB"
      [] IsTruecolor(f) /\ f.alpha = 8 -> "RGBA"
      [] ~IsTruecolor(f) /\ f.alpha = 0 -> "LUMINANCE"
      [] ~IsTruecolor(f) /\ f.alpha = 8 -> "LUMINANCE_ALPHA"

Describe(f) == [found |-> TRUE, depth |-> f.depth \div 8, format |-> FormatOf(f)]

\* Mutant: the flag is reset by the load that meets it.
BugCleared ==
    /\ stage = "end" /\ readError
    /\ readError' = FALSE
    /\ GiveUp

\* TGAReadError is set: Clear(), and not found.
Cleared ==
    /\ stage = "end" /\ readError
    /\ UNCHANGED readError
    /\ GiveUp

Loaded ==
    /\ stage = "end" /\ ~readError
    /\ stage' = "idle"
    /\ pixels' = IF IsTruecolor(file) THEN [i \in DOMAIN pixels |-> SwapRB(pixels[i])]
                 ELSE pixels
    /\ imsg' = Describe(file)
    /\ UNCHANGED <<readError, file, next, current, loads, wasShort>>

-----------------------------------------------------------------------------
Next ==
    \/ \E f \in Image : LoadFromFile(f)
    \/ ReadHeader
    \/ ReadRaw \/ ReadPacket \/ ReadShortPacket \/ LastPacketRead
    \/ Cleared \/ Loaded

Spec == Init /\ [][Next]_vars

-----------------------------------------------------------------------------
(* Properties.                                                             *)

\* Every pixel is that of the file, with red and blue swapped in colour images;
\* except that a run-length encoded image that ends in a packet of one pixel has
\* its last pixel undefined (ltga.cpp:189).
PixelsAsFile ==
    imsg.found =>
        \A j \in DOMAIN file.body : \A k \in 1 .. PixelsIn(file, j) :
            pixels[First(file, j) + k] =
                IF SkipsLast(file) /\ j = Len(file.body) THEN Unset
                ELSE IF IsTruecolor(file) THEN SwapRB(Expand(file.body[j])[k])
                ELSE Expand(file.body[j])[k]

\* A file is found if and only if its kind is supported, all that is read of it
\* is there, and no file before it was short: the first short one makes every
\* image of the node disappear (ltga.cpp:35, imgdb.cpp:55).
FoundIfReadable ==
    stage = "idle" /\ loads > 0 =>
        (imsg.found <=> Supported(file) /\ ~Short(file) /\ ~wasShort)

Components(format) ==
    CASE format = "LUMINANCE" -> 1 [] format = "LUMINANCE_ALPHA" -> 2
      [] format = "RGB" -> 3 [] format = "RGBA" -> 4

\* The alpha bits of the descriptor account for the bytes of a pixel.
WellDescribed(f) ==
    f.depth = (IF IsTruecolor(f) THEN 24 ELSE 8) + f.alpha

\* netimg draws as many bytes a pixel as the format has components, and gets as
\* many as the depth says: the two agree for well described files only.
DrawnAsSent ==
    imsg.found => (Components(imsg.format) = imsg.depth <=> WellDescribed(file))
=============================================================================
