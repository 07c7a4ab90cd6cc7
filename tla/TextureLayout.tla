---------------------------- MODULE TextureLayout ----------------------------
(***************************************************************************)
(* Where the texels of an RGBA8 texture and of its mips lie in GPU memory  *)
(* (texture_layout.cpp).  Storage is in blocks of 64 KiB, 128 by 128       *)
(* texels; an offset is a block and the set of the bits that are one in    *)
(* the byte offset within it.  A shape is <<width, height, mips>>.         *)
(***************************************************************************)
EXTENDS Integers, FiniteSets

Larger(a, b) == IF a > b THEN a ELSE b

Levels(s) == 0..(s[3] - 1)

MaxMips(s) == CHOOSE k \in 1..15 : 2 ^ (k - 1) <= Larger(s[1], s[2]) /\ Larger(s[1], s[2]) < 2 ^ k

MaxSide == 16384

ValidShape(s) == s[1] \in 1..MaxSide /\ s[2] \in 1..MaxSide /\ s[3] \in 1..15 /\ s[3] <= MaxMips(s)

\* The extent a mip shows, and the one it is stored with.
Width(s, m) == Larger(1, s[1] \div 2 ^ m)
Height(s, m) == Larger(1, s[2] \div 2 ^ m)
CeilMip(n, m) == Larger(1, (n + 2 ^ m - 1) \div 2 ^ m)

\* Blocks across n texels: aligned() in units of 128.
BlocksAcross(n) == (n + 127) \div 128

\* The small mips share one block, from the first that fits with all after it.
Fits(s, m) == s[3] > 1 /\ CeilMip(s[1], m) <= 64 /\ CeilMip(s[2], m) <= 128 /\ s[3] - m <= 12

FirstTail(s) ==
    IF \E m \in Levels(s) : Fits(s, m) THEN CHOOSE m \in Levels(s) : Fits(s, m) /\ \A k \in 0..(m - 1) : ~Fits(s, k)
    ELSE s[3]

TailAt == << <<64, 0>>, <<0, 64>>, <<32, 0>>, <<0, 32>>, <<16, 0>>, <<8, 16>>,
           <<0, 24>>, <<0, 16>>, <<8, 8>>, <<8, 0>>, <<0, 8>>, <<0, 0>> >>

TailX(s, m) == IF m < FirstTail(s) THEN 0 ELSE TailAt[m - FirstTail(s) + 1][1]
TailY(s, m) == IF m < FirstTail(s) THEN 0 ELSE TailAt[m - FirstTail(s) + 1][2]

PaddedBlocks(s, m) == IF m < FirstTail(s) THEN BlocksAcross(CeilMip(s[1], m)) ELSE 1

\* The blocks of a mip outside of the tail, by column and row.
MipBlocks(s, m) ==
    IF m < FirstTail(s) THEN {m} \X (1..PaddedBlocks(s, m)) \X (1..BlocksAcross(CeilMip(s[2], m))) ELSE {}

TailBlocks(s) == IF FirstTail(s) < s[3] THEN 1 ELSE 0

BlocksOf(s, levels) == Cardinality(UNION {MipBlocks(s, m) : m \in levels})

\* byte_size()
Blocks(s) == TailBlocks(s) + BlocksOf(s, Levels(s))

\* The tail is counted but not skipped.
MipOffsetOverTail(s, m) == IF m < FirstTail(s) THEN BlocksOf(s, (m + 1)..(FirstTail(s) - 1)) ELSE 0

\* The tail first, then the other mips from the smallest to the largest.
MipOffset(s, m) ==
    IF m < FirstTail(s) THEN TailBlocks(s) + BlocksOf(s, (m + 1)..(FirstTail(s) - 1)) ELSE 0

-----------------------------------------------------------------------------
Bits(n) == {b \in 0..15 : (n \div 2 ^ b) % 2 = 1}

\* (n << shift) & mask
Spread(n, shift, mask) == {b + shift : b \in Bits(n)} \cap Bits(mask)

\* The masks keep the low seven bits of a coordinate, and of one coordinate
\* take no bit twice.
SwizzledX == [x \in 0..127 |-> Spread(x, 2, 12) \cup Spread(x, 5, 896) \cup Spread(x, 4, 1024)
                                  \cup Spread(x, 6, 2048) \cup Spread(x, 9, 40960)]
SwizzledY == [y \in 0..127 |-> Spread(y, 4, 112) \cup Spread(y, 5, 3840) \cup Spread(y, 9, 4096)
                                  \cup Spread(y, 8, 16384)]

Swizzle(x, y) ==
    LET a == SwizzledX[x % 128]
        b == SwizzledY[y % 128]
    IN  (a \ b) \cup (b \ a)

Mip(s, m) ==
    [offset |-> MipOffset(s, m), padded |-> PaddedBlocks(s, m), tailX |-> TailX(s, m), tailY |-> TailY(s, m)]

PixelOffset(mip, x, y) ==
    <<mip.offset + (y \div 128) * mip.padded + x \div 128, Swizzle(x + mip.tailX, y + mip.tailY)>>

\* What tile() writes of a mip.
Tiles(s, m) ==
    LET mip == Mip(s, m)
    IN  {PixelOffset(mip, x, y) : x \in 0..(Width(s, m) - 1), y \in 0..(Height(s, m) - 1)}

=============================================================================
