------------------------------ MODULE LoraBits ------------------------------
(***************************************************************************)
(* The code of a LoRa packet, shared by its two decoders                   *)
(* (lora_phy_std.cpp, lora_receiver.cpp).  A word of bits is the set of    *)
(* the positions that are 1; a byte is a subset of 0..7.                   *)
(***************************************************************************)
EXTENDS Integers, Sequences, FiniteSets, FiniteSetsExt, SequencesExt

Xor(a, b) == (a \ b) \cup (b \ a)
\* A sequence as a tuple: TLC would evaluate a function's values at every use.
Tuple(s) == s \o <<>>

Odd(s) == Cardinality(s) % 2 = 1
Less(a, b) == a # b /\ Max(Xor(a, b)) \in b
ValueOf(s) == MapThenSumSet(LAMBDA i : 2^i, s)
BitsOf(n) == {i \in 0..12 : (n \div 2^i) % 2 = 1}
Shifted(s, n) == {i + n : i \in s}

Low(byte) == byte \cap 0..3
High(byte) == {i - 4 : i \in byte \ 0..3}
Byte(low, high) == low \cup Shifted(high, 4)

\* The header nibbles length, and cr with the CRC flag, as one word of 12 bits.
HeaderWord(length, flags) == length \cup Shifted(flags, 8)

Gray(s) == {i \in 0..12 : (i \in s) # (i + 1 \in s)}
UnGray(s) == {i \in 0..12 : Odd({j \in s : j >= i})}

-----------------------------------------------------------------------------
(* Forward error correction *)

Nibbles == SUBSET (0..3)

\* The data bits under each check bit, at coding rate 4/(4+cr).
Checks(cr) ==
  IF cr = 1 THEN <<0..3>> ELSE SubSeq(<<{0, 1, 2}, {1, 2, 3}, {0, 1, 3}, {0, 2, 3}>>, 1, cr)

Codewords ==
  [cr \in 1..4 |-> [x \in Nibbles |-> x \cup {3 + i : i \in {j \in 1..cr : Odd(x \cap Checks(cr)[j])}}]]

Encoded(cr, x) == Codewords[cr][x]

\* The nibbles whose codeword is nearest.
Nearest(word, cr) ==
  LET far(x) == Cardinality(Xor(Encoded(cr, x), word))
      least == Min({far(x) : x \in Nibbles}) IN
  {x \in Nibbles : far(x) = least}

\* The five parities over length, coding rate and CRC flag, lowest bit first.
HeaderChecksum(word) ==
  LET rows == <<{4, 1, 8, 9, 10, 11}, {5, 0, 2, 8, 9, 10}, {6, 0, 3, 9, 11}, {7, 1, 2, 3, 8},
                {4, 5, 6, 7}>> IN
  {i - 1 : i \in {j \in 1..5 : Odd(word \cap rows[j])}}

HeaderNibblesOf(length, flags) ==
  LET sum == HeaderChecksum(HeaderWord(length, flags)) IN
  <<High(length), Low(length), flags, High(sum), Low(sum)>>

-----------------------------------------------------------------------------
(* The diagonal interleaver: bit k of the words of a block makes symbol k *)

Interleaved(words, width, cr) ==
  Tuple([s \in 1..(4 + cr) * (Len(words) \div width) |->
           LET block == (s - 1) \div (4 + cr)  k == (s - 1) % (4 + cr) IN
           {m \in 0..width - 1 : k \in words[block * width + ((m + k) % width) + 1]}])

\* Defect: the diagonal runs the other way.
DeinterleavedBack(symbols, width, cr) ==
  Tuple([w \in 1..width * (Len(symbols) \div (4 + cr)) |->
           LET block == (w - 1) \div width  i == (w - 1) % width IN
           {k \in 0..3 + cr : (i + k) % width \in symbols[block * (4 + cr) + k + 1]}])

Deinterleaved(symbols, width, cr) ==
  Tuple([w \in 1..width * (Len(symbols) \div (4 + cr)) |->
           LET block == (w - 1) \div width  i == (w - 1) % width IN
           {k \in 0..3 + cr : (i + 8 * width - k) % width \in symbols[block * (4 + cr) + k + 1]}])

-----------------------------------------------------------------------------
(* CRC-16 with polynomial 0x1021 *)

CrcBit(c) == Xor(Shifted(c \ {15}, 1), IF 15 \in c THEN {0, 5, 12} ELSE {})
CrcTwoBits(c) == CrcBit(CrcBit(c))
CrcByte(c) == CrcTwoBits(CrcTwoBits(CrcTwoBits(CrcTwoBits(c))))

\* The shift register of the masks.
ShiftRegister(v) == Shifted(v \ {7}, 1) \cup (IF Odd(v \cap {3, 4, 5, 7}) THEN {0} ELSE {})

\* A CRC in the packet: low byte first.
BytesOfWord(c) == <<c \cap 0..7, Shifted(c \ 0..7, -8)>>

\* Low nibble first.
NibblesOf(bytes) ==
  Tuple([i \in 1..2 * Len(bytes) |->
    LET b == bytes[(i + 1) \div 2] IN IF i % 2 = 1 THEN Low(b) ELSE High(b)])

BytesOf(nibbles) ==
  Tuple([i \in 1..Len(nibbles) \div 2 |-> Byte(nibbles[2 * i - 1], nibbles[2 * i])])
=============================================================================
