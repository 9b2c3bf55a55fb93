----------------------------- MODULE LoraCodec ------------------------------
(***************************************************************************)
(* The laboratory LoRa codec (lora_phy_std.cpp): modulate, and demodulate  *)
(* with its search for the preamble, its two guesses of the low data rate  *)
(* mode and its error correction.                                          *)
(*                                                                         *)
(* A symbol on the air is the bin of its dechirped peak, windows begin     *)
(* where symbols do.  The air may shift all bins, let them drift, replace  *)
(* symbols and cut the capture short.  Chirps and peak ratios are left     *)
(* out: an up-chirp is recognised, a down-chirp is not taken for one.      *)
(* whiten_seq is a parameter.                                              *)
(***************************************************************************)
EXTENDS LoraBits

CONSTANTS
  CdSent,       \* what is sent: [sf, ldro, cr, crc, payload]
  CdDrifts,     \* how the bins drift over the preamble, one sequence each
  CdOffset,     \* the carrier offset in bins
  CdWhitening,  \* the positions of whiten_seq that are 1
  CdHit, CdMoves, \* the data symbols disturbed, and what their bins move by
  CdCuts        \* how many symbols a capture may lack

ASSUME CodecAssumption ==
  /\ CdWhitening \subseteq 0..509 /\ CdOffset \in Nat
  /\ \A s \in CdSent : s.sf \in 5..12 /\ s.cr \in 1..4 /\ (s.ldro => s.sf >= 7)

VARIABLES
  cdSent, cdDrift, cdSkip,  \* the packet, the drift, skip_sync_check
  cdAir,      \* the bins: up-chirps until the frame delimiter, then data
  cdWrong,    \* history: the data symbols replaced, and cut
  cdResult    \* what demodulate returned

cdVars == <<cdSent, cdDrift, cdSkip, cdAir, cdWrong, cdResult>>

Width(sf, ldro) == IF ldro THEN sf - 2 ELSE sf
Nothing == [header |-> "none"]
Waiting == [header |-> "waiting"]

-----------------------------------------------------------------------------
(* modulate *)

\* whiten_sx.
Whitened(words, offset, cr) ==
  LET from == IF cr = 1 THEN <<6, 4, 2, 0, -360>> ELSE <<6, 4, 2, 0, -112, -114, -302, -34>> IN
  Tuple([j \in DOMAIN words |->
    Xor(words[j], {i \in 0..3 + cr : (from[i + 1] + j - 1 + offset + 510) % 510 \in CdWhitening})])

\* sx1272_data_checksum: the CRC, masked by a shift register.
DataChecksum(payload) ==
  LET all == FoldLeft(LAMBDA acc, b : [crc |-> Xor(CrcByte(acc.crc), b), mask |-> ShiftRegister(acc.mask)],
                      [crc |-> {}, mask |-> 0..7], payload) IN
  Xor(Xor(all.crc, all.mask), Shifted(ShiftRegister(all.mask), 8))

WithCrc(s) == IF s.crc THEN s.payload \o BytesOfWord(DataChecksum(s.payload)) ELSE s.payload

HeaderNibbles(s) ==
  HeaderNibblesOf(BitsOf(Len(s.payload)), BitsOf((IF s.crc THEN 1 ELSE 0) + 2 * s.cr))

\* The codewords: the first block, with the header, at 4/8.
FirstWords(header, data, width) ==
  [i \in 1..5 |-> Encoded(4, header[i])]
    \o Whitened([i \in 1..width - 5 |-> Encoded(4, IF i <= Len(data) THEN data[i] ELSE {})], 0, 4)

OtherWords(data, width, cr) ==
  LET count == width * ((Len(data) + 5 + width - 1) \div width) - width
      nibble(i) == IF i <= Len(data) THEN data[i] ELSE {} IN
  Whitened([i \in 1..count |-> Encoded(cr, nibble(width - 5 + i))], width - 5, cr)

BinsOfSymbols(symbols, shift) ==
  Tuple([i \in DOMAIN symbols |-> ValueOf(Shifted(UnGray(symbols[i]), shift))])

ModulatedData(s, data, width) ==
  BinsOfSymbols(Interleaved(FirstWords(HeaderNibbles(s), data, width), width, 4)
                  \o Interleaved(OtherWords(data, width, s.cr), width, s.cr), s.sf - width)

\* The bins of header and payload.
Modulated(s) == ModulatedData(s, NibblesOf(WithCrc(s)), Width(s.sf, s.ldro))

\* SYNC_WORD_DEFAULT, 0x12.
SyncBins(sf) == <<1 * 2^(sf - 4), 2 * 2^(sf - 4)>>

-----------------------------------------------------------------------------
(* The air *)

\* Preamble, synchronisation symbols, two down-chirps, data; the drift stays as
\* it was at the end of the preamble.
Transmitted(sf, drift, bins) ==
  LET n == 2^sf  last == drift[Len(drift)]
      at(bin, moved) == (bin + CdOffset + moved + n) % n
      up(bin, moved) == [bin |-> at(bin, moved), up |-> TRUE]
      down == [bin |-> 0, up |-> FALSE] IN
  [windows |-> [i \in DOMAIN drift |-> up(0, drift[i])]
                 \o [i \in 1..2 |-> up(SyncBins(sf)[i], last)] \o <<down, down>>,
   data |-> [i \in DOMAIN bins |-> at(bins[i], last)]]

CdTransmit ==
  /\ cdAir = <<>> /\ cdAir' = Transmitted(cdSent.sf, cdDrift, Modulated(cdSent))
  /\ UNCHANGED <<cdSent, cdDrift, cdSkip, cdWrong, cdResult>>

\* Another signal takes symbols over, one at a time.
CdDisturb ==
  /\ cdAir # <<>> /\ cdResult = Waiting /\ cdWrong.cut = 0
  /\ \E i \in CdHit \cap DOMAIN cdAir.data, move \in CdMoves :
       /\ \A j \in cdWrong.symbols : j < i
       /\ cdAir' = [cdAir EXCEPT !.data[i] = (@ + move) % 2^cdSent.sf]
       /\ cdWrong' = [cdWrong EXCEPT !.symbols = @ \cup {i}]
  /\ UNCHANGED <<cdSent, cdDrift, cdSkip, cdResult>>

\* The capture ends before the packet.
CdCut ==
  /\ cdAir # <<>> /\ cdResult = Waiting /\ cdWrong.cut = 0
  /\ \E n \in CdCuts \cap DOMAIN cdAir.data :
       /\ cdAir' = [cdAir EXCEPT !.data = SubSeq(@, 1, Len(@) - n)]
       /\ cdWrong' = [cdWrong EXCEPT !.cut = n]
  /\ UNCHANGED <<cdSent, cdDrift, cdSkip, cdResult>>

-----------------------------------------------------------------------------
(* demodulate *)

Circular(a, b, n) == LET d == (a - b + n) % n IN IF d < n - d THEN d ELSE n - d

\* find_preamble: six up-chirps in a row with one bin; 0 if there are none.
FindPreamble(w) ==
  LET found == {i \in 1..Len(w) - 5 : \A k \in 0..5 : w[i + k].up /\ w[i + k].bin = w[i].bin} IN
  IF found = {} THEN 0 ELSE Min(found)

\* Defect: a symbol that was only noise is not counted.
RECURSIVE PreambleUncounted(_, _, _, _)
PreambleUncounted(w, p, target, n) ==
  LET near(i, t, d) == i <= Len(w) /\ w[i].up /\ Circular(w[i].bin, t, n) <= d IN
  IF near(p, target, 1) THEN 1 + PreambleUncounted(w, p + 1, w[p].bin, n)
  ELSE IF near(p, target, 2) /\ near(p + 1, target, 1) THEN PreambleUncounted(w, p + 1, target, n)
  ELSE IF near(p, target, 2) /\ near(p + 1, w[p].bin, 1)
       THEN 1 + PreambleUncounted(w, p + 1, w[p].bin, n)
  ELSE 0

\* measure_preamble_length from window p: steps of one bin are followed; after a
\* step of two the next window decides, unless neither agrees.
RECURSIVE PreambleLength(_, _, _, _)
PreambleLength(w, p, target, n) ==
  LET near(i, t, d) == i <= Len(w) /\ w[i].up /\ Circular(w[i].bin, t, n) <= d IN
  IF near(p, target, 1) THEN 1 + PreambleLength(w, p + 1, w[p].bin, n)
  ELSE IF near(p, target, 2) /\ near(p + 1, target, 1) THEN 1 + PreambleLength(w, p + 1, target, n)
  ELSE IF near(p, target, 2) /\ near(p + 1, w[p].bin, 1)
       THEN 1 + PreambleLength(w, p + 1, w[p].bin, n)
  ELSE 0

\* decode_fec_codeword_sx: the smallest of the nearest.
Smallest(words) == CHOOSE x \in words : ~\E y \in words : Less(y, x)
Corrected(word, cr) == Smallest(Nearest(word, cr))
CorrectedAll(words, cr) == Tuple([i \in DOMAIN words |-> Corrected(words[i], cr)])

\* round_and_shift, then the Gray code; only the low bits are read later.
SymbolOf(bin, shift) ==
  Gray(BitsOf(IF shift = 0 THEN bin ELSE (bin + 2^shift \div 2) \div 2^shift))
SymbolsOf(bins, shift) == Tuple([i \in DOMAIN bins |-> SymbolOf(bins[i], shift)])

WithBytes(h, bytes, payload) ==
  [h EXCEPT !.complete = TRUE, !.payload = payload,
            !.crcValid = h.crc /\ WithCrc([payload |-> payload, crc |-> TRUE]) = bytes]

BodyBytes(h, body, width, firstNibbles, nibbles) ==
  LET words == Whitened(Deinterleaved(body, width, h.cr), width - 5, h.cr) IN
  BytesOf(SubSeq(firstNibbles \o CorrectedAll(words, h.cr), 1, nibbles))

\* The packet behind a valid header.
Payload(h, symbols, width, firstNibbles) ==
  LET nibbles == 2 * (h.length + (IF h.crc THEN 2 ELSE 0))
      missing == Max({0, nibbles - Len(firstNibbles)})
      end == 8 + (4 + h.cr) * ((missing + width - 1) \div width)
      withBytes(bytes) == WithBytes(h, bytes, SubSeq(bytes, 1, h.length)) IN
  IF end > Len(symbols) THEN h
  ELSE withBytes(BodyBytes(h, SubSeq(symbols, 9, end), width, firstNibbles, nibbles))

HeaderValid(n, h) ==
  /\ HeaderChecksum(HeaderWord(Byte(n[2], n[1]), n[3])) = Byte(n[5], n[4])
  /\ h.cr \in 1..4 /\ h.length <= 250

Header(n, ldro) ==
  [header |-> "valid", ldro |-> ldro, length |-> ValueOf(Byte(n[2], n[1])), cr |-> ValueOf(n[3]) \div 2,
   crc |-> 0 \in n[3], complete |-> FALSE, crcValid |-> FALSE, payload |-> <<>>]

\* Behind the five nibbles n of the header, the others of its block are whitened.
DecodedBlock(n, h, symbols, block, width) ==
  IF HeaderValid(n, h)
  THEN Payload(h, symbols, width, CorrectedAll(Whitened(SubSeq(block, 6, width), 0, 4), 4))
  ELSE [header |-> "invalid"]

DecodedNibbles(n, symbols, block, width, ldro) == DecodedBlock(n, Header(n, ldro), symbols, block, width)

DecodedFirst(symbols, block, width, ldro) ==
  DecodedNibbles(CorrectedAll(SubSeq(block, 1, 5), 4), symbols, block, width, ldro)

DecodedSymbols(symbols, width, ldro) ==
  DecodedFirst(symbols, Deinterleaved(SubSeq(symbols, 1, 8), width, 4), width, ldro)

\* Header and payload in one of the two modes, from raw bins.
Decoded(bins, sf, ldro) ==
  IF Len(bins) < 8 THEN Nothing
  ELSE DecodedSymbols(SymbolsOf(bins, sf - Width(sf, ldro)), Width(sf, ldro), ldro)

FreeOfOffset(bins, offset, n) == Tuple([i \in DOMAIN bins |-> (bins[i] - offset + n) % n])

\* The synchronisation word, the delimiter and the data behind a preamble that
\* ends before window p; a count that is wrong moves all of them.
AfterPreamble(air, sf, skip, ldro, offset, p) ==
  LET n == 2^sf  w == air.windows
      late == p + 2 - Min({i \in DOMAIN w : ~w[i].up})
      sync(i) == ((w[i].bin - offset + n) % n) \div 2^(sf - 4) IN
  IF p + 2 > Len(w) THEN Nothing
  ELSE IF w[p + 2].up \/ (~skip /\ <<sync(p), sync(p + 1)>> # <<1, 2>>) THEN Nothing
  ELSE Decoded(FreeOfOffset(SubSeq(air.data, 1 + late, Len(air.data)), offset, n), sf, ldro)

FromPreamble(air, sf, skip, ldro, start) ==
  LET w == air.windows  offset == w[start].bin IN
  IF start = 0 THEN Nothing
  ELSE AfterPreamble(air, sf, skip, ldro, offset, start + PreambleLength(w, start, offset, 2^sf))

\* demodulate_with_ppm: preamble, synchronisation word, delimiter.
InMode(air, sf, skip, ldro) == FromPreamble(air, sf, skip, ldro, FindPreamble(air.windows))

\* demodulate: the reduced alphabet is tried when the full one has no header.
Chosen(plain, reduced, sf) ==
  IF plain.header = "valid" \/ sf < 7 \/ reduced = Nothing THEN plain ELSE reduced

Demodulate(air, sf, skip) ==
  Chosen(InMode(air, sf, skip, FALSE), InMode(air, sf, skip, TRUE), sf)

CdReceive ==
  /\ cdAir # <<>> /\ cdResult = Waiting
  /\ cdResult' = Demodulate(cdAir, cdSent.sf, cdSkip)
  /\ UNCHANGED <<cdSent, cdDrift, cdSkip, cdAir, cdWrong>>

CdInit ==
  /\ cdSent \in CdSent /\ cdDrift \in CdDrifts /\ cdSkip \in BOOLEAN
  /\ cdAir = <<>> /\ cdWrong = [symbols |-> {}, cut |-> 0] /\ cdResult = Waiting

CdNext == CdTransmit \/ CdDisturb \/ CdCut \/ CdReceive

CdSpec == CdInit /\ [][CdNext]_cdVars

-----------------------------------------------------------------------------
(* Properties *)

\* The drift moves a bin at a time or jumps by two for one symbol, and where
\* symbols are narrow it does not move; the search starts at its first value.
Trackable ==
  LET jump(i) == cdDrift[i] - cdDrift[i - 1] IN
  /\ \A i \in 2..Len(cdDrift) :
       \/ jump(i) \in -1..1
       \/ i < Len(cdDrift) /\ cdDrift[i + 1] = cdDrift[i - 1]
       \/ i > 2 /\ cdDrift[i] = cdDrift[i - 2]
  /\ cdSent.sf = 5 => \A i \in DOMAIN cdDrift : cdDrift[i] = cdDrift[1]

BlockOf(i) == IF i <= 8 THEN 0 ELSE 1 + (i - 9) \div (4 + cdSent.cr)

\* At most one symbol of a block is wrong, none where the rate cannot correct it.
FewWrong ==
  /\ \A i, j \in cdWrong.symbols : BlockOf(i) = BlockOf(j) => i = j
  /\ \A i \in cdWrong.symbols : i > 8 => cdSent.cr >= 3

\* What the drift has become when the data begins: the reduced alphabet absorbs
\* one bin up and two down, but not down from bin 0, and the synchronisation
\* word absorbs none down.
Absorbed ==
  LET d == cdDrift[Len(cdDrift)] - cdDrift[FindPreamble(cdAir.windows)] IN
  \/ d = 0
  \/ cdSent.ldro /\ d = 1
  \/ cdSent.ldro /\ d \in {-2, -1} /\ cdSkip /\ 0 \notin Range(Modulated(cdSent))

\* Every packet whose preamble can be followed is read as it was sent, at every
\* rate and in both modes, with one wrong symbol in every block that the coding
\* rate protects; one that is cut short is a valid header, or nothing, but
\* never other bytes.  The one exception is a packet of the reduced alphabet
\* whose header also passes as one of the full alphabet (demodulate).
CdDelivers ==
  (/\ cdResult # Waiting /\ Trackable /\ FewWrong /\ Absorbed
   /\ ~(cdSent.ldro /\ InMode(cdAir, cdSent.sf, cdSkip, FALSE).header = "valid")) =>
    \/ /\ cdResult.header = "valid" /\ cdResult.ldro = cdSent.ldro
       /\ cdResult.length = Len(cdSent.payload) /\ cdResult.cr = cdSent.cr
       /\ IF cdWrong.cut = 0
          THEN cdResult.complete /\ cdResult.payload = cdSent.payload /\ cdResult.crcValid = cdSent.crc
          ELSE cdResult.complete => cdResult.payload = cdSent.payload
    \/ cdWrong.cut > 0 /\ cdResult = Nothing
=============================================================================
