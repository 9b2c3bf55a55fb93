---------------------------- MODULE LoraReceiver ----------------------------
(***************************************************************************)
(* The production LoRa receiver (lora_receiver.cpp): the search of a       *)
(* capture for preambles, the correction of drift, both guesses of the low *)
(* data rate mode, decode_symbols, where the search goes on after a        *)
(* packet, and the second pass over the inverted capture.  The sender is   *)
(* the one the fixed test vectors come from.                               *)
(*                                                                         *)
(* A window of the capture is a chirp with the frequency of its dechirped  *)
(* peak in sixteenths of a bin, or silence; frames begin where windows do, *)
(* so the quarter symbol of the delimiter counts for the drift only.  A    *)
(* chirp dechirped with the wrong slope gives some bin, here 0.            *)
(***************************************************************************)
EXTENDS LoraBits

CONSTANTS
  RvSf,          \* the spreading factor, 7..12
  RvFrames,      \* what is sent: [cr, crc, ldro, payload, preamble, sync, wander, inverted]
  RvDamages,     \* what the air does to the symbols: [moved, by, cut, gap]
  RvSetups,      \* max_packets, and the drift in sixteenths of a bin per symbol
  RvOffset,      \* the carrier offset in sixteenths
  RvMinPreamble, RvMaxPreamble,
  RvSlow,        \* whether a symbol is longer than 16 ms
  RvMaxFrames    \* frames in a capture

Bin == 16
RvTop == Bin * 2^RvSf

ASSUME ReceiverAssumption ==
  /\ RvSf \in 7..12 /\ RvMinPreamble \in 4..RvMaxPreamble /\ RvSlow \in BOOLEAN
  /\ RvOffset \in 0..RvTop - 1
  /\ \A setup \in RvSetups : setup.limit \in 1..1024 /\ setup.drift % 4 = 0

VARIABLES
  rvLimit, rvDrift,  \* max_packets, and the drift of the capture
  rvAir,             \* the windows
  rvSent,            \* history: frame, damage, the window after it
  rvResult           \* what demodulate returned

rvVars == <<rvLimit, rvDrift, rvAir, rvSent, rvResult>>

RvWaiting == [packets |-> <<>>, limited |-> FALSE, done |-> FALSE]
RvWrap(q) == (q + 8 * RvTop) % RvTop

-----------------------------------------------------------------------------
(* The sender (tools/generate_lora_reference_vectors.py) *)

\* payload_crc: the last two bytes are added as they are.
PayloadCrc(bytes) ==
  LET n == Len(bytes)
      add(c, b) == CrcByte(Xor(c, Shifted(b, 8)))
      before == FoldLeft(add, {}, SubSeq(bytes, 1, n - 2)) IN
  CASE n = 0 -> {}
    [] n = 1 -> bytes[1]
    [] OTHER -> Xor(before, Xor(bytes[n], Shifted(bytes[n - 1], 8)))

\* The payload masked, or unmasked, by the shift register.
Masked(bytes) ==
  FoldLeft(LAMBDA acc, b : [state |-> ShiftRegister(acc.state), out |-> Append(acc.out, Xor(b, acc.state))],
           [state |-> 0..7, out |-> <<>>], bytes).out

FrameNibbles(f) ==
  HeaderNibblesOf(BitsOf(Len(f.payload)), BitsOf(2 * f.cr + (IF f.crc THEN 1 ELSE 0)))
    \o NibblesOf(Masked(f.payload) \o (IF f.crc THEN BytesOfWord(PayloadCrc(f.payload)) ELSE <<>>))

\* The codewords: the first block, of the reduced alphabet, at 4/8.
FrameWords(f, nibbles, width) ==
  LET head == RvSf - 2
      count == head + width * ((Len(nibbles) - head + width - 1) \div width) IN
  Tuple([i \in 1..count |->
    Encoded(IF i <= head THEN 4 ELSE f.cr, IF i <= Len(nibbles) THEN nibbles[i] ELSE {})])

FrameSymbols(f, words, width) ==
  LET head == RvSf - 2 IN
  Interleaved(SubSeq(words, 1, head), head, 4)
    \o Interleaved(SubSeq(words, head + 1, Len(words)), width, f.cr)

\* The bins of symbols: those of the reduced alphabet are 1 mod 4.
BinsOf(f, symbols) ==
  LET scale(i) == IF i <= 8 \/ f.ldro THEN 4 ELSE 1 IN
  Tuple([i \in DOMAIN symbols |-> (ValueOf(UnGray(symbols[i])) * scale(i) + 1) % 2^RvSf])

\* The bins of header and payload.
FrameBins(f) ==
  LET width == IF f.ldro THEN RvSf - 2 ELSE RvSf IN
  BinsOf(f, FrameSymbols(f, FrameWords(f, FrameNibbles(f), width), width))

-----------------------------------------------------------------------------
(* The air *)

Up(q) == [kind |-> "up", q |-> RvWrap(q)]
Silence == [kind |-> "silence", q |-> 0]

\* The capture as its complex conjugate: chirps fall instead of rise.
Conjugate(w) ==
  LET kind == [up |-> "down", down |-> "up", silence |-> "silence"] IN
  Tuple([i \in DOMAIN w |-> [kind |-> kind[w[i].kind], q |-> RvWrap(-w[i].q)]])

\* The windows of a frame: preamble, two synchronisation symbols, two
\* down-chirps and what is left of the symbols.
Windows(f, damage, bins) ==
  LET at(bin, t) == Up(Bin * bin + RvOffset + (t * rvDrift) \div 4)  \* t in quarters of a symbol
      moved(i) == IF i \in damage.moved THEN damage.by ELSE 0 IN
  [i \in 1..f.preamble |-> at(0, 4 * (i - f.preamble - 3))]
    \o <<at(8 * f.sync[1], -8), at(8 * f.sync[2], -4)>>
    \o [i \in 1..2 |-> [kind |-> "down", q |-> 0]]
    \o [i \in 1..Len(bins) - damage.cut |-> Up(at(bins[i] + moved(i), 4 * i + 5).q + i * f.wander)]

Heard(f, windows) == IF f.inverted THEN Conjugate(windows) ELSE windows

RvTransmit ==
  /\ ~rvResult.done /\ Len(rvSent) < RvMaxFrames
  /\ \E f \in RvFrames, damage \in RvDamages :
       /\ damage.cut < Len(FrameBins(f))
       /\ rvAir' = Tuple(rvAir \o Heard(f, Windows(f, damage, FrameBins(f))) \o [i \in 1..damage.gap |-> Silence])
       /\ rvSent' = Append(rvSent, [frame |-> f, damage |-> damage, data |-> Len(rvAir) + f.preamble + 5])
  /\ UNCHANGED <<rvLimit, rvDrift, rvResult>>

-----------------------------------------------------------------------------
(* decode_symbols *)

\* unfec: a tie leaves the data bits as they were observed.
Repaired(word, cr) ==
  LET near == Nearest(word, cr) IN
  IF Cardinality(near) = 1 THEN CHOOSE x \in near : TRUE ELSE word \cap 0..3

RepairedAll(words, cr) == Tuple([i \in DOMAIN words |-> Repaired(words[i], cr)])

\* llround
BinOf(q) == ((q + Bin \div 2) \div Bin) % 2^RvSf

RvRejected == [header |-> FALSE]

RvWidth(ldro) == IF ldro THEN RvSf - 2 ELSE RvSf
Reduced(q) == Gray(BitsOf(BinOf(q) \div 4))
Full(q) == Gray(BitsOf((BinOf(q) + 2^RvSf - 1) % 2^RvSf))

\* The first block is always of the reduced alphabet.
FirstNibbles(q) ==
  RepairedAll(Deinterleaved(Tuple([i \in 1..8 |-> Reduced(q[i])]), RvSf - 2, 4), 4)

RvHeaderValid(nib) ==
  /\ ValueOf(nib[3]) \div 2 \in 1..4
  /\ HeaderChecksum(HeaderWord(Byte(nib[2], nib[1]), nib[3])) = Byte(nib[5], nib[4] \cap {0})

RvHeader(nib, ldro) ==
  [header |-> TRUE, ldro |-> ldro, cr |-> ValueOf(nib[3]) \div 2, crc |-> 0 \in nib[3],
   length |-> ValueOf(Byte(nib[2], nib[1])), complete |-> FALSE, crcValid |-> FALSE,
   payload |-> <<>>, symbols |-> 0]

NibblesNeeded(p) == 2 * (p.length + (IF p.crc THEN 2 ELSE 0))
SymbolsNeeded(p) ==
  LET missing == Max({0, NibblesNeeded(p) - (RvSf - 7)})  width == RvWidth(p.ldro) IN
  8 + (4 + p.cr) * ((missing + width - 1) \div width)

\* What is behind the header, still masked, and the CRC.
RvBodyBytes(p, nib, coded) ==
  LET symbols == Tuple([i \in DOMAIN coded |-> IF p.ldro THEN Reduced(coded[i]) ELSE Full(coded[i])]) IN
  BytesOf(SubSeq(SubSeq(nib, 6, Len(nib)) \o RepairedAll(Deinterleaved(symbols, RvWidth(p.ldro), p.cr), p.cr),
                 1, NibblesNeeded(p)))

CrcMatches(p, bytes, payload) ==
  p.crc /\ PayloadCrc(payload) = bytes[p.length + 1] \cup Shifted(bytes[p.length + 2], 8)

RvWithBytes(p, bytes, payload, symbols) ==
  [p EXCEPT !.complete = TRUE, !.payload = payload, !.symbols = symbols,
            !.crcValid = CrcMatches(p, bytes, payload)]

WithBody(p, bytes, symbols) == RvWithBytes(p, bytes, Masked(SubSeq(bytes, 1, p.length)), symbols)

WithHeader(q, p, nib, symbols) ==
  IF Len(q) < symbols THEN p ELSE WithBody(p, RvBodyBytes(p, nib, SubSeq(q, 9, symbols)), symbols)

AfterHeader(q, p, nib) == WithHeader(q, p, nib, SymbolsNeeded(p))

FromNibbles(q, ldro, nib) ==
  IF RvHeaderValid(nib) THEN AfterHeader(q, RvHeader(nib, ldro), nib) ELSE RvRejected

DecodeSymbols(q, ldro) == IF Len(q) < 8 THEN RvRejected ELSE FromNibbles(q, ldro, FirstNibbles(q))

-----------------------------------------------------------------------------
(* demodulate_normal *)

Signed(q) == IF RvWrap(q) >= RvTop \div 2 THEN RvWrap(q) - RvTop ELSE RvWrap(q)

\* A run of up-chirps whose bins are neighbours.
Run(w, i) ==
  \A k \in 0..RvMinPreamble - 1 :
    /\ w[i + k].kind = "up"
    /\ k > 0 => Signed(Bin * (BinOf(w[i + k].q) - BinOf(w[i + k - 1].q))) \in -Bin..Bin

\* The first down-chirp after the run; 0 if there is none.
Delimiter(w, i) ==
  LET found == {j \in i + RvMinPreamble..Min({Len(w), i + RvMaxPreamble - 1}) : w[j].kind = "down"} IN
  IF found = {} THEN 0 ELSE Min(found)

\* Two down-chirps and a preamble before them, give or take a symbol.
Aligned(w, sfd) ==
  LET fits(j) == /\ j > 3 /\ j < Len(w) /\ w[j - 3].kind = "up"
                 /\ w[j].kind = "down" /\ w[j + 1].kind = "down" IN
  {j \in sfd - 1..sfd + 1 : fits(j)}

\* The line through six symbols of the preamble: its slope, and its value where
\* the delimiter begins.
Fit(w, aligned) ==
  LET q(j) == IF aligned + j \in DOMAIN w THEN w[aligned + j].q ELSE 0
      y(j) == q(-3) + Signed(q(j) - q(-3))
      sums == FoldLeft(LAMBDA acc, j : [y |-> acc.y + y(j), xy |-> acc.xy + j * y(j)],
                       [y |-> 0, xy |-> 0], <<-8, -7, -6, -5, -4, -3>>)
      slope == (6 * sums.xy + 33 * sums.y) \div 105 IN
  [slope |-> slope, offset |-> (sums.y + 33 * slope) \div 6]

\* Missing samples end the data.
RawData(w, from, offset) ==
  LET end == {i \in from..Len(w) : w[i].kind = "silence"}
      upto == IF end = {} THEN Len(w) ELSE Min(end) - 1 IN
  Tuple([k \in 1..upto - from + 1 |-> RvWrap(w[from + k - 1].q - offset)])

\* Defect: each symbol is pulled to the lattice by itself.
LatticeStepAlone(acc, v) ==
  LET delta == (v - acc.last + RvTop) % (4 * Bin)
      back == IF delta < 2 * Bin THEN delta ELSE delta - 4 * Bin IN
  [last |-> v, offset |-> 0 - back, out |-> Append(acc.out, RvWrap(v - back))]

\* The reduced alphabet is a lattice of every fourth bin: what a symbol is off
\* it by, counted from the last one, is drift.
LatticeStep(acc, v) ==
  LET delta == (v - acc.last + RvTop) % (4 * Bin)
      back == IF delta < 2 * Bin THEN delta ELSE delta - 4 * Bin IN
  [last |-> v, offset |-> acc.offset - back, out |-> Append(acc.out, RvWrap(v + acc.offset - back))]

\* The symbols freed of drift under one guess of the mode.
DriftFree(raw, slope, ldro) ==
  LET onLattice == IF ldro THEN Len(raw) ELSE Min({8, Len(raw)})
      tracked == FoldLeft(LatticeStep, [last |-> Bin, offset |-> 0, out |-> <<>>], SubSeq(raw, 1, onLattice)).out
      straight == [i \in 1..Len(raw) - onLattice |->
                     RvWrap(raw[onLattice + i] - (slope * (4 * (onLattice + i) + 5)) \div 4)] IN
  Tuple(tracked \o straight)

\* Both guesses, the likelier first; the second replaces it if it alone has a
\* valid CRC, or is complete.
Better(first, second) ==
  IF ~first.header THEN second
  ELSE IF second.header /\ (\/ second.crcValid /\ ~first.crcValid
                            \/ second.complete /\ ~first.complete)
  THEN second ELSE first

Best(raw, slope) ==
  Better(DecodeSymbols(DriftFree(raw, slope, RvSlow), RvSlow),
         DecodeSymbols(DriftFree(raw, slope, ~RvSlow), ~RvSlow))

\* Defect: every packet reserves the span its header declares.
ResumeAfterDeclared(p, data) == IF p.complete THEN data + p.symbols ELSE data + 8

\* Only a verified packet reserves its span; of others the header is skipped.
Resume(p, data) == IF p.complete /\ p.crc /\ p.crcValid THEN data + p.symbols ELSE data + 8

PacketAt(w, data, line) == Best(RawData(w, data, line.offset), line.slope)

RECURSIVE Search(_, _, _)
After(w, i, found, sfd, packet, data) ==
  IF ~packet.header THEN Search(w, sfd + 1, found)
  ELSE Search(w, Max({i + 1, Resume(packet, data)}),
              Append(found, packet @@ [start |-> i, data |-> data]))

\* The delimiter, the place where its symbols fit, and the packet there.
AtAligned(w, i, found, sfd, aligned) ==
  IF aligned = {} THEN Search(w, sfd + 1, found)
  ELSE After(w, i, found, sfd, PacketAt(w, Min(aligned) + 2, Fit(w, Min(aligned))), Min(aligned) + 2)

AtDelimiter(w, i, found, sfd) ==
  IF sfd = 0 THEN Search(w, i + 1, found) ELSE AtAligned(w, i, found, sfd, Aligned(w, sfd))

Search(w, i, found) ==
  IF i + RvMinPreamble > Len(w) \/ Len(found) >= rvLimit
  THEN [packets |-> found, limited |-> Len(found) >= rvLimit /\ i + RvMinPreamble <= Len(w)]
  ELSE IF ~Run(w, i) THEN Search(w, i + 1, found)
  ELSE AtDelimiter(w, i, found, Delimiter(w, i))

BothPolarities(normal, other) ==
  LET marked(r, inverted) == [i \in DOMAIN r.packets |-> r.packets[i] @@ [inverted |-> inverted]]
      all == marked(normal, FALSE) \o marked(other, TRUE) IN
  [packets |-> SortSeq(all, LAMBDA a, b : a.start < b.start),
   limited |-> normal.limited \/ other.limited, done |-> TRUE]

\* demodulate: both polarities, in the order of the capture.
RvDemodulate ==
  /\ ~rvResult.done
  /\ rvResult' = BothPolarities(Search(rvAir, 1, <<>>), Search(Conjugate(rvAir), 1, <<>>))
  /\ UNCHANGED <<rvLimit, rvDrift, rvAir, rvSent>>

RvInit ==
  /\ \E setup \in RvSetups : rvLimit = setup.limit /\ rvDrift = setup.drift
  /\ rvAir = <<>> /\ rvSent = <<>> /\ rvResult = RvWaiting

RvNext == RvTransmit \/ RvDemodulate

RvSpec == RvInit /\ [][RvNext]_rvVars

-----------------------------------------------------------------------------
(* Properties *)

\* Drift the lattice can follow: less than two bins from a symbol to the next,
\* and over the two and a quarter symbols before the first.
Followable(move) == move \in -2 * Bin + 1..2 * Bin - 1

\* The frame can be read: nothing is missing, and at most one symbol is wrong,
\* where the coding rate corrects it and it does not mislead the lattice.
Readable(s) ==
  LET f == s.frame
      perSymbol == rvDrift + f.wander  first == (9 * rvDrift) \div 4 + f.wander
      residue == (s.damage.by % 4) * Bin IN
  /\ s.damage.cut = 0 /\ Followable(perSymbol) /\ Followable(first)
  /\ ~f.ldro => f.wander = 0
  /\ s.damage.moved # {} =>
       /\ \E h \in 1..8 + (4 + f.cr) : s.damage.moved = {h} /\ (h > 8 => f.cr >= 3)
       /\ \A d \in {perSymbol, first} : Followable(d + residue) /\ Followable(d - residue)

\* Nothing before it takes the frame's preamble for its own header.
Free(k) == \A j \in 1..k - 1 : rvSent[j].damage.gap > 0 \/ Len(FrameBins(rvSent[j].frame)) - rvSent[j].damage.cut >= 8

Reports(p, s) == p.inverted = s.frame.inverted /\ p.data = s.data

\* Every readable frame with a CRC is reported, once and verified, with the
\* bytes sent, whatever precedes it: frames cut short, scrambled, without a
\* CRC or of the other polarity; or the limit is said to have been reached.  And
\* what is reported as verified was sent.
RvReadsFrames ==
  rvResult.done =>
    /\ \A k \in DOMAIN rvSent :
         LET s == rvSent[k] IN
         (s.frame.crc /\ Readable(s) /\ Free(k)) =>
           \/ Cardinality({i \in DOMAIN rvResult.packets :
                LET p == rvResult.packets[i] IN
                Reports(p, s) /\ p.crcValid /\ p.payload = s.frame.payload /\ p.ldro = s.frame.ldro}) = 1
           \/ rvResult.limited
    /\ \A i \in DOMAIN rvResult.packets :
         LET p == rvResult.packets[i] IN
         p.crcValid => \E k \in DOMAIN rvSent : Reports(p, rvSent[k]) /\ p.payload = rvSent[k].frame.payload
=============================================================================
