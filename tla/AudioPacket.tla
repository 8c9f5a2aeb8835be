----------------------------- MODULE AudioPacket ----------------------------
(***************************************************************************)
(* An audio packet, written and read back (crates/wem-vorbis/src/          *)
(* packet_encoder.rs and packet_decoder.rs, decode_audio_packet in         *)
(* crates/wem-core/src/decoder.rs): the mode, a floor per channel, the     *)
(* residue of all channels.  Channels that a coupling step names are coded *)
(* as a magnitude and an angle.                                            *)
(*                                                                         *)
(* A stream is a record: name, setup (of its profile), channels, bins (of  *)
(* a short and a long block) and joint (whether the encoder couples        *)
(* quantised rows).  A block is a record: stream (its name), mode, posts   *)
(* (the floor fit of each channel, empty for a silent one) and rows (the   *)
(* residue of each channel in Units).                                      *)
(***************************************************************************)
EXTENDS SetupPacket

CONSTANTS Streams,
          Blocks,        \* the blocks that are packed, of any of the streams
          Unit           \* steps of a residue value before quantisation

ASSUME UnitAssumption == Unit \in Nat \ {0}

VARIABLES stream,        \* the stream to code
          given,         \* what a decoder is given of its setup packet
          codec,         \* what it opens on that
          block,         \* the block to pack
          encoder,       \* what the encoder packs it by
          integers,      \* the integer rows its residue codes
          written,       \* what packing it left
          data,          \* the bits of its packet a decoder is given
          decoded        \* what the decoder answers

packetVars == <<stream, given, codec, block, encoder, integers, written, data, decoded>>

Nothing == [answer |-> "none"]

\* Nearest integer, the even one on a tie.
Quantize(value) ==
    LET base == value \div Unit
        part == 2 * (value - base * Unit)
    IN  IF part > Unit \/ (part = Unit /\ base % 2 = 1) THEN base + 1 ELSE base

ModeBits(setup) == IF Len(setup.modes) > 1 THEN Ilog(Len(setup.modes) - 1) ELSE 0

\* A coupling step makes both its channels live as soon as one is.
Propagate(used, coupling) ==
    FoldLeft(LAMBDA live, step :
                 IF live[step[1]] \/ live[step[2]]
                 THEN [live EXCEPT ![step[1]] = TRUE, ![step[2]] = TRUE] ELSE live,
             used, coupling)

\* Mutant of CoupledPair: the angle has the sign of a positive magnitude
\* throughout.
CoupledPairSigned(m, a) ==
    IF m > 0 THEN IF a < m THEN <<m, m - a>> ELSE <<a, m - a>>
    ELSE IF a > m THEN <<m, m - a>> ELSE <<a, m - a>>

\* What is stored of a pair.
CoupledPair(m, a) ==
    IF m > 0 THEN IF a < m THEN <<m, m - a>> ELSE <<a, m - a>>
    ELSE IF a > m THEN <<m, a - m>> ELSE <<a, a - m>>

\* What the joint quantiser stores of a pair of integers.
JointPair(first, second) ==
    LET larger == IF Size(first) > Size(second) THEN first ELSE second
        angle == IF larger > 0 THEN first - second ELSE second - first
    IN  IF angle >= 2 * Size(larger) THEN <<-larger, -angle>> ELSE <<larger, angle>>

\* The pair a stored pair stands for.
DecodedPair(m, a) ==
    IF m > 0 THEN IF a > 0 THEN <<m, m - a>> ELSE <<m + a, m>>
    ELSE IF a > 0 THEN <<m, m + a>> ELSE <<m - a, m>>

\* The two channels of a step, bin by bin.
PairsOf(rows, step) == [b \in DOMAIN rows[step[1]] |-> <<rows[step[1]][b], rows[step[2]][b]>>]

OnPair(rows, step, pairs) ==
    [rows EXCEPT ![step[1]] = [b \in DOMAIN pairs |-> pairs[b][1]],
                 ![step[2]] = [b \in DOMAIN pairs |-> pairs[b][2]]]

Couple(joint, rows, coupling) ==
    LET Pair(m, a) == IF joint THEN JointPair(m, a) ELSE CoupledPair(m, a)
        Step(r, step) ==
            LET pairs == PairsOf(r, step)
            IN  OnPair(r, step, [b \in DOMAIN pairs |-> Pair(pairs[b][1], pairs[b][2])])
    IN  FoldLeft(Step, rows, coupling)

Decouple(rows, coupling) ==
    LET Step(r, step) ==
            LET pairs == PairsOf(r, step)
            IN  OnPair(r, step, [b \in DOMAIN pairs |-> DecodedPair(pairs[b][1], pairs[b][2])])
    IN  FoldLeft(Step, rows, Reverse(coupling))

-----------------------------------------------------------------------------
Channels(b) == DOMAIN b.posts

Bins(str, setup, mode) == str.bins[setup.modes[mode + 1].blockflag + 1]

\* What the encoder packs a block by.  Rows are coupled as integers only in a
\* stereo stream of one coupling step; the residue is that of the first submap.
ModeWith(str, mode, mapping) ==
    [n |-> Bins(str, str.setup, mode),
     floors |-> [ch \in 1 .. str.channels |-> FloorOf(str.setup, mapping, ch)],
     residue |-> ResidueOf(str.setup, mapping, 1),
     books |-> BooksOf(str.setup),
     coupling |-> mapping.coupling,
     joint |-> str.joint /\ str.channels = 2 /\ Len(mapping.coupling) = 1]

ModeOf(str, mode) == ModeWith(str, mode, MappingOf(str.setup, mode))

Flags(b) == [ch \in Channels(b) |-> b.posts[ch] # <<>>]

\* The posts a channel's floor is drawn through, and what is written of them.
Wrapped(floor, fit) == WrapPosts(floor, QuantizePosts(floor, fit))

WriteChannelFloor(pack, floor, books, fit) ==
    IF fit = <<>> THEN Write(pack, <<0>>)
    ELSE WriteFloor(Write(pack, <<1>>), floor, books, Wrapped(floor, fit).coded)

WriteFloors(pack, b, by) ==
    FoldLeft(LAMBDA p, ch : WriteChannelFloor(p, by.floors[ch], by.books, b.posts[ch]),
             pack, [ch \in Channels(b) |-> ch])

QuantizeRows(rows) == [ch \in DOMAIN rows |-> [i \in DOMAIN rows[ch] |-> Quantize(rows[ch][i])]]

\* The integer rows the residue codes: coupled before or after quantising,
\* zero outside the coded bins and on a channel that is not live.
ResidueRows(b, by) ==
    LET residue == by.residue
        channels == Len(b.posts)
        live == Propagate(Flags(b), by.coupling)
        silenced == [ch \in Channels(b) |-> [i \in 1 .. by.n |->
                        IF Flags(b)[ch] THEN b.rows[ch][i] ELSE 0]]
        coded == IF by.joint THEN Couple(TRUE, QuantizeRows(silenced), by.coupling)
                 ELSE QuantizeRows(Couple(FALSE, silenced, by.coupling))
        At(ch, i) == IF residue.type = 2 THEN (i - 1) * channels + ch - 1 ELSE i - 1
        end == Least(residue.end, IF residue.type = 2 THEN by.n * channels ELSE by.n)
    IN  [ch \in Channels(b) |-> [i \in 1 .. by.n |->
            IF live[ch] /\ residue.begin <= At(ch, i) /\ At(ch, i) < end THEN coded[ch][i] ELSE 0]]

\* The mode and the floors.
PackHead(b, by) == WriteFloors(Write(EmptyPack, BitsOf(b.mode, ModeBits(stream.setup))), b, by)

\* The residue, of the channels that are live.  `work` is what its vectors
\* left of the rows.
PackTail(pack, by, rows, used) == PackResidue(pack, by.residue, by.books, rows, used, by.n)

\* Mutant of PackBlock: the residue sees the floors' own flags.
PackBlockRawFlags(b, by, rows) == PackTail(PackHead(b, by), by, rows, Flags(b))

\* The whole packet: mode, floors, and a residue unless every floor is unused.
PackBlock(b, by, rows) ==
    IF ~\E ch \in Channels(b) : Flags(b)[ch] THEN [pack |-> PackHead(b, by), work |-> rows]
    ELSE PackTail(PackHead(b, by), by, rows, Propagate(Flags(b), by.coupling))

ReadFloors(mapping, channels, at) ==
    LET Step(s, ch) ==
            LET flag == Read(data, s.at, 1)
                body == ReadFloor(data, flag.at, FloorOf(codec.setup, mapping, ch), codec.books)
            IN  IF ~s.ok THEN s
                ELSE IF ~flag.ok THEN [s EXCEPT !.ok = FALSE]
                ELSE IF flag.value = 0
                THEN [s EXCEPT !.at = flag.at, !.coded = Append(@, <<>>)]
                ELSE [at |-> body.at, ok |-> body.ok, coded |-> Append(s.coded, body.coded)]
    IN  FoldLeft(Step, [at |-> at, ok |-> TRUE, coded |-> <<>>], [ch \in 1 .. channels |-> ch])

\* The rows of a submap's channels.  A residue that stops with bits left is
\* refused.
TakeBundle(s, bundle, read) ==
    IF read.status = "EndOfPacket" /\ read.at < Len(data)
    THEN [s EXCEPT !.answer = "ResidueBitstreamDefect"]
    ELSE [s EXCEPT !.at = read.at, !.status = read.status,
                   !.rows = [ch \in DOMAIN @ |->
                        IF \E i \in DOMAIN bundle : bundle[i] = ch
                        THEN read.rows[CHOOSE i \in DOMAIN bundle : bundle[i] = ch] ELSE @[ch]]]

ReadBundle(s, mapping, submap, bundle, used, n) ==
    IF s.answer # "Ok" \/ bundle = <<>> THEN s
    ELSE TakeBundle(s, bundle,
             ReadResidue(data, s.at, ResidueOf(codec.setup, mapping, submap), codec.books,
                         [i \in DOMAIN bundle |-> used[bundle[i]]], n))

\* The residues, submap by submap.
ReadBundles(mapping, used, at, n) ==
    LET Bundle(submap) == SelectSeq([ch \in DOMAIN used |-> ch],
                                    LAMBDA ch : SubmapOf(mapping, ch) = submap)
    IN  FoldLeft(LAMBDA s, submap : ReadBundle(s, mapping, submap, Bundle(submap), used, n),
                 [answer |-> "Ok", at |-> at, status |-> "none", rows |-> Silence(Len(used), n)],
                 [submap \in 1 .. mapping.submaps |-> submap])

DrawFloor(floor, coded, n) ==
    IF coded = <<>> THEN <<>> ELSE CurveFactors(floor, UnwrapPosts(floor, coded), n)

Decoded(mode, mapping, n, floors, residues) ==
    IF residues.answer # "Ok" THEN [answer |-> residues.answer]
    ELSE [answer |-> "Ok", mode |-> mode, status |-> residues.status,
          at |-> residues.at, coded |-> residues.rows,
          rows |-> Decouple(residues.rows, mapping.coupling),
          floors |-> [ch \in DOMAIN floors |->
                        DrawFloor(FloorOf(codec.setup, mapping, ch), floors[ch], n)]]

DecodeAfterFloors(mode, mapping, n, floors) ==
    LET used == Propagate([ch \in DOMAIN floors.coded |-> floors.coded[ch] # <<>>], mapping.coupling)
    IN  IF ~floors.ok THEN [answer |-> "Packet"]
        ELSE Decoded(mode, mapping, n, floors.coded, ReadBundles(mapping, used, floors.at, n))

DecodeInMode(mode, mapping, n, at) ==
    DecodeAfterFloors(mode, mapping, n, ReadFloors(mapping, stream.channels, at))

\* Decode a packet up to the floors' curves: a packet that ends before its
\* residue is refused.
DecodePacket ==
    LET header == Read(data, 0, ModeBits(codec.setup))
    IN  IF ~header.ok \/ header.value >= Len(codec.setup.modes) THEN [answer |-> "Packet"]
        ELSE DecodeInMode(header.value, MappingOf(codec.setup, header.value),
                          Bins(stream, codec.setup, header.value), header.at)

-----------------------------------------------------------------------------
\* The setup packet cut after any byte, or followed by more bits.
Presented(packet) ==
    [bytes : 0 .. Len(packet) \div ByteBits, more : {<<>>}]
    \union [bytes : {Len(packet) \div ByteBits},
            more : {Times(ByteBits, 0), Times(ByteBits, 1), Times(MaxRead + ByteBits, 0)}]

PacketInit ==
    /\ stream \in Streams
    /\ given = Nothing /\ codec = Nothing
    /\ block = Nothing /\ encoder = Nothing /\ integers = <<>>
    /\ written = Nothing /\ data = <<>> /\ decoded = Nothing

\* The decoder opens its codec on a setup packet.
TakeSetup ==
    /\ codec = Nothing
    /\ LET carried == PackSetup(stream.setup, stream.channels)
       IN  \E g \in Presented(carried) :
               LET packet == SubSeq(carried, 1, ByteBits * g.bytes) \o g.more
               IN  /\ given' = [whole |-> packet = carried]
                   /\ codec' = OpenCodec(ParseSetup(packet, stream.channels),
                                         packet = carried)
    /\ UNCHANGED <<stream, block, encoder, integers, written, data, decoded>>

\* The encoder is given a block, and looks up what it packs it by.
TakeBlock ==
    /\ codec.answer = "Ok" /\ block = Nothing
    /\ block' \in {b \in Blocks : b.stream = stream.name}
    /\ encoder' = ModeOf(stream, block'.mode)
    /\ integers' = ResidueRows(block', encoder')
    /\ UNCHANGED <<stream, given, codec, written, data, decoded>>

PackAudio ==
    /\ block # Nothing /\ written = Nothing
    /\ written' = PackBlock(block, encoder, integers)
    /\ data' = Buffer(written'.pack, ByteBits)
    /\ UNCHANGED <<stream, given, codec, block, encoder, integers, decoded>>

\* The packet is cut: a format that ends inside a residue is legal.
Cut ==
    /\ written # Nothing /\ decoded = Nothing
    /\ written.pack.answer = "Ok"
    /\ \E bytes \in 0 .. Len(data) \div ByteBits - 1 :
           data' = SubSeq(data, 1, ByteBits * bytes)
    /\ UNCHANGED <<stream, given, codec, block, encoder, integers, written, decoded>>

DecodeAudio ==
    /\ written # Nothing /\ decoded = Nothing
    /\ written.pack.answer = "Ok"
    /\ decoded' = DecodePacket
    /\ UNCHANGED <<stream, given, codec, block, encoder, integers, written, data>>

PacketNext == TakeSetup \/ TakeBlock \/ PackAudio \/ Cut \/ DecodeAudio

-----------------------------------------------------------------------------
WholePacket == Len(data) >= Len(written.pack.bits)
LiveChannels == {ch \in Channels(block) : Propagate(Flags(block), encoder.coupling)[ch]}
RowsDecoded == \A ch \in LiveChannels : \A i \in 1 .. encoder.n :
    decoded.coded[ch][i] = integers[ch][i] - written.work[ch][i]

\* The vectors left nothing of rows that quantising either left alone or
\* rounded before coupling, and no bin lies outside the coded ones.
ExactlyCoded ==
    /\ written.work = Silence(Len(block.posts), encoder.n)
    /\ encoder.joint \/ \A ch \in Channels(block) : \A i \in DOMAIN block.rows[ch] :
                            block.rows[ch][i] % Unit = 0
    /\ encoder.residue.begin = 0
RowsRestored == \A ch \in LiveChannels : \A i \in 1 .. encoder.n :
    decoded.rows[ch][i] = IF Flags(block)[ch] THEN Quantize(block.rows[ch][i]) ELSE 0

CurveOf(floor, fit) == QuantCurve(floor, Wrapped(floor, fit).posts, encoder.n)
FloorsDrawn == \A ch \in Channels(block) : Flags(block)[ch] =>
    LET curve == CurveOf(encoder.floors[ch], block.posts[ch])
    IN  decoded.floors[ch] = [bin \in 0 .. encoder.n - 1 |-> <<curve[bin]>>]

\* The whole setup packet opens the codec the encoder has, and no other one
\* opens any.
CodecOpens ==
    codec # Nothing =>
        /\ (codec.answer = "Ok") = given.whole
        /\ given.whole => codec.setup = stream.setup

\* A decoder that knows a stream from its setup packet alone reads what the
\* encoder wrote, in step to the last bit: the same mode, the floor the
\* encoder's residue was measured against, and the sum of the vectors it
\* subtracted.  A packet cut at any byte is refused in its head, or ends its
\* residue early with no bits left, never a defect
\* (decoder.rs:66-78, packet_encoder.rs:836-1045, setup.rs:441-600).
DecodesWhatWasCoded ==
    /\ CodecOpens
    /\ decoded # Nothing =>
        /\ decoded.answer # "ResidueBitstreamDefect"
        /\ WholePacket =>
              /\ decoded.answer = "Ok"
              /\ decoded.status # "EndOfPacket"
              /\ decoded.at = Len(written.pack.bits)
              /\ decoded.mode = block.mode
              /\ FloorsDrawn
              /\ RowsDecoded
              /\ ExactlyCoded => RowsRestored
        /\ ~WholePacket /\ decoded.answer = "Ok" =>
              decoded.status = "EndOfPacket" /\ decoded.at = Len(data) /\ FloorsDrawn

=============================================================================
