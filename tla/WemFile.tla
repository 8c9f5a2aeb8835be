------------------------------ MODULE WemFile -------------------------------
(***************************************************************************)
(* A WEM file byte by byte, built and loaded whole                         *)
(* (crates/wem-container/src: riff.rs, fmt.rs, packets.rs, wem.rs).  A     *)
(* file is a sequence of bytes; offsets count from 0.                      *)
(*                                                                         *)
(* A plan is what a caller builds a file from: fields (of the fmt          *)
(* payload), packets, seekTable, endian, extra (chunks between fmt and     *)
(* data), recompute, and fmtRaw (a fmt payload, empty for none).           *)
(***************************************************************************)
EXTENDS Arithmetic, SequencesExt

CONSTANT Base            \* values of a byte (256 in the code)

ASSUME BaseAssumption == Base \in Nat \ {0, 1}

Endians == {"Little", "Big"}

Digits(value, width, endian) ==
    LET little == [i \in 1 .. width |-> (value \div (Base ^ (i - 1))) % Base]
    IN  IF endian = "Little" THEN little ELSE Reverse(little)

Number(bytes, endian) ==
    FoldRight(LAMBDA byte, above : byte + Base * above,
              IF endian = "Little" THEN bytes ELSE Reverse(bytes), 0)

BytesAt(raw, at, count) == SubSeq(raw, at + 1, at + count)
MaxU16 == Base ^ 2 - 1

FourCC(ascii) == [i \in 1 .. 4 |-> ascii[i] % Base]
Riff == FourCC(<<82, 73, 70, 70>>)
Rifx == FourCC(<<82, 73, 70, 88>>)
Wave == FourCC(<<87, 65, 86, 69>>)
Fmt == FourCC(<<102, 109, 116, 32>>)
Data == FourCC(<<100, 97, 116, 97>>)

HeaderBytes == 12        \* marker, size, WAVE
ChunkHeader == 8         \* id, size

\* An odd payload is padded unless it is the last.
Pad(size, last) == IF size % 2 = 1 /\ ~last THEN <<0>> ELSE <<>>

BuildRiff(chunks, endian) ==
    LET Written(i) == chunks[i].id \o Digits(Len(chunks[i].payload), 4, endian)
                      \o chunks[i].payload \o Pad(Len(chunks[i].payload), i = Len(chunks))
        body == Wave \o FlattenSeq([i \in DOMAIN chunks |-> Written(i)])
    IN  (IF endian = "Little" THEN Riff ELSE Rifx) \o Digits(Len(body), 4, endian) \o body

\* Mutant of Advance: an odd chunk is not skipped to an even offset.
AdvanceUnpadded(size) == ChunkHeader + size

Advance(size) == ChunkHeader + size + (size % 2)

\* The chunks of the bytes, of a file or the start of one: the declared
\* extent is clamped to them, and so is the payload of the last chunk.
ParseChunks(raw) ==
    LET marker == BytesAt(raw, 0, 4)
        endian == IF marker = Riff THEN "Little" ELSE "Big"
        end == Least(8 + Number(BytesAt(raw, 4, 4), endian), Len(raw))
        ChunkAt(at) ==
            LET size == Number(BytesAt(raw, at + 4, 4), endian)
                from == at + ChunkHeader
            IN  [id |-> BytesAt(raw, at, 4), size |-> size, off |-> at,
                 payload |-> BytesAt(raw, from, Least(size, Len(raw) - from))]
        From[at \in Nat] ==
            IF at + ChunkHeader > end THEN <<>>
            ELSE LET chunk == ChunkAt(at) IN <<chunk>> \o From[at + Advance(chunk.size)]
    IN  IF Len(raw) < 4 \/ marker \notin {Riff, Rifx} THEN [answer |-> "NotRiff"]
        ELSE IF Len(raw) < 8 THEN [answer |-> "TruncatedRiff"]
        ELSE [answer |-> "Ok", endian |-> endian, chunks |-> From[HeaderBytes]]

\* The first chunk of an id, as a sequence of none or one.
FirstChunk(chunks, id) ==
    LET picked == SelectSeq(chunks, LAMBDA c : c.id = id)
    IN  SubSeq(picked, 1, Least(1, Len(picked)))

-----------------------------------------------------------------------------
\* The fields of the fmt payload in their order, with their widths.
FmtLayout == <<
    <<"w_format_tag", 2>>, <<"n_channels", 2>>, <<"n_samples_per_sec", 4>>,
    <<"n_avg_bytes_per_sec", 4>>, <<"n_block_align", 2>>, <<"w_bits_per_sample", 2>>,
    <<"cb_size", 2>>, <<"w_reserved0", 2>>, <<"dw_channel_mask", 4>>,
    <<"dw_total_pcm_frames", 4>>, <<"dw_first_audio_packet_offset", 4>>,
    <<"dw_data_payload_size", 4>>, <<"dw_unknown_0x24", 4>>, <<"dw_seek_table_size", 4>>,
    <<"dw_vorbis_data_offset", 4>>, <<"u_max_packet_size", 2>>, <<"u_unknown_0x32", 2>>,
    <<"dw_unknown_0x34", 4>>, <<"dw_unknown_0x38", 4>>, <<"dw_unknown_0x3c", 4>>,
    <<"u_blocksize0_pow", 1>>, <<"u_blocksize1_pow", 1>> >>
FmtFields == {FmtLayout[i][1] : i \in DOMAIN FmtLayout}
FmtSize == SumFunction([i \in DOMAIN FmtLayout |-> FmtLayout[i][2]])

\* Index of a field in the layout, its offset and its width.
Place(field) == CHOOSE i \in DOMAIN FmtLayout : FmtLayout[i][1] = field
Offset(field) == SumFunction([i \in 1 .. Place(field) - 1 |-> FmtLayout[i][2]])
Width(field) == FmtLayout[Place(field)][2]

\* Little-endian whatever the file is.
PackFmt(fields) ==
    FlattenSeq([i \in DOMAIN FmtLayout |->
        Digits(fields[FmtLayout[i][1]], FmtLayout[i][2], "Little")])

ReadField(payload, field) ==
    Number(BytesAt(payload, Offset(field), Width(field)), "Little")

PatchField(payload, field, value) ==
    BytesAt(payload, 0, Offset(field)) \o Digits(value, Width(field), "Little")
    \o SubSeq(payload, Offset(field) + Width(field) + 1, Len(payload))

-----------------------------------------------------------------------------
PacketBytes(packets) == SumFunction([i \in DOMAIN packets |-> 2 + Len(packets[i])])
AudioOf(packets) == SubSeq(packets, 2, Len(packets))
SetupOf(packets) == SubSeq(packets, 1, Least(1, Len(packets)))

\* Largest audio packet; the field keeps its value when there is none.
MaxPacket(packets, otherwise) ==
    IF Len(packets) < 2 THEN otherwise
    ELSE Max({Len(AudioOf(packets)[i]) : i \in DOMAIN AudioOf(packets)}) % (MaxU16 + 1)

\* Mutant of FirstAudioOffset: the seek table is left out.
FirstAudioOffsetBare(packets, seekTable) == PacketBytes(SetupOf(packets))

FirstAudioOffset(packets, seekTable) == Len(seekTable) + PacketBytes(SetupOf(packets))

\* Frames the audio packets render, a pair of neighbours at a time.
RenderedFrames(audio, fields) ==
    LET Block(i) == 2 ^ fields[IF audio[i][1] % 2 = 1 THEN "u_blocksize1_pow" ELSE "u_blocksize0_pow"]
    IN  SumFunction([i \in 1 .. Len(audio) - 1 |-> (Block(i) + Block(i + 1)) \div 4])

\* The fields that follow from the packets; refused when the last overlap
\* does not fit its field.
Recompute(fields, packets, seekTable) ==
    LET audio == AudioOf(packets)
        size == Len(seekTable) + PacketBytes(packets)
        first == FirstAudioOffset(packets, seekTable)
        total == fields.dw_total_pcm_frames
        rate == fields.n_samples_per_sec
        renders == /\ Len(audio) >= 2
                   /\ \A i \in DOMAIN audio : audio[i] # <<>>
                   /\ fields.u_blocksize0_pow < 32 /\ fields.u_blocksize1_pow < 32
        excess == Greatest(0, RenderedFrames(audio, fields) - total)
        sized == [fields EXCEPT
                    !.dw_seek_table_size = Len(seekTable), !.dw_data_payload_size = size,
                    !.dw_first_audio_packet_offset = first, !.dw_vorbis_data_offset = first,
                    !.u_max_packet_size = MaxPacket(packets, @)]
        ended == IF ~renders THEN sized
                 ELSE [sized EXCEPT !.u_unknown_0x32 = excess,
                                    !.dw_unknown_0x24 = excess * Base ^ 2]
    IN  IF renders /\ excess > MaxU16 THEN [answer |-> "TerminalExcessTooLarge"]
        ELSE [answer |-> "Ok",
              fields |-> IF total = 0 \/ rate = 0 THEN ended
                         ELSE [ended EXCEPT !.n_avg_bytes_per_sec = (size * rate) \div total]]

\* The sizes and offsets of a fmt payload the caller gave.
Patch(payload, packets, seekTable) ==
    LET first == FirstAudioOffset(packets, seekTable)
        Set(bytes, field, value) == PatchField(bytes, field, value)
    IN  Set(Set(Set(Set(Set(payload,
            "dw_data_payload_size", Len(seekTable) + PacketBytes(packets)),
            "dw_seek_table_size", Len(seekTable)),
            "dw_first_audio_packet_offset", first),
            "dw_vorbis_data_offset", first),
            "u_max_packet_size", MaxPacket(packets, ReadField(payload, "u_max_packet_size")))

\* Mutant of SizePrefix: little-endian whatever the file is.
SizePrefixLittle(packet, endian) == Digits(Len(packet), 2, "Little")

SizePrefix(packet, endian) == Digits(Len(packet), 2, endian)

BuildPacketStream(packets, seekTable, endian) ==
    IF \E i \in DOMAIN packets : Len(packets[i]) > MaxU16 THEN [answer |-> "PacketTooLarge"]
    ELSE [answer |-> "Ok", payload |-> seekTable \o FlattenSeq(
            [i \in DOMAIN packets |-> SizePrefix(packets[i], endian) \o packets[i]])]

\* The fmt, extra and data chunks of a plan's file.
BuildChunks(plan) ==
    LET given == plan.fmtRaw # <<>>
        derived == IF plan.recompute /\ ~given
                   THEN Recompute(plan.fields, plan.packets, plan.seekTable)
                   ELSE [answer |-> "Ok", fields |-> plan.fields]
        packed == IF given THEN plan.fmtRaw ELSE PackFmt(derived.fields)
        stream == BuildPacketStream(plan.packets, plan.seekTable, plan.endian)
        payload == IF plan.recompute /\ given THEN Patch(packed, plan.packets, plan.seekTable)
                   ELSE packed
    IN  IF derived.answer # "Ok" THEN derived
        ELSE IF Len(packed) # FmtSize THEN [answer |-> "FmtSize"]
        ELSE IF stream.answer # "Ok" THEN stream
        ELSE [answer |-> "Ok",
              chunks |-> <<[id |-> Fmt, payload |-> payload]>> \o plan.extra
                         \o <<[id |-> Data, payload |-> stream.payload]>>]

-----------------------------------------------------------------------------
\* Split a data payload into its packets; a walk that does not end with the
\* payload is refused.
ExtractPackets(payload, seek, endian) ==
    LET SizeAt(at) == Number(BytesAt(payload, at, 2), endian)
        Fails(at) == at + 2 > Len(payload) \/ at + 2 + SizeAt(at) > Len(payload)
        From[at \in Nat] ==
            IF at = Len(payload) THEN [answer |-> "Ok", packets |-> <<>>]
            ELSE IF Fails(at) THEN [answer |-> "PacketWalkFailed"]
            ELSE LET rest == From[at + 2 + SizeAt(at)]
                 IN  IF rest.answer # "Ok" THEN rest
                     ELSE [rest EXCEPT !.packets = <<BytesAt(payload, at + 2, SizeAt(at))>> \o @]
    IN  IF seek > Len(payload) THEN [answer |-> "BadSeekTableSize"] ELSE From[seek]

\* The parts of a whole file; a file of another format has no packets.
LoadParts(raw) ==
    LET parsed == ParseChunks(raw)
        fmt == FirstChunk(parsed.chunks, Fmt)
        payload == FirstChunk(parsed.chunks, Data)
        vorbis == ReadField(fmt[1].payload, "w_format_tag") = MaxU16
        walk == ExtractPackets(payload[1].payload, ReadField(fmt[1].payload, "dw_seek_table_size"),
                               parsed.endian)
    IN  IF parsed.answer # "Ok" THEN parsed
        ELSE IF fmt = <<>> \/ payload = <<>> THEN [answer |-> "MissingChunk"]
        ELSE IF Len(fmt[1].payload) < FmtSize THEN [answer |-> "FmtTooShort"]
        ELSE IF vorbis /\ walk.answer # "Ok" THEN walk
        ELSE [answer |-> "Ok", vorbis |-> vorbis, fmt |-> fmt[1].payload,
              payload |-> payload[1].payload,
              packets |-> IF vorbis THEN walk.packets ELSE <<>>]

=============================================================================
