----------------------------- MODULE WemReader -----------------------------
(***************************************************************************)
(* The incremental reader of a decode session over the bytes of a file     *)
(* (crates/wem-core/src/decoder.rs, ContainerStream): what ContainerStream *)
(* counts, computed here from the bytes that arrived.                      *)
(*                                                                         *)
(* A file is a record: plan (what it is built from), bytes (those that     *)
(* exist: a file may be cut), whole (whether none is missing) and facts    *)
(* (what ContainerStream knows of it).                                     *)
(***************************************************************************)
EXTENDS WemFile

CONSTANT Files           \* the files a caller may push

VARIABLES file,          \* the file being pushed
          container,     \* its facts, as ContainerStream has them
          received,      \* bytes of it pushed so far
          pending,       \* bytes held
          cursor,        \* bytes of `pending` consumed, not yet compacted away
          header,        \* whether the header region is resolved
          endian,        \* byte order of the file
          remaining,     \* data payload bytes not consumed yet
          seekLeft,      \* seek-table bytes still to skip
          setupTaken,    \* whether the setup packet was accepted
          audioPackets,  \* audio packets accepted so far
          delivered,     \* the packets accepted so far
          running,       \* whether a call is at work
          refused        \* what the reader refused the file with

payloadVars == <<remaining, seekLeft>>
readerVars == <<file, container, received, pending, cursor, header, endian, payloadVars,
                setupTaken, audioPackets, delivered, running, refused>>

\* Chunks as they are built, the data chunk before the others, or with the
\* fmt payload cut.
InOrder(chunks, order) ==
    CASE order = "built" -> chunks
      [] order = "data first" -> <<Last(chunks)>> \o Front(chunks)
      [] order = "short fmt" -> [chunks EXCEPT ![1].payload = SubSeq(@, 1, FmtSize - 1)]

\* Where the payload of chunk i is.
PayloadAt(chunks, i) ==
    [at |-> HeaderBytes + ChunkHeader
            + SumFunction([j \in 1 .. i - 1 |-> Advance(Len(chunks[j].payload))]),
     size |-> Len(chunks[i].payload)]

IndexOf(chunks, id) == CHOOSE i \in DOMAIN chunks : chunks[i].id = id

\* The file as ContainerStream has it: the facts its plan implies.
FactsOf(plan, length, fmt, data) ==
    [length |-> length, riff |-> TRUE, fmtEnd |-> fmt.at + fmt.size,
     fmt |-> IF fmt.size < FmtSize THEN "FmtTooShort"
             ELSE IF plan.fields.w_format_tag # MaxU16 THEN "NotWwiseVorbis" ELSE "Ok",
     dataAt |-> data.at, dataSize |-> data.size,
     seek |-> IF plan.recompute THEN Len(plan.seekTable) ELSE plan.fields.dw_seek_table_size,
     packets |-> [i \in DOMAIN plan.packets |->
        [at |-> data.at + Len(plan.seekTable)
                + SumFunction([j \in 1 .. i - 1 |-> 2 + Len(plan.packets[j])]),
         len |-> Len(plan.packets[i])]]]

\* The first `kept` bytes of a file, and of what follows it.
CutFile(plan, chunks, bytes, kept) ==
    LET length == Least(kept, Len(bytes))
    IN  [plan |-> plan, bytes |-> SubSeq(bytes, 1, length), whole |-> kept >= Len(bytes),
         facts |-> FactsOf(plan, length, PayloadAt(chunks, IndexOf(chunks, Fmt)),
                           PayloadAt(chunks, IndexOf(chunks, Data)))]

FileOfChunks(plan, chunks, kept, after) ==
    CutFile(plan, chunks, BuildRiff(chunks, plan.endian) \o after, kept)

\* The file of a plan: the order of its chunks, the bytes kept of it, the
\* bytes that follow it.
FileOf(plan, order, kept, after) ==
    FileOfChunks(plan, InOrder(BuildChunks(plan).chunks, order), kept, after)

Unread == SubSeq(pending, cursor + 1, Len(pending))

Consume(count) ==
    LET after == Least(cursor + count, Len(pending))
        drop == after >= Len(pending) - after
    IN  /\ pending' = IF drop THEN SubSeq(pending, after + 1, Len(pending)) ELSE pending
        /\ cursor' = IF drop THEN 0 ELSE after

ReaderInit ==
    /\ file \in Files
    /\ container = file.facts
    /\ received = 0 /\ pending = <<>> /\ cursor = 0
    /\ header = FALSE /\ endian = "Little"
    /\ remaining = 0 /\ seekLeft = 0
    /\ setupTaken = FALSE /\ audioPackets = 0
    /\ delivered = <<>>
    /\ running = FALSE /\ refused = "none"

\* Some of the bytes arrive: one, or all that are left.
PushBytes ==
    /\ ~running /\ refused = "none"
    /\ \E count \in {1, container.length - received} :
          /\ count > 0 /\ received + count <= container.length
          /\ received' = received + count
          /\ pending' = pending \o BytesAt(file.bytes, received, count)
    /\ running' = TRUE
    /\ UNCHANGED <<file, container, cursor, header, endian, payloadVars, setupTaken, audioPackets,
                   delivered, refused>>

\* What the chunks of the bytes held say of the header region: a fmt
\* payload that is complete, then a data chunk that has begun.
Says(answer) == [answer |-> answer]

DataRegion(chunk, byteOrder, seek) ==
    IF seek > chunk.size THEN Says("BadSeekTableSize")
    ELSE [answer |-> "Ok", endian |-> byteOrder, dataAt |-> chunk.off + ChunkHeader,
          size |-> chunk.size, seek |-> seek]

RegionAfter(fmt, datas, byteOrder) ==
    IF fmt.size < FmtSize THEN Says("FmtTooShort")
    ELSE IF ReadField(fmt.payload, "w_format_tag") # MaxU16 THEN Says("NotWwiseVorbis")
    ELSE IF datas = <<>> THEN Says("Short")
    ELSE DataRegion(datas[1], byteOrder, ReadField(fmt.payload, "dw_seek_table_size"))

RegionIn(fmts, datas, byteOrder) ==
    IF fmts = <<>> THEN Says("Short") ELSE RegionAfter(fmts[1], datas, byteOrder)

RegionOf(parsed) ==
    IF parsed.answer # "Ok" THEN Says(parsed.answer)
    ELSE RegionIn(FirstChunk(SelectSeq(parsed.chunks, LAMBDA c : Len(c.payload) = c.size), Fmt),
                  FirstChunk(parsed.chunks, Data), parsed.endian)

Region == IF Len(Unread) < HeaderBytes THEN Says("Short") ELSE RegionOf(ParseChunks(Unread))

EnterRegion(region) ==
    /\ region.answer = "Ok"
    /\ Consume(Least(region.dataAt, Len(Unread)))
    /\ header' = TRUE
    /\ endian' = region.endian
    /\ remaining' = region.size
    /\ seekLeft' = region.seek

ResolveHeader ==
    /\ running /\ ~header
    /\ EnterRegion(Region)
    /\ UNCHANGED <<file, container, received, setupTaken, audioPackets, delivered, running, refused>>

RefuseHeader ==
    /\ running /\ ~header
    /\ Region.answer \notin {"Ok", "Short"}
    /\ refused' = Region.answer
    /\ running' = FALSE
    /\ UNCHANGED <<file, container, received, pending, cursor, header, endian, payloadVars,
                   setupTaken, audioPackets, delivered>>

\* Mutant of SkipSeekTable: the table is skipped with the push it starts in.
SkipSeekTableOnce ==
    /\ running /\ header /\ seekLeft > 0 /\ Unread # <<>>
    /\ LET skip == Least(seekLeft, Len(Unread))
       IN  /\ Consume(skip)
           /\ seekLeft' = 0
           /\ remaining' = remaining - skip
    /\ UNCHANGED <<file, container, received, header, endian, setupTaken, audioPackets,
                   delivered, running, refused>>

SkipSeekTable ==
    /\ running /\ header /\ seekLeft > 0 /\ Unread # <<>>
    /\ LET skip == Least(seekLeft, Len(Unread))
       IN  /\ Consume(skip)
           /\ seekLeft' = seekLeft - skip
           /\ remaining' = remaining - skip
    /\ UNCHANGED <<file, container, received, header, endian, setupTaken, audioPackets, delivered,
                   running, refused>>

PacketBytesHere == 2 + Number(BytesAt(Unread, 0, 2), endian)

Peekable ==
    /\ header /\ seekLeft = 0 /\ remaining > 0
    /\ Len(Unread) >= 2
    /\ PacketBytesHere <= remaining
    /\ Len(Unread) >= PacketBytesHere

TakePacket ==
    /\ running /\ Peekable
    /\ delivered' = Append(delivered, BytesAt(Unread, 2, PacketBytesHere - 2))
    /\ Consume(PacketBytesHere)
    /\ remaining' = remaining - PacketBytesHere
    /\ setupTaken' = TRUE
    /\ audioPackets' = IF setupTaken THEN audioPackets + 1 ELSE audioPackets
    /\ UNCHANGED <<file, container, received, header, endian, seekLeft, running, refused>>

\* The call returns: the region, the seek table or the next packet is not
\* complete, or the payload is.
AwaitBytes ==
    /\ running
    /\ IF header THEN ~Peekable /\ ~(seekLeft > 0 /\ Unread # <<>>) ELSE Region.answer = "Short"
    /\ running' = FALSE
    /\ UNCHANGED <<file, container, received, pending, cursor, header, endian, payloadVars,
                   setupTaken, audioPackets, delivered, refused>>

ReaderNext ==
    PushBytes \/ ResolveHeader \/ RefuseHeader \/ SkipSeekTable \/ TakePacket \/ AwaitBytes

-----------------------------------------------------------------------------
Framing == INSTANCE ContainerStream WITH
    Containers <- {f.facts : f \in Files}, RiffHeader <- HeaderBytes,
    pendingLen <- Len(pending)

FramingStep ==
    \/ /\ \E count \in 1 .. container.length : Framing!Accumulate(count)
       /\ UNCHANGED <<header, payloadVars, delivered, refused>>
    \/ /\ ~header /\ Framing!HeaderAnswer(container, Framing!Unread) = "Ok"
       /\ Framing!TakeHeader /\ UNCHANGED <<delivered, refused>>
    \/ /\ header /\ Framing!SkipSeekTable /\ UNCHANGED <<delivered, refused>>
    \/ \E i \in DOMAIN file.plan.packets :
           /\ header /\ Framing!Peekable(i) /\ Framing!CommitPacket(i)
           /\ delivered' = Append(delivered, file.plan.packets[i])
           /\ UNCHANGED refused
    \/ /\ UNCHANGED <<Framing!streamVars, delivered>>
       /\ IF header THEN refused' = refused /\ (Framing!PayloadDone \/ Framing!PacketShort)
          ELSE Framing!HeaderAnswer(container, Framing!Unread)
               = IF refused' = "none" THEN "Short" ELSE refused'

\* Reading the bytes does what the framing of the decode session does with
\* the facts of the file: the header region resolves, waits or is refused on
\* the same bytes, and the same packets are taken at the same places, however
\* the bytes arrive (decoder.rs:297-417, riff.rs:62-105).
ImplementsFraming == [][FramingStep]_readerVars

\* Everything that exists was pushed and read.
Drained == received > 0 /\ ~running /\ received = container.length

\* The fmt payload locates the packets that follow the setup packet.
LocatesPackets(loaded, audio) ==
    LET Field(field) == ReadField(loaded.fmt, field)
    IN  /\ Field("dw_data_payload_size") = Len(loaded.payload)
        /\ BuildPacketStream(audio, <<>>, file.plan.endian).payload
           = SubSeq(loaded.payload, Field("dw_first_audio_packet_offset") + 1,
                    Len(loaded.payload))
        /\ \A i \in DOMAIN audio : Len(audio[i]) <= Field("u_max_packet_size")

ReadAlike(loaded) ==
    LET vorbis == loaded.answer = "Ok" /\ loaded.vorbis
    IN  /\ file.whole =>
              /\ refused = IF loaded.answer # "Ok" THEN loaded.answer
                           ELSE IF vorbis THEN "none" ELSE "NotWwiseVorbis"
              /\ vorbis => /\ header /\ remaining = 0
                           /\ delivered = file.plan.packets
                           /\ loaded.packets = file.plan.packets
              /\ (vorbis /\ file.plan.recompute) =>
                    LocatesPackets(loaded, AudioOf(file.plan.packets))
        /\ (~file.whole /\ vorbis) => refused = "none" /\ delivered = loaded.packets

\* The two readers agree on what was built.  Whatever the pushes, the packets
\* taken so far are the first of the plan's; a whole file gives all of them
\* to both, and its fmt payload locates them; of a cut file the loader never
\* accepts more than the reader took, and both refuse the same files
\* (wem.rs:31-88 and 129-190, decoder.rs:288-417).
ReadersAgreeWithPlan ==
    /\ IsPrefix(delivered, file.plan.packets)
    /\ Drained => ReadAlike(LoadParts(file.bytes))

=============================================================================
