--------------------------- MODULE MCDecodeSession --------------------------
(***************************************************************************)
(* The files a decode session is checked on, the contract it implements,   *)
(* and its properties.                                                     *)
(***************************************************************************)
EXTENDS DecodeSession, SequencesExt

-----------------------------------------------------------------------------
\* Building files.

FmtEnd == RiffHeader + 2     \* the header region, scaled down
DataHeader == 1

GoodSetup == [parses |-> TRUE, complete |-> TRUE, geometryHeld |-> TRUE,
              powersFit |-> TRUE, sizesAgree |-> TRUE, carried |-> TRUE]

Setup(len) == [len |-> len, mode |-> 0]

Audio(len, mode) == [len |-> len, mode |-> mode, parses |-> TRUE,
                     residue |-> "Complete", bitsLeft |-> 0, posts |-> TRUE]

\* Lay packets out one after the other from the file offset `from`.
Placed(packets, from) ==
    LET at[i \in 1 .. Len(packets) + 1] ==
          IF i = 1 THEN from ELSE at[i - 1] + PrefixSize + packets[i - 1].len
    IN  [i \in DOMAIN packets |-> packets[i] @@ [at |-> at[i]]]

PayloadSize(packets) ==
    MapThenSumSet(LAMBDA i : PrefixSize + packets[i].len, DOMAIN packets)

\* A well-formed file: fmt, then data with a seek table and the packets, then
\* `after` more bytes.
File(packets, seek, total, after) ==
    LET dataAt == FmtEnd + DataHeader
        size == seek + PayloadSize(packets)
    IN  [length |-> dataAt + size + after, riff |-> TRUE,
         fmtEnd |-> FmtEnd, fmt |-> "Ok", dataAt |-> dataAt,
         dataSize |-> size, seek |-> seek, setup |-> GoodSetup,
         total |-> total, packets |-> Placed(packets, dataAt + seek)]

AudioOf(modes) == [k \in DOMAIN modes |-> Audio(1 + (k % 2), modes[k])]

FileOf(modes, seek, total, after) ==
    File(<<Setup(1)>> \o AudioOf(modes), seek, total, after)

ModeSequences(n) == UNION {[1..k -> Modes] : k \in 0..n}

\* Streams that decode, end early or end late, with and without a seek table.
CleanFiles ==
    {FileOf(ms, seek, total, 0) :
        ms \in ModeSequences(3), seek \in {0, 1}, total \in {3, 7}}

Base == FileOf(<<1, 0, 1>>, 1, 7, 2)

\* The base file with one thing wrong, or one thing unusual, in it.
OddFiles ==
    {Base, [Base EXCEPT !.riff = FALSE],
     [Base EXCEPT !.seek = Base.dataSize + 1],
     [Base EXCEPT !.dataSize = @ - 1], [Base EXCEPT !.dataSize = @ + 1],
     File(<<>>, 2, 0, 1), File(<<>>, 0, 4, 0)}
    \cup {[Base EXCEPT !.fmt = answer] :
             answer \in {"BadFmt", "NotWwiseVorbis"}}
    \cup {[Base EXCEPT !.setup[fact] = FALSE] : fact \in DOMAIN GoodSetup}
    \cup {[Base EXCEPT !.packets[i].parses = FALSE] : i \in 2..4}
    \cup {[Base EXCEPT !.packets[i].residue = "EndOfPacket",
                       !.packets[i].bitsLeft = bits] : i \in 2..4, bits \in 0..1}
    \cup {[Base EXCEPT !.packets[i].posts = FALSE] : i \in {3}}

\* The data chunk before the fmt chunk.
DataFirst ==
    LET packets == <<Setup(1)>> \o AudioOf(<<0, 1>>)
        dataAt == RiffHeader + DataHeader
        size == PayloadSize(packets)
    IN  [File(packets, 0, 3, 2) EXCEPT
            !.length = dataAt + size + 2, !.dataAt = dataAt,
            !.fmtEnd = dataAt + size + 2, !.packets = Placed(packets, dataAt)]

AllFiles == CleanFiles \cup OddFiles \cup {DataFirst}

\* Files with bytes after the data payload.
TrailingFiles == {FileOf(<<0>>, 0, 2, after) : after \in {0, 8}}

\* Files whose block sizes do not agree with the profile's.
BlockSizeFiles ==
    {[Base EXCEPT !.setup.sizesAgree = FALSE],
     [Base EXCEPT !.setup.sizesAgree = FALSE, !.setup.powersFit = FALSE]}

-----------------------------------------------------------------------------
\* Every call returns: whatever the framing is short of, it answers so and does
\* not wait for more (decoder.rs:371-404).
CallsReturn == Contract!Prompt

\* The size of the largest packet of the file.
LargestPacket ==
    Max({PrefixSize} \cup {Size(i) : i \in DOMAIN container.packets})

\* The documentation's memory claim: what a live session holds does not grow
\* with the stream, unconsumed bytes being at most one packet
\* (decoder.rs:104-106, "none of them grows with the stream").
PendingBounded ==
    phase = "idle" /\ header => Unread <= LargestPacket

\* The documentation's error classes: block sizes that disagree with the
\* profile's are malformed input, never a defect (docs/reference/decoding.md,
\* "What is accepted, and what is refused").
ContainerNeverInternal == outcome # "Internal"

=============================================================================
