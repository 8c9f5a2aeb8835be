----------------------------- MODULE SetupPacket ----------------------------
(***************************************************************************)
(* The setup packet of a stream, packed and parsed                         *)
(* (crates/wem-vorbis/src/setup.rs), and the codec a decode session opens  *)
(* on it (open_codec in crates/wem-core/src/decoder.rs).                   *)
(*                                                                         *)
(* A setup is a record of five tables:                                     *)
(*   books     ids of the profile's library, from 0                        *)
(*   floors    partitions, classes (as Floor1 has them), multiplier,       *)
(*             rangebits and xs (the inner posts)                          *)
(*   residues  as Residue has them                                         *)
(*   maps      submaps, coupling, reserved, chmux, floors, residues        *)
(*   modes     blockflag, mapping                                          *)
(* Books, classes and channels count from 1, and 0 is no book; what the    *)
(* packet numbers from 0 otherwise counts from 0.                          *)
(***************************************************************************)
EXTENDS Floor1, Residue

CONSTANTS Library,       \* the books of the profile
          Scales         \* range, fitStep and level multiplier per floor multiplier

ByteBits == 8
MaxRead == 64            \* the widest read

\* A stage's place in a cascade.
Stages0 == [k \in 1 .. Stages |-> k - 1]

BitSum(stages) == SumFunctionOnSet([s \in 0 .. Stages |-> 2 ^ s], stages)

-----------------------------------------------------------------------------
(* The fields of a packet in their order, each a value and a width.         *)

FloorClassFields(class) ==
    <<<<class.dim - 1, 3>>, <<class.subs, 2>>>>
    \o (IF class.subs = 0 THEN <<>> ELSE <<<<class.master - 1, 8>>>>)
    \o [j \in DOMAIN class.books |-> <<class.books[j], 8>>]

FloorFields(floor) ==
    <<<<Len(floor.partitions), 5>>>>
    \o [i \in DOMAIN floor.partitions |-> <<floor.partitions[i] - 1, 4>>]
    \o FlattenSeq([c \in DOMAIN floor.classes |-> FloorClassFields(floor.classes[c])])
    \o <<<<floor.multiplier - 1, 2>>, <<floor.rangebits, 4>>>>
    \o [i \in DOMAIN floor.xs |-> <<floor.xs[i], floor.rangebits>>]

\* Mutant of CascadeFields: a cascade of the third stage counts as a long one.
CascadeFieldsEarly(stages) ==
    LET high == BitSum({s - 3 : s \in stages \ 0 .. 2})
        low == BitSum(stages \cap 0 .. 2)
    IN  IF stages \subseteq 0 .. 1 THEN <<<<low, 4>>>>
        ELSE <<<<low, 3>>, <<high % 2, 1>>, <<high, 5>>>>

\* The stages of a class: three bits, and five more when a later stage has one.
CascadeFields(stages) ==
    LET high == BitSum({s - 3 : s \in stages \ 0 .. 2})
        low == BitSum(stages \cap 0 .. 2)
    IN  IF high = 0 THEN <<<<low, 4>>>> ELSE <<<<low, 3>>, <<1, 1>>, <<high, 5>>>>

StagesHeld(stages) == SelectSeq(Stages0, LAMBDA s : s \in stages)

ResidueFields(residue) ==
    LET BookFields(c) == [k \in DOMAIN StagesHeld(residue.cascades[c]) |->
                <<residue.books[c][StagesHeld(residue.cascades[c])[k] + 1] - 1, 8>>]
    IN  <<<<residue.type, 2>>, <<residue.begin, 24>>, <<residue.end, 24>>,
          <<residue.part - 1, 24>>, <<residue.classes - 1, 6>>, <<residue.classbook - 1, 8>>>>
        \o FlattenSeq([c \in DOMAIN residue.cascades |-> CascadeFields(residue.cascades[c])])
        \o FlattenSeq([c \in DOMAIN residue.cascades |-> BookFields(c)])

ChannelBits(channels) == Ilog(Greatest(0, channels - 1))

MappingFields(mapping, channels) ==
    LET Coupled(step) == <<<<step[1] - 1, ChannelBits(channels)>>, <<step[2] - 1, ChannelBits(channels)>>>>
    IN  (IF mapping.submaps <= 1 THEN <<<<0, 1>>>> ELSE <<<<1, 1>>, <<mapping.submaps - 1, 4>>>>)
        \o (IF mapping.coupling = <<>> THEN <<<<0, 1>>>>
            ELSE <<<<1, 1>>, <<Len(mapping.coupling) - 1, 8>>>>
                 \o FlattenSeq([k \in DOMAIN mapping.coupling |-> Coupled(mapping.coupling[k])]))
        \o <<<<mapping.reserved, 2>>>>
        \o (IF mapping.submaps <= 1 THEN <<>>
            ELSE [ch \in DOMAIN mapping.chmux |-> <<mapping.chmux[ch], 4>>])
        \o FlattenSeq([s \in 1 .. mapping.submaps |->
                <<<<0, 8>>, <<mapping.floors[s], 8>>, <<mapping.residues[s], 8>>>>])

ModeFields(mode) == <<<<mode.blockflag, 1>>, <<mode.mapping, 8>>>>

FieldBits(fields) == FlattenSeq([i \in DOMAIN fields |-> BitsOf(fields[i][1], fields[i][2])])

\* The records of a table, after their count.
TableBits(records, width) ==
    BitsOf(Len(records) - 1, width) \o FlattenSeq([i \in DOMAIN records |-> FieldBits(records[i])])

SetupBits(setup, channels) ==
    TableBits([i \in DOMAIN setup.books |-> <<<<setup.books[i], 10>>>>], 8)
    \o TableBits([i \in DOMAIN setup.floors |-> FloorFields(setup.floors[i])], 6)
    \o TableBits([i \in DOMAIN setup.residues |-> ResidueFields(setup.residues[i])], 6)
    \o TableBits([i \in DOMAIN setup.maps |-> MappingFields(setup.maps[i], channels)], 6)
    \o TableBits([i \in DOMAIN setup.modes |-> ModeFields(setup.modes[i])], 6)

PackSetup(setup, channels) ==
    Buffer([EmptyPack EXCEPT !.bits = SetupBits(setup, channels)], ByteBits)

-----------------------------------------------------------------------------
(* Reading.  A part read so far is ok, the position after it, and what was   *)
(* got; parts that fail make the whole fail.                                 *)

Part(ok, at, got) == [ok |-> ok, at |-> at, got |-> got]

\* One part more, of a sequence of them.
Gather(parts, part) ==
    IF ~parts.ok THEN parts
    ELSE IF ~part.ok THEN Part(FALSE, part.at, <<>>)
    ELSE Part(TRUE, part.at, Append(parts.got, part.got))

Field(read) == Part(read.ok, read.at, read.value)

ReadFields(data, at, widths) ==
    FoldLeft(LAMBDA parts, width : Gather(parts, Field(Read(data, parts.at, width))),
             Part(TRUE, at, <<>>), widths)

Times(count, width) == [i \in 1 .. count |-> width]

ReadFloorClass(data, at) ==
    LET head == ReadFields(data, at, <<3, 2>>)
        choices == head.got[2]
        books == ReadFields(data, head.at, Times(2 ^ choices + Least(choices, 1), 8))
    IN  IF ~head.ok \/ ~books.ok THEN Part(FALSE, at, <<>>)
        ELSE Part(TRUE, books.at,
                  [dim |-> head.got[1] + 1, subs |-> choices,
                   master |-> IF choices = 0 THEN 0 ELSE books.got[1] + 1,
                   books |-> IF choices = 0 THEN books.got ELSE Tail(books.got)])

\* As many classes as the largest partition's needs.
ReadFloorClasses(data, at, partitions) ==
    FoldLeft(LAMBDA parts, c : Gather(parts, ReadFloorClass(data, parts.at)),
             Part(TRUE, at, <<>>), Times(Largest(Range(partitions)), 0))

\* The rest of a floor, after its partitions and its classes.
FloorPosts(data, partitions, classes, scale) ==
    LET posts == SumFunction([i \in DOMAIN partitions |-> classes[partitions[i]].dim])
        inner == ReadFields(data, scale.at, Times(posts, scale.got[2]))
    IN  IF ~scale.ok \/ ~inner.ok THEN Part(FALSE, scale.at, <<>>)
        ELSE Part(TRUE, inner.at,
                  [partitions |-> partitions, classes |-> classes,
                   multiplier |-> scale.got[1] + 1, rangebits |-> scale.got[2],
                   xs |-> inner.got])

FloorScale(data, partitions, classes) ==
    IF ~classes.ok THEN classes
    ELSE FloorPosts(data, partitions, classes.got, ReadFields(data, classes.at, <<2, 4>>))

FloorPartitions(data, fields) ==
    LET partitions == [i \in DOMAIN fields.got |-> fields.got[i] + 1]
    IN  IF ~fields.ok THEN fields
        ELSE FloorScale(data, partitions, ReadFloorClasses(data, fields.at, partitions))

ReadFloorSetup(data, at) ==
    LET count == Read(data, at, 5)
    IN  FloorPartitions(data, ReadFields(data, count.at, Times(count.value, 4)))

\* The stages whose bits are set in a cascade.
ReadCascade(data, at) ==
    LET head == ReadFields(data, at, <<3, 1>>)
        high == ReadFields(data, head.at, Times(head.got[2], 5))
        cascade == head.got[1] + 8 * SumFunction(high.got)
    IN  IF ~head.ok \/ ~high.ok THEN Part(FALSE, at, {})
        ELSE Part(TRUE, high.at, {s \in 0 .. Stages - 1 : (cascade \div (2 ^ s)) % 2 = 1})

\* The books of a class, one for every stage of its cascade.
ReadStageBooks(data, at, stages) ==
    LET books == ReadFields(data, at, Times(Cardinality(stages), 8))
        Place(s) == Cardinality({t \in stages : t <= s})
    IN  IF ~books.ok THEN books
        ELSE Part(TRUE, books.at,
             [s \in 1 .. Stages |-> IF s - 1 \in stages THEN books.got[Place(s - 1)] + 1 ELSE 0])

ResidueBooks(head, cascades, books) ==
    IF ~books.ok THEN books
    ELSE Part(TRUE, books.at,
         [type |-> head[1], begin |-> head[2], end |-> head[3], part |-> head[4] + 1,
          classes |-> head[5] + 1, classbook |-> head[6] + 1,
          cascades |-> cascades, books |-> books.got])

ResidueCascades(data, head, cascades) ==
    IF ~cascades.ok THEN cascades
    ELSE ResidueBooks(head, cascades.got,
             FoldLeft(LAMBDA parts, stages : Gather(parts, ReadStageBooks(data, parts.at, stages)),
                      Part(TRUE, cascades.at, <<>>), cascades.got))

ReadResidueSetup(data, at) ==
    LET head == ReadFields(data, at, <<2, 24, 24, 24, 6, 8>>)
    IN  IF ~head.ok THEN head
        ELSE ResidueCascades(data, head.got,
                 FoldLeft(LAMBDA parts, c : Gather(parts, ReadCascade(data, parts.at)),
                          Part(TRUE, head.at, <<>>), Times(head.got[5] + 1, 0)))

\* A count that a flag precedes: the bits of it, or what its absence means.
ReadOptional(data, at, width, absent) ==
    LET flag == Read(data, at, 1)
        count == Read(data, flag.at, width)
    IN  IF ~flag.ok THEN Part(FALSE, at, 0)
        ELSE IF flag.value = 0 THEN Part(TRUE, flag.at, absent)
        ELSE Part(count.ok, count.at, count.value + 1)

MappingRest(submaps, coupling, rest, channels) ==
    LET mux == IF submaps > 1 THEN SubSeq(rest.got, 2, channels + 1) ELSE Times(channels, 0)
        Bundle(s, k) == rest.got[Len(rest.got) - 3 * submaps + 3 * (s - 1) + k]
    IN  IF ~rest.ok THEN rest
        ELSE Part(TRUE, rest.at,
                  [submaps |-> submaps, coupling |-> coupling, reserved |-> rest.got[1],
                   chmux |-> mux, floors |-> [s \in 1 .. submaps |-> Bundle(s, 2)],
                   residues |-> [s \in 1 .. submaps |-> Bundle(s, 3)]])

\* Coupling steps, then the reserved bits, the channels' submaps, and a floor
\* and a residue per submap.
MappingSteps(data, submaps, steps, channels) ==
    IF ~steps.ok THEN steps
    ELSE MappingRest(submaps,
             [k \in 1 .. Len(steps.got) \div 2 |-> <<steps.got[2 * k - 1] + 1, steps.got[2 * k] + 1>>],
             ReadFields(data, steps.at,
                        <<2>> \o Times(IF submaps > 1 THEN channels ELSE 0, 4)
                        \o Times(3 * submaps, 8)),
             channels)

MappingCoupling(data, submaps, steps, channels) ==
    IF ~steps.ok THEN steps
    ELSE MappingSteps(data, submaps,
                      ReadFields(data, steps.at, Times(2 * steps.got, ChannelBits(channels))), channels)

MappingSubmaps(data, submaps, channels) ==
    IF ~submaps.ok THEN submaps
    ELSE MappingCoupling(data, submaps.got, ReadOptional(data, submaps.at, 8, 0), channels)

ReadMapping(data, at, channels) ==
    MappingSubmaps(data, ReadOptional(data, at, 4, 1), channels)

ReadMode(data, at) ==
    LET fields == ReadFields(data, at, <<1, 8>>)
    IN  IF ~fields.ok THEN fields
        ELSE Part(TRUE, fields.at, [blockflag |-> fields.got[1], mapping |-> fields.got[2]])

\* One record of a table.
ReadEntry(table, data, at, channels) ==
    CASE table = "books" -> Field(Read(data, at, 10))
      [] table = "floors" -> ReadFloorSetup(data, at)
      [] table = "residues" -> ReadResidueSetup(data, at)
      [] table = "maps" -> ReadMapping(data, at, channels)
      [] table = "modes" -> ReadMode(data, at)

ReadEntries(table, data, count, channels) ==
    IF ~count.ok THEN Part(FALSE, count.at, <<>>)
    ELSE FoldLeft(LAMBDA parts, i : Gather(parts, ReadEntry(table, data, parts.at, channels)),
                  Part(TRUE, count.at, <<>>), Times(count.value + 1, 0))

ReadTable(table, data, at, channels) ==
    ReadEntries(table, data, Read(data, at, IF table = "books" THEN 8 ELSE 6), channels)

\* The five tables one after the other.
ReadTables(data, channels) ==
    FoldLeft(LAMBDA parts, table : Gather(parts, ReadTable(table, data, parts.at, channels)),
             Part(TRUE, 0, <<>>), <<"books", "floors", "residues", "maps", "modes">>)

\* Bits that follow the tables have to be zero, and no more than one read takes.
SetupOfTables(data, tables) ==
    IF ~tables.ok \/ Len(data) - tables.at > MaxRead THEN [answer |-> "Setup"]
    ELSE [answer |-> IF \E i \in tables.at + 1 .. Len(data) : data[i] # 0
                     THEN "SetupPadding" ELSE "Ok",
          setup |-> [books |-> tables.got[1], floors |-> tables.got[2],
                     residues |-> tables.got[3], maps |-> tables.got[4],
                     modes |-> tables.got[5]]]

ParseSetup(data, channels) == SetupOfTables(data, ReadTables(data, channels))

-----------------------------------------------------------------------------
(* What a packet of audio looks up.  The indices of a setup that a profile   *)
(* carries are in range; the refusals of others are left out.                *)

MappingOf(setup, mode) == setup.maps[setup.modes[mode + 1].mapping + 1]

SubmapOf(mapping, ch) == IF mapping.submaps > 1 THEN mapping.chmux[ch] + 1 ELSE 1

ResidueOf(setup, mapping, submap) == setup.residues[mapping.residues[submap] + 1]

\* A floor as Floor1 has it: both ends before the inner posts.
FloorLook(floor, scale) ==
    [range |-> scale.range, fitStep |-> scale.fitStep, multiplier |-> scale.multiplier,
     xs |-> <<0, 2 ^ floor.rangebits>> \o floor.xs,
     partitions |-> floor.partitions, classes |-> floor.classes]

FloorAt(setup, floor) == FloorLook(setup.floors[floor + 1], Scales[setup.floors[floor + 1].multiplier])

FloorOf(setup, mapping, ch) == FloorAt(setup, mapping.floors[SubmapOf(mapping, ch)])

BooksOf(setup) == [i \in DOMAIN setup.books |-> Library[setup.books[i] + 1]]

\* What a decode session opens on a setup packet: only the one its profile
\* carries.
OpenCodec(parsed, carried) ==
    IF parsed.answer = "Ok" /\ ~carried THEN [answer |-> "SetupNotCarried"]
    ELSE IF parsed.answer # "Ok" THEN [answer |-> parsed.answer]
    ELSE [answer |-> "Ok", setup |-> parsed.setup, books |-> BooksOf(parsed.setup)]

=============================================================================
