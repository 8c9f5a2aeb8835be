----------------------------- MODULE MCFormats ------------------------------
(***************************************************************************)
(* Small packets and small files for TLC.  The two share no state, so a    *)
(* behaviour is about one of them.                                         *)
(***************************************************************************)
EXTENDS AudioPacket, WemReader

VARIABLE subject    \* what the behaviour is about

\* Codeword lengths of the books: complete trees, one with a codeword left
\* over, one with an entry unused.
MCLattice(lengths, dim, quantlist, delta, mindel) ==
    Book(lengths, dim, Unquantize(lengths, dim, quantlist, delta, mindel, FALSE))
MCPlain(lengths) == Book(lengths, 1, <<>>)

MCBooks == <<
    MCPlain(<<1, 2, 4, 4, 5, 5, 6, 6, 6, 6>>),
    MCLattice(<<3, 2, 1, 4, 4>>, 1, <<0, 1, 2, 3, 4>>, 1, -2),
    MCPlain(<<2, 2, 2, 3, 4, 4>>),
    [MCPlain([e \in 1 .. 64 |-> IF e = 1 THEN 1 ELSE 7]) EXCEPT !.dim = 2],
    MCPlain(<<1, 2, 0, 4, 5, 5, 6, 6, 6, 6>>),
    MCPlain(<<1, 2, 3, 3>>),
    [MCPlain([e \in 1 .. 64 |-> 6]) EXCEPT !.dim = 2],
    MCLattice(<<1, 3, 3>>, 1, <<1, 0, 2>>, 4, -4),
    MCLattice([e \in 1 .. 16 |-> IF e = 8 THEN 1 ELSE 5], 4, <<0, 1>>, 1, 0),
    MCLattice(<<4, 3, 4, 3, 1, 5, 5, 0, 5>>, 2, <<0, 1, 2>>, 1, -1),
    MCPlain(<<0, 1, 2, 3, 4, 4>>)>>
MCLibrary == [i \in DOMAIN MCBooks |-> MCBooks[i]]

\* A class has no book, one, or a coarse one first and a fine one at a later
\* stage: cascades of three bits and of more.
StageRow(first, stage, later) ==
    [s \in 1 .. 8 |-> IF s = 1 THEN first ELSE IF s = stage THEN later ELSE 0]
Cascade(row) == {s \in 0 .. 7 : row[s + 1] # 0}
MCResidue(type, begin, end, part, classbook, rows) ==
    [type |-> type, begin |-> begin, end |-> end, part |-> part, classes |-> Len(rows),
     classbook |-> classbook, books |-> rows, cascades |-> [c \in DOMAIN rows |-> Cascade(rows[c])]]

ExactRows(count) == [c \in 1 .. count |-> IF c = 1 THEN StageRow(0, 2, 0) ELSE StageRow(3, 3, 4)]
MixedRows(count) == [c \in 1 .. count |-> CASE c = 1 -> StageRow(0, 2, 0)
                                            [] c = 2 -> StageRow(5, 2, 0)
                                            [] c = 3 -> StageRow(0, 2, 4)
                                            [] OTHER -> StageRow(3, 5, 5)]

\* One scale of floors, in place of the four of the format.
MCScales == <<[range |-> 6, fitStep |-> 2, multiplier |-> 60]>>
MCFloor == [partitions |-> <<1, 2>>,
            classes |-> << [dim |-> 2, subs |-> 1, master |-> 6, books |-> <<0, 7>>],
                           [dim |-> 1, subs |-> 0, master |-> 0, books |-> <<8>>] >>,
            multiplier |-> 1, rangebits |-> 3, xs |-> <<3, 5, 1>>]

\* The books of a setup, by their place in the library.
MCOrder == <<3, 0, 7, 1, 9, 5, 10, 2, 4, 6, 8>>


\* A mapping of one submap, and one of two that no mode names.
Mapping(residue, coupling) ==
    [submaps |-> 1, coupling |-> coupling, reserved |-> 0, chmux |-> <<0, 0, 0>>,
     floors |-> <<1>>, residues |-> <<residue>>]
Split(channels) ==
    [submaps |-> 2, coupling |-> <<>>, reserved |-> 1, chmux |-> [ch \in 1 .. channels |-> ch % 2],
     floors |-> <<1, 0>>, residues |-> <<0, 0>>]

\* A floor without posts before the one in use.
MCFlat == [partitions |-> <<>>, classes |-> <<>>, multiplier |-> 1, rangebits |-> 0, xs |-> <<>>]

MCSetup(channels, residues, coupling) ==
    [books |-> MCOrder, floors |-> <<MCFlat, MCFloor>>, residues |-> residues,
     maps |-> [i \in DOMAIN residues |->
                 [Mapping(i - 1, coupling) EXCEPT !.chmux = SubSeq(@, 1, channels)]]
              \o <<Split(channels)>>,
     modes |-> [i \in DOMAIN residues |-> [blockflag |-> i - 1, mapping |-> i - 1]]]

Stream(name, channels, residues, coupling, bins, joint) ==
    [name |-> name, setup |-> MCSetup(channels, residues, coupling), channels |-> channels, bins |-> bins,
     joint |-> joint]

MCSeparate(channels) ==
    Stream(channels, channels, <<MCResidue(1, 0, 4, 2, 1, MixedRows(8)), MCResidue(1, 1, 4, 1, 1, ExactRows(8))>>,
           <<>>, <<4, 6>>, FALSE)
MCJoint == Stream(3, 2, <<MCResidue(2, 0, 8, 2, 10, ExactRows(10))>>, << <<1, 2>> >>, <<4, 4>>, TRUE)
MCCoupled == Stream(4, 2, <<MCResidue(2, 0, 8, 4, 2, MixedRows(10)), MCResidue(2, 0, 8, 2, 10, ExactRows(10))>>,
                    << <<2, 1>> >>, <<4, 4>>, FALSE)
MCUneven(channels) ==
    Stream(channels + 3, channels, <<MCResidue(2, 1, 99, 5, 2, MixedRows(10))>>, <<>>, <<4, 4>>, FALSE)
MCUncodable == Stream(7, 1, <<MCResidue(2, 0, 8, 4, 9, ExactRows(10))>>, <<>>, <<4, 4>>, FALSE)
MCMisfit == Stream(8, 1, <<MCResidue(1, 0, 3, 3, 1, MixedRows(8))>>, <<>>, <<4, 4>>, FALSE)

\* Residues in half steps, and floor fits with and without unused posts.
MCRows == {[b \in 1 .. 6 |-> 0], <<2, 4, -4, 4, 0, -2>>, <<12, -9, 0, 0, -1, 1>>, <<-3, 3, 5, -5, 8, 2>>}
MCFit == <<4, 9, 7, 2, 11>>
MCFits == {<<a, 11 - a, c, d, e>> : a \in {0, 5}, c, d \in {0, 4, 11, Flag + 3}, e \in {0, 7, Flag}}

MCStreams == {MCSeparate(1), MCSeparate(2), MCJoint, MCCoupled, MCUneven(2), MCUneven(3),
              MCUncodable, MCMisfit}

MCBlocks ==
    LET Channelled(of, mode, posts, rows) ==
            [stream |-> of, mode |-> mode, posts |-> posts, rows |-> rows]
        Pairs(of, mode) ==
            {Channelled(of, mode, posts, <<x, y>>) : x, y \in MCRows,
             posts \in {<<MCFit, MCFit>>, <<MCFit, <<>> >>, <<<<>>, MCFit>>, << <<>>, <<>> >>}}
    IN  Pairs(2, 0) \union Pairs(2, 1) \union Pairs(3, 0)
        \union Pairs(4, 0) \union Pairs(4, 1) \union Pairs(5, 0)
        \union {Channelled(single, 0, <<MCFit>>, <<x>>) : single \in {7, 8}, x \in MCRows}
        \union {Channelled(6, 0, <<MCFit, <<>>, MCFit>>, <<x, x, y>>) : x, y \in MCRows}
        \union {Channelled(1, 1, <<fit>>, << <<1, 2, 0, -1, 0, 0>> >>) : fit \in MCFits}

-----------------------------------------------------------------------------
MCFields == [name \in FmtFields |->
    CASE name = "w_format_tag" -> MaxU16 [] name = "n_channels" -> 2
      [] name = "n_samples_per_sec" -> 40 [] name = "dw_total_pcm_frames" -> 3
      [] name = "u_blocksize0_pow" -> 2 [] name = "u_blocksize1_pow" -> 4
      [] OTHER -> 0]

MCPackets == <<<<5, 4, 7>>, <<1>>, <<2, 3>>, <<>>, <<3, 0, 0>>>>
MCPlan == [fields |-> MCFields, packets |-> MCPackets, seekTable |-> <<>>, endian |-> "Little",
           extra |-> <<>>, recompute |-> TRUE, fmtRaw |-> <<>>]
MCExtra == <<[id |-> FourCC(<<99, 117, 101, 32>>), payload |-> <<4, 1, 4>>]>>
MCSeek == [MCPlan EXCEPT !.seekTable = <<9, 0, 2>>, !.extra = MCExtra]
MCWrongSeek == [MCPlan EXCEPT !.fields.dw_seek_table_size = 200, !.recompute = FALSE]
MCRaw == [MCSeek EXCEPT !.fmtRaw = PackFmt(MCFields), !.endian = "Big"]
MCShort == [MCPlan EXCEPT !.packets = SubSeq(@, 1, 3)]

\* A plan, the order of its chunks, the bytes kept and those that follow.
\* Files whose plan cannot be built are left out of the reading.
MCAllBytes == 1000
MCCases ==
    {<<[plan EXCEPT !.endian = e], order, MCAllBytes, <<>> >> : plan \in {MCSeek, MCShort},
        e \in Endians, order \in {"built", "data first"}}
    \union {<<MCRaw, "built", MCAllBytes, <<>> >>, <<MCPlan, "short fmt", MCAllBytes, <<>> >>,
            <<MCWrongSeek, "built", MCAllBytes, <<>> >>,
            <<[MCPlan EXCEPT !.fields.w_format_tag = 1], "data first", MCAllBytes, <<>> >>,
            <<MCPlan, "built", MCAllBytes, MCExtra[1].payload>>}
    \union {<<MCSeek, "built", k, <<>> >> : k \in {50, 90, 105, 108, 109, 110, 113, 114, 117}}
MCFiles == {FileOf(c[1], c[2], c[3], c[4]) : c \in MCCases}

MCInit ==
    /\ PacketInit /\ ReaderInit
    /\ \/ subject = "packet" /\ file.plan = MCRaw
       \/ subject = "file" /\ stream.name = 1

MCNext ==
    /\ \/ subject = "packet" /\ PacketNext /\ UNCHANGED readerVars
       \/ subject = "file" /\ ReaderNext /\ UNCHANGED packetVars
    /\ UNCHANGED subject

MCSpec == MCInit /\ [][MCNext]_<<packetVars, readerVars, subject>>

=============================================================================
