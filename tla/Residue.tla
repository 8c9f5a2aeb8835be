------------------------------ MODULE Residue -------------------------------
(***************************************************************************)
(* The residue of a packet: the rows left when the floors are divided out, *)
(* coded partition by partition in up to eight stages                      *)
(* (crates/wem-vorbis/src/residue.rs).                                     *)
(*                                                                         *)
(* A residue is a record: type (1 codes channel by channel, 2 the bins of  *)
(* all channels interleaved), begin, end, part (bins of a partition),      *)
(* classes, classbook, and per class its stage books (0 for none) and its  *)
(* cascade (the stages it has books for, as the setup lists them).         *)
(* Rows are sequences of integers, one row per channel; `used` says which  *)
(* channels are coded.  Bins and partitions count from 0.                  *)
(***************************************************************************)
EXTENDS Codebook

Stages == 8

Size(value) == Distance(0, value)
Largest(sizes) == Max(sizes \union {0})

\* Thresholds of the two classifiers (libvorbis templates); a negative
\* average does not bind.
PeakOfClass == <<0, 1, 1, 2, 2, 4, 28>>
AverageOfClass == <<-1, 25, -1, 45, -1, -1, -1>>
MagnitudeOfClass == <<0, 1, 1, 2, 2, 4, 8, 16, 32>>
AngleOfClass == <<0, 0, 999, 0, 999, 4, 8, 16, 32>>

\* The first of the classes whose thresholds hold, the last one when none do.
FirstClass(holding, last) == IF holding = {} THEN last ELSE Min(holding)

Classify(samples) ==
    LET average == (100 * SumFunction([i \in DOMAIN samples |-> Size(samples[i])]))
                   \div Len(samples)
        peak == Largest({Size(samples[i]) : i \in DOMAIN samples})
        Holds(c) == /\ peak <= PeakOfClass[c]
                    /\ AverageOfClass[c] < 0 \/ average < AverageOfClass[c]
    IN  FirstClass({c \in 0 .. 6 : Holds(c + 1)}, 7)

\* Every `channels`-th sample is a magnitude, the others are angles.
ClassifyType2(samples, channels) ==
    LET Peak(kind) == Largest({Size(samples[i]) : i \in {i \in DOMAIN samples :
                                    ((i - 1) % channels = 0) = (kind = "magnitude")}})
        Holds(c) == /\ Peak("magnitude") <= MagnitudeOfClass[c]
                    /\ Peak("angle") <= AngleOfClass[c]
    IN  FirstClass({c \in 0 .. 8 : Holds(c + 1)}, 9)

Partitions(residue, limit) ==
    Greatest(0, Least(residue.end, limit) - residue.begin) \div residue.part

Groups(count, words) == (count + words - 1) \div words

\* Classes of a group of partitions as one number, the first one highest.
Classword(residue, classes) ==
    FoldLeft(LAMBDA word, c : word * residue.classes + c, 0, classes)

\* The class of the k-th of `words` partitions of a classword.  A decoder
\* refuses a first class past the last one, which no word of a book here has.
ClassOfWord(residue, word, words, k) ==
    (word \div (residue.classes ^ (words - k))) % residue.classes

\* A cascade's stages, and whether it holds stage s.
InCascade(residue, class, s) == s \in residue.cascades[class + 1]
StageBook(residue, class, s) == residue.books[class + 1][s + 1]

-----------------------------------------------------------------------------
\* Type 1, encoder.  Classes of a channel's partitions; a class without a
\* cascade takes the highest one that has.
ClassesOf(residue, row, count) ==
    LET Own(p) == Classify(SubSeq(row, residue.begin + p * residue.part + 1,
                                  residue.begin + (p + 1) * residue.part))
        coded == {c \in 1 .. residue.classes - 1 : residue.cascades[c + 1] # {}}
    IN  [p \in 0 .. count - 1 |->
            IF residue.cascades[Own(p) + 1] = {} /\ Own(p) # 0 /\ coded # {}
            THEN Max(coded) ELSE Own(p)]

\* A classword the phrasebook has no codeword for is replaced by the first
\* it has.
WriteClassword(pack, residue, book, classes) ==
    LET word == Classword(residue, classes)
    IN  Encode(pack, book, IF Used(book, word) THEN word ELSE Min(UsedEntries(book)))

\* Code a vector of a row: the nearest of the book, taken off the row.
WriteVector(s, book, channel, from) ==
    LET target == [d \in 1 .. book.dim |-> s.work[channel][from + d]]
        entry == BestVq(book, target)
    IN  [pack |-> Encode(s.pack, book, entry),
         work |-> [s.work EXCEPT ![channel] = [b \in DOMAIN @ |->
                    IF b \in from + 1 .. from + book.dim
                    THEN @[b] - Vector(book, entry)[b - from] ELSE @[b]]]]

\* Mutant of PackOrder: all classwords before the first vector.
PackOrderWordsFirst(count, words, channels) ==
    LET groups == [g \in 1 .. Groups(count, words) |-> (g - 1) * words]
        Words == FlattenSeq([g \in DOMAIN groups |->
                    [j \in 1 .. channels |-> <<"word", 0, groups[g], j>>]])
        Vectors == FlattenSeq([s \in 1 .. Stages |-> FlattenSeq([p \in 1 .. count |->
                    [j \in 1 .. channels |-> <<"vectors", s - 1, p - 1, j>>]])])
    IN  Words \o Vectors

\* The order the encoder writes in: per stage and group of partitions, the
\* channels' classwords with the first stage, then partition by partition
\* the channels' vectors.
PackOrder(count, words, channels) ==
    LET Group(s, i) ==
            (IF s = 0 THEN [j \in 1 .. channels |-> <<"word", s, i, j>>] ELSE <<>>)
            \o FlattenSeq([k \in 1 .. Least(words, count - i) |->
                    [j \in 1 .. channels |-> <<"vectors", s, i + k - 1, j>>]])
    IN  FlattenSeq([s \in 1 .. Stages |-> FlattenSeq([g \in 1 .. Groups(count, words) |->
            Group(s - 1, (g - 1) * words)])])

\* Write the coded rows channel by channel; what is left of them is `work`.
PackRows(pack, residue, books, rows, used, n) ==
    LET count == Partitions(residue, n)
        words == books[residue.classbook].dim
        class == [j \in DOMAIN rows |-> ClassesOf(residue, rows[j], count)]
        Step(s, slot) ==
            LET i == slot[3]
                j == slot[4]
                id == StageBook(residue, class[j][i], slot[2])
                from == residue.begin + i * residue.part
            IN  IF s.pack.answer # "Ok" \/ ~used[j] THEN s
                ELSE IF slot[1] = "word"
                THEN [s EXCEPT !.pack = WriteClassword(@, residue, books[residue.classbook],
                        [k \in 1 .. words |-> IF i + k - 1 < count THEN class[j][i + k - 1] ELSE 0])]
                ELSE IF id = 0 THEN s
                ELSE IF residue.part % books[id].dim # 0
                THEN [s EXCEPT !.pack = Refuse(@, "IncompatibleBookDimension")]
                ELSE FoldLeft(LAMBDA t, v : WriteVector(t, books[id], j, from + (v - 1) * books[id].dim),
                              s, [v \in 1 .. residue.part \div books[id].dim |-> v])
        start == [pack |-> pack, work |-> rows]
    IN  IF count = 0 \/ ~\E j \in DOMAIN used : used[j] THEN start
        ELSE IF residue.classes # 8 THEN [start EXCEPT !.pack = Refuse(@, "UnsupportedClassCount")]
        ELSE FoldLeft(Step, start, PackOrder(count, words, Len(rows)))

-----------------------------------------------------------------------------
\* Type 1, decoder.
ReadOrder(count, words, channels) ==
    LET First(i) == [j \in 1 .. channels |-> <<"word", 0, i, j>>]
        Rest(s, p) == [j \in 1 .. channels |-> <<"vectors", s, p, j>>]
        Slots(s, p) == (IF s = 0 /\ p % words = 0 THEN First(p) ELSE <<>>) \o Rest(s, p)
    IN  FlattenSeq([s \in 1 .. Stages |-> FlattenSeq([p \in 1 .. count |-> Slots(s - 1, p - 1)])])

Stop(s, read) == [s EXCEPT !.at = read.at, !.status = "EndOfPacket"]

\* Add a vector to a row; what lies past the row is cut off.
ReadVector(s, data, book, channel, from) ==
    LET read == Decode(book, data, s.at)
    IN  IF s.status # "Complete" THEN s
        ELSE IF ~read.ok THEN Stop(s, read)
        ELSE [s EXCEPT !.at = read.at,
                       !.rows[channel] = [b \in DOMAIN @ |->
                            IF b \in from + 1 .. from + book.dim
                            THEN @[b] + Vector(book, read.value)[b - from] ELSE @[b]]]

Silence(channels, n) == [j \in 1 .. channels |-> [b \in 1 .. n |-> 0]]

\* Read the rows back; the first codeword that misses ends the residue.
ReadRows(data, at, residue, books, used, n) ==
    LET count == Partitions(residue, n)
        phrases == books[residue.classbook]
        channels == Len(used)
        Classes(s, i, j, word) == [p \in DOMAIN s.class[j] |->
                IF p \in i .. i + phrases.dim - 1
                THEN ClassOfWord(residue, word, phrases.dim, p - i + 1) ELSE s.class[j][p]]
        Word(s, i, j) ==
            LET read == Decode(phrases, data, s.at)
            IN  IF ~read.ok THEN Stop(s, read)
                ELSE [s EXCEPT !.at = read.at, !.class[j] = Classes(s, i, j, read.value)]
        Step(s, slot) ==
            LET i == slot[3]
                j == slot[4]
                id == StageBook(residue, s.class[j][i], slot[2])
                from == residue.begin + i * residue.part
            IN  IF s.status # "Complete" \/ ~used[j] THEN s
                ELSE IF slot[1] = "word" THEN Word(s, i, j)
                ELSE IF id = 0 THEN s
                ELSE FoldLeft(LAMBDA t, v : ReadVector(t, data, books[id], j, from + (v - 1) * books[id].dim),
                              s, [v \in 1 .. Groups(residue.part, books[id].dim) |-> v])
        start == [at |-> at, rows |-> Silence(channels, n), status |-> "Complete",
                  class |-> [j \in 1 .. channels |-> [p \in 0 .. count - 1 |-> 0]]]
    IN  IF count = 0 \/ ~\E j \in DOMAIN used : used[j] THEN [start EXCEPT !.status = "Empty"]
        ELSE FoldLeft(Step, start, ReadOrder(count, phrases.dim, channels))

-----------------------------------------------------------------------------
\* Type 2: the bins of all channels interleaved, channel by channel in a bin.

\* The <<bin, channel>> slots a partition's vectors fill, `dim` at a time;
\* the last vector may be cut short.
PackSlots(residue, p, channels, dim) ==
    LET off == residue.begin + p * residue.part
        first == off \div channels
        count == ((off + residue.part) \div channels - first) * channels
        Slot(f) == <<first + f \div channels, (f % channels) + 1>>
    IN  [v \in 1 .. Groups(count, dim) |->
            [d \in 1 .. Least(dim, count - (v - 1) * dim) |-> Slot((v - 1) * dim + d - 1)]]

\* Code the values at the slots, zeros standing in for the missing ones and
\* for a channel that is not used.
WriteSlots(s, book, slots, used) ==
    LET target == [d \in 1 .. book.dim |->
                    IF d <= Len(slots) /\ used[slots[d][2]]
                    THEN s.work[slots[d][2]][slots[d][1] + 1] ELSE 0]
        entry == BestVq(book, target)
        Off(j, b) == {d \in DOMAIN slots : used[j] /\ slots[d] = <<b - 1, j>>}
    IN  [pack |-> Encode(s.pack, book, entry),
         work |-> [j \in DOMAIN s.work |-> [b \in DOMAIN s.work[j] |->
                    s.work[j][b] - SumFunctionOnSet(Vector(book, entry), Off(j, b))]]]

\* Write the coded rows of a type 2 residue.  A partition has one class, of
\* the used channels' values alone; a classword without a codeword is refused.
PackInterleaved(pack, residue, books, rows, used, n) ==
    LET channels == Len(rows)
        count == Partitions(residue, n * channels)
        phrases == books[residue.classbook]
        Values(p) == SelectSeq([f \in 1 .. residue.part |-> residue.begin + p * residue.part + f - 1],
                               LAMBDA f : used[(f % channels) + 1])
        Flat(f) == rows[(f % channels) + 1][f \div channels + 1]
        class == [p \in 0 .. count - 1 |->
                    ClassifyType2([i \in DOMAIN Values(p) |-> Flat(Values(p)[i])], channels)]
        Word(g) == Classword(residue, [k \in 1 .. phrases.dim |->
                        LET p == g * phrases.dim + k - 1 IN IF p < count THEN class[p] ELSE 0])
        WriteWord(s, g) ==
            IF Used(phrases, Word(g)) THEN [s EXCEPT !.pack = Encode(@, phrases, Word(g))]
            ELSE [s EXCEPT !.pack = Refuse(@, "UnencodableClassword")]
        Partition(s, stage, p) ==
            LET id == StageBook(residue, class[p], stage)
            IN  IF ~InCascade(residue, class[p], stage) \/ id = 0 THEN s
                ELSE FoldLeft(LAMBDA t, slots : WriteSlots(t, books[id], slots, used), s,
                              PackSlots(residue, p, channels, books[id].dim))
        Step(s, slot) ==
            LET g == slot[2]
                word == IF slot[1] = 0 THEN WriteWord(s, g) ELSE s
            IN  IF s.pack.answer # "Ok" THEN s
                ELSE FoldLeft(LAMBDA t, p : Partition(t, slot[1], p), word,
                         [k \in 1 .. Least(phrases.dim, count - g * phrases.dim)
                            |-> g * phrases.dim + k - 1])
        start == [pack |-> pack, work |-> rows]
    IN  IF residue.classes # 10 THEN [start EXCEPT !.pack = Refuse(@, "UnsupportedClassCount")]
        ELSE IF count = 0 \/ ~\E j \in DOMAIN used : used[j] THEN start
        ELSE FoldLeft(Step, start,
                FlattenSeq([s \in 1 .. Stages |-> [g \in 1 .. Groups(count, phrases.dim)
                                |-> <<s - 1, g - 1>>]]))

\* Add the vectors of a partition to the interleaved bins.
ReadInterleavedVectors(s, data, book, residue, p, channels) ==
    LET off == residue.begin + p * residue.part
        from == (off \div channels) * channels
        to == ((off + residue.part) \div channels) * channels
        Vectors(t, v) ==
            LET read == Decode(book, data, t.at)
                first == from + (v - 1) * book.dim
            IN  IF t.status # "Complete" THEN t
                ELSE IF ~read.ok THEN Stop(t, read)
                ELSE [t EXCEPT !.at = read.at, !.flat = [f \in DOMAIN @ |->
                        IF f \in first .. Least(first + book.dim, to) - 1
                        THEN @[f] + Vector(book, read.value)[f - first + 1] ELSE @[f]]]
    IN  FoldLeft(Vectors, s, [v \in 1 .. Groups(to - from, book.dim) |-> v])

\* Read a type 2 residue: as many stages as the widest cascade has.
ReadInterleaved(data, at, residue, books, used, n) ==
    LET channels == Len(used)
        count == Partitions(residue, n * channels)
        phrases == books[residue.classbook]
        stages == Largest({s + 1 : s \in UNION Range(residue.cascades)})
        Word(s) ==
            LET read == Decode(phrases, data, s.at)
            IN  IF ~read.ok THEN Stop(s, read)
                ELSE [s EXCEPT !.at = read.at, !.words = Append(@, read.value)]
        Partition(s, stage, p) ==
            LET word == s.words[(p \div phrases.dim) + 1]
                class == ClassOfWord(residue, word, phrases.dim, (p % phrases.dim) + 1)
                id == StageBook(residue, class, stage)
            IN  IF s.status # "Complete" \/ id = 0 THEN s
                ELSE ReadInterleavedVectors(s, data, books[id], residue, p, channels)
        Step(s, slot) ==
            LET stage == slot[1]
                p == slot[2]
                word == IF stage = 0 /\ p % phrases.dim = 0 THEN Word(s) ELSE s
            IN  IF s.status # "Complete" THEN s
                ELSE IF word.status # "Complete" THEN word
                ELSE Partition(word, stage, p)
        start == [at |-> at, flat |-> [f \in 0 .. n * channels - 1 |-> 0],
                  status |-> "Complete", words |-> <<>>]
        done == IF ~\E j \in DOMAIN used : used[j] THEN [start EXCEPT !.status = "Empty"]
                ELSE FoldLeft(Step, start, FlattenSeq([s \in 1 .. stages |->
                        [p \in 1 .. count |-> <<s - 1, p - 1>>]]))
    IN  [at |-> done.at, status |-> done.status,
         rows |-> [j \in 1 .. channels |-> [b \in 1 .. n |-> done.flat[(b - 1) * channels + j - 1]]]]

PackResidue(pack, residue, books, rows, used, n) ==
    IF pack.answer # "Ok" THEN [pack |-> pack, work |-> rows]
    ELSE IF residue.type = 2 THEN PackInterleaved(pack, residue, books, rows, used, n)
    ELSE PackRows(pack, residue, books, rows, used, n)

ReadResidue(data, at, residue, books, used, n) ==
    IF residue.type = 2 THEN ReadInterleaved(data, at, residue, books, used, n)
    ELSE ReadRows(data, at, residue, books, used, n)

=============================================================================
