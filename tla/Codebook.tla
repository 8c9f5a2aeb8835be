------------------------------ MODULE Codebook ------------------------------
(***************************************************************************)
(* Bits and codebooks of a Vorbis packet (crates/wem-vorbis/src/bitio.rs   *)
(* and codebook.rs).  Bits are a sequence of 0 and 1 in stream order, the  *)
(* least significant bit of a value first.  A writer is the bits written   *)
(* and the answer so far; a read answers whether it succeeded, a value and *)
(* the position after it.                                                  *)
(*                                                                         *)
(* A book is a record: dim, lengths (one codeword length per entry, 0 for  *)
(* an unused one), words, vectors (the value vector of each entry, empty   *)
(* for a book without values), and the leaves and inner nodes of its       *)
(* decode tree, both named by the bits leading there.  Entries count from  *)
(* 0, as they do in the stream.                                            *)
(***************************************************************************)
EXTENDS Arithmetic, SequencesExt

CONSTANT MaxLength       \* longest codeword (32 in the code)

ASSUME MaxLengthAssumption == MaxLength \in Nat \ {0}

NumberOf(bits) == FoldRight(LAMBDA bit, above : bit + 2 * above, bits, 0)

\* The low n bits of a value: what is above them is cut off.
BitsOf(value, n) == [i \in 1 .. n |-> (value \div (2 ^ (i - 1))) % 2]

\* Bits needed to store 0 .. n.
Ilog(n) == CHOOSE bits \in 0 .. n : 2 ^ bits > n /\ \A fewer \in 0 .. bits - 1 : 2 ^ fewer <= n

EmptyPack == [bits |-> <<>>, answer |-> "Ok"]

Write(pack, bits) ==
    IF pack.answer = "Ok" THEN [pack EXCEPT !.bits = @ \o bits] ELSE pack

Refuse(pack, answer) ==
    IF pack.answer = "Ok" THEN [pack EXCEPT !.answer = answer] ELSE pack

\* The bits of the packed bytes: the last byte is filled up with zeros.
Buffer(pack, byte) ==
    pack.bits \o [i \in 1 .. (-Len(pack.bits)) % byte |-> 0]

Got(value, at) == [ok |-> TRUE, value |-> value, at |-> at]
Missed(at) == [ok |-> FALSE, value |-> 0, at |-> at]

\* A read that runs out of bits has consumed all of them.
Read(data, at, n) ==
    IF at + n <= Len(data) THEN Got(NumberOf(SubSeq(data, at + 1, at + n)), at + n)
    ELSE Missed(Len(data))

-----------------------------------------------------------------------------
\* The next free codeword of every length after one of length n was taken.
\* Up the tree to the first odd marker, then down the lengths that hung from
\* the word taken.
Climb(marker, n) ==
    LET odd == {j \in 1 .. n : marker[j] % 2 = 1}
        top == IF odd = {} THEN 0 ELSE Max(odd)
        turn == IF top = 1 THEN marker[1] + 1 ELSE 2 * marker[top - 1]
    IN  SubSeq(marker, 1, top - 1)
        \o (IF top = 0 THEN <<>> ELSE <<turn>>)
        \o [k \in 1 .. n - top |-> marker[top + k] + 1]
        \o SubSeq(marker, n + 1, MaxLength)

\* Mutant of TakeMarker: longer words are not moved from under the one taken.
TakeMarkerAlone(marker, n) == Climb(marker, n)

TakeMarker(marker, n) ==
    LET climbed == Climb(marker, n)
        Hung(j) == \A k \in n + 1 .. j : marker[k] \div 2 = marker[k - 1]
    IN  SubSeq(climbed, 1, n)
        \o [k \in 1 .. MaxLength - n |->
              IF Hung(n + k) THEN climbed[n] * 2 ^ k ELSE climbed[n + k]]

\* The codeword of one entry more.
Assign(made, n) ==
    IF n = 0 THEN [made EXCEPT !.words = Append(@, <<>>)]
    ELSE [marker |-> TakeMarker(made.marker, n),
          words |-> Append(made.words, Reverse(BitsOf(made.marker[n], n))),
          fits |-> n = MaxLength \/ made.marker[n] < 2 ^ n]

\* One entry after the other, in halves: an evaluation is then not as deep as
\* the book is long.
RECURSIVE AssignAll(_, _)
AssignAll(made, lengths) ==
    LET half == Len(lengths) \div 2
    IN  IF ~made.fits THEN made
        ELSE IF half = 0 THEN Assign(made, lengths[1])
        ELSE AssignAll(AssignAll(made, SubSeq(lengths, 1, half)),
                       SubSeq(lengths, half + 1, Len(lengths)))

\* One codeword per entry, from the lengths alone; empty when one of the
\* lengths does not fit the tree.
MakeCodewords(lengths) ==
    LET all == AssignAll([marker |-> [j \in 1 .. MaxLength |-> 0], words |-> <<>>, fits |-> TRUE],
                         lengths)
    IN  IF all.fits THEN all.words ELSE <<>>

\* The most values per dimension the entries have room for.
QuantVals(entries, dim) ==
    CHOOSE vals \in 0 .. entries : vals ^ dim <= entries /\ (vals + 1) ^ dim > entries

\* The value vector of every used entry: a digit of the entry per dimension
\* picks the value, and a sequential book adds each value to the next.
Unquantize(lengths, dim, quantlist, delta, mindel, sequential) ==
    LET vals == QuantVals(Len(lengths), dim)
        Step(e, k) == quantlist[((e \div (vals ^ (k - 1))) % vals) + 1] * delta + mindel
        Value(e, k) == IF sequential THEN SumFunction([j \in 1 .. k |-> Step(e, j)])
                       ELSE Step(e, k)
    IN  [i \in DOMAIN lengths |->
            IF lengths[i] = 0 THEN <<>> ELSE [k \in 1 .. dim |-> Value(i - 1, k)]]

\* A book over its lengths and value vectors.  A word that ends inside the
\* tree, or runs through a leaf, is refused.
Book(lengths, dim, vectors) ==
    LET words == MakeCodewords(lengths)
        used == {e \in DOMAIN words : lengths[e] > 0}
        inner == UNION {{SubSeq(words[e], 1, n) : n \in 0 .. lengths[e] - 1} : e \in used}
        leaves == {words[e] : e \in used}
    IN  [dim |-> dim, lengths |-> lengths, words |-> words, vectors |-> vectors,
         inner |-> inner,
         leaves |-> [word \in leaves |-> (CHOOSE e \in used : words[e] = word) - 1],
         builds |-> words # <<>> /\ inner \cap leaves = {}]

Entries(book) == 0 .. Len(book.lengths) - 1
Used(book, entry) == entry \in Entries(book) /\ book.lengths[entry + 1] > 0
UsedEntries(book) == {e \in Entries(book) : Used(book, e)}
UsedWithinTwo(book, y) == \E e \in y - 2 .. y + 2 : Used(book, e)

\* The used entry nearest a value, the lower one on a tie.
NearestUsed(book, value) ==
    CHOOSE e \in UsedEntries(book) : \A other \in UsedEntries(book) :
        LET d == Distance(e, value)
            far == Distance(other, value)
        IN  d < far \/ (d = far /\ e <= other)

Encode(pack, book, entry) ==
    IF Used(book, entry) THEN Write(pack, book.words[entry + 1])
    ELSE Refuse(pack, "EntryUnused")

\* Mutant of Decode: a read that runs out leaves the bits it tried.
DecodeInPlace(book, data, at) ==
    LET walked == {n \in 1 .. Least(MaxLength, Len(data) - at) :
                     SubSeq(data, at + 1, at + n) \notin book.inner}
        path == SubSeq(data, at + 1, at + Min(walked))
    IN  IF walked # {} /\ path \in DOMAIN book.leaves
        THEN Got(book.leaves[path], at + Len(path))
        ELSE Missed(at)

\* Walk the tree a bit at a time: to a leaf, off the tree, or to the end of
\* the packet.  The bits walked are consumed whatever the outcome.
Decode(book, data, at) ==
    LET walked == {n \in 1 .. Least(MaxLength, Len(data) - at) :
                     SubSeq(data, at + 1, at + n) \notin book.inner}
        path == SubSeq(data, at + 1, at + Min(walked))
    IN  IF DOMAIN book.leaves = {} THEN Missed(at)
        ELSE IF walked = {} THEN Missed(Len(data))
        ELSE IF path \in DOMAIN book.leaves THEN Got(book.leaves[path], at + Len(path))
        ELSE Missed(at + Len(path))

Vector(book, entry) == book.vectors[entry + 1]

\* The used entry whose vector is nearest the target, the first on a tie.
BestVq(book, target) ==
    LET Error(e) == SumFunction([d \in 1 .. book.dim |->
                        (target[d] - Vector(book, e)[d]) ^ 2])
    IN  CHOOSE e \in UsedEntries(book) : \A other \in UsedEntries(book) :
            Error(e) < Error(other) \/ (Error(e) = Error(other) /\ e <= other)

=============================================================================
