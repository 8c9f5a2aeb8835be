------------------------------- MODULE Floor1 -------------------------------
(***************************************************************************)
(* The floor of a channel as a packet carries it                           *)
(* (crates/wem-vorbis/src/floor.rs and floor_fit.rs, and the two bodies in *)
(* packet_encoder.rs and packet_decoder.rs).                               *)
(*                                                                         *)
(* A floor is a record:                                                    *)
(*   range       number of heights a post can have                         *)
(*   fitStep     what a height of the fit is divided by                    *)
(*   multiplier  quantum levels per height                                 *)
(*   xs          the posts' positions: both ends, then packet order        *)
(*   partitions  the class of each partition of the inner posts            *)
(*   classes     per class: dim, subs (bits of a subclass choice), master  *)
(*               (its book, 0 for none), books (one per subclass, 0 for a  *)
(*               subclass that codes nothing)                              *)
(* Posts are heights; an unused one carries a flag above its height.       *)
(***************************************************************************)
EXTENDS Codebook, FloorPosts

TopLevel == 255          \* last entry of the dB table

\* A coded post uses both posts it was predicted from.
UseNeighbours(xs, posts, i) ==
    [posts EXCEPT ![Lower(xs, i)] = Plain(@), ![Upper(xs, i)] = Plain(@)]

\* Mutant of WrapResidual: the fold of the near side is one too small.
WrapShort(range, predicted, height) ==
    LET headroom == Least(range - predicted, predicted)
        val == height - predicted
    IN  IF val < 0
        THEN IF val < -headroom THEN headroom - val - 1 ELSE -(2 * val)
        ELSE IF val >= headroom THEN val + headroom ELSE 2 * val

\* A height as its distance from the prediction, both signs folded together
\* while both have room.
WrapResidual(range, predicted, height) ==
    LET headroom == Least(range - predicted, predicted)
        val == height - predicted
    IN  IF val < 0
        THEN IF val < -headroom THEN headroom - val - 1 ELSE -1 - 2 * val
        ELSE IF val >= headroom THEN val + headroom ELSE 2 * val

\* The posts normalised for rendering, and their residuals for the packet.
WrapPosts(floor, posts) ==
    LET xs == floor.xs
        Step(s, i) ==
            LET predicted == Predicted(xs, s.posts, i)
            IN  IF Flagged(s.posts[i]) \/ predicted = s.posts[i]
                THEN [posts |-> [s.posts EXCEPT ![i] = predicted + Flag],
                      coded |-> Append(s.coded, 0)]
                ELSE [posts |-> UseNeighbours(xs, s.posts, i),
                      coded |-> Append(s.coded,
                                    WrapResidual(floor.range, predicted, Plain(s.posts[i])))]
    IN  FoldLeft(Step, [posts |-> posts, coded |-> <<Plain(posts[1]), Plain(posts[2])>>],
                 [i \in 1 .. Len(posts) - 2 |-> i + 2])

UnwrapResidual(range, predicted, val) ==
    LET hiroom == range - predicted
        loroom == predicted
        signed == IF val >= 2 * Least(hiroom, loroom)
                  THEN IF hiroom > loroom THEN val - loroom ELSE -1 - (val - hiroom)
                  ELSE IF val % 2 = 1 THEN -((val + 1) \div 2) ELSE val \div 2
    IN  Plain(signed + predicted)

\* The posts a decoder renders from the residuals of a packet.
UnwrapPosts(floor, coded) ==
    LET xs == floor.xs
        Step(posts, i) ==
            LET predicted == Predicted(xs, posts, i)
            IN  IF posts[i] = 0 THEN [posts EXCEPT ![i] = predicted + Flag]
                ELSE [UseNeighbours(xs, posts, i) EXCEPT ![i] =
                        UnwrapResidual(floor.range, predicted, posts[i])]
    IN  FoldLeft(Step, coded, [i \in 1 .. Len(coded) - 2 |-> i + 2])

-----------------------------------------------------------------------------
\* Level at x of the line from (x0, y0) to (x1, y1).
LineAt(x0, x1, y0, y1, x) ==
    IF y1 < y0 THEN y0 - ((y0 - y1) * (x - x0)) \div (x1 - x0)
    ELSE y0 + ((y1 - y0) * (x - x0)) \div (x1 - x0)

Level(floor, post) == Least(Plain(post) * floor.multiplier, TopLevel)

\* The posts a floor is drawn through, by position.
DrawnPosts(floor, posts) ==
    SetToSortSeq({i \in DOMAIN posts : i = 1 \/ ~Flagged(posts[i])},
                 LAMBDA i, j : floor.xs[i] < floor.xs[j])

\* The encoder's floor: the level of every bin, overwritten segment by
\* segment and past the last drawn post.
QuantCurve(floor, posts, n) ==
    LET drawn == DrawnPosts(floor, posts)
        X(k) == floor.xs[drawn[k]]
        Y(k) == Level(floor, posts[drawn[k]])
        Segment(out, k) ==
            [bin \in 0 .. n - 1 |-> IF X(k) <= bin /\ bin < X(k + 1)
                                    THEN LineAt(X(k), X(k + 1), Y(k), Y(k + 1), bin)
                                    ELSE out[bin]]
        lines == FoldLeft(Segment, [bin \in 0 .. n - 1 |-> Y(1)],
                          [k \in 1 .. Len(drawn) - 1 |-> k])
    IN  [bin \in 0 .. n - 1 |-> IF bin >= X(Len(drawn)) THEN Y(Len(drawn)) ELSE lines[bin]]

\* The decoder's floor: the levels every bin is multiplied by, from nothing.
CurveFactors(floor, posts, n) ==
    LET drawn == DrawnPosts(floor, posts)
        X(k) == floor.xs[drawn[k]]
        Y(k) == Level(floor, posts[drawn[k]])
        Factors(bin) ==
            FlattenSeq([k \in 1 .. Len(drawn) |->
                IF k = Len(drawn) THEN IF bin >= X(k) THEN <<Y(k)>> ELSE <<>>
                ELSE IF X(k) <= bin /\ bin < X(k + 1)
                     THEN <<LineAt(X(k), X(k + 1), Y(k), Y(k + 1), bin)>> ELSE <<>>])
    IN  [bin \in 0 .. n - 1 |-> Factors(bin)]

-----------------------------------------------------------------------------
HeightBits(floor) == Ilog(floor.range - 1)

\* Book of post j of a class whose subclass choices are packed in `choice`.
SubclassBook(class, choice, j) ==
    class.books[((choice \div (2 ^ (class.subs * (j - 1)))) % (2 ^ class.subs)) + 1]

MostChoices == 4096      \* subclass choices looked at, at most

\* Subclass choice that can code a partition's heights best: the first of
\* the best scores.
PickSubclasses(class, books, heights) ==
    LET choices == 0 .. Least(2 ^ (class.subs * class.dim), MostChoices) - 1
        Fits(choice) == \A j \in 1 .. class.dim :
            SubclassBook(class, choice, j) = 0 => heights[j] = 0
        Worth(choice, j) ==
            LET id == SubclassBook(class, choice, j)
            IN  IF id = 0 THEN 1
                ELSE IF Used(books[id], heights[j]) THEN 2
                ELSE IF UsedWithinTwo(books[id], heights[j]) THEN 1 ELSE 0
        Score(choice) == SumFunction([j \in 1 .. class.dim |-> Worth(choice, j)])
        fitting == {c \in choices : Fits(c)}
    IN  IF fitting = {} THEN 0
        ELSE CHOOSE c \in fitting : \A other \in fitting :
                Score(other) < Score(c) \/ (Score(other) = Score(c) /\ c <= other)

\* First inner post of a partition.
FirstPost(floor, p) ==
    3 + SumFunction([q \in 1 .. p - 1 |-> floor.classes[floor.partitions[q]].dim])

\* Write the residuals of a floor: the two ends, then each partition's choice
\* of subclasses and its posts, an unrepresentable one as the nearest.
WriteFloor(pack, floor, books, coded) ==
    LET Height(v) == BitsOf(Greatest(0, Least(v, floor.range - 1)), HeightBits(floor))
        Partition(w, p) ==
            LET class == floor.classes[floor.partitions[p]]
                first == FirstPost(floor, p)
                heights == SubSeq(coded, first, first + class.dim - 1)
                choice == IF class.subs = 0 THEN 0 ELSE PickSubclasses(class, books, heights)
                master == IF class.subs = 0 THEN w
                          ELSE Encode(w, books[class.master],
                                      NearestUsed(books[class.master], choice))
                Post(v, j) ==
                    LET id == SubclassBook(class, choice, j)
                    IN  IF id = 0 THEN v
                        ELSE Encode(v, books[id], NearestUsed(books[id], heights[j]))
            IN  FoldLeft(Post, master, [j \in 1 .. class.dim |-> j])
    IN  FoldLeft(Partition, Write(Write(pack, Height(coded[1])), Height(coded[2])),
                 [p \in DOMAIN floor.partitions |-> p])

\* Read them back; the first read that misses ends the floor.
ReadFloor(data, at, floor, books) ==
    LET Then(s, read) ==
            [coded |-> IF read.ok THEN Append(s.coded, read.value) ELSE s.coded,
             at |-> read.at, ok |-> read.ok]
        Partition(s, p) ==
            LET class == floor.classes[floor.partitions[p]]
                choice == IF class.subs = 0 THEN Got(0, s.at)
                          ELSE Decode(books[class.master], data, s.at)
                Post(t, j) ==
                    LET id == SubclassBook(class, choice.value, j)
                    IN  IF ~t.ok THEN t
                        ELSE Then(t, IF id = 0 THEN Got(0, t.at)
                                     ELSE Decode(books[id], data, t.at))
            IN  IF ~s.ok THEN s
                ELSE FoldLeft(Post, [s EXCEPT !.at = choice.at, !.ok = choice.ok],
                              [j \in 1 .. class.dim |-> j])
        left == Then([coded |-> <<>>, at |-> at, ok |-> TRUE],
                     Read(data, at, HeightBits(floor)))
        ends == IF left.ok THEN Then(left, Read(data, left.at, HeightBits(floor))) ELSE left
    IN  FoldLeft(Partition, ends, [p \in DOMAIN floor.partitions |-> p])

=============================================================================
