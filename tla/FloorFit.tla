------------------------------ MODULE FloorFit ------------------------------
(***************************************************************************)
(* The encoder's fit of a floor to the spectrum of a channel               *)
(* (crates/wem-vorbis/src/floor_fit.rs).                                   *)
(*                                                                         *)
(* A line is fitted through the whole spectrum; then post after post, in   *)
(* packet order, the segment it lies in is inspected, and split in two     *)
(* lines where the one is too far off.  A bin is a record: level (of the   *)
(* quantised curve, 0 for silence) and primary (whether the floor curve    *)
(* plus its attenuation reaches it).  Sums are exact here and in doubles   *)
(* in the code.                                                            *)
(***************************************************************************)
EXTENDS FloorPosts, FiniteSetsExt

CONSTANTS MaxLevel,         \* highest level (1023 in the code)
          MaxOver, MaxUnder, MaxErr,    \* the error a segment may have
          PrimaryWeight,    \* twofitweight
          Spectra           \* what may be fitted: posts' positions and bins

\* A level leaves room for the flag.  The two ends, posts 1 and 2, enclose every
\* other post, no two posts are at the same place, the first is at 0 and the last
\* at 2 or above (in the code at a power of two, floor.rs:393-398), and there is a
\* bin for every position below it (floor_fit.rs:339-343).
ASSUME SpectraAssumption ==
    /\ MaxLevel \in Nat /\ MaxLevel < Flag /\ PrimaryWeight \in Nat
    /\ MaxOver \in Nat /\ MaxUnder \in Nat /\ MaxErr \in Nat
    /\ \A spectrum \in Spectra :
          /\ spectrum.xs \in Seq(Nat) /\ Len(spectrum.xs) >= 2
          /\ spectrum.xs[1] = 0 /\ spectrum.xs[2] >= 2
          /\ 0 .. spectrum.xs[2] - 1 \subseteq DOMAIN spectrum.bins
          /\ \A i, j \in DOMAIN spectrum.xs :
                spectrum.xs[i] = spectrum.xs[j] => i = j
          /\ \A i \in DOMAIN spectrum.xs :
                spectrum.xs[1] <= spectrum.xs[i] /\ spectrum.xs[i] <= spectrum.xs[2]
          /\ \A x \in DOMAIN spectrum.bins : /\ spectrum.bins[x].level \in 0 .. MaxLevel
                                              /\ spectrum.bins[x].primary \in BOOLEAN

Unset == -1                 \* any negative value in the code

VARIABLES xs, bins,         \* the posts and the curves, bins from 0
          order,            \* the posts in order of position
          fits,             \* what the bins between two neighbours add up to
          turn,             \* the post to visit; 1 before the first line
          fitA, fitB,       \* the height a post has in the lines on its two sides
          lowOf, highOf,    \* per place in order of position, the posts around it
          memo,             \* per post, the upper end it was last inspected with
          outcome,          \* "none", "pending", "silent" or "fitted"
          output            \* the heights of the posts

spectrumVars == <<xs, bins, order, fits>>
fitVars == <<spectrumVars, turn, fitA, fitB, lowOf, highOf, memo, outcome, output>>

Posts == DOMAIN xs

\* Where a post is in order of position.
Place(i) == CHOOSE place \in Posts : order[place] = i

Ordered(positions) ==
    [place \in DOMAIN positions |->
        CHOOSE i \in DOMAIN positions :
            Cardinality({j \in DOMAIN positions : positions[j] < positions[i]}) = place - 1]

\* What f adds up to from one index to another, both included.
SumOver(from, to, f) ==
    LET sum[k \in 0 .. to - from + 1] == IF k = 0 THEN 0 ELSE sum[k - 1] + f[from + k - 1]
    IN  sum[to - from + 1]

\* The sums a line is fitted from, and what one bin gives to each.
Sums == {"n", "x", "xx", "y", "xy"}

Term(sum, x, y) ==
    CASE sum = "n" -> 1 [] sum = "x" -> x [] sum = "xx" -> x * x
      [] sum = "y" -> y [] sum = "xy" -> x * y

\* The sums over the bins from one position to another, both included, that are
\* primary, or that are not; silent bins are in neither.
SumsOf(curve, from, to, primary) ==
    [sum \in Sums |->
        SumOver(from, to,
            [x \in from .. to |->
                IF /\ x \in DOMAIN curve
                   /\ curve[x].level # 0 /\ curve[x].primary = primary
                THEN Term(sum, x, curve[x].level) ELSE 0])]

Accumulated(curve, from, to) ==
    [primary |-> SumsOf(curve, from, to, TRUE), other |-> SumsOf(curve, from, to, FALSE)]

FitInit ==
    /\ xs = <<>> /\ bins = <<>> /\ order = <<>> /\ fits = <<>>
    /\ turn = 0 /\ outcome = "none" /\ output = <<>>
    /\ fitA = <<>> /\ fitB = <<>> /\ lowOf = <<>> /\ highOf = <<>> /\ memo = <<>>

\* The encoder asks for a floor, and no post has a height yet.
BeginFit ==
    /\ outcome = "none"
    /\ \E spectrum \in Spectra : xs' = spectrum.xs /\ bins' = spectrum.bins
    /\ order' = Ordered(xs')
    /\ fits' = [place \in 1 .. Len(xs') - 1 |->
                   Accumulated(bins', xs'[order'[place]], xs'[order'[place + 1]])]
    /\ turn' = 1
    /\ fitA' = [i \in DOMAIN xs' |-> Unset] /\ fitB' = fitA'
    /\ lowOf' = [place \in DOMAIN xs' |-> 1] /\ highOf' = [place \in DOMAIN xs' |-> 2]
    /\ memo' = [i \in DOMAIN xs' |-> 0]
    /\ outcome' = "pending"
    /\ UNCHANGED output

-----------------------------------------------------------------------------
(* Least squares.                                                          *)

\* Primary bins weigh more the fewer they are among their neighbours: the
\* weight of one, in parts of `unit`, of which another bin has all.
Share(fit) == fit.primary.n + 1
WeightOf(fit, unit) ==
    unit + ((fit.primary.n + fit.other.n) * PrimaryWeight * unit) \div Share(fit)

\* A unit that every share divides.
CommonMultiples(a, b) == {u \in 1 .. a * b : u % a = 0 /\ u % b = 0}
UnitOver(from, to) ==
    LET unit[k \in 0 .. to - from + 1] ==
            IF k = 0 THEN 1
            ELSE Min(CommonMultiples(unit[k - 1], Share(fits[from + k - 1])))
    IN  unit[to - from + 1]

\* The weighted sums over the intervals from one place to another.
Moments(from, to) ==
    LET unit == UnitOver(from, to)
    IN  [sum \in Sums |->
            SumOver(from, to,
                [p \in from .. to |-> WeightOf(fits[p], unit) * fits[p].primary[sum]
                                      + unit * fits[p].other[sum]])]

\* The height at x of the line with these moments, rounded half up and clamped.
HeightAt(m, x) ==
    LET denom == m.n * m.xx - m.x * m.x
        scaled == (m.y * m.xx - m.xy * m.x) + (m.n * m.xy - m.x * m.y) * x
    IN  Greatest(0, Least(MaxLevel, (2 * scaled + denom) \div (2 * denom)))

\* The line from place `from` to place `to`; none through fewer than two bins.
FitLine(from, to) ==
    LET m == Moments(from, to - 1)
    IN  IF m.n * m.xx - m.x * m.x <= 0 THEN [fails |-> TRUE, y0 |-> 0, y1 |-> 0]
        ELSE [fails |-> FALSE, y0 |-> HeightAt(m, xs[order[from]]),
              y1 |-> HeightAt(m, xs[order[to]])]

\* The height of a post: that of its one line, or halfway between its two.
PostY(i) ==
    IF fitA[i] < 0 THEN fitB[i] ELSE IF fitB[i] < 0 THEN fitA[i]
    ELSE (fitA[i] + fitB[i]) \div 2

Square(a) == a * a

\* Whether the line between two posts is too far from the spectrum: at one
\* primary bin, or, when the segment is long enough for the limits to hold on
\* average, altogether.
TooFar(lo, hi) ==
    LET inside == xs[lo] .. xs[hi] - 1
        count == xs[hi] - xs[lo]
        Line(x) == RenderPoint(xs[lo], xs[hi], PostY(lo), PostY(hi), x)
        Off(x) == /\ bins[x].primary /\ (x = xs[lo] \/ bins[x].level # 0)
                  /\ \/ Line(x) + MaxOver < bins[x].level
                     \/ Line(x) - MaxUnder > bins[x].level
        squares == SumOver(xs[lo], xs[hi] - 1,
                           [x \in inside |-> Square(Line(x) - bins[x].level)])
    IN  \/ \E x \in inside : Off(x)
        \/ /\ Square(MaxOver) <= MaxErr * count /\ Square(MaxUnder) <= MaxErr * count
           /\ squares \div count > MaxErr

-----------------------------------------------------------------------------
\* The first line, through everything; nothing primary to be heard is silence.
FitWhole ==
    /\ turn = 1 /\ outcome = "pending"
    /\ IF \A place \in DOMAIN fits : fits[place].primary.n = 0
       THEN outcome' = "silent" /\ UNCHANGED <<turn, fitA, fitB>>
       ELSE LET line == FitLine(1, Len(xs))
            IN  /\ fitA' = [fitA EXCEPT ![1] = line.y0, ![2] = line.y1]
                /\ fitB' = fitA'
                /\ turn' = 3
                /\ UNCHANGED outcome
    /\ UNCHANGED <<spectrumVars, lowOf, highOf, memo, output>>

Visiting == turn > 2 /\ turn <= Len(xs)
Low == lowOf[Place(turn)]
High == highOf[Place(turn)]

\* The segment was inspected for an earlier post.
SkipPost ==
    /\ Visiting /\ memo[Low] = High
    /\ turn' = turn + 1
    /\ UNCHANGED <<spectrumVars, fitA, fitB, lowOf, highOf, memo, outcome, output>>

\* The segment is near enough.
KeepSegment ==
    /\ Visiting /\ memo[Low] # High /\ ~TooFar(Low, High)
    /\ memo' = [memo EXCEPT ![Low] = High]
    /\ turn' = turn + 1
    /\ UNCHANGED <<spectrumVars, fitA, fitB, lowOf, highOf, outcome, output>>

\* Mutant of LinkHigh: only the place next to the post learns of it.
LinkHighNext == [highOf EXCEPT ![Place(turn) - 1] = IF @ = High THEN turn ELSE @]

\* The places on both sides of the post, as far as they had the same neighbour.
LinkHigh ==
    [place \in Posts |->
        IF place < Place(turn) /\ \A p \in place .. Place(turn) - 1 : highOf[p] = High
        THEN turn ELSE highOf[place]]
LinkLow ==
    [place \in Posts |->
        IF place > Place(turn) /\ \A p \in Place(turn) + 1 .. place : lowOf[p] = Low
        THEN turn ELSE lowOf[place]]

\* The segment is split at the post: a line on each side, and where one has too
\* few bins, the height of the other.
SplitSegment ==
    /\ Visiting /\ memo[Low] # High /\ TooFar(Low, High)
    /\ memo' = [memo EXCEPT ![Low] = High]
    /\ turn' = turn + 1
    /\ LET left == FitLine(Place(Low), Place(turn))
           right == FitLine(Place(turn), Place(High))
           ly0 == IF left.fails THEN PostY(Low) ELSE left.y0
           ly1 == IF left.fails THEN right.y0 ELSE left.y1
           hy0 == IF right.fails THEN ly1 ELSE right.y0
           hy1 == IF right.fails THEN PostY(High) ELSE right.y1
       IN  IF left.fails /\ right.fails
           THEN UNCHANGED <<fitA, fitB, lowOf, highOf>>
           ELSE /\ fitA' = [fitA EXCEPT ![1] = IF Low = 1 THEN ly0 ELSE @,
                                        ![turn] = ly1, ![High] = hy1]
                /\ fitB' = [fitB EXCEPT ![2] = IF High = 2 THEN hy1 ELSE @,
                                        ![turn] = hy0, ![Low] = ly0]
                /\ highOf' = LinkHigh
                /\ lowOf' = LinkLow
    /\ UNCHANGED <<spectrumVars, outcome, output>>

\* Mutant of PostOf: a post on the line between its neighbours counts as used.
PostOfUnpredicted(i, predicted) == IF PostY(i) >= 0 THEN PostY(i) ELSE predicted + Flag

\* A post that is not used, or is where its neighbours predict it, is flagged.
PostOf(i, predicted) ==
    IF PostY(i) >= 0 /\ predicted # PostY(i) THEN PostY(i) ELSE predicted + Flag

\* All posts are visited.
AnswerFit ==
    /\ turn > Len(xs) /\ outcome = "pending"
    /\ outcome' = "fitted"
    /\ output' = LET posts[i \in 2 .. Len(xs)] ==
                         IF i = 2 THEN <<PostY(1), PostY(2)>>
                         ELSE Append(posts[i - 1], PostOf(i, Predicted(xs, posts[i - 1], i)))
                 IN  posts[Len(xs)]
    /\ UNCHANGED <<spectrumVars, turn, fitA, fitB, lowOf, highOf, memo>>

FitNext == BeginFit \/ FitWhole \/ SkipPost \/ KeepSegment \/ SplitSegment \/ AnswerFit

FitSpec == FitInit /\ [][FitNext]_fitVars

-----------------------------------------------------------------------------
\* The posts that have a height.
UsedPosts == {i \in Posts : PostY(i) >= 0}

Encloses(lo, hi, i) ==
    /\ {lo, hi} \subseteq UsedPosts
    /\ xs[lo] < xs[i] /\ xs[i] < xs[hi]
    /\ ~ \E j \in UsedPosts : xs[lo] < xs[j] /\ xs[j] < xs[hi]

\* The neighbours on record for a post without a height are the two posts with
\* one that enclose it most tightly, so no line is ever drawn from a post
\* without one; and when the post has been visited, the segment between them is
\* one that was inspected: none is left out unseen (floor_fit.rs:307-316,
\* 372-377 and 428-435).
FitNeighboursEnclose ==
    turn > 2 /\ outcome = "pending" =>
        \A i \in Posts \ UsedPosts :
            LET lo == lowOf[Place(i)]
                hi == highOf[Place(i)]
            IN  Encloses(lo, hi, i) /\ (i < turn => memo[lo] = hi)

\* A spectrum that is a straight line in every bin.
OnLine(y0, slope) ==
    /\ \A x \in DOMAIN bins : bins[x].level = y0 + slope * x /\ bins[x].level > 0
    /\ y0 + slope * xs[2] \in 0 .. MaxLevel

\* What the packet is written from can be written and read back: the ends and
\* every used post are levels, an unused one is where a decoder will predict it
\* and no used one is; and a spectrum that is a line is fitted by that line
\* without a post between its ends (floor_fit.rs:441-462).
FitIsCodable ==
    outcome = "fitted" =>
        /\ \A i \in Posts : Plain(output[i]) \in 0 .. MaxLevel
        /\ ~Flagged(output[1]) /\ ~Flagged(output[2])
        /\ \A i \in Posts \ {1, 2} :
              Flagged(output[i]) <=> Plain(output[i]) = Predicted(xs, output, i)
        /\ \A slope \in -MaxLevel .. MaxLevel :
              OnLine(bins[0].level, slope) =>
                  /\ output[1] = bins[0].level
                  /\ output[2] = bins[0].level + slope * xs[2]
                  /\ \A i \in Posts \ {1, 2} : Flagged(output[i])

=============================================================================
