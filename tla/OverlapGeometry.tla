--------------------------- MODULE OverlapGeometry --------------------------
(***************************************************************************)
(* Block sizes, modes and the hybrid window of one block                   *)
(* (crates/wem-analysis/src/dsp/transform.rs).                             *)
(*                                                                         *)
(* What a windowed block adds to a sample is a contribution: which block,  *)
(* which part of its window, the size of the window half that weighted it  *)
(* and the entry of that half used.                                        *)
(***************************************************************************)
EXTENDS Arithmetic

CONSTANTS Short,   \* blocksizes[0]
          Long     \* blocksizes[1]

ASSUME BlockSizesAssumption ==
    /\ Short \in Nat /\ Long \in Nat
    /\ Short % 4 = 0 /\ Long % 4 = 0
    /\ 0 < Short /\ Short < Long

Modes == {0, 1}

BlockSize(mode) == IF mode = 0 THEN Short ELSE Long

Origin == Long \div 2

\* Mutant of Spans: the left half of a long block ignores the block before it.
SpansIgnoringPrevious(prev, current, following) ==
    LET n == BlockSize(current)
        right == IF current = 0 THEN Short ELSE BlockSize(following)
        rightBegin == n \div 2 + n \div 4 - right \div 4
    IN  [n |-> n, left |-> n, right |-> right,
         leftBegin |-> 0, leftEnd |-> n \div 2,
         rightBegin |-> rightBegin, rightEnd |-> rightBegin + right \div 2]

\* The window spans of a block.  A short block always uses the short window;
\* a long one takes the size of each block it overlaps.
Spans(prev, current, following) ==
    LET n == BlockSize(current)
        left == IF current = 0 THEN Short ELSE BlockSize(prev)
        right == IF current = 0 THEN Short ELSE BlockSize(following)
        leftBegin == n \div 4 - left \div 4
        rightBegin == n \div 2 + n \div 4 - right \div 4
    IN  [n |-> n, left |-> left, right |-> right,
         leftBegin |-> leftBegin, leftEnd |-> leftBegin + left \div 2,
         rightBegin |-> rightBegin, rightEnd |-> rightBegin + right \div 2]

Contribution(block, part, size, entry) ==
    [block |-> block, part |-> part, size |-> size, entry |-> entry]

Contributions == [block : Nat, part : {"rise", "flat", "fall"},
                  size : Nat, entry : Nat]

\* Mutant of Windowed: the falling half is read one entry too low.
WindowedOneLow(block, s, i) ==
    IF i < s.leftBegin \/ i >= s.rightEnd
    THEN <<>>
    ELSE <<IF i < s.leftEnd
           THEN Contribution(block, "rise", s.left, i - s.leftBegin)
           ELSE IF i >= s.rightBegin
           THEN Contribution(block, "fall", s.right,
                             s.right \div 2 - 2 - (i - s.rightBegin))
           ELSE Contribution(block, "flat", 0, 0)>>

\* What offset i of a windowed block adds to the timeline.
Windowed(block, s, i) ==
    IF i < s.leftBegin \/ i >= s.rightEnd
    THEN <<>>
    ELSE <<IF i < s.leftEnd
           THEN Contribution(block, "rise", s.left, i - s.leftBegin)
           ELSE IF i >= s.rightBegin
           THEN Contribution(block, "fall", s.right,
                             s.right \div 2 - 1 - (i - s.rightBegin))
           ELSE Contribution(block, "flat", 0, 0)>>

=============================================================================
