--------------------------- MODULE LappedTimeline ---------------------------
(***************************************************************************)
(* The timeline the overlap-add is a window of: the blocks of a whole mode *)
(* sequence, placed where the scheduler plans them and never released.     *)
(* It is the reference SynthesisOla and its drivers are compared with.     *)
(***************************************************************************)
EXTENDS OverlapGeometry, SequencesExt

\* PCM position of the centre of block k: each block's centre is a quarter of
\* both block sizes after the one before it.
Centre(ms, k) ==
    LET centre[j \in 0 .. k] ==
          IF j <= 1 THEN 0
          ELSE centre[j - 1] + (BlockSize(ms[j - 1]) + BlockSize(ms[j])) \div 4
    IN  centre[k]

FollowingOf(ms, terminal, k) == IF k < Len(ms) THEN ms[k + 1] ELSE terminal

SpansOf(ms, terminal, k) ==
    Spans(IF k = 1 THEN 0 ELSE ms[k - 1], ms[k], FollowingOf(ms, terminal, k))

\* What block k adds to PCM sample i, counted from 0.
ContributionOf(ms, terminal, k, i) ==
    LET n == BlockSize(ms[k])
        offset == i - (Centre(ms, k) - n \div 2)
    IN  IF offset \in 0 .. n - 1
        THEN Windowed(k, SpansOf(ms, terminal, k), offset)
        ELSE <<>>

\* PCM sample i of the timeline holding the first `count` blocks.
WholeTimeline(ms, terminal, count, i) ==
    FlattenSeq([k \in 1..count |-> ContributionOf(ms, terminal, k, i)])

\* Samples block k's window supports past its centre.
RightHalf(ms, terminal, k) ==
    SpansOf(ms, terminal, k).rightEnd - BlockSize(ms[k]) \div 2

\* A sample the time-domain alias cancellation closes over: one block at
\* weight one, or the falling half of a block and the rising half of the next
\* at the two mirrored entries of the same window half.
Lapped(s) ==
    \/ Len(s) = 1 /\ s[1].part = "flat"
    \/ /\ Len(s) = 2
       /\ s[1].part = "fall" /\ s[2].part = "rise"
       /\ s[2].block = s[1].block + 1
       /\ s[1].size = s[2].size
       /\ s[1].entry + s[2].entry = s[1].size \div 2 - 1

=============================================================================
