------------------------- MODULE SynthesizeSequence -------------------------
(***************************************************************************)
(* The batch driver of the overlap-add (transform.rs, synthesize_sequence):*)
(* every block is pushed with the mode of the block after it, the last one *)
(* with terminal_following, and the tail is released at the end.           *)
(***************************************************************************)
EXTENDS SynthesisOla, LappedTimeline

CONSTANT MaxBlocks     \* bound on the length of a mode sequence

ASSUME MaxBlocksAssumption == MaxBlocks \in Nat

VARIABLES modes,       \* the mode sequence the packet headers carry
          terminal,    \* the mode of the block after the last one
          index,       \* blocks pushed so far
          tail,        \* whether the tail has been released
          pcm          \* what the caller has been handed, in order

vars == <<olaVars, modes, terminal, index, tail, pcm>>

Init ==
    /\ OlaInit
    /\ \E n \in 0..MaxBlocks : modes \in [1..n -> Modes]
    /\ terminal \in Modes
    /\ index = 0
    /\ tail = FALSE
    /\ pcm = <<>>

PushBlock ==
    /\ index < Len(modes)
    /\ OlaPush(index + 1, modes[index + 1], FollowingOf(modes, terminal, index + 1))
    /\ index' = index + 1
    /\ pcm' = pcm \o released'
    /\ UNCHANGED <<modes, terminal, tail>>

ReleaseTail ==
    /\ index = Len(modes)
    /\ ~tail
    /\ OlaFinish
    /\ tail' = TRUE
    /\ pcm' = pcm \o released'
    /\ UNCHANGED <<modes, terminal, index>>

Next == PushBlock \/ ReleaseTail

Spec == Init /\ [][Next]_vars

-----------------------------------------------------------------------------

\* Every variable holds a value of its kind.
TypeOK ==
    /\ OlaTypeOK
    /\ modes \in Seq(Modes) /\ terminal \in Modes
    /\ index \in 0..Len(modes)
    /\ tail \in BOOLEAN
    /\ pcm \in Seq(Seq(Contributions))

\* The retained window never exceeds one long block, however long the stream
\* is (transform.rs:733, `end - keep <= blocksizes[1]`).
WindowBounded == Len(samples) <= Long

\* Every index the next push or finish computes into the window is inside it:
\* the block starts at or after the first retained sample, the front that is
\* dropped exists, and so do the samples that will be handed out
\* (transform.rs:740, 791 and 822 subtract unsigned positions).
WindowHoldsNextBlock ==
    ~tail =>
        /\ \A mode \in Modes : Position(mode) >= start + Droppable
        /\ Droppable <= Len(samples)
        /\ start + Droppable <= Origin + completed
        /\ base <= Origin + completed
        /\ supportEnd <= start + Len(samples)

\* The samples handed out are the samples of the whole timeline: releasing the
\* front loses nothing, and no block pushed later reaches a sample that was
\* handed over (transform.rs:752-756, "no later push rewrites any element").
MatchesWholeTimeline ==
    \A i \in 1..Len(pcm) : pcm[i] = WholeTimeline(modes, terminal, index, i - 1)

\* Before the tail the caller holds exactly the samples before the centre of
\* the last block pushed; the tail adds that block's right half.
DeliveredUpToCentre ==
    index > 0 =>
        Len(pcm) = Centre(modes, index)
                     + IF tail THEN RightHalf(modes, terminal, index) ELSE 0

\* Between the first and the last centre every sample is lapped, whatever the
\* mode sequence (transform.rs:581-585 and 854-857).
LappedBetweenCentres ==
    \A i \in 1..Len(pcm) : i <= Centre(modes, index) => Lapped(pcm[i])

=============================================================================
