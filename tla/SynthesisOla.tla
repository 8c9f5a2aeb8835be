---------------------------- MODULE SynthesisOla ----------------------------
(***************************************************************************)
(* The sliding-window overlap-add of the decoder                           *)
(* (crates/wem-analysis/src/dsp/transform.rs, SynthesisOla).               *)
(*                                                                         *)
(* A block of n samples is placed on the scheduler's timeline, windowed    *)
(* and added to what is already there; PCM sample i is timeline position   *)
(* i + Long/2.  Only a window of the timeline is kept: samples[i] is the   *)
(* timeline position start + i - 1.                                        *)
(*                                                                         *)
(* A sample is the sequence of contributions that were added to it         *)
(* (OverlapGeometry); a position a block only adds zero to gains nothing.  *)
(***************************************************************************)
EXTENDS OverlapGeometry

VARIABLES samples,      \* the retained window of the timeline
          start,        \* timeline position of samples[1]
          previous,     \* mode of the last block pushed
          base,         \* timeline position the next block's extent starts at
          completed,    \* PCM samples finalized so far
          supportEnd,   \* timeline position past the last block's support
          released      \* what the last push or finish handed back

olaVars == <<samples, start, previous, base, completed, supportEnd, released>>

Position(current) == base + Origin - BlockSize(current) \div 2

\* Mutant of Droppable: nothing is ever dropped.
DropNothing == 0

\* Mutant of Droppable: everything already handed out is dropped.
DropFinalized == Origin + completed - start

\* How much of the window's front the next push drops: no later block writes
\* below base, and everything below the finalized frontier has been handed out.
Droppable == Greatest(Least(base, Origin + completed) - start, 0)

\* The window after dropping its front and growing it to hold a block's end.
Retained(end) ==
    LET kept == Len(samples) - Droppable
        held == Greatest(kept, end - (start + Droppable))
    IN  [i \in 1..held |-> IF i <= kept THEN samples[i + Droppable] ELSE <<>>]

\* Mutant of ReleasedSince: the last sample of the previous release comes again.
ReleasedAgain(before) ==
    SubSeq(samples', Origin + before - start',
                     Origin + completed' - start')

\* The PCM samples [before, completed') as the caller receives them.
ReleasedSince(before) ==
    SubSeq(samples', Origin + before - start' + 1,
                     Origin + completed' - start')

OlaInit ==
    /\ samples = [i \in 1..Origin |-> <<>>]
    /\ start = 0
    /\ previous = 0
    /\ base = 0
    /\ completed = 0
    /\ supportEnd = 0
    /\ released = <<>>

\* Window and overlap-add one block whose follower has mode `following`.
OlaPush(block, current, following) ==
    LET s == Spans(previous, current, following)
        position == Position(current)
        window == Retained(position + s.n)
        first == start + Droppable
    IN  /\ samples' = [i \in DOMAIN window |->
                         LET offset == first + i - 1 - position
                         IN  IF offset \in 0 .. s.n - 1
                             THEN window[i] \o Windowed(block, s, offset)
                             ELSE window[i]]
        /\ start' = first
        /\ completed' = Greatest(completed, base)
        /\ supportEnd' = position + s.rightEnd
        /\ previous' = current
        /\ base' = base + (s.n + BlockSize(following)) \div 4
        /\ released' = ReleasedSince(completed)

\* Mutant of OlaFinish: the tail ends where the next block would start.
FinishAtBase ==
    /\ completed' = Greatest(completed, base - Origin)
    /\ UNCHANGED <<samples, start, previous, base, supportEnd>>
    /\ released' = ReleasedSince(completed)

\* With no further block to overlap, the last block's support is final.
OlaFinish ==
    /\ completed' = Greatest(completed, supportEnd - Origin)
    /\ UNCHANGED <<samples, start, previous, base, supportEnd>>
    /\ released' = ReleasedSince(completed)

-----------------------------------------------------------------------------
\* Every variable holds a value of its kind.
OlaTypeOK ==
    /\ samples \in Seq(Seq(Contributions))
    /\ start \in Nat /\ base \in Nat /\ completed \in Nat /\ supportEnd \in Nat
    /\ previous \in Modes
    /\ released \in Seq(Seq(Contributions))

\* How the window, the finalized frontier and the next block's extent lie on
\* the timeline while blocks are still to come: nothing below start is needed
\* again, the finalized frontier is held, and the window reaches at most one
\* long block past the base of the next one.
OlaInv ==
    /\ start <= base
    /\ completed <= base
    /\ base <= Origin + completed
    /\ Origin + completed <= start + Len(samples)
    /\ supportEnd <= start + Len(samples)
    /\ start + Len(samples) <= base + Long

=============================================================================
