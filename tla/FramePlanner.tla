---------------------------- MODULE FramePlanner ----------------------------
(***************************************************************************)
(* Readiness and overlap of analysis frames                                *)
(* (crates/wem-scheduling/src/planner.rs).                                 *)
(*                                                                         *)
(* The scheduler timeline starts one long half-block before PCM sample 0.  *)
(***************************************************************************)
EXTENDS Arithmetic

CONSTANTS Short,   \* blocksizes[0]
          Long     \* blocksizes[1]

ASSUME BlockSizesAssumption ==
    /\ Short \in Nat /\ Long \in Nat
    /\ Short % 4 = 0 /\ Long % 4 = 0
    /\ 0 < Short /\ Short < Long

Modes == {0, 1}

BlockSize(mode) == IF mode = 0 THEN Short ELSE Long

LongHalf == Long \div 2

\* The overlap state before the first block, of mode `current`.
FreshPlanner(current) ==
    [previous |-> 0, current |-> current, cursor |-> LongHalf,
     filled |-> LongHalf, base |-> 0, emitted |-> 0]

RequiredSamples(state, following) ==
    state.cursor + BlockSize(following) \div 4 + BlockSize(state.current) \div 4
        + BlockSize(following) \div 2

\* The feeder appends what the block is short of.
AppendSamples(state, following) ==
    [state EXCEPT !.filled = Greatest(@, RequiredSamples(state, following))]

\* Mutant of Advance: the distance to the next block ignores what follows.
AdvanceIgnoringFollowing(state, following) ==
    state.cursor + BlockSize(state.current) \div 4
        + BlockSize(state.current) \div 4 - LongHalf

\* The distance the timeline slides after a block.
Advance(state, following) ==
    state.cursor + BlockSize(following) \div 4 + BlockSize(state.current) \div 4
        - LongHalf

Rejected(state, following) ==
    \/ state.filled < RequiredSamples(state, following)
    \/ Advance(state, following) <= 0

SampleStart(state) ==
    state.base + state.cursor - BlockSize(state.current) \div 2

FramePlan(state, following) ==
    [index |-> state.emitted, previous |-> state.previous,
     current |-> state.current, following |-> following,
     start |-> SampleStart(state),
     end |-> SampleStart(state) + BlockSize(state.current)]

AfterBlock(state, following) ==
    [previous |-> state.current, current |-> following, cursor |-> LongHalf,
     filled |-> state.filled - Advance(state, following),
     base |-> state.base + Advance(state, following),
     emitted |-> state.emitted + 1]

\* The PCM sample a block is centred on.
CentreOf(plan) == plan.start - LongHalf + BlockSize(plan.current) \div 2

\* Where a block's window ends: a short block uses the short window, a long one
\* the size of the block that follows it.
WindowEnd(plan) ==
    LET n == BlockSize(plan.current)
        right == IF plan.current = 0 THEN Short ELSE BlockSize(plan.following)
    IN  plan.start + n \div 2 + n \div 4 + right \div 4

=============================================================================
