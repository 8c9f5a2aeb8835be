-------------------------- MODULE AnalysisSession --------------------------
(***************************************************************************)
(* Mode selection across one conversion: the transient queue and its scan  *)
(* (crates/wem-scheduling/src/selector.rs) and the cursor of the mode loop *)
(* (crates/wem-analysis/src/session.rs).                                   *)
(*                                                                         *)
(* A quantum of the detector is Window samples, one every Hop samples of   *)
(* the detector stream, which starts LongHalf samples before PCM sample 0. *)
(* What the detector says of a quantum is its flag word, a set of bits;    *)
(* bit 4, which only resets the detector's own history, is left out.       *)
(***************************************************************************)
EXTENDS FramePlanner, FiniteSetsExt

CONSTANT Hop       \* samples between two detector quanta

ASSUME HopAssumption == Hop \in Nat /\ 0 < Hop /\ LongHalf % Hop = 0

FlagWords == SUBSET {1, 2}

VARIABLES quanta,           \* quanta ingested
          queue,            \* the slots of the transient queue that are set
          selected,         \* where the last transient was found
          scanCursor,       \* where the next scan starts
          nextCenter,       \* PCM sample the next block is centred on
          previousCenter,   \* that of the last decided block, -1 before it
          previousMode,
          currentMode,      \* mode of the next block to be decided
          codes             \* frame_transition_codes

selectorVars == <<quanta, queue, selected, scanCursor>>
cursorVars == <<nextCenter, previousCenter, previousMode, currentMode>>
sessionVars == <<selectorVars, cursorVars, codes>>

SessionInit ==
    /\ quanta = 0 /\ queue = {} /\ selected = 0
    /\ scanCursor = LongHalf
    /\ nextCenter = 0 /\ previousCenter = -1
    /\ previousMode = 0 /\ currentMode = 0
    /\ codes = <<>>

Window == 2 * Hop

\* Mutant of Slots: the slot before is set for the first quantum too.
SlotsUnguarded(index, flags) ==
    (IF 1 \in flags THEN {index, index + 1} ELSE {}) \cup
    (IF 2 \in flags THEN {index, index - 1} ELSE {})

\* The slots quantum `index` sets.
Slots(index, flags) ==
    (IF 1 \in flags THEN {index, index + 1} ELSE {}) \cup
    (IF 2 \in flags THEN {index} \cup {s \in {index - 1} : 0 <= s} ELSE {})

\* ingest_transient_quantum and finish_quantum.
Ingest(flags) ==
    /\ quanta' = quanta + 1
    /\ queue' = (queue \ {quanta + 2}) \cup Slots(quanta, flags)
    /\ UNCHANGED <<selected, scanCursor, cursorVars, codes>>

-----------------------------------------------------------------------------
\* The scan of the queue for the block centred on nextCenter.

Generated == quanta * Hop

\* Mutant of Limit: the newest quantum's slot is scanned too.
LimitOneLate == Generated

\* A slot is scanned only once no later quantum can set it.
Limit == Generated - Hop

Center == nextCenter + LongHalf

Boundary == BlockSize(currentMode) \div 4 + Center + LongHalf + Short \div 4

Positions ==
    {p \in scanCursor .. Limit - 1 : (p - scanCursor) % Hop = 0}

Visited == {p \in Positions : p < Boundary}

Hits == {p \in Visited : p \div Hop \in queue /\ p > Center}

\* 0: a transient ahead, 1: none before the boundary, -1: not known yet.
Status == IF Hits # {} THEN 0
          ELSE IF Positions # Visited THEN 1
          ELSE -1

ScanEnd == IF Hits # {} THEN Min(Hits)
           ELSE IF Visited # {} THEN Max(Visited)
           ELSE scanCursor

Found == IF Hits # {} THEN Min(Hits) ELSE selected

\* has_transient_in_window of a short block.
TransientInWindow ==
    LET lower == Center - Short \div 2
        upper == Center + Short \div 2
    IN  \/ lower <= Found /\ Found < upper
        \/ \E slot \in lower \div Hop .. upper \div Hop - 1 : slot \in queue

\* transition_code: twice the mode, plus the variant.
TransitionCode(following) ==
    IF currentMode = 1
    THEN IF previousMode # 0 /\ following # 0 THEN 3 ELSE 2
    ELSE IF TransientInWindow THEN 0 ELSE 1

-----------------------------------------------------------------------------
\* The mode loop.

\* Mutant of HasSourceFrame: the block ahead has to be centred in the source.
HasSourceFrameAhead(sourceLen) == nextCenter < sourceLen

HasSourceFrame(sourceLen) == previousCenter < 0 \/ previousCenter < sourceLen

\* scan_next_mode decides the block at nextCenter; at the end of the stream
\* an undecided scan counts as a transient.
Decide(eos) ==
    LET following == IF Status = 1 THEN 1 ELSE 0
    IN  /\ Status >= 0 \/ eos
        /\ scanCursor' = ScanEnd
        /\ selected' = Found
        /\ codes' = Append(codes, TransitionCode(following))
        /\ previousCenter' = nextCenter
        /\ nextCenter' = nextCenter + BlockSize(currentMode) \div 4
                                    + BlockSize(following) \div 4
        /\ previousMode' = currentMode
        /\ currentMode' = following
        /\ UNCHANGED <<quanta, queue>>

\* scan_next_mode answers None: only the selector's cursor has moved.
Undecided ==
    /\ Status < 0
    /\ scanCursor' = ScanEnd
    /\ UNCHANGED <<quanta, queue, selected, cursorVars, codes>>

\* finalize_terminal_transition.
FinalizedCodes(before, current) ==
    IF current = 1
    THEN [codes EXCEPT ![Len(codes)] = IF before # 0 THEN 3 ELSE 2]
    ELSE codes

SessionTypeOK ==
    /\ quanta \in Nat /\ queue \in SUBSET Nat
    /\ selected \in Nat /\ scanCursor \in Nat
    /\ nextCenter \in Nat /\ previousCenter \in Nat \cup {-1}
    /\ previousMode \in Modes /\ currentMode \in Modes
    /\ codes \in Seq(0..3)

=============================================================================
