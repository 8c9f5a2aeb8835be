------------------------------ MODULE MCEncode ------------------------------
(***************************************************************************)
(* A source that is steady, quiet or noisy, but for a few quanta, encoded  *)
(* again in one push and by encode_pcm.                                    *)
(***************************************************************************)
EXTENDS RepeatedEncode

CONSTANTS SteadyWords,  \* bound: the flag words most quanta may have
          OddWords,     \* bound: the flag words a few quanta may have instead
          OddFrom,      \* bound: the first quantum that may be one of the few
          MaxOdd        \* bound: how many may be

VARIABLES steady,       \* the flag word of most quanta
          odd           \* quanta heard with another one so far

mcVars == <<repeatVars, steady, odd>>

MCInit == RepeatInit /\ steady \in SteadyWords /\ odd = 0

MCHear(flags) ==
    /\ flags # steady =>
          odd < MaxOdd /\ quanta >= OddFrom /\ flags \in OddWords
    /\ Hear(flags)
    /\ odd' = IF flags = steady THEN odd ELSE odd + 1
    /\ UNCHANGED steady

\* A quantum of another tail is as it was, or steady.
MCHearAgain(flags) ==
    /\ HearAgain(flags) \/ HearBatch(flags)
    /\ flags \in {heard[quanta + 1], steady}
    /\ UNCHANGED <<steady, odd>>

MCNext ==
    \/ \E flags \in FlagWords : MCHear(flags) \/ MCHearAgain(flags)
    \/ (StreamStep \/ Repeat \/ AgainStep \/ BatchStep) /\ UNCHANGED <<steady, odd>>

MCSpec == MCInit /\ [][MCNext]_mcVars

=============================================================================
