--------------------------- MODULE MCStreamEncode ---------------------------
(***************************************************************************)
(* One streaming encode session over a source that is steady, quiet or     *)
(* noisy, but for a few quanta.                                            *)
(***************************************************************************)
EXTENDS StreamEncode

CONSTANT MaxOdd      \* bound: quanta heard unlike the steady ones

VARIABLES steady,    \* the flag word of most quanta
          odd        \* quanta heard with another one so far

mcVars == <<vars, steady, odd>>

MCInit == Init /\ steady \in FlagWords /\ odd = 0

Hear(flags) ==
    /\ flags # steady => odd < MaxOdd
    /\ IngestQuantum(flags)
    /\ odd' = IF flags = steady THEN odd ELSE odd + 1
    /\ UNCHANGED steady

Step ==
    \/ \E flags \in FlagWords : Hear(flags)
    \/ Run /\ UNCHANGED <<steady, odd>>

Call ==
    /\ (\E n \in Chunks : PushChunk(n)) \/ Finish
    /\ UNCHANGED <<steady, odd>>

MCSpec == MCInit /\ [][Step \/ Call]_mcVars /\ WF_mcVars(Step)

\* A call that is made returns: no loop of push or finish runs on one state
\* for ever (stream.rs:344, 386 and 407).
CallsReturn == []<>(pc \in {"idle", "done", "refused"})

=============================================================================
