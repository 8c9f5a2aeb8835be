----------------------------- MODULE MCAnalysis -----------------------------
(***************************************************************************)
(* Three parts of the analysis of a stream, side by side: the channels of  *)
(* its blocks on a pool, the transient detector, and the fit of a floor.   *)
(* They share no state, so a behaviour is about one of them.               *)
(***************************************************************************)
EXTENDS ParallelAnalysis, TransientDetector, FloorFit

VARIABLE subject    \* what the behaviour is about

mcVars == <<parallelVars, detectorVars, fitVars, subject>>

\* A negative number is not a constant of a configuration.
MCFallUnder == -2

\* Two channels of one band: both silent, one loud, or the other louder.
MCSound(first, second) ==
    <<[energy |-> first, levels |-> <<first>>], [energy |-> 2 * second, levels |-> <<second>>]>>
MCSounds == {MCSound(0, 0), MCSound(3, 0), MCSound(0, 6)}

\* Six bins, and posts in two packet orders: the middle first, or the inner ones
\* from above.
MCBins(levels, primary) == [x \in 0 .. 5 |-> [level |-> levels[x + 1], primary |-> x \in primary]]
MCLevels == {0, 3, 6, 15}
MCStep(a, b, at) == [i \in 1 .. 6 |-> IF i <= at THEN a ELSE b]
MCLine(y, slope) == [i \in 1 .. 6 |-> Greatest(0, Least(MaxLevel, y + slope * (i - 1)))]
MCSpectra ==
    {[xs |-> xs0, bins |-> MCBins(<<a, b, c, d, e, f>>, primary)] :
        xs0 \in {<<0, 6, 3, 1, 5>>}, a, b, c, d, e, f \in MCLevels,
        primary \in {0 .. 5, {0, 2, 4}}}
    \cup {[xs |-> xs0, bins |-> MCBins(MCLine(y, slope), 0 .. 5)] :
        xs0 \in {<<0, 6, 3, 1, 5>>, <<0, 6, 4, 3, 1>>}, y \in 1 .. 14, slope \in -1 .. 1}
    \cup {[xs |-> <<0, 6, 4, 3, 1>>, bins |-> MCBins(MCStep(a, b, at), 0 .. 5)] :
        a, b \in MCLevels, at \in 1 .. 5}

MCInit ==
    /\ ParallelInit /\ DetectorInit /\ FitInit
    /\ subject \in {"pool", "detector", "fit"}
    /\ subject # "pool" => workers = 1

MCNext ==
    /\ \/ subject = "pool" /\ ParallelNext /\ UNCHANGED <<detectorVars, fitVars>>
       \/ subject = "detector" /\ DetectorNext /\ UNCHANGED <<parallelVars, fitVars>>
       \/ subject = "fit" /\ FitNext /\ UNCHANGED <<parallelVars, detectorVars>>
    /\ UNCHANGED subject

MCSpec == MCInit /\ [][MCNext]_mcVars /\ PoolFairness

=============================================================================
