------------------------------ MODULE PsyState ------------------------------
(***************************************************************************)
(* The state the psychoacoustic analysis carries from block to block       *)
(* (crates/wem-analysis/src/psychoacoustics/short.rs, temporal.rs and      *)
(* envelope.rs).                                                           *)
(*                                                                         *)
(* A curve is not computed: what it holds is named by the block that wrote *)
(* it and by the scale it was written at.  The first 128 bins of a state   *)
(* curve are `near`, the rest, which only long blocks read, `far`.         *)
(***************************************************************************)
EXTENDS Integers

CONSTANT CurveBias      \* candidate_bias_by_mode[1] of the short profile

\* What a block leaves in a curve: "long", or "spread" eight bins to a value,
\* for a long block to read; "short", or the "min" of eight bins, for a short.
Curve(block, scale) == [block |-> block, scale |-> scale]

FreshChannel == [near |-> Curve(0, "fresh"), far |-> Curve(0, "fresh"), history |-> 0]
FreshTemporal == [previous |-> 0, run |-> 0, tail |-> 0]

\* The transition code of a block: 0 and 1 are short variants, 2 and 3 long.
Transition(mode, variant) == 2 * mode + variant

-----------------------------------------------------------------------------
(* The counters. *)

TailLimit == 8

AdvanceTail(temporal, transition) ==
    LET tail == IF transition >= 2 THEN 0 ELSE temporal.tail
    IN  IF temporal.previous = 0 /\ transition = 1 THEN 1
        ELSE IF tail \in 1 .. TailLimit - 1 THEN tail + 1 ELSE tail

AdvanceTemporal(temporal, transition) ==
    [previous |-> transition,
     run |-> IF temporal.previous = transition THEN temporal.run + 1 ELSE 1,
     tail |-> AdvanceTail(temporal, transition)]

-----------------------------------------------------------------------------
(* The weights of a short block, the lower one in 1/1360: 0.7 is 952, a       *)
(* seventeenth 80, 0.3 is 408 and an eighth of any of them is whole.          *)

Inactive == [active |-> FALSE, lower |-> 0, bias |-> 0, chase |-> 0]

Steady == 8

BiasStep == IF CurveBias >= 3 THEN 3 ELSE 2

\* Mutant of SteadyKernel: the weights never level out.
KernelWithoutPlateau(run) ==
    [active |-> TRUE, lower |-> 952 - 80 * (run - 1), bias |-> run * BiasStep,
     chase |-> Steady - run]

\* In a run of blocks of variant 0.
SteadyKernel(run) ==
    IF run >= Steady THEN [active |-> TRUE, lower |-> 408, bias |-> 25, chase |-> 0]
    ELSE [active |-> TRUE, lower |-> 952 - 80 * (run - 1), bias |-> run * BiasStep,
          chase |-> Steady - run]

TemporalKernel(temporal, transition) ==
    IF transition # 0 THEN Inactive
    ELSE LET kernel ==
               IF temporal.previous # 0
               THEN [active |-> TRUE, lower |-> 952, bias |-> 0, chase |-> 8]
               ELSE SteadyKernel(temporal.run)
         IN  IF temporal.tail = 0 THEN kernel
             ELSE [kernel EXCEPT !.lower = (@ * temporal.tail) \div TailLimit]

-----------------------------------------------------------------------------
(* The curves. *)

\* Where a short block's history comes from: the state curve after any other
\* transition, its own previous history in a run.
HistorySource(channel, temporal) ==
    IF temporal.previous # 0 THEN channel.near.block ELSE channel.history

\* Mutant of AfterLong: the curve is left at the scale of the long block.
AfterLongUnreduced(channel, block, following) ==
    [channel EXCEPT !.near = Curve(block, "long"), !.far = Curve(block, "long")]

\* A long block leaves its curve, the first bins reduced when a short one follows.
AfterLong(channel, block, following) ==
    [channel EXCEPT
       !.near = Curve(block, IF following = 1 THEN "long" ELSE "min"),
       !.far = Curve(block, "long")]

\* A short block leaves its curve, spread over all bins when a long one follows;
\* its history only where the peak continuation ran.
AfterShort(channel, block, following, kernel) ==
    LET scale == IF following = 1 THEN "spread" ELSE "short"
    IN  [channel EXCEPT
           !.near = Curve(block, scale),
           !.far = IF following = 1 THEN Curve(block, scale) ELSE @,
           !.history = IF kernel.active THEN block ELSE @]

=============================================================================
