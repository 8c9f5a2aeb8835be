----------------------------- MODULE BatchEncode ----------------------------
(***************************************************************************)
(* The one-shot encode of a whole source: AnalysisSession::select_modes,   *)
(* plan_mode_sequence and the frame loop of Encoder::encode_pcm            *)
(* (crates/wem-analysis/src/session.rs, crates/wem-core/src/encoder.rs).   *)
(***************************************************************************)
EXTENDS AnalysisSession

CONSTANTS MinFrames,     \* the 4096 frames a source must have
          BatchTail,     \* predicted samples of the second detector stream
          TailContext    \* the context the tail's predictor needs

VARIABLES pc,            \* where the conversion is
          sourceLen,     \* frames of the source
          training,      \* eos_training_samples
          modes, planner, plans, frames

batchVars == <<pc, sourceLen, training, modes, planner, plans, frames>>
vars == <<sessionVars, batchVars>>

Init ==
    /\ SessionInit
    /\ pc = "idle" /\ sourceLen = 0 /\ training = Long
    /\ modes = <<>> /\ plans = <<>> /\ frames = <<>>
    /\ planner = FreshPlanner(0)

EncodePcm(length) ==
    /\ pc = "idle"
    /\ sourceLen' = length
    /\ pc' = IF length < MinFrames THEN "refused" ELSE "ingest"
    /\ UNCHANGED <<sessionVars, training, modes, planner, plans, frames>>

\* Mutant of PreEosQuanta: there is no margin.
PreEosQuantaUnbounded == (LongHalf + sourceLen) \div Hop

\* The quanta heard before the tail is predicted leave a margin of four hops.
PreEosQuanta == Greatest((LongHalf + sourceLen) \div Hop - 4, 0)

AvailableQuanta ==
    (LongHalf + sourceLen + BatchTail - Window) \div Hop + 1

QuantaWanted == IF pc = "ingest" THEN PreEosQuanta ELSE AvailableQuanta

IngestQuantum(flags) ==
    /\ pc \in {"ingest", "tailIngest"}
    /\ quanta < QuantaWanted
    /\ Ingest(flags)
    /\ UNCHANGED batchVars

QuantaIngested ==
    /\ pc \in {"ingest", "tailIngest"}
    /\ quanta >= QuantaWanted
    /\ pc' = IF pc = "ingest" THEN "scan" ELSE "tailScan"
    /\ UNCHANGED <<sessionVars, sourceLen, training, modes, planner, plans,
                   frames>>

ScanMode ==
    /\ pc \in {"scan", "tailScan"}
    /\ HasSourceFrame(sourceLen)
    /\ \/ /\ Decide(pc = "tailScan")
          /\ modes' = Append(modes, currentMode)
          /\ pc' = pc
       \/ /\ pc = "scan" /\ Undecided
          /\ pc' = "tail"
          /\ UNCHANGED modes
    /\ UNCHANGED <<sourceLen, training, planner, plans, frames>>

SourceScanned ==
    /\ pc \in {"scan", "tailScan"}
    /\ ~HasSourceFrame(sourceLen)
    /\ pc' = IF pc = "scan" THEN "tail" ELSE "finalize"
    /\ UNCHANGED <<sessionVars, sourceLen, training, modes, planner, plans,
                   frames>>

ComputeTail ==
    LET window == Least(Long, LongHalf + sourceLen - nextCenter)
    IN  /\ pc = "tail"
        /\ training' = window
        /\ pc' = IF TailContext < window /\ window <= sourceLen
                 THEN "tailIngest" ELSE "failed"
        /\ UNCHANGED <<sessionVars, sourceLen, modes, planner, plans, frames>>

FinalizeTerminal ==
    LET k == Len(modes)
        before == IF k > 1 THEN modes[k - 1] ELSE 0
    IN  /\ pc = "finalize"
        /\ codes' = FinalizedCodes(before, modes[k])
        /\ planner' = FreshPlanner(modes[1])
        /\ pc' = "plan"
        /\ UNCHANGED <<selectorVars, cursorVars, sourceLen, training, modes,
                       plans, frames>>

\* One turn of plan_mode_sequence; a long block follows the last mode.
PlanBlock ==
    LET k == Len(plans) + 1
        following == IF k < Len(modes) THEN modes[k + 1] ELSE 1
        state == AppendSamples(planner, following)
    IN  /\ pc = "plan" /\ k <= Len(modes)
        /\ IF planner.current = modes[k] /\ ~Rejected(state, following)
           THEN /\ plans' = Append(plans, FramePlan(state, following))
                /\ planner' = AfterBlock(state, following)
                /\ pc' = pc
           ELSE pc' = "failed" /\ UNCHANGED <<plans, planner>>
        /\ UNCHANGED <<sessionVars, sourceLen, training, modes, frames>>

\* What the samples past the end of the source are: as many are predicted as
\* the predictor was trained on, and the rest is silence.
Past(plan) ==
    LET past == (WindowEnd(plan) - LongHalf) - sourceLen
    IN  IF past > 0
        THEN [trained |-> training, predicted |-> Least(past, training)]
        ELSE [trained |-> 0, predicted |-> 0]

EncodeFrames ==
    /\ pc = "plan" /\ Len(plans) = Len(modes)
    /\ frames' = [k \in DOMAIN plans |->
                    [plan |-> plans[k], past |-> Past(plans[k]),
                     code |-> codes[k]]]
    /\ pc' = "done"
    /\ UNCHANGED <<sessionVars, sourceLen, training, modes, planner, plans>>

Run ==
    \/ QuantaIngested \/ ScanMode \/ SourceScanned \/ ComputeTail
    \/ FinalizeTerminal \/ PlanBlock \/ EncodeFrames

=============================================================================
