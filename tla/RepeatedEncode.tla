--------------------------- MODULE RepeatedEncode ---------------------------
(***************************************************************************)
(* A source encoded by a stream session, and then again: by another stream *)
(* session that is pushed other chunks (crates/wem-core/src/stream.rs), or *)
(* by encode_pcm (crates/wem-core/src/encoder.rs).                         *)
(*                                                                         *)
(* One conversion runs after the other, so the variables are those of the  *)
(* one at hand, and what the first answered is kept.  The transient        *)
(* detector answers the same of a quantum each time it is asked about the  *)
(* same samples.                                                           *)
(***************************************************************************)
EXTENDS StreamEncode

CONSTANT BatchTail       \* predicted samples of encode_pcm's detector stream

\* Both tails reach past the scan of the last block: its boundary lies at most
\* five quarters of a long block and one of a short one past the source, and the
\* detector lags behind its stream (session.rs:565, streaming.rs:53).
ASSUME TailAssumption ==
    /\ BatchTail \in Nat /\ BatchTail <= StreamTail
    /\ 5 * (Long \div 4) + Short \div 4 + 4 * Hop <= BatchTail

VARIABLES turn,     \* "stream", then "again" or "batch"
          heard,    \* the flag word of every quantum of the first encode
          answer    \* what the first encode decided and answered

Batch == INSTANCE BatchEncode WITH sourceLen <- total

\* What only a stream session has.
feedVars == <<retained, extracted, pending, handed>>
turnVars == <<turn, heard, answer>>
repeatVars == <<vars, turnVars>>

NoAnswer == [total |-> 0, training |-> NoTail, modes |-> <<>>, plans |-> <<>>,
             codes |-> <<>>, frames |-> <<>>]

RepeatInit == Init /\ turn = "stream" /\ heard = <<>> /\ answer = NoAnswer

\* The first encode, pushed any chunks.
Hear(flags) ==
    /\ turn = "stream"
    /\ IngestQuantum(flags)
    /\ heard' = Append(heard, flags)
    /\ UNCHANGED <<turn, answer>>

StreamStep ==
    /\ turn = "stream"
    /\ Run \/ Finish \/ \E n \in Chunks : PushChunk(n)
    /\ UNCHANGED turnVars

\* Its answer is kept, and the next encode begins with a session of its own.
Afresh ==
    /\ quanta' = 0 /\ queue' = {} /\ selected' = 0 /\ scanCursor' = LongHalf
    /\ nextCenter' = 0 /\ previousCenter' = -1
    /\ previousMode' = 0 /\ currentMode' = 0 /\ codes' = <<>>
    /\ pc' = "idle" /\ total' = 0
    /\ modes' = <<>> /\ plans' = <<>> /\ frames' = <<>>
    /\ planner' = FreshPlanner(0)
    /\ retained' = 0 /\ extracted' = 0 /\ pending' = NoCentre /\ handed' = 0

Repeat ==
    /\ turn = "stream" /\ pc = "done"
    /\ answer' = [total |-> total, training |-> training, modes |-> modes,
                  plans |-> plans, codes |-> codes, frames |-> frames]
    /\ \/ turn' = "again" /\ training' = NoTail
       \/ turn' = "batch" /\ training' = Long
    /\ Afresh
    /\ UNCHANGED heard

\* What the detector may say of a quantum: the same as the first time when its
\* samples are the same, which those of the tail are when the predictor was
\* trained on the same window.
Answers(flags) ==
    \/ flags = heard[quanta + 1]
    \/ quanta * Hop + Window > LongHalf + total /\ training # answer.training

\* The second stream, in other chunks, the whole source at once among them.
HearAgain(flags) ==
    /\ turn = "again"
    /\ IngestQuantum(flags) /\ Answers(flags)
    /\ UNCHANGED turnVars

AgainStep ==
    /\ turn = "again"
    /\ \/ Run
       \/ total = answer.total /\ Finish
       \/ \E n \in Chunks \cup {answer.total} :
             total + n <= answer.total /\ PushChunk(n)
    /\ UNCHANGED turnVars

\* encode_pcm.
HearBatch(flags) ==
    /\ turn = "batch"
    /\ Batch!IngestQuantum(flags) /\ Answers(flags)
    /\ UNCHANGED <<feedVars, turnVars>>

BatchStep ==
    /\ turn = "batch"
    /\ Batch!EncodePcm(answer.total) \/ Batch!Run
    /\ UNCHANGED <<feedVars, turnVars>>

RepeatNext ==
    \/ \E flags \in FlagWords : Hear(flags) \/ HearAgain(flags) \/ HearBatch(flags)
    \/ StreamStep \/ Repeat \/ AgainStep \/ BatchStep

RepeatSpec == RepeatInit /\ [][RepeatNext]_repeatVars

-----------------------------------------------------------------------------
\* Chunk boundaries never affect the answer: where some chunking is answered,
\* every other is too, with the same frames, each of the same plan, code and
\* predicted samples (stream.rs:46-48).
ChunkingNeverMatters ==
    turn = "again" /\ pc \in {"done", "refused", "failed"} =>
        pc = "done" /\ frames = answer.frames

\* The source decides the same of both encodes: where the tail is predicted
\* from the same window, the stream chooses encode_pcm's modes, plans and
\* codes (stream.rs:214-217, "the batch select_modes body").
SameDecisionsOnSameTail ==
    turn = "batch" /\ pc = "done" /\ training = answer.training =>
        modes = answer.modes /\ plans = answer.plans /\ codes = answer.codes

\* What encode_pcm decides before it predicts the tail, the stream has decided
\* too before it does: its modes begin with the same ones, and its predictor is
\* trained on no more (stream.rs:75-83 and session.rs:552-562).
StreamDecidesNoLess ==
    turn = "batch" /\ pc \in {"tail", "tailIngest"} =>
        /\ answer.training <= training
        /\ Len(modes) <= Len(answer.modes)
        /\ SubSeq(answer.modes, 1, Len(modes)) = modes

\* Any chunking reproduces encode_pcm (stream.rs:46-49).
ReproducesEncodePcm ==
    turn = "batch" /\ pc = "done" => frames = answer.frames

\* The streaming frame windows select exactly the samples the batch ones do
\* (streaming.rs:25-32 and 411-416), where the tail has the same predictor.
SelectsBatchSamples ==
    turn = "batch" /\ pc = "done" /\ training = answer.training =>
        \A k \in DOMAIN frames : frames[k].past = answer.frames[k].past

=============================================================================
