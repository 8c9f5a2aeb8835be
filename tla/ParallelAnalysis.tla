-------------------------- MODULE ParallelAnalysis --------------------------
(***************************************************************************)
(* The same analysis in a build with the `parallel` feature: the channel   *)
(* waves of a long block run on the workers of the session's own pool      *)
(* (crates/wem-analysis/src/psychoacoustics/pool.rs).                      *)
(*                                                                         *)
(* The pool is Rayon's, known from how the code uses it: the body of a     *)
(* scope runs on one worker, which spawns the jobs and then, while it      *)
(* waits for them, takes jobs itself like the others.                      *)
(***************************************************************************)
EXTENDS FrameAnalysis

CONSTANT Caps           \* bound: what the caller may state as max_workers

VARIABLES workers,      \* how many the pool was built with
          spawned,      \* jobs of the wave spawned so far
          waiting,      \* those no worker has taken
          running,      \* what each worker runs; 0 is nothing
          slots         \* the result slots

poolVars == <<workers, spawned, waiting, running, slots>>
parallelVars == <<analysisVars, poolVars>>

\* One worker per channel job, or as many as the caller's cap.
ForChannels(cap) == IF cap < Channels THEN cap ELSE Channels

Workers == 1 .. workers
Owner == 1              \* the worker the body of the scope runs on

Empty == [unpublished |-> TRUE]

PoolInit ==
    /\ workers \in {ForChannels(cap) : cap \in Caps}
    /\ spawned = 0 /\ waiting = {}
    /\ running = [w \in Workers |-> 0]
    /\ slots = [c \in Lines |-> Empty]

ParallelInit == AnalysisInit /\ PoolInit

\* Long blocks run both their waves here.
InWave == phase \in {"transform", "shape"} /\ input.mode = 1

Spawn ==
    /\ InWave /\ spawned < Channels
    /\ spawned' = spawned + 1
    /\ waiting' = waiting \cup {spawned + 1}
    /\ UNCHANGED <<analysisVars, workers, running, slots>>

\* The owner helps only once its body has spawned all.
Take(w) ==
    /\ running[w] = 0
    /\ w = Owner => spawned = Channels
    /\ \E c \in waiting :
          /\ running' = [running EXCEPT ![w] = c]
          /\ waiting' = waiting \ {c}
    /\ UNCHANGED <<analysisVars, workers, spawned, slots>>

\* Mutant of SlotOf: a result goes to the first slot that is free.
FirstFreeSlot(c) ==
    CHOOSE d \in Lines : slots[d] = Empty /\ \A e \in Lines : slots[e] = Empty => d <= e

\* The slot iter_mut handed a job.
SlotOf(c) == c

Publish(w) ==
    /\ running[w] # 0
    /\ LET c == running[w]
       IN  slots' = [slots EXCEPT
                       ![SlotOf(c)] = IF phase = "transform" THEN TransformJob(c)
                                      ELSE ShapeJob(c)]
    /\ running' = [running EXCEPT ![w] = 0]
    /\ UNCHANGED <<analysisVars, workers, spawned, waiting>>

\* The scope has joined every job it spawned.
Joined == spawned = Channels /\ waiting = {} /\ \A w \in Workers : running[w] = 0

Release ==
    /\ spawned' = 0 /\ waiting' = {}
    /\ running' = [w \in Workers |-> 0]
    /\ slots' = [c \in Lines |-> Empty]
    /\ UNCHANGED workers

JoinTransforms ==
    /\ InWave /\ phase = "transform" /\ Joined
    /\ TakeTransforms(Collected(slots))
    /\ Release
    /\ UNCHANGED <<block, input, state, temporal>>

JoinShapes ==
    /\ InWave /\ phase = "shape" /\ Joined
    /\ TakeLongShapes(Collected(slots))
    /\ Release
    /\ UNCHANGED <<block, input, local, peak>>

\* A short block runs on the calling thread.
ShortBlock ==
    /\ input.mode = 0
    /\ TransformBlock \/ ShapeShortBlock
    /\ UNCHANGED poolVars

ParallelNext ==
    \/ BeginBlock /\ UNCHANGED poolVars
    \/ ShortBlock
    \/ Spawn
    \/ \E w \in Workers : Take(w) \/ Publish(w)
    \/ JoinTransforms \/ JoinShapes

\* The threads of the pool run; the caller need not begin another block.
PoolFairness ==
    /\ WF_parallelVars(Spawn)
    /\ \A w \in Lines :
          /\ WF_parallelVars(w \in Workers /\ Take(w))
          /\ WF_parallelVars(w \in Workers /\ Publish(w))
    /\ WF_parallelVars(JoinTransforms \/ JoinShapes)
    /\ WF_parallelVars(ShortBlock)

ParallelSpec == ParallelInit /\ [][ParallelNext]_parallelVars /\ PoolFairness

-----------------------------------------------------------------------------
\* Whatever the workers and the order they take and finish the jobs in, the
\* analysis is the sequential one: the same rows in channel order, the error of
\* the earliest channel, the same peak and curves (pool.rs:192-198).
SameAsSequential == AnalysisSpec

\* Every block is answered, at any pool size (pool.rs:195-198).
BlocksAnswered == (phase \in {"transform", "shape"}) ~> (phase \in {"idle", "failed"})

=============================================================================
