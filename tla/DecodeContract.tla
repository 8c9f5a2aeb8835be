---------------------------- MODULE DecodeContract --------------------------
(***************************************************************************)
(* What a decode session promises (include/wem.h section 5 and the module  *)
(* documentation of crates/wem-core/src/decoder.rs), without packets being *)
(* walked, buffers or an overlap-add: each answer is a function of the     *)
(* bytes handed over so far and of nothing else.  How they were cut into   *)
(* chunks is not in the state, so it cannot be seen in an answer.          *)
(***************************************************************************)
EXTENDS WemContainer, LappedTimeline

VARIABLES container,   \* the file being decoded
          received,    \* bytes handed over
          finished,    \* whether Finish was called
          busy,        \* whether a call is running
          delivered,   \* the frames handed back, in order
          outcome      \* how the last call that returned ended

vars == <<container, received, finished, busy, delivered, outcome>>

-----------------------------------------------------------------------------
\* The one true answer over a file.

AudioModes(c) == [k \in 1 .. Len(c.packets) - 1 |-> c.packets[k + 1].mode]

Answer(c, i) == IF i = 1 THEN SetupAnswer(c) ELSE PacketAnswer(c, i)

\* Packet i is inside both the pushed bytes and the data payload.
Whole(c, n, i) == PacketEnd(c, i) <= Least(n, c.dataAt + c.dataSize)

\* The packets a session that was handed n bytes has accepted.
Accepted(c, n) ==
    IF HeaderAnswer(c, n) # "Ok" THEN 0
    ELSE Cardinality({i \in DOMAIN c.packets :
                        \A j \in 1..i : Whole(c, n, j) /\ Answer(c, j) = "Ok"})

\* The whole payload was handed over and accepted.
Exhausted(c, n) ==
    /\ HeaderAnswer(c, n) = "Ok"
    /\ Accepted(c, n) = Len(c.packets)
    /\ n >= c.dataAt + c.dataSize
    /\ c.dataAt + c.dataSize = IF c.packets = <<>> THEN c.dataAt + c.seek
                               ELSE PacketEnd(c, Len(c.packets))

\* Frames final after n bytes: up to the centre of the last block whose
\* follower is known, and to the end of the last block's window once the
\* payload is finished.
Synthesized(c, n, fin) ==
    LET ms == AudioModes(c)
        blocks == Accepted(c, n) - 1
    IN  IF blocks <= 0 THEN 0
        ELSE IF fin /\ Exhausted(c, n)
        THEN Centre(ms, blocks) + RightHalf(ms, 1, blocks)
        ELSE Centre(ms, blocks - 1)

\* The frames final after n bytes, as the whole timeline gives them, clamped
\* to the declared count.
Frames(c, n, fin) ==
    LET ms == AudioModes(c)
    IN  [i \in 1 .. Least(c.total, Synthesized(c, n, fin)) |->
            WholeTimeline(ms, 1, Len(ms), i - 1)]

Outcome(c, n, fin) ==
    LET next == Accepted(c, n) + 1
        short == IF fin THEN "Truncated" ELSE "Ok"
    IN  CASE HeaderAnswer(c, n) = "Short" -> short
          [] HeaderAnswer(c, n) \notin {"Short", "Ok"} -> HeaderAnswer(c, n)
          [] HeaderAnswer(c, n) = "Ok" ->
               IF Exhausted(c, n)
               THEN IF ~fin THEN "Ok"
                    ELSE IF c.packets = <<>> THEN "MissingSetup"
                    ELSE IF Synthesized(c, n, fin) >= c.total THEN "Ok"
                    ELSE "FrameCountMismatch"
               ELSE IF next \in DOMAIN c.packets /\ Whole(c, n, next)
               THEN Answer(c, next)
               ELSE short

-----------------------------------------------------------------------------
Init ==
    /\ container \in Containers
    /\ received = 0
    /\ finished = FALSE /\ busy = FALSE
    /\ delivered = <<>>
    /\ outcome = "Ok"

Push(count) ==
    /\ ~busy /\ ~finished
    /\ received' = received + count
    /\ busy' = TRUE
    /\ UNCHANGED <<container, finished, delivered, outcome>>

Finish ==
    /\ ~busy /\ ~finished
    /\ finished' = TRUE /\ busy' = TRUE
    /\ UNCHANGED <<container, received, delivered, outcome>>

Reply ==
    /\ busy
    /\ busy' = FALSE
    /\ delivered' = Frames(container, received, finished)
    /\ outcome' = Outcome(container, received, finished)
    /\ UNCHANGED <<container, received, finished>>

\* An empty chunk changes nothing, and a call after Finish is refused.
Idle ==
    /\ ~busy
    /\ outcome' = IF finished THEN "StateError" ELSE "Ok"
    /\ UNCHANGED <<container, received, finished, busy, delivered>>

Next ==
    \/ \E count \in 1 .. container.length - received : Push(count)
    \/ Finish
    \/ Reply
    \/ Idle

Answers == Init /\ [][Next]_vars

\* A call does not wait for anything.
Prompt == WF_vars(Reply)

=============================================================================
