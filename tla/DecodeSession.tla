---------------------------- MODULE DecodeSession ---------------------------
(***************************************************************************)
(* One streaming decode session (crates/wem-core/src/decoder.rs,           *)
(* DecodeSession): the container framing feeds the codec, and the codec    *)
(* the overlap-add.                                                        *)
(*                                                                         *)
(* A call runs to its end before the next one; the iterations of its loop  *)
(* (DecodeSession::run) are the steps between a call and its return.       *)
(* Every channel's overlap-add is driven by the same modes: one stands for *)
(* all of them.                                                            *)
(***************************************************************************)
EXTENDS ContainerStream, SynthesisOla

VARIABLES phase,        \* "idle", or how far the running call is
          finished,     \* whether Finish has run
          codec,        \* whether the codec is open
          pending,      \* the block awaiting its follower's mode, if any
          emitted,      \* frames completed so far
          announced,    \* header announcements so far
          reply,        \* frames the running call has completed
          delivered,    \* frames earlier calls handed to the caller
          outcome       \* how the last call that returned ended

codecVars == <<codec, pending, emitted, announced>>
callVars == <<phase, finished, reply, delivered, outcome>>
vars == <<streamVars, olaVars, codecVars, callVars>>

\* The block after the last one is planned long.
TerminalFollowing == 1

\* What the codec answers to packet i.
BlockAnswer(i) ==
    IF codec THEN PacketAnswer(container, i) ELSE "MissingSetup"

\* Mutant of AppendCompleted: everything completed is handed out.
AppendUnclamped ==
    /\ reply' = reply \o released'
    /\ emitted' = emitted + Len(released')

\* Interleave what the overlap-add handed back, clamped to the declared count.
AppendCompleted ==
    LET room == Greatest(container.total - emitted, 0)
        allowed == Least(room, Len(released'))
    IN  /\ reply' = reply \o SubSeq(released', 1, allowed)
        /\ emitted' = emitted + allowed

Init ==
    /\ StreamInit
    /\ OlaInit
    /\ phase = "idle" /\ finished = FALSE
    /\ codec = FALSE /\ pending = {} /\ emitted = 0 /\ announced = 0
    /\ reply = <<>> /\ delivered = <<>>
    /\ outcome = "Ok"

Return(answer) ==
    /\ phase' = "idle"
    /\ outcome' = answer
    /\ delivered' = delivered \o reply
    /\ reply' = <<>>
    /\ UNCHANGED finished

\* An incomplete region is a wait while pushing and a refusal at Finish.
Shortfall == Return(IF finished THEN "Truncated" ELSE "Ok")

StartRun == phase' = IF header THEN "walk" ELSE "resolve"

PushBytes(count) ==
    /\ phase = "idle" /\ ~finished
    /\ Accumulate(count)
    /\ StartRun
    /\ UNCHANGED <<container, header, payloadVars, setupTaken, audioPackets,
                   olaVars, codecVars, finished, reply, delivered, outcome>>

PushEmpty ==
    /\ phase = "idle" /\ ~finished
    /\ outcome' = "Ok"
    /\ UNCHANGED <<streamVars, olaVars, codecVars, phase, finished, reply,
                   delivered>>

Finish ==
    /\ phase = "idle" /\ ~finished
    /\ finished' = TRUE
    /\ StartRun
    /\ UNCHANGED <<streamVars, olaVars, codecVars, reply, delivered, outcome>>

\* Any call after Finish is refused.
CallAfterFinish ==
    /\ phase = "idle" /\ finished
    /\ outcome' = "StateError"
    /\ UNCHANGED <<streamVars, olaVars, codecVars, phase, finished, reply,
                   delivered>>

HeaderNow == HeaderAnswer(container, Unread)

ResolveHeader ==
    /\ phase = "resolve"
    /\ HeaderNow = "Ok"
    /\ TakeHeader
    /\ phase' = "walk"
    /\ UNCHANGED <<olaVars, codecVars, finished, reply, delivered, outcome>>

HeaderUnresolved ==
    /\ phase = "resolve"
    /\ HeaderNow # "Ok"
    /\ IF HeaderNow = "Short" THEN Shortfall ELSE Return(HeaderNow)
    /\ UNCHANGED <<streamVars, olaVars, codecVars>>

SkipSeek ==
    /\ phase = "walk"
    /\ seekLeft > 0 /\ Unread > 0
    /\ SkipSeekTable
    /\ UNCHANGED <<olaVars, codecVars, callVars>>

AwaitBytes ==
    /\ phase = "walk"
    /\ PacketShort
    /\ Shortfall
    /\ UNCHANGED <<streamVars, olaVars, codecVars>>

OpenCodec(i) ==
    /\ phase = "walk"
    /\ Peekable(i) /\ ~setupTaken
    /\ SetupAnswer(container) = "Ok"
    /\ codec' = TRUE
    /\ announced' = announced + 1
    /\ CommitPacket(i)
    /\ UNCHANGED <<olaVars, pending, emitted, callVars>>

RefuseSetup(i) ==
    /\ phase = "walk"
    /\ Peekable(i) /\ ~setupTaken
    /\ SetupAnswer(container) # "Ok"
    /\ Return(SetupAnswer(container))
    /\ UNCHANGED <<streamVars, olaVars, codecVars>>

\* Accept an audio packet: the block before it is pushed, now that the mode of
\* its follower is known, and this one waits for its own follower.
DecodeBlock(i) ==
    /\ phase = "walk"
    /\ Peekable(i) /\ setupTaken
    /\ BlockAnswer(i) = "Ok"
    /\ LET block == [block |-> audioPackets + 1,
                     mode |-> container.packets[i].mode]
       IN  /\ pending' = {block}
           /\ \/ /\ pending = {}
                 /\ UNCHANGED <<olaVars, emitted, reply>>
              \/ \E before \in pending :
                     /\ OlaPush(before.block, before.mode, block.mode)
                     /\ AppendCompleted
    /\ CommitPacket(i)
    /\ UNCHANGED <<codec, announced, phase, finished, delivered, outcome>>

\* Mutant of RefusePacket: the packet is consumed before it is decoded.
RefuseConsumed(i) ==
    /\ phase = "walk"
    /\ Peekable(i) /\ setupTaken
    /\ BlockAnswer(i) # "Ok"
    /\ CommitPacket(i)
    /\ Return(BlockAnswer(i))
    /\ UNCHANGED <<olaVars, codecVars>>

RefusePacket(i) ==
    /\ phase = "walk"
    /\ Peekable(i) /\ setupTaken
    /\ BlockAnswer(i) # "Ok"
    /\ Return(BlockAnswer(i))
    /\ UNCHANGED <<streamVars, olaVars, codecVars>>

PayloadWalked ==
    /\ phase = "walk"
    /\ PayloadDone
    /\ \/ ~finished /\ Return("Ok")
       \/ finished /\ ~codec /\ Return("MissingSetup")
    /\ UNCHANGED <<streamVars, olaVars, codecVars>>

\* The last block is pushed with the long block the encoder plans after it.
FlushPending ==
    /\ phase = "walk"
    /\ PayloadDone /\ finished /\ codec
    /\ phase' = "tail"
    /\ pending' = {}
    /\ \/ /\ pending = {}
          /\ UNCHANGED <<olaVars, emitted, reply>>
       \/ \E last \in pending :
              /\ OlaPush(last.block, last.mode, TerminalFollowing)
              /\ AppendCompleted
    /\ UNCHANGED <<streamVars, codec, announced, finished, delivered, outcome>>

\* The tail is released before the frame count is checked.
ReleaseTail ==
    /\ phase = "tail"
    /\ OlaFinish
    /\ LET room == Greatest(container.total - emitted, 0)
           allowed == Least(room, Len(released'))
       IN  /\ emitted' = emitted + allowed
           /\ delivered' = delivered \o reply \o SubSeq(released', 1, allowed)
    /\ reply' = <<>>
    /\ phase' = "idle"
    /\ outcome' = IF emitted' = container.total THEN "Ok"
                  ELSE "FrameCountMismatch"
    /\ UNCHANGED <<streamVars, codec, pending, announced, finished>>

Call ==
    \/ \E count \in 1 .. container.length - received : PushBytes(count)
    \/ PushEmpty
    \/ Finish
    \/ CallAfterFinish

Run ==
    \/ ResolveHeader \/ HeaderUnresolved
    \/ SkipSeek \/ AwaitBytes
    \/ \E i \in PacketsHere : \/ OpenCodec(i) \/ RefuseSetup(i)
                              \/ DecodeBlock(i) \/ RefusePacket(i)
    \/ PayloadWalked \/ FlushPending \/ ReleaseTail

Next == Call \/ Run

\* A call that was made runs to its end: the loop has nothing to wait for.
Spec == Init /\ [][Next]_vars /\ WF_vars(Run)

-----------------------------------------------------------------------------
\* Every variable holds a value of its kind.
TypeOK ==
    /\ StreamTypeOK
    /\ OlaTypeOK
    /\ phase \in {"idle", "resolve", "walk", "tail"}
    /\ finished \in BOOLEAN /\ codec \in BOOLEAN
    /\ pending \subseteq [block : Nat, mode : Modes]
    /\ emitted \in Nat /\ announced \in Nat
    /\ reply \in Seq(Seq(Contributions))
    /\ delivered \in Seq(Seq(Contributions))

\* The header is announced once, before any frame (decoder.rs:160-164).
HeaderFirst ==
    /\ announced <= 1
    /\ reply # <<>> \/ delivered # <<>> => announced = 1

\* Frames are counted as they are handed out, and the declared count is never
\* passed, even while the windows run past it (decoder.rs:551-561).
NeverPastDeclared ==
    /\ Len(delivered) + Len(reply) = emitted
    /\ emitted <= container.total

\* Frames follow the header that declares them, and are never more than it
\* declares.
FramesAsAnnounced == HeaderFirst /\ NeverPastDeclared

\* What a running call answers to the packet at its read position.
AnswerTo(i) == IF setupTaken THEN BlockAnswer(i) ELSE SetupAnswer(container)

\* While the payload lasts, what a session holds between two calls is less
\* than the packet it waits for, unless it refused that packet
\* (decoder.rs:91-96, "One packet of encoded bytes").
HoldsOnePacket ==
    phase = "idle" /\ header /\ ~PayloadDone =>
        /\ seekLeft > 0 => Unread = 0
        /\ \A i \in PacketsHere :
              Size(i) <= remaining /\ AnswerTo(i) = "Ok" => Unread < Size(i)

\* A session keeps at most one long block of synthesized samples per channel,
\* whatever the stream (decoder.rs:105-108).
WindowBounded == Len(samples) <= Long

\* The session answers every call exactly as its contract says: what a caller
\* gets back depends on the bytes handed over and never on how they were cut
\* into chunks (decoder.rs:592-595), a refusal is reported again by the next
\* call that brings bytes and nothing is skipped (decoder.rs:117-127), and the
\* declared frame count is delivered exactly or refused (decoder.rs:700-714).
Contract == INSTANCE DecodeContract WITH busy <- phase # "idle"

KeepsDecodeContract == Contract!Answers

=============================================================================
