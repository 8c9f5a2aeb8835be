---------------------------- MODULE StreamHandle ----------------------------
(***************************************************************************)
(* One streaming handle as a shell hands it to its only owner: the encode  *)
(* session and the decoder of the C ABI (crates/wem-capi), of Python       *)
(* (crates/wem-python) and of WebAssembly (crates/wem-wasm).               *)
(*                                                                         *)
(* The C ABI delivers through callbacks, one call of a callback at a time, *)
(* and the client may refuse any of them; the other shells return all that *)
(* a call completed.  The kernel sessions are those of StreamEncode and    *)
(* DecodeSession, seen through their answers: what they make is numbered,  *)
(* a packet or, for the decoder, the header and then every frame.          *)
(***************************************************************************)
EXTENDS Naturals, Sequences

CONSTANTS PcmBlock,     \* PCM_BLOCK_FRAMES
          WasmKinds,    \* the kinds of handle of the wasm shell to look at
          MaxMade,      \* bound: what the kernel makes of the whole stream
          MaxBatch,     \* bound: what it makes in a call
          MaxBlocks     \* bound: write blocks of the container

ASSUME HandleAssumption ==
    /\ PcmBlock \in Nat \ {0}
    /\ MaxMade \in Nat /\ MaxBatch \in Nat /\ MaxBlocks \in Nat

Shells == {"c", "python", "wasm"}
Kinds == {"encode", "decode"}
Rejections == {"rejected", "internal"}      \* GEOMETRY_MISMATCH and the like
Codes == {"ok", "state"} \cup Rejections

VARIABLES shell, kind,
          packetCb,     \* the C session has a packet callback
          made,         \* how much the kernel has made for its calls to hand back
          kernelOver,   \* the kernel's own session is finished
          stuck,        \* the decoder's input was refused: it will be again
          failed,       \* WemSession.failed, PyStreamSession.dead, ...
          finished,     \* PyDecoder.finished, WemDecoder.finished
          nextSeq,      \* the number of the next packet
          pc,           \* "unborn", "idle", "deliver" or "freed"
          call,         \* the call running: "push" or "finish"
          queue,        \* what the call has left to deliver
          outcome,      \* what the kernel answered it
          blocks,       \* write blocks of the container left to deliver
          given, numbered,      \* what the client has, and the packet numbers
          over, answer          \* the contract's view of the handle

setting == <<shell, kind, packetCb>>
kernel == <<made, kernelOver, stuck>>
flags == <<failed, finished>>
running == <<pc, call, queue, outcome, blocks>>
client == <<given, numbered, nextSeq>>
vars == <<setting, kernel, flags, running, client, over, answer>>

\* A decoder or a session without a client callback has nothing to refuse.
Init ==
    /\ shell \in Shells /\ kind \in Kinds /\ packetCb \in BOOLEAN
    /\ shell = "wasm" => kind \in WasmKinds
    /\ shell # "c" \/ kind = "decode" => packetCb
    /\ made = 0 /\ kernelOver = FALSE /\ stuck = FALSE
    /\ failed = FALSE /\ finished = FALSE
    /\ nextSeq = 0 /\ given = <<>> /\ numbered = <<>>
    /\ pc = "unborn" /\ call = "none" /\ outcome = "ok"
    /\ queue = <<>> /\ blocks = 0
    /\ over = FALSE /\ answer = "none"

-----------------------------------------------------------------------------
(* The kernel's answers. *)

Made(n) == [i \in 1 .. n |-> made + i]

\* A session that has finished is called again; nothing happens to it.
KernelRefuses ==
    /\ kernelOver
    /\ queue' = <<>> /\ outcome' = "state" /\ blocks' = 0
    /\ UNCHANGED kernel

\* Packets come back only from a push that is not refused.
KernelEncodePush ==
    /\ ~kernelOver
    /\ \E answered \in {"ok"} \cup Rejections, n \in 0 .. MaxBatch :
          /\ made + n <= MaxMade
          /\ made' = made + n
          /\ queue' = IF answered = "ok" THEN Made(n) ELSE <<>>
          /\ answered = "rejected" => n = 0
          /\ outcome' = answered
    /\ blocks' = 0
    /\ UNCHANGED <<kernelOver, stuck>>

KernelEncodeFinish ==
    /\ ~kernelOver
    /\ kernelOver' = TRUE
    /\ outcome' \in {"ok"} \cup Rejections
    /\ blocks' \in IF outcome' = "ok" THEN 1 .. MaxBlocks ELSE {0}
    /\ queue' = <<>>
    /\ UNCHANGED <<made, stuck>>

\* A step carries what it completed also when it is refused, and a refusal
\* stays; "floor1" and "internal" are both defects, told apart by their
\* variants, and "ragged" is PCM that is no whole number of frames.
KernelDecode(finish) ==
    /\ ~kernelOver
    /\ kernelOver' = finish
    /\ \E n \in 0 .. MaxBatch :
          /\ made + n <= MaxMade
          /\ stuck => n = 0
          /\ made' = made + n
          /\ queue' = Made(n)
    /\ outcome' \in IF stuck THEN {"rejected"}
                    ELSE {"ok", "rejected", "floor1", "internal", "ragged"}
    \* A decode that ends well has made all that was announced (DecodeSession).
    /\ finish /\ outcome' = "ok" => made' = MaxMade
    /\ stuck' = (outcome' = "rejected")
    /\ blocks' = 0

Kernel(name) ==
    \/ KernelRefuses
    \/ kind = "encode" /\ name = "push" /\ KernelEncodePush
    \/ kind = "encode" /\ name = "finish" /\ KernelEncodeFinish
    \/ kind = "decode" /\ KernelDecode(name = "finish")

-----------------------------------------------------------------------------
(* The shells. *)

\* The Init of the handle: a failed one, by a selection no profile satisfies or
\* a panic, hands nothing out, and the caller may try again.
New ==
    /\ pc = "unborn"
    /\ pc' = "idle"
    /\ UNCHANGED <<setting, kernel, flags, call, queue, outcome, blocks, client,
                   over, answer>>

\* The handle is refused before the kernel is asked.
Unusable == failed \/ finished

\* What the code of an outcome is.
Code(answered) ==
    IF answered \in {"floor1", "ragged"} THEN "internal" ELSE answered

\* The contract's view of a call that answers `code`: it ends the handle.
Ends(code) == over \/ code = "internal" \/ call = "finish"

Reply(code) ==
    /\ pc' = "idle"
    /\ answer' = code
    /\ over' = Ends(code)

CallRefused ==
    /\ pc = "idle" /\ Unusable
    /\ answer' = "state"
    /\ UNCHANGED <<setting, kernel, flags, running, client, over>>

\* A call reaches the kernel.
Call(name) ==
    /\ pc = "idle" /\ ~Unusable
    /\ call' = name
    /\ Kernel(name)
    /\ pc' = "deliver"
    /\ finished' = (name = "finish" /\ kind = "decode" /\ shell # "c")
    /\ UNCHANGED <<setting, failed, client, over, answer>>

\* --- Python and WebAssembly: everything at once.

\* Which answers of the kernel kill the handle; the wasm encode session has no
\* flag for it.
Kills(answered) ==
    /\ Code(answered) = "internal"
    /\ ~(shell = "wasm" /\ kind = "encode")

HandOver ==
    /\ pc = "deliver" /\ shell # "c"
    /\ LET code == Code(outcome)
           all == IF code = "internal" THEN <<>> ELSE queue
       IN  /\ given' = given \o all
           /\ failed' = (failed \/ Kills(outcome))
           /\ numbered' = IF kind = "encode"
                          THEN numbered \o [i \in DOMAIN all |-> (nextSeq + i) - 1]
                          ELSE numbered
           /\ nextSeq' = IF kind = "encode" THEN nextSeq + Len(all) ELSE nextSeq
           /\ Reply(code)
    /\ queue' = <<>> /\ blocks' = 0
    /\ UNCHANGED <<setting, kernel, finished, call, outcome>>

\* --- The C ABI.

\* Mutant of Terminal: a defect the kernel reports leaves the handle usable.
TerminalOnFinish(code) == call = "finish"

\* What the C shell marks its handle with when the delivery is over.
Terminal(code) == code = "internal" \/ call = "finish"

\* Whether the output of the call is delivered: not that of a refused encode
\* call, and not that of the one defect the decoder tests for.
Delivers ==
    IF kind = "encode" THEN outcome = "ok"
    ELSE outcome \notin {"internal", "ragged"}

\* What one callback is given: a packet, the header, or a block of frames.
NextDelivery ==
    IF kind = "encode" \/ queue[1] = 1 THEN 1
    ELSE IF Len(queue) < PcmBlock THEN Len(queue) ELSE PcmBlock

\* Mutant of PacketNumber: a number is taken before the callback is asked.
NumberTakenFirst == nextSeq + 1

PacketNumber == nextSeq

\* The callback takes its share.  Without a packet callback a packet is dropped
\* and its number with it.
CallbackTakes ==
    /\ pc = "deliver" /\ shell = "c" /\ Delivers /\ queue # <<>>
    /\ LET n == NextDelivery
       IN  /\ given' = IF packetCb THEN given \o SubSeq(queue, 1, n) ELSE given
           /\ queue' = SubSeq(queue, n + 1, Len(queue))
    /\ IF kind = "encode" /\ packetCb
       THEN numbered' = Append(numbered, PacketNumber) /\ nextSeq' = nextSeq + 1
       ELSE UNCHANGED <<numbered, nextSeq>>
    /\ UNCHANGED <<setting, kernel, flags, pc, call, outcome, blocks, over, answer>>

\* The write callback takes a block of the container.
WriteTakes ==
    /\ pc = "deliver" /\ shell = "c" /\ blocks > 0
    /\ blocks' = blocks - 1
    /\ UNCHANGED <<setting, kernel, flags, pc, call, queue, outcome, client, over, answer>>

\* Mutant of Abort: the refused packet is skipped, the handle stays usable.
AbortKeepingHandle == failed

\* What an abort leaves of the handle.
Abort == TRUE

\* A callback refuses: the call returns the client's code, the rest of its
\* delivery is lost, the handle is terminal.
CallbackRefuses(code) ==
    /\ pc = "deliver" /\ shell = "c"
    /\ (Delivers /\ queue # <<>> /\ packetCb) \/ blocks > 0
    /\ failed' = Abort
    /\ pc' = "idle" /\ answer' = code /\ over' = TRUE
    /\ queue' = <<>> /\ blocks' = 0
    /\ UNCHANGED <<setting, kernel, finished, call, outcome, client>>

\* The call returns.
Return ==
    /\ pc = "deliver" /\ shell = "c"
    /\ Delivers => queue = <<>>
    /\ blocks = 0
    /\ failed' = Terminal(Code(outcome))
    /\ Reply(Code(outcome))
    /\ queue' = <<>>
    /\ UNCHANGED <<setting, kernel, finished, call, outcome, blocks, client>>

Free ==
    /\ pc = "idle"
    /\ pc' = "freed"
    /\ UNCHANGED <<setting, kernel, flags, call, queue, outcome, blocks, client,
                   over, answer>>

Next ==
    \/ New \/ CallRefused \/ Call("push") \/ Call("finish")
    \/ HandOver \/ CallbackTakes \/ WriteTakes
    \/ \E code \in Codes \ {"ok"} : CallbackRefuses(code)
    \/ Return \/ Free

Spec == Init /\ [][Next]_vars

-----------------------------------------------------------------------------
\* Every variable holds a value of its kind.
TypeOK ==
    /\ shell \in Shells /\ kind \in Kinds /\ packetCb \in BOOLEAN
    /\ made \in 0 .. MaxMade
    /\ {kernelOver, stuck, failed, finished, over} \subseteq BOOLEAN
    /\ pc \in {"unborn", "idle", "deliver", "freed"}
    /\ call \in {"none", "push", "finish"}
    /\ queue \in Seq(1 .. MaxMade) /\ given \in Seq(1 .. MaxMade)
    /\ numbered \in Seq(Nat) /\ nextSeq \in Nat /\ blocks \in 0 .. MaxBlocks
    /\ answer \in Codes \cup {"none"}
    /\ outcome \in Codes \cup {"floor1", "ragged"}

\* The handle keeps the promise of wem.h in every shell but one, the wasm
\* encode session (DefectEndsHandle; WasmKinds leaves it out): the client is
\* given what the kernel made, in order and without a gap, and nothing once a
\* call has finished the handle, met a defect or been aborted (lib.rs:786-829,
\* deliver_decode_step, PyDecoder::settle, WemDecoder::deliver).
Contract == INSTANCE HandleContract
KeepsContract == Contract!ContractSpec

\* The seq of a packet is its place in the reply stream, over all pushes
\* (wem.h:127-129, "seq increases monotonically across push calls").
PacketsNumbered ==
    kind = "encode" =>
        numbered = [i \in DOMAIN given |-> i - 1] /\ nextSeq = Len(given)

\* A finish that answers OK has lost nothing on the way: the client has all
\* that the kernel's calls handed back (`made`), unless it asked for none, and
\* every block of the container (wem.h:409-412 and lib.rs:799-829).  The
\* packets that an encode session defers to finish go into the container
\* alone; `made` does not count them.  In every shell but the wasm encode
\* session, which loses the packets of a push that met a defect and goes on.
CompleteWhenOk ==
    call = "finish" /\ answer = "ok" /\ pc = "idle" =>
        blocks = 0 /\ (packetCb => Len(given) = made)

\* A defect ends the handle it ran in: no call reaches the kernel once one has
\* answered INTERNAL (wem.h:138-141).  The wasm encode session does not keep it.
DefectEndsHandle == pc = "deliver" => answer # "internal"

=============================================================================
