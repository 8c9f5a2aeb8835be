--------------------------- MODULE Handles_proofs ---------------------------
(***************************************************************************)
(* The handles of the shells.                                              *)
(*                                                                         *)
(* Every encode session numbers its packets without a gap, for every       *)
(* amount and grouping of what the kernel makes.  The encode sessions of   *)
(* the C ABI and of Python and the decoders of all shells also keep the    *)
(* contract of a handle, and a finish of theirs that answers OK has        *)
(* delivered everything.  The wasm encode session does neither (a call     *)
(* after a defect reaches the kernel, and what the defect lost stays       *)
(* lost); NoWasmEncode leaves it out of those two theorems.                *)
(*                                                                         *)
(* A defect ends an encoder handle for every thread that shares it, and    *)
(* nothing else does: for any set of threads and any number of writes.     *)
(***************************************************************************)
EXTENDS StreamHandle, SharedEncoder, TLAPS

\* The handles looked at are those that keep the contract: every handle but the
\* encode session of the wasm shell, WemSession, which has no terminal flag.
NoWasmEncode == WasmKinds \subseteq {"decode"}

-----------------------------------------------------------------------------
(* Runs of consecutive numbers. *)

Numbers(from, n) == [i \in 1 .. n |-> from + i]

LEMMA NumbersAreSequences ==
    ASSUME NEW from \in Nat, NEW n \in Nat
    PROVE  /\ Numbers(from, n) \in Seq(Nat)
           /\ Len(Numbers(from, n)) = n
  BY DEF Numbers

LEMMA NothingNumbered ==
    ASSUME NEW from
    PROVE  Numbers(from, 0) = <<>>
  BY DEF Numbers

LEMMA NumbersSplit ==
    ASSUME NEW from \in Nat, NEW n \in Nat, NEW k \in 0 .. n
    PROVE  /\ SubSeq(Numbers(from, n), 1, k) = Numbers(from, k)
           /\ SubSeq(Numbers(from, n), k + 1, n) = Numbers(from + k, n - k)
  BY DEF Numbers

LEMMA Lengthens ==
    ASSUME NEW s \in Seq(Nat), NEW n \in Nat
    PROVE  /\ s \o Numbers(Len(s), n) \in Seq(Nat)
           /\ Len(s \o Numbers(Len(s), n)) = Len(s) + n
           /\ s \o Numbers(Len(s), 0) = s
  BY DEF Numbers

LEMMA Places ==
    ASSUME NEW m \in Nat, NEW n \in Nat
    PROVE  [i \in 1 .. m |-> i - 1] \o [i \in 1 .. n |-> (m + i) - 1]
           = [i \in 1 .. (m + n) |-> i - 1]
  OBVIOUS

LEMMA NextPlace ==
    ASSUME NEW m \in Nat
    PROVE  Append([i \in 1 .. m |-> i - 1], m) = [i \in 1 .. (m + 1) |-> i - 1]
  OBVIOUS

-----------------------------------------------------------------------------
(* Packet numbers, for every handle of every shell. *)

Numbered ==
    kind = "encode" =>
        /\ numbered = [i \in 1 .. Len(given) |-> i - 1]
        /\ nextSeq = Len(given)

\* What the client has and what is queued are sequences, and numbers are places.
\* Nothing of when a handle ends is needed.
NumberInv ==
    /\ given \in Seq(Nat) /\ queue \in Seq(Nat) /\ made \in Nat
    /\ Numbered

LEMMA KernelTypes ==
    ASSUME NumberInv, NEW name, Kernel(name)
    PROVE  made' \in Nat /\ queue' \in Seq(Nat)
<1>1. \A n \in 0 .. MaxBatch : n \in Nat /\ made + n \in Nat /\ Made(n) \in Seq(Nat)
  BY HandleAssumption DEF NumberInv, Made
<1>2. made \in Nat /\ <<>> \in Seq(Nat)
  BY DEF NumberInv
<1>3. CASE KernelRefuses \/ KernelEncodeFinish
  BY <1>2, <1>3 DEF KernelRefuses, KernelEncodeFinish, kernel
<1>4. CASE KernelEncodePush
  BY <1>1, <1>2, <1>4 DEF KernelEncodePush
<1>5. CASE KernelDecode(name = "finish")
  BY <1>1, <1>5 DEF KernelDecode
<1> QED
  BY <1>3, <1>4, <1>5 DEF Kernel

LEMMA HandOverNumbers ==
    ASSUME NumberInv, HandOver
    PROVE  NumberInv'
<1> DEFINE all == IF Code(outcome) = "internal" THEN <<>> ELSE queue
<1>1. /\ given' = given \o all /\ queue' = <<>> /\ made' = made /\ kind' = kind
      /\ numbered' = IF kind = "encode"
                     THEN numbered \o [i \in DOMAIN all |-> (nextSeq + i) - 1] ELSE numbered
      /\ nextSeq' = IF kind = "encode" THEN nextSeq + Len(all) ELSE nextSeq
  BY DEF HandOver, setting, kernel
<1>2. all \in Seq(Nat) /\ given \in Seq(Nat) /\ made \in Nat
  BY DEF NumberInv
<1> HIDE DEF all
<1>3. /\ Len(given) \in Nat /\ Len(all) \in Nat /\ DOMAIN all = 1 .. Len(all)
      /\ given' \in Seq(Nat) /\ Len(given') = Len(given) + Len(all)
  BY <1>1, <1>2
<1>4. Numbered'
  <2> SUFFICES ASSUME kind = "encode"
               PROVE  /\ numbered' = [i \in 1 .. Len(given') |-> i - 1]
                      /\ nextSeq' = Len(given')
    BY <1>1 DEF Numbered
  <2>1. nextSeq = Len(given) /\ numbered = [i \in 1 .. Len(given) |-> i - 1]
    BY DEF NumberInv, Numbered
  <2>2. numbered' = [i \in 1 .. (Len(given) + Len(all)) |-> i - 1]
    BY <1>1, <1>3, <2>1, Places
  <2> QED
    BY <1>1, <1>3, <2>1, <2>2
<1> QED
  BY <1>1, <1>2, <1>3, <1>4 DEF NumberInv

LEMMA CallbackTakesNumbers ==
    ASSUME NumberInv, CallbackTakes
    PROVE  NumberInv'
<1> DEFINE n == NextDelivery
<1>1. /\ queue # <<>> /\ UNCHANGED setting /\ made' = made
      /\ given' = IF packetCb THEN given \o SubSeq(queue, 1, n) ELSE given
      /\ queue' = SubSeq(queue, n + 1, Len(queue))
  BY DEF CallbackTakes, kernel
<1>2. /\ given \in Seq(Nat) /\ queue \in Seq(Nat) /\ made \in Nat
      /\ Len(given) \in Nat /\ Len(queue) \in Nat /\ Len(queue) > 0
  BY <1>1 DEF NumberInv
<1>3. n \in 1 .. Len(queue) /\ (kind = "encode" => n = 1)
  BY <1>2, HandleAssumption DEF NextDelivery
<1> HIDE DEF n
<1>4. /\ SubSeq(queue, 1, n) \in Seq(Nat) /\ Len(SubSeq(queue, 1, n)) = n
      /\ queue' \in Seq(Nat)
  BY <1>1, <1>2, <1>3
<1>5. /\ given' \in Seq(Nat)
      /\ packetCb => Len(given') = Len(given) + n
  BY <1>1, <1>2, <1>4
<1>6. Numbered'
  <2> SUFFICES ASSUME kind = "encode"
               PROVE  /\ numbered' = [i \in 1 .. Len(given') |-> i - 1]
                      /\ nextSeq' = Len(given')
    BY <1>1 DEF Numbered, setting
  <2>1. nextSeq = Len(given) /\ numbered = [i \in 1 .. Len(given) |-> i - 1]
    BY DEF NumberInv, Numbered
  <2>2. CASE packetCb
    <3>1. numbered' = Append(numbered, nextSeq) /\ nextSeq' = nextSeq + 1
      BY <2>2 DEF CallbackTakes, PacketNumber
    <3>2. numbered' = [i \in 1 .. (Len(given) + 1) |-> i - 1]
      BY <1>2, <2>1, <3>1, NextPlace
    <3> QED
      BY <1>3, <1>5, <2>1, <2>2, <3>1, <3>2
  <2>3. CASE ~packetCb
    BY <1>1, <2>1, <2>3 DEF CallbackTakes
  <2> QED
    BY <2>2, <2>3
<1> QED
  BY <1>1, <1>2, <1>4, <1>5, <1>6 DEF NumberInv

LEMMA StepNumbers == NumberInv /\ [Next]_vars => NumberInv'
<1> SUFFICES ASSUME NumberInv, [Next]_vars PROVE NumberInv'
  OBVIOUS
<1>1. <<>> \in Seq(Nat)
  OBVIOUS
<1>2. CASE UNCHANGED vars
  BY <1>2 DEF vars, setting, kernel, running, client, NumberInv, Numbered
<1>3. CASE New \/ CallRefused \/ WriteTakes \/ Free
  BY <1>3 DEF New, CallRefused, WriteTakes, Free, setting, kernel, running, client,
              NumberInv, Numbered
<1>4. CASE Call("push") \/ Call("finish")
  <2>1. made' \in Nat /\ queue' \in Seq(Nat) /\ UNCHANGED setting /\ UNCHANGED client
    BY <1>4, KernelTypes DEF Call
  <2> QED
    BY <2>1 DEF NumberInv, Numbered, setting, client
<1>5. CASE Return \/ \E code \in Codes \ {"ok"} : CallbackRefuses(code)
  BY <1>1, <1>5 DEF Return, CallbackRefuses, setting, kernel, client, NumberInv, Numbered
<1>6. CASE HandOver
  BY <1>6, HandOverNumbers
<1>7. CASE CallbackTakes
  BY <1>7, CallbackTakesNumbers
<1> QED
  BY <1>2, <1>3, <1>4, <1>5, <1>6, <1>7 DEF Next

\* The number of a packet is its place in the stream, over all pushes
\* (wem.h:127-129): in the encode sessions of every shell, the wasm one too.
THEOREM NumbersAreGapless == Spec => []PacketsNumbered
<1>1. Init => NumberInv
  BY DEF Init, NumberInv, Numbered
<1>2. NumberInv => PacketsNumbered
  <2> SUFFICES ASSUME NumberInv, kind = "encode"
               PROVE  numbered = [i \in DOMAIN given |-> i - 1] /\ nextSeq = Len(given)
    BY DEF PacketsNumbered
  <2>1. DOMAIN given = 1 .. Len(given)
    BY DEF NumberInv
  <2> QED
    BY <2>1 DEF NumberInv, Numbered
<1> QED
  BY <1>1, <1>2, StepNumbers, PTL DEF Spec

-----------------------------------------------------------------------------
(* The inductive invariant of the handles that keep the contract. *)

Outcomes == Codes \cup {"floor1", "ragged"}

HandleTypeOK ==
    /\ shell \in Shells /\ kind \in Kinds
    /\ made \in Nat /\ given \in Seq(Nat) /\ queue \in Seq(Nat) /\ blocks \in Nat
    /\ failed \in BOOLEAN /\ finished \in BOOLEAN /\ kernelOver \in BOOLEAN
    /\ over \in BOOLEAN /\ packetCb \in BOOLEAN
    /\ outcome \in Outcomes /\ answer \in Codes \cup {"none"}

Setting ==
    /\ shell # "c" => packetCb
    /\ kind = "decode" => packetCb
    /\ ~(shell = "wasm" /\ kind = "encode")

Between == pc \in {"unborn", "idle"}

\* Between calls nothing is held back, and the handle is over exactly when it
\* refuses or its kernel session does; in C it always refuses for itself.
Settled ==
    Between =>
        /\ queue = <<>> /\ blocks = 0
        /\ (failed \/ finished \/ kernelOver) <=> over
        /\ shell = "c" => (over => failed)

\* The client of a handle that is not over, or whose last call was answered
\* OK, has all that was made.
NothingLost ==
    Between /\ packetCb /\ (~over \/ answer = "ok") => made = Len(given)

\* While a call delivers: a handle that is over has nothing to deliver; for the
\* others the queue continues what the client has.
Delivering ==
    pc = "deliver" =>
        /\ ~failed
        /\ over <=> outcome = "state"
        /\ over => shell # "c" /\ kernelOver /\ queue = <<>>
        /\ call = "finish" => kernelOver
        /\ finished => call = "finish"
        /\ kernelOver /\ ~over => call = "finish"
        /\ kind = "encode" /\ outcome # "ok" => queue = <<>>
        /\ packetCb => queue = Numbers(Len(given), Len(queue))
        /\ packetCb /\ outcome \in {"ok", "rejected"} => made = Len(given) + Len(queue)

HandleInv == HandleTypeOK /\ Setting /\ Settled /\ NothingLost /\ Delivering

LEMMA InitHandle ==
    ASSUME NoWasmEncode
    PROVE  Init => HandleInv
<1> SUFFICES ASSUME Init PROVE HandleInv
  OBVIOUS
<1>1. HandleTypeOK
  <2>1. outcome \in Outcomes /\ answer \in Codes \cup {"none"}
    BY DEF Init, Outcomes, Codes
  <2>2. given \in Seq(Nat) /\ queue \in Seq(Nat) /\ made \in Nat /\ blocks \in Nat
    BY DEF Init
  <2>3. /\ failed \in BOOLEAN /\ finished \in BOOLEAN /\ kernelOver \in BOOLEAN
        /\ over \in BOOLEAN /\ packetCb \in BOOLEAN /\ shell \in Shells /\ kind \in Kinds
    BY DEF Init
  <2> QED
    BY <2>1, <2>2, <2>3 DEF HandleTypeOK
<1>2. Setting
  BY DEF Init, Setting, Kinds, NoWasmEncode
<1>3. Settled /\ NothingLost /\ Delivering
  BY DEF Init, Settled, NothingLost, Delivering, Between
<1> QED
  BY <1>1, <1>2, <1>3 DEF HandleInv

\* What the kernel's answer to a call leaves.
LEMMA KernelAnswers ==
    ASSUME HandleInv, pc = "idle", ~Unusable, NEW name \in {"push", "finish"},
           Kernel(name), UNCHANGED setting, UNCHANGED <<given, over>>
    PROVE  /\ made' \in Nat /\ queue' \in Seq(Nat) /\ blocks' \in Nat
           /\ kernelOver' \in BOOLEAN /\ outcome' \in Outcomes
           /\ over <=> outcome' = "state"
           /\ over => shell # "c" /\ kernelOver' /\ queue' = <<>>
           /\ name = "finish" => kernelOver'
           /\ kernelOver' /\ ~over => name = "finish"
           /\ kind = "encode" /\ outcome' # "ok" => queue' = <<>>
           /\ packetCb => queue' = Numbers(Len(given), Len(queue'))
           /\ packetCb /\ outcome' \in {"ok", "rejected"} => made' = Len(given) + Len(queue')
<1>1. /\ made \in Nat /\ Len(given) \in Nat /\ queue = <<>>
      /\ kernelOver \in BOOLEAN /\ over \in BOOLEAN /\ kind \in Kinds
  BY DEF HandleInv, HandleTypeOK, Settled, Between
<1>2. kernelOver <=> over
  BY DEF HandleInv, Settled, Between, Unusable
<1>3. over => shell # "c"
  BY DEF HandleInv, Settled, Between, Unusable
<1>4. packetCb /\ ~over => made = Len(given)
  BY DEF HandleInv, NothingLost, Between
<1>5. Numbers(Len(given), 0) = <<>>
  BY DEF Numbers
<1>6. \A n \in Nat : /\ Made(n) \in Seq(Nat) /\ Len(Made(n)) = n
                     /\ Made(n) = Numbers(made, n)
  BY <1>1 DEF Made, Numbers
<1>7. CASE KernelRefuses
  BY <1>1, <1>2, <1>3, <1>5, <1>7 DEF KernelRefuses, kernel, Outcomes, Codes
<1>8. CASE kind = "encode" /\ name = "push" /\ KernelEncodePush
  <2>1. PICK answered \in {"ok"} \cup Rejections, n \in 0 .. MaxBatch :
           /\ made' = made + n
           /\ queue' = IF answered = "ok" THEN Made(n) ELSE <<>>
           /\ answered = "rejected" => n = 0
           /\ outcome' = answered
    BY <1>8 DEF KernelEncodePush
  <2>2. n \in Nat
    BY HandleAssumption
  <2>3. ~over /\ ~kernelOver /\ kernelOver' = kernelOver /\ blocks' = 0
    BY <1>2, <1>8 DEF KernelEncodePush
  <2>4. /\ made' \in Nat /\ blocks' \in Nat /\ kernelOver' = FALSE /\ ~over
    BY <1>1, <2>1, <2>2, <2>3
  <2>5. outcome' \in Outcomes /\ outcome' # "state"
    BY <2>1 DEF Rejections, Outcomes, Codes
  <2>6. CASE answered = "ok"
    <3>1. /\ queue' = Numbers(made, n) /\ queue' \in Seq(Nat) /\ Len(queue') = n
          /\ outcome' = "ok"
      BY <1>6, <2>1, <2>2, <2>6
    <3> QED
      BY <1>4, <1>8, <2>1, <2>4, <2>5, <3>1
  <2>7. CASE answered # "ok"
    <3>1. queue' = <<>> /\ Len(queue') = 0 /\ queue' \in Seq(Nat)
      BY <2>1, <2>7
    <3>2. outcome' \in {"ok", "rejected"} => made' = made
      BY <1>1, <2>1, <2>7
    <3>3. queue' = Numbers(Len(given), Len(queue'))
      BY <1>5, <3>1
    <3>4. packetCb /\ outcome' \in {"ok", "rejected"} => made' = Len(given) + Len(queue')
      BY <1>1, <1>4, <2>4, <3>1, <3>2
    <3> QED
      BY <1>8, <2>4, <2>5, <3>1, <3>3, <3>4
  <2> QED
    BY <2>6, <2>7
<1>9. CASE kind = "encode" /\ name = "finish" /\ KernelEncodeFinish
  <2>1. /\ ~over /\ kernelOver' = TRUE /\ queue' = <<>> /\ made' = made
        /\ outcome' \in {"ok"} \cup Rejections
    BY <1>2, <1>9 DEF KernelEncodeFinish
  <2>2. blocks' \in Nat
    BY <1>9, HandleAssumption DEF KernelEncodeFinish
  <2> QED
    BY <1>1, <1>4, <1>5, <1>9, <2>1, <2>2 DEF Rejections, Outcomes, Codes
<1>10. CASE kind = "decode" /\ KernelDecode(name = "finish")
  <2>1. PICK n \in 0 .. MaxBatch : made' = made + n /\ queue' = Made(n)
    BY <1>10 DEF KernelDecode
  <2>2. n \in Nat
    BY HandleAssumption
  <2>3. /\ ~over /\ kernelOver' = (name = "finish") /\ blocks' = 0
        /\ outcome' \in {"ok", "rejected", "floor1", "internal", "ragged"}
    BY <1>2, <1>10 DEF KernelDecode
  <2>4. outcome' \in Outcomes /\ outcome' # "state"
    BY <2>3 DEF Rejections, Outcomes, Codes
  <2>5. /\ queue' = Numbers(made, n) /\ queue' \in Seq(Nat) /\ Len(queue') = n
        /\ made' \in Nat /\ made' = made + n
    BY <1>1, <1>6, <2>1, <2>2
  <2>6. kind # "encode" /\ blocks' \in Nat /\ kernelOver' \in BOOLEAN
    BY <1>10, <2>3
  <2> QED
    BY <1>4, <2>3, <2>4, <2>5, <2>6
<1> QED
  BY <1>7, <1>8, <1>9, <1>10 DEF Kernel

LEMMA CallKeeps ==
    ASSUME HandleInv, NEW name \in {"push", "finish"}, Call(name)
    PROVE  HandleInv'
<1>1. /\ pc = "idle" /\ pc' = "deliver" /\ ~Unusable /\ call' = name /\ Kernel(name)
      /\ finished' = (name = "finish" /\ kind = "decode" /\ shell # "c")
      /\ shell' = shell /\ kind' = kind /\ packetCb' = packetCb /\ failed' = failed
      /\ given' = given /\ over' = over /\ answer' = answer
  BY DEF Call, setting, client
<1>2. /\ made' \in Nat /\ queue' \in Seq(Nat) /\ blocks' \in Nat
      /\ kernelOver' \in BOOLEAN /\ outcome' \in Outcomes
      /\ over <=> outcome' = "state"
      /\ over => shell # "c" /\ kernelOver' /\ queue' = <<>>
      /\ name = "finish" => kernelOver'
      /\ kernelOver' /\ ~over => name = "finish"
      /\ kind = "encode" /\ outcome' # "ok" => queue' = <<>>
      /\ packetCb => queue' = Numbers(Len(given), Len(queue'))
      /\ packetCb /\ outcome' \in {"ok", "rejected"} => made' = Len(given) + Len(queue')
  BY <1>1, KernelAnswers DEF setting
<1>3. HandleTypeOK'
  BY <1>1, <1>2 DEF HandleInv, HandleTypeOK
<1>4. Setting'
  BY <1>1 DEF HandleInv, Setting
<1>5. Settled' /\ NothingLost'
  BY <1>1 DEF Settled, NothingLost, Between
<1>6. Delivering'
  BY <1>1, <1>2 DEF Delivering, Unusable
<1> QED
  BY <1>3, <1>4, <1>5, <1>6 DEF HandleInv

\* A call returns with `code`, the client having been given all there was
\* unless a defect lost it.
LEMMA ReplyKeeps ==
    ASSUME HandleInv, pc = "deliver", Reply(Code(outcome)), UNCHANGED setting,
           UNCHANGED <<made, kernelOver, finished, call, outcome>>,
           failed' \in BOOLEAN, given' \in Seq(Nat), queue' = <<>>, blocks' = 0,
           failed' <=> Code(outcome) = "internal" \/ (shell = "c" /\ call = "finish"),
           packetCb /\ outcome \in {"ok", "rejected"} => made = Len(given')
    PROVE  HandleTypeOK' /\ Setting' /\ Settled' /\ NothingLost' /\ Delivering'
<1>1. /\ pc' = "idle" /\ answer' = Code(outcome)
      /\ over' = (over \/ Code(outcome) = "internal" \/ call = "finish")
  BY DEF Reply, Ends
<1>2. outcome \in {"ok", "state", "rejected", "internal", "floor1", "ragged"}
  BY DEF HandleInv, HandleTypeOK, Outcomes, Codes, Rejections
<1>3. Code(outcome) \in Codes
  BY <1>2 DEF Code, Codes, Rejections
<1>4. /\ over <=> outcome = "state"
      /\ over => shell # "c" /\ kernelOver
      /\ call = "finish" => kernelOver
      /\ finished => call = "finish"
      /\ kernelOver /\ ~over => call = "finish"
  BY DEF HandleInv, Delivering
<1>5. over' \in BOOLEAN
  BY <1>1
<1>6. HandleTypeOK'
  BY <1>1, <1>3, <1>5 DEF HandleInv, HandleTypeOK, setting
<1>7. Setting'
  BY DEF HandleInv, Setting, setting
<1>8. Settled'
  BY <1>1, <1>4 DEF Settled, setting
<1>9. outcome \notin {"ok", "rejected"} => over' /\ answer' # "ok"
  BY <1>1, <1>2, <1>4 DEF Code
<1>10. NothingLost'
  BY <1>9 DEF NothingLost, setting
<1>11. Delivering'
  BY <1>1 DEF Delivering
<1> QED
  BY <1>6, <1>7, <1>8, <1>10, <1>11

LEMMA HandOverKeeps ==
    ASSUME HandleInv, HandOver
    PROVE  /\ HandleInv'
           /\ given' = given \o IF Code(outcome) = "internal" THEN <<>> ELSE queue
           /\ Reply(Code(outcome))
<1> DEFINE all == IF Code(outcome) = "internal" THEN <<>> ELSE queue
<1>1. /\ pc = "deliver" /\ shell # "c" /\ given' = given \o all
      /\ failed' = (failed \/ Kills(outcome))
      /\ Reply(Code(outcome)) /\ queue' = <<>> /\ blocks' = 0
      /\ UNCHANGED setting /\ UNCHANGED <<made, kernelOver, finished, call, outcome>>
  BY DEF HandOver, kernel
<1>2. /\ packetCb /\ given \in Seq(Nat) /\ queue \in Seq(Nat)
      /\ queue = Numbers(Len(given), Len(queue))
      /\ outcome \in {"ok", "rejected"} => made = Len(given) + Len(queue)
      /\ ~failed /\ ~(shell = "wasm" /\ kind = "encode")
  BY <1>1 DEF HandleInv, HandleTypeOK, Setting, Delivering
<1>3. all \in Seq(Nat) /\ Len(all) \in Nat /\ all = Numbers(Len(given), Len(all))
  <2>1. Len(queue) \in Nat /\ Len(<<>>) = 0 /\ <<>> \in Seq(Nat)
    BY <1>2
  <2>2. <<>> = Numbers(Len(given), Len(<<>>))
    BY <2>1, NothingNumbered
  <2> QED
    BY <1>2, <2>1, <2>2
<1>4. given' \in Seq(Nat) /\ Len(given') = Len(given) + Len(all)
  BY <1>1, <1>2, <1>3
<1>5. failed' \in BOOLEAN /\ (failed' <=> Code(outcome) = "internal")
  BY <1>1, <1>2 DEF Kills
<1>6. outcome \in {"ok", "rejected"} => made = Len(given')
  BY <1>2, <1>4 DEF Code
<1> QED
  BY <1>1, <1>4, <1>5, <1>6, ReplyKeeps DEF HandleInv

LEMMA ReturnKeeps ==
    ASSUME HandleInv, Return
    PROVE  HandleInv'
<1>1. /\ pc = "deliver" /\ shell = "c"
      /\ Delivers => queue = <<>>
      /\ failed' = Terminal(Code(outcome)) /\ Reply(Code(outcome))
      /\ queue' = <<>> /\ blocks = 0 /\ blocks' = blocks /\ given' = given
      /\ UNCHANGED setting /\ UNCHANGED <<made, kernelOver, finished, call, outcome>>
  BY DEF Return, kernel, client
<1>2. failed' \in BOOLEAN /\ (failed' <=> Code(outcome) = "internal" \/ call = "finish")
  BY <1>1 DEF Terminal
<1>3. packetCb /\ outcome \in {"ok", "rejected"} => queue = <<>>
  BY <1>1 DEF HandleInv, Delivering, Delivers
<1>4. packetCb /\ outcome \in {"ok", "rejected"} => made = Len(given')
  BY <1>1, <1>3 DEF HandleInv, HandleTypeOK, Delivering
<1>5. given' \in Seq(Nat)
  BY <1>1 DEF HandleInv, HandleTypeOK
<1> QED
  BY <1>1, <1>2, <1>4, <1>5, ReplyKeeps DEF HandleInv

LEMMA NextDeliveryFits ==
    ASSUME HandleInv, queue # <<>>
    PROVE  /\ Len(queue) \in Nat /\ Len(queue) > 0
           /\ NextDelivery \in 1 .. Len(queue)
<1>1. queue \in Seq(Nat)
  BY DEF HandleInv, HandleTypeOK
<1>2. Len(queue) \in Nat /\ Len(queue) > 0
  BY <1>1
<1> QED
  BY <1>2, HandleAssumption DEF NextDelivery

LEMMA CallbackTakesKeeps ==
    ASSUME HandleInv, CallbackTakes
    PROVE  /\ HandleInv'
           /\ packetCb => given' = given \o Numbers(Len(given), NextDelivery)
           /\ Len(given') \in Nat
           /\ packetCb => NextDelivery \in 1 .. Len(given')
<1> DEFINE n == NextDelivery
<1>1. /\ pc = "deliver" /\ shell = "c" /\ Delivers /\ queue # <<>>
      /\ given' = IF packetCb THEN given \o SubSeq(queue, 1, n) ELSE given
      /\ queue' = SubSeq(queue, n + 1, Len(queue))
      /\ UNCHANGED setting /\ UNCHANGED kernel /\ UNCHANGED flags
      /\ UNCHANGED <<pc, call, outcome, blocks, over, answer>>
  BY DEF CallbackTakes
<1>2. Len(queue) \in Nat /\ n \in 1 .. Len(queue) /\ n \in Nat
  BY <1>1, NextDeliveryFits
<1>3. given \in Seq(Nat) /\ Len(given) \in Nat /\ queue \in Seq(Nat)
  BY DEF HandleInv, HandleTypeOK
<1>4. packetCb => queue = Numbers(Len(given), Len(queue))
  BY <1>1 DEF HandleInv, Delivering
<1> HIDE DEF n
<1>5. packetCb => /\ given' = given \o Numbers(Len(given), n)
                  /\ queue' = Numbers(Len(given) + n, Len(queue) - n)
  <2> SUFFICES ASSUME packetCb
               PROVE  /\ given' = given \o Numbers(Len(given), n)
                      /\ queue' = Numbers(Len(given) + n, Len(queue) - n)
    OBVIOUS
  <2>1. n \in 0 .. Len(queue)
    BY <1>2
  <2>2. /\ SubSeq(Numbers(Len(given), Len(queue)), 1, n) = Numbers(Len(given), n)
        /\ SubSeq(Numbers(Len(given), Len(queue)), n + 1, Len(queue))
           = Numbers(Len(given) + n, Len(queue) - n)
    BY <1>2, <1>3, <2>1, NumbersSplit
  <2> QED
    BY <1>1, <1>4, <2>2
<1>6. packetCb => given' \in Seq(Nat) /\ Len(given') = Len(given) + n
  BY <1>2, <1>3, <1>5, Lengthens
<1>7. ~packetCb => given' = given
  BY <1>1
<1>8. queue' \in Seq(Nat) /\ Len(queue') = Len(queue) - n
  BY <1>1, <1>2, <1>3
<1>9. given' \in Seq(Nat)
  BY <1>3, <1>6, <1>7, <1>1 DEF HandleInv, HandleTypeOK
<1>10. HandleTypeOK'
  BY <1>1, <1>8, <1>9 DEF HandleInv, HandleTypeOK, setting, kernel, flags
<1>11. Setting'
  BY <1>1 DEF HandleInv, Setting, setting
<1>12. Settled' /\ NothingLost'
  BY <1>1 DEF Settled, NothingLost, Between
<1>13. packetCb => queue' = Numbers(Len(given'), Len(queue'))
  BY <1>5, <1>6, <1>8
<1>14. ~over
  BY <1>1 DEF HandleInv, Delivering
<1>15. packetCb /\ outcome \in {"ok", "rejected"} => made = Len(given') + Len(queue')
  <2> SUFFICES ASSUME packetCb, outcome \in {"ok", "rejected"}
               PROVE  made = Len(given') + Len(queue')
    OBVIOUS
  <2>1. made = Len(given) + Len(queue)
    BY <1>1 DEF HandleInv, Delivering
  <2>2. n \in Nat /\ Len(given) \in Nat /\ Len(queue) \in Nat
    BY <1>2, <1>3
  <2>3. Len(given') = Len(given) + n /\ Len(queue') = Len(queue) - n
    BY <1>6, <1>8
  <2> QED
    BY ONLY <2>1, <2>2, <2>3
<1>16. Delivering'
  BY <1>1, <1>13, <1>14, <1>15 DEF HandleInv, Delivering, Delivers, setting, kernel, flags
<1>17. Len(given') \in Nat
  BY <1>9
<1>18. packetCb => n \in 1 .. Len(given')
  BY <1>2, <1>3, <1>6
<1>19. HandleInv'
  BY <1>10, <1>11, <1>12, <1>16 DEF HandleInv
<1> QED
  BY <1>5, <1>17, <1>18, <1>19 DEF n

LEMMA CallbackRefusesKeeps ==
    ASSUME HandleInv, NEW code \in Codes \ {"ok"}, CallbackRefuses(code)
    PROVE  HandleInv'
<1>1. /\ pc = "deliver" /\ pc' = "idle" /\ failed' = TRUE /\ answer' = code /\ over' = TRUE
      /\ queue' = <<>> /\ blocks' = 0
      /\ UNCHANGED setting /\ UNCHANGED kernel /\ UNCHANGED client
      /\ UNCHANGED <<finished, call, outcome>>
  BY DEF CallbackRefuses, Abort
<1>2. HandleTypeOK'
  BY <1>1 DEF HandleInv, HandleTypeOK, setting, kernel, client
<1>3. Setting'
  BY <1>1 DEF HandleInv, Setting, setting
<1>4. Settled' /\ Delivering'
  BY <1>1 DEF Settled, Delivering
<1>5. NothingLost'
  BY <1>1 DEF NothingLost
<1> QED
  BY <1>2, <1>3, <1>4, <1>5 DEF HandleInv

\* The steps that move nothing but the answer, a block of the container or the
\* place between calls.
LEMMA QuietKeeps ==
    ASSUME HandleInv, New \/ CallRefused \/ WriteTakes \/ Free
    PROVE  HandleInv' /\ UNCHANGED <<given, over>>
<1>1. /\ UNCHANGED setting /\ UNCHANGED kernel /\ UNCHANGED flags
      /\ UNCHANGED <<call, queue, outcome>> /\ UNCHANGED client /\ UNCHANGED over
  BY DEF New, CallRefused, WriteTakes, Free, running
<1>2. blocks' \in Nat /\ answer' \in Codes \cup {"none"}
  BY DEF HandleInv, HandleTypeOK, New, CallRefused, WriteTakes, Free, running, Codes
<1>3. HandleTypeOK'
  BY <1>1, <1>2 DEF HandleInv, HandleTypeOK, setting, kernel, flags, client
<1>4. Setting'
  BY <1>1 DEF HandleInv, Setting, setting
<1>5. \/ pc' = pc /\ ~Between
      \/ Between /\ Between' /\ blocks' = blocks /\ (answer' = "ok" => answer = "ok")
      \/ pc' = "freed"
  BY DEF New, CallRefused, WriteTakes, Free, running, Between
<1>6. Settled' /\ NothingLost'
  BY <1>1, <1>5 DEF HandleInv, Settled, NothingLost, Between, setting, kernel, flags, client
<1>7. pc' = "deliver" => pc = "deliver"
  BY DEF New, CallRefused, WriteTakes, Free, running
<1>8. Delivering'
  BY <1>1, <1>7 DEF HandleInv, Delivering, setting, kernel, flags, client
<1> QED
  BY <1>1, <1>3, <1>4, <1>6, <1>8 DEF HandleInv, client

LEMMA StepHandle == HandleInv /\ [Next]_vars => HandleInv'
<1> SUFFICES ASSUME HandleInv, [Next]_vars PROVE HandleInv'
  OBVIOUS
<1>1. CASE UNCHANGED vars
  BY <1>1 DEF vars, setting, kernel, flags, running, client, HandleInv, HandleTypeOK,
              Setting, Settled, NothingLost, Delivering, Between
<1>2. CASE New \/ CallRefused \/ WriteTakes \/ Free
  BY <1>2, QuietKeeps
<1>3. CASE Call("push") \/ Call("finish")
  BY <1>3, CallKeeps
<1>4. CASE \E code \in Codes \ {"ok"} : CallbackRefuses(code)
  BY <1>4, CallbackRefusesKeeps
<1>5. CASE CallbackTakes
  BY <1>5, CallbackTakesKeeps
<1>6. CASE HandOver
  BY <1>6, HandOverKeeps
<1>7. CASE Return
  BY <1>7, ReturnKeeps
<1> QED
  BY <1>1, <1>2, <1>3, <1>4, <1>5, <1>6, <1>7 DEF Next

-----------------------------------------------------------------------------
(* The theorems. *)

LEMMA AlwaysHandle ==
    ASSUME NoWasmEncode
    PROVE  Spec => []HandleInv
  BY InitHandle, StepHandle, PTL DEF Spec

\* A finish that answers OK has delivered all that the kernel's calls handed
\* back (lib.rs:799-829), in every handle but the wasm encode session.
THEOREM OkIsComplete ==
    ASSUME NoWasmEncode
    PROVE  Spec => []CompleteWhenOk
<1>1. HandleInv => CompleteWhenOk
  BY DEF HandleInv, Settled, NothingLost, Between, CompleteWhenOk
<1> QED
  BY <1>1, AlwaysHandle, PTL

\* A step that hands nothing out and answers nothing new.
LEMMA StutterSteps ==
    ASSUME HandleInv, New \/ Call("push") \/ Call("finish") \/ WriteTakes \/ Free
    PROVE  UNCHANGED <<given, over, answer>>
  BY DEF New, Call, WriteTakes, Free, client

LEMMA AnswersWithoutDelivery ==
    ASSUME given \in Seq(Nat), UNCHANGED given, answer' \in Codes,
           over => over' /\ answer' = "state",
           answer' = "internal" => over', answer' = "state" => over'
    PROVE  Contract!Answer
<1>1. given' = given \o [i \in 1 .. 0 |-> Len(given) + i]
  BY Lengthens DEF Numbers
<1>2. 0 \in 0 .. Len(given')
  OBVIOUS
<1>3. Contract!Continues(0)
  BY <1>1 DEF Contract!Continues
<1> QED
  BY <1>2, <1>3 DEF Contract!Answer

LEMMA RefusedAnswers ==
    ASSUME HandleInv, CallRefused
    PROVE  Contract!Answer
<1>1. UNCHANGED <<given, over>> /\ answer' = "state" /\ over
  BY DEF CallRefused, client, HandleInv, Settled, Between, Unusable
<1>2. given \in Seq(Nat) /\ "state" \in Codes
  BY DEF HandleInv, HandleTypeOK, Codes
<1> QED
  BY <1>1, <1>2, AnswersWithoutDelivery

LEMMA AbortAnswers ==
    ASSUME HandleInv, NEW code \in Codes \ {"ok"}, CallbackRefuses(code)
    PROVE  Contract!Answer
<1>1. UNCHANGED given /\ answer' = code /\ over' = TRUE /\ pc = "deliver" /\ shell = "c"
  BY DEF CallbackRefuses, client
<1>2. ~over
  BY <1>1 DEF HandleInv, Delivering
<1>3. given \in Seq(Nat)
  BY DEF HandleInv, HandleTypeOK
<1> QED
  BY <1>1, <1>2, <1>3, AnswersWithoutDelivery

\* What the code of an outcome says of the handle.
LEMMA RepliesKeepContract ==
    ASSUME HandleInv, pc = "deliver", Reply(Code(outcome))
    PROVE  /\ answer' \in Codes
           /\ over => over' /\ answer' = "state"
           /\ answer' = "internal" => over'
           /\ answer' = "state" => over'
<1>1. /\ answer' = Code(outcome)
      /\ over' = (over \/ Code(outcome) = "internal" \/ call = "finish")
  BY DEF Reply, Ends
<1>2. outcome \in {"ok", "state", "rejected", "internal", "floor1", "ragged"}
  BY DEF HandleInv, HandleTypeOK, Outcomes, Codes, Rejections
<1>3. over <=> outcome = "state"
  BY DEF HandleInv, Delivering
<1> QED
  BY <1>1, <1>2, <1>3 DEF Code, Codes, Rejections

LEMMA ReturnAnswers ==
    ASSUME HandleInv, Return
    PROVE  Contract!Answer
<1>1. pc = "deliver" /\ Reply(Code(outcome)) /\ UNCHANGED given
  BY DEF Return, client
<1>2. given \in Seq(Nat)
  BY DEF HandleInv, HandleTypeOK
<1> QED
  BY <1>1, <1>2, RepliesKeepContract, AnswersWithoutDelivery

LEMMA HandOverAnswers ==
    ASSUME HandleInv, HandOver
    PROVE  Contract!Answer
<1> DEFINE all == IF Code(outcome) = "internal" THEN <<>> ELSE queue
<1>1. given' = given \o all /\ Reply(Code(outcome)) /\ pc = "deliver" /\ shell # "c"
  BY HandOverKeeps DEF HandOver
<1>2. /\ given \in Seq(Nat) /\ queue \in Seq(Nat)
      /\ queue = Numbers(Len(given), Len(queue))
      /\ over => queue = <<>>
  BY <1>1 DEF HandleInv, HandleTypeOK, Setting, Delivering
<1>3. all \in Seq(Nat) /\ all = Numbers(Len(given), Len(all))
  <2>1. Len(<<>>) = 0 /\ <<>> \in Seq(Nat)
    OBVIOUS
  <2>2. <<>> = Numbers(Len(given), Len(<<>>))
    BY <2>1, NothingNumbered
  <2> QED
    BY <1>2, <2>1, <2>2
<1>4. over => Len(all) = 0
  BY <1>2
<1> HIDE DEF all
<1>5. Len(all) \in Nat /\ Len(given) \in Nat /\ Len(given') = Len(given) + Len(all)
  BY <1>1, <1>2, <1>3
<1>6. Len(all) \in 0 .. Len(given')
  BY ONLY <1>5
<1>7. Contract!Continues(Len(all))
  BY <1>1, <1>3 DEF Contract!Continues, Numbers
<1> QED
  BY <1>1, <1>4, <1>6, <1>7, RepliesKeepContract DEF Contract!Answer

LEMMA CallbackDelivers ==
    ASSUME HandleInv, CallbackTakes
    PROVE  Contract!Deliver \/ UNCHANGED <<given, over, answer>>
<1>1. pc = "deliver" /\ shell = "c" /\ UNCHANGED <<over, answer>>
  BY DEF CallbackTakes
<1>2. ~over
  BY <1>1 DEF HandleInv, Delivering
<1>3. CASE packetCb
  <2>1. /\ NextDelivery \in 1 .. Len(given')
        /\ given' = given \o Numbers(Len(given), NextDelivery)
    BY <1>3, CallbackTakesKeeps
  <2>2. Contract!Continues(NextDelivery)
    BY <2>1 DEF Contract!Continues, Numbers
  <2> QED
    BY <1>1, <1>2, <2>1, <2>2 DEF Contract!Deliver
<1>4. CASE ~packetCb
  BY <1>1, <1>4 DEF CallbackTakes
<1> QED
  BY <1>3, <1>4

\* The encode sessions of the C ABI and of Python and the decoders of the C ABI,
\* of Python and of wasm implement the contract of a handle: the client gets what
\* was made, in order and without a gap, and nothing once the handle is over
\* (wem.h, sections 1, 2 and 5).  The encode session of wasm does not, and
\* NoWasmEncode leaves it out: its push reaches the kernel again after INTERNAL.
THEOREM HandleKeepsContract ==
    ASSUME NoWasmEncode
    PROVE  Spec => KeepsContract
<1>1. Init => Contract!ContractInit
  BY DEF Init, Contract!ContractInit
<1>2. HandleInv /\ [Next]_vars => [Contract!ContractNext]_Contract!contractVars
  <2> SUFFICES ASSUME HandleInv, [Next]_vars
               PROVE  Contract!Deliver \/ Contract!Answer \/ UNCHANGED <<given, over, answer>>
    BY DEF Contract!ContractNext, Contract!contractVars
  <2>1. CASE UNCHANGED vars
    BY <2>1 DEF vars, client
  <2>2. CASE New \/ Call("push") \/ Call("finish") \/ WriteTakes \/ Free
    BY <2>2, StutterSteps
  <2>3. CASE CallRefused \/ \E code \in Codes \ {"ok"} : CallbackRefuses(code)
    BY <2>3, RefusedAnswers, AbortAnswers
  <2>4. CASE CallbackTakes
    BY <2>4, CallbackDelivers
  <2>5. CASE HandOver \/ Return
    BY <2>5, HandOverAnswers, ReturnAnswers
  <2> QED
    BY <2>1, <2>2, <2>3, <2>4, <2>5 DEF Next
<1> QED
  BY <1>1, <1>2, AlwaysHandle, PTL DEF Spec, KeepsContract, Contract!ContractSpec

-----------------------------------------------------------------------------
(* The encoder handle that threads share. *)


\* A call marks the handle before it returns.
SettledInv == \A t \in Threads : defect[t] /\ at[t] \in {"return", "out"} => dead

SharedInv ==
    /\ EncoderTypeOK
    /\ SettledInv
    /\ LateCallersRefused
    /\ OnlyDefectsKill

LEMMA InitShared == EncoderInit => SharedInv
<1> SUFFICES ASSUME EncoderInit PROVE SharedInv
  OBVIOUS
<1>1. EncoderTypeOK
  <2>1. 0 \in 0 .. MaxWrites
    BY MaxWritesAssumption
  <2>2. writesLeft \in [Threads -> 0 .. MaxWrites]
    BY <2>1 DEF EncoderInit
  <2>3. defect \in [Threads -> BOOLEAN] /\ warned \in [Threads -> BOOLEAN] /\ dead \in BOOLEAN
    BY Zenon DEF EncoderInit
  <2>4. /\ at \in [Threads -> {"out", "encode", "write", "settle", "return"}]
        /\ result \in [Threads -> {"none", "ok", "state", "rejected", "internal"}]
    BY DEF EncoderInit
  <2> QED
    BY <2>2, <2>3, <2>4 DEF EncoderTypeOK
<1>2. SettledInv /\ LateCallersRefused /\ OnlyDefectsKill
  BY DEF EncoderInit, SettledInv, LateCallersRefused, OnlyDefectsKill
<1> QED
  BY <1>1, <1>2 DEF SharedInv

\* A call that begins after a defect was reported finds the handle dead.
LEMMA BeginKeeps ==
    ASSUME SharedInv, NEW t \in Threads, NEW legal \in BOOLEAN, Begin(t, legal)
    PROVE  SharedInv'
<1>1. EncoderTypeOK'
  BY DEF SharedInv, EncoderTypeOK, Begin, DefectReported
<1>2. SettledInv'
  BY DEF SharedInv, EncoderTypeOK, SettledInv, Begin
<1>3. DefectReported => dead
  BY DEF SharedInv, SettledInv, DefectReported
<1>4. LateCallersRefused'
  <2> SUFFICES ASSUME NEW u \in Threads, warned'[u]
               PROVE  at'[u] \in {"out", "return"} /\ result'[u] = "state"
    BY DEF LateCallersRefused
  <2>1. CASE u = t
    <3>1. warned'[t] = DefectReported
      BY DEF SharedInv, EncoderTypeOK, Begin
    <3>2. dead
      BY <1>3, <2>1, <3>1
    <3> QED
      BY <2>1, <3>2 DEF SharedInv, EncoderTypeOK, Begin
  <2>2. CASE u # t
    <3>1. warned[u] /\ at'[u] = at[u] /\ result'[u] = result[u]
      BY <2>2 DEF SharedInv, EncoderTypeOK, Begin
    <3> QED
      BY <3>1 DEF SharedInv, LateCallersRefused
  <2> QED
    BY <2>1, <2>2
<1>5. OnlyDefectsKill'
  BY DEF SharedInv, OnlyDefectsKill, Begin
<1> QED
  BY <1>1, <1>2, <1>4, <1>5 DEF SharedInv

LEMMA EncodeKeeps ==
    ASSUME SharedInv, NEW t \in Threads, Encode(t)
    PROVE  SharedInv'
<1>1. EncoderTypeOK'
  BY MaxWritesAssumption DEF SharedInv, EncoderTypeOK, Encode
<1>2. SettledInv'
  BY DEF SharedInv, EncoderTypeOK, SettledInv, Encode
<1>3. ~warned[t]
  BY DEF SharedInv, LateCallersRefused, Encode
<1>4. LateCallersRefused'
  BY <1>3 DEF SharedInv, EncoderTypeOK, LateCallersRefused, Encode
<1>5. OnlyDefectsKill'
  BY DEF SharedInv, EncoderTypeOK, OnlyDefectsKill, Encode
<1> QED
  BY <1>1, <1>2, <1>4, <1>5 DEF SharedInv

LEMMA WriteKeeps ==
    ASSUME SharedInv, NEW t \in Threads, Write(t)
    PROVE  SharedInv'
<1>1. \A n \in 0 .. MaxWrites : n > 0 => n - 1 \in 0 .. MaxWrites
  BY MaxWritesAssumption
<1>2. EncoderTypeOK'
  BY <1>1 DEF SharedInv, EncoderTypeOK, Write
<1>3. SettledInv'
  BY DEF SharedInv, EncoderTypeOK, SettledInv, Write
<1>4. ~warned[t]
  BY DEF SharedInv, LateCallersRefused, Write
<1>5. LateCallersRefused'
  BY <1>4 DEF SharedInv, EncoderTypeOK, LateCallersRefused, Write
<1>6. OnlyDefectsKill'
  BY DEF SharedInv, OnlyDefectsKill, Write
<1> QED
  BY <1>2, <1>3, <1>5, <1>6 DEF SharedInv

LEMMA SettleKeeps ==
    ASSUME SharedInv, NEW t \in Threads, Settle(t)
    PROVE  SharedInv'
<1>1. EncoderTypeOK'
  BY DEF SharedInv, EncoderTypeOK, Settle, DeadAfter
<1>2. SettledInv'
  BY DEF SharedInv, EncoderTypeOK, SettledInv, Settle, DeadAfter
<1>3. ~warned[t]
  BY DEF SharedInv, LateCallersRefused, Settle
<1>4. LateCallersRefused'
  BY <1>3 DEF SharedInv, EncoderTypeOK, LateCallersRefused, Settle
<1>5. OnlyDefectsKill'
  BY DEF SharedInv, EncoderTypeOK, OnlyDefectsKill, Settle, DeadAfter
<1> QED
  BY <1>1, <1>2, <1>4, <1>5 DEF SharedInv

LEMMA SharedReturnKeeps ==
    ASSUME SharedInv, NEW t \in Threads, ReturnCode(t)
    PROVE  SharedInv'
  BY DEF SharedInv, EncoderTypeOK, SettledInv, LateCallersRefused, OnlyDefectsKill, ReturnCode

LEMMA StepShared == SharedInv /\ [EncoderNext]_encoderVars => SharedInv'
<1> SUFFICES ASSUME SharedInv, [EncoderNext]_encoderVars PROVE SharedInv'
  OBVIOUS
<1>1. CASE UNCHANGED encoderVars
  BY <1>1 DEF encoderVars, SharedInv, EncoderTypeOK, SettledInv, LateCallersRefused,
              OnlyDefectsKill
<1>2. CASE EncoderNext
  BY <1>2, BeginKeeps, EncodeKeeps, WriteKeeps, SettleKeeps, SharedReturnKeeps DEF EncoderNext
<1> QED
  BY <1>1, <1>2

LEMMA AlwaysShared == EncoderSpec => []SharedInv
  BY InitShared, StepShared, PTL DEF EncoderSpec

\* A call that begins after any other call has returned from a defect is
\* refused, however many calls were past the check then (lib.rs:590-605).
THEOREM LateCallersAreRefused == EncoderSpec => []LateCallersRefused
<1>1. SharedInv => LateCallersRefused
  BY DEF SharedInv
<1> QED
  BY <1>1, AlwaysShared, PTL

\* A rejection, or a write callback that refuses with any code, never kills
\* the handle of the others (lib.rs:393-402).
THEOREM OnlyADefectKills == EncoderSpec => []OnlyDefectsKill
<1>1. SharedInv => OnlyDefectsKill
  BY DEF SharedInv
<1> QED
  BY <1>1, AlwaysShared, PTL

=============================================================================
