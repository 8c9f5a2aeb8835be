------------------------ MODULE DecodeSession_proofs -----------------------
(***************************************************************************)
(* The decode session keeps its place in the file, announces its header    *)
(* before any frame, never hands out more frames than the file declares    *)
(* and never holds more than one long block of samples; and it implements  *)
(* its contract: what a call answers is a function of the bytes pushed so  *)
(* far.  All of it for every file, every chunking and every pair of block  *)
(* sizes.                                                                  *)
(***************************************************************************)
EXTENDS DecodeSession, SynthesisOla_proofs, FiniteSetTheorems

-----------------------------------------------------------------------------
(* The container framing keeps its place in the file through every         *)
(* consumption and compaction.                                             *)

\* What every step of the framing keeps: the buffer is a window of the pushed
\* bytes that ends where they end, it starts where the payload accounting says,
\* and the seek table still to skip lies inside the payload.
StreamInv ==
    /\ cursor <= pendingLen
    /\ Unread <= received
    /\ ~header => /\ cursor = 0 /\ pendingLen = received
                  /\ ~setupTaken
    /\ FramingInStep
    /\ ConsumedPrefixSmall
    /\ seekLeft <= remaining

\* Consuming k unread bytes moves the read position by exactly k, whether or
\* not the prefix is dropped, and leaves less consumed than unread.
LEMMA Compacting ==
    ASSUME NEW p \in Nat, NEW c \in Nat, NEW k \in Nat, c <= p, k <= p - c,
           NEW after, after = Least(c + k, p),
           NEW q, q = (IF after >= p - after THEN p - after ELSE p),
           NEW d, d = (IF after >= p - after THEN 0 ELSE after)
    PROVE  /\ q \in Nat /\ d \in Nat /\ d <= q
           /\ q - d = (p - c) - k
           /\ d = 0 \/ d < q - d
<1>1. after = c + k /\ after \in Nat /\ after <= p
  BY DEF Least
<1> QED
  BY <1>1

\* The same of the action Consume.
LEMMA ConsumeKeeps ==
    ASSUME StreamTypeOK, StreamInv, NEW count \in Nat, count <= Unread,
           Consume(count)
    PROVE  /\ pendingLen' \in Nat /\ cursor' \in Nat /\ cursor' <= pendingLen'
           /\ Unread' = Unread - count
           /\ received' = received
           /\ ConsumedPrefixSmall'
<1> DEFINE after == Least(cursor + count, pendingLen)
<1>1. /\ pendingLen \in Nat /\ cursor \in Nat /\ cursor <= pendingLen
      /\ count <= pendingLen - cursor
  BY DEF StreamTypeOK, StreamInv, Unread
<1>2. /\ pendingLen' = (IF after >= pendingLen - after THEN pendingLen - after
                        ELSE pendingLen)
      /\ cursor' = (IF after >= pendingLen - after THEN 0 ELSE after)
      /\ received' = received
  BY DEF Consume
<1> HIDE DEF after
<1>3. after = Least(cursor + count, pendingLen)
  BY DEF after
<1>4. /\ pendingLen' \in Nat /\ cursor' \in Nat /\ cursor' <= pendingLen'
      /\ pendingLen' - cursor' = (pendingLen - cursor) - count
      /\ cursor' = 0 \/ cursor' < pendingLen' - cursor'
  BY <1>1, <1>2, <1>3, Compacting
<1> QED
  BY <1>2, <1>4 DEF Unread, ConsumedPrefixSmall

\* A nonempty set of the first six numbers has a least element.
LEMMA LeastOfSix ==
    ASSUME NEW S \in SUBSET (1..6), S # {}
    PROVE  \E i \in S : \A j \in S : i <= j
<1>1. PICK k \in S : TRUE
  OBVIOUS
<1>2. CASE 1 \in S
  BY <1>2
<1>3. CASE 1 \notin S /\ 2 \in S
  BY <1>3
<1>4. CASE 1 \notin S /\ 2 \notin S /\ 3 \in S
  BY <1>4
<1>5. CASE 1 \notin S /\ 2 \notin S /\ 3 \notin S /\ 4 \in S
  BY <1>5
<1>6. CASE 1 \notin S /\ 2 \notin S /\ 3 \notin S /\ 4 \notin S /\ 5 \in S
  BY <1>6
<1>7. CASE S \subseteq {6}
  BY <1>1, <1>7
<1> QED
  BY <1>2, <1>3, <1>4, <1>5, <1>6, <1>7

\* A header region resolves exactly when none of the guards of resolve_header
\* holds: it is all pushed, and its seek table is inside its payload.
LEMMA HeaderOk ==
    ASSUME NEW c, NEW unread
    PROVE  HeaderAnswer(c, unread) = "Ok" <=>
              /\ unread >= RiffHeader /\ c.riff
              /\ unread >= c.fmtEnd /\ c.fmt = "Ok"
              /\ unread >= c.dataAt /\ c.seek <= c.dataSize
<1> DEFINE checks == <<
        Check(unread >= RiffHeader, "Short"),
        Check(c.riff, "NotRiff"),
        Check(unread >= c.fmtEnd, "Short"),
        Check(c.fmt = "Ok", c.fmt),
        Check(unread >= c.dataAt, "Short"),
        Check(c.seek <= c.dataSize, "BadSeekTableSize")>>
           failing == {i \in DOMAIN checks : ~checks[i].holds}
<1>1. DOMAIN checks = 1..6
  OBVIOUS
<1>2. \A i \in failing : checks[i].answer # "Ok"
  <2>1. checks[1].answer = "Short" /\ checks[2].answer = "NotRiff"
    BY DEF Check
  <2>2. checks[3].answer = "Short" /\ checks[5].answer = "Short"
    BY DEF Check
  <2>3. checks[6].answer = "BadSeekTableSize"
    BY DEF Check
  <2>4. 4 \in failing => checks[4].answer # "Ok"
    BY DEF Check
  <2> QED
    BY <1>1, <2>1, <2>2, <2>3, <2>4
<1>3. HeaderAnswer(c, unread) = FirstRefusal(checks)
  BY DEF HeaderAnswer
<1>4. HeaderAnswer(c, unread) = "Ok" <=> failing = {}
  <2>1. ASSUME failing # {} PROVE HeaderAnswer(c, unread) # "Ok"
    <3>1. \E i \in failing : \A j \in failing : i <= j
      BY <1>1, <2>1, LeastOfSix
    <3>2. (CHOOSE i \in failing : \A j \in failing : i <= j) \in failing
      BY <3>1
    <3> QED
      BY <1>2, <1>3, <2>1, <3>2 DEF FirstRefusal
  <2>2. ASSUME failing = {} PROVE HeaderAnswer(c, unread) = "Ok"
    BY <1>3, <2>2 DEF FirstRefusal
  <2> QED
    BY <2>1, <2>2
<1>5. /\ checks[1].holds = (unread >= RiffHeader) /\ checks[2].holds = c.riff
      /\ checks[3].holds = (unread >= c.fmtEnd) /\ checks[4].holds = (c.fmt = "Ok")
      /\ checks[5].holds = (unread >= c.dataAt)
      /\ checks[6].holds = (c.seek <= c.dataSize)
  BY DEF Check
<1>6. failing = {} <=> \A i \in 1..6 : checks[i].holds
  BY <1>1
<1> HIDE DEF checks, failing
<1>7. (\A i \in 1..6 : checks[i].holds) <=>
         /\ checks[1].holds /\ checks[2].holds /\ checks[3].holds
         /\ checks[4].holds /\ checks[5].holds /\ checks[6].holds
  OBVIOUS
<1> QED
  BY <1>4, <1>5, <1>6, <1>7, Zenon

\* A session starts in place.
LEMMA StreamInitInv ==
    ASSUME StreamInit
    PROVE  StreamTypeOK /\ StreamInv
<1>1. container.length \in Nat
  BY ContainersAssumption DEF StreamInit
<1>2. StreamTypeOK
  <2>1. received \in 0 .. container.length
    BY <1>1 DEF StreamInit
  <2>2. /\ pendingLen \in Nat /\ cursor \in Nat /\ remaining \in Nat
        /\ seekLeft \in Nat /\ audioPackets \in Nat
    BY DEF StreamInit
  <2>3. container \in Containers /\ header \in BOOLEAN /\ setupTaken \in BOOLEAN
    BY DEF StreamInit
  <2> QED
    BY <2>1, <2>2, <2>3 DEF StreamTypeOK
<1>3. /\ received = 0 /\ pendingLen = 0 /\ cursor = 0 /\ Unread = 0
      /\ remaining = 0 /\ seekLeft = 0
  BY DEF StreamInit, Unread
<1>4. ~header /\ ~setupTaken
  BY DEF StreamInit
<1> QED
  BY <1>2, <1>3, <1>4 DEF StreamInv, FramingInStep, ConsumedPrefixSmall

\* Bytes are added behind the ones that are held.
LEMMA AccumulateInv ==
    ASSUME StreamTypeOK, StreamInv, NEW count \in 1 .. container.length - received,
           Accumulate(count),
           UNCHANGED <<container, header, payloadVars, setupTaken, audioPackets>>
    PROVE  StreamTypeOK' /\ StreamInv'
<1>1. container.length \in Nat /\ count \in Nat
  BY ContainersAssumption DEF StreamTypeOK
<1>2. /\ received \in Nat /\ pendingLen \in Nat /\ cursor \in Nat
      /\ received' = received + count /\ pendingLen' = pendingLen + count
      /\ cursor' = cursor
  BY <1>1 DEF StreamTypeOK, Accumulate
<1>3. StreamTypeOK'
  BY <1>1, <1>2 DEF StreamTypeOK, payloadVars
<1>4. Unread' = Unread + count /\ Unread \in Nat /\ ReadAt' = ReadAt
  BY <1>1, <1>2 DEF StreamInv, Unread, ReadAt
<1>5. ConsumedPrefixSmall'
  BY <1>1, <1>2, <1>4 DEF StreamInv, ConsumedPrefixSmall
<1>6. FramingInStep'
  BY <1>1, <1>2, <1>4 DEF StreamInv, FramingInStep, payloadVars
<1> QED
  BY <1>1, <1>2, <1>3, <1>4, <1>5, <1>6 DEF StreamInv, payloadVars

\* The header region is consumed whole and the payload accounting starts.
LEMMA TakeHeaderInv ==
    ASSUME StreamTypeOK, StreamInv, ~header,
           HeaderAnswer(container, Unread) = "Ok", TakeHeader
    PROVE  StreamTypeOK' /\ StreamInv'
<1>1. /\ container.length \in Nat /\ container.dataAt \in Nat
      /\ container.dataSize \in Nat /\ container.seek \in Nat
  BY ContainersAssumption DEF StreamTypeOK
<1>2. container.dataAt <= Unread /\ container.seek <= container.dataSize
  BY <1>1, HeaderOk
<1>3. received \in Nat /\ Unread = received
  BY <1>1 DEF StreamTypeOK, StreamInv, Unread
<1>4. Consume(container.dataAt)
  BY <1>1, <1>2, <1>3 DEF TakeHeader, Least
<1>5. /\ pendingLen' \in Nat /\ cursor' \in Nat /\ cursor' <= pendingLen'
      /\ Unread' = Unread - container.dataAt
      /\ received' = received
      /\ ConsumedPrefixSmall'
  BY <1>1, <1>2, <1>4, ConsumeKeeps
<1>6. /\ header' = TRUE /\ remaining' = container.dataSize
      /\ seekLeft' = container.seek /\ container' = container
      /\ setupTaken' = setupTaken /\ audioPackets' = audioPackets
  BY DEF TakeHeader
<1>7. StreamTypeOK'
  BY <1>1, <1>5, <1>6 DEF StreamTypeOK
<1>8. ReadAt' = container.dataAt
  BY <1>1, <1>3, <1>5 DEF ReadAt
<1>9. FramingInStep'
  BY <1>1, <1>5, <1>6, <1>8 DEF FramingInStep
<1>10. Unread' <= received'
  BY <1>1, <1>2, <1>3, <1>5
<1> QED
  BY <1>2, <1>5, <1>6, <1>7, <1>9, <1>10 DEF StreamInv

\* Consuming k payload bytes and taking them off the accounting keeps both in
\* step: what SkipSeekTable and CommitPacket have in common.
LEMMA PayloadInv ==
    ASSUME StreamTypeOK, StreamInv, header, NEW k \in Nat,
           k <= Unread, k <= remaining, Consume(k),
           container' = container, header' = header,
           remaining' = remaining - k,
           seekLeft' \in Nat, seekLeft' <= remaining',
           setupTaken' \in BOOLEAN, audioPackets' \in Nat
    PROVE  StreamTypeOK' /\ StreamInv'
<1>1. container.length \in Nat /\ container.dataAt \in Nat /\ container.dataSize \in Nat
  BY ContainersAssumption DEF StreamTypeOK
<1>2. /\ pendingLen' \in Nat /\ cursor' \in Nat /\ cursor' <= pendingLen'
      /\ Unread' = Unread - k
      /\ received' = received
      /\ ConsumedPrefixSmall'
  BY ConsumeKeeps
<1>3. received \in Nat /\ Unread \in Nat /\ Unread <= received /\ remaining \in Nat
  BY <1>1 DEF StreamTypeOK, StreamInv, Unread
<1>4. remaining' \in Nat
  BY <1>3
<1>5. StreamTypeOK'
  BY <1>2, <1>4 DEF StreamTypeOK
<1>6. ReadAt' = ReadAt + k
  BY <1>2, <1>3 DEF ReadAt
<1>7. ReadAt = container.dataAt + container.dataSize - remaining
  BY DEF StreamInv, FramingInStep
<1>8. FramingInStep'
  BY <1>1, <1>2, <1>3, <1>6, <1>7 DEF FramingInStep
<1>9. Unread' <= received'
  BY <1>2, <1>3
<1> QED
  BY <1>2, <1>5, <1>8, <1>9 DEF StreamInv

\* The seek table is skipped inside the payload.
LEMMA SkipSeekInv ==
    ASSUME StreamTypeOK, StreamInv, header, SkipSeekTable
    PROVE  StreamTypeOK' /\ StreamInv'
<1> DEFINE skip == Least(seekLeft, Unread)
<1>1. /\ Unread \in Nat /\ seekLeft \in Nat /\ remaining \in Nat
      /\ seekLeft <= remaining
  BY DEF StreamTypeOK, StreamInv, Unread
<1>2. skip \in Nat /\ skip <= Unread /\ skip <= seekLeft /\ skip <= remaining
  BY <1>1 DEF Least
<1>3. /\ Consume(skip) /\ seekLeft' = seekLeft - skip
      /\ remaining' = remaining - skip
      /\ container' = container /\ header' = header
      /\ setupTaken' = setupTaken /\ audioPackets' = audioPackets
  BY DEF SkipSeekTable
<1> HIDE DEF skip
<1>4. seekLeft' \in Nat /\ seekLeft' <= remaining'
  BY <1>1, <1>2, <1>3
<1>5. setupTaken' \in BOOLEAN /\ audioPackets' \in Nat
  BY <1>3 DEF StreamTypeOK
<1> QED
  BY <1>2, <1>3, <1>4, <1>5, PayloadInv

\* A packet that can be peeked is committed inside the payload.
LEMMA CommitInv ==
    ASSUME StreamTypeOK, StreamInv, header, NEW i, Peekable(i), CommitPacket(i)
    PROVE  StreamTypeOK' /\ StreamInv'
<1>1. Size(i) \in Nat
  BY ContainersAssumption
     DEF StreamTypeOK, Peekable, PacketsHere, Size, PacketSize, PrefixSize
<1>2. /\ Size(i) <= Unread /\ Size(i) <= remaining /\ seekLeft = 0
  BY <1>1 DEF Peekable
<1>3. /\ Consume(Size(i)) /\ remaining' = remaining - Size(i)
      /\ container' = container /\ header' = header /\ seekLeft' = seekLeft
      /\ setupTaken' = TRUE
      /\ audioPackets' = IF setupTaken THEN audioPackets + 1 ELSE audioPackets
  BY DEF CommitPacket
<1>4. seekLeft' \in Nat /\ seekLeft' <= remaining'
  BY <1>1, <1>2, <1>3 DEF StreamTypeOK
<1>5. setupTaken' \in BOOLEAN /\ audioPackets' \in Nat
  BY <1>3 DEF StreamTypeOK
<1> QED
  BY <1>1, <1>2, <1>3, <1>4, <1>5, PayloadInv

-----------------------------------------------------------------------------
(* The session.                                                            *)

\* How far the call and the codec are, against the framing.
PhaseInv ==
    /\ phase = "resolve" => ~header
    /\ phase \in {"walk", "tail"} => header
    /\ phase = "tail" => finished /\ codec
    /\ setupTaken <=> codec

\* The tail of the overlap-add was handed out, or the session was closed
\* without it: no block comes any more.
Closed == finished /\ phase = "idle"

\* The overlap-add is good for another block until the session is closed.
WindowInv ==
    /\ WindowBounded
    /\ ~Closed => OlaInv

\* Nothing is announced or handed out before the codec is open.
HandedInv ==
    /\ announced = IF codec THEN 1 ELSE 0
    /\ ~codec => pending = {} /\ reply = <<>> /\ delivered = <<>>
    /\ NeverPastDeclared

SessionInv ==
    /\ TypeOK
    /\ StreamInv
    /\ PhaseInv
    /\ WindowInv
    /\ HandedInv

\* What the actions need to know of the file.
LEMMA TotalIsNat ==
    ASSUME StreamTypeOK
    PROVE  container.total \in Nat
  BY ContainersAssumption DEF StreamTypeOK

\* A new session satisfies the invariant.
LEMMA InitSession == Init => SessionInv
<1> SUFFICES ASSUME Init PROVE SessionInv
  OBVIOUS
<1>1. StreamTypeOK /\ StreamInv
  BY StreamInitInv DEF Init
<1>2. OlaTypeOK /\ OlaInv
  BY OlaInitInv DEF Init
<1>3. /\ phase = "idle" /\ finished = FALSE /\ codec = FALSE /\ pending = {}
      /\ emitted = 0 /\ announced = 0 /\ reply = <<>> /\ delivered = <<>>
  BY DEF Init
<1>4. <<>> \in Seq(Seq(Contributions)) /\ Len(<<>>) = 0
  BY EmptySeq
<1>5. TypeOK
  BY <1>1, <1>2, <1>3, <1>4 DEF TypeOK
<1>6. PhaseInv
  BY <1>3 DEF PhaseInv, Init, StreamInit
<1>7. Len(samples) <= Long
  <2>1. Len(samples) \in Nat
    BY <1>2, LenProperties DEF OlaTypeOK
  <2>2. start = 0 /\ base = 0 /\ Long \in Nat
    BY BlockSizesAssumption DEF Init, OlaInit
  <2> QED
    BY <1>2, <2>1, <2>2 DEF OlaInv
<1>8. WindowInv
  BY <1>2, <1>7 DEF WindowInv, WindowBounded
<1>9. container.total \in Nat
  BY <1>1, TotalIsNat
<1>10. HandedInv
  BY <1>3, <1>4, <1>9 DEF HandedInv, NeverPastDeclared
<1> QED
  BY <1>1, <1>5, <1>6, <1>8, <1>10 DEF SessionInv

\* A return hands the reply over and changes nothing else.
LEMMA ReturnKeeps ==
    ASSUME SessionInv, NEW answer, Return(answer), phase # "tail",
           UNCHANGED <<streamVars, olaVars, codecVars>>
    PROVE  SessionInv'
<1>1. /\ phase' = "idle" /\ finished' = finished /\ reply' = <<>>
      /\ delivered' = delivered \o reply
  BY DEF Return
<1>2. /\ reply \in Seq(Seq(Contributions)) /\ delivered \in Seq(Seq(Contributions))
      /\ emitted \in Nat
  BY DEF SessionInv, TypeOK
<1>3. /\ delivered' \in Seq(Seq(Contributions))
      /\ Len(delivered') = Len(delivered) + Len(reply)
      /\ reply' \in Seq(Seq(Contributions)) /\ Len(reply') = 0
  BY <1>1, <1>2, ConcatProperties, EmptySeq
<1>4. StreamTypeOK' /\ StreamInv' /\ OlaTypeOK'
  BY DEF SessionInv, TypeOK, StreamTypeOK, StreamInv, FramingInStep,
         ConsumedPrefixSmall, Unread, ReadAt, OlaTypeOK, streamVars, bufferVars,
         payloadVars, olaVars
<1>5. TypeOK'
  BY <1>1, <1>3, <1>4 DEF SessionInv, TypeOK, codecVars
<1>6. PhaseInv'
  BY <1>1 DEF SessionInv, PhaseInv, codecVars, streamVars
<1>7. WindowInv'
  <2>1. ~Closed' => ~Closed
    BY <1>1 DEF Closed
  <2> QED
    BY <2>1 DEF SessionInv, WindowInv, WindowBounded, OlaInv, olaVars
<1>8. HandedInv'
  <2>1. delivered = <<>> /\ reply = <<>> => delivered' = <<>>
    BY <1>1
  <2>2. NeverPastDeclared'
    <3>1. Len(delivered) \in Nat /\ Len(reply) \in Nat
      BY <1>2, LenProperties
    <3> QED
      BY <1>3, <3>1 DEF SessionInv, HandedInv, NeverPastDeclared, codecVars,
                        streamVars
  <2> QED
    BY <1>1, <2>1, <2>2 DEF SessionInv, HandedInv, codecVars
<1> QED
  BY <1>4, <1>5, <1>6, <1>7, <1>8 DEF SessionInv

\* A step of the framing that leaves the overlap-add, the frames and the codec
\* alone keeps the invariant when it keeps the phase in step.
LEMMA FramingKeeps ==
    ASSUME SessionInv, StreamTypeOK', StreamInv', PhaseInv',
           phase' \in {"idle", "resolve", "walk", "tail"},
           finished' \in BOOLEAN, ~Closed' => ~Closed,
           container' = container,
           UNCHANGED <<olaVars, codecVars, reply, delivered>>
    PROVE  SessionInv'
<1>1. OlaTypeOK'
  BY DEF SessionInv, TypeOK, OlaTypeOK, olaVars
<1>2. TypeOK'
  BY <1>1 DEF SessionInv, TypeOK, codecVars
<1>3. WindowInv'
  BY DEF SessionInv, WindowInv, WindowBounded, OlaInv, olaVars
<1>4. HandedInv'
  BY DEF SessionInv, HandedInv, NeverPastDeclared, codecVars
<1> QED
  BY <1>2, <1>3, <1>4 DEF SessionInv

\* Nothing but the outcome changes in a step of no effect.
LEMMA StutterKeeps ==
    ASSUME SessionInv, UNCHANGED <<streamVars, olaVars, codecVars, phase,
                                   finished, reply, delivered>>
    PROVE  SessionInv'
<1>1. StreamTypeOK' /\ StreamInv'
  BY DEF SessionInv, TypeOK, StreamTypeOK, StreamInv, FramingInStep,
         ConsumedPrefixSmall, Unread, ReadAt, streamVars, bufferVars, payloadVars
<1>2. PhaseInv'
  BY DEF SessionInv, PhaseInv, streamVars, codecVars
<1>3. ~Closed' => ~Closed
  BY DEF Closed
<1>4. /\ phase' \in {"idle", "resolve", "walk", "tail"}
      /\ finished' \in BOOLEAN /\ container' = container
  BY DEF SessionInv, TypeOK, streamVars
<1> QED
  BY <1>1, <1>2, <1>3, <1>4, FramingKeeps

\* A call starts where the header region says.
LEMMA StartKeeps ==
    ASSUME SessionInv, StreamTypeOK', StreamInv', StartRun,
           header' = header, setupTaken' = setupTaken, codec' = codec
    PROVE  /\ PhaseInv' /\ phase' \in {"idle", "resolve", "walk", "tail"}
           /\ phase' # "idle"
<1>1. header \in BOOLEAN
  BY DEF SessionInv, TypeOK, StreamTypeOK
<1>2. (header /\ phase' = "walk") \/ (~header /\ phase' = "resolve")
  BY <1>1 DEF StartRun
<1> QED
  BY <1>2 DEF SessionInv, PhaseInv

\* Each call of a caller keeps the invariant.
LEMMA CallKeeps == SessionInv /\ Call => SessionInv'
<1> SUFFICES ASSUME SessionInv, Call PROVE SessionInv'
  OBVIOUS
<1>0. StreamTypeOK /\ StreamInv
  BY DEF SessionInv, TypeOK
<1>1. ASSUME NEW count \in 1 .. container.length - received, PushBytes(count)
      PROVE  SessionInv'
  <2>1. StreamTypeOK' /\ StreamInv'
    BY <1>0, <1>1, AccumulateInv DEF PushBytes
  <2>2. /\ header' = header /\ setupTaken' = setupTaken /\ codec' = codec
        /\ StartRun /\ finished' = finished /\ container' = container
    BY <1>1 DEF PushBytes, codecVars
  <2>3. /\ PhaseInv' /\ phase' \in {"idle", "resolve", "walk", "tail"}
        /\ phase' # "idle"
    BY <2>1, <2>2, StartKeeps
  <2>4. ~Closed' => ~Closed
    BY <1>1 DEF PushBytes, Closed
  <2>5. finished' \in BOOLEAN
    BY <2>2 DEF SessionInv, TypeOK
  <2>6. UNCHANGED <<olaVars, codecVars, reply, delivered>>
    BY <1>1 DEF PushBytes
  <2> QED
    BY <2>1, <2>2, <2>3, <2>4, <2>5, <2>6, FramingKeeps
<1>2. CASE PushEmpty
  BY <1>2, StutterKeeps DEF PushEmpty
<1>3. CASE CallAfterFinish
  BY <1>3, StutterKeeps DEF CallAfterFinish
<1>4. CASE Finish
  <2>1. StreamTypeOK' /\ StreamInv'
    BY <1>0, <1>4 DEF Finish, StreamTypeOK, StreamInv, FramingInStep,
       ConsumedPrefixSmall, Unread, ReadAt, streamVars, bufferVars, payloadVars
  <2>2. /\ header' = header /\ setupTaken' = setupTaken /\ codec' = codec
        /\ StartRun /\ finished' = TRUE /\ container' = container
    BY <1>4 DEF Finish, codecVars, streamVars
  <2>3. /\ PhaseInv' /\ phase' \in {"idle", "resolve", "walk", "tail"}
        /\ phase' # "idle"
    BY <2>1, <2>2, StartKeeps
  <2>4. ~Closed' => ~Closed
    BY <1>4 DEF Finish, Closed
  <2>5. UNCHANGED <<olaVars, codecVars, reply, delivered>>
    BY <1>4 DEF Finish
  <2> QED
    BY <2>1, <2>2, <2>3, <2>4, <2>5, FramingKeeps
<1> QED
  BY <1>1, <1>2, <1>3, <1>4 DEF Call

\* Resolving the header, skipping the seek table and every wait or refusal.
LEMMA FramingRunKeeps ==
    SessionInv /\ (ResolveHeader \/ HeaderUnresolved \/ SkipSeek
                     \/ AwaitBytes \/ PayloadWalked) => SessionInv'
<1>0. SessionInv => StreamTypeOK /\ StreamInv
  BY DEF SessionInv, TypeOK
<1>1. ASSUME SessionInv, ResolveHeader PROVE SessionInv'
  <2>1. ~header
    BY <1>1 DEF SessionInv, PhaseInv, ResolveHeader
  <2>2. StreamTypeOK' /\ StreamInv'
    BY <1>0, <1>1, <2>1, TakeHeaderInv DEF ResolveHeader, HeaderNow
  <2>3. /\ header' = TRUE /\ setupTaken' = setupTaken /\ container' = container
        /\ phase = "resolve" /\ phase' = "walk" /\ finished' = finished
        /\ codec' = codec
    BY <1>1 DEF ResolveHeader, TakeHeader, codecVars
  <2>4. PhaseInv'
    BY <1>1, <2>3 DEF SessionInv, PhaseInv
  <2>5. /\ ~Closed /\ phase' \in {"idle", "resolve", "walk", "tail"}
        /\ finished' \in BOOLEAN
    BY <1>1, <2>3 DEF Closed, SessionInv, TypeOK
  <2>6. UNCHANGED <<olaVars, codecVars, reply, delivered>>
    BY <1>1 DEF ResolveHeader
  <2> QED
    BY <1>1, <2>2, <2>3, <2>4, <2>5, <2>6, FramingKeeps
<1>2. ASSUME SessionInv, SkipSeek PROVE SessionInv'
  <2>1. header
    BY <1>2 DEF SessionInv, PhaseInv, SkipSeek
  <2>2. StreamTypeOK' /\ StreamInv'
    BY <1>0, <1>2, <2>1, SkipSeekInv DEF SkipSeek
  <2>3. /\ header' = header /\ setupTaken' = setupTaken /\ container' = container
        /\ phase' = phase /\ finished' = finished /\ codec' = codec
    BY <1>2 DEF SkipSeek, SkipSeekTable, codecVars, callVars
  <2>4. PhaseInv'
    BY <1>2, <2>3 DEF SessionInv, PhaseInv
  <2>5. /\ ~Closed' => ~Closed
        /\ phase' \in {"idle", "resolve", "walk", "tail"}
        /\ finished' \in BOOLEAN
    BY <1>2, <2>3 DEF Closed, SessionInv, TypeOK
  <2>6. UNCHANGED <<olaVars, codecVars, reply, delivered>>
    BY <1>2 DEF SkipSeek, callVars
  <2> QED
    BY <1>2, <2>2, <2>3, <2>4, <2>5, <2>6, FramingKeeps
<1>3. ASSUME SessionInv, HeaderUnresolved PROVE SessionInv'
  <2>1. PICK answer : Return(answer)
    BY <1>3 DEF HeaderUnresolved, Shortfall
  <2> QED
    BY <1>3, <2>1, ReturnKeeps DEF HeaderUnresolved
<1>4. ASSUME SessionInv, AwaitBytes PROVE SessionInv'
  BY <1>4, ReturnKeeps DEF AwaitBytes, Shortfall
<1>5. ASSUME SessionInv, PayloadWalked PROVE SessionInv'
  BY <1>5, ReturnKeeps DEF PayloadWalked
<1> QED
  BY <1>1, <1>2, <1>3, <1>4, <1>5

\* Clamping what a push or a finish handed back to the declared count.
LEMMA Clamped ==
    ASSUME NEW frames \in Seq(Seq(Contributions)), NEW e \in Nat, NEW t \in Nat,
           e <= t, NEW allowed,
           allowed = Least(Greatest(t - e, 0), Len(frames))
    PROVE  /\ allowed \in Nat /\ e + allowed \in Nat /\ e + allowed <= t
           /\ SubSeq(frames, 1, allowed) \in Seq(Seq(Contributions))
           /\ Len(SubSeq(frames, 1, allowed)) = allowed
<1>1. Len(frames) \in Nat
  BY LenProperties
<1>2. allowed \in Nat /\ allowed <= Len(frames) /\ e + allowed <= t
  BY <1>1 DEF Least, Greatest
<1>3. CASE allowed = 0
  <2>1. SubSeq(frames, 1, allowed) = <<>>
    BY <1>3, SubSeqEmpty
  <2> QED
    BY <1>2, <1>3, <2>1, EmptySeq
<1>4. CASE allowed # 0
  <2>1. 1 \in 1 .. Len(frames) /\ allowed \in 0 .. Len(frames)
    BY <1>1, <1>2, <1>4
  <2>2. /\ SubSeq(frames, 1, allowed) \in Seq(Seq(Contributions))
        /\ Len(SubSeq(frames, 1, allowed)) = IF 1 <= allowed THEN allowed - 1 + 1
                                             ELSE 0
    BY <1>1, <1>2, <1>4, <2>1, SubSeqProperties
  <2> QED
    BY <1>2, <1>4, <2>2
<1> QED
  BY <1>2, <1>3, <1>4

\* Frames appended to a reply are counted once.
LEMMA Counted ==
    ASSUME NEW S, NEW d \in Seq(S), NEW r \in Seq(S), NEW f \in Seq(S),
           NEW e \in Nat, Len(d) + Len(r) = e
    PROVE  r \o f \in Seq(S) /\ Len(d) + Len(r \o f) = e + Len(f)
<1>1. r \o f \in Seq(S)
  BY ConcatProperties
<1>2. Len(r \o f) = Len(r) + Len(f)
  BY ConcatProperties
<1>3. Len(d) \in Nat /\ Len(r) \in Nat /\ Len(f) \in Nat
  BY LenProperties
<1>4. Len(d) + Len(r \o f) = e + Len(f)
  BY <1>2, <1>3
<1> QED
  BY <1>1, <1>4

\* Nothing is added by an empty reply.
LEMMA PlusNothing == \A a \in Nat : a + 0 = a
  OBVIOUS

\* AppendCompleted keeps the frame count and the clamp.
LEMMA AppendKeeps ==
    ASSUME SessionInv, released' \in Seq(Seq(Contributions)), AppendCompleted,
           container' = container, delivered' = delivered
    PROVE  /\ reply' \in Seq(Seq(Contributions)) /\ emitted' \in Nat
           /\ NeverPastDeclared'
<1> DEFINE allowed == Least(Greatest(container.total - emitted, 0),
                           Len(released'))
           frames == SubSeq(released', 1, allowed)
<1>1. /\ container.total \in Nat /\ emitted \in Nat /\ emitted <= container.total
      /\ reply \in Seq(Seq(Contributions)) /\ delivered \in Seq(Seq(Contributions))
      /\ Len(delivered) + Len(reply) = emitted
  BY TotalIsNat DEF SessionInv, TypeOK, HandedInv, NeverPastDeclared
<1>2. /\ allowed \in Nat /\ emitted + allowed \in Nat
      /\ emitted + allowed <= container.total
      /\ frames \in Seq(Seq(Contributions)) /\ Len(frames) = allowed
  BY <1>1, Clamped
<1>3. reply' = reply \o frames /\ emitted' = emitted + allowed
  BY DEF AppendCompleted
<1> HIDE DEF allowed, frames
<1>4. /\ reply \o frames \in Seq(Seq(Contributions))
      /\ Len(delivered) + Len(reply \o frames) = emitted + Len(frames)
  <2> DEFINE Sample == Seq(Contributions)
  <2>1. /\ delivered \in Seq(Sample) /\ reply \in Seq(Sample)
        /\ frames \in Seq(Sample) /\ emitted \in Nat
        /\ Len(delivered) + Len(reply) = emitted
    BY <1>1, <1>2
  <2> HIDE DEF Sample
  <2>2. /\ reply \o frames \in Seq(Sample)
        /\ Len(delivered) + Len(reply \o frames) = emitted + Len(frames)
    BY <2>1, Counted
  <2> QED
    BY <2>2 DEF Sample
<1>5. reply' \in Seq(Seq(Contributions)) /\ Len(delivered) + Len(reply') = emitted'
  BY <1>2, <1>3, <1>4
<1>6. Len(delivered') + Len(reply') = emitted'
  BY <1>5
<1>7. emitted' \in Nat /\ emitted' <= container'.total
  BY <1>2, <1>3
<1> QED
  BY <1>5, <1>6, <1>7 DEF NeverPastDeclared

\* Opening the codec announces the header over the committed setup packet.
LEMMA OpenCodecKeeps ==
    ASSUME SessionInv, NEW i, OpenCodec(i)
    PROVE  SessionInv'
<1>1. StreamTypeOK /\ StreamInv /\ header
  BY DEF SessionInv, TypeOK, PhaseInv, OpenCodec
<1>2. StreamTypeOK' /\ StreamInv'
  BY <1>1, CommitInv DEF OpenCodec
<1>3. /\ phase = "walk" /\ phase' = "walk" /\ finished' = finished
      /\ reply' = reply /\ delivered' = delivered
      /\ codec' = TRUE /\ announced' = announced + 1 /\ ~setupTaken
      /\ setupTaken' = TRUE /\ header' = header /\ container' = container
      /\ pending' = pending /\ emitted' = emitted
  BY DEF OpenCodec, CommitPacket, callVars
<1>4. ~codec /\ announced = 0
  BY <1>3 DEF SessionInv, PhaseInv, HandedInv
<1>5. OlaTypeOK' /\ UNCHANGED olaVars
  BY DEF SessionInv, TypeOK, OlaTypeOK, olaVars, OpenCodec
<1>6. TypeOK'
  BY <1>2, <1>3, <1>4, <1>5 DEF SessionInv, TypeOK
<1>7. PhaseInv'
  BY <1>1, <1>3 DEF PhaseInv
<1>8. WindowInv'
  BY <1>3, <1>5 DEF SessionInv, WindowInv, WindowBounded, OlaInv, olaVars, Closed
<1>9. NeverPastDeclared'
  BY <1>3 DEF SessionInv, HandedInv, NeverPastDeclared
<1>10. HandedInv'
  BY <1>3, <1>4, <1>9 DEF HandedInv
<1> QED
  BY <1>2, <1>6, <1>7, <1>8, <1>10 DEF SessionInv

\* The block that waited is pushed or there was none.
LEMMA PendingPushKeeps ==
    ASSUME SessionInv, phase = "walk", codec, NEW following \in Modes,
           container' = container, delivered' = delivered,
           \/ pending = {} /\ UNCHANGED <<olaVars, emitted, reply>>
           \/ \E before \in pending :
                 /\ OlaPush(before.block, before.mode, following)
                 /\ AppendCompleted
    PROVE  /\ OlaTypeOK' /\ OlaInv' /\ WindowBounded'
           /\ reply' \in Seq(Seq(Contributions)) /\ emitted' \in Nat
           /\ NeverPastDeclared'
<1>1. OlaTypeOK /\ OlaInv
  BY DEF SessionInv, TypeOK, WindowInv, Closed
<1>2. CASE pending = {} /\ UNCHANGED <<olaVars, emitted, reply>>
  <2>1. OlaTypeOK' /\ OlaInv' /\ WindowBounded'
    BY <1>1, <1>2 DEF OlaTypeOK, OlaInv, olaVars, SessionInv, WindowInv,
                     WindowBounded
  <2> QED
    BY <1>2, <2>1 DEF SessionInv, TypeOK, HandedInv, NeverPastDeclared
<1>3. ASSUME NEW before \in pending,
             OlaPush(before.block, before.mode, following), AppendCompleted
      PROVE  /\ OlaTypeOK' /\ OlaInv' /\ WindowBounded'
             /\ reply' \in Seq(Seq(Contributions)) /\ emitted' \in Nat
             /\ NeverPastDeclared'
  <2>1. before.block \in Nat /\ before.mode \in Modes
    BY DEF SessionInv, TypeOK
  <2>2. OlaTypeOK' /\ OlaInv' /\ Len(samples') <= Long
    BY <1>1, <1>3, <2>1, OlaPushInv
  <2>3. released' \in Seq(Seq(Contributions))
    BY <2>2 DEF OlaTypeOK
  <2> QED
    BY <1>3, <2>2, <2>3, AppendKeeps DEF WindowBounded
<1> QED
  BY <1>2, <1>3

\* Accepting an audio packet pushes the block before it.
LEMMA DecodeBlockKeeps ==
    ASSUME SessionInv, NEW i, DecodeBlock(i)
    PROVE  SessionInv'
<1>1. StreamTypeOK /\ StreamInv /\ header /\ codec
  BY DEF SessionInv, TypeOK, PhaseInv, DecodeBlock
<1>2. StreamTypeOK' /\ StreamInv'
  BY <1>1, CommitInv DEF DecodeBlock
<1> DEFINE block == [block |-> audioPackets + 1, mode |-> container.packets[i].mode]
<1>3. /\ phase = "walk" /\ phase' = phase /\ finished' = finished
      /\ delivered' = delivered /\ codec' = codec /\ announced' = announced
      /\ setupTaken /\ setupTaken' = TRUE /\ header' = header
      /\ container' = container /\ pending' = {block}
      /\ \/ pending = {} /\ UNCHANGED <<olaVars, emitted, reply>>
         \/ \E before \in pending :
               /\ OlaPush(before.block, before.mode, block.mode)
               /\ AppendCompleted
  BY DEF DecodeBlock, CommitPacket
<1>4. block.mode \in Modes /\ block \in [block : Nat, mode : Modes]
  <2>1. container.packets[i].mode \in Modes
    BY ContainersAssumption
       DEF SessionInv, TypeOK, StreamTypeOK, DecodeBlock, Peekable, PacketsHere,
           Modes
  <2> QED
    BY <1>1, <2>1 DEF StreamTypeOK
<1> HIDE DEF block
<1>5. /\ OlaTypeOK' /\ OlaInv' /\ WindowBounded'
      /\ reply' \in Seq(Seq(Contributions)) /\ emitted' \in Nat
      /\ NeverPastDeclared'
  BY <1>1, <1>3, <1>4, PendingPushKeeps
<1>6. TypeOK'
  BY <1>2, <1>3, <1>4, <1>5 DEF SessionInv, TypeOK
<1>7. PhaseInv'
  BY <1>1, <1>3 DEF PhaseInv
<1>8. HandedInv'
  BY <1>1, <1>3, <1>5 DEF SessionInv, HandedInv
<1> QED
  BY <1>2, <1>5, <1>6, <1>7, <1>8 DEF SessionInv, WindowInv

\* Finish pushes the last block before the tail is released.
LEMMA FlushKeeps ==
    ASSUME SessionInv, FlushPending
    PROVE  SessionInv'
<1>1. StreamTypeOK /\ StreamInv /\ header /\ codec
  BY DEF SessionInv, TypeOK, PhaseInv, FlushPending
<1>2. /\ phase = "walk" /\ phase' = "tail" /\ finished /\ finished' = finished
      /\ delivered' = delivered /\ codec' = codec /\ announced' = announced
      /\ pending' = {} /\ UNCHANGED streamVars
      /\ \/ pending = {} /\ UNCHANGED <<olaVars, emitted, reply>>
         \/ \E last \in pending :
               /\ OlaPush(last.block, last.mode, TerminalFollowing)
               /\ AppendCompleted
  BY DEF FlushPending
<1>3. StreamTypeOK' /\ StreamInv'
  BY <1>1, <1>2 DEF StreamTypeOK, StreamInv, FramingInStep,
     ConsumedPrefixSmall, Unread, ReadAt, streamVars, bufferVars, payloadVars
<1>4. /\ header' = header /\ setupTaken' = setupTaken /\ container' = container
  BY <1>2 DEF streamVars
<1>5. TerminalFollowing \in Modes
  BY DEF TerminalFollowing, Modes
<1>6. /\ OlaTypeOK' /\ OlaInv' /\ WindowBounded'
      /\ reply' \in Seq(Seq(Contributions)) /\ emitted' \in Nat
      /\ NeverPastDeclared'
  BY <1>1, <1>2, <1>4, <1>5, PendingPushKeeps
<1>7. TypeOK'
  BY <1>2, <1>3, <1>6 DEF SessionInv, TypeOK
<1>8. PhaseInv'
  BY <1>1, <1>2, <1>4 DEF SessionInv, PhaseInv
<1>9. HandedInv'
  BY <1>1, <1>2, <1>6 DEF SessionInv, HandedInv
<1> QED
  BY <1>3, <1>6, <1>7, <1>8, <1>9 DEF SessionInv, WindowInv

\* The tail is handed over with what the call had completed.
LEMMA TailKeeps ==
    ASSUME SessionInv, ReleaseTail
    PROVE  SessionInv'
<1> DEFINE allowed == Least(Greatest(container.total - emitted, 0),
                           Len(released'))
           frames == SubSeq(released', 1, allowed)
<1>1. /\ phase = "tail" /\ finished /\ codec
      /\ OlaTypeOK /\ OlaInv /\ StreamTypeOK /\ StreamInv
  BY DEF SessionInv, TypeOK, PhaseInv, WindowInv, Closed, ReleaseTail
<1>2. OlaTypeOK' /\ samples' = samples
  BY <1>1, OlaFinishInv DEF ReleaseTail
<1>3. released' \in Seq(Seq(Contributions))
  BY <1>2 DEF OlaTypeOK
<1>4. /\ container.total \in Nat /\ emitted \in Nat /\ emitted <= container.total
      /\ reply \in Seq(Seq(Contributions)) /\ delivered \in Seq(Seq(Contributions))
      /\ Len(delivered) + Len(reply) = emitted
  BY TotalIsNat DEF SessionInv, TypeOK, HandedInv, NeverPastDeclared
<1>5. /\ allowed \in Nat /\ emitted + allowed \in Nat
      /\ emitted + allowed <= container.total
      /\ frames \in Seq(Seq(Contributions)) /\ Len(frames) = allowed
  BY <1>3, <1>4, Clamped
<1>6. /\ emitted' = emitted + allowed
      /\ delivered' = delivered \o reply \o frames
      /\ reply' = <<>> /\ phase' = "idle"
      /\ codec' = codec /\ pending' = pending /\ announced' = announced
      /\ finished' = finished /\ UNCHANGED streamVars
  BY DEF ReleaseTail
<1> HIDE DEF allowed, frames
<1>7. /\ delivered \o reply \in Seq(Seq(Contributions))
      /\ Len(delivered \o reply) = emitted
  BY <1>4, ConcatProperties
<1>8. /\ (delivered \o reply) \o frames \in Seq(Seq(Contributions))
      /\ Len((delivered \o reply) \o frames) = emitted + allowed
  BY <1>5, <1>7, ConcatProperties
<1>9. <<>> \in Seq(Seq(Contributions)) /\ Len(<<>>) = 0
  BY EmptySeq
<1>10. StreamTypeOK' /\ StreamInv'
  BY <1>1, <1>6 DEF StreamTypeOK, StreamInv, FramingInStep,
     ConsumedPrefixSmall, Unread, ReadAt, streamVars, bufferVars, payloadVars
<1>11. TypeOK'
  BY <1>2, <1>5, <1>6, <1>8, <1>9, <1>10 DEF SessionInv, TypeOK
<1>12. PhaseInv'
  BY <1>1, <1>6 DEF SessionInv, PhaseInv, streamVars
<1>13. WindowInv'
  BY <1>1, <1>2, <1>6 DEF SessionInv, WindowInv, WindowBounded, Closed
<1>14. NeverPastDeclared'
  <2>1. Len(delivered') = emitted' /\ Len(reply') = 0 /\ emitted' \in Nat
    BY <1>5, <1>6, <1>8, <1>9
  <2>2. container' = container /\ emitted' <= container.total
    BY <1>5, <1>6 DEF streamVars
  <2>3. emitted' + 0 = emitted'
    BY <2>1, PlusNothing
  <2>4. Len(delivered') + Len(reply') = emitted'
    BY <2>1, <2>3
  <2> QED
    BY <2>2, <2>4 DEF NeverPastDeclared
<1>15. HandedInv'
  BY <1>1, <1>6, <1>14 DEF SessionInv, HandedInv
<1> QED
  BY <1>10, <1>11, <1>12, <1>13, <1>15 DEF SessionInv

\* Every step of a running call keeps the invariant.
LEMMA RunKeeps == SessionInv /\ Run => SessionInv'
<1> SUFFICES ASSUME SessionInv, Run PROVE SessionInv'
  OBVIOUS
<1>1. CASE ResolveHeader \/ HeaderUnresolved \/ SkipSeek \/ AwaitBytes
             \/ PayloadWalked
  BY <1>1, FramingRunKeeps
<1>2. ASSUME NEW i \in PacketsHere, OpenCodec(i) PROVE SessionInv'
  BY <1>2, OpenCodecKeeps
<1>3. ASSUME NEW i \in PacketsHere, RefuseSetup(i) PROVE SessionInv'
  BY <1>3, ReturnKeeps DEF RefuseSetup
<1>4. ASSUME NEW i \in PacketsHere, DecodeBlock(i) PROVE SessionInv'
  BY <1>4, DecodeBlockKeeps
<1>5. ASSUME NEW i \in PacketsHere, RefusePacket(i) PROVE SessionInv'
  BY <1>5, ReturnKeeps DEF RefusePacket
<1>6. CASE FlushPending
  BY <1>6, FlushKeeps
<1>7. CASE ReleaseTail
  BY <1>7, TailKeeps
<1> QED
  BY <1>1, <1>2, <1>3, <1>4, <1>5, <1>6, <1>7 DEF Run

\* The invariant holds of every session over every file, however it is cut
\* into chunks.
THEOREM SessionInvHolds == Spec => []SessionInv
<1>1. ASSUME SessionInv, UNCHANGED vars PROVE SessionInv'
  BY <1>1, StutterKeeps DEF vars, callVars
<1>2. SessionInv /\ [Next]_vars => SessionInv'
  BY <1>1, CallKeeps, RunKeeps DEF Next
<1> QED
  BY <1>2, InitSession, PTL DEF Spec

\* Every variable keeps its kind.
THEOREM SessionTypeCorrect == Spec => []TypeOK
<1>1. SessionInv => TypeOK
  BY DEF SessionInv
<1> QED
  BY <1>1, SessionInvHolds, PTL

\* The framing never loses its place in the file (decoder.rs:285-291).
THEOREM FramingStaysInStep == Spec => [](FramingInStep /\ ConsumedPrefixSmall)
<1>1. SessionInv => FramingInStep /\ ConsumedPrefixSmall
  BY DEF SessionInv, StreamInv
<1> QED
  BY <1>1, SessionInvHolds, PTL

\* The header comes first and once (decoder.rs:160-164), and the frame count it
\* declares is never passed (decoder.rs:551-561).
THEOREM FramesKeepToHeader == Spec => []FramesAsAnnounced
<1>1. ASSUME SessionInv PROVE HeaderFirst
  BY <1>1 DEF SessionInv, TypeOK, HandedInv, HeaderFirst
<1>2. SessionInv => NeverPastDeclared
  BY DEF SessionInv, HandedInv
<1> QED
  BY <1>1, <1>2, SessionInvHolds, PTL DEF FramesAsAnnounced

\* A live session holds at most one long block of samples (decoder.rs:105-108).
THEOREM SessionWindowIsBounded == Spec => []WindowBounded
<1>1. SessionInv => WindowBounded
  BY DEF SessionInv, WindowInv
<1> QED
  BY <1>1, SessionInvHolds, PTL

-----------------------------------------------------------------------------
(* What a session holds between two calls. *)

\* The packets of a file do not overlap.
LEMMA PacketsApart ==
    ASSUME NEW c \in Containers
    PROVE  /\ Len(c.packets) \in Nat /\ DOMAIN c.packets = 1 .. Len(c.packets)
           /\ \A i \in DOMAIN c.packets :
                 /\ c.packets[i].at \in Nat /\ PacketSize(c, i) \in Nat
                 /\ PrefixSize <= PacketSize(c, i)
                 /\ PacketEnd(c, i) \in Nat /\ c.packets[i].at < PacketEnd(c, i)
           /\ \A i, j \in DOMAIN c.packets :
                 i < j => PacketEnd(c, i) <= c.packets[j].at
<1> DEFINE at(i) == c.packets[i].at
           n == Len(c.packets)
<1>1. n \in Nat /\ DOMAIN c.packets = 1 .. n
  <2>1. c.packets \in Seq({c.packets[i] : i \in DOMAIN c.packets})
    BY PacketsAssumption
  <2> QED
    BY <2>1, LenProperties
<1>2. ASSUME NEW i \in 1 .. n
      PROVE  /\ at(i) \in Nat /\ PacketSize(c, i) \in Nat
             /\ PrefixSize <= PacketSize(c, i)
             /\ PacketEnd(c, i) \in Nat /\ at(i) < PacketEnd(c, i)
  <2>1. at(i) \in Nat
    BY <1>1, PacketsAssumption
  <2>2. c.packets[i].len \in Nat
    BY <1>1, ContainersAssumption
  <2> QED
    BY <2>1, <2>2 DEF PacketEnd, PacketSize, PrefixSize
<1>3. ASSUME NEW i \in 1 .. n, i # 1 PROVE at(i) = PacketEnd(c, i - 1)
  BY <1>1, <1>3, PacketsAssumption
<1> HIDE DEF at, n
<1>4. ASSUME NEW i \in 1 .. n, NEW j \in 1 .. n, i < j PROVE PacketEnd(c, i) <= at(j)
  <2> DEFINE apart == {d \in Nat : i + (d + 1) <= n => PacketEnd(c, i) <= at(i + (d + 1))}
  <2>1. 0 \in apart
    <3> SUFFICES ASSUME i + (0 + 1) <= n PROVE PacketEnd(c, i) <= at(i + (0 + 1))
      OBVIOUS
    <3>1. i + (0 + 1) \in 1 .. n /\ i + (0 + 1) # 1 /\ (i + (0 + 1)) - 1 = i
      BY <1>1
    <3>2. at(i + (0 + 1)) = PacketEnd(c, i)
      BY <1>3, <3>1
    <3> QED
      BY <1>2, <3>2
  <2>2. ASSUME NEW d \in Nat, d \in apart PROVE d + 1 \in apart
    <3> SUFFICES ASSUME i + ((d + 1) + 1) <= n
                 PROVE  PacketEnd(c, i) <= at(i + ((d + 1) + 1))
      OBVIOUS
    <3>1. PICK m, k \in 1 .. n : /\ m = i + (d + 1) /\ k = i + ((d + 1) + 1)
                                 /\ k # 1 /\ k - 1 = m /\ m <= n
      BY <1>1
    <3>2. PacketEnd(c, i) <= at(m)
      BY <2>2, <3>1
    <3>3. at(k) = PacketEnd(c, m)
      BY <1>3, <3>1
    <3> HIDE DEF apart
    <3>4. PacketEnd(c, i) <= at(k)
      BY <1>2, <3>2, <3>3
    <3> QED
      BY <3>1, <3>4
  <2> HIDE DEF apart
  <2>3. PICK d \in Nat : j = i + (d + 1)
    <3>1. (j - i) - 1 \in Nat /\ j = i + (((j - i) - 1) + 1)
      BY <1>1, <1>4
    <3> QED
      BY <3>1
  <2>4. d \in apart
    BY <2>1, <2>2, NatInduct
  <2>5. j <= n
    BY <1>1
  <2> QED
    BY <2>3, <2>4, <2>5 DEF apart
<1> QED
  BY <1>1, <1>2, <1>4 DEF at, n

\* The invariant: the tail is only reached over a walked payload.
HeldInv ==
    /\ SessionInv
    /\ phase = "tail" => PayloadDone
    /\ HoldsOnePacket

\* Two packets at one offset are one packet.
LEMMA OnePacketHere ==
    ASSUME StreamTypeOK, NEW i \in PacketsHere, NEW j \in PacketsHere
    PROVE  i = j
<1>1. /\ container \in Containers
      /\ i \in DOMAIN container.packets /\ j \in DOMAIN container.packets
      /\ container.packets[i].at = container.packets[j].at
  BY DEF StreamTypeOK, PacketsHere
<1>2. /\ i \in Nat /\ j \in Nat /\ container.packets[i].at \in Nat
      /\ container.packets[i].at < PacketEnd(container, i)
      /\ container.packets[j].at < PacketEnd(container, j)
      /\ i < j => PacketEnd(container, i) <= container.packets[j].at
      /\ j < i => PacketEnd(container, j) <= container.packets[i].at
      /\ PacketEnd(container, i) \in Nat /\ PacketEnd(container, j) \in Nat
  BY <1>1, PacketsApart
<1> QED
  BY <1>1, <1>2

\* A call that waits for bytes holds less than the packet it waits for.
LEMMA AwaitHolds ==
    ASSUME SessionInv, AwaitBytes
    PROVE  HoldsOnePacket'
<1>1. /\ PacketShort /\ UNCHANGED streamVars /\ UNCHANGED codecVars
      /\ StreamTypeOK
  BY DEF AwaitBytes, SessionInv, TypeOK
<1>2. ASSUME NEW i \in PacketsHere, ~PayloadDone, Size(i) <= remaining
      PROVE  Unread < Size(i)
  <2>1. Unread \in Int /\ remaining \in Nat /\ seekLeft \in Nat
    BY <1>1 DEF StreamTypeOK, Unread
  <2>2. Size(i) \in Nat /\ PrefixSize <= Size(i) /\ PrefixSize = 2
    <3>1. container.packets[i].len \in Nat
      BY <1>1, ContainersAssumption DEF StreamTypeOK, PacketsHere
    <3> QED
      BY <3>1 DEF Size, PacketSize, PrefixSize
  <2>3. seekLeft = 0 => remaining > 0
    BY <1>2, <2>1 DEF PayloadDone
  <2>4. ~Peekable(i)
    BY <1>1 DEF PacketShort
  <2>5. seekLeft > 0 => Unread = 0
    BY <1>1 DEF PacketShort
  <2>6. CASE seekLeft = 0
    <3>1. ~(Unread >= PrefixSize) \/ ~(Unread >= Size(i))
      BY <1>2, <2>3, <2>4, <2>6 DEF Peekable
    <3> QED
      BY <2>1, <2>2, <3>1
  <2>7. CASE seekLeft # 0
    BY <2>1, <2>2, <2>5, <2>7
  <2> QED
    BY <2>6, <2>7
<1>3. seekLeft > 0 => Unread = 0
  BY <1>1 DEF PacketShort
<1>4. /\ container' = container /\ seekLeft' = seekLeft /\ remaining' = remaining
      /\ Unread' = Unread /\ PacketsHere' = PacketsHere /\ PayloadDone' = PayloadDone
  BY <1>1 DEF streamVars, bufferVars, payloadVars, Unread, PacketsHere, ReadAt, PayloadDone
<1>5. \A i : Size(i)' = Size(i)
  BY <1>4 DEF Size
<1> QED
  BY <1>2, <1>3, <1>4, <1>5 DEF HoldsOnePacket

\* A call that refuses a packet holds that packet.
LEMMA RefusalHolds ==
    ASSUME SessionInv, NEW i \in PacketsHere, RefuseSetup(i) \/ RefusePacket(i)
    PROVE  HoldsOnePacket'
<1>1. /\ UNCHANGED streamVars /\ UNCHANGED codecVars /\ seekLeft = 0 /\ StreamTypeOK
      /\ AnswerTo(i) # "Ok"
  BY DEF RefuseSetup, RefusePacket, Peekable, SessionInv, TypeOK, AnswerTo
<1>2. /\ container' = container /\ seekLeft' = seekLeft /\ setupTaken' = setupTaken
      /\ codec' = codec /\ PacketsHere' = PacketsHere
  BY <1>1 DEF streamVars, bufferVars, payloadVars, codecVars, PacketsHere, ReadAt, Unread
<1>3. \A j \in PacketsHere : j = i
  BY <1>1, OnePacketHere
<1>4. AnswerTo(i)' = AnswerTo(i)
  BY <1>2 DEF AnswerTo, BlockAnswer
<1> QED
  BY <1>1, <1>2, <1>3, <1>4 DEF HoldsOnePacket

\* Between two calls nothing that is held changes.
LEMMA HeldStutters ==
    ASSUME HeldInv, UNCHANGED <<streamVars, codecVars, phase>>
    PROVE  HoldsOnePacket' /\ (phase' = "tail" => PayloadDone')
<1>1. /\ container' = container /\ seekLeft' = seekLeft /\ remaining' = remaining
      /\ setupTaken' = setupTaken /\ header' = header /\ codec' = codec /\ phase' = phase
      /\ Unread' = Unread /\ PacketsHere' = PacketsHere /\ PayloadDone' = PayloadDone
  BY DEF streamVars, bufferVars, payloadVars, codecVars, Unread, PacketsHere, ReadAt,
         PayloadDone
<1>2. \A i : Size(i)' = Size(i) /\ AnswerTo(i)' = AnswerTo(i)
  BY <1>1 DEF Size, AnswerTo, BlockAnswer
<1> QED
  BY <1>1, <1>2 DEF HeldInv, HoldsOnePacket

\* Every step keeps what is held below one packet.
LEMMA HeldStep == HeldInv /\ [Next]_vars => HeldInv'
<1> SUFFICES ASSUME HeldInv, [Next]_vars PROVE HeldInv'
  OBVIOUS
<1>1. SessionInv /\ SessionInv'
  <2>1. ASSUME UNCHANGED vars PROVE SessionInv'
    BY <2>1, StutterKeeps DEF vars, callVars, HeldInv
  <2> QED
    BY <2>1, CallKeeps, RunKeeps DEF HeldInv, Next
<1>2. ASSUME phase' # "idle", phase' # "tail" PROVE HeldInv'
  BY <1>1, <1>2 DEF HeldInv, HoldsOnePacket
<1>3. ASSUME HoldsOnePacket', phase' = "idle" PROVE HeldInv'
  BY <1>1, <1>3 DEF HeldInv
<1>4. CASE UNCHANGED vars \/ PushEmpty \/ CallAfterFinish
  <2>1. UNCHANGED <<streamVars, codecVars, phase>>
    BY <1>4 DEF vars, callVars, PushEmpty, CallAfterFinish
  <2> QED
    BY <1>1, <2>1, HeldStutters DEF HeldInv
<1>5. CASE Finish \/ \E count \in 1 .. container.length - received : PushBytes(count)
  BY <1>2, <1>5 DEF Finish, PushBytes, StartRun
<1>6. CASE ResolveHeader
  BY <1>2, <1>6 DEF ResolveHeader
<1>7. CASE HeaderUnresolved
  <2>1. ~header' /\ phase' = "idle"
    <3>1. ~header
      BY <1>1, <1>7 DEF HeaderUnresolved, SessionInv, PhaseInv
    <3> QED
      BY <1>7, <3>1 DEF HeaderUnresolved, Shortfall, Return, streamVars
  <2> QED
    BY <1>3, <2>1 DEF HoldsOnePacket
<1>8. CASE SkipSeek
  BY <1>2, <1>8 DEF SkipSeek, callVars
<1>9. CASE AwaitBytes
  <2>1. phase' = "idle"
    BY <1>9 DEF AwaitBytes, Shortfall, Return
  <2> QED
    BY <1>1, <1>3, <1>9, <2>1, AwaitHolds
<1>10. ASSUME NEW i \in PacketsHere, RefuseSetup(i) \/ RefusePacket(i) PROVE HeldInv'
  <2>1. phase' = "idle"
    BY <1>10 DEF RefuseSetup, RefusePacket, Return
  <2> QED
    BY <1>1, <1>3, <1>10, <2>1, RefusalHolds
<1>11. ASSUME NEW i \in PacketsHere, OpenCodec(i) \/ DecodeBlock(i) PROVE HeldInv'
  BY <1>2, <1>11 DEF OpenCodec, DecodeBlock, callVars
<1>12. CASE PayloadWalked
  <2>1. PayloadDone' /\ phase' = "idle"
    BY <1>12 DEF PayloadWalked, Return, PayloadDone, streamVars, payloadVars
  <2> QED
    BY <1>3, <2>1 DEF HoldsOnePacket
<1>13. CASE FlushPending
  <2>1. PayloadDone' /\ phase' = "tail"
    BY <1>13 DEF FlushPending, PayloadDone, streamVars, payloadVars
  <2> QED
    BY <1>1, <2>1 DEF HeldInv, HoldsOnePacket
<1>14. CASE ReleaseTail
  <2>1. PayloadDone' /\ phase' = "idle"
    BY <1>14 DEF HeldInv, ReleaseTail, PayloadDone, streamVars, payloadVars
  <2> QED
    BY <1>3, <2>1 DEF HoldsOnePacket
<1> QED
  BY <1>4, <1>5, <1>6, <1>7, <1>8, <1>9, <1>10, <1>11, <1>12, <1>13, <1>14
     DEF Next, Call, Run

\* Between two calls a session holds less than the packet it waits for, unless
\* it refused that packet: for every file and every chunking
\* (decoder.rs:91-96).
THEOREM SessionHoldsOnePacket == Spec => []HoldsOnePacket
<1>1. Init => HeldInv
  <2>1. Init => phase = "idle" /\ ~header
    BY DEF Init, StreamInit
  <2> QED
    BY <2>1, InitSession DEF HeldInv, HoldsOnePacket
<1>2. HeldInv => HoldsOnePacket
  BY DEF HeldInv
<1> QED
  BY <1>1, <1>2, HeldStep, PTL DEF Spec

-----------------------------------------------------------------------------
(* The session implements its contract: the file.                          *)

\* The contract reads a file and its timeline as the session does.
LEMMA SameFile ==
    ASSUME NEW c
    PROVE  /\ \A n : Contract!HeaderAnswer(c, n) = HeaderAnswer(c, n)
           /\ Contract!SetupAnswer(c) = SetupAnswer(c)
           /\ \A i : /\ Contract!PacketAnswer(c, i) = PacketAnswer(c, i)
                     /\ Contract!PacketEnd(c, i) = PacketEnd(c, i)
<1>1. \A n : Contract!HeaderAnswer(c, n) = HeaderAnswer(c, n)
  BY DEF Contract!HeaderAnswer, HeaderAnswer, Contract!Check, Check,
         Contract!FirstRefusal, FirstRefusal
<1>2. Contract!SetupAnswer(c) = SetupAnswer(c)
  BY DEF Contract!SetupAnswer, SetupAnswer, Contract!Check, Check,
         Contract!FirstRefusal, FirstRefusal
<1>3. \A i : Contract!PacketAnswer(c, i) = PacketAnswer(c, i)
  BY DEF Contract!PacketAnswer, PacketAnswer, Contract!Check, Check,
         Contract!FirstRefusal, FirstRefusal
<1>4. \A i : Contract!PacketEnd(c, i) = PacketEnd(c, i)
  BY DEF Contract!PacketEnd, PacketEnd, Contract!PacketSize, PacketSize,
         Contract!PrefixSize, PrefixSize
<1> QED
  BY <1>1, <1>2, <1>3, <1>4

LEMMA SameTimeline ==
    ASSUME NEW ms, NEW t, NEW k
    PROVE  /\ Contract!Centre(ms, k) = Centre(ms, k)
           /\ Contract!RightHalf(ms, t, k) = RightHalf(ms, t, k)
           /\ \A i : Contract!WholeTimeline(ms, t, k, i) = WholeTimeline(ms, t, k, i)
<1>1. \A j : Contract!Centre(ms, j) = Centre(ms, j)
  BY DEF Contract!Centre, Centre, Contract!BlockSize, BlockSize
<1>2. \A j : Contract!SpansOf(ms, t, j) = SpansOf(ms, t, j)
  BY DEF Contract!SpansOf, SpansOf, Contract!Spans, Spans, Contract!FollowingOf,
         FollowingOf, Contract!BlockSize, BlockSize
<1>3. \A s : Contract!FlattenSeq(s) = FlattenSeq(s)
  BY DEF Contract!FlattenSeq, FlattenSeq
<1>4. \A j, i : Contract!ContributionOf(ms, t, j, i) = ContributionOf(ms, t, j, i)
  BY <1>1, <1>2 DEF Contract!ContributionOf, ContributionOf, Contract!Windowed,
     Windowed, Contract!BlockSize, BlockSize, Contract!Contribution, Contribution
<1>5. \A i : Contract!WholeTimeline(ms, t, k, i) = WholeTimeline(ms, t, k, i)
  BY <1>3, <1>4 DEF Contract!WholeTimeline, WholeTimeline
<1>6. Contract!RightHalf(ms, t, k) = RightHalf(ms, t, k)
  BY <1>2 DEF Contract!RightHalf, RightHalf, Contract!BlockSize, BlockSize
<1> QED
  BY <1>1, <1>5, <1>6

\* A resolved header stays resolved.
LEMMA HeaderStays ==
    ASSUME NEW c \in Containers, NEW n \in Nat, NEW m \in Nat, n <= m,
           HeaderAnswer(c, n) = "Ok"
    PROVE  HeaderAnswer(c, m) = "Ok"
<1>1. RiffHeader \in Nat /\ c.fmtEnd \in Nat /\ c.dataAt \in Nat
  BY ContainersAssumption
<1>2. /\ n >= RiffHeader /\ n >= c.fmtEnd /\ n >= c.dataAt
      /\ c.riff /\ c.fmt = "Ok" /\ c.seek <= c.dataSize
  BY HeaderOk
<1>3. m >= RiffHeader /\ m >= c.fmtEnd /\ m >= c.dataAt
  BY <1>1, <1>2
<1> QED
  BY <1>2, <1>3, HeaderOk

\* The blocks of a file: one for each packet behind the setup packet.
LEMMA BlocksOfFile ==
    ASSUME NEW c \in Containers, NEW ms, ms = Contract!AudioModes(c)
    PROVE  /\ Len(c.packets) \in Nat /\ ms \in Seq(Modes)
           /\ Len(ms) = IF Len(c.packets) = 0 THEN 0 ELSE Len(c.packets) - 1
           /\ \A k \in 1 .. Len(ms) : /\ k + 1 \in DOMAIN c.packets
                                      /\ ms[k] = c.packets[k + 1].mode
<1> DEFINE n == Len(c.packets)
           blocks == IF n = 0 THEN 0 ELSE n - 1
<1>1. n \in Nat /\ DOMAIN c.packets = 1 .. n
  BY PacketsApart
<1>2. ms = [k \in 1 .. n - 1 |-> c.packets[k + 1].mode]
  BY DEF Contract!AudioModes
<1>3. \A k \in 1 .. n - 1 : k + 1 \in 1 .. n
  BY <1>1
<1>4. \A k \in 1 .. n - 1 : c.packets[k + 1].mode \in Modes
  BY <1>1, <1>3, ContainersAssumption DEF Modes
<1>5. blocks \in Nat /\ 1 .. n - 1 = 1 .. blocks
  <2>1. CASE n = 0
    BY <2>1
  <2>2. CASE n # 0
    BY <1>1, <2>2
  <2> QED
    BY <2>1, <2>2
<1> HIDE DEF n, blocks
<1>6. ms \in [1 .. blocks -> Modes]
  BY <1>2, <1>4, <1>5
<1>7. ms \in Seq(Modes) /\ Len(ms) = blocks
  BY <1>5, <1>6, LenOfFunction
<1> QED
  BY <1>1, <1>2, <1>3, <1>5, <1>7 DEF n, blocks

\* A session that was handed n bytes takes packet i.
Takes(c, n, i) ==
    /\ PacketEnd(c, i) <= n /\ PacketEnd(c, i) <= c.dataAt + c.dataSize
    /\ Contract!Answer(c, i) = "Ok"

\* The contract accepts what a walk takes up to the first packet it does not.
LEMMA AcceptedIs ==
    ASSUME NEW c \in Containers, NEW n \in Nat, HeaderAnswer(c, n) = "Ok",
           NEW k \in 0 .. Len(c.packets), \A i \in 1 .. k : Takes(c, n, i),
           k < Len(c.packets) => ~Takes(c, n, k + 1)
    PROVE  Contract!Accepted(c, n) = k
<1> DEFINE accepted == {i \in DOMAIN c.packets :
                \A j \in 1 .. i : Contract!Whole(c, n, j) /\ Contract!Answer(c, j) = "Ok"}
<1>1. /\ Len(c.packets) \in Nat /\ DOMAIN c.packets = 1 .. Len(c.packets)
      /\ c.dataAt + c.dataSize \in Nat
      /\ \A i \in 1 .. Len(c.packets) : PacketEnd(c, i) \in Nat
  BY PacketsApart, ContainersAssumption
<1>2. ASSUME NEW i \in 1 .. Len(c.packets)
      PROVE  Takes(c, n, i) <=>
                Contract!Whole(c, n, i) /\ Contract!Answer(c, i) = "Ok"
  <2>1. \A e, a, b \in Nat : e <= Least(a, b) <=> e <= a /\ e <= b
    BY DEF Least
  <2>2. Contract!Whole(c, n, i) <=> PacketEnd(c, i) <= Least(n, c.dataAt + c.dataSize)
    BY SameFile DEF Contract!Whole, Contract!Least, Least
  <2> QED
    BY <1>1, <2>1, <2>2 DEF Takes
<1>3. accepted = {i \in 1 .. Len(c.packets) : \A j \in 1 .. i : Takes(c, n, j)}
  <2>1. \A i \in 1 .. Len(c.packets) : \A j \in 1 .. i : j \in 1 .. Len(c.packets)
    BY <1>1
  <2> QED
    BY <1>1, <1>2, <2>1
<1> HIDE DEF accepted
<1>4. accepted = 1 .. k
  <2>1. ASSUME NEW i \in 1 .. k PROVE i \in accepted
    <3>1. i \in 1 .. Len(c.packets) /\ \A j \in 1 .. i : j \in 1 .. k
      BY <1>1
    <3> QED
      BY <1>3, <3>1
  <2>2. ASSUME NEW i \in accepted PROVE i \in 1 .. k
    <3>1. i \in 1 .. Len(c.packets) /\ \A j \in 1 .. i : Takes(c, n, j)
      BY <1>3
    <3>2. CASE i <= k
      BY <1>1, <3>1, <3>2
    <3>3. CASE ~(i <= k)
      <4>1. k < Len(c.packets) /\ k + 1 \in 1 .. i
        BY <1>1, <3>1, <3>3
      <4> QED
        BY <3>1, <4>1
    <3> QED
      BY <3>2, <3>3
  <2> QED
    BY <2>1, <2>2
<1>5. Cardinality(1 .. k) = k
  <2>1. /\ k \in Nat /\ 1 \in Int /\ k \in Int
        /\ k - 1 + 1 = k /\ (1 <= k \/ k = 0)
    BY <1>1
  <2> QED
    BY <2>1, FS_Interval
<1>6. Contract!Accepted(c, n) = Cardinality(accepted)
  BY SameFile DEF Contract!Accepted, accepted, Contract!Cardinality, Cardinality
<1> QED
  BY <1>4, <1>5, <1>6

\* How the contract answers once the header is resolved.
LEMMA OutcomeIs ==
    ASSUME NEW c \in Containers, NEW n \in Nat, HeaderAnswer(c, n) = "Ok", NEW fin \in BOOLEAN
    PROVE  Contract!Outcome(c, n, fin) =
              IF Contract!Exhausted(c, n)
              THEN IF ~fin THEN "Ok"
                   ELSE IF c.packets = <<>> THEN "MissingSetup"
                   ELSE IF Contract!Synthesized(c, n, fin) >= c.total THEN "Ok"
                   ELSE "FrameCountMismatch"
              ELSE IF /\ Contract!Accepted(c, n) + 1 \in DOMAIN c.packets
                      /\ Contract!Whole(c, n, Contract!Accepted(c, n) + 1)
              THEN Contract!Answer(c, Contract!Accepted(c, n) + 1)
              ELSE IF fin THEN "Truncated" ELSE "Ok"
<1>1. Contract!HeaderAnswer(c, n) = "Ok"
  BY SameFile
<1> QED
  BY <1>1 DEF Contract!Outcome

\* What the contract hands back, sample by sample.
LEMMA FramesAre ==
    ASSUME NEW c \in Containers, NEW n \in Nat, NEW fin \in BOOLEAN,
           NEW ms, ms = Contract!AudioModes(c), NEW T, NEW out \in Seq(T),
           NEW synthesized \in Nat, Contract!Synthesized(c, n, fin) = synthesized,
           Len(out) = Least(c.total, synthesized),
           \A i \in 1 .. Len(out) : out[i] = WholeTimeline(ms, 1, Len(ms), i - 1)
    PROVE  Contract!Frames(c, n, fin) = out
<1>1. Len(out) \in Nat /\ DOMAIN out = 1 .. Len(out) /\ out = [i \in DOMAIN out |-> out[i]]
  BY LenProperties
<1>2. Contract!Frames(c, n, fin)
        = [i \in 1 .. Len(out) |-> Contract!WholeTimeline(ms, 1, Len(ms), i - 1)]
  <2>1. Contract!Least(c.total, synthesized) = Len(out)
    BY DEF Contract!Least, Least
  <2> QED
    BY <2>1 DEF Contract!Frames
<1>3. \A i \in 1 .. Len(out) :
         Contract!WholeTimeline(ms, 1, Len(ms), i - 1) = out[i]
  BY SameTimeline
<1>4. [i \in 1 .. Len(out) |-> Contract!WholeTimeline(ms, 1, Len(ms), i - 1)]
        = [i \in 1 .. Len(out) |-> out[i]]
  BY <1>3
<1> QED
  BY <1>1, <1>2, <1>4

-----------------------------------------------------------------------------
(* The session implements its contract: the walk.                          *)

\* Packets accepted so far, the setup packet among them.
Taken == IF setupTaken THEN audioPackets + 1 ELSE 0

\* Where the first k packets of a file end.
EndOf(c, k) == IF k = 0 THEN c.dataAt + c.seek ELSE PacketEnd(c, k)

\* The walk took exactly the packets before its read position, in order, and
\* each of them was whole and accepted.
WalkInv ==
    /\ header => HeaderAnswer(container, received) = "Ok"
    /\ ~setupTaken => audioPackets = 0
    /\ Taken <= Len(container.packets)
    /\ \A i \in 1 .. Taken : Takes(container, received, i)
    /\ header => ReadAt + seekLeft = EndOf(container, Taken)

\* Where the walk stands.
LEMMA WalkPlace ==
    ASSUME StreamTypeOK, StreamInv, WalkInv
    PROVE  /\ container \in Containers /\ Taken \in Nat
           /\ received \in Nat /\ Unread \in Nat /\ ReadAt \in Nat
           /\ ReadAt = received - Unread
           /\ remaining \in Nat /\ seekLeft \in Nat
           /\ container.dataAt + container.dataSize \in Nat
           /\ Len(container.packets) \in Nat
           /\ header =>
                 /\ ReadAt + remaining = container.dataAt + container.dataSize
                 /\ ReadAt + seekLeft = EndOf(container, Taken)
                 /\ container.seek <= container.dataSize
<1>1. container \in Containers /\ remaining \in Nat /\ seekLeft \in Nat
  BY DEF StreamTypeOK
<1>2. /\ container.length \in Nat /\ container.dataAt \in Nat /\ container.dataSize \in Nat
      /\ Len(container.packets) \in Nat
  BY <1>1, ContainersAssumption, PacketsApart
<1>3. received \in Nat /\ Unread \in Nat /\ Unread <= received
  BY <1>2 DEF StreamTypeOK, StreamInv, Unread
<1>4. ReadAt \in Nat /\ ReadAt = received - Unread
  BY <1>3 DEF ReadAt
<1>5. Taken \in Nat
  BY DEF StreamTypeOK, Taken
<1>6. header => /\ ReadAt + remaining = container.dataAt + container.dataSize
                /\ ReadAt + seekLeft = EndOf(container, Taken)
                /\ container.seek <= container.dataSize
  <2> SUFFICES ASSUME header
               PROVE  /\ ReadAt + remaining = container.dataAt + container.dataSize
                      /\ ReadAt + seekLeft = EndOf(container, Taken)
                      /\ container.seek <= container.dataSize
    OBVIOUS
  <2>1. ReadAt = container.dataAt + container.dataSize - remaining
    BY DEF StreamInv, FramingInStep
  <2>2. container.seek <= container.dataSize
    BY HeaderOk DEF WalkInv
  <2> QED
    BY <1>1, <1>2, <1>4, <2>1, <2>2 DEF WalkInv
<1> QED
  BY <1>1, <1>2, <1>3, <1>4, <1>5, <1>6

\* The next packet is where the packets taken end.
LEMMA NextAt ==
    ASSUME StreamTypeOK, StreamInv, WalkInv, header, Taken < Len(container.packets)
    PROVE  /\ Taken + 1 \in DOMAIN container.packets
           /\ container.packets[Taken + 1].at = EndOf(container, Taken)
           /\ EndOf(container, Taken) < PacketEnd(container, Taken + 1)
           /\ EndOf(container, Taken) \in Nat /\ PacketEnd(container, Taken + 1) \in Nat
<1>1. /\ container \in Containers /\ Taken \in Nat /\ Len(container.packets) \in Nat
      /\ container.seek <= container.dataSize
  BY WalkPlace
<1>2. PICK i \in DOMAIN container.packets : i = Taken + 1
  BY <1>1, PacketsApart
<1>3. /\ container.packets[i].at \in Nat /\ PacketEnd(container, i) \in Nat
      /\ container.packets[i].at < PacketEnd(container, i)
  BY <1>1, <1>2, PacketsApart
<1>4. container.packets[i].at = EndOf(container, Taken)
  <2>1. CASE Taken = 0
    <3>1. i = 1
      BY <1>2, <2>1
    <3> QED
      BY <1>1, <1>2, <2>1, <3>1, PacketsAssumption DEF EndOf
  <2>2. CASE Taken # 0
    <3>1. i # 1 /\ i - 1 = Taken
      BY <1>1, <1>2, <2>2
    <3>2. container.packets[i].at = PacketEnd(container, i - 1)
      BY <1>1, <1>2, <3>1, PacketsAssumption
    <3> QED
      BY <2>2, <3>1, <3>2 DEF EndOf
  <2> QED
    BY <2>1, <2>2
<1> QED
  BY <1>2, <1>3, <1>4

\* Behind the seek table the packet at the read position is the next one.
LEMMA NextPacket ==
    ASSUME StreamTypeOK, StreamInv, WalkInv, header, seekLeft = 0
    PROVE  /\ \A i \in PacketsHere : i = Taken + 1
           /\ Taken < Len(container.packets) => Taken + 1 \in PacketsHere
<1> DEFINE at(i) == container.packets[i].at
           n == Len(container.packets)
<1>1. /\ container \in Containers /\ Taken \in Nat /\ n \in Nat
      /\ ReadAt = EndOf(container, Taken) /\ container.seek <= container.dataSize
      /\ Taken <= n
  BY WalkPlace DEF WalkInv
<1>2. /\ DOMAIN container.packets = 1 .. n
      /\ \A i \in 1 .. n : /\ at(i) \in Nat /\ at(i) < PacketEnd(container, i)
                           /\ PacketEnd(container, i) \in Nat
      /\ \A i, j \in 1 .. n : i < j => PacketEnd(container, i) <= at(j)
  BY <1>1, PacketsApart
<1>3. \A i : i \in PacketsHere <=> i \in 1 .. n /\ at(i) = ReadAt
  BY <1>2 DEF PacketsHere
<1>4. ASSUME Taken < n PROVE Taken + 1 \in PacketsHere
  BY <1>1, <1>2, <1>3, <1>4, NextAt
<1>5. ASSUME NEW i \in PacketsHere PROVE i = Taken + 1
  <2>1. i \in 1 .. n /\ at(i) = ReadAt
    BY <1>3
  <2>2. CASE Taken < n
    BY <1>4, <2>2, OnePacketHere
  <2>3. CASE ~(Taken < n)
    <3>1. Taken \in 1 .. n /\ i <= Taken
      BY <1>1, <2>1, <2>3
    <3>2. at(i) = PacketEnd(container, Taken)
      BY <1>1, <2>1, <3>1 DEF EndOf
    <3>3. PacketEnd(container, i) <= PacketEnd(container, Taken)
      <4>1. CASE i = Taken
        BY <1>2, <2>1, <4>1
      <4>2. CASE i # Taken
        <5>1. i < Taken
          BY <1>1, <2>1, <3>1, <4>2
        <5>2. PacketEnd(container, i) <= at(Taken) /\ at(Taken) < PacketEnd(container, Taken)
          BY <1>2, <2>1, <3>1, <5>1
        <5>3. /\ PacketEnd(container, i) \in Nat /\ at(Taken) \in Nat
              /\ PacketEnd(container, Taken) \in Nat
          BY <1>2, <2>1, <3>1
        <5> HIDE DEF at
        <5> QED
          BY <5>2, <5>3
      <4> QED
        BY <4>1, <4>2
    <3>4. at(i) < PacketEnd(container, i) /\ at(i) \in Nat /\ PacketEnd(container, i) \in Nat
      BY <1>2, <2>1
    <3> HIDE DEF at
    <3> QED
      BY <3>2, <3>3, <3>4
  <2> QED
    BY <2>2, <2>3
<1> QED
  BY <1>4, <1>5

\* The packet at the read position can be peeked when all of it was pushed and
\* it lies inside the data payload.
LEMMA PeekableIsWhole ==
    ASSUME StreamTypeOK, StreamInv, WalkInv, header, seekLeft = 0, NEW i \in PacketsHere
    PROVE  /\ Size(i) \in Nat /\ PacketEnd(container, i) = ReadAt + Size(i)
           /\ Peekable(i) <=> /\ PacketEnd(container, i) <= received
                              /\ PacketEnd(container, i) <= container.dataAt + container.dataSize
<1>1. /\ container \in Containers /\ ReadAt \in Nat /\ received \in Nat /\ Unread \in Nat
      /\ ReadAt = received - Unread /\ remaining \in Nat
      /\ ReadAt + remaining = container.dataAt + container.dataSize
  BY WalkPlace
<1>2. i \in DOMAIN container.packets /\ container.packets[i].at = ReadAt
  BY DEF PacketsHere
<1>3. Size(i) \in Nat /\ PrefixSize <= Size(i) /\ PrefixSize = 2
  BY <1>1, <1>2, PacketsApart DEF Size, PrefixSize
<1>4. PacketEnd(container, i) = ReadAt + Size(i)
  BY <1>2 DEF PacketEnd, Size
<1>5. Peekable(i) <=> Size(i) <= remaining /\ Size(i) <= Unread
  BY <1>1, <1>3 DEF Peekable
<1> QED
  BY <1>1, <1>3, <1>4, <1>5

\* What the walk took stays taken while bytes come in.
LEMMA TakenStays ==
    ASSUME NEW c \in Containers, NEW n \in Nat, NEW m \in Nat, n <= m,
           NEW i \in DOMAIN c.packets, Takes(c, n, i)
    PROVE  Takes(c, m, i)
<1>1. PacketEnd(c, i) \in Nat
  BY PacketsApart
<1> QED
  BY <1>1 DEF Takes

\* A step that accepts no packet and brings no byte of the payload keeps the
\* walk when it keeps the place.
LEMMA WalkKept ==
    ASSUME StreamTypeOK, StreamInv, WalkInv, container' = container,
           received' \in Nat, received <= received',
           setupTaken' = setupTaken, audioPackets' = audioPackets,
           header' => HeaderAnswer(container, received') = "Ok",
           header' => ReadAt' + seekLeft' = EndOf(container, Taken)
    PROVE  WalkInv'
<1>1. Taken' = Taken
  BY DEF Taken
<1>2. container \in Containers /\ received \in Nat /\ Taken \in Nat
      /\ Len(container.packets) \in Nat /\ Taken <= Len(container.packets)
  BY WalkPlace DEF WalkInv
<1>3. ASSUME NEW i \in 1 .. Taken PROVE Takes(container, received', i)
  <2>1. i \in DOMAIN container.packets
    BY <1>2, PacketsApart
  <2>2. Takes(container, received, i)
    BY DEF WalkInv
  <2> QED
    BY <1>2, <2>1, <2>2, TakenStays
<1>4. EndOf(container, Taken)' = EndOf(container, Taken)
  BY <1>1 DEF EndOf
<1> QED
  BY <1>1, <1>2, <1>3, <1>4 DEF WalkInv

\* Resolving the header starts the walk behind it.
LEMMA ResolveWalks ==
    ASSUME SessionInv, WalkInv, ResolveHeader
    PROVE  WalkInv'
<1>1. /\ StreamTypeOK /\ StreamInv /\ ~header /\ phase = "resolve"
      /\ HeaderAnswer(container, Unread) = "Ok" /\ TakeHeader
  BY DEF SessionInv, TypeOK, PhaseInv, ResolveHeader, HeaderNow
<1>2. /\ container' = container /\ setupTaken' = setupTaken /\ seekLeft' = container.seek
      /\ audioPackets' = audioPackets /\ remaining' = container.dataSize /\ header'
  BY <1>1 DEF TakeHeader
<1>3. StreamTypeOK' /\ StreamInv'
  BY <1>1, TakeHeaderInv
<1>4. received' = received /\ Unread = received
  BY <1>1 DEF TakeHeader, Consume, StreamInv, StreamTypeOK, Unread
<1>5. container \in Containers /\ received \in Nat
  BY <1>1, WalkPlace
<1>6. ReadAt' = container.dataAt
  <2>1. ReadAt' = container.dataAt + container.dataSize - container.dataSize
    BY <1>2, <1>3 DEF StreamInv, FramingInStep
  <2>2. container.dataAt \in Nat /\ container.dataSize \in Nat
    BY <1>5, ContainersAssumption
  <2> QED
    BY <2>1, <2>2
<1>7. Taken = 0
  BY <1>1 DEF StreamInv, Taken
<1>8. ReadAt' + seekLeft' = EndOf(container, Taken)
  BY <1>2, <1>6, <1>7 DEF EndOf
<1> QED
  BY <1>1, <1>2, <1>4, <1>5, <1>8, WalkKept

\* Skipping a part of the seek table moves the read position towards its end.
LEMMA SkipWalks ==
    ASSUME SessionInv, WalkInv, SkipSeek
    PROVE  WalkInv'
<1>1. /\ StreamTypeOK /\ StreamInv /\ header /\ SkipSeekTable
  BY DEF SessionInv, TypeOK, PhaseInv, SkipSeek
<1> DEFINE skip == Least(seekLeft, Unread)
<1>2. /\ container' = container /\ setupTaken' = setupTaken /\ header' = header
      /\ audioPackets' = audioPackets /\ seekLeft' = seekLeft - skip
      /\ Consume(skip) /\ received' = received
  BY <1>1 DEF SkipSeekTable, Consume
<1>3. /\ received \in Nat /\ Unread \in Nat /\ ReadAt = received - Unread /\ seekLeft \in Nat
      /\ ReadAt + seekLeft = EndOf(container, Taken)
  BY <1>1, WalkPlace
<1>4. skip \in Nat /\ skip <= Unread
  BY <1>3 DEF Least
<1> HIDE DEF skip
<1>5. Unread' = Unread - skip
  BY <1>1, <1>2, <1>4, ConsumeKeeps
<1>6. ReadAt' + seekLeft' = ReadAt + seekLeft
  BY <1>2, <1>3, <1>4, <1>5 DEF ReadAt
<1>7. header' => HeaderAnswer(container, received') = "Ok"
  BY <1>2 DEF WalkInv
<1> QED
  BY <1>1, <1>2, <1>3, <1>6, <1>7, WalkKept

\* Committing the next packet, accepted, moves the read position behind it.
LEMMA CommitWalks ==
    ASSUME StreamTypeOK, StreamInv, WalkInv, header, NEW i, Peekable(i), CommitPacket(i),
           Contract!Answer(container, i) = "Ok"
    PROVE  /\ i = Taken + 1 /\ i \in DOMAIN container.packets
           /\ Taken' = Taken + 1 /\ WalkInv'
<1>1. /\ container \in Containers /\ received \in Nat /\ Unread \in Nat
      /\ ReadAt = received - Unread /\ ReadAt \in Nat /\ Taken \in Nat
      /\ Len(container.packets) \in Nat /\ Taken <= Len(container.packets)
  BY WalkPlace DEF WalkInv
<1>2. seekLeft = 0 /\ i \in PacketsHere
  BY DEF Peekable
<1>3. i = Taken + 1 /\ i \in DOMAIN container.packets
  BY <1>2, NextPacket DEF PacketsHere
<1>4. Size(i) \in Nat /\ PacketEnd(container, i) = ReadAt + Size(i)
      /\ PacketEnd(container, i) <= received
      /\ PacketEnd(container, i) <= container.dataAt + container.dataSize
  BY <1>2, PeekableIsWhole
<1>5. /\ Consume(Size(i)) /\ container' = container /\ header' = header
      /\ seekLeft' = seekLeft /\ setupTaken' = TRUE /\ received' = received
      /\ audioPackets' = IF setupTaken THEN audioPackets + 1 ELSE audioPackets
  BY DEF CommitPacket, Consume
<1>6. Taken' = Taken + 1
  <2>1. audioPackets \in Nat /\ (~setupTaken => audioPackets = 0)
    BY DEF StreamTypeOK, WalkInv
  <2> QED
    BY <1>5, <2>1 DEF Taken
<1>7. Size(i) <= Unread
  BY DEF Peekable
<1>8. Unread' = Unread - Size(i)
  BY <1>4, <1>5, <1>7, ConsumeKeeps
<1>9. ReadAt' = ReadAt + Size(i)
  BY <1>1, <1>4, <1>5, <1>8 DEF ReadAt
<1>10. Taken' <= Len(container.packets)
  <2>1. i \in 1 .. Len(container.packets)
    BY <1>1, <1>3, PacketsApart
  <2> QED
    BY <1>3, <1>6, <2>1
<1>11. ASSUME NEW j \in 1 .. Taken + 1 PROVE Takes(container, received, j)
  <2>1. CASE j = i
    BY <1>4, <2>1 DEF Takes
  <2>2. CASE j # i
    <3>1. j \in 1 .. Taken
      BY <1>1, <1>3, <2>2
    <3> QED
      BY <3>1 DEF WalkInv
  <2> QED
    BY <2>1, <2>2
<1>12. EndOf(container, Taken)' = PacketEnd(container, i)
  BY <1>1, <1>3, <1>5, <1>6 DEF EndOf
<1>13. ReadAt' + seekLeft' = PacketEnd(container, i)
  BY <1>1, <1>2, <1>4, <1>5, <1>9
<1>14. HeaderAnswer(container, received) = "Ok"
  BY DEF WalkInv
<1>15. ~setupTaken' => audioPackets' = 0
  BY <1>5
<1>16. WalkInv'
  BY <1>5, <1>6, <1>10, <1>11, <1>12, <1>13, <1>14, <1>15 DEF WalkInv
<1> QED
  BY <1>3, <1>6, <1>16

\* The session answers the packet the contract asks about.
LEMMA SameAnswer ==
    ASSUME SessionInv, WalkInv, phase = "walk", NEW i \in PacketsHere, seekLeft = 0
    PROVE  AnswerTo(i) = Contract!Answer(container, i)
<1>1. /\ StreamTypeOK /\ StreamInv /\ header /\ (setupTaken <=> codec)
      /\ setupTaken \in BOOLEAN
  BY DEF SessionInv, TypeOK, PhaseInv, StreamTypeOK
<1>2. i = Taken + 1
  BY <1>1, NextPacket
<1>3. audioPackets \in Nat
  BY <1>1 DEF StreamTypeOK
<1>4. CASE setupTaken
  <2>1. i # 1
    BY <1>2, <1>3, <1>4 DEF Taken
  <2>2. AnswerTo(i) = PacketAnswer(container, i)
    BY <1>1, <1>4 DEF AnswerTo, BlockAnswer
  <2> QED
    BY <2>1, <2>2, SameFile DEF Contract!Answer
<1>5. CASE ~setupTaken
  <2>1. i = 1
    BY <1>2, <1>5 DEF Taken
  <2> QED
    BY <1>5, <2>1, SameFile DEF AnswerTo, Contract!Answer
<1> QED
  BY <1>4, <1>5

\* A packet the session accepts is the next one of the walk.
LEMMA AcceptWalks ==
    ASSUME SessionInv, WalkInv, NEW i, OpenCodec(i) \/ DecodeBlock(i)
    PROVE  /\ i = Taken + 1 /\ i \in DOMAIN container.packets
           /\ Taken' = Taken + 1 /\ WalkInv'
<1>1. /\ StreamTypeOK /\ StreamInv /\ header /\ phase = "walk"
      /\ Peekable(i) /\ CommitPacket(i) /\ AnswerTo(i) = "Ok"
  BY DEF SessionInv, TypeOK, PhaseInv, OpenCodec, DecodeBlock, AnswerTo
<1>2. i \in PacketsHere /\ seekLeft = 0
  BY <1>1 DEF Peekable
<1> QED
  BY <1>1, <1>2, SameAnswer, CommitWalks

\* Every step keeps the walk.
LEMMA WalkStep == SessionInv /\ WalkInv /\ [Next]_vars => WalkInv'
<1> SUFFICES ASSUME SessionInv, WalkInv, [Next]_vars PROVE WalkInv'
  OBVIOUS
<1>1. StreamTypeOK /\ StreamInv
  BY DEF SessionInv, TypeOK
<1>2. ASSUME UNCHANGED streamVars PROVE WalkInv'
  BY <1>2 DEF WalkInv, Taken, ReadAt, Unread, streamVars, bufferVars, payloadVars
<1>3. ASSUME NEW count \in 1 .. container.length - received, PushBytes(count)
      PROVE  WalkInv'
  <2>1. /\ container \in Containers /\ received \in Nat /\ container.length \in Nat
        /\ pendingLen \in Nat /\ cursor \in Nat
    BY <1>1, ContainersAssumption DEF StreamTypeOK
  <2>2. /\ received' = received + count /\ pendingLen' = pendingLen + count
        /\ cursor' = cursor /\ container' = container /\ header' = header
        /\ seekLeft' = seekLeft /\ setupTaken' = setupTaken
        /\ audioPackets' = audioPackets
    BY <1>3 DEF PushBytes, Accumulate, payloadVars
  <2>3. received' \in Nat /\ received <= received'
    BY <2>1, <2>2
  <2>4. ReadAt' = ReadAt
    BY <2>1, <2>2 DEF ReadAt, Unread
  <2>5. header' => HeaderAnswer(container, received') = "Ok"
    BY <2>1, <2>2, <2>3, HeaderStays DEF WalkInv
  <2>6. header' => ReadAt' + seekLeft' = EndOf(container, Taken)
    BY <2>2, <2>4 DEF WalkInv
  <2> QED
    BY <1>1, <2>2, <2>3, <2>5, <2>6, WalkKept
<1>4. CASE ResolveHeader
  BY <1>4, ResolveWalks
<1>5. CASE SkipSeek
  BY <1>5, SkipWalks
<1>6. ASSUME NEW i \in PacketsHere, OpenCodec(i) \/ DecodeBlock(i) PROVE WalkInv'
  BY <1>6, AcceptWalks
<1>7. CASE UNCHANGED vars \/ PushEmpty \/ CallAfterFinish \/ Finish
  BY <1>2, <1>7 DEF vars, PushEmpty, CallAfterFinish, Finish
<1>8. CASE \/ HeaderUnresolved \/ AwaitBytes \/ PayloadWalked \/ FlushPending
           \/ ReleaseTail
  BY <1>2, <1>8 DEF HeaderUnresolved, AwaitBytes, PayloadWalked, FlushPending, ReleaseTail
<1>9. ASSUME NEW i \in PacketsHere, RefuseSetup(i) \/ RefusePacket(i) PROVE WalkInv'
  BY <1>2, <1>9 DEF RefuseSetup, RefusePacket
<1> QED
  BY <1>3, <1>4, <1>5, <1>6, <1>7, <1>8, <1>9 DEF Next, Call, Run

-----------------------------------------------------------------------------
(* The session implements its contract: the frames.                        *)

\* Audio blocks the overlap-add was given: all that were accepted but the one
\* that waits for its follower.
BlocksPushed ==
    IF phase = "tail" \/ audioPackets = 0 THEN audioPackets ELSE audioPackets - 1

\* The block that waits is the last one accepted.
Waiting(ms) ==
    IF BlocksPushed = audioPackets THEN {}
    ELSE {[block |-> audioPackets, mode |-> ms[audioPackets]]}

\* Frames are samples of the file's timeline, from PCM position `from` on.
Shows(ms, from, frames) ==
    \A j \in 1 .. Len(frames) :
        frames[j] = WholeTimeline(ms, TerminalFollowing, Len(ms), (from + j) - 1)

\* What the caller has, and what the running call has for it, is the front of
\* the file's timeline, clamped to the declared count.
HandedOut(ms) ==
    /\ emitted = Least(container.total, completed)
    /\ Shows(ms, 0, delivered \o reply)

\* The overlap-add holds the timeline of the blocks it was given.
Mirrored(ms) ==
    /\ pending = Waiting(ms)
    /\ Placed(ms, TerminalFollowing, BlocksPushed)
    /\ Mirrors(ms, TerminalFollowing, BlocksPushed)
    /\ HandedOut(ms)
    /\ phase = "tail" => Taken = Len(container.packets)

\* Until the session is closed it mirrors the timeline of its file.
MirrorInv == ~Closed => \A ms \in {Contract!AudioModes(container)} : Mirrored(ms)

\* How many more samples the declared count leaves room for.
Room(total, out, more) == Least(Greatest(total - Len(out), 0), Len(more))

\* Those of them that fit, and the frames with them.
Fitting(total, out, more) == SubSeq(more, 1, Room(total, out, more))
Extended(total, out, more) == out \o Fitting(total, out, more)

\* What a push or a finish hands out continues the frames before it, clamped
\* to the declared count.
LEMMA ClampedFrames ==
    ASSUME NEW S, NEW ms, NEW c \in Nat, NEW total \in Nat,
           NEW more \in Seq(S), Shows(ms, c, more),
           NEW out \in Seq(S), Shows(ms, 0, out), Len(out) = Least(total, c)
    PROVE  /\ Fitting(total, out, more) \in Seq(S)
           /\ Len(Fitting(total, out, more)) = Room(total, out, more)
           /\ Shows(ms, 0, Extended(total, out, more))
<1> DEFINE e == Len(out)
           m == Len(more)
           allowed == Room(total, out, more)
           frames == SubSeq(more, 1, allowed)
           line(i) == WholeTimeline(ms, TerminalFollowing, Len(ms), i)
<1>1. e \in Nat /\ m \in Nat
  BY LenProperties
<1> HIDE DEF e, m
<1>2. /\ allowed \in Nat /\ allowed <= m /\ e <= total
      /\ allowed # 0 => e = c
  <2>1. /\ total \in Nat /\ c \in Nat /\ e = Least(total, c)
        /\ allowed = Least(Greatest(total - e, 0), m)
    BY DEF e, m, Room
  <2> QED
    BY ONLY <1>1, <2>1 DEF Least, Greatest
<1>3. /\ frames \in Seq(S) /\ Len(frames) = allowed
      /\ \A j \in 1 .. allowed : frames[j] = more[j]
  <2>1. \A j \in 1 .. allowed : j \in 1 .. m
    BY ONLY <1>1, <1>2
  <2>2. \A j \in 1 .. allowed : more[j] \in S
    BY <2>1, LenProperties DEF m
  <2>3. /\ frames \in Seq(S)
        /\ Len(frames) = IF 1 <= allowed THEN (allowed - 1) + 1 ELSE 0
        /\ \A j \in 1 .. (allowed - 1) + 1 : frames[j] = more[(1 + j) - 1]
    BY ONLY <1>2, <2>2, SubSeqProperties
  <2> QED
    BY ONLY <1>2, <2>3
<1> HIDE DEF frames, allowed
<1>4. /\ out \o frames \in Seq(S) /\ Len(out \o frames) = e + allowed
      /\ \A i \in 1 .. e + allowed :
            (out \o frames)[i] = IF i <= e THEN out[i] ELSE frames[i - e]
  <2>1. out \in Seq(S) /\ Len(out) = e
    BY DEF e
  <2> QED
    BY ONLY <1>3, <2>1, ConcatProperties
<1>5. /\ \A j \in 1 .. m : more[j] = line((c + j) - 1)
      /\ \A j \in 1 .. e : out[j] = line((0 + j) - 1)
  BY DEF Shows, e, m
<1> HIDE DEF line
<1>6. ASSUME NEW i \in 1 .. e + allowed PROVE (out \o frames)[i] = line((0 + i) - 1)
  <2>1. CASE i <= e
    <3>1. i \in 1 .. e
      BY <1>1, <1>2, <2>1
    <3> QED
      BY <1>4, <1>5, <2>1, <3>1
  <2>2. CASE ~(i <= e)
    <3>1. PICK j \in 1 .. allowed : j = i - e
      BY <1>1, <1>2, <2>2
    <3>2. j \in 1 .. m /\ (c + j) - 1 = (0 + i) - 1
      <4>1. allowed # 0 /\ c \in Nat
        BY <1>2, <3>1
      <4> QED
        BY <1>1, <1>2, <3>1, <4>1
    <3>3. frames[j] = line((0 + i) - 1)
      BY <1>3, <1>5, <3>2
    <3> QED
      BY <1>4, <2>2, <3>1, <3>3
  <2> QED
    BY <2>1, <2>2
<1> QED
  BY <1>2, <1>3, <1>4, <1>6 DEF Shows, Fitting, Extended, e, m, allowed, frames, line

\* A push or a finish shows the samples that follow those before it.
LEMMA HandsOutShows ==
    ASSUME NEW ms, HandsOut(ms, TerminalFollowing), completed \in Nat, completed' \in Nat
    PROVE  /\ released' \in Seq(Seq(Contributions)) /\ Shows(ms, completed, released')
           /\ completed' = completed + Len(released')
<1>1. /\ released' \in Seq(Seq(Contributions)) /\ Len(released') = completed' - completed
      /\ \A j \in 1 .. completed' - completed :
            released'[j] = WholeTimeline(ms, TerminalFollowing, Len(ms), (completed + j) - 1)
  BY DEF HandsOut
<1>2. Len(released') = completed' - completed /\ Len(released') \in Nat
  BY <1>1, LenProperties
<1>3. \A c, d, m \in Nat : m = d - c => d = c + m
  OBVIOUS
<1>4. completed' = completed + Len(released')
  BY <1>2, <1>3, Zenon
<1> QED
  BY <1>1, <1>4 DEF Shows

\* The same of a running session, whose reply they are appended to.
LEMMA FramesContinue ==
    ASSUME SessionInv, NEW ms, HandsOut(ms, TerminalFollowing), HandedOut(ms),
           completed \in Nat, completed' \in Nat,
           NEW allowed, allowed = Least(Greatest(container.total - emitted, 0), Len(released')),
           NEW frames, frames = SubSeq(released', 1, allowed)
    PROVE  /\ emitted + allowed = Least(container.total, completed')
           /\ Shows(ms, 0, (delivered \o reply) \o frames)
           /\ Len((delivered \o reply) \o frames) = emitted + allowed
           /\ (delivered \o reply) \o frames = delivered \o (reply \o frames)
           /\ (delivered \o reply) \o frames \in Seq(Seq(Contributions))
<1> DEFINE Sample == Seq(Contributions)
           out == delivered \o reply
<1>1. /\ delivered \in Seq(Sample) /\ reply \in Seq(Sample)
      /\ Len(delivered) + Len(reply) = emitted /\ container.total \in Nat
  BY TotalIsNat DEF SessionInv, TypeOK, HandedInv, NeverPastDeclared
<1>2. /\ released' \in Seq(Sample) /\ Shows(ms, completed, released')
      /\ completed' = completed + Len(released')
  BY HandsOutShows
<1>3. emitted = Least(container.total, completed) /\ Shows(ms, 0, out)
  BY DEF HandedOut
<1> HIDE DEF Sample
<1>4. out \in Seq(Sample) /\ Len(out) = emitted
  BY ONLY <1>1, ConcatProperties
<1> HIDE DEF out
<1>5. allowed = Room(container.total, out, released')
  BY <1>4 DEF Room
<1>6. completed \in Nat /\ Len(out) = Least(container.total, completed)
  BY <1>3, <1>4
<1>7. /\ frames \in Seq(Sample) /\ Len(frames) = allowed /\ Shows(ms, 0, out \o frames)
  <2>1. /\ Fitting(container.total, out, released') \in Seq(Sample)
        /\ Len(Fitting(container.total, out, released')) = Room(container.total, out, released')
        /\ Shows(ms, 0, Extended(container.total, out, released'))
    BY ONLY <1>1, <1>2, <1>3, <1>4, <1>6, ClampedFrames
  <2>2. /\ frames = Fitting(container.total, out, released')
        /\ out \o frames = Extended(container.total, out, released')
    BY <1>5 DEF Fitting, Extended
  <2> QED
    BY ONLY <1>5, <2>1, <2>2
<1>8. (delivered \o reply) \o frames = delivered \o (reply \o frames)
  <2>1. delivered \in Seq(Sample) /\ reply \in Seq(Sample) /\ frames \in Seq(Sample)
    BY <1>1, <1>7
  <2> QED
    BY ONLY <2>1, ConcatAssociative
<1>9. out \o frames \in Seq(Sample) /\ Len(out \o frames) = emitted + allowed
  BY ONLY <1>4, <1>7, ConcatProperties
<1>10. emitted + allowed = Least(container.total, completed')
  <2>1. Len(released') \in Nat
    BY <1>2, LenProperties
  <2>2. allowed = Least(Greatest(container.total - emitted, 0), Len(released'))
    OBVIOUS
  <2>3. \A e, t, c, d, m \in Nat :
           e = Least(t, c) /\ d = c + m => e + Least(Greatest(t - e, 0), m) = Least(t, d)
    BY DEF Least, Greatest
  <2>4. emitted \in Nat /\ completed \in Nat /\ completed' \in Nat /\ container.total \in Nat
    BY <1>1, <1>6 DEF SessionInv, TypeOK
  <2>5. emitted = Least(container.total, completed) /\ completed' = completed + Len(released')
    BY <1>2, <1>3
  <2>6. emitted + Least(Greatest(container.total - emitted, 0), Len(released'))
          = Least(container.total, completed')
    BY ONLY <2>1, <2>3, <2>4, <2>5
  <2> QED
    BY ONLY <2>2, <2>6
<1> QED
  BY <1>7, <1>8, <1>9, <1>10 DEF out, Sample

\* A step that leaves the overlap-add and the frames alone keeps the mirror.
LEMMA MirrorKept ==
    ASSUME MirrorInv, UNCHANGED <<olaVars, container, pending, emitted, audioPackets>>,
           delivered' \o reply' = delivered \o reply,
           phase' = "tail" <=> phase = "tail",
           phase = "tail" => setupTaken' = setupTaken,
           ~Closed' => ~Closed
    PROVE  MirrorInv'
<1> SUFFICES ASSUME ~Closed', NEW ms, ms = Contract!AudioModes(container)
             PROVE  Mirrored(ms)'
  BY DEF MirrorInv
<1>1. Mirrored(ms)
  BY DEF MirrorInv
<1>2. PICK k : k = BlocksPushed /\ k = BlocksPushed'
  BY DEF BlocksPushed
<1>3. Waiting(ms)' = Waiting(ms)
  BY <1>2 DEF Waiting
<1>4. Placed(ms, TerminalFollowing, k)'
  BY <1>1, <1>2 DEF Mirrored, Placed, olaVars
<1>5. Mirrors(ms, TerminalFollowing, k)'
  <2>1. samples' = samples /\ start' = start
    BY DEF olaVars
  <2>2. \A p : Held(p)' = Held(p)
    BY <2>1 DEF Held
  <2> QED
    BY <1>1, <1>2, <2>1, <2>2 DEF Mirrored, Mirrors
<1>6. HandedOut(ms)'
  BY <1>1 DEF Mirrored, HandedOut, olaVars
<1>7. phase' = "tail" => Taken' = Len(container.packets)'
  BY <1>1 DEF Mirrored, Taken
<1> QED
  BY <1>1, <1>2, <1>3, <1>4, <1>5, <1>6, <1>7 DEF Mirrored

\* Pushing the block that waits, if one does.
LEMMA WaitingPushed ==
    ASSUME SessionInv, MirrorInv, phase = "walk", NEW ms, ms = Contract!AudioModes(container),
           NEW a \in 0 .. Len(ms), a = audioPackets, NEW following,
           a # 0 => following = FollowingOf(ms, TerminalFollowing, a),
           container' = container, delivered' = delivered,
           \/ pending = {} /\ UNCHANGED <<olaVars, emitted, reply>>
           \/ \E before \in pending :
                 /\ OlaPush(before.block, before.mode, following)
                 /\ AppendCompleted
    PROVE  /\ Placed(ms, TerminalFollowing, a)' /\ Mirrors(ms, TerminalFollowing, a)'
           /\ HandedOut(ms)'
<1>1. /\ container \in Containers /\ OlaTypeOK /\ OlaInv /\ ~Closed
      /\ delivered \in Seq(Seq(Contributions)) /\ reply \in Seq(Seq(Contributions))
      /\ Len(delivered) + Len(reply) = emitted /\ container.total \in Nat
  BY TotalIsNat
     DEF SessionInv, TypeOK, StreamTypeOK, WindowInv, Closed, HandedInv, NeverPastDeclared
<1>2. ms \in Seq(Modes) /\ Len(ms) \in Nat /\ TerminalFollowing \in Modes
  BY <1>1, BlocksOfFile, LenProperties DEF TerminalFollowing, Modes
<1>3. Mirrored(ms)
  BY <1>1 DEF MirrorInv
<1>4. CASE a = 0
  <2>1. BlocksPushed = 0 /\ pending = {}
    BY <1>3, <1>4 DEF BlocksPushed, Mirrored, Waiting
  <2>2. UNCHANGED <<olaVars, emitted, reply>>
    BY <2>1
  <2>3. Placed(ms, TerminalFollowing, 0) /\ Mirrors(ms, TerminalFollowing, 0)
    BY <1>3, <2>1 DEF Mirrored
  <2>4. Placed(ms, TerminalFollowing, 0)' /\ Mirrors(ms, TerminalFollowing, 0)'
    <3>1. samples' = samples /\ start' = start
      BY <2>2 DEF olaVars
    <3>2. \A p : Held(p)' = Held(p)
      BY <3>1 DEF Held
    <3> QED
      BY <2>2, <2>3, <3>1, <3>2 DEF Placed, Mirrors, olaVars
  <2>5. HandedOut(ms)'
    BY <1>3, <2>2 DEF Mirrored, HandedOut, olaVars
  <2> QED
    BY <1>4, <2>4, <2>5
<1>5. CASE a # 0
  <2>1. a \in 1 .. Len(ms) /\ a - 1 # a
    BY <1>2, <1>5
  <2>2. BlocksPushed = a - 1
    BY <1>5 DEF BlocksPushed
  <2>3. pending = {[block |-> a, mode |-> ms[a]]}
    BY <1>3, <2>1, <2>2 DEF Mirrored, Waiting
  <2>4. OlaPush(a, ms[a], FollowingOf(ms, TerminalFollowing, a)) /\ AppendCompleted
    <3> DEFINE last == [block |-> a, mode |-> ms[a]]
    <3>1. \E before \in pending :
             OlaPush(before.block, before.mode, following) /\ AppendCompleted
      BY <2>3
    <3>2. OlaPush(last.block, last.mode, following) /\ AppendCompleted
      BY <2>3, <3>1
    <3> QED
      BY <1>5, <3>2
  <2>5. Placed(ms, TerminalFollowing, a - 1) /\ Mirrors(ms, TerminalFollowing, a - 1)
    BY <1>3, <2>2 DEF Mirrored
  <2>6. /\ Placed(ms, TerminalFollowing, a)' /\ Mirrors(ms, TerminalFollowing, a)'
        /\ HandsOut(ms, TerminalFollowing)
    BY <1>1, <1>2, <2>1, <2>4, <2>5, PushMirrors
  <2>7. completed \in Nat /\ completed' \in Nat
    <3>1. HandsOut(ms, TerminalFollowing) /\ completed \in Nat
      BY <1>1, <2>6 DEF OlaTypeOK
    <3>2. completed' = Greatest(completed, base) /\ base \in Nat
      BY <1>1, <2>4 DEF OlaPush, OlaTypeOK
    <3> QED
      BY <3>1, <3>2 DEF Greatest
  <2>8. HandedOut(ms)'
    <3> DEFINE allowed == Least(Greatest(container.total - emitted, 0), Len(released'))
               frames == SubSeq(released', 1, allowed)
    <3>1. reply' = reply \o frames /\ emitted' = emitted + allowed
      BY <2>4 DEF AppendCompleted
    <3>2. HandedOut(ms)
      BY <1>3 DEF Mirrored
    <3>3. /\ emitted + allowed = Least(container.total, completed')
          /\ Shows(ms, 0, (delivered \o reply) \o frames)
          /\ (delivered \o reply) \o frames = delivered \o (reply \o frames)
      BY <2>6, <2>7, <3>2, FramesContinue
    <3> HIDE DEF allowed, frames
    <3>4. delivered' \o reply' = (delivered \o reply) \o frames
      BY <3>1, <3>3
    <3> QED
      BY <3>1, <3>3, <3>4 DEF HandedOut
  <2> QED
    BY <2>6, <2>8
<1> QED
  BY <1>4, <1>5

\* A new session mirrors the empty timeline.
LEMMA MirrorInit == Init => MirrorInv
<1> SUFFICES ASSUME Init, NEW ms, ms = Contract!AudioModes(container)
             PROVE  Mirrored(ms)
  BY DEF MirrorInv
<1>1. SessionInv
  BY InitSession
<1>2. /\ container \in Containers /\ container.total \in Nat /\ OlaTypeOK /\ OlaInit
  BY <1>1, TotalIsNat DEF SessionInv, TypeOK, StreamTypeOK, Init
<1>3. ms \in Seq(Modes) /\ TerminalFollowing \in Modes
  BY <1>2, BlocksOfFile DEF TerminalFollowing, Modes
<1>4. /\ phase = "idle" /\ pending = {} /\ emitted = 0 /\ audioPackets = 0
      /\ reply = <<>> /\ delivered = <<>>
  BY DEF Init, StreamInit
<1>5. BlocksPushed = 0 /\ Waiting(ms) = {}
  BY <1>4 DEF BlocksPushed, Waiting
<1>6. Placed(ms, TerminalFollowing, 0) /\ Mirrors(ms, TerminalFollowing, 0)
  BY <1>2, <1>3, InitMirrors
<1>7. HandedOut(ms)
  <2>1. completed = 0
    BY <1>2 DEF OlaInit
  <2>2. Least(container.total, 0) = 0
    BY <1>2 DEF Least
  <2>3. Shows(ms, 0, <<>>)
    BY EmptySeq DEF Shows
  <2>4. delivered \o reply = <<>>
    BY <1>4
  <2> QED
    BY <1>4, <2>1, <2>2, <2>3, <2>4 DEF HandedOut
<1> QED
  BY <1>4, <1>5, <1>6, <1>7 DEF Mirrored

\* A return hands the reply over behind what was delivered before.
LEMMA ReturnMirrors ==
    ASSUME SessionInv, MirrorInv, NEW answer, Return(answer), phase \notin {"idle", "tail"},
           UNCHANGED <<streamVars, olaVars, codecVars>>
    PROVE  MirrorInv'
<1>1. /\ phase' = "idle" /\ reply' = <<>> /\ delivered' = delivered \o reply
  BY DEF Return
<1>2. delivered' \o reply' = delivered \o reply
  <2> DEFINE Sample == Seq(Contributions)
  <2>1. delivered \in Seq(Sample) /\ reply \in Seq(Sample)
    BY DEF SessionInv, TypeOK
  <2> HIDE DEF Sample
  <2>2. delivered \o reply \in Seq(Sample)
    BY ONLY <2>1, ConcatProperties
  <2>3. (delivered \o reply) \o <<>> = delivered \o reply
    BY ONLY <2>2, ConcatEmptySeq
  <2> QED
    BY <1>1, <2>3
<1>3. ~Closed
  BY DEF Closed
<1> QED
  BY <1>1, <1>2, <1>3, MirrorKept DEF streamVars, codecVars

\* Accepting a block pushes the one before it: its follower's mode is known.
LEMMA DecodeMirrors ==
    ASSUME SessionInv, WalkInv, MirrorInv, NEW i, DecodeBlock(i)
    PROVE  MirrorInv'
<1>1. /\ phase = "walk" /\ phase' = "walk" /\ setupTaken
      /\ CommitPacket(i) /\ delivered' = delivered
  BY DEF DecodeBlock
<1>2. /\ container' = container /\ audioPackets' = audioPackets + 1
      /\ container \in Containers /\ audioPackets \in Nat
  BY <1>1 DEF CommitPacket, SessionInv, TypeOK, StreamTypeOK
<1>3. i = audioPackets + 2 /\ i \in DOMAIN container.packets
  <2>1. i = Taken + 1 /\ i \in DOMAIN container.packets
    BY AcceptWalks
  <2> QED
    BY <1>1, <1>2, <2>1 DEF Taken
<1> SUFFICES ASSUME NEW ms, ms = Contract!AudioModes(container)
             PROVE  Mirrored(ms)'
  BY <1>2 DEF MirrorInv
<1>4. PICK a \in Nat : a = audioPackets
  BY <1>2
<1>5. /\ ms \in Seq(Modes) /\ Len(ms) \in Nat /\ a + 1 \in 1 .. Len(ms)
      /\ ms[a + 1] = container.packets[i].mode /\ (a + 1) - 1 = a
  <2>1. /\ Len(container.packets) \in Nat /\ i \in 1 .. Len(container.packets) /\ i = a + 2
    BY <1>2, <1>3, <1>4, PacketsApart
  <2>2. /\ ms \in Seq(Modes)
        /\ Len(ms) = IF Len(container.packets) = 0 THEN 0 ELSE Len(container.packets) - 1
        /\ \A k \in 1 .. Len(ms) : ms[k] = container.packets[k + 1].mode
    BY <1>2, BlocksOfFile
  <2>3. Len(ms) \in Nat /\ a + 1 \in 1 .. Len(ms) /\ (a + 1) + 1 = i
    BY <1>4, <2>1, <2>2
  <2> QED
    BY <1>4, <2>2, <2>3
<1>6. a \in 0 .. Len(ms) /\ a < Len(ms)
  BY <1>4, <1>5
<1> DEFINE block == [block |-> a + 1, mode |-> ms[a + 1]]
<1>7. /\ pending' = {block}
      /\ \/ pending = {} /\ UNCHANGED <<olaVars, emitted, reply>>
         \/ \E before \in pending :
               /\ OlaPush(before.block, before.mode, block.mode)
               /\ AppendCompleted
  BY <1>4, <1>5 DEF DecodeBlock
<1>8. block.mode = FollowingOf(ms, TerminalFollowing, a)
  BY <1>6 DEF FollowingOf
<1>9. /\ Placed(ms, TerminalFollowing, a)' /\ Mirrors(ms, TerminalFollowing, a)'
      /\ HandedOut(ms)'
  BY <1>1, <1>2, <1>4, <1>6, <1>7, <1>8, WaitingPushed
<1>10. BlocksPushed' = a /\ BlocksPushed' # audioPackets' /\ audioPackets' = a + 1
  BY <1>1, <1>2, <1>4 DEF BlocksPushed
<1>11. pending' = Waiting(ms)'
  BY <1>7, <1>10 DEF Waiting
<1> QED
  BY <1>1, <1>9, <1>10, <1>11 DEF Mirrored

\* Over a walked payload every packet was taken.
LEMMA WalkedWhole ==
    ASSUME StreamTypeOK, StreamInv, WalkInv, header, PayloadDone
    PROVE  /\ Taken = Len(container.packets)
           /\ ReadAt = container.dataAt + container.dataSize
           /\ ReadAt = EndOf(container, Taken)
<1>1. /\ container \in Containers /\ Taken \in Nat /\ Len(container.packets) \in Nat
      /\ Taken <= Len(container.packets) /\ ReadAt \in Nat
      /\ ReadAt + remaining = container.dataAt + container.dataSize
      /\ ReadAt + seekLeft = EndOf(container, Taken)
      /\ container.seek <= container.dataSize
      /\ seekLeft = 0 /\ remaining = 0
  BY WalkPlace DEF WalkInv, PayloadDone
<1>2. ReadAt = container.dataAt + container.dataSize /\ ReadAt = EndOf(container, Taken)
  BY <1>1
<1>3. ASSUME Taken # Len(container.packets) PROVE FALSE
  <2>1. Taken < Len(container.packets)
    BY <1>1, <1>3
  <2>2. PICK i \in PacketsHere : TRUE
    BY <1>1, <2>1, NextPacket
  <2>3. i \in DOMAIN container.packets /\ container.packets[i].at = ReadAt
    BY DEF PacketsHere
  <2>4. container.packets[i].at < container.dataAt + container.dataSize
    BY <1>1, <2>3, PacketsAssumption
  <2> QED
    BY <1>1, <1>2, <2>3, <2>4
<1> QED
  BY <1>2, <1>3

\* Finish pushes the last block with the long block planned after it.
LEMMA FlushMirrors ==
    ASSUME SessionInv, WalkInv, MirrorInv, FlushPending
    PROVE  MirrorInv'
<1>1. /\ phase = "walk" /\ phase' = "tail" /\ delivered' = delivered /\ codec
      /\ pending' = {} /\ UNCHANGED streamVars /\ PayloadDone
      /\ StreamTypeOK /\ StreamInv /\ header /\ setupTaken
  BY DEF FlushPending, SessionInv, TypeOK, PhaseInv
<1>2. /\ container' = container /\ audioPackets' = audioPackets /\ Taken' = Taken
      /\ container \in Containers /\ audioPackets \in Nat
  BY <1>1 DEF streamVars, Taken, StreamTypeOK
<1>3. Taken = Len(container.packets) /\ Taken = audioPackets + 1
  BY <1>1, WalkedWhole DEF Taken
<1> SUFFICES ASSUME NEW ms, ms = Contract!AudioModes(container)
             PROVE  Mirrored(ms)'
  BY <1>2 DEF MirrorInv
<1>4. PICK a \in Nat : a = audioPackets
  BY <1>2
<1>5. a = Len(ms) /\ a \in 0 .. Len(ms)
  <2>1. Len(ms) = IF Len(container.packets) = 0 THEN 0 ELSE Len(container.packets) - 1
    BY <1>2, BlocksOfFile
  <2>2. Len(container.packets) = a + 1
    BY <1>3, <1>4
  <2> QED
    BY <1>4, <2>1, <2>2
<1>6. TerminalFollowing = FollowingOf(ms, TerminalFollowing, a)
  BY <1>4, <1>5 DEF FollowingOf
<1>7. \/ pending = {} /\ UNCHANGED <<olaVars, emitted, reply>>
      \/ \E before \in pending :
            /\ OlaPush(before.block, before.mode, TerminalFollowing)
            /\ AppendCompleted
  BY DEF FlushPending
<1>8. /\ Placed(ms, TerminalFollowing, a)' /\ Mirrors(ms, TerminalFollowing, a)'
      /\ HandedOut(ms)'
  BY <1>1, <1>2, <1>4, <1>5, <1>6, <1>7, WaitingPushed
<1>9. BlocksPushed' = a /\ BlocksPushed' = audioPackets'
  BY <1>1, <1>2, <1>4 DEF BlocksPushed
<1>10. pending' = Waiting(ms)'
  BY <1>1, <1>9 DEF Waiting
<1>11. Taken' = Len(container.packets)'
  BY <1>2, <1>3
<1> QED
  BY <1>1, <1>8, <1>9, <1>10, <1>11 DEF Mirrored

\* Every step keeps the mirror.
LEMMA MirrorStep == SessionInv /\ WalkInv /\ MirrorInv /\ [Next]_vars => MirrorInv'
<1> SUFFICES ASSUME SessionInv, WalkInv, MirrorInv, [Next]_vars PROVE MirrorInv'
  OBVIOUS
<1>1. CASE UNCHANGED vars
  <2>1. /\ UNCHANGED <<olaVars, container, pending, emitted, audioPackets>>
        /\ delivered' = delivered /\ reply' = reply /\ phase' = phase
        /\ finished' = finished /\ setupTaken' = setupTaken
    BY <1>1 DEF vars, streamVars, codecVars, callVars
  <2>2. delivered' \o reply' = delivered \o reply
    BY <2>1
  <2> QED
    BY <2>1, <2>2, MirrorKept DEF Closed
<1>2. ASSUME \/ PushEmpty \/ CallAfterFinish \/ Finish
             \/ \E count \in 1 .. container.length - received : PushBytes(count)
      PROVE  MirrorInv'
  <2>1. /\ UNCHANGED <<olaVars, container, pending, emitted, audioPackets>>
        /\ delivered' = delivered /\ reply' = reply
        /\ phase = "idle" /\ phase' # "tail"
    BY <1>2 DEF PushEmpty, CallAfterFinish, Finish, PushBytes, StartRun, streamVars, codecVars
  <2>2. ~Closed' => ~Closed
    BY <1>2 DEF PushEmpty, CallAfterFinish, Finish, PushBytes, Closed
  <2>3. delivered' \o reply' = delivered \o reply
    BY <2>1
  <2> QED
    BY <2>1, <2>2, <2>3, MirrorKept
<1>3. ASSUME ResolveHeader \/ SkipSeek \/ \E i \in PacketsHere : OpenCodec(i) PROVE MirrorInv'
  <2>1. /\ UNCHANGED <<olaVars, container, pending, emitted, audioPackets>>
        /\ delivered' = delivered /\ reply' = reply
        /\ phase \in {"resolve", "walk"} /\ phase' = "walk"
    BY <1>3 DEF ResolveHeader, TakeHeader, SkipSeek, SkipSeekTable, OpenCodec, CommitPacket,
                codecVars, callVars
  <2>2. delivered' \o reply' = delivered \o reply
    BY <2>1
  <2> QED
    BY <2>1, <2>2, MirrorKept DEF Closed
<1>4. CASE HeaderUnresolved
  <2>1. PICK answer : Return(answer)
    BY <1>4 DEF HeaderUnresolved, Shortfall
  <2> QED
    BY <1>4, <2>1, ReturnMirrors DEF HeaderUnresolved
<1>5. CASE AwaitBytes
  BY <1>5, ReturnMirrors DEF AwaitBytes, Shortfall
<1>6. CASE PayloadWalked
  BY <1>6, ReturnMirrors DEF PayloadWalked
<1>7. ASSUME NEW i \in PacketsHere, RefuseSetup(i) \/ RefusePacket(i) PROVE MirrorInv'
  BY <1>7, ReturnMirrors DEF RefuseSetup, RefusePacket
<1>8. ASSUME NEW i \in PacketsHere, DecodeBlock(i) PROVE MirrorInv'
  BY <1>8, DecodeMirrors
<1>9. CASE FlushPending
  BY <1>9, FlushMirrors
<1>10. CASE ReleaseTail
  BY <1>10 DEF ReleaseTail, SessionInv, PhaseInv, MirrorInv, Closed
<1> QED
  BY <1>1, <1>2, <1>3, <1>4, <1>5, <1>6, <1>7, <1>8, <1>9, <1>10 DEF Next, Call, Run

-----------------------------------------------------------------------------
(* The session implements its contract: the answers.                       *)

LEMMA CentreOfNone ==
    ASSUME NEW ms
    PROVE  Centre(ms, 0) = 0
<1> DEFINE unfolds(g) ==
               g = [j \in 0 .. 0 |-> IF j <= 1 THEN 0
                      ELSE g[j - 1] + (BlockSize(ms[j - 1]) + BlockSize(ms[j])) \div 4]
           none == [j \in 0 .. 0 |-> 0]
<1>1. Centre(ms, 0) = (CHOOSE g : unfolds(g))[0]
  BY DEF Centre
<1>2. unfolds(none)
  <2>1. \A j \in 0 .. 0 : j <= 1
    OBVIOUS
  <2> QED
    BY <2>1
<1>3. ASSUME NEW g, unfolds(g) PROVE g[0] = 0
  BY <1>3
<1> HIDE DEF unfolds, none
<1>4. unfolds(CHOOSE g : unfolds(g))
  BY <1>2
<1> QED
  BY <1>1, <1>3, <1>4

\* The contract accepts what the walk took when the next packet is not taken.
LEMMA AcceptedIsTaken ==
    ASSUME SessionInv, WalkInv, header,
           Taken < Len(container.packets) => ~Takes(container, received, Taken + 1)
    PROVE  Contract!Accepted(container, received) = Taken
<1>1. /\ container \in Containers /\ received \in Nat /\ Taken \in Nat
      /\ Len(container.packets) \in Nat /\ Taken <= Len(container.packets)
      /\ HeaderAnswer(container, received) = "Ok"
      /\ \A i \in 1 .. Taken : Takes(container, received, i)
  BY WalkPlace DEF SessionInv, TypeOK, WalkInv
<1>2. Taken \in 0 .. Len(container.packets)
  BY <1>1
<1> QED
  BY <1>1, <1>2, AcceptedIs

\* The contract finds the payload exhausted exactly when the walk reached its
\* end.
LEMMA ExhaustedIsWalked ==
    ASSUME SessionInv, WalkInv, header, Contract!Accepted(container, received) = Taken
    PROVE  Contract!Exhausted(container, received)
             <=> /\ Taken = Len(container.packets)
                 /\ received >= container.dataAt + container.dataSize
                 /\ container.dataAt + container.dataSize = EndOf(container, Taken)
<1>1. /\ container \in Containers /\ HeaderAnswer(container, received) = "Ok"
      /\ Taken \in Nat /\ Len(container.packets) \in Nat
  BY WalkPlace DEF SessionInv, TypeOK, WalkInv
<1>2. container.packets = <<>> <=> Len(container.packets) = 0
  <2>1. container.packets \in Seq({container.packets[i] : i \in DOMAIN container.packets})
    BY <1>1, PacketsAssumption
  <2> QED
    BY <2>1, EmptySeq
<1>3. Contract!HeaderAnswer(container, received) = "Ok"
  BY <1>1, SameFile
<1>4. Contract!PacketEnd(container, Len(container.packets))
        = PacketEnd(container, Len(container.packets))
  BY SameFile
<1> QED
  BY <1>1, <1>2, <1>3, <1>4 DEF Contract!Exhausted, EndOf

\* The frames of a running session.
LEMMA FramesKind ==
    ASSUME SessionInv
    PROVE  /\ delivered \o reply \in Seq(Seq(Contributions))
           /\ Len(delivered \o reply) = emitted /\ emitted \in Nat
           /\ delivered \in Seq(Seq(Contributions)) /\ reply \in Seq(Seq(Contributions))
<1> DEFINE Sample == Seq(Contributions)
<1>1. /\ delivered \in Seq(Sample) /\ reply \in Seq(Sample) /\ emitted \in Nat
      /\ Len(delivered) + Len(reply) = emitted
  BY DEF SessionInv, TypeOK, HandedInv, NeverPastDeclared
<1> HIDE DEF Sample
<1>2. delivered \o reply \in Seq(Sample) /\ Len(delivered \o reply) = emitted
  BY ONLY <1>1, ConcatProperties
<1> QED
  BY <1>1, <1>2 DEF Sample

\* The frames completed so far are those the contract hands back, unless the
\* tail is due.
LEMMA FramesSoFar ==
    ASSUME SessionInv, WalkInv, MirrorInv, phase = "walk",
           Contract!Accepted(container, received) = Taken,
           finished /\ Contract!Exhausted(container, received) => Taken = 0
    PROVE  Contract!Frames(container, received, finished) = delivered \o reply
<1>1. /\ container \in Containers /\ received \in Nat /\ finished \in BOOLEAN /\ ~Closed
      /\ Taken \in Nat /\ audioPackets \in Nat /\ completed \in Nat
      /\ setupTaken \in BOOLEAN /\ (~setupTaken => audioPackets = 0)
  BY WalkPlace DEF SessionInv, TypeOK, StreamTypeOK, OlaTypeOK, Closed, WalkInv
<1> DEFINE ms == Contract!AudioModes(container)
<1>2. Mirrored(ms)
  BY <1>1 DEF MirrorInv
<1> HIDE DEF ms
<1>3. Contract!Synthesized(container, received, finished)
        = IF Taken - 1 <= 0 THEN 0 ELSE Centre(ms, (Taken - 1) - 1)
  <2>1. \A k : Contract!Centre(ms, k) = Centre(ms, k)
    BY SameTimeline
  <2>2. Taken - 1 <= 0 \/ ~(finished /\ Contract!Exhausted(container, received))
    BY <1>1
  <2> QED
    BY <2>1, <2>2 DEF Contract!Synthesized, ms
<1>4. completed = IF Taken - 1 <= 0 THEN 0 ELSE Centre(ms, (Taken - 1) - 1)
  <2>1. Placed(ms, TerminalFollowing, BlocksPushed)
    BY <1>2 DEF Mirrored
  <2>2. CASE Taken - 1 <= 0
    <3>1. BlocksPushed = 0
      BY <1>1, <2>2 DEF Taken, BlocksPushed
    <3> QED
      BY <2>1, <2>2, <3>1 DEF Placed
  <2>3. CASE ~(Taken - 1 <= 0)
    <3>1. BlocksPushed = (Taken - 1) - 1 /\ BlocksPushed \in Nat
      BY <1>1, <2>3 DEF Taken, BlocksPushed
    <3>2. completed = Centre(ms, BlocksPushed)
      BY <2>1, CentreOfNone DEF Placed
    <3> QED
      BY <2>3, <3>1, <3>2
  <2> QED
    BY <2>2, <2>3
<1>5. /\ delivered \o reply \in Seq(Seq(Contributions))
      /\ Len(delivered \o reply) = Least(container.total, completed)
  BY <1>2, FramesKind DEF Mirrored, HandedOut
<1>6. \A i \in 1 .. Len(delivered \o reply) :
         (delivered \o reply)[i] = WholeTimeline(ms, 1, Len(ms), i - 1)
  <2>1. Len(delivered \o reply) \in Nat
    BY FramesKind
  <2>2. \A i \in 1 .. Len(delivered \o reply) : (0 + i) - 1 = i - 1
    BY <2>1
  <2>3. \A i \in 1 .. Len(delivered \o reply) :
           (delivered \o reply)[i] = WholeTimeline(ms, 1, Len(ms), (0 + i) - 1)
    BY <1>2 DEF Mirrored, HandedOut, Shows, TerminalFollowing
  <2> QED
    BY <2>2, <2>3
<1>7. Contract!Synthesized(container, received, finished) = completed
  BY <1>3, <1>4
<1>8. ms = Contract!AudioModes(container)
  BY DEF ms
<1> DEFINE out == delivered \o reply
           Sample == Seq(Contributions)
<1>9. /\ out \in Seq(Sample) /\ Len(out) = Least(container.total, completed)
      /\ \A i \in 1 .. Len(out) : out[i] = WholeTimeline(ms, 1, Len(ms), i - 1)
      /\ container \in Containers /\ received \in Nat /\ finished \in BOOLEAN
      /\ completed \in Nat
      /\ Contract!Synthesized(container, received, finished) = completed
  BY <1>1, <1>5, <1>6, <1>7
<1> HIDE DEF out, Sample
<1>10. Contract!Frames(container, received, finished) = out
  BY ONLY <1>8, <1>9, FramesAre
<1> QED
  BY <1>10 DEF out

\* What a call that returns over the walk answers.
Reply(answer) ==
    /\ Contract!Frames(container, received, finished) = delivered \o reply
    /\ Contract!Outcome(container, received, finished) = answer

\* A call that waits answers what is short of the next packet.
LEMMA AwaitAnswers ==
    ASSUME SessionInv, WalkInv, MirrorInv, AwaitBytes
    PROVE  Reply(IF finished THEN "Truncated" ELSE "Ok")
<1>1. /\ StreamTypeOK /\ StreamInv /\ header /\ phase = "walk" /\ PacketShort
      /\ finished \in BOOLEAN
  BY DEF SessionInv, TypeOK, PhaseInv, AwaitBytes
<1>2. /\ container \in Containers /\ received \in Nat /\ Unread \in Nat /\ ReadAt \in Nat
      /\ ReadAt = received - Unread /\ remaining \in Nat /\ seekLeft \in Nat
      /\ ReadAt + remaining = container.dataAt + container.dataSize
      /\ ReadAt + seekLeft = EndOf(container, Taken)
      /\ Taken \in Nat /\ Len(container.packets) \in Nat
      /\ HeaderAnswer(container, received) = "Ok"
  BY <1>1, WalkPlace DEF WalkInv
<1>3. (seekLeft > 0 => Unread = 0) /\ ~(seekLeft = 0 /\ remaining = 0)
  BY <1>1 DEF PacketShort, PayloadDone
<1>4. ASSUME Taken < Len(container.packets)
      PROVE  ~(/\ PacketEnd(container, Taken + 1) <= received
               /\ PacketEnd(container, Taken + 1) <= container.dataAt + container.dataSize)
  <2>1. /\ EndOf(container, Taken) < PacketEnd(container, Taken + 1)
        /\ PacketEnd(container, Taken + 1) \in Nat
    BY <1>1, <1>4, NextAt
  <2>2. CASE seekLeft = 0
    <3>1. Taken + 1 \in PacketsHere
      BY <1>1, <1>4, <2>2, NextPacket
    <3>2. ~Peekable(Taken + 1)
      BY <1>1, <3>1 DEF PacketShort
    <3> QED
      BY <1>1, <2>2, <3>1, <3>2, PeekableIsWhole
  <2>3. CASE seekLeft # 0
    <3>1. received < PacketEnd(container, Taken + 1)
      BY <1>2, <1>3, <2>1, <2>3
    <3> QED
      BY <1>2, <2>1, <3>1
  <2> QED
    BY <2>2, <2>3
<1>5. Taken < Len(container.packets) => ~Takes(container, received, Taken + 1)
  BY <1>4 DEF Takes
<1>6. Contract!Accepted(container, received) = Taken
  BY <1>1, <1>5, AcceptedIsTaken
<1>7. ~Contract!Exhausted(container, received)
  <2> SUFFICES ASSUME /\ received >= container.dataAt + container.dataSize
                      /\ container.dataAt + container.dataSize = EndOf(container, Taken)
               PROVE  FALSE
    BY <1>1, <1>6, ExhaustedIsWalked
  <2>1. container.dataAt + container.dataSize \in Nat
    BY <1>1, WalkPlace
  <2> QED
    BY <1>2, <1>3, <2>1
<1>8. Contract!Frames(container, received, finished) = delivered \o reply
  BY <1>1, <1>6, <1>7, FramesSoFar
<1>9. ~(Taken + 1 \in DOMAIN container.packets /\ Contract!Whole(container, received, Taken + 1))
  <2> SUFFICES ASSUME Taken + 1 \in DOMAIN container.packets,
                      Contract!Whole(container, received, Taken + 1)
               PROVE  FALSE
    OBVIOUS
  <2>1. Taken < Len(container.packets)
    BY <1>2, PacketsApart
  <2>2. PacketEnd(container, Taken + 1) <= Least(received, container.dataAt + container.dataSize)
    BY SameFile DEF Contract!Whole, Contract!Least, Least
  <2>3. /\ PacketEnd(container, Taken + 1) \in Nat
        /\ container.dataAt + container.dataSize \in Nat
    BY <1>1, <2>1, NextAt, WalkPlace
  <2>4. \A e, m, n \in Nat : e <= Least(m, n) => e <= m /\ e <= n
    BY DEF Least
  <2> QED
    BY <1>2, <1>4, <2>1, <2>2, <2>3, <2>4
<1> QED
  BY <1>1, <1>2, <1>6, <1>7, <1>8, <1>9, OutcomeIs DEF Reply

\* A call that refuses a packet answers what is wrong with that packet.
LEMMA RefusalAnswers ==
    ASSUME SessionInv, WalkInv, MirrorInv, NEW i \in PacketsHere, phase = "walk",
           Peekable(i), AnswerTo(i) # "Ok"
    PROVE  Reply(AnswerTo(i))
<1>1. /\ StreamTypeOK /\ StreamInv /\ header /\ seekLeft = 0 /\ finished \in BOOLEAN
  BY DEF SessionInv, TypeOK, PhaseInv, Peekable
<1>2. /\ container \in Containers /\ received \in Nat /\ Taken \in Nat
      /\ Len(container.packets) \in Nat /\ HeaderAnswer(container, received) = "Ok"
      /\ container.dataAt + container.dataSize \in Nat
  BY <1>1, WalkPlace DEF WalkInv
<1>3. i = Taken + 1 /\ i \in DOMAIN container.packets
  BY <1>1, NextPacket DEF PacketsHere
<1>4. Taken < Len(container.packets)
  BY <1>2, <1>3, PacketsApart
<1>5. /\ PacketEnd(container, i) <= received
      /\ PacketEnd(container, i) <= container.dataAt + container.dataSize
  BY <1>1, PeekableIsWhole
<1>6. Contract!Answer(container, i) = AnswerTo(i)
  BY <1>1, SameAnswer
<1>7. ~Takes(container, received, Taken + 1)
  BY <1>3, <1>6 DEF Takes
<1>8. Contract!Accepted(container, received) = Taken
  BY <1>1, <1>7, AcceptedIsTaken
<1>9. ~Contract!Exhausted(container, received)
  BY <1>1, <1>2, <1>4, <1>8, ExhaustedIsWalked
<1>10. Contract!Frames(container, received, finished) = delivered \o reply
  BY <1>8, <1>9, FramesSoFar
<1>11. Contract!Whole(container, received, i)
  <2>1. PacketEnd(container, i) <= Least(received, container.dataAt + container.dataSize)
    BY <1>5 DEF Least
  <2> QED
    BY <2>1, SameFile DEF Contract!Whole, Contract!Least, Least
<1> QED
  BY <1>1, <1>2, <1>3, <1>6, <1>8, <1>9, <1>10, <1>11, OutcomeIs DEF Reply

\* A walked payload is exhausted.
LEMMA WalkedIsExhausted ==
    ASSUME SessionInv, WalkInv, header, PayloadDone
    PROVE  /\ Taken = Len(container.packets)
           /\ Contract!Accepted(container, received) = Taken
           /\ Contract!Exhausted(container, received)
<1>1. /\ StreamTypeOK /\ StreamInv
  BY DEF SessionInv, TypeOK
<1>2. /\ Taken = Len(container.packets) /\ Taken \in Nat
      /\ container.dataAt + container.dataSize = EndOf(container, Taken)
      /\ received >= container.dataAt + container.dataSize
  <2>1. /\ Taken = Len(container.packets) /\ ReadAt = EndOf(container, Taken)
        /\ ReadAt = container.dataAt + container.dataSize
    BY <1>1, WalkedWhole
  <2>2. /\ received \in Nat /\ Unread \in Nat /\ ReadAt = received - Unread /\ Taken \in Nat
        /\ container.dataAt + container.dataSize \in Nat
    BY <1>1, WalkPlace
  <2> QED
    BY <2>1, <2>2
<1>3. Contract!Accepted(container, received) = Taken
  BY <1>2, AcceptedIsTaken
<1> QED
  BY <1>2, <1>3, ExhaustedIsWalked

\* A call that reaches the end of the payload before Finish answers Ok, and
\* Finish over a payload without a setup packet says so.
LEMMA WalkedAnswers ==
    ASSUME SessionInv, WalkInv, MirrorInv, PayloadWalked
    PROVE  Reply(IF finished THEN "MissingSetup" ELSE "Ok")
<1>1. /\ StreamTypeOK /\ StreamInv /\ header /\ phase = "walk" /\ PayloadDone
      /\ (finished => ~codec) /\ (setupTaken <=> codec) /\ finished \in BOOLEAN
  BY DEF SessionInv, TypeOK, PhaseInv, PayloadWalked
<1>2. /\ Taken = Len(container.packets)
      /\ Contract!Accepted(container, received) = Taken
      /\ Contract!Exhausted(container, received)
  BY <1>1, WalkedIsExhausted
<1>3. finished => Taken = 0
  BY <1>1 DEF Taken
<1>4. Contract!Frames(container, received, finished) = delivered \o reply
  BY <1>1, <1>2, <1>3, FramesSoFar
<1>5. /\ container \in Containers /\ received \in Nat
      /\ HeaderAnswer(container, received) = "Ok"
  BY <1>1, WalkPlace DEF WalkInv
<1>6. finished => container.packets = <<>>
  <2>1. container.packets \in Seq({container.packets[i] : i \in DOMAIN container.packets})
    BY <1>5, PacketsAssumption
  <2> QED
    BY <1>2, <1>3, <2>1, EmptySeq
<1> QED
  BY <1>1, <1>2, <1>4, <1>5, <1>6, OutcomeIs DEF Reply

\* Before the header is resolved a call answers what the header region says.
LEMMA HeaderAnswers ==
    ASSUME SessionInv, WalkInv, MirrorInv, HeaderUnresolved
    PROVE  Reply(IF HeaderNow = "Short" THEN IF finished THEN "Truncated" ELSE "Ok"
                 ELSE HeaderNow)
<1>1. /\ StreamTypeOK /\ StreamInv /\ ~header /\ ~codec /\ finished \in BOOLEAN
      /\ HeaderAnswer(container, Unread) # "Ok" /\ HeaderNow = HeaderAnswer(container, Unread)
  BY DEF SessionInv, TypeOK, PhaseInv, StreamInv, HeaderUnresolved, HeaderNow
<1>2. Unread = received /\ container \in Containers /\ received \in Nat
      /\ container.total \in Nat
  <2>1. container \in Containers /\ received \in Nat /\ container.total \in Nat
    BY <1>1, WalkPlace, TotalIsNat
  <2> QED
    BY <1>1, <2>1 DEF StreamInv, Unread
<1>3. /\ Contract!HeaderAnswer(container, received) = HeaderNow /\ HeaderNow # "Ok"
  BY <1>1, <1>2, SameFile
<1>4. Contract!Accepted(container, received) = 0
  BY <1>3 DEF Contract!Accepted
<1>5. Contract!Synthesized(container, received, finished) = 0
  BY <1>4 DEF Contract!Synthesized
<1>6. delivered \o reply = <<>>
  BY <1>1 DEF SessionInv, HandedInv
<1>7. Contract!Frames(container, received, finished) = <<>>
  <2> DEFINE ms == Contract!AudioModes(container)
             none == <<>>
  <2>1. /\ none \in Seq(Modes) /\ Len(none) = Least(container.total, 0) /\ 0 \in Nat
        /\ \A i \in 1 .. Len(none) : none[i] = WholeTimeline(ms, 1, Len(ms), i - 1)
    BY <1>2, EmptySeq DEF Least
  <2>2. ms = Contract!AudioModes(container)
    OBVIOUS
  <2> HIDE DEF ms, none
  <2>3. Contract!Frames(container, received, finished) = none
    BY ONLY <1>1, <1>2, <1>5, <2>1, <2>2, FramesAre
  <2> QED
    BY <2>3 DEF none
<1>8. Contract!Outcome(container, received, finished)
        = IF HeaderNow = "Short" THEN IF finished THEN "Truncated" ELSE "Ok" ELSE HeaderNow
  BY <1>1, <1>3 DEF Contract!Outcome
<1> QED
  BY <1>6, <1>7, <1>8 DEF Reply

\* The call that finishes hands the tail over and checks the declared count.
LEMMA TailAnswers ==
    ASSUME HeldInv, WalkInv, MirrorInv, ReleaseTail
    PROVE  /\ Contract!Frames(container, received, finished) = delivered'
           /\ Contract!Outcome(container, received, finished) = outcome'
<1> DEFINE ms == Contract!AudioModes(container)
           allowed == Least(Greatest(container.total - emitted, 0), Len(released'))
           frames == SubSeq(released', 1, allowed)
<1>1. /\ SessionInv /\ StreamTypeOK /\ StreamInv /\ OlaTypeOK /\ OlaInv /\ OlaFinish
      /\ header /\ finished /\ setupTaken /\ phase = "tail" /\ PayloadDone /\ ~Closed
  BY DEF HeldInv, SessionInv, TypeOK, PhaseInv, WindowInv, Closed, ReleaseTail
<1>2. /\ emitted' = emitted + allowed
      /\ delivered' = (delivered \o reply) \o frames
      /\ outcome' = IF emitted' = container.total THEN "Ok" ELSE "FrameCountMismatch"
  BY DEF ReleaseTail
<1>3. /\ container \in Containers /\ received \in Nat /\ container.total \in Nat
      /\ HeaderAnswer(container, received) = "Ok" /\ finished \in BOOLEAN
      /\ completed \in Nat /\ emitted \in Nat /\ audioPackets \in Nat
  BY <1>1, WalkPlace, TotalIsNat
     DEF WalkInv, SessionInv, TypeOK, StreamTypeOK, OlaTypeOK
<1>4. /\ Taken = Len(container.packets) /\ Taken = audioPackets + 1
      /\ Contract!Accepted(container, received) = Taken
      /\ Contract!Exhausted(container, received)
  BY <1>1, WalkedIsExhausted DEF Taken
<1>5. ms \in Seq(Modes) /\ Len(ms) = audioPackets /\ TerminalFollowing \in Modes
  <2> HIDE DEF ms
  <2>1. /\ ms \in Seq(Modes)
        /\ Len(ms) = IF Len(container.packets) = 0 THEN 0 ELSE Len(container.packets) - 1
    BY <1>3, BlocksOfFile DEF ms
  <2>2. PICK a \in Nat : a = audioPackets
    BY <1>3
  <2>3. Len(container.packets) = a + 1 /\ a + 1 # 0 /\ (a + 1) - 1 = a
    BY <1>4, <2>2
  <2>4. Len(ms) = a
    BY ONLY <2>1, <2>3
  <2>5. TerminalFollowing \in Modes
    BY DEF TerminalFollowing, Modes
  <2> QED
    BY <2>1, <2>2, <2>4, <2>5
<1>6. Mirrored(ms)
  BY <1>1 DEF MirrorInv
<1> HIDE DEF ms
<1>7. /\ completed' = IF Len(ms) = 0 THEN 0
                      ELSE Centre(ms, Len(ms)) + RightHalf(ms, TerminalFollowing, Len(ms))
      /\ HandsOut(ms, TerminalFollowing)
  <2>1. BlocksPushed = Len(ms)
    BY <1>1, <1>5 DEF BlocksPushed
  <2>2. Placed(ms, TerminalFollowing, Len(ms)) /\ Mirrors(ms, TerminalFollowing, Len(ms))
    BY <1>6, <2>1 DEF Mirrored
  <2> QED
    BY <1>1, <1>5, <2>2, FinishMirrors
<1>8. completed' \in Nat
  <2>1. completed' = Greatest(completed, supportEnd - Origin)
    BY <1>1 DEF OlaFinish
  <2>2. supportEnd - Origin \in Int
    BY <1>1, OriginNat DEF OlaTypeOK
  <2> QED
    BY <1>3, <2>1, <2>2 DEF Greatest
<1>9. Contract!Synthesized(container, received, finished) = completed'
  <2>1. /\ Contract!Centre(ms, audioPackets) = Centre(ms, audioPackets)
        /\ Contract!RightHalf(ms, 1, audioPackets) = RightHalf(ms, 1, audioPackets)
    BY SameTimeline
  <2>2. Taken - 1 = audioPackets /\ (audioPackets <= 0 <=> audioPackets = 0)
    BY <1>3, <1>4
  <2> QED
    BY <1>1, <1>4, <1>5, <1>7, <2>1, <2>2
       DEF Contract!Synthesized, ms, TerminalFollowing
<1>10. HandedOut(ms)
  BY <1>6 DEF Mirrored
<1>11. /\ emitted + allowed = Least(container.total, completed')
       /\ Shows(ms, 0, (delivered \o reply) \o frames)
       /\ Len((delivered \o reply) \o frames) = emitted + allowed
       /\ (delivered \o reply) \o frames \in Seq(Seq(Contributions))
  BY <1>1, <1>3, <1>7, <1>8, <1>10, FramesContinue
<1> HIDE DEF allowed, frames
<1>12. Contract!Frames(container, received, finished) = delivered'
  <2> DEFINE out == (delivered \o reply) \o frames
             Sample == Seq(Contributions)
             whole == completed'
  <2>1. out \in Seq(Sample) /\ Len(out) = Least(container.total, whole) /\ whole \in Nat
    BY <1>8, <1>11
  <2>2. \A i \in 1 .. Len(out) : out[i] = WholeTimeline(ms, 1, Len(ms), i - 1)
    <3>1. Len(out) \in Nat
      BY <1>3, <1>8, <1>11 DEF Least
    <3>2. \A i \in 1 .. Len(out) : (0 + i) - 1 = i - 1
      BY <3>1
    <3>3. \A i \in 1 .. Len(out) : out[i] = WholeTimeline(ms, 1, Len(ms), (0 + i) - 1)
      BY <1>11 DEF Shows, TerminalFollowing
    <3> QED
      BY <3>2, <3>3
  <2>3. /\ ms = Contract!AudioModes(container)
        /\ Contract!Synthesized(container, received, finished) = whole
    BY <1>9 DEF ms
  <2> HIDE DEF out, Sample, whole
  <2>4. Contract!Frames(container, received, finished) = out
    BY ONLY <1>3, <2>1, <2>2, <2>3, FramesAre
  <2> QED
    BY <1>2, <2>4 DEF out
<1>13. container.packets # <<>>
  <2>1. container.packets \in Seq({container.packets[i] : i \in DOMAIN container.packets})
    BY <1>3, PacketsAssumption
  <2>2. Len(container.packets) # 0
    BY <1>3, <1>4
  <2> QED
    BY <2>2, EmptySeq
<1>14. emitted' = container.total <=> completed' >= container.total
  <2>1. emitted' = Least(container.total, completed')
    BY <1>2, <1>11
  <2> QED
    BY <1>3, <1>8, <2>1 DEF Least
<1>15. Contract!Outcome(container, received, finished) = outcome'
  <2>1. Contract!Outcome(container, received, finished)
          = IF completed' >= container.total THEN "Ok" ELSE "FrameCountMismatch"
    BY <1>1, <1>3, <1>4, <1>9, <1>13, OutcomeIs
  <2> QED
    BY <1>2, <1>14, <2>1
<1> QED
  BY <1>12, <1>15

\* The invariant under which the session implements its contract: it keeps its
\* place in the file, took the packets before that place, and holds the
\* timeline of the blocks among them.
RefInv == HeldInv /\ WalkInv /\ MirrorInv

\* For every file, every pair of block sizes and every sequence of calls, the
\* session stands where the packets it accepted end, accepted them in the order
\* of the file, and delivered the prefix of the lapped timeline of their modes
\* (decoder.rs:389-399, 592-595).
THEOREM SessionFollowsFile == Spec => []RefInv
<1>1. Init => RefInv
  <2> SUFFICES ASSUME Init PROVE RefInv
    OBVIOUS
  <2>1. SessionInv /\ phase = "idle" /\ ~header /\ ~setupTaken /\ audioPackets = 0
    BY InitSession DEF Init, StreamInit
  <2>2. HeldInv
    BY <2>1 DEF HeldInv, HoldsOnePacket
  <2>3. WalkInv
    <3>1. Len(container.packets) \in Nat
      BY <2>1, PacketsApart DEF SessionInv, TypeOK, StreamTypeOK
    <3> QED
      BY <2>1, <3>1 DEF WalkInv, Taken
  <2> QED
    BY <2>2, <2>3, MirrorInit DEF RefInv
<1>2. RefInv /\ [Next]_vars => RefInv'
  BY HeldStep, WalkStep, MirrorStep DEF RefInv, HeldInv
<1> QED
  BY <1>1, <1>2, PTL DEF Spec

\* A return is the contract's reply.
LEMMA ReturnReplies ==
    ASSUME NEW answer, Return(answer), Reply(answer), phase # "idle",
           UNCHANGED streamVars
    PROVE  Contract!Reply
  BY DEF Return, Reply, Contract!Reply, streamVars, bufferVars

\* Every step of the session is a step of its contract or none.
LEMMA RefStep == RefInv /\ [Next]_vars => [Contract!Next]_(Contract!vars)
<1> SUFFICES ASSUME RefInv, [Next]_vars PROVE Contract!Next \/ UNCHANGED Contract!vars
  OBVIOUS
<1>0. HeldInv /\ SessionInv /\ WalkInv /\ MirrorInv
  BY DEF RefInv, HeldInv
<1>1. ASSUME /\ container' = container /\ received' = received /\ finished' = finished
             /\ phase # "idle" /\ phase' # "idle" /\ delivered' = delivered
             /\ outcome' = outcome
      PROVE  UNCHANGED Contract!vars
  BY <1>1 DEF Contract!vars
<1>2. CASE UNCHANGED vars
  BY <1>2 DEF vars, streamVars, bufferVars, callVars, Contract!vars
<1>3. ASSUME NEW count \in 1 .. container.length - received, PushBytes(count)
      PROVE  Contract!Next
  <2>1. Contract!Push(count)
    BY <1>3 DEF PushBytes, Accumulate, StartRun, Contract!Push
  <2> QED
    BY <2>1 DEF Contract!Next
<1>4. CASE PushEmpty \/ CallAfterFinish
  <2>1. Contract!Idle
    BY <1>4 DEF PushEmpty, CallAfterFinish, Contract!Idle, streamVars, bufferVars
  <2> QED
    BY <2>1 DEF Contract!Next
<1>5. CASE Finish
  <2>1. Contract!Finish
    BY <1>5 DEF Finish, StartRun, Contract!Finish, streamVars, bufferVars
  <2> QED
    BY <2>1 DEF Contract!Next
<1>6. CASE ResolveHeader
  BY <1>1, <1>6 DEF ResolveHeader, TakeHeader, Consume
<1>7. CASE HeaderUnresolved
  <2>1. Contract!Reply
    BY <1>0, <1>7, HeaderAnswers, ReturnReplies DEF HeaderUnresolved, Shortfall
  <2> QED
    BY <2>1 DEF Contract!Next
<1>8. CASE SkipSeek
  BY <1>1, <1>8 DEF SkipSeek, SkipSeekTable, Consume, callVars
<1>9. CASE AwaitBytes
  <2>1. Contract!Reply
    BY <1>0, <1>9, AwaitAnswers, ReturnReplies DEF AwaitBytes, Shortfall
  <2> QED
    BY <2>1 DEF Contract!Next
<1>10. ASSUME NEW i \in PacketsHere, OpenCodec(i) \/ DecodeBlock(i)
       PROVE  UNCHANGED Contract!vars
  BY <1>1, <1>10 DEF OpenCodec, DecodeBlock, CommitPacket, Consume, callVars
<1>11. ASSUME NEW i \in PacketsHere, RefuseSetup(i) \/ RefusePacket(i)
       PROVE  Contract!Next
  <2>1. /\ phase = "walk" /\ Peekable(i) /\ AnswerTo(i) # "Ok" /\ Return(AnswerTo(i))
        /\ UNCHANGED streamVars
    BY <1>11 DEF RefuseSetup, RefusePacket, AnswerTo
  <2>2. Contract!Reply
    BY <1>0, <2>1, RefusalAnswers, ReturnReplies
  <2> QED
    BY <2>2 DEF Contract!Next
<1>12. CASE PayloadWalked
  <2>1. /\ Return(IF finished THEN "MissingSetup" ELSE "Ok") /\ phase # "idle"
        /\ UNCHANGED streamVars
    BY <1>12 DEF PayloadWalked
  <2>2. Contract!Reply
    BY <1>0, <1>12, <2>1, WalkedAnswers, ReturnReplies
  <2> QED
    BY <2>2 DEF Contract!Next
<1>13. CASE FlushPending
  BY <1>1, <1>13 DEF FlushPending, streamVars, bufferVars
<1>14. CASE ReleaseTail
  <2>1. Contract!Reply
    BY <1>0, <1>14, TailAnswers DEF ReleaseTail, Contract!Reply, streamVars, bufferVars
  <2> QED
    BY <2>1 DEF Contract!Next
<1> QED
  BY <1>2, <1>3, <1>4, <1>5, <1>6, <1>7, <1>8, <1>9, <1>10, <1>11, <1>12, <1>13, <1>14
     DEF Next, Call, Run

\* The session keeps the safety of its contract: every call that returns hands
\* back the frames and the answer that the bytes pushed so far determine, however
\* they were cut into chunks (decoder.rs:592-595), for every file, every pair of
\* block sizes and every sequence of calls.
THEOREM SessionKeepsContract == Spec => KeepsDecodeContract
<1>1. Init => Contract!Init
  BY DEF Init, StreamInit, Contract!Init
<1> QED
  BY <1>1, RefStep, SessionFollowsFile, PTL DEF Spec, KeepsDecodeContract, Contract!Answers

=============================================================================
