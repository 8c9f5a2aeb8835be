--------------------------- MODULE ContainerStream --------------------------
(***************************************************************************)
(* The incremental container framing of a decode session                   *)
(* (crates/wem-core/src/decoder.rs, ContainerStream).                      *)
(*                                                                         *)
(* Bytes are counted, not stored: what they say is the record `container`, *)
(* the file being pushed (WemContainer).                                   *)
(***************************************************************************)
EXTENDS WemContainer

VARIABLES container,     \* the file being pushed
          received,      \* bytes of it pushed so far
          pendingLen,    \* bytes held: pending.len()
          cursor,        \* bytes of `pending` consumed, not yet compacted away
          header,        \* whether the header region is resolved
          remaining,     \* data payload bytes not consumed yet
          seekLeft,      \* seek-table bytes still to skip
          setupTaken,    \* whether the setup packet was accepted
          audioPackets   \* audio packets accepted so far

bufferVars == <<received, pendingLen, cursor>>
payloadVars == <<remaining, seekLeft>>
streamVars == <<container, bufferVars, header, payloadVars, setupTaken,
                audioPackets>>

Unread == pendingLen - cursor

\* File offset of the first unread byte.
ReadAt == received - Unread

StreamInit ==
    /\ container \in Containers
    /\ received = 0 /\ pendingLen = 0 /\ cursor = 0
    /\ header = FALSE
    /\ remaining = 0 /\ seekLeft = 0
    /\ setupTaken = FALSE
    /\ audioPackets = 0

Accumulate(count) ==
    /\ received' = received + count
    /\ pendingLen' = pendingLen + count
    /\ UNCHANGED cursor

\* Consume bytes from the front of the unread ones; the consumed prefix is
\* dropped once it is at least as long as what would be moved.
Consume(count) ==
    LET after == Least(cursor + count, pendingLen)
        drop == after >= pendingLen - after
    IN  /\ pendingLen' = IF drop THEN pendingLen - after ELSE pendingLen
        /\ cursor' = IF drop THEN 0 ELSE after
        /\ UNCHANGED received

TakeHeader ==
    /\ Consume(Least(container.dataAt, Unread))
    /\ header' = TRUE
    /\ remaining' = container.dataSize
    /\ seekLeft' = container.seek
    /\ UNCHANGED <<container, setupTaken, audioPackets>>

\* Mutant of SkipSeekTable: skipped bytes stay in the payload count.
SkipWithoutCounting ==
    LET skip == Least(seekLeft, Unread)
    IN  /\ Consume(skip)
        /\ seekLeft' = seekLeft - skip
        /\ UNCHANGED <<container, header, remaining, setupTaken, audioPackets>>

SkipSeekTable ==
    LET skip == Least(seekLeft, Unread)
    IN  /\ Consume(skip)
        /\ seekLeft' = seekLeft - skip
        /\ remaining' = remaining - skip
        /\ UNCHANGED <<container, header, setupTaken, audioPackets>>

PayloadDone == seekLeft = 0 /\ remaining = 0

\* The packet whose size prefix is at the read position.
PacketsHere ==
    {i \in DOMAIN container.packets : container.packets[i].at = ReadAt}

Size(i) == PacketSize(container, i)

\* Mutant of Peekable: a packet may overrun the data payload.
PeekOverrun(i) ==
    /\ seekLeft = 0 /\ remaining > 0
    /\ i \in PacketsHere
    /\ Unread >= PrefixSize
    /\ Unread >= Size(i)

\* Mutant of Peekable: one byte past the packet is waited for.
PeekOneLate(i) ==
    /\ seekLeft = 0 /\ remaining > 0
    /\ i \in PacketsHere
    /\ Unread >= PrefixSize
    /\ Size(i) <= remaining
    /\ Unread > Size(i)

\* A whole packet can be peeked: its prefix and payload are pushed and lie
\* inside the data payload.
Peekable(i) ==
    /\ seekLeft = 0 /\ remaining > 0
    /\ i \in PacketsHere
    /\ Unread >= PrefixSize
    /\ Size(i) <= remaining
    /\ Unread >= Size(i)

\* Mutant of PacketShort: only a missing size prefix is a wait.
PrefixShort ==
    /\ seekLeft > 0 => Unread = 0
    /\ ~PayloadDone
    /\ Unread < PrefixSize

PacketShort ==
    /\ seekLeft > 0 => Unread = 0
    /\ ~PayloadDone
    /\ \A i \in PacketsHere : ~Peekable(i)

\* Mutant of CommitPacket: the setup packet is not remembered.
CommitForgettingSetup(i) ==
    /\ Consume(Size(i))
    /\ remaining' = remaining - Size(i)
    /\ UNCHANGED <<container, header, seekLeft, setupTaken, audioPackets>>

CommitPacket(i) ==
    /\ Consume(Size(i))
    /\ remaining' = remaining - Size(i)
    /\ setupTaken' = TRUE
    /\ audioPackets' = IF setupTaken THEN audioPackets + 1 ELSE audioPackets
    /\ UNCHANGED <<container, header, seekLeft>>

-----------------------------------------------------------------------------
\* Every variable holds a value of its kind.
StreamTypeOK ==
    /\ container \in Containers
    /\ received \in 0 .. container.length
    /\ pendingLen \in Nat /\ cursor \in Nat
    /\ remaining \in Nat /\ seekLeft \in Nat
    /\ audioPackets \in Nat
    /\ header \in BOOLEAN /\ setupTaken \in BOOLEAN

\* The framing never loses its place: the first unread byte is the payload
\* byte the accounting says comes next, through every compaction
\* (decoder.rs:285-291 and 408-410).
FramingInStep ==
    header => /\ cursor <= pendingLen
              /\ ReadAt = container.dataAt + container.dataSize - remaining

\* What is kept of consumed bytes never outweighs what is left to read, which
\* is what keeps a walk linear (decoder.rs:278-284).
ConsumedPrefixSmall == cursor = 0 \/ cursor < Unread

=============================================================================
