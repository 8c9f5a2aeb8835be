---------------------------- MODULE WemContainer ----------------------------
(***************************************************************************)
(* A WEM file as the decode session reads it, and what its parts answer    *)
(* (crates/wem-core/src/decoder.rs).  A file is a record:                  *)
(*   length    bytes the caller has to push                                *)
(*   riff      whether it starts with a RIFF or RIFX header                *)
(*   fmtEnd    bytes up to the end of the fmt chunk                        *)
(*   fmt       what parsing the fmt payload answers                        *)
(*   dataAt    bytes up to the start of the data payload                   *)
(*   dataSize  declared size of the data payload                           *)
(*   seek      declared size of the seek table the payload starts with     *)
(*   setup     the facts opening the codec checks                          *)
(*   total     the declared frame count                                    *)
(*   packets   the packets of the payload, the setup packet first, each    *)
(*             with its file offset `at`, its payload size `len` and its   *)
(*             block's mode (0 for the setup packet, which has no block);  *)
(*             an audio packet also has the facts decoding it checks       *)
(* A file may be cut short, bytes may follow the data payload, and the     *)
(* data chunk may come before the fmt chunk.                               *)
(***************************************************************************)
EXTENDS Arithmetic

CONSTANTS Containers,    \* the files a caller may push
          RiffHeader     \* bytes of the RIFF/WAVE header (12 in the code)

PrefixSize == 2          \* a packet's u16 size prefix

PacketSize(c, i) == PrefixSize + c.packets[i].len

PacketEnd(c, i) == c.packets[i].at + PacketSize(c, i)

ASSUME ContainersAssumption ==
    /\ RiffHeader \in Nat
    /\ \A c \in Containers :
          /\ c.length \in Nat /\ c.fmtEnd \in Nat /\ c.dataAt \in Nat
          /\ c.dataSize \in Nat /\ c.seek \in Nat /\ c.total \in Nat
          /\ \A i \in DOMAIN c.packets : /\ c.packets[i].len \in Nat
                                        /\ c.packets[i].mode \in {0, 1}

\* The packets of a file are those a walk of its payload finds: the first one
\* behind the seek table, each where the one before it ends, none at the end.
ASSUME PacketsAssumption ==
    \A c \in Containers :
        /\ c.packets \in Seq({c.packets[i] : i \in DOMAIN c.packets})
        /\ \A i \in DOMAIN c.packets :
              /\ c.packets[i].at \in Nat
              /\ i # 1 => c.packets[i].at = PacketEnd(c, i - 1)
              /\ c.seek <= c.dataSize =>
                    /\ i = 1 => c.packets[i].at = c.dataAt + c.seek
                    /\ c.packets[i].at < c.dataAt + c.dataSize

\* What the header region says once `unread` bytes of the file are held;
\* "Short" is a region that is not complete yet.
HeaderAnswer(c, unread) ==
    FirstRefusal(<<
        Check(unread >= RiffHeader, "Short"),
        Check(c.riff, "NotRiff"),
        Check(unread >= c.fmtEnd, "Short"),
        Check(c.fmt = "Ok", c.fmt),
        Check(unread >= c.dataAt, "Short"),
        Check(c.seek <= c.dataSize, "BadSeekTableSize")>>)

\* What opening the codec over the setup packet answers.
SetupAnswer(c) ==
    FirstRefusal(<<
        Check(c.setup.parses, "Setup"),
        Check(c.setup.complete, "SetupPadding"),
        Check(c.setup.geometryHeld, "ConfigurationUnsupported"),
        Check(c.setup.powersFit, "Internal"),
        Check(c.setup.sizesAgree, "BlockSizeMismatch"),
        Check(c.setup.carried, "SetupNotCarried")>>)

\* What decoding audio packet i answers.  A residue that ends early while
\* bits are left stopped on a codeword its book does not assign.
PacketAnswer(c, i) ==
    LET p == c.packets[i]
    IN  FirstRefusal(<<
            Check(p.parses, "Packet"),
            Check(p.residue = "EndOfPacket" => p.bitsLeft = 0,
                  "ResidueBitstreamDefect"),
            Check(p.posts, "Floor1")>>)

=============================================================================
