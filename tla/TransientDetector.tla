------------------------- MODULE TransientDetector --------------------------
(***************************************************************************)
(* The transient detector of the encoder and its history window            *)
(* (crates/wem-analysis/src/transient/detector.rs; begin_quantum and       *)
(* finish_quantum in crates/wem-scheduling/src/selector.rs).               *)
(*                                                                         *)
(* What the transform makes of a quantum is a sound: the energy of the     *)
(* lowest lines and the level of each band, integers here and rounded      *)
(* floats in the code.  The rings of the code hold the last sounds of a    *)
(* channel; slots count from 0.                                            *)
(***************************************************************************)
EXTENDS Integers, Sequences, FiniteSetsExt

CONSTANTS Ears,             \* how many channels
          Bands,            \* bands of a channel (12 in the code)
          BandSlots,        \* slots of a band's ring (17)
          EnergySlots,      \* slots of the energy ring (15)
          QuietLimit,       \* where the history window stops growing (24)
          RiseOver,         \* a rise must exceed this
          FallUnder,        \* a fall must go below this
          Carry,            \* added to both while the window is short
          Sounds,           \* what the channels may hear in a quantum
          MaxQuanta         \* bound: quanta heard

\* The longest window and the quantum before it fit in a ring.
ASSUME DetectorAssumption ==
    /\ EnergySlots \in Nat \ {0}
    /\ QuietLimit \in Nat
    /\ BandSlots \in Nat
    /\ QuietLimit \div 2 + 2 < BandSlots
    /\ Sounds \subseteq [1 .. Ears -> [energy : Int, levels : [1 .. Bands -> Int]]]

VARIABLES cooldown,         \* ModeSelector.cooldown
          bands,            \* band_rings of each channel
          energies,         \* energy_ring of each channel
          sums,             \* its last_energy and energy_sum
          averaged,         \* average_source of the last quantum
          heard,            \* the sounds of every quantum so far
          words             \* the flag word of every quantum so far

detectorVars == <<cooldown, bands, energies, sums, averaged, heard, words>>

Channel == 1 .. Ears
Band == 1 .. Bands
Quanta == Len(heard)

\* Both cursors advance with every quantum: they are where its count leaves them.
BandCursor == Quanta % BandSlots
EnergyCursor == Quanta % EnergySlots

DetectorInit ==
    /\ cooldown = 0
    /\ bands = [c \in Channel |-> [b \in Band |-> [slot \in 0 .. BandSlots - 1 |-> 0]]]
    /\ energies = [c \in Channel |-> [slot \in 0 .. EnergySlots - 1 |-> 0]]
    /\ sums = [c \in Channel |-> [last |-> 0, sum |-> 0]]
    /\ averaged = [c \in Channel |-> 0]
    /\ heard = <<>> /\ words = <<>>

-----------------------------------------------------------------------------
\* The window that begin_quantum hands to every channel.
HistoryWindow == Min({cooldown + 1, QuietLimit})

\* How many quanta the history takes in.
Reach(window) == Max({2, window \div 2})

CarryLeft(window) == Max({0, Min({Carry, Carry - (window \div 2 - 2)})})

\* Mutant of HistorySlots: the history begins with the quantum before.
HistorySlotsEarly(window) ==
    {(BandCursor - 1 - step) % BandSlots : step \in 0 .. Reach(window) - 1}

\* The slots of the history: older than the quantum before this one.
HistorySlots(window) ==
    {(BandCursor - 2 - step) % BandSlots : step \in 0 .. Reach(window) - 1}

\* A rise sets bits 1 and 4, a fall bit 2.
BandFlags(ring, level, window) ==
    LET pair == {level, ring[(BandCursor - 1) % BandSlots]}
        history == {ring[slot] : slot \in HistorySlots(window)}
    IN  (IF RiseOver + CarryLeft(window) < Max(pair) - Max(history) THEN {1, 4} ELSE {})
        \cup (IF FallUnder - CarryLeft(window) > Min(pair) - Min(history) THEN {2} ELSE {})

\* The energies the floor is averaged over: the running sum of the ring, which
\* starts afresh from a sum of its own whenever the cursor is back at slot 0.
EnergySource(was, energy) ==
    IF EnergyCursor # 0 THEN was.last + energy ELSE was.sum + energy

\* What any band of any channel says.
FlagWord(sound, window) ==
    UNION {BandFlags(bands[c][b], sound[c].levels[b], window) : c \in Channel, b \in Band}

\* analyze_quantum, with begin_quantum before it and finish_quantum after.
HearQuantum(sound) ==
    LET window == HistoryWindow
        source == [c \in Channel |-> EnergySource(sums[c], sound[c].energy)]
        word == FlagWord(sound, window)
    IN  /\ Quanta < MaxQuanta
        /\ averaged' = source
        /\ sums' = [c \in Channel |->
              [last |-> source[c] - energies[c][EnergyCursor],
               sum |-> IF EnergyCursor # 0 THEN sums[c].sum + sound[c].energy
                       ELSE sound[c].energy]]
        /\ energies' = [c \in Channel |->
              [energies[c] EXCEPT ![EnergyCursor] = sound[c].energy]]
        /\ bands' = [c \in Channel |-> [b \in Band |->
              [bands[c][b] EXCEPT ![BandCursor] = sound[c].levels[b]]]]
        /\ words' = Append(words, word)
        /\ heard' = Append(heard, sound)
        /\ cooldown' = IF 4 \in word THEN -1 ELSE window

DetectorNext == \E sound \in Sounds : HearQuantum(sound)

DetectorSpec == DetectorInit /\ [][DetectorNext]_detectorVars

-----------------------------------------------------------------------------
(* The same over everything heard since the start, silence before it.       *)

LevelAt(q, c, b) == IF q < 1 THEN 0 ELSE heard[q][c].levels[b]

\* Quanta since the last rise before quantum q; the start counts as one that
\* was heard a quantum earlier.
QuietBefore(q) == q - 1 - Max({-1} \cup {p \in 1 .. q - 1 : 4 \in words[p]})

WindowOf(q) == Min({QuietBefore(q), QuietLimit})

\* The energies of the first n quanta of some sounds, together.
EnergyOf(sounds, c, n) ==
    LET energy[q \in 0 .. n] ==
          IF q = 0 THEN 0 ELSE energy[q - 1] + sounds[q][c].energy
    IN  energy[n]

Levels(q, c, b, from, to) == {LevelAt(p, c, b) : p \in q - to .. q - from}

Rises(q, c, b) ==
    RiseOver + CarryLeft(WindowOf(q))
        < Max(Levels(q, c, b, 0, 1)) - Max(Levels(q, c, b, 2, Reach(WindowOf(q)) + 1))
Falls(q, c, b) ==
    FallUnder - CarryLeft(WindowOf(q))
        > Min(Levels(q, c, b, 0, 1)) - Min(Levels(q, c, b, 2, Reach(WindowOf(q)) + 1))

\* The rings remember the recent past and nothing else, at every place of the
\* cursors: a quantum's flag word is that of the two last quanta against as many
\* before them as have been quiet for twice as long, in any band of any channel,
\* and the floor is averaged over one energy more than the ring holds, across the
\* lap where the running sum is replaced as well (detector.rs:75-106, 184-200 and
\* selector.rs:119-125).
RingsRememberThePast ==
    LET q == Quanta
    IN  q > 0 =>
          /\ 1 \in words[q] <=> \E c \in Channel, b \in Band : Rises(q, c, b)
          /\ 4 \in words[q] <=> 1 \in words[q]
          /\ 2 \in words[q] <=> \E c \in Channel, b \in Band : Falls(q, c, b)
          /\ \A c \in Channel :
                averaged[c] = EnergyOf(heard, c, q)
                                - EnergyOf(heard, c, Max({0, q - EnergySlots - 1}))

=============================================================================
