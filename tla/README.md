# A TLA+ model of wem

wem encodes 16-bit PCM into Wwise Vorbis (`.wem`) files and decodes them again.
The hard behaviour is in its sessions and at its edges. Both streaming sessions
take their input in pieces of any size and promise an answer that does not
depend on the pieces, and keep bounded buffers over streams of any length. The
encoder exists twice, as a stream and as a one-shot conversion, and runs its
channels in turn or on a pool of threads; each time the two must agree. Shells
in three languages wrap the sessions in handles with rules of their own. And a
decoder must read, to the last bit, what the encoder wrote. This directory
models those parts, checks them with TLC on small instances, and proves the
safety of both sessions, of the batch synthesis, the transient detector, the
handles and the pool with TLAPS for every instance.

## The system

| Part | Code | State | Operations | Modelled by |
|---|---|---|---|---|
| Streaming decode session | `wem-core/src/decoder.rs`, `DecodeSession` | codec, pending block, emitted count, finished flag | `push_bytes`, `finish` | `DecodeSession` |
| Container framing | same file, `ContainerStream` | unconsumed bytes, cursor, payload and seek-table counts | `resolve_header`, `peek_packet`, `commit_packet`, `consume` | `ContainerStream`, `WemContainer` (counted), `WemReader` (byte by byte) |
| Overlap-add synthesis | `wem-analysis/src/dsp/transform.rs`, `SynthesisOla` | window of the timeline, base, finalized frontier | `push`, `finish` | `SynthesisOla`, `OverlapGeometry` |
| Batch synthesis | same file, `synthesize_sequence` | none of its own | one call | `SynthesizeSequence`, `LappedTimeline` |
| Streaming encode session | `wem-core/src/stream.rs` | decided modes, planner, plans, the pending centre, frames done | `push_pcm_chunk`, `finish` | `StreamEncode` |
| PCM feeder | `wem-analysis/src/preprocessing/streaming.rs` | ring, primes, quanta handed out, tail | `push`, `for_each_completed_quantum`, `frame_raw_rows`, `settle`, `finish_source` | `StreamEncode` |
| Mode selection | `wem-scheduling/src/selector.rs`, `wem-analysis/src/session.rs` | transient queue, scan cursor, centre of the next block, codes | `ingest_transient_quantum`, `scan_next_mode`, `finalize_terminal_transition` | `AnalysisSession` |
| Frame planner | `wem-scheduling/src/planner.rs` | `SchedulerState` | `required_samples`, `append_samples`, `emit_block` | `FramePlanner` |
| One-shot encoder | `encoder.rs`, `session.rs`, `windowing.rs` | the same session, used once | `encode_pcm` | `BatchEncode` |
| Psychoacoustic analysis | `psychoacoustics/pipeline.rs`, `short.rs`, `temporal.rs`, `envelope.rs` | per channel state curves and history, counters, spectrum peak | `analyze_long_frame`, `analyze_short_frame` | `PsyState`, `FrameAnalysis` |
| Channel pool | `psychoacoustics/pool.rs` | worker pool, result slots | `map_channels` | `ParallelAnalysis` |
| Transient detector | `wem-analysis/src/transient/detector.rs`, with the selector's cooldown | per channel a ring of levels per band, a ring of energies and two sums | `begin_quantum`, `analyze_quantum`, `finish_quantum` | `TransientDetector` |
| Floor fit | `wem-vorbis/src/floor_fit.rs` | heights and neighbours of the posts, during a call | `floor1_fit_wwise_carriers` | `FloorPosts`, `FloorFit` |
| Vorbis packet codec | `wem-vorbis/src` | bit cursor | pack and parse a setup packet, pack and decode an audio packet | `Codebook`, `FloorPosts`, `Floor1`, `Residue`, `SetupPacket`, `AudioPacket` |
| Container builder and loader | `wem-container/src` | none | build, load | `WemFile` |
| C ABI | `wem-capi/src/lib.rs` | session handle, decoder handle, shared encoder handle | create, push, finish, encode, free | `StreamHandle`, `SharedEncoder` |
| Python and wasm shells | `wem-python/src/lib.rs`, `wem-wasm/src/lib.rs` | the same handles | the same | `StreamHandle`, `SharedEncoder` |
| DSP kernels | `wem-analysis/src/dsp` | none | numeric | not modelled |
| Profiles | `wem-profiles` | compiled-in tables | lookups | not modelled |
| WAV use case, command line | `wem-core`, `wem-cli` | none | file in, file out | not modelled |

How they interact. A decode call appends the caller's bytes, and its loop peeks
a packet, asks the codec, hands the *previous* block to the overlap-add (only
now is the mode after it known) and commits the packet. An encode push appends
samples to the ring, ingests every detector quantum they complete, and pumps:
emit planned frames, plan the pending block, scan for the next mode, until the
samples run out; then the ring is cut. `finish` scans what the source alone
decides, predicts the tail past the end, ingests the quanta of the tail, and
scans to the end. A frame that is emitted is analysed channel by channel, on the
calling thread or, for a long block in a build with the `parallel` feature, in
two waves of jobs on the session's own pool; then its floors and residues are
packed. Everything else in a session is single-threaded and called directly;
besides the pool, the one shared object is the C ABI's (and Python's) encoder
handle, which any number of threads may encode with at a time.

What makes each part correct, and hard:

- framing: any split of the file gives the same answers; a refused packet
  changes nothing; compaction never loses the place; memory is one packet;
- overlap-add: positions are unsigned differences, so an index below the window
  is a panic; what is dropped must never be needed, what is handed out never
  change, and the window never exceed a long block;
- mode selection: a scan must read only slots no later quantum changes;
- planner and selector keep the same centre twice;
- feeder: evicted samples must not be needed by a quantum, a frame or the tail;
- the end of the source: which frame is last, how it is planned, which window
  the tail's predictor is trained on, how much of the prediction is read;
- the loops of `pump` and `finish` must end;
- psychoacoustics: each block reads curves an earlier block wrote, at the scale
  of its own mode, and eases a run of short blocks off by counters;
- the pool: jobs finish in any order and any of them may fail; the rows, the
  error and the state left behind must be those of the loop;
- the detector: a window that grows with the quiet and is cut by a rise reads
  backwards around a ring; a slot too near or a lap too far goes unnoticed;
- the floor fit: splitting a segment changes what the posts on both sides lie
  between, and later posts are inspected against it;
- packets: the decoder finds its place by reading, so one bit too many or too
  few anywhere loses the rest; a packet may legally end early; which channels
  are coded depends on the coupling, which floor points on other floor points;
- containers: the fmt fields and chunk sizes derived by the builder are what two
  independent readers, one of them incremental, must find the packets by;
- handles: a callback may refuse in the middle of a delivery, the kernel may
  refuse or fail with output at hand, threads may share an encoder while a
  defect kills it; afterwards nothing may reach the kernel or the client.

`PROJECT.json` lists these as hazards, line by line, with the properties aimed
at each. Two have no property. The mode selector's queue grows by a slot per
quantum for the whole stream (wem-analysis/src/session.rs:341): the growth is
documented and linear, and the model keeps only the slots that are set. The
frame count of the encoder's answer is cut to 32 bits without a check
(wem-core/src/stream.rs:639): it needs a source of 2^32 frames, and the model
counts frames without a width.

## Modules

`Arithmetic` holds least, greatest and the ordered checks (`FirstRefusal`).

**Decode.** `OverlapGeometry` is the window of one block; a windowed block adds
to a sample a *contribution* (block, part of the window, size of the half,
entry), so a sample is the sequence of contributions that were added to it and
two samples are equal only if they were computed alike. `SynthesisOla` is the
sliding window: its variables are the fields of the struct, `OlaPush` and
`OlaFinish` the two methods. `LappedTimeline` is the abstract view, the whole
timeline computed at once. `SynthesizeSequence` drives the overlap-add over
every mode sequence and compares. `WemContainer` says what a file is (positions
and facts) and what its header, setup packet and audio packets answer.
`ContainerStream` is the framing, bytes counted rather than stored.
`DecodeSession` composes framing and overlap-add: one action per branch of
`DecodeSession::run`, one per public call. `DecodeContract` is the abstract
specification: an answer is a function of the file and the number of bytes
handed over. `MCDecodeSession` builds the files.

**Encode.** `FramePlanner` is `SchedulerState` and its functions as operators on
a record. `AnalysisSession` is the transient queue (the set of its set slots),
the scan and the mode cursor; the loop of `ModeSelector::scan` is written as
the set of positions it visits. `StreamEncode` adds the feeder and the session:
`pc` is the place in `push_pcm_chunk` or `finish` and each action is one turn of
one of their loops. Samples are counted; what a frame is encoded from is recorded
instead of its packet (its plan, its code, and for a frame past the end, the
predictor's training window and how many predicted samples it reads).
`BatchEncode` is `select_modes`, `plan_mode_sequence` and the frame loop of
`encode_pcm`. `MCStreamEncode` runs one session. `RepeatedEncode` encodes a source
twice: a stream session first, then another stream session pushed any other
chunks, or `encode_pcm`. One conversion runs after the other on the variables of
`StreamEncode` (`BatchEncode` is instantiated on those it shares), and what the
first heard and answered is kept; of the same samples the detector says the same
again (`Answers`), of a tail predicted from another window it may say anything.
`MCEncode` bounds the sources.

**Analysis of a frame.** `PsyState` is the state carried from block to block: a
curve is named by the block that wrote it and the scale it was written at, and
the weights of a short block are exact fractions. `FrameAnalysis` is the
sequential analysis, the specification: a block is begun, its channels are
transformed, its curves shaped, and any channel may fail in either wave.
`ParallelAnalysis` is the same analysis on the pool: the scope's owner spawns the
jobs and every worker takes one and publishes its result in its slot, in any
order, until the scope is joined. That it implements `FrameAnalysis` is the
property `SameAsSequential`. `TransientDetector` is the detector from quantum to
quantum: a sound is the energy and the level of each band that the transform made of
the quantum, the rings and the two sums are the code's. `MCAnalysis` runs the
pool, the detector and the floor fit side by side; they share no state.

**Packets.** `Codebook` is bits, the assignment of codewords, the decode tree and
the value vectors; `FloorPosts` the posts of a floor, their neighbours and what these
predict, which encoder and decoder share; `Floor1` the floor body and its curve,
wrapping and unwrapping; `FloorFit` the encoder's fit of a floor to a spectrum, one action per
branch of the loop over the posts; `Residue` types 1 and 2 with their classification, cascades and
stages, both ways. `SetupPacket` packs and parses the five tables of a setup packet and opens
a codec on what it parsed. `AudioPacket` is the life of one packet: a decoder is given
a setup packet (whole, cut, or with more bits) and opens its codec on it; the
encoder packs a block; its packet is whole or cut, and the decoder decodes it.

**Files.** `WemFile` is the chunk structure, the 22 fields of the fmt payload, the
derived ones, the packet stream, the builder and the loader over sequences of
bytes. `WemReader` is the framing of the decode session again, computed from the
bytes that arrived; its property `ImplementsFraming` says that it does what
`ContainerStream` does with the facts of the file, which closes the gap between
the counted model above and the bytes. `MCFormats` holds the small books,
streams, blocks and files; its behaviours are about a packet or about a file.

**Handles.** `StreamHandle` is one streaming handle of any of the shells, an
encode session or a decoder. The kernel is seen through its answers, and what it
makes is numbered. The C shell delivers one callback at a time and any callback
may refuse; the others hand over everything when the call returns.
`HandleContract` is what every handle promises; all keep it but the encode
session of the wasm shell (`handles_wasm`). `SharedEncoder` is the encoder
handle shared by threads: the check of `dead`, the encode, the writes and the
marking are separate steps. `MCHandles` puts a streaming handle and a shared
encoder side by side; they share no state.

What the models abstract:

- In the sessions: sample values, the input conditioner (a one-sample filter fed
  in order by both encoders), the primes (both take them from the first
  samples), the parallel channels (every channel is driven by the same modes),
  packet contents, and calls refused without a change of state (before `Init`,
  after `finish` of an encode, a partial PCM frame). A model chunk is one segment
  of `push_pcm_chunk`; a longer chunk is several. The `setup_emitted` flag is
  `handed > 0`. In the encode models the
  detector answers any word, which includes what it really answers, and the
  cooldown is left to `TransientDetector`.
- In the analysis: what the curves and rows hold, beyond who wrote them when and
  at which scale; a spectrum is loud or not. Rayon is modelled from its use. The
  detector computes with integers where the code rounds to f32, so a running sum
  that drifts is not seen; what the energies are averaged for (the floor under
  the levels) and the quantum's transform are left out. `FloorFit` takes a bin
  as its quantised level and whether the floor reaches it, and sums and divides
  exactly where the code uses doubles.
- In the packets: residues are integers in steps of `Unit`, a curve entry is an
  index of the dB table. The point coupling of low bit rates
  and the spectrum of a block are floating-point work; `AudioPacket` packs every
  choice of small sets of floors and residues instead. The encoder's stored setup packet of a profile is taken to
  be the packed setup of that profile, the three tables the code keeps of the
  book library are one, and the selection and block-size checks of `open_codec`
  are in `WemContainer`. The refusal of a class out of range cannot be reached with the books here.
- In the files: a byte has `Base` values, so limits of two bytes lie at 255
  instead of 65535, and a chunk size is unchecked as in the code.
- In the handles: null and malformed pointers, which are refused without a
  change, and the words of error messages. `made` counts what the kernel's calls
  hand back: the packets that an encode session defers to `finish` go into the
  container alone and are outside `CompleteWhenOk`.

Differences between the code's own parts that the models reproduce, since a
reader would stumble over them:

- the packer of residue types 0 and 1 silently writes another codeword for a
  vector its book cannot code, type 2 refuses;
- a floor height the floor book cannot represent becomes the nearest one, and the encoder's own
  floor does not follow;
- the encoder codes the first residue submap only, the decoder every submap
  (registered profiles have one);
- a channel without a floor keeps its unscaled residue row in the decoder; in
  type 2 an unused uncoupled channel is given the stray components of a partition;
- of a file cut at a packet boundary, the loader answers the packets it has, the
  session waits for more and refuses at `finish`;
- the C decoder delivers what came before a floor defect and then answers
  INTERNAL, Python and wasm deliver nothing with that answer;
- a client's write callback may answer INTERNAL, which does not kill the encoder.

## Runs

| Run | Checks | Bounds |
|---|---|---|
| `synthesize` | `TypeOK`, `WindowBounded`, `WindowHoldsNextBlock`, `MatchesWholeTimeline`, `DeliveredUpToCentre`, `LappedBetweenCentres` | blocks 4/16, every sequence of up to 6 blocks, both terminal modes |
| `decode_session` | `KeepsDecodeContract`, `CallsReturn`, `FramingInStep`, `HoldsOnePacket`, `FramesAsAnnounced`, `TypeOK` | blocks 4/8, every chunking of about 85 files of up to 3 audio packets |
| `decode_trailing` | finds `PendingBounded` violated | two files, one with bytes after the payload |
| `decode_block_sizes` | finds `ContainerNeverInternal` violated | two files whose block sizes disagree |
| `stream_encode` | `NoInternalError`, `QuantaNeverSkipped`, `LookaheadSuffices`, `PlannerInStep`, `DeferredTailBounded`, `EndsAtSource`, `RenderedCoversSource`, `ScannedSlotsFinal`, `CallsReturn`, `TypeOK` | blocks 8/32, hop 2, up to 90 samples in chunks of 5, 24, 90 |
| `encode_alike` | `ChunkingNeverMatters`, `SameDecisionsOnSameTail`, `StreamDecidesNoLess` | blocks 4/16, hop 1, up to 48 samples in chunks of 3, 32, then again in chunks of 3, 32 or the whole, or by `encode_pcm` |
| `encode_training` | finds `ReproducesEncodePcm` violated | the same |
| `encode_tail` | finds `SelectsBatchSamples` violated | the same |
| `analysis` | `SameAsSequential`, `ReadsPrecedingBlock`, `RunEasesOff`, `BlocksAnswered`, `RingsRememberThePast`, `FitNeighboursEnclose`, `FitIsCodable` | 3 channels, pools of 1 and 2, 12 blocks of which four may be long, any of two channels loud, failures in one channel or none per wave; 10 quanta of 3 sounds on two channels, rings of 3 and 6; about 8300 spectra of 6 bins, lines and steps among them, under floors of 5 posts in two orders |
| `formats` | `DecodesWhatWasCoded`, `ReadersAgreeWithPlan`, `ImplementsFraming` | 11 books, codewords of up to 7 bits; 8 streams, their setup packets cut at every byte or continued; about 500 blocks, their packets cut at every byte; 18 files, pushed a byte at a time or whole |
| `handles` | `KeepsContract`, `CompleteWhenOk`, `PacketsNumbered`, `LateCallersRefused`, `OnlyDefectsKill` | up to 5 packets or frames, 4 in a call, blocks of 2 frames, 2 writes; 3 threads |
| `handles_wasm` | finds `DefectEndsHandle` violated | the same, with the wasm encode session |

What the runs show of the newer parts. `analysis`: whatever the order of the
jobs, the answer, the error and the state left are the loop's; a block reads only
curves that the block before it wrote, at its own scale; the weights of a run of
short blocks ease off without a jump; every block is answered, which fails if the
owner does not take jobs while it waits, as a pool of one would then stop. The
flag word of a quantum is what all the sounds since the start say of it, so the rings keep what
the window asks for and no more, at every place of their cursors. A post without
a height always lies between the two nearest posts with one, and no segment is
left uninspected; what a fit answers is in range, flags exactly the posts that a
decoder predicts, and is the line itself when the spectrum is a line. `formats`: what a
decoder makes of a packet is what the encoder put there, floor for floor and
vector for vector, and it stops on the encoder's last bit; of a cut packet it
answers a refusal or a silent rest, never a defect; no setup packet but the
whole one opens the codec. Of a file, both readers find the packets of the plan
and the same refusals. `handles`, of every handle but the wasm encode
session: the client is given what the kernel's calls hand back in order and
without a gap, an OK at the end means all of it, and after a defect, an abort or
a `finish` nothing; a call on a shared encoder that begins after a
defect was reported is refused, and refusals alone never kill it.

Why the bounds are enough. Six blocks contain every triple of neighbouring
modes, twice, in one sequence; the overlap-add looks one block back and one
ahead. The decode files contain every header, setup and packet answer, data
before fmt, seek tables of 0 and 1 byte and one larger than the payload, a
payload one byte short and one byte long, and declared counts below and above
what the blocks yield; a chunk is any number of bytes. The encode constants keep
the relations of the real ones: 256/2048 blocks, hop 64, window 128, look-ahead
one long block, minimum two long blocks, ring and tail a few blocks long. What
matters is that a window, a half-block and a boundary never share a residue by
accident, that chunks cut inside a quantum and across several blocks, and that
the ring (`RingKeep`) is shorter than the source so that it does evict: the
mutants `SettleShort` and `PushEvicting` are found within seconds. The odd
quantum (`MaxOdd` = 1) over a steady background of any flag word gives an
isolated transient at every position, a long quiet stretch in a noisy source,
and either alone; two independent ones are not covered. Sources end at every
sum of chunk sizes, which includes ends on, one before and one after a
quantum's boundary, and a source shorter than the minimum.

Three channels on a pool of one (the owner runs every job) or two (both jobs
taken out of order and a third waiting) contain every overlap of two jobs and the
order of three; 12 blocks, long only at the first, second, fourth and last, hold
a short run past the tail limit of 8, alternations and a long block after a long
run. Ten quanta lap both rings of the detector (3 and 6 slots) and saturate its
window (6), with a rise before, in or after. Five posts, the middle one first or
the inner ones from above, are split up to three deep on either side, with
segments of one audible bin, which no line can be fitted through; curves of four levels,
silent, and with secondary bins, and every line of slope -1 to 1. The books are complete trees, a tree with a codeword left over and one with
an unused entry, the residues of both types, one and several channels, exact and
coarse-then-fine stages, cascades that fit three bits and that do not, partitions
that do not divide the coded range, ranges that begin past 0 and end past the block; the floor fits hold
unused posts, wraps on both sides and silent channels. The files have both byte orders, `data`
before `fmt`, other chunks, seek tables, a carried fmt payload, a cut one, and cuts at
and around packet and chunk boundaries. Five packets in calls of four let a
delivery be refused at its first, a middle and its last packet, and blocks of two
frames split a delivery unevenly; three threads let one kill the encoder while a second
is inside and a third begins.

`CHECK_DEADLOCK FALSE` everywhere: a finished session, a freed handle, a failed
analysis and a decoded packet stop.

### What the violated ones say

- `encode_training`: at the end of the source `select_modes` stops listening
  four hops early before it decides what it can (session.rs:541), the stream
  does not (stream.rs:386-400). When the boundary of the next scan lies between,
  the stream decides one more block, so its `next_mode_center` is further on and
  the tail's predictor is trained on a shorter window. The bytes then differ,
  where stream.rs:46-49 and tests/streaming.rs:16 promise equal ones. At the
  real sizes, without transients, this is a source of M frames with M mod 1024
  in 320..511; the source of the end-of-stream test has 4388 frames, outside it.
- `encode_tail`: past the end, `encode_pcm` predicts as many samples as the
  predictor was trained on and is silent beyond (windowing.rs:175, 259), the
  stream reads up to a long block of prediction (streaming.rs:441), although its
  comment says it mirrors the former.
- `decode_trailing`: bytes after the data payload are kept and never read.
- `decode_block_sizes`: a declared block-size power of 63 or more is answered as
  an internal defect, where the documentation calls it malformed input.
- `handles_wasm`: the header says that a call which answers INTERNAL is terminal
  for its handle (include/wem.h:138); the wasm encode session has no flag for it
  (wem-wasm/src/lib.rs:600) and hands the next chunk to the kernel. Its decoder,
  Python and the C ABI do have one, and `KeepsContract` holds for them.

`ChunkingNeverMatters` holds: the stream agrees with itself for every chunking.
`SameDecisionsOnSameTail` and `StreamDecidesNoLess` say how far the two encoders
do agree (all three are proved for every source, below): always the same modes up to what `encode_pcm` decides before the tail,
and everything where the tail has the same predictor.

## Fairness

A session's call runs on the caller's thread until it returns; nothing in it
waits. The steps of a call that was made (`Run`, or `Step` with the ingestion of
quanta) are therefore weakly fair. Calls themselves are not: a caller may stop
at any time. Under this, `CallsReturn` of the decode session is the contract's
fairness (every call is answered), and that of the encode session says the
encoder's loops end.

The pool's threads are scheduled by the operating system and wait for nothing
but jobs: spawning, each worker's taking and publishing, the join and the steps
of a short block are weakly fair. The caller need not begin another block. Under
this `BlocksAnswered` says that no wave waits for ever, for pools smaller than
the number of channels too.

The handles, packets and files are checked for safety only.

## Proofs

All are invariants, step properties or refinements of a specification, for every
value of the constants their assumptions allow and behaviours of any length. The
assumptions: any pair of block sizes of `BlockSizesAssumption`; any set of files
of `ContainersAssumption` and `PacketsAssumption` (the packets are those a walk
of the payload finds, each where the one before it ends); how quantum, block sizes, lookahead, tail
and ring lie to each other (`StreamAssumption` and `GeometryAssumption`, which
the code's constants satisfy; stream.rs:75-83 gives the reason for the lookahead);
how the two encoders' tails lie to these (`TailAssumption`: five quarters of a
long block, a quarter of a short one and four hops, 2880 samples in the code, fit
into `encode_pcm`'s tail of 6144, and that into the stream's of 8192);
the sizes of the detector's rings
(`DetectorAssumption`); any positive number of channels (`AnalysisAssumption`);
any set of threads; any amount and grouping of output; any limits of the fit's error,
any highest level below the flag, and any set of spectra and posts where the first
post is at 0, the second at 2 or above with a bin at every place below it, the others
between the two and no two at the same place (`SpectraAssumption`: the posts of a setup
and the bins the fit insists on, floor_fit.rs:339-343).

- `NaturalLemmas`: induction over the numbers, with the predicate as a set
  (`NatInduct`), least and greatest elements, what a recursive function over
  an interval computes (`NatRecursion`), and that quotient and remainder are unique
  (`MultiplesApart`, `RemainderUnique`). Whatever sums or centres a proof below
  unfolds, it unfolds through these.
- `SynthesisOla_proofs`: the lemmas of the overlap-add. `OlaInv` is the inductive
  invariant: start, base, frontier and window end lie on the timeline in that
  order, within a half-block and a block of each other. Neither bound is
  inductive alone: that the window holds at most one block needs that its front
  was dropped up to the base, which needs the frontier to have kept up.
  `PushGeometry` is the arithmetic of one push, `OlaPushInv` and `OlaFinishInv`
  the two steps. Then the samples: no later block reaches back over an earlier
  centre, for any sequence of sizes (`CentreSteps` to `TimelineLapped`), so a push
  or a finish hands out a part of the *whole* timeline and leaves the window a cut
  of what the blocks so far add up to (`PushMirrors`, `FinishMirrors`). Every later
  proof of the decoder cites these.
- `SynthesizeSequence_proofs`: `TypeCorrect`, `WindowIsBounded`,
  `WindowAlwaysHolds` (no index leaves the window, no unsigned difference
  underflows), from `IInv`, which adds that the index stays in the sequence; and
  that the samples are right: `OverlapAddIsTimeline`, `DeliversUpToCentre`,
  `LappedAllAlong`, from `MirrorInv`. It says that the window is a cut of the
  timeline all blocks so far add up to (`HeldInv`), placed where the centres put
  it (`PlacedInv`), and that what left it is the part of the whole timeline
  before the last centre (`HandedInv`).
- `DecodeSession_proofs`: the framing first, where each operation keeps
  `StreamInv` (the read position names the payload byte the counts say, the seek
  table lies in what remains), then `SessionTypeCorrect`, `FramingStaysInStep`,
  `FramesKeepToHeader`, `SessionWindowIsBounded`, from
  `SessionInv`: the two above, which phase goes with which flags (`PhaseInv`: the
  codec is open exactly when the setup packet was taken), that the
  overlap-add stays good for another block until the session is closed
  (`WindowInv`), that nothing is announced or handed out before the codec is open
  and that frames are counted as handed (`HandedInv`). One lemma per action or
  group of actions. `SessionHoldsOnePacket` adds that between calls a session
  holds less than the packet it waits for. Last, `SessionKeepsContract`: the
  session implements `DecodeContract`, where an answer is a function of the
  bytes pushed and nothing else. The contract counts the packets that are whole and
  accepted from the start of the file at every call; the session has only its read
  position, the block it keeps back and a window. `RefInv` (`SessionFollowsFile`)
  joins the two: the walk took exactly the packets before the read position, each
  whole and accepted (`WalkInv`), and what was delivered, what the call has ready
  and what the window holds are the timeline of their modes, clamped to the declared
  count (`MirrorInv`). One lemma per action shows that it keeps each, and one per
  way of returning that the answer is the contract's; every step in between is a
  stutter.
- `StreamEncode_proofs`: the encode session with its feeder, selector and planner:
  `StreamTypeCorrect`, `NoInternalErrorEver` (the guards that would answer with an
  internal error never fire), `EveryQuantumIsHeard`,
  `LookaheadIsEnough`, `TimelinesAgree`, `DeferralIsBounded`,
  `AnswerEndsAtSource`, `RenderingCoversSource` and the step property
  `ScannedSlotsKeep`. `StreamInv` ties the three clocks of a session together: what
  is queued against what was heard and scanned (`SelectorInv`), the planner's centre
  and the selector's (`TimelineInv`), the plans against the blocks decided
  (`PlansInv`), what the ring still holds against what the next plan reads
  (`RingInv`), how far the tail reaches (`EndInv`) and which block waits for its
  successor (`DeferInv`). None of the properties is inductive by itself: that a plan
  finds its samples in the ring needs that the scan never runs ahead of the
  lookahead, which needs that each quantum is heard once and in order.
- `RepeatedEncode_proofs`: two encodes of one source. `AnyChunking` (a stream answers
  the same frames however it is pushed), `DecidedAlike` and `StreamAhead` (what
  `encode_pcm` and the stream decide alike). Each relates two conversions, and the
  invariant relates both to a third thing, which neither of them is: `Course(Q)` is
  what the mode loop would decide, block after block, if it knew the whole transient
  queue `Q` beforehand. A conversion has only heard a beginning of its queue.
  `RepeatInv` says, of *every* `Q` that agrees with the queue on the slots no later
  quantum sets (`Agrees`), that the modes decided and the cursor are those of the
  course (`Follows`), the codes and plans too, up to what the last block has of being
  the last (`Recorded`), and that the tail is predicted where a source of this length
  decides no more (`TailFollows`). That it holds for every `Q` is what makes it
  inductive: a quantum may make the queue disagree with some of them, never agree with
  a new one (`IngestFollows`). A decision is the course's because a scan decides on
  slots that were heard (`DecisionFollows`, `UndecidedFollows`) and a code is read
  behind them (`CodeFollows`); a conversion stops where its source does because what
  is known of a block is monotone in what was heard (`KnownGrows`). At the end every
  stream has a complete answer of the queue heard (`Complete`), and of one queue and
  one length there is one (`TailUnique`, `CompleteSame`). For the second encode that
  queue is the one the first left: the detector repeats itself up to the end of the
  source, and past it where the windows agree, and that the windows agree follows from
  the same invariant (`AgainInv`). For `encode_pcm` (`BatchInv`) the windows may
  differ, so its theorems stop where the violated runs begin: it hears no sample of
  the tail before it has predicted one, by the margin of four hops (`EncodePcmKeeps`,
  `BatchHears`), decides no more than the stream up to there (`TailPrefix`), and the
  two scans that may follow stay within both tails (`TailAssumption`).
- `Analysis_proofs`, on the detector: `DetectorRemembers`, that the rings hold the
  past. Each ring is overwritten a slot a quantum, and the detector reads slots counted
  backwards from the cursor; `DetectorInv` says that a ring remembers a full lap
  (`BandsRemember`, `EnergiesRemember`), that one running sum is the sum of the
  ring's last lap and the other that of the lap that goes on (`SumsRemember`),
  which is why the two swapped at the wrap leave no drift, and that the window is
  as long as the quiet since the last rise says (`WindowRemembers`).
- `Handles_proofs`: for the shared encoder `LateCallersAreRefused`,
  `OnlyADefectKills`, from `SharedInv`, which adds `SettledInv`: a call that met
  a defect and has returned has left the handle dead. That is what the order
  "mark, then return" is for, and without it the first property is not inductive.
  For the stream handles, `NumbersAreGapless` holds in the encode session of every
  shell, wasm included: `NumberInv` needs only that numbers are places (`Numbered`),
  whatever the handle does after a defect. `OkIsComplete`, and `HandleKeepsContract`,
  the refinement of `HandleContract`, are about the encode sessions of the C ABI and
  of Python and the decoders of all three shells. `HandleInv` says when the flags and
  the kernel's state agree (`Setting`, `Settled`) and that what was given and what is
  queued together are what the kernel made until something is refused
  (`NothingLost`, `Delivering`). Hypothesis `NoWasmEncode` of these two leaves the
  wasm encode session out: after a push that answered INTERNAL it reaches the kernel
  again, which breaks the contract (`handles_wasm`), and what that push lost stays
  lost though a later finish answers OK.
- `Analysis_proofs`, on the pool: `PoolIsSequential`, the refinement of the sequential
  analysis; `ReadsWhatPrecedes`; `WeightsEaseOff`. `PoolInv` says that each
  spawned job waits, runs on one worker or is published with its own channel's
  result, so at a join the slots are exactly what the loop would have collected;
  every other step of the pool is a stutter. `CurvesInv` says for each phase what
  each channel's curves hold (`HistoryReady`, `LongReady`, `ShortReady`): while a
  block is shaped some channels are a block ahead of others.
  On the floor fit: `NeighboursAlwaysEnclose`. The code keeps the neighbours of a
  post in two arrays, by place, that one split of a segment updates by two scans,
  each of which stops early. `FitInv` says that before the first line
  no post has a height (`FitBlank`), that from then on the two ends have one and no
  post still to be visited has (`FitUnderWay`), and that the neighbours on record are
  the nearest posts with heights. `OrderSorts` counts the posts below each place, and
  `SameSegment` says that two posts without a height have the same neighbours exactly
  when one lies between the neighbours of the other, so a scan that stops at the
  first different neighbour has seen the whole segment it splits (`SplitKeeps`). That
  a line gives its posts heights, and not unset ones, needs the sums to be numbers and
  their common unit to be positive (`SumsTyped`, `UnitIsPositive`).
  Then `FitAlwaysCodable`, that the answer can be written and read back. No height is
  above the levels, so neither is a prediction, which lies between two heights
  (`RenderedBetween`), and the answer codes each post after those before it
  (`Made`, `OutputMade`): a decoder predicts the same, because the posts it predicts
  from come earlier (`NeighboursBefore`). For a spectrum that is a line: the moments
  weight the bins, but every moment of levels is the same combination of those of
  positions (`SumCombines`, `WholeStraight`), two bins heard make the determinant
  positive (`WholeDisperses`, `WholeSpreads`), and the quotient is then the line,
  without a remainder (`StraightHeight`); no bin is off it (`StraightNear`), so no
  segment is ever split (`StraightKept`, which with `FitInv` is inductive). Weights,
  sums and quotients are exact in the model and doubles in the code: for the code this
  last part holds as long as their error stays below the half that rounding allows.

Only model-checked: packets and files (`DecodesWhatWasCoded`, `ReadersAgreeWithPlan`),
whose definitions are recursive over the data: codeword assignment, trees,
folds over posts and fields; and every liveness property (fairness and ENABLED are
outside the prover).

## Plan

1. Done: decode framing, overlap-add and session, the encode session, feeder,
   selector and planner, handles and their contract, the shared encoder, the pool
   and its specification, the transient detector, the floor fit, what two encodes of
   a source agree on, checked and proved; packets, setup packets and files, checked.
2. Next models: the detector composed with the mode selection; the profile
   lookup and the checks of a WAV conversion; encode composed with
   decode, from modes to frame count; two odd quanta on a shorter source.

## Not modelled

- Floating-point kernels, the detector's transform and levels, the curves of the
  psychoacoustics and the lossy point coupling: their
  specification is bit-exactness against a reference, which the tests compare.
- Profiles: compiled-in tables, more than half of all lines of the repository's
  source, most of them generated, and lookups in them that change no state.
- The command line and the WAV reader and writer: file I/O around the sessions.
- Argument conversion of the bindings, the TypeScript wrapper, the reference
  implementation in Python, scripts and examples.
