---------------------------- MODULE VideoWindows ----------------------------
(***************************************************************************)
(* Cutting one video into windows (iter_pair_records, iter_video_chunks,   *)
(* _window_specs, iter_chunk_windows).  The video is decoded in chunks of  *)
(* bounded length, each with a halo of one window behind its end, and a    *)
(* chunk emits the windows that start inside it.  An ingest may stop after *)
(* any chunk and resume, skipping the chunks the ledger has as committed.  *)
(*                                                                         *)
(* Times are integers (the code's floats with their 1e-9 tolerance), a     *)
(* frame is its timestamp.                                                 *)
(***************************************************************************)
EXTENDS Naturals, FiniteSets

CONSTANTS
  Videos,    \* probed videos: duration and frame timestamps
  Settings   \* window parameters of the manifest with DECODE_CHUNK_S

Pos == Nat \ {0}

\* Frames are no further apart than two samples of one window, the first is at
\* the origin and the last that close to the end.  With pad_last every chunk has
\* a frame of its own to repeat, too.  (README: what sparser videos do.)
Dense(v, s) ==
  LET gap == s.window \div s.count
  IN  /\ 0 \in v.frames
      /\ \A t \in 0..v.duration - 1 : (v.frames \cup {v.duration}) \cap t..t + gap - 1 # {}
      /\ s.policy = "pad_last" =>
           \A t \in {c * s.chunk : c \in 0..v.duration} :
             t < v.duration => v.frames \cap t..t + s.chunk - 1 # {}

ASSUME WindowAssumption ==
  /\ \A v \in Videos : v.duration \in Pos /\ v.frames \subseteq 0..v.duration - 1
  /\ \A s \in Settings : /\ s.chunk \in Pos /\ s.stride \in Pos /\ s.count \in Pos
                         /\ s.window \in Pos /\ s.window % s.count = 0
                         /\ s.policy \in {"drop_partial", "pad_last"}

VARIABLES
  video, set,   \* the video being ingested and the settings of the run
  index,        \* chunk_index the generator is at
  skip,         \* committed chunks the current attempt skips
  ledger,       \* committed chunks
  windows       \* stored windows

vars == <<video, set, index, skip, ledger, windows>>

Init ==
  /\ video \in Videos /\ set \in Settings /\ Dense(video, set)
  /\ index = 0 /\ skip = {} /\ ledger = {} /\ windows = {}

-----------------------------------------------------------------------------
Smallest(a, b) == IF a <= b THEN a ELSE b

\* iter_video_chunks: chunk c and the end of its halo, for chunks of length n.
ChunkStart(n, c) == c * n
ChunkEnd(n, c) == Smallest(video.duration, (c + 1) * n)

\* Mutant of HaloEnd: the decoder stops at the end of the chunk.
HaloEndNone(n, c) == ChunkEnd(n, c)

HaloEnd(n, c) == Smallest(video.duration, ChunkEnd(n, c) + set.window)

\* _iter_decoded_frames: from the chunk's start to the end of its halo.
Decoded(n, c) == {f \in video.frames : ChunkStart(n, c) <= f /\ f < HaloEnd(n, c)}

\* Mutant of FirstIndex: rounded down.
FirstIndexFloor(n, c) == ChunkStart(n, c) \div set.stride

\* ceil(chunk_start / stride)
FirstIndex(n, c) == (ChunkStart(n, c) + set.stride - 1) \div set.stride

\* _window_specs.
Starts(n, c) ==
  {s \in {k * set.stride : k \in FirstIndex(n, c)..video.duration} :
     /\ s < ChunkEnd(n, c)
     /\ s + set.window <= video.duration \/ set.policy = "pad_last"}

\* Sample i of the window that starts at s shows the first decoded frame at or
\* after its target time.
Target(s, i) == s + (set.window * i) \div set.count
After(n, c, s, i) == {f \in Decoded(n, c) : Target(s, i) <= f}
First(S) == CHOOSE f \in S : \A g \in S : f <= g
Last(S) == CHOOSE f \in S : \A g \in S : g <= f

Samples == 0..set.count - 1
Sampled(n, c, s) == {i \in Samples : After(n, c, s, i) # {}}

\* Missing samples repeat the last sampled frame, or the last one decoded.
Padding(n, c, s) ==
  IF Sampled(n, c, s) = {} THEN Last(Decoded(n, c))
  ELSE First(After(n, c, s, Last(Sampled(n, c, s))))

FrameOf(n, c, s, i) ==
  IF i \in Sampled(n, c, s) THEN First(After(n, c, s, i)) ELSE Padding(n, c, s)

Emitted(n, c, s) ==
  \/ Sampled(n, c, s) = Samples
  \/ set.policy = "pad_last" /\ Decoded(n, c) # {}

Window(n, c, s) ==
  [chunk |-> c, start |-> s, end |-> Smallest(s + set.window, video.duration),
   frames |-> [i \in Samples |-> FrameOf(n, c, s, i)]]

\* iter_chunk_windows.
Cut(n, c) == {Window(n, c, s) : s \in {t \in Starts(n, c) : Emitted(n, c, t)}}

-----------------------------------------------------------------------------
More == ChunkStart(set.chunk, index) < video.duration

SkipChunk ==
  /\ More /\ index \in skip
  /\ index' = index + 1
  /\ UNCHANGED <<video, set, skip, ledger, windows>>

\* A chunk that owns no window never reaches the ledger.
EmptyChunk ==
  /\ More /\ index \notin skip /\ Cut(set.chunk, index) = {}
  /\ index' = index + 1
  /\ UNCHANGED <<video, set, skip, ledger, windows>>

\* begin_chunk's cleanup, the writes and commit_chunk.
StoreChunk ==
  /\ More /\ index \notin skip /\ Cut(set.chunk, index) # {}
  /\ index' = index + 1
  /\ windows' = {w \in windows : w.chunk # index} \cup Cut(set.chunk, index)
  /\ ledger' = ledger \cup {index}
  /\ UNCHANGED <<video, set, skip>>

\* The attempt ends in the middle of a chunk: whatever an earlier one stored of
\* it is removed or not yet, and part of it is stored.  The next skips the ledger.
Interrupt ==
  /\ More
  /\ \/ UNCHANGED windows
     \/ /\ index \notin skip
        /\ \E part \in SUBSET Cut(set.chunk, index) :
             windows' = {w \in windows : w.chunk # index} \cup part
  /\ index' = 0 /\ skip' = ledger
  /\ UNCHANGED <<video, set, ledger>>

\* Mutant of Estimate: the window at the end is forgotten.
EstimateShort ==
  IF set.policy = "pad_last" THEN (video.duration + set.stride - 1) \div set.stride
  ELSE IF video.duration < set.window THEN 0
  ELSE (video.duration - set.window) \div set.stride

\* preflight's _segments_for_duration, from the duration alone (which is positive).
Estimate ==
  IF set.policy = "pad_last" THEN (video.duration + set.stride - 1) \div set.stride
  ELSE IF video.duration < set.window THEN 0
  ELSE (video.duration - set.window) \div set.stride + 1

Next == SkipChunk \/ EmptyChunk \/ StoreChunk \/ Interrupt

Spec == Init /\ [][Next]_vars

-----------------------------------------------------------------------------
(* Properties.                                                             *)

Content(W) == {[start |-> w.start, end |-> w.end, frames |-> w.frames] : w \in W}

\* However the video is cut into chunks and wherever the ingest was interrupted
\* and resumed, it ends with the windows, and with the frames in them, that one
\* decoding of the whole video gives.
ChunkingInvisible ==
  ~More => Content(windows) = Content(Cut(video.duration, 0))

\* The estimate on which preflight bases the size of the stores is the number of
\* windows that all attempts together leave behind.
EstimateIsStored == ~More => Cardinality(windows) = Estimate

\* No two chunks store a window with the same start, hence the same segment id.
OneOwner == \A w, x \in windows : w.start = x.start => w.chunk = x.chunk
=============================================================================
