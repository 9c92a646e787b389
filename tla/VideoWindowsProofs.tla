------------------------- MODULE VideoWindowsProofs -------------------------
(***************************************************************************)
(* Theorems about VideoWindows, for every video and every setting, however *)
(* often the ingest was interrupted: the chunks own disjoint windows, they *)
(* end with exactly the windows one decoding of the whole video gives, and *)
(* with as many as the preflight has estimated.                            *)
(***************************************************************************)
EXTENDS VideoWindows, Integers, FiniteSetTheorems, TLAPS

-----------------------------------------------------------------------------
(* Arithmetic.                                                             *)

LEMMA Monotone ==
  ASSUME NEW a \in Nat, NEW b \in Nat, NEW n \in Nat, a <= b
  PROVE  a * n <= b * n
OBVIOUS

LEMMA Division ==
  ASSUME NEW a \in Nat, NEW d \in Pos
  PROVE  /\ a \div d \in Nat /\ a % d \in 0..d - 1
         /\ a = d * (a \div d) + (a % d)
BY DEF Pos

\* The quotient is the number of multiples that fit.
LEMMA Floor ==
  ASSUME NEW a \in Nat, NEW d \in Pos, NEW k \in Nat
  PROVE  k <= a \div d <=> k * d <= a
<1>. DEFINE q == a \div d
            r == a % d
<1>1. q \in Nat /\ r \in Nat /\ r < d /\ d \in Nat /\ a = d * q + r
  BY Division DEF Pos
<1>. HIDE DEF q, r
<1>2. CASE k <= q
  BY <1>1, <1>2, Monotone
<1>3. CASE q + 1 <= k
  <2>1. (q + 1) * d <= k * d
    BY <1>1, <1>3, Monotone
  <2>. QED
    BY <1>1, <1>3, <2>1
<1>. QED
  BY <1>1, <1>2, <1>3 DEF q

\* Rounded up: the multiples from ceil(a / d) on are those not below a.
LEMMA Ceiling ==
  ASSUME NEW a \in Nat, NEW d \in Pos, NEW k \in Nat
  PROVE  /\ (a + d - 1) \div d \in Nat
         /\ (a + d - 1) \div d <= k <=> a <= k * d
<1>1. a + d - 1 \in Nat /\ d \in Nat /\ d > 0
  BY DEF Pos
<1>. DEFINE q == (a + d - 1) \div d
<1>2. q \in Nat
  BY <1>1, Division
<1>3. k + 1 <= q <=> (k + 1) * d <= a + d - 1
  BY <1>1, Floor
<1>. HIDE DEF q
<1>4. (k + 1) * d <= a + d - 1 <=> k * d < a
  BY <1>1
<1>5. k * d \in Nat
  BY <1>1
<1>. QED
  BY <1>2, <1>3, <1>4, <1>5 DEF q

-----------------------------------------------------------------------------
(* Least and greatest numbers.                                             *)

Below == {p \in Nat \X Nat : p[1] < p[2]}

LEMMA LeastNumber ==
  ASSUME NEW T \in SUBSET Nat, T # {}
  PROVE  \E n \in T : \A m \in T : n <= m
<1>1. IsWellFoundedOn(Below, Nat)
  BY NatLessThanWellFounded, Zenon DEF OpToRel, Below
<1>2. PICK n \in T : \A m \in T : <<m, n>> \notin Below
  BY <1>1, WFMin, Zenon
<1>3. \A m \in T : ~(m < n)
  BY <1>2 DEF Below
<1>4. \A m \in T : m \in Nat /\ n \in Nat
  OBVIOUS
<1>. QED
  BY <1>3, <1>4

LEMMA GreatestNumber ==
  ASSUME NEW T \in SUBSET Nat, T # {}, NEW b \in Nat, \A n \in T : n <= b
  PROVE  \E n \in T : \A m \in T : m <= n
<1>. DEFINE U == {b - n : n \in T}
<1>1. U \in SUBSET Nat /\ U # {}
  <2>1. \A n \in T : n \in Nat /\ b - n \in Nat /\ b - n \in U
    OBVIOUS
  <2>. QED
    BY <2>1
<1>2. PICK u \in U : \A v \in U : u <= v
  BY <1>1, LeastNumber
<1>3. PICK n \in T : u = b - n
  BY <1>2
<1>4. \A m \in T : b - n <= b - m
  BY <1>2, <1>3
<1>. QED
  BY <1>4

LEMMA FirstIs ==
  ASSUME NEW T \in SUBSET Nat, NEW m \in T, \A g \in T : m <= g
  PROVE  First(T) = m
<1>1. First(T) \in T /\ \A g \in T : First(T) <= g
  BY DEF First
<1>2. First(T) \in Nat /\ m \in Nat /\ First(T) <= m /\ m <= First(T)
  BY <1>1
<1>. QED
  BY <1>2

LEMMA LastIs ==
  ASSUME NEW T \in SUBSET Nat, NEW m \in T, \A g \in T : g <= m
  PROVE  Last(T) = m
<1>1. Last(T) \in T /\ \A g \in T : g <= Last(T)
  BY DEF Last
<1>2. Last(T) \in Nat /\ m \in Nat /\ Last(T) <= m /\ m <= Last(T)
  BY <1>1
<1>. QED
  BY <1>2

-----------------------------------------------------------------------------
(* Who owns a start.                                                       *)

\* A chunk of length n owns the starts in [c * n, (c + 1) * n).
Owned(n, c, s) == c \in Nat /\ s \in Nat /\ c * n <= s /\ s < (c + 1) * n

LEMMA OwnersDiffer ==
  ASSUME NEW n \in Pos, NEW c, NEW d, NEW s, Owned(n, c, s), Owned(n, d, s)
  PROVE  c = d
<1>1. ASSUME NEW a \in Nat, NEW b \in Nat, a < b, s \in Nat, s < (a + 1) * n, b * n <= s
      PROVE  FALSE
  <2>1. (a + 1) * n <= b * n
    BY <1>1, Monotone DEF Pos
  <2>. QED
    BY <1>1, <2>1 DEF Pos
<1>. QED
  BY <1>1 DEF Owned

\* The starts of the video's windows, however it is cut.
AllStarts ==
  {s \in {k * set.stride : k \in 0..video.duration} :
     /\ s < video.duration
     /\ s + set.window <= video.duration \/ set.policy = "pad_last"}

\* The video and the settings are the ones of an ingest.
InputInv == video \in Videos /\ set \in Settings /\ Dense(video, set)

LEMMA InputFacts ==
  ASSUME InputInv
  PROVE  /\ video.duration \in Pos /\ video.frames \in SUBSET Nat
         /\ \A f \in video.frames : f < video.duration
         /\ set.chunk \in Pos /\ set.stride \in Pos /\ set.window \in Pos /\ set.count \in Pos
         /\ set.window % set.count = 0 /\ set.policy \in {"drop_partial", "pad_last"}
BY WindowAssumption DEF InputInv, Pos

\* _window_specs hands every start to the chunk it lies in, and to no other.
LEMMA StartsOwned ==
  ASSUME InputInv, NEW n \in Pos, NEW c \in Nat, NEW s
  PROVE  s \in Starts(n, c) <=> s \in AllStarts /\ Owned(n, c, s)
<1>1. /\ video.duration \in Pos /\ set.stride \in Pos
      /\ video.duration \in Nat /\ set.stride \in Nat
  BY InputFacts DEF Pos
<1>2. c * n \in Nat /\ (c + 1) * n \in Nat
  BY DEF Pos
<1>3. FirstIndex(n, c) \in Nat /\ \A k \in Nat : FirstIndex(n, c) <= k <=> c * n <= k * set.stride
  BY <1>1, <1>2, Ceiling DEF FirstIndex, ChunkStart
<1>4. \A k \in Nat : k * set.stride \in Nat
  BY <1>1
<1>5. \A x \in Nat : x < ChunkEnd(n, c) <=> x < video.duration /\ x < (c + 1) * n
  BY <1>1, <1>2 DEF ChunkEnd, Smallest
<1>6. \A k \in Nat : k \in FirstIndex(n, c)..video.duration
                     <=> k \in 0..video.duration /\ c * n <= k * set.stride
  BY <1>1, <1>3
<1>. QED
  BY <1>3, <1>4, <1>5, <1>6 DEF Starts, AllStarts, Owned

\* Every start has its chunk.
LEMMA StartsCovered ==
  ASSUME InputInv, NEW s \in AllStarts
  PROVE  /\ s \in Nat /\ s \div set.chunk \in Nat
         /\ s \in Starts(set.chunk, s \div set.chunk)
         /\ s \in Starts(video.duration, 0)
<1>1. /\ video.duration \in Pos /\ set.chunk \in Pos /\ set.stride \in Nat
      /\ video.duration \in Nat /\ set.chunk \in Nat
  BY InputFacts DEF Pos
<1>2. s \in Nat /\ s < video.duration
  BY <1>1 DEF AllStarts
<1>. DEFINE c == s \div set.chunk
<1>3. c \in Nat /\ s % set.chunk \in 0..set.chunk - 1 /\ s = set.chunk * c + (s % set.chunk)
  BY <1>1, <1>2, Division
<1>. HIDE DEF c
<1>4. Owned(set.chunk, c, s)
  <2>. DEFINE n == set.chunk
              r == s % n
  <2>1. n \in Nat /\ r \in Nat /\ r < n /\ s = n * c + r
    BY <1>1, <1>3
  <2>. HIDE DEF n, r
  <2>2. c * n <= s /\ s < (c + 1) * n
    BY <1>3, <2>1
  <2>. QED
    BY <1>2, <1>3, <2>2 DEF Owned, n
<1>5. Owned(video.duration, 0, s)
  BY <1>1, <1>2 DEF Owned
<1>. QED
  BY <1>1, <1>2, <1>3, <1>4, <1>5, StartsOwned DEF c

-----------------------------------------------------------------------------
(* What a chunk decodes is enough for the windows it owns.                 *)

Gap == set.window \div set.count

LEMMA Sampling ==
  ASSUME InputInv, NEW s \in Nat
  PROVE  /\ Gap \in Pos /\ 0 \in Samples /\ Target(s, 0) = s
         /\ \A i \in Samples : Target(s, i) \in Nat /\ s <= Target(s, i)
                               /\ Target(s, i) + Gap <= s + set.window
<1>. DEFINE w == set.window
            n == set.count
            g == w \div n
<1>1. w \in Nat /\ w > 0 /\ n \in Nat /\ n > 0 /\ w % n = 0 /\ n \in Pos
  BY InputFacts DEF Pos
<1>2. g \in Nat /\ w = n * g
  <2>1. w \div n \in Nat /\ w = n * (w \div n) + (w % n)
    BY <1>1, Division
  <2>. QED
    BY <1>1, <2>1
<1>3. Gap = g /\ 0 \in Samples
  BY <1>1 DEF Gap, Samples
<1>. HIDE DEF w, n, g
<1>4. g > 0
  BY <1>1, <1>2
<1>5. ASSUME NEW i \in 0..n - 1
      PROVE  (w * i) \div n = g * i /\ g * i \in Nat /\ g * i + g <= w
  <2>1. i \in Nat /\ g * i \in Nat /\ w * i \in Nat /\ w * i = (g * i) * n
    BY <1>1, <1>2
  <2>2. g * i <= (w * i) \div n
    BY <1>1, <2>1, Floor
  <2>3. ~(g * i + 1 <= (w * i) \div n)
    <3>1. ~((g * i + 1) * n <= w * i)
      BY <1>1, <2>1
    <3>. QED
      BY <1>1, <2>1, <3>1, Floor
  <2>4. (w * i) \div n \in Nat
    BY <1>1, <2>1, Division
  <2>5. (i + 1) * g <= n * g
    BY <1>1, <1>2, <2>1, Monotone
  <2>. QED
    BY <1>2, <2>1, <2>2, <2>3, <2>4, <2>5
<1>6. \A i \in Samples : Target(s, i) = s + g * i
  BY <1>5 DEF Target, Samples, w, n
<1>7. \A i \in Samples : g * i \in Nat /\ g * i + g <= w
  BY <1>5 DEF Samples, n
<1>8. g * 0 = 0
  BY <1>2
<1>9. Target(s, 0) = s
  BY <1>3, <1>6, <1>8
<1>10. Gap \in Pos
  BY <1>2, <1>3, <1>4 DEF Pos
<1>11. ASSUME NEW i \in Samples
       PROVE  Target(s, i) \in Nat /\ s <= Target(s, i) /\ Target(s, i) + Gap <= s + set.window
  <2>. DEFINE p == g * i
  <2>1. p \in Nat /\ p + g <= w /\ Target(s, i) = s + p
    BY <1>6, <1>7
  <2>. HIDE DEF p
  <2>. QED
    BY <1>1, <1>2, <1>3, <2>1 DEF w
<1>. QED
  BY <1>3, <1>9, <1>10, <1>11

LEMMA WholeDecoded ==
  ASSUME InputInv
  PROVE  Decoded(video.duration, 0) = video.frames
<1>1. ChunkStart(video.duration, 0) = 0 /\ HaloEnd(video.duration, 0) = video.duration
  BY InputFacts DEF ChunkStart, HaloEnd, ChunkEnd, Smallest, Pos
<1>. QED
  BY <1>1, InputFacts DEF Decoded

\* The halo of a chunk ends with the video, or a window behind every start it owns.
LEMMA Halo ==
  ASSUME InputInv, NEW n \in Pos, NEW c \in Nat, NEW s \in Starts(n, c)
  PROVE  /\ s \in Nat /\ s < video.duration /\ ChunkStart(n, c) <= s /\ ChunkStart(n, c) \in Nat
         /\ HaloEnd(n, c) = video.duration \/ s + set.window < HaloEnd(n, c)
         /\ HaloEnd(n, c) \in Nat /\ HaloEnd(n, c) <= video.duration /\ s < HaloEnd(n, c)
         /\ s + set.window <= video.duration => s + set.window <= HaloEnd(n, c)
<1>1. s \in AllStarts /\ Owned(n, c, s)
  BY StartsOwned
<1>2. s \in Nat /\ s < video.duration /\ c * n <= s /\ s < (c + 1) * n
  BY <1>1 DEF Owned, AllStarts
<1>3. /\ c * n \in Nat /\ (c + 1) * n \in Nat
      /\ video.duration \in Nat /\ set.window \in Nat /\ set.window > 0
  BY InputFacts DEF Pos
<1>. DEFINE a == (c + 1) * n
<1>. HIDE DEF a
<1>4. s < a /\ a \in Nat /\ ChunkEnd(n, c) = Smallest(video.duration, a)
  BY <1>2, <1>3 DEF ChunkEnd, a
<1>. QED
  BY <1>2, <1>3, <1>4 DEF ChunkStart, HaloEnd, Smallest

\* A sample shows the same frame whether the chunk is decoded or the whole video.
LEMMA SampleFrames ==
  ASSUME InputInv, NEW n \in Pos, NEW c \in Nat, NEW s \in Starts(n, c), NEW i \in Samples
  PROVE  /\ After(n, c, s, i) # {} <=> After(video.duration, 0, s, i) # {}
         /\ After(n, c, s, i) # {} => First(After(n, c, s, i)) = First(After(video.duration, 0, s, i))
<1>. DEFINE A == After(n, c, s, i)
            B == After(video.duration, 0, s, i)
            h == HaloEnd(n, c)
            t == Target(s, i)
<1>1. /\ s \in Nat /\ ChunkStart(n, c) <= s /\ ChunkStart(n, c) \in Nat
      /\ h = video.duration \/ s + set.window < h
      /\ h \in Nat /\ h <= video.duration
  BY Halo
<1>2. /\ t \in Nat /\ s <= t /\ t + Gap <= s + set.window /\ Gap \in Nat /\ Gap > 0
      /\ set.window \in Nat /\ video.duration \in Nat
  BY <1>1, Sampling, InputFacts DEF Pos
<1>3. B = {f \in video.frames : t <= f} /\ B \in SUBSET Nat
  BY WholeDecoded, InputFacts DEF After
<1>4. A = {f \in B : f < h}
  <2>1. \A f \in video.frames : f \in Nat /\ (t <= f => ChunkStart(n, c) <= f)
    BY <1>1, <1>2, InputFacts
  <2>. QED
    BY <1>3, <2>1 DEF After, Decoded
<1>5. ASSUME B # {}
      PROVE  \E f \in B : f < h
  <2>1. PICK g \in B : TRUE
    BY <1>5
  <2>2. g \in video.frames /\ g \in Nat /\ t <= g /\ g < video.duration
    BY <1>3, <2>1, InputFacts
  <2>3. CASE h = video.duration
    BY <2>2, <2>3
  <2>4. CASE s + set.window < h
    <3>1. t \in 0..video.duration - 1
      BY <1>2, <2>2
    <3>2. PICK f \in video.frames \cup {video.duration} : f \in t..t + Gap - 1
      BY <3>1, Zenon DEF InputInv, Dense, Gap
    <3>3. f \in Nat /\ t <= f /\ f < h
      BY <1>1, <1>2, <2>4, <3>2
    <3>. QED
      BY <1>1, <1>2, <1>3, <3>2, <3>3
  <2>. QED
    BY <1>1, <2>3, <2>4
<1>. HIDE DEF A, B, h, t
<1>6. ASSUME A # {}
      PROVE  First(A) = First(B)
  <2>1. PICK m \in B : \A g \in B : m <= g
    BY <1>3, <1>4, <1>6, LeastNumber
  <2>2. PICK f \in B : f < h
    BY <1>5, <2>1
  <2>3. m < h
    BY <1>1, <1>3, <2>1, <2>2
  <2>4. m \in A /\ A \in SUBSET Nat /\ \A g \in A : m <= g
    BY <1>3, <1>4, <2>1, <2>3
  <2>. QED
    BY <1>3, <2>1, <2>4, FirstIs
<1>. QED
  BY <1>4, <1>5, <1>6 DEF A, B

\* A window that drop_partial keeps has all its samples.
LEMMA FullWindow ==
  ASSUME InputInv, NEW s \in Nat, s + set.window <= video.duration
  PROVE  \A i \in Samples : After(video.duration, 0, s, i) # {}
<1>. SUFFICES ASSUME NEW i \in Samples PROVE After(video.duration, 0, s, i) # {}
  OBVIOUS
<1>. DEFINE t == Target(s, i)
<1>1. /\ t \in Nat /\ s <= t /\ t + Gap <= s + set.window /\ Gap \in Nat /\ Gap > 0
      /\ set.window \in Nat /\ video.duration \in Nat
  BY Sampling, InputFacts DEF Pos
<1>. HIDE DEF t
<1>2. t \in 0..video.duration - 1
  BY <1>1
<1>3. PICK f \in video.frames \cup {video.duration} : f \in t..t + Gap - 1
  BY <1>2, Zenon DEF InputInv, Dense, Gap
<1>4. t <= f /\ f # video.duration
  BY <1>1, <1>3
<1>. QED
  BY <1>3, <1>4, WholeDecoded DEF After, t

LEMMA SampledAlike ==
  ASSUME InputInv, NEW n \in Pos, NEW c \in Nat, NEW s \in Starts(n, c)
  PROVE  Sampled(n, c, s) = Sampled(video.duration, 0, s)
BY SampleFrames DEF Sampled

\* Without a frame at or after the start, the chunk decodes to the end of the video,
\* and its last frame is the video's.
LEMMA PaddingAlike ==
  ASSUME InputInv, NEW n \in Pos, NEW c \in Nat, NEW s \in Starts(n, c), Decoded(n, c) # {}
  PROVE  Padding(n, c, s) = Padding(video.duration, 0, s)
<1>. DEFINE S == Sampled(n, c, s)
<1>1. S = Sampled(video.duration, 0, s)
  BY SampledAlike
<1>2. CASE S # {}
  <2>1. S \in SUBSET Nat /\ S \subseteq Samples /\ \A i \in S : i <= set.count
    BY InputFacts DEF Sampled, Samples, Pos
  <2>2. set.count \in Nat
    BY InputFacts DEF Pos
  <2>. HIDE DEF S
  <2>3. PICK m \in S : \A j \in S : j <= m
    BY <1>2, <2>1, <2>2, GreatestNumber
  <2>4. Last(S) \in Samples /\ Last(S) \in S
    BY <2>1, <2>3, LastIs
  <2>5. After(n, c, s, Last(S)) # {}
    BY <2>4 DEF S, Sampled
  <2>6. First(After(n, c, s, Last(S))) = First(After(video.duration, 0, s, Last(S)))
    BY <2>4, <2>5, SampleFrames
  <2>. QED
    BY <1>1, <1>2, <2>6 DEF Padding, S
<1>3. CASE S = {}
  <2>1. /\ s \in Nat /\ s < video.duration /\ ChunkStart(n, c) <= s
        /\ HaloEnd(n, c) = video.duration \/ s + set.window < HaloEnd(n, c)
        /\ HaloEnd(n, c) \in Nat /\ HaloEnd(n, c) <= video.duration
    BY Halo
  <2>2. After(video.duration, 0, s, 0) = {}
    BY <1>1, <1>3, <2>1, Sampling DEF Sampled
  <2>3. HaloEnd(n, c) = video.duration
    <3>1. ASSUME s + set.window <= video.duration
          PROVE  FALSE
      BY <2>1, <2>2, <3>1, FullWindow, Sampling
    <3>2. set.window \in Nat /\ video.duration \in Nat
      BY InputFacts DEF Pos
    <3>. QED
      BY <2>1, <3>1, <3>2
  <2>4. Decoded(n, c) = {f \in video.frames : ChunkStart(n, c) <= f}
    BY <2>3, InputFacts DEF Decoded
  <2>5. PICK m \in video.frames : \A f \in video.frames : f <= m
    <3>1. video.frames \in SUBSET Nat /\ video.duration \in Nat
          /\ \A f \in video.frames : f <= video.duration
      BY InputFacts DEF Pos
    <3>2. video.frames # {}
      BY <2>4
    <3>. QED
      BY <3>1, <3>2, GreatestNumber
  <2>6. /\ video.frames \in SUBSET Nat /\ Decoded(n, c) \in SUBSET Nat
        /\ m \in Decoded(n, c) /\ \A f \in Decoded(n, c) : f <= m
    <3>1. PICK g \in video.frames : ChunkStart(n, c) <= g
      BY <2>4
    <3>2. g \in Nat /\ m \in Nat /\ g <= m /\ ChunkStart(n, c) \in Nat
      BY <2>5, Halo, InputFacts
    <3>. QED
      BY <2>4, <2>5, <3>1, <3>2, InputFacts
  <2>7. Last(Decoded(n, c)) = Last(video.frames)
    BY <2>5, <2>6, LastIs
  <2>. QED
    BY <1>1, <1>3, <2>7, WholeDecoded DEF Padding
<1>. QED
  BY <1>2, <1>3

\* A chunk that decodes anything emits the windows of its starts, with the frames
\* they have in the whole video.
LEMMA WindowAlike ==
  ASSUME InputInv, NEW n \in Pos, NEW c \in Nat, NEW s \in Starts(n, c),
         set.policy = "pad_last" => Decoded(n, c) # {}
  PROVE  /\ Emitted(n, c, s)
         /\ \A i \in Samples : FrameOf(n, c, s, i) = FrameOf(video.duration, 0, s, i)
<1>1. s \in Nat /\ (set.policy = "drop_partial" => s + set.window <= video.duration)
  BY Halo DEF Starts
<1>2. Sampled(n, c, s) = Sampled(video.duration, 0, s)
  BY SampledAlike
<1>3. set.policy = "drop_partial" => Sampled(n, c, s) = Samples
  BY <1>1, <1>2, FullWindow DEF Sampled
<1>4. set.policy \in {"drop_partial", "pad_last"}
  BY InputFacts
<1>5. Emitted(n, c, s)
  BY <1>3, <1>4 DEF Emitted
<1>6. ASSUME NEW i \in Samples
      PROVE  FrameOf(n, c, s, i) = FrameOf(video.duration, 0, s, i)
  <2>1. CASE i \in Sampled(n, c, s)
    BY <1>2, <2>1, SampleFrames DEF FrameOf, Sampled
  <2>2. CASE i \notin Sampled(n, c, s)
    <3>1. Decoded(n, c) # {}
      BY <1>3, <1>4, <2>2
    <3>. QED
      BY <1>2, <2>2, <3>1, PaddingAlike DEF FrameOf
  <2>. QED
    BY <2>1, <2>2
<1>. QED
  BY <1>5, <1>6

-----------------------------------------------------------------------------
(* What is stored.                                                         *)

\* Every chunk that may have windows decodes a frame to repeat.
LEMMA ChunkDecodes ==
  ASSUME InputInv, NEW c \in Nat, c * set.chunk < video.duration, set.policy = "pad_last"
  PROVE  Decoded(set.chunk, c) # {}
<1>. DEFINE n == set.chunk
            a == c * n
<1>1. /\ n \in Nat /\ n > 0 /\ video.duration \in Nat /\ set.window \in Nat
  BY InputFacts DEF Pos
<1>2. a \in Nat /\ (c + 1) * n = a + n /\ c <= a
  BY <1>1
<1>3. a < video.duration /\ a \in {d * n : d \in 0..video.duration}
  BY <1>1, <1>2
<1>4. \E f \in video.frames : f \in a..a + n - 1
  <2>1. video.frames \cap a..a + n - 1 # {}
    BY <1>3, Zenon DEF InputInv, Dense, n
  <2>. QED
    BY <2>1
<1>. HIDE DEF a, n
<1>5. PICK f \in video.frames : f \in a..a + n - 1
  BY <1>4
<1>6. f \in Nat /\ a <= f /\ f < a + n /\ f < video.duration
  BY <1>1, <1>2, <1>5, InputFacts
<1>7. ChunkStart(n, c) = a /\ ChunkEnd(n, c) = Smallest(video.duration, a + n)
  BY <1>2 DEF ChunkStart, ChunkEnd, a
<1>8. f < HaloEnd(n, c)
  BY <1>1, <1>2, <1>6, <1>7 DEF HaloEnd, Smallest
<1>. QED
  BY <1>5, <1>6, <1>7, <1>8 DEF Decoded, n

\* The window of a start, as the whole video shows it.
Shown(s) == [i \in Samples |-> FrameOf(video.duration, 0, s, i)]

Piece(c, s) ==
  [chunk |-> c, start |-> s, end |-> Smallest(s + set.window, video.duration), frames |-> Shown(s)]

\* One window for each start a chunk owns.
LEMMA CutIs ==
  ASSUME InputInv, NEW c \in Nat
  PROVE  Cut(set.chunk, c) = {Piece(c, s) : s \in Starts(set.chunk, c)}
<1>1. set.chunk \in Pos
  BY InputFacts
<1>2. ASSUME NEW s \in Starts(set.chunk, c)
      PROVE  Emitted(set.chunk, c, s) /\ Window(set.chunk, c, s) = Piece(c, s)
  <2>1. set.policy = "pad_last" => Decoded(set.chunk, c) # {}
    <3>1. s \in Nat /\ c * set.chunk <= s /\ s < video.duration /\ c * set.chunk \in Nat
          /\ video.duration \in Nat
      BY <1>1, Halo, InputFacts DEF ChunkStart, Pos
    <3>2. c * set.chunk < video.duration
      BY <3>1
    <3>. QED
      BY <3>2, ChunkDecodes
  <2>2. /\ Emitted(set.chunk, c, s)
        /\ \A i \in Samples : FrameOf(set.chunk, c, s, i) = FrameOf(video.duration, 0, s, i)
    BY <1>1, <2>1, WindowAlike
  <2>3. [i \in Samples |-> FrameOf(set.chunk, c, s, i)] = Shown(s)
    BY <2>2 DEF Shown
  <2>. QED
    BY <2>2, <2>3 DEF Window, Piece
<1>. QED
  BY <1>2 DEF Cut

LEMMA WholeCutIs ==
  ASSUME InputInv
  PROVE  Cut(video.duration, 0) = {Piece(0, s) : s \in AllStarts}
<1>1. video.duration \in Pos /\ video.duration \in Nat
  BY InputFacts DEF Pos
<1>2. Starts(video.duration, 0) = AllStarts
  <2>1. \A s \in Starts(video.duration, 0) : s \in AllStarts
    BY <1>1, StartsOwned
  <2>. QED
    BY <2>1, StartsCovered
<1>3. ASSUME NEW s \in AllStarts
      PROVE  Emitted(video.duration, 0, s) /\ Window(video.duration, 0, s) = Piece(0, s)
  <2>1. Decoded(video.duration, 0) # {}
    BY WholeDecoded DEF InputInv, Dense
  <2>2. Emitted(video.duration, 0, s)
    BY <1>1, <1>2, <2>1, WindowAlike
  <2>. QED
    BY <2>2 DEF Window, Piece, Shown
<1>. QED
  BY <1>2, <1>3 DEF Cut

\* What the attempts have stored: only windows their chunks are cut into, and all of
\* those of a committed chunk and of a chunk the attempt has passed.
StoreInv ==
  /\ InputInv
  /\ index \in Nat /\ ledger \in SUBSET Nat
  /\ \A w \in windows : w.chunk \in Nat /\ w \in Cut(set.chunk, w.chunk)
  /\ skip \subseteq ledger /\ \A c \in ledger : c \in skip \/ c < index
  /\ \A c \in Nat : c \in ledger \/ c < index => Cut(set.chunk, c) \subseteq windows

LEMMA CutFacts ==
  ASSUME InputInv, NEW c \in Nat
  PROVE  \A w \in Cut(set.chunk, c) : w.chunk = c /\ w.start \in Starts(set.chunk, c)
BY CutIs DEF Piece

LEMMA CutSame ==
  ASSUME UNCHANGED <<video, set>>
  PROVE  /\ \A c : Cut(set.chunk, c)' = Cut(set.chunk, c)
         /\ InputInv' = InputInv
BY DEF Cut, Window, Emitted, FrameOf, Padding, Sampled, Samples, After, Target, Starts, FirstIndex,
       Decoded, HaloEnd, ChunkEnd, ChunkStart, Smallest, InputInv, Dense

LEMMA StoreStep ==
  ASSUME StoreInv, [Next]_vars
  PROVE  StoreInv'
<1>. DEFINE cut(c) == Cut(set.chunk, c)
<1>1. /\ InputInv /\ index \in Nat /\ ledger \in SUBSET Nat
      /\ \A w \in windows : w.chunk \in Nat /\ w \in cut(w.chunk)
      /\ skip \subseteq ledger /\ \A c \in ledger : c \in skip \/ c < index
      /\ \A c \in Nat : c \in ledger \/ c < index => cut(c) \subseteq windows
  BY DEF StoreInv
<1>2. InputInv' /\ \A c : Cut(set.chunk, c)' = cut(c)
  <2>1. UNCHANGED <<video, set>>
    BY DEF Next, SkipChunk, EmptyChunk, StoreChunk, Interrupt, vars
  <2>. QED
    BY <1>1, <2>1, CutSame
<1>3. \A c \in Nat : \A w \in cut(c) : w.chunk = c
  BY <1>1, CutFacts
<1>. HIDE DEF cut
<1>4. SUFFICES /\ index' \in Nat /\ ledger' \in SUBSET Nat
               /\ \A w \in windows' : w.chunk \in Nat /\ w \in cut(w.chunk)
               /\ skip' \subseteq ledger' /\ \A c \in ledger' : c \in skip' \/ c < index'
               /\ \A c \in Nat : c \in ledger' \/ c < index' => cut(c) \subseteq windows'
  BY <1>2 DEF StoreInv
<1>5. CASE UNCHANGED vars
  BY <1>1, <1>5 DEF vars
<1>6. CASE SkipChunk
  BY <1>1, <1>6 DEF SkipChunk
<1>7. CASE EmptyChunk
  BY <1>1, <1>7 DEF EmptyChunk, cut
<1>8. CASE StoreChunk
  <2>1. /\ index' = index + 1 /\ ledger' = ledger \cup {index} /\ skip' = skip
        /\ windows' = {w \in windows : w.chunk # index} \cup cut(index)
    BY <1>8 DEF StoreChunk, cut
  <2>2. \A c \in Nat : c \in ledger \/ c < index \/ c = index => cut(c) \subseteq windows'
    BY <1>1, <1>3, <2>1
  <2>. QED
    BY <1>1, <1>3, <2>1, <2>2
<1>9. CASE Interrupt
  <2>1. /\ index' = 0 /\ skip' = ledger /\ ledger' = ledger
        /\ \/ windows' = windows
           \/ /\ index \notin skip
              /\ \E part \in SUBSET cut(index) :
                   windows' = {w \in windows : w.chunk # index} \cup part
    BY <1>9 DEF Interrupt, cut
  <2>2. index \notin skip => index \notin ledger
    BY <1>1
  <2>3. /\ \A w \in windows' : w.chunk \in Nat /\ w \in cut(w.chunk)
        /\ \A c \in ledger : cut(c) \subseteq windows'
    BY <1>1, <1>3, <2>1, <2>2
  <2>. QED
    BY <1>1, <2>1, <2>3
<1>. QED
  BY <1>5, <1>6, <1>7, <1>8, <1>9 DEF Next

LEMMA StoreHolds == Spec => []StoreInv
<1>1. Init => StoreInv
  BY DEF Init, StoreInv, InputInv
<1>. QED
  BY <1>1, StoreStep, PTL DEF Spec

\* At the end of an ingest: one window per start, stored by its owner.
LEMMA AllStored ==
  ASSUME StoreInv, ~More
  PROVE  windows = {Piece(s \div set.chunk, s) : s \in AllStarts}
<1>. DEFINE n == set.chunk
<1>1. /\ InputInv /\ index \in Nat /\ n \in Pos /\ n \in Nat
      /\ video.duration \in Nat /\ video.duration <= index * n
  BY InputFacts DEF StoreInv, More, ChunkStart, Pos
<1>2. ASSUME NEW w \in windows
      PROVE  \E s \in AllStarts : w = Piece(s \div n, s)
  <2>1. w.chunk \in Nat /\ w \in Cut(n, w.chunk)
    BY DEF StoreInv
  <2>2. PICK s \in Starts(n, w.chunk) : w = Piece(w.chunk, s)
    BY <1>1, <2>1, CutIs
  <2>3. s \in AllStarts /\ Owned(n, w.chunk, s)
    BY <1>1, <2>1, <2>2, StartsOwned
  <2>4. s \div n \in Nat /\ s \in Starts(n, s \div n)
    BY <1>1, <2>3, StartsCovered
  <2>5. Owned(n, s \div n, s)
    BY <1>1, <2>4, StartsOwned
  <2>6. w.chunk = s \div n
    BY <1>1, <2>3, <2>5, OwnersDiffer
  <2>. QED
    BY <2>2, <2>3, <2>6
<1>3. ASSUME NEW s \in AllStarts
      PROVE  Piece(s \div n, s) \in windows
  <2>. DEFINE c == s \div n
  <2>1. c \in Nat /\ s \in Starts(n, c) /\ s \in Nat /\ s < video.duration
    BY <1>1, StartsCovered DEF AllStarts
  <2>. HIDE DEF c
  <2>2. c * n <= s
    BY <1>1, <2>1, StartsOwned DEF Owned
  <2>3. c < index
    <3>1. ASSUME index <= c
          PROVE  FALSE
      <4>1. index * n <= c * n /\ index * n \in Nat /\ c * n \in Nat
        BY <1>1, <2>1, <3>1, Monotone
      <4>. QED
        BY <1>1, <2>1, <2>2, <4>1
    <3>. QED
      BY <1>1, <2>1, <3>1
  <2>4. Cut(n, c) \subseteq windows
    BY <2>1, <2>3 DEF StoreInv
  <2>. QED
    BY <1>1, <2>1, <2>4, CutIs DEF c
<1>. QED
  BY <1>2, <1>3

-----------------------------------------------------------------------------
(* Counting.                                                               *)

\* The starts are the first Estimate multiples of the stride.
LEMMA StartsCounted ==
  ASSUME InputInv
  PROVE  /\ Estimate \in Nat
         /\ AllStarts = {k * set.stride : k \in 0..Estimate - 1}
<1>. DEFINE d == video.duration
            t == set.stride
            w == set.window
<1>1. /\ d \in Nat /\ d > 0 /\ t \in Nat /\ t > 0 /\ t \in Pos /\ w \in Nat /\ w > 0
      /\ set.policy \in {"drop_partial", "pad_last"}
  BY InputFacts DEF Pos
<1>2. AllStarts = {s \in {k * t : k \in 0..d} : s < d /\ (s + w <= d \/ set.policy = "pad_last")}
  BY DEF AllStarts
<1>3. Estimate = IF set.policy = "pad_last" THEN (d + t - 1) \div t
                 ELSE IF d < w THEN 0 ELSE (d - w) \div t + 1
  BY DEF Estimate
<1>. HIDE DEF d, t, w
<1>4. \A k \in Nat : k * t \in Nat /\ k <= k * t
  BY <1>1
<1>5. SUFFICES /\ Estimate \in Nat
               /\ \A k \in Nat : k < Estimate
                                 <=> k * t < d /\ (k * t + w <= d \/ set.policy = "pad_last")
  <2>1. ASSUME Estimate \in Nat,
               \A k \in Nat : k < Estimate
                              <=> k * t < d /\ (k * t + w <= d \/ set.policy = "pad_last")
        PROVE  AllStarts = {k * t : k \in 0..Estimate - 1}
    <3>1. \A k \in Nat : k * t < d => k \in 0..d
      BY <1>1, <1>4
    <3>2. \A k : k \in 0..Estimate - 1 <=> k \in Nat /\ k < Estimate
      BY <2>1
    <3>3. \A k : k \in 0..d => k \in Nat
      BY <1>1
    <3>. QED
      BY <1>2, <2>1, <3>1, <3>2, <3>3
  <2>. QED
    BY <2>1, <1>5 DEF t
<1>6. CASE set.policy = "pad_last"
  <2>1. Estimate \in Nat /\ \A k \in Nat : Estimate <= k <=> d <= k * t
    BY <1>1, <1>3, <1>6, Ceiling
  <2>2. \A k \in Nat : k < Estimate <=> k * t < d
    BY <1>1, <1>4, <2>1
  <2>. QED
    BY <1>6, <2>1, <2>2
<1>7. CASE set.policy # "pad_last" /\ d < w
  BY <1>1, <1>3, <1>4, <1>7
<1>8. CASE set.policy # "pad_last" /\ w <= d
  <2>. DEFINE q == (d - w) \div t
  <2>1. d - w \in Nat
    BY <1>1, <1>8
  <2>2. q \in Nat /\ \A k \in Nat : k <= q <=> k * t <= d - w
    BY <1>1, <2>1, Division, Floor
  <2>3. Estimate = q + 1
    BY <1>1, <1>3, <1>8
  <2>. HIDE DEF q
  <2>4. \A k \in Nat : k * t <= d - w <=> k * t < d /\ k * t + w <= d
    BY <1>1, <1>4
  <2>. QED
    BY <1>8, <2>2, <2>3, <2>4
<1>. QED
  BY <1>1, <1>6, <1>7, <1>8

\* A set of E things, one for each number below E.
LEMMA Counted ==
  ASSUME NEW E \in Nat, NEW S, NEW F \in [0..E - 1 -> S],
         \A j, k \in 0..E - 1 : F[j] = F[k] => j = k,
         \A x \in S : \E k \in 0..E - 1 : F[k] = x
  PROVE  Cardinality(S) = E
<1>1. IsFiniteSet(0..E - 1) /\ Cardinality(0..E - 1) = E
  <2>1. 0 \in Int /\ E - 1 \in Int
    OBVIOUS
  <2>2. /\ IsFiniteSet(0..E - 1)
        /\ Cardinality(0..E - 1) = IF 0 > E - 1 THEN 0 ELSE (E - 1) - 0 + 1
    BY <2>1, FS_Interval
  <2>. QED
    BY <2>2
<1>2. F \in Bijection(0..E - 1, S)
  BY DEF Bijection, Injection, Surjection, IsInjective
<1>3. ExistsBijection(0..E - 1, S)
  BY <1>2 DEF ExistsBijection
<1>. QED
  BY <1>1, <1>3, FS_Bijection

\* The preflight sizes the stores by the number of windows all attempts together leave.
THEOREM EstimateExact == Spec => []EstimateIsStored
<1>1. ASSUME StoreInv, ~More
      PROVE  Cardinality(windows) = Estimate
  <2>. DEFINE t == set.stride
              F == [k \in 0..Estimate - 1 |-> Piece((k * t) \div set.chunk, k * t)]
  <2>1. InputInv /\ t \in Nat /\ t > 0
    BY <1>1, InputFacts DEF StoreInv, Pos
  <2>2. Estimate \in Nat /\ AllStarts = {k * t : k \in 0..Estimate - 1}
    BY <2>1, StartsCounted
  <2>. HIDE DEF t
  <2>3. windows = {Piece(s \div set.chunk, s) : s \in AllStarts}
    BY <1>1, AllStored
  <2>4. F \in [0..Estimate - 1 -> windows]
    BY <2>2, <2>3
  <2>5. \A w \in windows : \E k \in 0..Estimate - 1 : F[k] = w
    BY <2>2, <2>3
  <2>6. ASSUME NEW j \in 0..Estimate - 1, NEW k \in 0..Estimate - 1, F[j] = F[k]
        PROVE  j = k
    <3>1. j \in Nat /\ k \in Nat /\ F[j].start = j * t /\ F[k].start = k * t
      BY <2>2 DEF Piece
    <3>2. j * t = k * t
      BY <2>6, <3>1
    <3>3. ASSUME NEW a \in Nat, NEW b \in Nat, a < b
          PROVE  a * t # b * t
      <4>1. (a + 1) * t <= b * t /\ (a + 1) * t = a * t + t
        BY <2>1, <3>3, Monotone
      <4>2. a * t \in Nat
        BY <2>1
      <4>. QED
        BY <2>1, <4>1, <4>2
    <3>. QED
      BY <3>1, <3>2, <3>3
  <2>. HIDE DEF F
  <2>. QED
    BY <2>2, <2>4, <2>5, <2>6, Counted
<1>2. StoreInv => EstimateIsStored
  BY <1>1 DEF EstimateIsStored
<1>. QED
  BY <1>2, StoreHolds, PTL

\* Wherever the video was cut and the ingest interrupted: it ends with the windows, and
\* with the frames in them, of one decoding of the whole video.
THEOREM ChunksJoinSeamlessly == Spec => []ChunkingInvisible
<1>1. ASSUME StoreInv, ~More
      PROVE  Content(windows) = Content(Cut(video.duration, 0))
  <2>1. windows = {Piece(s \div set.chunk, s) : s \in AllStarts}
    BY <1>1, AllStored
  <2>2. Cut(video.duration, 0) = {Piece(0, s) : s \in AllStarts}
    BY <1>1, WholeCutIs DEF StoreInv
  <2>. DEFINE shown(s) == [start |-> s, end |-> Smallest(s + set.window, video.duration),
                           frames |-> Shown(s)]
              content(w) == [start |-> w.start, end |-> w.end, frames |-> w.frames]
  <2>3. \A c, s : content(Piece(c, s)) = shown(s)
    BY DEF Piece
  <2>4. \A W : Content(W) = {content(w) : w \in W}
    BY DEF Content
  <2>. HIDE DEF shown, content
  <2>5. Content(windows) = {shown(s) : s \in AllStarts}
    BY <2>1, <2>3, <2>4
  <2>6. Content(Cut(video.duration, 0)) = {shown(s) : s \in AllStarts}
    BY <2>2, <2>3, <2>4
  <2>. QED
    BY <2>5, <2>6
<1>2. StoreInv => ChunkingInvisible
  BY <1>1 DEF ChunkingInvisible
<1>. QED
  BY <1>2, StoreHolds, PTL

\* No window is stored by two chunks, so a segment id has one row per target.
THEOREM WindowsHaveOneOwner == Spec => []OneOwner
<1>1. ASSUME StoreInv, NEW w \in windows
      PROVE  Owned(set.chunk, w.chunk, w.start)
  <2>1. /\ InputInv /\ set.chunk \in Pos
        /\ w.chunk \in Nat /\ w \in Cut(set.chunk, w.chunk)
    BY <1>1, InputFacts DEF StoreInv
  <2>. QED
    BY <2>1, CutFacts, StartsOwned
<1>2. StoreInv => OneOwner
  BY <1>1, OwnersDiffer, InputFacts DEF OneOwner, StoreInv
<1>. QED
  BY <1>2, StoreHolds, PTL
=============================================================================
