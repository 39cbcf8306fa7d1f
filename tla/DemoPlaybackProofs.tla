-------------------------- MODULE DemoPlaybackProofs -------------------------
(***************************************************************************)
(* What is written is what is played, for files of any length, frames of   *)
(* any size and distance, and any commands.                                *)
(*                                                                         *)
(* The player keeps its place because the place it goes on from is that of *)
(* the frame after the one it read last, or, while a timer runs, a place   *)
(* where no frame begins and nothing is read.  The second case is the one  *)
(* that the alignment alone does not tell: a replay opened over another    *)
(* goes on from wherever the file was read last, so that the place the     *)
(* file is read at is part of the invariant as well.                       *)
(***************************************************************************)
EXTENDS DemoPlayback, FiniteSetTheorems, WellFoundedInduction, TLAPS

Frames == [kind : {"giant", "big", "small"}, time : Nat, size : Nat, real : Nat, len : Nat]

\* Frames are stored whole, and say when they were recorded to a player that
\* read the one before.
GoodFrames ==
    /\ Len(file) \in Nat \ {0}
    /\ \A k \in 1..Len(file) :
        /\ file[k] \in Frames /\ file[k].size = file[k].len
        /\ FieldBytes(file[k].kind) \in Nat
        /\ HeaderSize + FieldBytes(file[k].kind) < file[k].len
        /\ \A last : k = 1 \/ last = file[k - 1].real =>
                FrameTime(file[k], last) = file[k].real

\* The file may end before they do.
GoodFile == GoodFrames /\ fileSize \in Int /\ fileSize <= OffsetOf(Len(file) + 1)

\* The place of the frame after the one read last.
NextOffset == OffsetOf(shown + 1)

PosRight  == pos = NextOffset \/ pos \notin Boundaries
NextRight == nextFrameOffset = NextOffset \/ (timer # <<>> /\ nextFrameOffset \notin Boundaries)
TimeRight == shown > 0 => lastFrameDemoTime = file[shown].real

PlaceInv ==
    /\ shown \in 0..Len(file) /\ playing \in BOOLEAN /\ (opened => playing)
    /\ opened /\ ~crashed => PosRight /\ NextRight /\ TimeRight
    /\ playing /\ ~opened => shown = 0

PlayInv == GoodFile /\ PlaceInv /\ OnlyCutSizesCrash

-----------------------------------------------------------------------------
(* Headers *)

\* A number below the size of its field is stored as it is.
LEMMA FieldHolds ==
    ASSUME NEW x \in Nat
    PROVE  (x < 256 => x % 256 = x) /\ (x < 65536 => x % 65536 = x)
BY Z3

\* The size of every frame fits in the field its kind has for it, so that the
\* reader's next frame is the one that was written next (DemoWriter.cpp:700,
\* DemoPlayer.cpp:1984).
THEOREM SizesReadBack ==
    ASSUME NEW gap \in Nat, NEW now \in Nat, NEW size \in Nat, NEW key \in BOOLEAN
    PROVE  WrittenFrame(gap, now, size, key).size = WrittenFrame(gap, now, size, key).len
<1> DEFINE kind  == HeaderKind(gap, size, key)
           total == size + FieldBytes(kind)
<1>1. WrittenFrame(gap, now, size, key).size = SizeField(kind, total)
      /\ WrittenFrame(gap, now, size, key).len = total
  BY DEF WrittenFrame
<1>2. CASE kind = "giant"
  BY <1>1, <1>2 DEF SizeField
<1>3. CASE kind = "big"
  <2>1. ~(size > 65535 - 3) /\ FieldBytes(kind) = 3
    BY <1>3 DEF HeaderKind, FieldBytes, TimeBytes, SizeBytes
  <2>2. total \in Nat /\ total < 65536
    BY <2>1
  <2>3. SizeField(kind, total) = total % 65536
    BY <1>3 DEF SizeField
  <2>4. QED
    BY <1>1, <2>2, <2>3, FieldHolds
<1>4. CASE kind = "small"
  <2>1. ~(size > 255 - 3) /\ FieldBytes(kind) = 2
    BY <1>4 DEF HeaderKind, FieldBytes, TimeBytes, SizeBytes
  <2>2. total \in Nat /\ total < 256
    BY <2>1
  <2>3. SizeField(kind, total) = total % 256
    BY <1>4 DEF SizeField
  <2>4. QED
    BY <1>1, <2>2, <2>3, FieldHolds
<1>5. QED
  BY <1>2, <1>3, <1>4 DEF HeaderKind

\* A reader that read the frame before at its time takes this one for the time
\* it was written, whether the header has the time or the difference
\* (DemoWriter.cpp:700, DemoPlayer.cpp:1946).
THEOREM TimesReadBack ==
    ASSUME NEW gap \in Nat, NEW last \in Nat, NEW size \in Nat, NEW key \in BOOLEAN
    PROVE  FrameTime(WrittenFrame(gap, last + gap, size, key), last) = last + gap
<1> DEFINE kind == HeaderKind(gap, size, key)
           f    == WrittenFrame(gap, last + gap, size, key)
<1>1. f.kind = kind /\ f.time = IF kind = "giant" THEN last + gap ELSE gap % 256
  BY DEF WrittenFrame
<1>2. CASE kind = "giant"
  BY <1>1, <1>2 DEF FrameTime
<1>3. CASE kind # "giant"
  <2>1. ~(gap > 255)
    BY <1>3 DEF HeaderKind
  <2>2. gap % 256 = gap
    BY <2>1, FieldHolds
  <2>3. QED
    BY <1>1, <1>3, <2>2 DEF FrameTime
<1>4. QED
  BY <1>2, <1>3

-----------------------------------------------------------------------------
(* Induction up to a number *)

\* Of some numbers one is the least.
LEMMA LeastNumber ==
    ASSUME NEW S \in SUBSET Nat, S # {}
    PROVE  \E n \in S : \A k \in S : n <= k
<1> DEFINE R == OpToRel(<, Nat)
<1>1. IsWellFoundedOn(R, Nat)
  BY NatLessThanWellFounded
<1> HIDE DEF R
<1>2. PICK n \in S : \A k \in S : ~(<<k, n>> \in R)
  BY <1>1, WFMin
<1>3. n \in Nat /\ \A k \in S : k \in Nat /\ (k < n => <<k, n>> \in R)
  BY DEF R, OpToRel
<1>4. n \in Nat /\ \A k \in S : k \in Nat /\ ~(k < n)
  BY <1>2, <1>3
<1>5. QED
  BY <1>4

\* A set with 0 and, below N, with the next of its numbers has all up to N.
LEMMA Induction ==
    ASSUME NEW N \in Nat, NEW S \in SUBSET Nat, 0 \in S,
           \A n \in Nat : n < N /\ n \in S => n + 1 \in S
    PROVE  \A n \in 0..N : n \in S
<1> DEFINE T == {n \in 0..N : n \notin S}
<1> SUFFICES ASSUME T # {} PROVE FALSE
  OBVIOUS
<1>1. PICK n \in T : \A k \in T : n <= k
  <2>1. T \in SUBSET Nat
    OBVIOUS
  <2> HIDE DEF T
  <2>2. QED
    BY <2>1, LeastNumber
<1>2. n # 0 /\ n - 1 \in Nat /\ n - 1 < N
  OBVIOUS
<1>3. n - 1 \in S
  BY <1>1, <1>2
<1>4. (n - 1) + 1 \in S
  BY <1>2, <1>3
<1>5. QED
  BY <1>2, <1>4

-----------------------------------------------------------------------------
(* Running sums *)

\* f is the running sum of s, from c on.
RunningSum(f, n, c, s) == f = [j \in 0..n |-> IF j = 0 THEN c ELSE f[j - 1] + s[j]]

\* Every sequence of numbers has a running sum.
LEMMA SumExists ==
    ASSUME NEW n \in Nat, NEW c \in Nat, NEW s \in [1..n -> Nat]
    PROVE  \E f \in [0..n -> Nat] : RunningSum(f, n, c, s)
<1> DEFINE S == {m \in 0..n : \E f \in [0..m -> Nat] : RunningSum(f, m, c, s)}
<1>1. 0 \in S
  <2>1. [j \in 0..0 |-> c] \in [0..0 -> Nat] /\ RunningSum([j \in 0..0 |-> c], 0, c, s)
    BY DEF RunningSum
  <2>2. QED
    BY <2>1
<1>2. ASSUME NEW m \in Nat, m < n, m \in S PROVE m + 1 \in S
  <2>1. PICK f \in [0..m -> Nat] : RunningSum(f, m, c, s)
    BY <1>2
  <2> DEFINE g == [j \in 0..(m + 1) |-> IF j = 0 THEN c ELSE f[j - 1] + s[j]]
  <2>2. \A j \in 0..(m + 1) : j # 0 => j - 1 \in 0..m /\ j \in 1..n
    BY <1>2
  <2>3. \A j \in 0..m : g[j] = f[j]
    BY <2>1 DEF RunningSum
  <2>4. RunningSum(g, m + 1, c, s)
    BY <2>2, <2>3 DEF RunningSum
  <2>5. \A j \in 0..(m + 1) : j # 0 => f[j - 1] \in Nat /\ s[j] \in Nat
    BY <2>2
  <2>6. g \in [0..(m + 1) -> Nat]
    BY <2>5
  <2>7. m + 1 \in 0..n
    BY <1>2
  <2> HIDE DEF g
  <2>8. QED
    BY <2>4, <2>6, <2>7
<1> HIDE DEF S
<1>3. S \in SUBSET Nat
  BY DEF S
<1>4. \A j \in 0..n : j \in S
  BY <1>1, <1>2, <1>3, Induction
<1>5. n \in S
  BY <1>4
<1>6. QED
  BY <1>5 DEF S

\* What grows with every number grows.
LEMMA Increasing ==
    ASSUME NEW n \in Nat, NEW f \in [0..n -> Nat], \A j \in 1..n : f[j - 1] < f[j]
    PROVE  \A i, j \in 0..n : i < j => f[i] < f[j]
<1> SUFFICES ASSUME NEW i \in 0..n
             PROVE  \A j \in 0..n : i < j => f[i] < f[j]
  OBVIOUS
<1> DEFINE S == {j \in 0..n : i < j => f[i] < f[j]}
<1>1. 0 \in S
  OBVIOUS
<1>2. ASSUME NEW m \in Nat, m < n, m \in S PROVE m + 1 \in S
  <2>1. m + 1 \in 1..n /\ (m + 1) - 1 = m /\ m \in 0..n
    BY <1>2
  <2>2. f[m] < f[m + 1] /\ f[m] \in Nat /\ f[m + 1] \in Nat /\ f[i] \in Nat
    BY <2>1
  <2>3. i < m + 1 => i = m \/ i < m
    OBVIOUS
  <2>4. QED
    BY <1>2, <2>1, <2>2, <2>3
<1> HIDE DEF S
<1>3. S \in SUBSET Nat
  BY DEF S
<1>4. \A j \in 0..n : j \in S
  BY <1>1, <1>2, <1>3, Induction
<1>5. QED
  BY <1>4 DEF S

-----------------------------------------------------------------------------
(* The file *)

\* Each frame begins where the one before it ends.
LEMMA OffsetsGrow ==
    ASSUME GoodFrames
    PROVE  /\ OffsetOf(1) = FirstFrame
           /\ \A k \in 1..(Len(file) + 1) : OffsetOf(k) \in Nat
           /\ \A k \in 1..Len(file) : OffsetOf(k + 1) = OffsetOf(k) + file[k].len
           /\ \A i, k \in 1..(Len(file) + 1) : i < k => OffsetOf(i) < OffsetOf(k)
<1> DEFINE n == Len(file)
           s == [j \in 1..n |-> file[j].len]
           e == Ends(file)
<1>1. n \in Nat \ {0} /\ FirstFrame \in Nat
  BY PlaybackAssumption DEF GoodFrames
<1>2. s \in [1..n -> Nat] /\ \A j \in 1..n : s[j] = file[j].len /\ file[j].len > 0
  BY DEF GoodFrames, Frames, HeaderSize
<1>3. e = CHOOSE f : f = [j \in 0..n |-> IF j = 0 THEN FirstFrame ELSE f[j - 1] + file[j].len]
  BY DEF Ends
<1> HIDE DEF e, s, n
<1>4. PICK f \in [0..n -> Nat] : RunningSum(f, n, FirstFrame, s)
  BY <1>1, <1>2, SumExists
<1>5. f = [j \in 0..n |-> IF j = 0 THEN FirstFrame ELSE f[j - 1] + file[j].len]
  <2>1. \A j \in 0..n : j # 0 => s[j] = file[j].len
    BY <1>1, <1>2
  <2>2. QED
    BY <1>4, <2>1 DEF RunningSum
<1>6. e = [j \in 0..n |-> IF j = 0 THEN FirstFrame ELSE e[j - 1] + file[j].len]
  BY <1>3, <1>5
<1>7. e[0] = FirstFrame /\ \A j \in 1..n : e[j] = e[j - 1] + file[j].len
  BY <1>1, <1>6
<1>8. e \in [0..n -> Nat]
  <2> DEFINE S == {j \in 0..n : e[j] \in Nat}
  <2>1. 0 \in S
    BY <1>1, <1>7
  <2>2. ASSUME NEW m \in Nat, m < n, m \in S PROVE m + 1 \in S
    <3>1. m + 1 \in 1..n /\ (m + 1) - 1 = m
      BY <1>1, <2>2
    <3>2. e[m + 1] = e[m] + file[m + 1].len /\ file[m + 1].len \in Nat
      BY <1>2, <1>7, <3>1
    <3>3. QED
      BY <2>2, <3>1, <3>2
  <2> HIDE DEF S
  <2>3. S \in SUBSET Nat
    BY DEF S
  <2>4. \A j \in 0..n : j \in S
    BY <1>1, <2>1, <2>2, <2>3, Induction
  <2>5. \A j \in 0..n : e[j] \in Nat
    BY <2>4 DEF S
  <2>6. QED
    BY <1>6, <2>5
<1>9. \A j \in 1..n : e[j - 1] < e[j]
  <2> SUFFICES ASSUME NEW j \in 1..n PROVE e[j - 1] < e[j]
    OBVIOUS
  <2>1. j - 1 \in 0..n /\ file[j].len \in Nat /\ file[j].len > 0
    BY <1>1, <1>2
  <2>2. e[j - 1] \in Nat
    BY <1>8, <2>1
  <2>3. QED
    BY <1>7, <2>1, <2>2
<1>10. \A i, j \in 0..n : i < j => e[i] < e[j]
  BY <1>1, <1>8, <1>9, Increasing
<1>11. \A k : OffsetOf(k) = e[k - 1]
  BY DEF OffsetOf, e
<1>12. \A k \in 1..(n + 1) : k - 1 \in 0..n
  BY <1>1
<1>13. \A k \in 1..n : (k + 1) - 1 = k
  BY <1>1
<1>14. \A i, k \in 1..(n + 1) : i < k => i - 1 < k - 1
  BY <1>1
<1>15. 1 - 1 = 0
  OBVIOUS
<1>16. QED
  BY <1>7, <1>8, <1>10, <1>11, <1>12, <1>13, <1>14, <1>15 DEF n

\* Frame by frame, the time grows by the gaps, the first one left out.
LEMMA TimesGrow ==
    ASSUME NEW n \in Nat \ {0}, NEW gap \in [1..n -> Nat]
    PROVE  /\ \A k \in 1..n : Times(n, gap)[k] \in Nat
           /\ Times(n, gap)[1] = 0
           /\ \A k \in 2..n : Times(n, gap)[k] = Times(n, gap)[k - 1] + gap[k]
<1> DEFINE s == [k \in 1..n |-> IF k = 1 THEN 0 ELSE gap[k]]
           w == Times(n, gap)
<1>1. s \in [1..n -> Nat] /\ s[1] = 0 /\ \A k \in 2..n : s[k] = gap[k]
  OBVIOUS
<1>2. w = CHOOSE f : f = [k \in 0..n |-> IF k <= 1 THEN 0 ELSE f[k - 1] + gap[k]]
  BY DEF Times
<1> HIDE DEF w, s
<1>3. PICK f \in [0..n -> Nat] : RunningSum(f, n, 0, s)
  BY <1>1, SumExists
<1>4. f[0] = 0 /\ \A k \in 1..n : f[k] = f[k - 1] + s[k]
  BY <1>3 DEF RunningSum
<1>5. f[1] = 0
  <2>1. 1 \in 1..n /\ 1 - 1 = 0
    OBVIOUS
  <2>2. QED
    BY <1>1, <1>4, <2>1
<1>6. \A k \in 0..n : f[k] = IF k <= 1 THEN 0 ELSE f[k - 1] + gap[k]
  <2> SUFFICES ASSUME NEW k \in 0..n
               PROVE  f[k] = IF k <= 1 THEN 0 ELSE f[k - 1] + gap[k]
    OBVIOUS
  <2>1. k = 0 \/ k = 1 \/ (k \in 2..n /\ k \in 1..n /\ ~(k <= 1))
    OBVIOUS
  <2>2. k \in 2..n /\ k \in 1..n /\ ~(k <= 1) => f[k] = IF k <= 1 THEN 0 ELSE f[k - 1] + gap[k]
    BY <1>1, <1>4
  <2>3. QED
    BY <1>4, <1>5, <2>1, <2>2
<1>7. f = [k \in 0..n |-> IF k <= 1 THEN 0 ELSE f[k - 1] + gap[k]]
  BY <1>6
<1>8. w = [k \in 0..n |-> IF k <= 1 THEN 0 ELSE w[k - 1] + gap[k]]
  BY <1>2, <1>7
<1>9. w[0] = 0 /\ w[1] = 0 /\ \A k \in 2..n : w[k] = w[k - 1] + gap[k]
  <2>1. 0 \in 0..n /\ 1 \in 0..n /\ \A k \in 2..n : k \in 0..n /\ ~(k <= 1)
    OBVIOUS
  <2>2. QED
    BY <1>8, <2>1
<1>10. \A k \in 0..n : w[k] \in Nat
  <2> DEFINE S == {k \in 0..n : w[k] \in Nat}
  <2>1. 0 \in S
    BY <1>9
  <2>2. ASSUME NEW m \in Nat, m < n, m \in S PROVE m + 1 \in S
    <3>1. m = 0 \/ (m + 1 \in 2..n /\ (m + 1) - 1 = m /\ gap[m + 1] \in Nat)
      BY <2>2
    <3>2. w[m + 1] \in Nat
      BY <1>9, <2>2, <3>1
    <3>3. m + 1 \in 0..n
      BY <2>2
    <3>4. QED
      BY <3>2, <3>3
  <2> HIDE DEF S
  <2>3. S \in SUBSET Nat
    BY DEF S
  <2>4. \A k \in 0..n : k \in S
    BY <2>1, <2>2, <2>3, Induction
  <2>5. QED
    BY <2>4 DEF S
<1>11. QED
  BY <1>9, <1>10 DEF w

\* The fields of a frame as they are written.
StoredAt(f, now) ==
    /\ f \in Frames /\ f.real = now /\ f.size = f.len
    /\ FieldBytes(f.kind) \in Nat /\ HeaderSize + FieldBytes(f.kind) < f.len

LEMMA FrameWritten ==
    ASSUME NEW gap \in Nat, NEW now \in Nat, NEW size \in Nat, size > HeaderSize,
           NEW key \in BOOLEAN
    PROVE  StoredAt(WrittenFrame(gap, now, size, key), now)
<1> DEFINE f == WrittenFrame(gap, now, size, key)
<1>1. f.size = f.len
  BY SizesReadBack
<1>2. /\ f.real = now
      /\ f.kind = HeaderKind(gap, size, key)
      /\ f.len = size + FieldBytes(f.kind)
      /\ f.time = IF f.kind = "giant" THEN now ELSE gap % 256
  BY DEF WrittenFrame
<1>3. f.kind \in {"giant", "big", "small"}
  BY <1>2 DEF HeaderKind
<1>4. FieldBytes(f.kind) \in Nat
  BY <1>3 DEF FieldBytes, TimeBytes, SizeBytes
<1>5. f.len \in Nat /\ HeaderSize + FieldBytes(f.kind) < f.len
  BY <1>2, <1>4 DEF HeaderSize
<1> HIDE DEF f
<1>6. f \in Frames
  <2>1. f.time \in Nat
    <3>1. gap % 256 \in Nat
      BY Z3
    <3>2. QED
      BY <1>2, <3>1
  <2>2. f = [kind |-> f.kind, time |-> f.time, size |-> f.size, real |-> f.real, len |-> f.len]
    BY DEF f, WrittenFrame
  <2>3. f.kind \in {"giant", "big", "small"} /\ f.time \in Nat /\ f.size \in Nat
        /\ f.real \in Nat /\ f.len \in Nat
    BY <1>1, <1>2, <1>3, <1>5, <2>1
  <2>4. QED
    BY <2>2, <2>3 DEF Frames
<1>7. StoredAt(f, now)
  BY <1>1, <1>2, <1>4, <1>5, <1>6 DEF StoredAt
<1>8. QED
  BY <1>7 DEF f

\* What the writer leaves is whole and tells the times it was recorded at.
LEMMA RecordingGood ==
    ASSUME NEW n \in 1..MaxFrames, NEW gap \in [1..n -> Gaps], NEW size \in [1..n -> Sizes],
           NEW key \in [1..n -> BOOLEAN], file = Recording(n, gap, size, key)
    PROVE  GoodFrames
<1> DEFINE w == Times(n, gap)
           g(k) == IF k = 1 THEN 0 ELSE gap[k]
<1>1. n \in Nat \ {0} /\ gap \in [1..n -> Nat]
  <2>1. MaxFrames \in Nat /\ Gaps \subseteq Nat
    BY PlaybackAssumption
  <2>2. n \in Nat \ {0}
    BY <2>1
  <2>3. gap \in [1..n -> Nat]
    BY <2>1, Zenon
  <2>4. QED
    BY <2>2, <2>3
<1>2. \A k \in 1..n : size[k] \in Nat /\ size[k] > HeaderSize
  BY PlaybackAssumption
<1>3. /\ \A k \in 1..n : w[k] \in Nat
      /\ w[1] = 0 /\ \A k \in 2..n : w[k] = w[k - 1] + gap[k]
  BY <1>1, TimesGrow
<1> HIDE DEF w
<1>4. file = [k \in 1..n |-> WrittenFrame(g(k), w[k], size[k], k = 1 \/ key[k])]
  BY DEF Recording, w
<1>5. \A k \in 1..n : g(k) \in Nat
  BY <1>1
<1>6. Len(file) = n
  <2> DEFINE X == {file[k] : k \in 1..n}
  <2>1. file \in [1..n -> X]
    BY <1>4
  <2> HIDE DEF X
  <2>2. file \in Seq(X)
    BY <1>1, <2>1
  <2>3. QED
    BY <1>1, <2>1, <2>2
<1>7. ASSUME NEW k \in 1..n
      PROVE  /\ file[k] \in Frames /\ file[k].real = w[k] /\ file[k].size = file[k].len
             /\ FieldBytes(file[k].kind) \in Nat
             /\ HeaderSize + FieldBytes(file[k].kind) < file[k].len
             /\ k = 1 => file[k].kind = "giant" /\ file[k].time = w[k]
  <2> DEFINE first == (k = 1 \/ key[k])
             t == w[k]
             bytes == size[k]
             f == file[k]
  <2>1. f = WrittenFrame(g(k), t, bytes, first)
    BY <1>4
  <2>2. first \in BOOLEAN
    OBVIOUS
  <2> HIDE DEF g
  <2>3. g(k) \in Nat /\ t \in Nat /\ bytes \in Nat /\ bytes > HeaderSize
    BY <1>2, <1>3, <1>5
  <2>4. k = 1 => f.kind = "giant" /\ f.time = t
    <3>1. k = 1 => first = TRUE
      OBVIOUS
    <3> HIDE DEF first
    <3>2. QED
      BY <2>1, <3>1 DEF WrittenFrame, HeaderKind
  <2> HIDE DEF first, f, t, bytes
  <2>5. StoredAt(f, t)
    BY <2>1, <2>2, <2>3, FrameWritten, Zenon
  <2>6. QED
    BY <2>4, <2>5 DEF f, t, StoredAt
<1>8. ASSUME NEW k \in 1..n, NEW last, k = 1 \/ last = file[k - 1].real
      PROVE  FrameTime(file[k], last) = file[k].real
  <2>1. CASE k = 1
    BY <2>1, <1>7 DEF FrameTime
  <2>2. CASE k # 1
    <3>1. k \in 2..n /\ k - 1 \in 1..n
      BY <1>1, <2>2
    <3>2. last = w[k - 1] /\ w[k] = last + gap[k] /\ file[k].real = w[k]
      BY <1>3, <1>7, <1>8, <2>2, <3>1
    <3>3. file[k] = WrittenFrame(gap[k], last + gap[k], size[k], key[k])
      BY <1>4, <2>2, <3>2
    <3>4. last \in Nat /\ gap[k] \in Nat /\ size[k] \in Nat /\ key[k] \in BOOLEAN
      BY <1>1, <1>2, <1>3, <3>1, <3>2
    <3>5. FrameTime(file[k], last) = last + gap[k]
      BY <3>3, <3>4, TimesReadBack
    <3>6. QED
      BY <3>2, <3>5
  <2>3. QED
    BY <2>1, <2>2
<1> HIDE DEF g
<1>9. QED
  BY <1>1, <1>6, <1>7, <1>8 DEF GoodFrames

-----------------------------------------------------------------------------
(* Where the file is read *)

\* A place inside a frame is not where one begins.
LEMMA Places ==
    ASSUME GoodFrames
    PROVE  /\ \A k \in 1..(Len(file) + 1) :
                OffsetOf(k) \in Boundaries /\ FrameAt(OffsetOf(k)) = k
           /\ \A k \in 1..Len(file) : \A d \in Nat :
                0 < d /\ d < file[k].len => OffsetOf(k) + d \notin Boundaries
<1> DEFINE n == Len(file)
<1>1. n \in Nat
  BY DEF GoodFrames
<1>2. /\ \A k \in 1..(n + 1) : OffsetOf(k) \in Nat
      /\ \A k \in 1..n : OffsetOf(k + 1) = OffsetOf(k) + file[k].len
      /\ \A i, k \in 1..(n + 1) : i < k => OffsetOf(i) < OffsetOf(k)
  BY OffsetsGrow
<1>3. \A k \in 1..n : file[k].len \in Nat
  BY DEF GoodFrames, Frames
<1>4. Boundaries = {OffsetOf(k) : k \in 1..(n + 1)}
  BY DEF Boundaries
<1>5. \A offset : FrameAt(offset) = CHOOSE k \in 1..(n + 1) : OffsetOf(k) = offset
  BY DEF FrameAt
<1> HIDE DEF n
<1>6. ASSUME NEW k \in 1..(n + 1) PROVE OffsetOf(k) \in Boundaries /\ FrameAt(OffsetOf(k)) = k
  <2>1. \A j \in 1..(n + 1) : OffsetOf(j) = OffsetOf(k) => j = k
    <3> SUFFICES ASSUME NEW j \in 1..(n + 1), OffsetOf(j) = OffsetOf(k) PROVE j = k
      OBVIOUS
    <3>1. j < k \/ k < j \/ j = k
      BY <1>1
    <3>2. OffsetOf(j) \in Nat
      BY <1>2
    <3>3. QED
      BY <1>2, <3>1, <3>2
  <2>2. QED
    BY <1>4, <1>5, <2>1
<1>7. ASSUME NEW k \in 1..n, NEW d \in Nat, 0 < d, d < file[k].len
      PROVE  OffsetOf(k) + d \notin Boundaries
  <2> SUFFICES ASSUME NEW j \in 1..(n + 1), OffsetOf(k) + d = OffsetOf(j) PROVE FALSE
    BY <1>4
  <2>1. k \in 1..(n + 1) /\ k + 1 \in 1..(n + 1) /\ (j < k \/ j = k \/ j = k + 1 \/ k + 1 < j)
    BY <1>1
  <2>2. OffsetOf(j) \in Nat /\ OffsetOf(k) \in Nat /\ OffsetOf(k + 1) = OffsetOf(k) + file[k].len
    BY <1>2, <2>1
  <2>3. OffsetOf(j) <= OffsetOf(k) \/ OffsetOf(k + 1) <= OffsetOf(j)
    <3>1. CASE j < k
      BY <3>1, <1>2, <2>1, <2>2
    <3>2. CASE j = k
      BY <3>2, <2>2
    <3>3. CASE j = k + 1
      BY <3>3, <1>3, <2>2
    <3>4. CASE k + 1 < j
      <4>1. OffsetOf(k + 1) < OffsetOf(j) /\ OffsetOf(k + 1) \in Nat
        BY <3>4, <1>2, <2>1
      <4>2. QED
        BY <4>1, <2>2
    <3>5. QED
      BY <2>1, <3>1, <3>2, <3>3, <3>4
  <2>4. file[k].len \in Nat
    BY <1>3
  <2>5. QED
    BY <1>7, <2>2, <2>3, <2>4
<1>8. QED
  BY <1>6, <1>7 DEF n

\* A read of a field finds a number, and the whole of one that is all there.
LEMMA FieldReads ==
    ASSUME NEW x \in Nat, NEW w \in 1..4, NEW n \in Int
    PROVE  /\ FieldRead(x, w, n) \subseteq Nat
           /\ n >= w => FieldRead(x, w, n) = {x}
           /\ n <= 0 => FieldRead(x, w, n) = {0}
<1>1. n >= w => FieldRead(x, w, n) = {x}
  BY DEF FieldRead
<1>2. n <= 0 => FieldRead(x, w, n) = {0}
  BY DEF FieldRead
<1>3. CASE n >= w \/ n <= 0
  BY <1>1, <1>2, <1>3
<1>4. CASE ~(n >= w \/ n <= 0)
  <2>1. n = 1 \/ n = 2 \/ n = 3
    BY <1>4
  <2>2. x % 256 \in Nat /\ x % 65536 \in Nat /\ x % 16777216 \in Nat
    BY Z3
  <2>3. Low(x, n) \in Nat
    BY <2>1, <2>2 DEF Low
  <2>4. FieldRead(x, w, n) = {0, Low(x, n)}
    BY <1>4 DEF FieldRead
  <2>5. QED
    BY <1>4, <2>3, <2>4
<1>5. QED
  BY <1>3, <1>4

\* The header that is read is that of the frame after the last one.
LEMMA HeaderRead ==
    ASSUME PlayInv, HeaderThere
    PROVE  /\ shown + 1 \in 1..Len(file)
           /\ nextFrameOffset = NextOffset /\ FrameAt(nextFrameOffset) = shown + 1
           /\ nextFrameOffset \in Nat /\ Here = file[shown + 1]
           /\ FrameTime(Here, lastFrameDemoTime) = Here.real
<1> DEFINE k == shown + 1
           f == file[shown + 1]
<1>1. /\ opened /\ ~crashed
      /\ nextFrameOffset \in Boundaries /\ nextFrameOffset + HeaderSize <= fileSize
  BY DEF HeaderThere, Reading
<1>2. GoodFrames /\ shown \in 0..Len(file) /\ nextFrameOffset = NextOffset /\ TimeRight
      /\ fileSize \in Int /\ fileSize <= OffsetOf(Len(file) + 1)
  BY <1>1 DEF PlayInv, PlaceInv, NextRight, GoodFile
<1>3. Len(file) \in Nat
  BY <1>2 DEF GoodFrames
<1>4. k \in 1..(Len(file) + 1)
  BY <1>2, <1>3
<1>5. OffsetOf(k) \in Nat /\ FrameAt(OffsetOf(k)) = k
  BY <1>2, <1>4, OffsetsGrow, Places
<1>6. k # Len(file) + 1
  BY <1>1, <1>2, <1>5 DEF HeaderSize, NextOffset
<1>7. k \in 1..Len(file)
  BY <1>3, <1>4, <1>6
<1>8. FrameTime(f, lastFrameDemoTime) = f.real
  <2>1. k = 1 \/ lastFrameDemoTime = file[k - 1].real
    <3>1. shown = 0 \/ (shown > 0 /\ k - 1 = shown)
      BY <1>2
    <3>2. QED
      BY <1>2, <3>1 DEF TimeRight
  <2>2. QED
    BY <1>2, <1>7, <2>1 DEF GoodFrames
<1>9. Here = f
  BY <1>2, <1>5 DEF Here, NextOffset
<1>10. QED
  BY <1>2, <1>5, <1>7, <1>8, <1>9 DEF NextOffset

\* A header is read as it was written, unless the file ends inside it.
LEMMA HeaderParts ==
    ASSUME PlayInv, HeaderThere
    PROVE  /\ headerSz \in Nat /\ HeaderSize <= headerSz /\ headerSz < Here.len
           /\ SizeAt + SizeBytes(Here.kind) = nextFrameOffset + headerSz
           /\ \A h \in Headers :
                /\ h.size \in Nat
                /\ nextFrameOffset + headerSz <= fileSize => h = Here
                /\ fileSize <= SizeAt => h.size = 0
<1> DEFINE tw == TimeBytes(Here.kind)
           sw == SizeBytes(Here.kind)
<1>1. nextFrameOffset \in Nat /\ fileSize \in Int
  BY HeaderRead DEF PlayInv, GoodFile
<1>2. /\ Here \in Frames /\ Here.size = Here.len
      /\ HeaderSize + FieldBytes(Here.kind) < Here.len
  BY HeaderRead DEF PlayInv, GoodFile, GoodFrames
<1>3. Here.kind \in {"giant", "big", "small"} /\ Here.time \in Nat /\ Here.size \in Nat
  BY <1>2 DEF Frames
<1>4. tw \in 1..4 /\ sw \in 1..4
  BY <1>3 DEF TimeBytes, SizeBytes
<1>5. FieldBytes(Here.kind) = tw + sw /\ headerSz = HeaderSize + (tw + sw)
      /\ SizeAt = nextFrameOffset + HeaderSize + tw
  BY DEF FieldBytes, headerSz, SizeAt
<1> HIDE DEF tw, sw
<1>6. /\ headerSz \in Nat /\ HeaderSize <= headerSz /\ headerSz < Here.len
      /\ SizeAt + sw = nextFrameOffset + headerSz
  BY <1>1, <1>2, <1>4, <1>5 DEF HeaderSize
<1>7. ASSUME NEW h \in Headers
      PROVE  /\ h.size \in Nat
             /\ nextFrameOffset + headerSz <= fileSize => h = Here
             /\ fileSize <= SizeAt => h.size = 0
  <2> DEFINE times == FieldRead(Here.time, tw, fileSize - nextFrameOffset - HeaderSize)
             sizes == FieldRead(Here.size, sw, fileSize - SizeAt)
  <2>9. PICK field \in times \X sizes : h = [Here EXCEPT !.time = field[1], !.size = field[2]]
    BY <1>7 DEF Headers, tw, sw
  <2> HIDE DEF times, sizes
  <2>1. PICK time \in times, size \in sizes : h = [Here EXCEPT !.time = time, !.size = size]
    BY <2>9
  <2> USE DEF times, sizes
  <2>2. h.size = size
    BY <1>2, <2>1 DEF Frames
  <2>3. PICK a \in Int, b \in Int :
            a = fileSize - nextFrameOffset - HeaderSize /\ b = fileSize - SizeAt
    BY <1>1, <1>4, <1>5 DEF HeaderSize
  <2>4. /\ size \in Nat
        /\ b >= sw => size = Here.size
        /\ b <= 0 => size = 0
        /\ a >= tw => time = Here.time
    BY <1>3, <1>4, <2>1, <2>3, FieldReads
  <2>5. nextFrameOffset + headerSz <= fileSize => b >= sw /\ a >= tw
    BY <1>1, <1>4, <1>5, <2>3 DEF HeaderSize
  <2>6. fileSize <= SizeAt => b <= 0
    BY <1>1, <1>4, <1>5, <2>3 DEF HeaderSize
  <2>7. time = Here.time /\ size = Here.size => h = Here
    BY <1>2, <2>1 DEF Frames
  <2>8. QED
    BY <2>2, <2>4, <2>5, <2>6, <2>7
<1>8. QED
  BY <1>6, <1>7 DEF sw

-----------------------------------------------------------------------------
(* The player *)

LEMMA InitRight == Init => PlayInv
<1> SUFFICES ASSUME Init PROVE PlayInv
  OBVIOUS
<1>1. GoodFrames
  <2>1. PICK n \in 1..MaxFrames :
            \E gap \in [1..n -> Gaps], size \in [1..n -> Sizes], key \in [1..n -> BOOLEAN] :
                file = Recording(n, gap, size, key)
    BY DEF Init
  <2>2. PICK gap \in [1..n -> Gaps], size \in [1..n -> Sizes], key \in [1..n -> BOOLEAN] :
            file = Recording(n, gap, size, key)
    BY <2>1
  <2>3. QED
    BY <2>2, RecordingGood
<1>2. fileSize \in Int /\ fileSize <= OffsetOf(Len(file) + 1)
  <2> DEFINE last == file[Len(file)]
             start == OffsetOf(Len(file))
             end == OffsetOf(Len(file) + 1)
  <2>1. fileSize \in Cuts(last, start)
    BY DEF Init
  <2>2. Len(file) \in 1..Len(file) /\ Len(file) \in 1..(Len(file) + 1)
    BY <1>1 DEF GoodFrames
  <2>3. end = start + last.len /\ start \in Nat
    BY <1>1, <2>2, OffsetsGrow
  <2>4. /\ last \in Frames /\ FieldBytes(last.kind) \in Nat
        /\ HeaderSize + FieldBytes(last.kind) < last.len
    BY <1>1, <2>2 DEF GoodFrames
  <2>5. last.len \in Nat
    BY <2>4 DEF Frames
  <2> HIDE DEF end, last, start
  <2>6. \/ fileSize = start + last.len
        \/ fileSize = start + last.len - 1
        \/ \E j \in 0..FieldBytes(last.kind) : fileSize = start + HeaderSize + j
    BY <2>1 DEF Cuts
  <2>7. fileSize \in Int /\ fileSize <= end
    BY <2>3, <2>4, <2>5, <2>6 DEF HeaderSize
  <2>8. QED
    BY <2>7 DEF end
<1>3. shown \in 0..Len(file)
  BY <1>1 DEF Init, GoodFrames
<1>4. QED
  BY <1>1, <1>2, <1>3 DEF Init, PlayInv, PlaceInv, GoodFile, OnlyCutSizesCrash

\* The file is not written while it is played.
LEMMA FileStays ==
    ASSUME GoodFile, UNCHANGED fileVars
    PROVE  /\ GoodFile' /\ Len(file)' = Len(file)
           /\ Boundaries' = Boundaries /\ NextOffset' = OffsetOf(shown' + 1)
<1>1. file' = file /\ fileSize' = fileSize
  BY DEF fileVars
<1>2. QED
  BY <1>1 DEF GoodFile, GoodFrames, Boundaries, NextOffset, OffsetOf, Ends

LEMMA FirstPlace ==
    ASSUME GoodFrames
    PROVE  FirstFrame = OffsetOf(0 + 1) /\ FirstFrame \in Boundaries
<1>1. 1 \in 1..(Len(file) + 1)
  BY DEF GoodFrames
<1>2. 0 + 1 = 1
  OBVIOUS
<1>3. QED
  BY <1>1, <1>2, OffsetsGrow, Places

\* The frame after the last one is read, or the file ends.
LEMMA FrameRead ==
    ASSUME PlayInv, ReadFrame
    PROVE  /\ shown' = shown + 1 /\ shown + 1 \in 1..Len(file)
           /\ OffsetOf(shown + 1) + file[shown + 1].len <= fileSize
           /\ pos' = OffsetOf(shown' + 1) /\ nextFrameOffset' = OffsetOf(shown' + 1)
           /\ lastFrameDemoTime' = file[shown'].real
           /\ \E t \in ViewTimes : file[shown'].real <= t
<1>1. HeaderThere
  BY DEF ReadFrame
<1>2. PICK h \in Headers, t \in ViewTimes :
        /\ Due(h, t) /\ h.size >= headerSz /\ Whole(h)
        /\ lastFrameDemoTime' = FrameTime(h, lastFrameDemoTime)
        /\ nextFrameOffset' = nextFrameOffset + h.size
  BY DEF ReadFrame
<1>3. /\ shown + 1 \in 1..Len(file) /\ nextFrameOffset = NextOffset
      /\ FrameAt(nextFrameOffset) = shown + 1 /\ Here = file[shown + 1]
      /\ FrameTime(Here, lastFrameDemoTime) = Here.real /\ nextFrameOffset \in Nat
  BY <1>1, HeaderRead
<1>4. GoodFrames
  BY DEF PlayInv, GoodFile
<1>5. OffsetOf((shown + 1) + 1) = OffsetOf(shown + 1) + file[shown + 1].len
  BY <1>3, <1>4, OffsetsGrow
<1>6. file[shown + 1].size = file[shown + 1].len
  BY <1>3, <1>4 DEF GoodFrames
<1>7. h = Here
  <2>1. headerSz \in Nat /\ h.size \in Nat /\ fileSize \in Int
    BY <1>1, HeaderParts DEF PlayInv, GoodFile
  <2>2. nextFrameOffset + headerSz <= fileSize
    BY <1>2, <1>3, <2>1 DEF Whole
  <2>3. QED
    BY <1>1, <2>2, HeaderParts
<1>8. pos' = nextFrameOffset' /\ shown' = FrameAt(nextFrameOffset)
  BY DEF ReadFrame
<1>9. QED
  BY <1>2, <1>3, <1>5, <1>6, <1>7, <1>8 DEF NextOffset, Whole, Due

\* Reading a header that is not due leaves the file in the middle of a frame.
LEMMA HeaderLeft ==
    ASSUME PlayInv, Wait
    PROVE  pos' \notin Boundaries
<1>1. HeaderThere
  BY DEF Wait
<1> DEFINE f == file[shown + 1]
<1>2. /\ shown + 1 \in 1..Len(file) /\ nextFrameOffset = OffsetOf(shown + 1)
      /\ Here = f /\ nextFrameOffset \in Nat
  BY <1>1, HeaderRead DEF NextOffset
<1>3. GoodFrames /\ fileSize \in Int
  BY DEF PlayInv, GoodFile
<1>4. f.len \in Nat /\ headerSz \in Nat /\ HeaderSize <= headerSz /\ headerSz < f.len
  BY <1>1, <1>2, <1>3, HeaderParts DEF GoodFrames, Frames
<1>5. \A d \in Nat : 0 < d /\ d < f.len => nextFrameOffset + d \notin Boundaries
  BY <1>2, <1>3, Places
<1>6. nextFrameOffset + HeaderSize <= fileSize
  BY <1>1 DEF HeaderThere
<1>7. pos' = IF nextFrameOffset + headerSz <= fileSize
             THEN nextFrameOffset + headerSz ELSE fileSize
  BY DEF Wait
<1> HIDE DEF f
<1>8. PICK d \in Nat : 0 < d /\ d < f.len /\ pos' = nextFrameOffset + d
  <2>1. CASE nextFrameOffset + headerSz <= fileSize
    BY <2>1, <1>4, <1>7 DEF HeaderSize
  <2>2. CASE ~(nextFrameOffset + headerSz <= fileSize)
    <3>1. fileSize - nextFrameOffset \in Nat /\ 0 < fileSize - nextFrameOffset
          /\ fileSize - nextFrameOffset < f.len
          /\ fileSize = nextFrameOffset + (fileSize - nextFrameOffset)
      BY <2>2, <1>2, <1>3, <1>4, <1>6 DEF HeaderSize
    <3>2. QED
      BY <2>2, <1>7, <3>1
  <2>3. QED
    BY <2>1, <2>2
<1>9. QED
  BY <1>5, <1>8

\* Only a size that is cut off is smaller than the header it is in.
LEMMA CrashOfCut ==
    ASSUME PlayInv, HeaderThere, NEW h \in Headers, h.size # 0, h.size < headerSz
    PROVE  SizeAt < fileSize /\ fileSize < SizeAt + SizeBytes(Here.kind)
<1>1. /\ headerSz \in Nat /\ headerSz < Here.len
      /\ SizeAt + SizeBytes(Here.kind) = nextFrameOffset + headerSz
      /\ nextFrameOffset + headerSz <= fileSize => h = Here
      /\ fileSize <= SizeAt => h.size = 0
  BY HeaderParts
<1>2. Here.size = Here.len /\ Here.len \in Nat /\ Here \in Frames
  BY HeaderRead DEF PlayInv, GoodFile, GoodFrames, Frames
<1>3. nextFrameOffset \in Nat /\ fileSize \in Int
  BY HeaderRead DEF PlayInv, GoodFile
<1>4. SizeAt \in Int
  <2>1. TimeBytes(Here.kind) \in Nat
    BY <1>2 DEF Frames, TimeBytes
  <2>2. QED
    BY <1>3, <2>1 DEF SizeAt, HeaderSize
<1>5. ~(nextFrameOffset + headerSz <= fileSize)
  BY <1>1, <1>2
<1>6. fileSize < SizeAt + SizeBytes(Here.kind)
  BY <1>1, <1>3, <1>5
<1>7. QED
  BY <1>1, <1>3, <1>4, <1>6

LEMMA StepRight == PlayInv /\ [Next]_vars => PlayInv'
<1> SUFFICES ASSUME PlayInv, [Next]_vars PROVE PlayInv'
  OBVIOUS
<1>1. GoodFile /\ GoodFrames /\ Len(file) \in Nat
  BY DEF PlayInv, GoodFile, GoodFrames
<1>2. PlaceInv
  BY DEF PlayInv
<1>3. UNCHANGED fileVars
  BY DEF Next, PlayDemo, Command, ReplayCommand, SeekRelative, SeekAbsolute, Seek, SetSpeed,
         BeginReplay, StopReplay, ReadElsewhere, EndOfFile, Wait, ReadFrame, ReadCutOff,
         Tick, vars
<1>4. /\ GoodFile' /\ Len(file)' = Len(file)
      /\ Boundaries' = Boundaries /\ NextOffset' = OffsetOf(shown' + 1)
  BY <1>1, <1>3, FileStays
<1>5. file' = file
  BY <1>3 DEF fileVars
<1>6. NextOffset = OffsetOf(shown + 1)
  BY DEF NextOffset
<1> DEFINE CutAt == \/ nextFrameOffset \notin Boundaries
                    \/ SizeAt < fileSize /\ fileSize < SizeAt + SizeBytes(Here.kind)
<1>31. CutAt /\ nextFrameOffset' = nextFrameOffset => CutAt'
  BY <1>3 DEF fileVars, SizeAt, Here, FrameAt, Boundaries, OffsetOf, Ends
<1>32. OnlyCutSizesCrash'
  <2>1. CASE UNCHANGED <<crashed, nextFrameOffset>>
    <3>1. crashed => CutAt
      BY DEF PlayInv, OnlyCutSizesCrash
    <3>2. crashed' => CutAt'
      BY <2>1, <3>1, <1>31
    <3>3. QED
      BY <3>2 DEF OnlyCutSizesCrash
  <2>2. CASE crashed' = FALSE
    BY <2>2 DEF OnlyCutSizesCrash
  <2>3. CASE ReadElsewhere
    <3>1. nextFrameOffset' = nextFrameOffset /\ CutAt
      BY <2>3 DEF ReadElsewhere
    <3>2. QED
      BY <3>1, <1>31 DEF OnlyCutSizesCrash
  <2>4. CASE ReadCutOff
    <3>1. PICK h \in Headers :
            \/ ~crashed /\ crashed' = crashed
            \/ h.size # 0 /\ h.size < headerSz /\ nextFrameOffset' = nextFrameOffset
      BY <2>4 DEF ReadCutOff, Close, Crash, HeaderThere, Reading
    <3>2. CASE ~crashed /\ crashed' = crashed
      BY <3>2 DEF OnlyCutSizesCrash
    <3>3. CASE h.size # 0 /\ h.size < headerSz /\ nextFrameOffset' = nextFrameOffset
      <4>1. HeaderThere
        BY <2>4 DEF ReadCutOff
      <4>2. CutAt
        BY <3>3, <4>1, CrashOfCut
      <4>3. QED
        BY <3>3, <4>2, <1>31 DEF OnlyCutSizesCrash
    <3>4. QED
      BY <3>1, <3>2, <3>3
  <2>5. CASE Wait \/ EndOfFile \/ Tick \/ UNCHANGED vars
    BY <2>5, <2>1 DEF Wait, EndOfFile, Close, Tick, vars, playVars
  <2>6. CASE ReadFrame
    BY <2>6, <2>2 DEF ReadFrame, HeaderThere, Reading, OnlyCutSizesCrash
  <2>7. CASE BeginReplay
    BY <2>7 DEF BeginReplay, OnlyCutSizesCrash
  <2>8. CASE StopReplay
    BY <2>8 DEF StopReplay, Command, OnlyCutSizesCrash
  <2>9. CASE \E speed \in Speeds : SetSpeed(speed)
    BY <2>9 DEF SetSpeed, Command, OnlyCutSizesCrash
  <2>10. CASE \E offset \in Offsets :
                ReplayCommand(offset) \/ SeekRelative(offset) \/ SeekAbsolute(offset)
    BY <2>10 DEF ReplayCommand, SeekRelative, SeekAbsolute, Seek, Command, OnlyCutSizesCrash
  <2>11. QED
    BY <2>3, <2>4, <2>5, <2>6, <2>7, <2>8, <2>9, <2>10 DEF Next, PlayDemo
<1> HIDE DEF CutAt
<1> SUFFICES PlaceInv'
  BY <1>4, <1>32 DEF PlayInv
<1> USE DEF PlaceInv, PosRight, NextRight, TimeRight
<1>7. ASSUME UNCHANGED <<playing, opened, crashed, pos, nextFrameOffset, lastFrameDemoTime,
                         shown, timer>>
      PROVE  PlaceInv'
  BY <1>2, <1>4, <1>5, <1>6, <1>7
<1>8. ASSUME \/ playing' = FALSE /\ opened' = FALSE
             \/ playing' = playing /\ opened' = opened /\ crashed' = TRUE,
             shown' = shown
      PROVE  PlaceInv'
  <2>1. CASE playing' = FALSE /\ opened' = FALSE
    BY <2>1, <1>2, <1>4, <1>5, <1>8
  <2>2. CASE playing' = playing /\ opened' = opened /\ crashed' = TRUE
    <3>1. ~(opened' /\ ~crashed')
      BY <2>2
    <3>2. QED
      BY <2>2, <3>1, <1>2, <1>4, <1>8
  <2>3. QED
    BY <1>8, <2>1, <2>2
<1>9. ASSUME playing' \in BOOLEAN, opened' => playing', shown' = 0,
             opened' => pos' = FirstFrame /\ nextFrameOffset' = FirstFrame
      PROVE  PlaceInv'
  BY <1>1, <1>4, <1>9, FirstPlace
<1>10. ASSUME NEW offset \in Offsets, ReplayCommand(offset) PROVE PlaceInv'
  <2>1. timer' # <<>>
    <3>1. timer' = <<clock + 500, offset>>
      BY <1>10 DEF ReplayCommand
    <3>2. QED
      BY <3>1
  <2>2. /\ UNCHANGED <<playing, opened, crashed, pos, lastFrameDemoTime, shown>>
        /\ playing => nextFrameOffset' = pos
    BY <1>10 DEF ReplayCommand, Prepare
  <2>3. QED
    BY <1>2, <1>4, <1>5, <1>6, <2>1, <2>2
<1> HIDE DEF PlaceInv, PosRight, NextRight, TimeRight
<1>11. ASSUME NEW start, Seek(start) PROVE PlaceInv'
  <2>1. CASE start > replayStartTime
    BY <2>1, <1>2, <1>9, <1>11 DEF Seek, SeekStart, PlaceInv
  <2>2. CASE ~(start > replayStartTime)
    BY <2>2, <1>7, <1>11 DEF Seek
  <2>3. QED
    BY <2>1, <2>2
<1>12. CASE BeginReplay
  <2>1. CASE playing' = TRUE
    BY <2>1, <1>9, <1>12 DEF BeginReplay, Prepare
  <2>2. CASE playing' = FALSE
    BY <2>2, <1>8, <1>12 DEF BeginReplay
  <2>3. QED
    BY <2>1, <2>2, <1>12 DEF BeginReplay
<1>13. CASE \E speed \in Speeds : SetSpeed(speed)
  BY <1>7, <1>13 DEF SetSpeed
<1>14. CASE StopReplay
  BY <1>8, <1>14 DEF StopReplay
<1>15. CASE ReadElsewhere \/ EndOfFile
  BY <1>8, <1>15 DEF ReadElsewhere, EndOfFile, Close, Crash
<1>16. CASE Wait
  <2>1. pos' \notin Boundaries'
    BY <1>4, <1>16, HeaderLeft
  <2>2. UNCHANGED <<playing, opened, crashed, nextFrameOffset, lastFrameDemoTime, shown, timer>>
    BY <1>16 DEF Wait
  <2>3. QED
    BY <1>2, <1>4, <1>5, <1>6, <2>1, <2>2 DEF PlaceInv, PosRight, NextRight, TimeRight
<1>17. CASE ReadFrame
  <2>1. /\ shown' = shown + 1 /\ shown + 1 \in 1..Len(file)
        /\ pos' = NextOffset' /\ nextFrameOffset' = NextOffset'
        /\ lastFrameDemoTime' = file'[shown'].real
    BY <1>4, <1>5, <1>17, FrameRead
  <2>2. shown' \in 0..Len(file)
    BY <1>1, <2>1
  <2>3. playing' = playing /\ opened' /\ opened
    BY <1>17 DEF ReadFrame, HeaderThere
  <2>4. QED
    BY <1>2, <1>4, <2>1, <2>2, <2>3 DEF PlaceInv, PosRight, NextRight, TimeRight
<1>18. CASE ReadCutOff
  BY <1>8, <1>18 DEF ReadCutOff, Close, Crash
<1>19. CASE Tick
  BY <1>7, <1>19 DEF Tick, playVars
<1>20. CASE UNCHANGED vars
  BY <1>7, <1>20 DEF vars, playVars
<1>21. QED
  BY <1>10, <1>11, <1>12, <1>13, <1>14, <1>15, <1>16, <1>17, <1>18, <1>19, <1>20
     DEF Next, PlayDemo, SeekRelative, SeekAbsolute

-----------------------------------------------------------------------------
(* What the player promises *)

LEMMA AlwaysRight == Spec => []PlayInv
<1>1. QED
  BY InitRight, StepRight, PTL DEF Spec

\* Where the player reads a header, one was written: each size in a file of
\* any frames leads to the next frame, whatever commands are given, but for
\* the half second in which a replay is opened over another.
THEOREM PlayerStaysAligned == Spec => []AlignedOnceOpen
<1>1. PlayInv => AlignedOnceOpen
  <2> SUFFICES ASSUME PlayInv, opened, ~crashed, timer = <<>> PROVE nextFrameOffset \in Boundaries
    BY DEF AlignedOnceOpen
  <2>1. GoodFrames /\ shown \in 0..Len(file) /\ nextFrameOffset = OffsetOf(shown + 1)
    BY DEF PlayInv, PlaceInv, NextRight, NextOffset, GoodFile
  <2>2. shown + 1 \in 1..(Len(file) + 1)
    BY <2>1 DEF GoodFrames
  <2>3. QED
    BY <2>1, <2>2, Places
<1>2. QED
  BY <1>1, AlwaysRight, PTL

\* The player takes every frame it reads for the time it was recorded at.
THEOREM FramesAreTimed == Spec => []TimeMatches
<1>1. PlayInv => TimeMatches
  BY DEF PlayInv, PlaceInv, TimeRight, TimeMatches
<1>2. QED
  BY <1>1, AlwaysRight, PTL

\* Of the files a crash leaves, only those that end inside the size of a frame crash
\* the server that plays them, while the player has not lost its place.
THEOREM OnlyCutFilesCrash == Spec => []OnlyCutSizesCrash
<1>1. PlayInv => OnlyCutSizesCrash
  BY DEF PlayInv
<1>2. QED
  BY <1>1, AlwaysRight, PTL

\* No frame is shown before the replay has got to the time it was recorded at.
THEOREM NoFrameIsEarly == Spec => NeverEarly
<1> DEFINE Step == ReadFrame /\ clock >= replayStartTime /\ replaySpeed >= 0 =>
                        file[shown'].real <= (clock - replayStartTime) * replaySpeed
<1>1. PlayInv => Step
  <2> SUFFICES ASSUME PlayInv, ReadFrame, clock >= replayStartTime, replaySpeed >= 0
               PROVE  file[shown'].real <= (clock - replayStartTime) * replaySpeed
    OBVIOUS
  <2>1. PICK t \in ViewTimes : file[shown'].real <= t
    BY FrameRead
  <2>2. t = (clock - replayStartTime) * replaySpeed
    BY DEF ViewTimes
  <2>3. QED
    BY <2>1, <2>2
<1> HIDE DEF Step
<1>2. PlayInv /\ [Next]_vars => [Step]_vars
  BY <1>1
<1>3. Spec => [][Step]_vars
  BY <1>2, AlwaysRight, PTL DEF Spec
<1>4. QED
  BY <1>3 DEF NeverEarly, Step

-----------------------------------------------------------------------------
(* The player implements Replay *)

\* A frame that is there is not beyond the last whole one.
LEMMA WholeFramesCount ==
    ASSUME GoodFile
    PROVE  /\ WholeFrames \in Nat
           /\ \A k \in 1..Len(file) :
                OffsetOf(k) + file[k].len <= fileSize => k <= WholeFrames
<1> DEFINE n == Len(file)
           W == {k \in 1..n : OffsetOf(k) + file[k].len <= fileSize}
<1>1. n \in Nat /\ GoodFrames /\ fileSize \in Int
  BY DEF GoodFile, GoodFrames
<1>2. IsFiniteSet(1..n)
  BY <1>1, FS_Interval
<1>3. W \in SUBSET (1..n)
  OBVIOUS
<1>4. WholeFrames = Cardinality(W)
  BY DEF WholeFrames
<1>5. \A i, k \in 1..n : i <= k /\ k \in W => i \in W
  <2> SUFFICES ASSUME NEW i \in 1..n, NEW k \in 1..n, i < k, k \in W PROVE i \in W
    BY <1>1
  <2>1. /\ OffsetOf(i + 1) = OffsetOf(i) + file[i].len
        /\ OffsetOf(k + 1) = OffsetOf(k) + file[k].len
    BY <1>1, OffsetsGrow
  <2>2. /\ i + 1 \in 1..(n + 1) /\ k + 1 \in 1..(n + 1) /\ i + 1 < k + 1
    BY <1>1
  <2>3. OffsetOf(i + 1) < OffsetOf(k + 1) /\ OffsetOf(i + 1) \in Nat /\ OffsetOf(k + 1) \in Nat
    BY <1>1, <2>2, OffsetsGrow
  <2>4. OffsetOf(k + 1) <= fileSize
    BY <2>1
  <2>5. OffsetOf(i) + file[i].len <= fileSize
    BY <1>1, <2>1, <2>3, <2>4
  <2>6. QED
    BY <2>5
<1>6. \A k \in 1..n : OffsetOf(k) + file[k].len <= fileSize => k \in W
  OBVIOUS
<1> HIDE DEF W, n
<1>7. IsFiniteSet(W) /\ Cardinality(W) \in Nat
  BY <1>2, <1>3, FS_Subset, FS_CardinalityType
<1>8. ASSUME NEW k \in 1..n, k \in W PROVE k <= Cardinality(W)
  <2>1. k \in Nat /\ 1 \in Int /\ k \in Int /\ ~(1 > k) /\ k - 1 + 1 = k
    BY <1>1
  <2>2. Cardinality(1..k) = k
    BY <2>1, FS_Interval
  <2>3. 1..k \in SUBSET W
    BY <1>1, <1>5, <1>8
  <2>4. QED
    BY <1>7, <2>2, <2>3, FS_Subset
<1>9. QED
  BY <1>4, <1>6, <1>7, <1>8 DEF n

\* The frames of a file are shown one after the other and from the first, and
\* nothing of a frame that was cut off.
THEOREM PlayerImplementsReplay == Spec => PlaysInOrder
<1>1. Init => Order!Init
  <2>1. Init => WholeFrames \in Nat
    BY InitRight, WholeFramesCount DEF PlayInv
  <2>2. QED
    BY <2>1 DEF Init, Order!Init
<1>2. PlayInv /\ [Next]_vars => [Order!Next]_(Order!vars)
  <2> SUFFICES ASSUME PlayInv, [Next]_vars PROVE [Order!Next]_(Order!vars)
    OBVIOUS
  <2>1. UNCHANGED fileVars
    BY DEF Next, PlayDemo, Command, ReplayCommand, SeekRelative, SeekAbsolute, Seek, SetSpeed,
           BeginReplay, StopReplay, ReadElsewhere, EndOfFile, Wait, ReadFrame, ReadCutOff,
           Tick, vars
  <2>2. WholeFrames' = WholeFrames
    BY <2>1 DEF fileVars, WholeFrames, OffsetOf, Ends
  <2> USE DEF Order!Next, Order!vars, Order!Open, Order!Play, Order!Rewind, Order!Stop
  <2>3. CASE UNCHANGED <<playing, shown>>
    BY <2>2, <2>3
  <2>4. CASE \E offset \in Offsets : ReplayCommand(offset)
    BY <2>3, <2>4 DEF ReplayCommand
  <2>5. ASSUME NEW start, Seek(start) PROVE [Order!Next]_(Order!vars)
    BY <2>2, <2>3, <2>5 DEF Seek
  <2>6. CASE BeginReplay
    BY <2>2, <2>6 DEF BeginReplay
  <2>7. CASE (\E speed \in Speeds : SetSpeed(speed)) \/ Wait \/ Tick \/ UNCHANGED vars
    BY <2>3, <2>7 DEF SetSpeed, Wait, Tick, vars, playVars
  <2>8. CASE StopReplay \/ ReadElsewhere \/ EndOfFile \/ ReadCutOff
    BY <2>2, <2>8 DEF StopReplay, ReadElsewhere, EndOfFile, ReadCutOff, Close, Crash
  <2>9. CASE ReadFrame
    <3>1. /\ shown' = shown + 1 /\ shown + 1 \in 1..Len(file)
          /\ OffsetOf(shown + 1) + file[shown + 1].len <= fileSize
      BY <2>9, FrameRead
    <3>2. shown + 1 <= WholeFrames /\ WholeFrames \in Nat
      BY <3>1, WholeFramesCount DEF PlayInv
    <3>3. shown \in Nat
      BY DEF PlayInv, PlaceInv
    <3>4. playing /\ playing' = playing
      BY <2>9 DEF ReadFrame, HeaderThere, Reading
    <3>5. QED
      BY <2>2, <3>1, <3>2, <3>3, <3>4
  <2> HIDE DEF Order!Next, Order!vars
  <2>10. QED
    BY <2>4, <2>5, <2>6, <2>7, <2>8, <2>9 DEF Next, PlayDemo, SeekRelative, SeekAbsolute
<1>3. QED
  BY <1>1, <1>2, AlwaysRight, PTL DEF Spec, PlaysInOrder, Order!Spec
=============================================================================
