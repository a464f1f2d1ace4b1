---------------------------- MODULE LayoutProofs ----------------------------
(***************************************************************************)
(* What the computations of the ffmpeg driver and of the WebRTC set-up     *)
(* give for every recording and every port range: each video has a window  *)
(* of its own in the picture, the video is stretched to the length of the  *)
(* session, and an accepted port range is the one that was written.        *)
(* First come induction up to a number and the existence of what a loop    *)
(* computes, on which all proofs about loops rest.                         *)
(***************************************************************************)
EXTENDS PureFunctions, WellFoundedInduction, FiniteSetTheorems, TLAPS

\* A set of naturals that is not empty has a least element, and Min is that element.
LEMMA MinIsLeast ==
    ASSUME NEW S \in SUBSET Nat, S # {}
    PROVE  Min(S) \in S /\ \A y \in S : Min(S) <= y
<1> DEFINE R == {ss \in Nat \X Nat : ss[1] < ss[2]}
<1>1. IsWellFoundedOn(R, Nat)
  BY NatLessThanWellFounded DEF OpToRel
<1>2. \A x, y \in Nat : <<y, x>> \notin R => x <= y
  OBVIOUS
<1>3. PICK x \in S : \A y \in S : ~ (<<y, x>> \in R)
  <2> HIDE DEF R
  <2> QED BY <1>1, WFMin
<1>4. \A y \in S : x <= y
  <2> HIDE DEF R
  <2> QED BY <1>2, <1>3
<1> QED
  BY <1>4 DEF Min

\* Induction up to n: what holds of 0 and goes from k to k + 1 holds of all.
LEMMA UpTo ==
    ASSUME NEW n \in Nat, NEW S, 0 \in S,
           \A k \in 0..(n - 1) : k \in S => k + 1 \in S
    PROVE  \A k \in 0..n : k \in S
<1> DEFINE T == {k \in 0..n : k \notin S}
           m == Min(T)
<1> SUFFICES ASSUME T # {} PROVE FALSE
  OBVIOUS
<1>1. m \in T /\ \A y \in T : m <= y
  <2>1. T \in SUBSET Nat
    OBVIOUS
  <2> QED BY <2>1, MinIsLeast
<1> HIDE DEF m
<1>2. m \in 1..n /\ m \notin S
  BY <1>1
<1>3. m - 1 \in S
  BY <1>1, <1>2
<1>4. m - 1 \in 0..(n - 1) /\ (m - 1) + 1 = m
  BY <1>2
<1> QED
  BY <1>2, <1>3, <1>4

\* A set of naturals that is bounded and not empty has a greatest element, and Max is
\* that element.
LEMMA MaxIsGreatest ==
    ASSUME NEW n \in Nat, NEW S \in SUBSET (0..n), S # {}
    PROVE  Max(S) \in S /\ \A y \in S : y <= Max(S)
<1> DEFINE T == {n - x : x \in S}
           m == Min(T)
<1>1. m \in T /\ \A y \in T : m <= y
  <2>1. T \in SUBSET Nat
    OBVIOUS
  <2>2. \A x \in S : n - x \in T
    OBVIOUS
  <2>3. T # {}
    BY <2>2
  <2> QED BY <2>1, <2>3, MinIsLeast
<1> HIDE DEF m
<1>2. PICK x \in S : m = n - x
  BY <1>1
<1>3. \A y \in S : n - x <= n - y
  BY <1>1, <1>2
<1>4. \A y \in S : x >= y
  BY <1>3
<1> QED
  BY <1>4 DEF Max

\* The places a loop has passed after i turns, and the one it passed last.
LEMMA Passed ==
    ASSUME NEW n \in Nat, NEW i \in 1..n
    PROVE  /\ 1..i \in SUBSET (1..n) /\ 1..i # {}
           /\ Max(1..i) = i /\ (1..i) \ {i} = 1..(i - 1)
<1>1. 1..i \in SUBSET (0..n) /\ 1..i # {} /\ i \in 1..i
  OBVIOUS
<1>2. Max(1..i) \in 1..i /\ \A y \in 1..i : y <= Max(1..i)
  BY <1>1, MaxIsGreatest
<1> QED
  BY <1>1, <1>2

\* A function of the sets of places that a fold over 1..n with the body step can be
\* defined by, with values in D.
LoopOf(f, n, D, base, step) ==
    /\ f \in [SUBSET (1..n) -> D]
    /\ f[{}] = base
    /\ \A s \in SUBSET (1..n) : s # {} => /\ Max(s) \in 1..n /\ f[s \ {Max(s)}] \in D
                                        /\ f[s] = step[<<Max(s), f[s \ {Max(s)}]>>]

\* A loop computes something: for every body step and every start there is the function
\* that a fold over 1..n is defined by.
LEMMA LoopRuns ==
    ASSUME NEW n \in Nat, NEW D, NEW base \in D, NEW step \in [(1..n) \X D -> D]
    PROVE  \E f : LoopOf(f, n, D, base, step)
<1> DEFINE Runs(k, f) ==
              /\ f \in [SUBSET (1..k) -> D] /\ f[{}] = base
              /\ \A s \in SUBSET (1..k) : s # {} => f[s] = step[<<Max(s), f[s \ {Max(s)}]>>]
           S == {k \in 0..n : \E f : Runs(k, f)}
<1>1. 0 \in S
  <2> DEFINE f == [s \in SUBSET (1..0) |-> base]
  <2>1. SUBSET (1..0) = {{}}
    OBVIOUS
  <2>2. Runs(0, f)
    BY <2>1
  <2> HIDE DEF f, Runs
  <2> QED BY <2>2
<1>2. ASSUME NEW k \in 0..(n - 1), k \in S
      PROVE  k + 1 \in S
  <2>1. PICK f : Runs(k, f)
    BY <1>2
  <2> DEFINE l == k + 1
             g == [s \in SUBSET (1..l) |->
                      IF l \in s THEN step[<<l, f[s \ {l}]>>] ELSE f[s]]
  <2>2. l \in 1..n /\ k \in Nat
    OBVIOUS
  <2>3. \A s \in SUBSET (1..l) : /\ s \ {l} \in SUBSET (1..k)
                                 /\ l \notin s => s \in SUBSET (1..k)
    OBVIOUS
  <2>4. g \in [SUBSET (1..l) -> D]
    <3>1. ASSUME NEW s \in SUBSET (1..l)
          PROVE  (IF l \in s THEN step[<<l, f[s \ {l}]>>] ELSE f[s]) \in D
      <4> HIDE DEF l
      <4> QED BY <2>1, <2>2, <2>3
    <3> QED BY <3>1
  <2>5. {} \in SUBSET (1..l) /\ l \notin {}
    OBVIOUS
  <2>6. g[{}] = base
    BY <2>1, <2>5
  <2>7. ASSUME NEW s \in SUBSET (1..l), s # {}
        PROVE  g[s] = step[<<Max(s), g[s \ {Max(s)}]>>]
    <3>1. Max(s) \in s /\ \A y \in s : y <= Max(s)
      <4>1. l \in Nat /\ s \in SUBSET (0..l)
        OBVIOUS
      <4> QED BY <2>7, <4>1, MaxIsGreatest
    <3>2. s \ {Max(s)} \in SUBSET (1..l)
      OBVIOUS
    <3>3. CASE l \in s
      <4>1. Max(s) = l
        <5> DEFINE x == Max(s)
        <5>1. x \in 1..l /\ l <= x
          BY <3>1, <3>3
        <5> HIDE DEF x
        <5> QED BY <5>1 DEF x
      <4>2. g[s \ {l}] = f[s \ {l}]
        BY <2>3
      <4> QED BY <3>3, <4>1, <4>2
    <3>4. CASE l \notin s
      <4>1. s \in SUBSET (1..k) /\ g[s] = f[s]
        BY <2>3, <3>4
      <4>2. g[s \ {Max(s)}] = f[s \ {Max(s)}]
        BY <3>2, <3>4
      <4> QED BY <2>1, <2>7, <4>1, <4>2
    <3> QED BY <3>3, <3>4
  <2>8. Runs(l, g)
    <3> HIDE DEF g, l
    <3> QED BY <2>4, <2>6, <2>7
  <2>9. \E h : Runs(l, h)
    <3> HIDE DEF Runs, l, g
    <3> QED BY <2>8
  <2> HIDE DEF Runs
  <2> QED BY <2>2, <2>9
<1>3. n \in S
  <2> HIDE DEF S
  <2>1. \A k \in 0..n : k \in S
    BY <1>1, <1>2, UpTo
  <2> QED BY <2>1
<1>4. PICK f : Runs(n, f)
  BY <1>3
<1>5. ASSUME NEW s \in SUBSET (1..n), s # {}
      PROVE  Max(s) \in 1..n /\ f[s \ {Max(s)}] \in D
  <2>1. s \in SUBSET (0..n)
    OBVIOUS
  <2>2. Max(s) \in s
    BY <1>5, <2>1, MaxIsGreatest
  <2>3. s \ {Max(s)} \in SUBSET (1..n)
    OBVIOUS
  <2> QED BY <1>4, <2>2, <2>3
<1> QED
  BY <1>4, <1>5 DEF LoopOf

\* What Append adds.
LEMMA RangeAppend ==
    ASSUME NEW T, NEW s \in Seq(T), NEW e \in T
    PROVE  Range(Append(s, e)) = Range(s) \cup {e}
<1> DEFINE r == Append(s, e)
<1>1. /\ r \in Seq(T) /\ Len(r) = Len(s) + 1 /\ Len(s) \in Nat
      /\ \A i \in 1..Len(s) : r[i] = s[i]
      /\ r[Len(s) + 1] = e
  OBVIOUS
<1>2. DOMAIN r = 1..(Len(s) + 1) /\ DOMAIN s = 1..Len(s)
  BY <1>1
<1> HIDE DEF r
<1>3. 1..(Len(s) + 1) = (1..Len(s)) \cup {Len(s) + 1}
  BY <1>1
<1>4. {r[i] : i \in DOMAIN r} = {s[i] : i \in DOMAIN s} \cup {e}
  BY <1>1, <1>2, <1>3
<1> QED
  BY <1>4 DEF Range, r

\* Only the empty sequence has no elements.
LEMMA RangeEmpty ==
    ASSUME NEW T, NEW s \in Seq(T)
    PROVE  s = <<>> <=> Range(s) = {}
<1>1. Range(<<>>) = {}
  BY DEF Range
<1>2. ASSUME s # <<>> PROVE s[1] \in Range(s)
  <2>1. 1 \in DOMAIN s
    BY <1>2
  <2> QED BY <2>1 DEF Range
<1> QED
  BY <1>1, <1>2

\* Division with remainder of naturals.
LEMMA Division ==
    ASSUME NEW a \in Nat, NEW b \in Nat \ {0}
    PROVE  /\ a \div b \in Nat /\ a % b \in 0..(b - 1)
           /\ a = b * (a \div b) + (a % b)
<1>1. a % b \in 0..(b - 1)
  OBVIOUS
<1>2. a \div b \in Nat
  OBVIOUS
<1>3. a = b * (a \div b) + (a % b)
  BY SMTT(30)
<1> QED
  BY <1>1, <1>2, <1>3

\* A product grows with its first factor.
LEMMA TimesGrows ==
    ASSUME NEW a \in Nat, NEW b \in Nat, NEW c \in Nat, a <= b
    PROVE  a * c <= b * c
<1>1. PICK d \in Nat : b = a + d
  <2> WITNESS b - a \in Nat
  <2> QED OBVIOUS
<1>2. (a + d) * c = a * c + d * c /\ d * c \in Nat /\ a * c \in Nat
  BY SMTT(30)
<1> QED
  BY <1>1, <1>2

\* What is smaller as a multiple of c is smaller.
LEMMA TimesCancels ==
    ASSUME NEW a \in Nat, NEW b \in Nat, NEW c \in Nat, a * c < b * c
    PROVE  a < b
<1>1. a * c \in Nat /\ b * c \in Nat
  OBVIOUS
<1>2. b <= a => b * c <= a * c
  BY TimesGrows
<1> QED
  BY <1>1, <1>2

\* The grid of ceil(sqrt(n)) columns and as many rows as they take has a cell for every
\* video, and neither side is longer than the square that would hold them.
LEMMA GridHolds ==
    ASSUME NEW n \in Nat \ {0}, NEW side \in Nat \ {0}, n <= side * side
    PROVE  /\ Columns(n) \in 1..side /\ Rows(n) \in 1..side
           /\ n <= Rows(n) * Columns(n)
<1> DEFINE S == {k \in 1..n : k * k >= n}
           c == Columns(n)
           r == Rows(n)
<1>1. n \in S
  <2>1. 1 * n <= n * n
    BY TimesGrows
  <2> QED BY <2>1
<1>2. c \in S /\ \A y \in S : c <= y
  <2>1. S \in SUBSET Nat
    OBVIOUS
  <2> QED BY <1>1, <2>1, MinIsLeast DEF Columns
<1>3. c \in Nat \ {0} /\ c <= n /\ n <= c * c
  BY <1>2
<1>4. c <= side
  <2>1. CASE side <= n
    BY <2>1, <1>2
  <2>2. CASE side > n
    BY <2>2, <1>3
  <2> QED BY <2>1, <2>2
<1> HIDE DEF S, c
<1> DEFINE a == n + c - 1
           m == a % c
<1>5. a \in Nat /\ c <= a
  BY <1>3
<1>6. r \in Nat /\ m \in 0..(c - 1) /\ a = c * r + m
  <2>1. r = a \div c
    BY DEF Rows, CeilDiv, c
  <2> HIDE DEF a, r, m
  <2>2. a \div c \in Nat /\ a % c \in 0..(c - 1) /\ a = c * (a \div c) + (a % c)
    BY <1>3, <1>5, Division
  <2> QED BY <2>1, <2>2 DEF m
<1> HIDE DEF r, m
<1>7. c * r = r * c /\ r * c \in Nat /\ (c + 1) * c = c * c + c /\ c * c \in Nat
      /\ 0 * c = 0
  BY <1>3, <1>6
<1>8. n <= r * c
  BY <1>3, <1>6, <1>7
<1>9. r # 0
  BY <1>3, <1>7, <1>8
<1>10. r < c + 1
  <2>1. r * c < (c + 1) * c
    BY <1>3, <1>6, <1>7
  <2> QED BY <1>3, <1>6, <2>1, TimesCancels
<1> QED
  BY <1>3, <1>4, <1>6, <1>8, <1>9, <1>10 DEF c, r

\* The cells of a line of cells of width w, numbered from 0, follow each other.
LEMMA CellsFollow ==
    ASSUME NEW i \in Nat, NEW j \in Nat, NEW w \in Nat, i < j
    PROVE  i * w + w <= j * w
<1>1. (i + 1) * w <= j * w
  BY TimesGrows
<1>2. (i + 1) * w = i * w + w
  OBVIOUS
<1> QED
  BY <1>1, <1>2

\* A length cut into parts: the parts are not empty and end inside it.
LEMMA PartsEndInside ==
    ASSUME NEW length \in Nat, NEW parts \in 1..length, NEW i \in 0..(parts - 1)
    PROVE  /\ length \div parts \in Nat \ {0}
           /\ i * (length \div parts) + (length \div parts) <= length
<1> DEFINE w == length \div parts
           m == length % parts
<1>1. w \in Nat /\ m \in 0..(parts - 1) /\ length = parts * w + m
  <2>1. parts \in Nat \ {0}
    OBVIOUS
  <2> QED BY <2>1, Division, Zenon
<1> HIDE DEF w, m
<1>2. parts * 0 = 0 /\ parts * w \in Nat
  BY <1>1
<1>3. w # 0
  BY <1>1, <1>2
<1>4. i * w + w <= parts * w
  BY <1>1, CellsFollow
<1> QED
  BY <1>1, <1>2, <1>3, <1>4 DEF w

\* The sizes of the frame, without their values.
LEMMA Frame ==
    /\ FinalWidth \in Nat \ {0} /\ FinalHeight \in Nat \ {0} /\ FinalHeight <= FinalWidth
    /\ FinalHeight * FinalHeight \in Nat \ {0}
BY DEF FinalWidth, FinalHeight

\* The layout of xstack: for every number of videos up to FinalHeight squared, from
\* which on a row would have no pixel, each video has a window of its own inside the
\* frame, not empty and overlapping no other.
LEMMA LayoutFits ==
    ASSUME NEW n \in 1..(FinalHeight * FinalHeight)
    PROVE  Fits(Layout(n), [w |-> FinalWidth \div Columns(n), h |-> FinalHeight \div Rows(n)], n)
<1> DEFINE c == Columns(n)
           r == Rows(n)
           w == FinalWidth \div c
           h == FinalHeight \div r
           col(k) == (k - 1) % c
           row(k) == (k - 1) \div c
<1>1. /\ c \in 1..FinalHeight /\ r \in 1..FinalHeight /\ n <= r * c
      /\ c \in 1..FinalWidth /\ r * c \in Nat
  <2>1. n \in Nat \ {0} /\ FinalHeight \in Nat \ {0} /\ n <= FinalHeight * FinalHeight
    BY Frame
  <2>2. c \in 1..FinalHeight /\ r \in 1..FinalHeight /\ n <= r * c
    BY <2>1, GridHolds, Zenon
  <2> HIDE DEF c, r
  <2> QED BY <2>2, Frame
<1>2. Layout(n) = [k \in 1..n |-> [x |-> col(k) * w, y |-> row(k) * h]]
  <2>1. Min({n, r * c}) = n
    <3> HIDE DEF c, r
    <3>1. {n, r * c} \in SUBSET Nat /\ {n, r * c} # {}
      BY <1>1
    <3>2. Min({n, r * c}) \in {n, r * c} /\ Min({n, r * c}) <= n
      BY <3>1, MinIsLeast
    <3> QED BY <1>1, <3>2
  <2> QED BY <2>1 DEF Layout
<1> HIDE DEF c, r, w, h, col, row
<1>3. ASSUME NEW k \in 1..n
      PROVE  /\ col(k) \in 0..(c - 1) /\ row(k) \in 0..(r - 1)
             /\ k = c * row(k) + col(k) + 1
  <2>1. k - 1 \in Nat /\ c \in Nat \ {0}
    BY <1>1
  <2>2. row(k) \in Nat /\ col(k) \in 0..(c - 1) /\ k - 1 = c * row(k) + col(k)
    BY <2>1, Division, Zenon DEF row, col
  <2>3. c * row(k) = row(k) * c /\ row(k) * c \in Nat
    BY <2>1, <2>2
  <2>4. row(k) * c < r * c
    BY <1>1, <2>2, <2>3
  <2>5. row(k) < r
    BY <1>1, <2>1, <2>2, <2>4, TimesCancels
  <2> QED BY <1>1, <2>2, <2>3, <2>5
<1>4. ASSUME NEW k \in 1..n
      PROVE  /\ w \in Nat \ {0} /\ h \in Nat \ {0}
             /\ col(k) * w \in Nat /\ row(k) * h \in Nat
             /\ col(k) * w + w <= FinalWidth /\ row(k) * h + h <= FinalHeight
  <2>1. FinalWidth \in Nat /\ FinalHeight \in Nat
    BY Frame
  <2>2. w \in Nat \ {0} /\ col(k) * w + w <= FinalWidth
    BY <1>1, <1>3, <2>1, PartsEndInside, Zenon DEF w
  <2>3. h \in Nat \ {0} /\ row(k) * h + h <= FinalHeight
    BY <1>1, <1>3, <2>1, PartsEndInside, Zenon DEF h
  <2> QED BY <1>1, <1>3, <2>2, <2>3
<1>5. ASSUME NEW k \in 1..n, NEW l \in 1..n, k # l
      PROVE  \/ col(k) * w + w <= col(l) * w \/ col(l) * w + w <= col(k) * w
             \/ row(k) * h + h <= row(l) * h \/ row(l) * h + h <= row(k) * h
  <2>1. w \in Nat /\ h \in Nat
    BY <1>4
  <2>2. /\ col(k) \in Nat /\ row(k) \in Nat /\ col(l) \in Nat /\ row(l) \in Nat
    BY <1>1, <1>3
  <2>3. col(k) # col(l) \/ row(k) # row(l)
    <3>1. k = c * row(k) + col(k) + 1 /\ l = c * row(l) + col(l) + 1
      BY <1>3
    <3> QED BY <1>5, <3>1, Zenon
  <2>4. CASE col(k) < col(l) \/ col(l) < col(k)
    BY <2>1, <2>2, <2>4, CellsFollow
  <2>5. CASE row(k) < row(l) \/ row(l) < row(k)
    BY <2>1, <2>2, <2>5, CellsFollow
  <2> QED BY <2>2, <2>3, <2>4, <2>5
<1> DEFINE layout == Layout(n)
           window == [w |-> w, h |-> h]
<1>6. /\ DOMAIN layout = 1..n
      /\ \A k \in 1..n : layout[k].x = col(k) * w /\ layout[k].y = row(k) * h
  BY <1>2
<1>7. window.w = w /\ window.h = h
  OBVIOUS
<1> HIDE DEF layout, window
<1>8. Fits(layout, window, n)
  <2>1. window.w > 0 /\ window.h > 0
    <3>1. 1 \in 1..n
      BY Frame
    <3> QED BY <1>4, <1>7, <3>1
  <2>2. \A k \in 1..n : /\ layout[k].x + window.w <= FinalWidth
                         /\ layout[k].y + window.h <= FinalHeight
    BY <1>4, <1>6, <1>7
  <2>3. \A k, l \in 1..n : k # l => Disjoint(layout[k], layout[l], window)
    BY <1>5, <1>6, <1>7 DEF Disjoint
  <2> QED BY <1>6, <2>1, <2>2, <2>3 DEF Fits
<1> QED
  BY <1>8 DEF layout, window, w, h, c, r

\* The picture transcodingArgs describes fits: whatever the channels are and in
\* whatever order, as long as there are no more videos than a grid of single pixel
\* rows can hold, each has exactly one window, inside the frame, not empty and
\* overlapping no other.  One video, or none, fills the frame.
LEMMA PictureFits ==
    ASSUME NEW src, NEW scale,
           Len(ChannelsOf("video", src)) \in 0..(FinalHeight * FinalHeight)
    PROVE  LET args == transcodingArgs(src, scale)
           IN  Fits(args.layout, args.window, Len(args.shown))
<1> DEFINE n == Len(ChannelsOf("video", src))
           args == transcodingArgs(src, scale)
<1>1. args.shown = ChannelsOf("video", src)
  BY DEF transcodingArgs
<1>2. CASE n <= 1
  <2>1. /\ args.layout = [k \in 1..n |-> [x |-> 0, y |-> 0]]
        /\ args.window = [w |-> FinalWidth, h |-> FinalHeight]
    BY <1>2 DEF transcodingArgs
  <2>2. n \in Nat
    BY Frame
  <2> DEFINE layout == [k \in 1..n |-> [x |-> 0, y |-> 0]]
             window == [w |-> FinalWidth, h |-> FinalHeight]
  <2> HIDE DEF n
  <2>3. \A k, l \in 1..n : k = l
    BY <1>2, <2>2
  <2>4. /\ DOMAIN layout = 1..n /\ \A k \in 1..n : layout[k].x = 0 /\ layout[k].y = 0
        /\ window.w = FinalWidth /\ window.h = FinalHeight
    OBVIOUS
  <2> HIDE DEF layout, window
  <2>5. Fits(layout, window, n)
    BY <2>3, <2>4, Frame DEF Fits
  <2> HIDE DEF args
  <2>6. Fits(args.layout, args.window, Len(args.shown))
    BY <1>1, <2>1, <2>5 DEF layout, window, n
  <2> QED BY <2>6 DEF args
<1>3. CASE ~ (n <= 1)
  <2>1. /\ args.layout = Layout(n)
        /\ args.window = [w |-> FinalWidth \div Columns(n), h |-> FinalHeight \div Rows(n)]
    BY <1>3 DEF transcodingArgs
  <2>2. n \in 1..(FinalHeight * FinalHeight)
    <3>1. n \in 0..(FinalHeight * FinalHeight)
      OBVIOUS
    <3> HIDE DEF n
    <3> QED BY <1>3, <3>1, Frame
  <2> HIDE DEF args, n
  <2>3. Fits(Layout(n), [w |-> FinalWidth \div Columns(n), h |-> FinalHeight \div Rows(n)], n)
    BY <2>2, LayoutFits
  <2>4. Fits(args.layout, args.window, Len(args.shown))
    BY <1>1, <2>1, <2>3 DEF n
  <2> QED BY <2>4 DEF args
<1> QED
  BY <1>2, <1>3

\* The loop over the progress marks, turn by turn.
LEMMA MarksLoop ==
    ASSUME NEW marks \in Seq(Nat \cup {NoMatch})
    PROVE  \E g : /\ g \in [0..Len(marks) -> Nat] /\ g[0] = 0
                  /\ \A i \in 1..Len(marks) : g[i] = IF marks[i] = NoMatch THEN g[i - 1] ELSE marks[i]
                  /\ parseDurationFromFFmpeg(marks) = g[Len(marks)]
<1> DEFINE n == Len(marks)
           Op(ms, t) == IF t = NoMatch THEN ms ELSE t
           step == [p \in (1..n) \X Nat |-> Op(p[2], marks[p[1]])]
           Body(f) == [s \in SUBSET (DOMAIN marks) |->
                          IF s = {} THEN 0 ELSE Op(f[s \ {Max(s)}], marks[Max(s)])]
           iter == CHOOSE f : f = Body(f)
           g == [i \in 0..n |-> iter[1..i]]
<1>1. n \in Nat /\ DOMAIN marks = 1..n
  OBVIOUS
<1>2. step \in [(1..n) \X Nat -> Nat]
  <2>1. ASSUME NEW i \in 1..n, NEW a \in Nat
        PROVE  Op(a, marks[i]) \in Nat
    OBVIOUS
  <2> HIDE DEF n, Op
  <2> QED BY <2>1
<1>3. PICK f : LoopOf(f, n, Nat, 0, step)
  <2>1. 0 \in Nat
    OBVIOUS
  <2> HIDE DEF step, n
  <2> QED BY <1>1, <1>2, <2>1, LoopRuns
<1>4. f = Body(f)
  <2>1. ASSUME NEW s \in SUBSET (1..n)
        PROVE  f[s] = IF s = {} THEN 0 ELSE Op(f[s \ {Max(s)}], marks[Max(s)])
    <3> HIDE DEF Op, n
    <3> QED BY <1>1, <1>3 DEF LoopOf
  <2> HIDE DEF Op, n
  <2> QED BY <1>1, <1>3, <2>1 DEF LoopOf
<1>5. iter = Body(iter)
  <2> HIDE DEF Body
  <2> QED BY <1>4, Zenon
<1>6. parseDurationFromFFmpeg(marks) = iter[1..n]
  BY <1>1 DEF parseDurationFromFFmpeg, FoldLeft, MapThenFoldSet
<1> HIDE DEF iter, n, step, Op
<1>7. {} \in SUBSET (1..n) /\ 1..0 = {}
  OBVIOUS
<1>8. iter[1..0] = 0
  BY <1>1, <1>5, <1>7
<1>9. ASSUME NEW i \in 1..n
      PROVE  iter[1..i] = Op(iter[1..(i - 1)], marks[i])
  <2>1. /\ 1..i \in SUBSET (1..n) /\ 1..i # {}
        /\ Max(1..i) = i /\ (1..i) \ {i} = 1..(i - 1)
    BY <1>1, Passed
  <2> QED BY <1>1, <1>5, <2>1
<1>10. \A i \in 0..n : iter[1..i] \in Nat
  <2> DEFINE S == {i \in 0..n : iter[1..i] \in Nat}
  <2>1. 0 \in S
    BY <1>1, <1>3, <1>8 DEF LoopOf
  <2>2. ASSUME NEW k \in 0..(n - 1), k \in S
        PROVE  k + 1 \in S
    <3>1. k + 1 \in 1..n /\ (k + 1) - 1 = k
      BY <1>1
    <3>2. iter[1..(k + 1)] = Op(iter[1..k], marks[k + 1])
      BY <1>9, <3>1
    <3>3. step[<<k + 1, iter[1..k]>>] = Op(iter[1..k], marks[k + 1])
      BY <2>2, <3>1 DEF step
    <3> QED BY <1>1, <1>2, <2>2, <3>1, <3>2, <3>3
  <2>3. \A k \in 0..n : k \in S
    <3> HIDE DEF S
    <3> QED BY <1>1, <2>1, <2>2, UpTo
  <2> QED BY <2>3
<1>11. /\ g \in [0..n -> Nat] /\ g[0] = 0 /\ g[n] = iter[1..n]
       /\ \A i \in 1..n : g[i] = Op(g[i - 1], marks[i])
  BY <1>1, <1>8, <1>9, <1>10
<1> QED
  BY <1>6, <1>11 DEF n, Op

\* The loop over the channels, turn by turn.
LEMMA ChannelsLoop ==
    ASSUME NEW kind, NEW src \in Seq(Channels)
    PROVE  \E g : /\ g \in [0..Len(src) -> Seq(Nat)] /\ g[0] = <<>>
                  /\ \A i \in 1..Len(src) : g[i] = IF src[i].kind = kind THEN Append(g[i - 1], i - 1) ELSE g[i - 1]
                  /\ ChannelsOf(kind, src) = g[Len(src)]
<1> DEFINE n == Len(src)
           Op(found, j) == IF src[j].kind = kind THEN Append(found, j - 1) ELSE found
           step == [p \in (1..n) \X Seq(Nat) |-> Op(p[2], p[1])]
           Body(f) == [s \in SUBSET (DOMAIN [j \in DOMAIN src |-> j]) |->
                          IF s = {} THEN <<>> ELSE Op(f[s \ {Max(s)}], [j \in DOMAIN src |-> j][Max(s)])]
           iter == CHOOSE f : f = Body(f)
           g == [i \in 0..n |-> iter[1..i]]
<1>1. n \in Nat /\ DOMAIN [j \in DOMAIN src |-> j] = 1..n
  OBVIOUS
<1>2. step \in [(1..n) \X Seq(Nat) -> Seq(Nat)]
  <2>1. ASSUME NEW i \in 1..n, NEW a \in Seq(Nat)
        PROVE  Op(a, i) \in Seq(Nat)
    OBVIOUS
  <2> HIDE DEF n, Op
  <2> QED BY <2>1
<1>3. PICK f : LoopOf(f, n, Seq(Nat), <<>>, step)
  <2>1. <<>> \in Seq(Nat)
    OBVIOUS
  <2> HIDE DEF step, n
  <2> QED BY <1>1, <1>2, <2>1, LoopRuns
<1>4. f = Body(f)
  <2>1. ASSUME NEW s \in SUBSET (1..n)
        PROVE  f[s] = IF s = {} THEN <<>> ELSE Op(f[s \ {Max(s)}], [j \in DOMAIN src |-> j][Max(s)])
    <3> HIDE DEF Op, n
    <3> QED BY <1>1, <1>3 DEF LoopOf
  <2> HIDE DEF Op, n
  <2> QED BY <1>1, <1>3, <2>1 DEF LoopOf
<1>5. iter = Body(iter)
  <2> HIDE DEF Body
  <2> QED BY <1>4, Zenon
<1>6. ChannelsOf(kind, src) = iter[1..n]
  BY <1>1 DEF ChannelsOf, FoldLeftDomain, FoldLeft, MapThenFoldSet
<1> HIDE DEF iter, n, step, Op
<1>7. {} \in SUBSET (1..n) /\ 1..0 = {}
  OBVIOUS
<1>8. iter[1..0] = <<>>
  BY <1>1, <1>5, <1>7
<1>9. ASSUME NEW i \in 1..n
      PROVE  iter[1..i] = Op(iter[1..(i - 1)], i)
  <2>1. /\ 1..i \in SUBSET (1..n) /\ 1..i # {}
        /\ Max(1..i) = i /\ (1..i) \ {i} = 1..(i - 1)
    BY <1>1, Passed
  <2> QED BY <1>1, <1>5, <2>1
<1>10. \A i \in 0..n : iter[1..i] \in Seq(Nat)
  <2> DEFINE S == {i \in 0..n : iter[1..i] \in Seq(Nat)}
  <2>1. 0 \in S
    BY <1>1, <1>3, <1>8 DEF LoopOf
  <2>2. ASSUME NEW k \in 0..(n - 1), k \in S
        PROVE  k + 1 \in S
    <3>1. k + 1 \in 1..n /\ (k + 1) - 1 = k
      BY <1>1
    <3>2. iter[1..(k + 1)] = Op(iter[1..k], k + 1)
      BY <1>9, <3>1
    <3>3. step[<<k + 1, iter[1..k]>>] = Op(iter[1..k], k + 1)
      BY <2>2, <3>1 DEF step
    <3> QED BY <1>1, <1>2, <2>2, <3>1, <3>2, <3>3
  <2>3. \A k \in 0..n : k \in S
    <3> HIDE DEF S
    <3> QED BY <1>1, <2>1, <2>2, UpTo
  <2> QED BY <2>3
<1>11. /\ g \in [0..n -> Seq(Nat)] /\ g[0] = <<>> /\ g[n] = iter[1..n]
       /\ \A i \in 1..n : g[i] = Op(g[i - 1], i)
  BY <1>1, <1>8, <1>9, <1>10
<1> QED
  BY <1>6, <1>11 DEF n, Op

\* parseDurationFromFFmpeg answers the last mark that matches, and 0 if none does.
LEMMA LastMark ==
    ASSUME NEW marks \in Seq(Nat \cup {NoMatch})
    PROVE  LET t == {k \in DOMAIN marks : marks[k] # NoMatch}
           IN  /\ parseDurationFromFFmpeg(marks) = IF t = {} THEN 0 ELSE marks[Max(t)]
               /\ parseDurationFromFFmpeg(marks) \in Nat
<1> DEFINE n == Len(marks)
           M(i) == {k \in 1..i : marks[k] # NoMatch}
           Is(x, i) == x = IF M(i) = {} THEN 0 ELSE marks[Max(M(i))]
<1>1. n \in Nat /\ DOMAIN marks = 1..n
  OBVIOUS
<1>2. PICK g : /\ g \in [0..n -> Nat] /\ g[0] = 0
               /\ \A i \in 1..n : g[i] = IF marks[i] = NoMatch THEN g[i - 1] ELSE marks[i]
               /\ parseDurationFromFFmpeg(marks) = g[n]
  BY MarksLoop
<1> DEFINE S == {i \in 0..n : Is(g[i], i)}
<1>3. 0 \in S
  <2>1. M(0) = {}
    OBVIOUS
  <2> QED BY <1>1, <1>2, <2>1
<1>4. ASSUME NEW k \in 0..(n - 1), k \in S
      PROVE  k + 1 \in S
  <2> DEFINE l == k + 1
  <2>1. l \in 1..n /\ l - 1 = k /\ l \in 0..n
    BY <1>1
  <2>2. g[l] = IF marks[l] = NoMatch THEN g[k] ELSE marks[l]
    BY <1>2, <2>1
  <2>3. CASE marks[l] = NoMatch
    <3>1. M(l) = M(k)
      BY <2>3
    <3>2. Is(g[l], l)
      BY <1>4, <2>2, <2>3, <3>1
    <3> QED BY <2>1, <3>2
  <2>4. CASE marks[l] # NoMatch
    <3>1. l \in M(l) /\ M(l) \in SUBSET (0..l) /\ l \in Nat
      BY <2>1, <2>4
    <3>2. Max(M(l)) = l
      <4> DEFINE X == M(l)
                 m == Max(X)
      <4>1. m \in X /\ \A y \in X : y <= m
        <5> HIDE DEF X, l
        <5> QED BY <3>1, MaxIsGreatest DEF X
      <4>2. m \in 0..l /\ l <= m
        BY <3>1, <4>1
      <4> HIDE DEF m
      <4> QED BY <3>1, <4>2 DEF m
    <3>3. Is(g[l], l)
      BY <2>2, <2>4, <3>1, <3>2
    <3> QED BY <2>1, <3>3
  <2> QED BY <2>3, <2>4
<1>5. n \in S
  <2> HIDE DEF S
  <2>1. \A k \in 0..n : k \in S
    BY <1>1, <1>3, <1>4, UpTo
  <2> QED BY <1>1, <2>1
<1>6. Is(g[n], n)
  BY <1>5
<1>7. {k \in DOMAIN marks : marks[k] # NoMatch} = M(n)
  BY <1>1
<1> QED
  BY <1>1, <1>2, <1>6, <1>7

\* transcodingArgs finds the channels of a kind: each one once, and no other.
LEMMA ChannelsFound ==
    ASSUME NEW kind, NEW src \in Seq(Channels)
    PROVE  LET Of == {i - 1 : i \in {j \in DOMAIN src : src[j].kind = kind}}
           IN  /\ ChannelsOf(kind, src) \in Seq(Nat)
               /\ Range(ChannelsOf(kind, src)) = Of
               /\ Len(ChannelsOf(kind, src)) = Cardinality(Of)
               /\ Len(ChannelsOf(kind, src)) \in 0..Len(src)
<1> DEFINE n == Len(src)
           Of(k) == {i - 1 : i \in {j \in 1..k : src[j].kind = kind}}
           Is(x, k) == /\ x \in Seq(Nat) /\ Range(x) = Of(k) /\ Len(x) <= k
                       /\ IsFiniteSet(Of(k)) /\ Cardinality(Of(k)) = Len(x)
<1>1. n \in Nat /\ DOMAIN src = 1..n
  OBVIOUS
<1>2. PICK g : /\ g \in [0..n -> Seq(Nat)] /\ g[0] = <<>>
               /\ \A i \in 1..n : g[i] = IF src[i].kind = kind THEN Append(g[i - 1], i - 1)
                                         ELSE g[i - 1]
               /\ ChannelsOf(kind, src) = g[n]
  BY ChannelsLoop
<1> DEFINE S == {k \in 0..n : Is(g[k], k)}
<1>3. 0 \in S
  <2>1. Of(0) = {}
    OBVIOUS
  <2>2. Range(<<>>) = {}
    BY DEF Range
  <2> QED BY <1>1, <1>2, <2>1, <2>2, FS_EmptySet
<1>4. ASSUME NEW k \in 0..(n - 1), k \in S
      PROVE  k + 1 \in S
  <2> DEFINE l == k + 1
             x == g[k]
             y == g[l]
  <2>1. l \in 1..n /\ l - 1 = k /\ l \in 0..n /\ k \in Nat
    BY <1>1
  <2>2. y = IF src[l].kind = kind THEN Append(x, k) ELSE x
    BY <1>2, <2>1
  <2>3. Is(x, k)
    BY <1>4
  <2>4. CASE src[l].kind # kind
    <3>1. Of(l) = Of(k)
      BY <2>1, <2>4
    <3> HIDE DEF Of, x, y
    <3>2. Is(y, l)
      BY <2>1, <2>2, <2>3, <2>4, <3>1
    <3> QED BY <2>1, <3>2 DEF y
  <2>5. CASE src[l].kind = kind
    <3>1. Of(l) = Of(k) \cup {k}
      <4>1. {j \in 1..l : src[j].kind = kind} = {j \in 1..k : src[j].kind = kind} \cup {l}
        BY <2>1, <2>5
      <4> QED BY <2>1, <4>1
    <3>2. k \notin Of(k)
      BY <2>1
    <3> HIDE DEF Of, x, y, l
    <3>3. y = Append(x, k) /\ x \in Seq(Nat)
      BY <2>2, <2>3, <2>5
    <3>4. y \in Seq(Nat) /\ Len(y) = Len(x) + 1 /\ Len(x) \in Nat
      BY <2>1, <3>3
    <3>5. Range(y) = Range(x) \cup {k}
      BY <2>1, <3>3, RangeAppend
    <3>6. IsFiniteSet(Of(k) \cup {k}) /\ Cardinality(Of(k) \cup {k}) = Cardinality(Of(k)) + 1
      BY <2>3, <3>2, FS_AddElement
    <3>7. Is(y, l)
      <4>1. l = k + 1
        BY DEF l
      <4>2. Range(y) = Of(l) /\ IsFiniteSet(Of(l))
        BY <2>3, <3>1, <3>5, <3>6
      <4>3. Len(x) <= k /\ Cardinality(Of(k)) = Len(x)
        BY <2>3
      <4>4. Len(y) <= l /\ Cardinality(Of(l)) = Len(y)
        BY <2>1, <3>1, <3>4, <3>6, <4>1, <4>3
      <4> QED BY <3>4, <4>2, <4>4
    <3> QED BY <2>1, <3>7 DEF l, y
  <2> QED BY <2>4, <2>5
<1>5. n \in S
  <2> HIDE DEF S
  <2>1. \A k \in 0..n : k \in S
    BY <1>1, <1>3, <1>4, UpTo
  <2> QED BY <1>1, <2>1
<1>6. Is(g[n], n)
  BY <1>5
<1>7. {i - 1 : i \in {j \in DOMAIN src : src[j].kind = kind}} = Of(n)
  BY <1>1
<1> DEFINE found == ChannelsOf(kind, src)
<1>8. /\ found \in Seq(Nat) /\ Range(found) = Of(n) /\ Len(found) = Cardinality(Of(n))
      /\ Len(found) \in 0..n
  <2> HIDE DEF Of, n
  <2> QED BY <1>1, <1>2, <1>6
<1> HIDE DEF Of
<1> QED
  BY <1>7, <1>8

\* TranscodingByPath stretches the video to the length of the session: when the last
\* video longer than half a second lasts length and the session lasted actual, the
\* stretched video differs from the session by at most a thousandth of the video, for
\* all lengths.  Earlier videos do not decide, whatever their lengths are.
LEMMA StretchClose ==
    ASSUME NEW src, NEW actual \in Nat \ {0}, DOMAIN src \subseteq Nat,
           NEW last \in DOMAIN src, src[last].kind = "video",
           probeActualDuration(src[last]) \in Nat, probeActualDuration(src[last]) > 500,
           \A i \in DOMAIN src :
               src[i].kind = "video" /\ probeActualDuration(src[i]) > 500 => i <= last
    PROVE  LET length == probeActualDuration(src[last])
           IN  1000 * Abs(Stretched(videoScale(src, actual), length) - actual) <= length
<1> DEFINE length == probeActualDuration(src[last])
           deciding == {i \in DOMAIN src : /\ src[i].kind = "video"
                                           /\ probeActualDuration(src[i]) > 500}
<1>1. last \in deciding /\ \A i \in deciding : i <= last
  OBVIOUS
<1>2. Max(deciding) = last
  <2>1. deciding \subseteq Nat
    OBVIOUS
  <2> HIDE DEF deciding
  <2> QED BY <1>1, <2>1 DEF Max
<1>3. videoScale(src, actual) = [num |-> actual, den |-> length]
  <2>1. ~ (actual <= 0) /\ deciding # {}
    BY <1>1
  <2> QED BY <1>2, <2>1 DEF videoScale
<1>4. length \in Nat /\ length > 500
  OBVIOUS
<1> HIDE DEF length, deciding
<1>5. Stretched(videoScale(src, actual), length) =
          IF 1000 * Abs(actual - length) > length
          THEN (length * actual) \div length
          ELSE length
  BY <1>3 DEF Stretched
<1>6. (length * actual) \div length = actual
  BY <1>4, SMTT(30)
<1>7. 1000 * Abs(Stretched(videoScale(src, actual), length) - actual) <= length
  <2>1. CASE 1000 * Abs(actual - length) > length
    BY <1>4, <1>5, <1>6, <2>1 DEF Abs
  <2>2. CASE ~ (1000 * Abs(actual - length) > length)
    BY <1>4, <1>5, <2>2 DEF Abs
  <2> QED BY <2>1, <2>2
<1> QED
  BY <1>7 DEF length

\* What validUint16 accepts is not changed by its storage in 16 bits.
LEMMA PortFits ==
    ASSUME NEW p \in Int, validUint16(p)
    PROVE  setPortRange(p) = p
BY DEF validUint16, setPortRange

\* A port range that portRangeFromString accepts is the one that was written, whatever
\* numbers stand between the dashes and however many there are: the conversion to 16
\* bits in setPortRange loses nothing of what validUint16 lets pass.
LEMMA PortsKept ==
    \A parts \in Seq(Int) : KeepsPorts(parts, portRangeFromString(parts))
<1> SUFFICES ASSUME NEW parts \in Seq(Int), portRangeFromString(parts).ok
             PROVE  LET range == portRangeFromString(parts)
                    IN  parts = <<range.min, range.max>>
  BY DEF KeepsPorts
<1>1. Len(parts) = 2 /\ validUint16(parts[1]) /\ validUint16(parts[2])
  BY DEF portRangeFromString
<1>2. parts[1] \in Int /\ parts[2] \in Int /\ parts = <<parts[1], parts[2]>>
  BY <1>1
<1>3. setPortRange(parts[1]) = parts[1] /\ setPortRange(parts[2]) = parts[2]
  BY <1>1, <1>2, PortFits
<1> QED
  BY <1>1, <1>2, <1>3 DEF portRangeFromString

-----------------------------------------------------------------------------
(* The properties, for every set of inputs.                                *)

\* An evaluation keeps its input.
LEMMA InputKept == Spec => []Init
<1>1. Init /\ [Next]_input => Init'
  BY DEF Init, Next
<1> QED
  BY <1>1, PTL DEF Spec

\* An input has the type of its kind.
LEMMA InputTyped ==
    ASSUME Init
    PROVE  /\ input.what = "recording" => /\ input.actual \in Int /\ input.src \in Seq(Channels)
                                          /\ Len(input.src) <= FinalHeight * FinalHeight
           /\ input.what = "ports" => input.parts \in Seq(Int)
           /\ input.what = "access" => input.chars \in Seq(Letters)
           /\ input.what = "licence" => /\ input.license \in Seq(Products)
                                        /\ input.classes \in Seq(ClassNames)
           /\ input.what = "limit" => input.license \in Seq(Grants) /\ input.product \in STRING
<1>1. CASE input \in Recordings
  BY <1>1, InputsAssumption
<1>2. CASE input \in PortRanges
  BY <1>2, InputsAssumption
<1>3. CASE input \in AccessStrings
  BY <1>3, InputsAssumption
<1>4. CASE input \in Licences
  BY <1>4, InputsAssumption
<1>5. CASE input \in Limits
  BY <1>5, InputsAssumption
<1> QED
  BY <1>1, <1>2, <1>3, <1>4, <1>5 DEF Init

\* Whatever channels a recording has and in whatever order, transcodingArgs shows every
\* video once, in a window of its own inside the frame, mixes every audio channel once,
\* and runs ffmpeg exactly when there is something to play.
THEOREM PictureIsComplete == Spec => []PictureComplete
<1>1. Init => PictureComplete
  <2> SUFFICES ASSUME Init, input.what = "recording"
               PROVE  PictureComplete
    BY DEF PictureComplete
  <2> DEFINE src == input.src
             scale == [num |-> 1, den |-> 1]
             args == transcodingArgs(src, scale)
             video == ChannelsOf("video", src)
             audio == ChannelsOf("audio", src)
             Of(kind) == {i - 1 : i \in {j \in DOMAIN src : src[j].kind = kind}}
  <2>1. src \in Seq(Channels) /\ Len(src) \in Nat /\ Len(src) <= FinalHeight * FinalHeight
    BY InputTyped
  <2> HIDE DEF src
  <2>2. /\ video \in Seq(Nat) /\ Range(video) = Of("video")
        /\ Len(video) = Cardinality(Of("video")) /\ Len(video) \in 0..Len(src)
    BY <2>1, ChannelsFound
  <2>3. /\ audio \in Seq(Nat) /\ Range(audio) = Of("audio")
        /\ Len(audio) = Cardinality(Of("audio"))
    BY <2>1, ChannelsFound
  <2>4. /\ args.run <=> video # <<>> \/ audio # <<>>
        /\ args.shown = video /\ args.mixed = audio
    BY DEF transcodingArgs
  <2> HIDE DEF Of
  <2>5. Fits(args.layout, args.window, Len(args.shown))
    <3>1. Len(video) \in 0..(FinalHeight * FinalHeight)
      <4> HIDE DEF video
      <4> QED BY <2>1, <2>2, Frame
    <3> QED BY <3>1, PictureFits
  <2> HIDE DEF args, video, audio
  <2>6. \A s \in Seq(Nat) : s = <<>> <=> Range(s) = {}
    BY RangeEmpty
  <2>7. args.run <=> Of("video") \cup Of("audio") # {}
    BY <2>2, <2>3, <2>4, <2>6
  <2>8. /\ args.run <=> Of("video") \cup Of("audio") # {}
        /\ Range(args.shown) = Of("video") /\ Len(args.shown) = Cardinality(Of("video"))
        /\ Range(args.mixed) = Of("audio") /\ Len(args.mixed) = Cardinality(Of("audio"))
        /\ Fits(args.layout, args.window, Len(args.shown))
    BY <2>2, <2>3, <2>4, <2>5, <2>7
  <2> QED BY <2>8 DEF PictureComplete, args, scale, src, Of
<1> QED
  BY <1>1, InputKept, PTL

\* For all lengths and all progress that ffmpeg can print, TranscodingByPath stretches the
\* last video longer than half a second to the length of the session, up to a thousandth.
THEOREM StretchAlwaysFits == Spec => []StretchFits
<1>1. Init => StretchFits
  <2> SUFFICES ASSUME Init, input.what = "recording"
               PROVE  StretchFits
    BY DEF StretchFits
  <2> DEFINE src == input.src
             actual == input.actual
             LastTime(i) == LET t == {k \in DOMAIN src[i].marks : src[i].marks[k] # NoMatch}
                            IN  IF t = {} THEN 0 ELSE src[i].marks[Max(t)]
             videos == {i \in DOMAIN src : src[i].kind = "video" /\ LastTime(i) > 500}
             last == Max(videos)
             result == Stretched(videoScale(src, actual), LastTime(last))
  <2>1. src \in Seq(Channels) /\ actual \in Int
    BY InputTyped
  <2> HIDE DEF src, actual
  <2>2. ASSUME NEW i \in DOMAIN src
        PROVE  probeActualDuration(src[i]) = LastTime(i) /\ LastTime(i) \in Nat
    <3>1. src[i] \in Channels
      BY <2>1
    <3>2. src[i].marks \in Seq(Nat \cup {NoMatch})
      BY <3>1 DEF Channels
    <3> QED BY <3>2, LastMark DEF probeActualDuration
  <2> HIDE DEF LastTime
  <2>3. ASSUME actual > 0, videos # {}
        PROVE  1000 * Abs(result - actual) <= LastTime(last)
    <3>1. last \in videos /\ \A i \in videos : i <= last
      <4>1. Len(src) \in Nat /\ videos \in SUBSET (0..Len(src))
        BY <2>1
      <4> HIDE DEF videos
      <4> QED BY <2>3, <4>1, MaxIsGreatest
    <3> HIDE DEF last
    <3>2. /\ last \in DOMAIN src /\ src[last].kind = "video"
          /\ probeActualDuration(src[last]) = LastTime(last)
          /\ probeActualDuration(src[last]) \in Nat /\ probeActualDuration(src[last]) > 500
      BY <2>2, <3>1
    <3>3. \A i \in DOMAIN src :
             src[i].kind = "video" /\ probeActualDuration(src[i]) > 500 => i <= last
      BY <2>2, <3>1
    <3>4. DOMAIN src \subseteq Nat /\ actual \in Nat \ {0}
      BY <2>1, <2>3
    <3> HIDE DEF videos
    <3>5. LET length == probeActualDuration(src[last])
          IN  1000 * Abs(Stretched(videoScale(src, actual), length) - actual) <= length
      BY <3>2, <3>3, <3>4, StretchClose
    <3> QED BY <3>2, <3>5
  <2> QED BY <2>3 DEF StretchFits, src, actual, LastTime
<1> QED
  BY <1>1, InputKept, PTL

\* Whatever stands between the dashes, setPortRange stores the ports that were written
\* or the range is refused.
THEOREM PortRangesKept == Spec => []PortRangeKept
<1>1. Init => PortRangeKept
  BY InputTyped, PortsKept DEF PortRangeKept
<1> QED
  BY <1>1, InputKept, PTL
=============================================================================
