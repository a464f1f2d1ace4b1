---------------------------- MODULE MediaLayout -----------------------------
(***************************************************************************)
(* What the transcoder asks of ffmpeg (internal/utils/transcoding.go): how *)
(* the recorded channels are placed in the picture and mixed, and by which *)
(* factor the video is stretched to the length of the session.             *)
(*                                                                         *)
(* A channel is a record: its kind (the prefix of its mime type), and the  *)
(* progress marks that decoding it prints, in milliseconds.  The filter    *)
(* string is the record of what it says.                                   *)
(***************************************************************************)
EXTENDS Integers, Sequences, SequencesExt, FiniteSetsExt

FinalWidth  == 1920
FinalHeight == 1080

\* A mark the pattern time=NN:NN:NN.N does not match: N/A, or a negative time.
NoMatch == -1

\* Mutant of parseDurationFromFFmpeg: the first match counts.
parseFirstDuration(marks) ==
    FoldLeft(LAMBDA ms, t : IF t = NoMatch \/ ms # 0 THEN ms ELSE t, 0, marks)

\* parseDurationFromFFmpeg: the last mark that matches, 0 without one
parseDurationFromFFmpeg(marks) ==
    FoldLeft(LAMBDA ms, t : IF t = NoMatch THEN ms ELSE t, 0, marks)

\* probeActualDuration: 0 stands for its error
probeActualDuration(channel) == parseDurationFromFFmpeg(channel.marks)

\* The positions, counted from 0 like ffmpeg's inputs, of the channels of a kind
ChannelsOf(kind, src) ==
    FoldLeftDomain(LAMBDA found, i : IF src[i].kind = kind THEN Append(found, i - 1) ELSE found,
                   <<>>, src)

CeilDiv(a, b) == (a + b - 1) \div b

\* ceil(sqrt(n))
Columns(n) == Min({k \in 1..n : k * k >= n})

\* Mutant of Rows: the division is not rounded up.
RowsCut(n) == n \div Columns(n)

Rows(n) == CeilDiv(n, Columns(n))

\* The layout entries of xstack: row by row, until the videos run out
Layout(n) ==
    LET w == FinalWidth \div Columns(n)
        h == FinalHeight \div Rows(n)
    IN  [k \in 1..Min({n, Rows(n) * Columns(n)}) |->
            [x |-> ((k - 1) % Columns(n)) * w, y |-> ((k - 1) \div Columns(n)) * h]]

\* transcodingArgs: nothing to do without audio and video; otherwise the inputs, what
\* is scaled to which window, where the windows go and what is mixed.  One video fills
\* the picture.
transcodingArgs(src, scale) ==
    LET video == ChannelsOf("video", src)
        audio == ChannelsOf("audio", src)
        n     == Len(video)
    IN  [run     |-> video # <<>> \/ audio # <<>>,
         inputs  |-> Len(src),
         stretch |-> scale,
         window  |-> IF n <= 1 THEN [w |-> FinalWidth, h |-> FinalHeight]
                     ELSE [w |-> FinalWidth \div Columns(n), h |-> FinalHeight \div Rows(n)],
         shown   |-> video,
         layout  |-> IF n <= 1 THEN [k \in 1..n |-> [x |-> 0, y |-> 0]] ELSE Layout(n),
         mixed   |-> audio]

\* The factor TranscodingByPath computes, as a fraction: every video longer than half
\* a second overwrites it, so that the last one decides.
videoScale(src, actual) ==
    LET deciding == {i \in DOMAIN src : /\ src[i].kind = "video"
                                        /\ probeActualDuration(src[i]) > 500}
    IN  IF actual <= 0 \/ deciding = {} THEN [num |-> 1, den |-> 1]
        ELSE [num |-> actual, den |-> probeActualDuration(src[Max(deciding)])]

Abs(n) == IF n < 0 THEN -n ELSE n

\* setpts is left out for a factor within a thousandth of 1
Stretched(scale, duration) ==
    IF 1000 * Abs(scale.num - scale.den) > scale.den
    THEN (duration * scale.num) \div scale.den
    ELSE duration

-----------------------------------------------------------------------------
(* What a layout should be.                                                *)

\* Two windows share no point.
Disjoint(p, q, window) ==
    \/ p.x + window.w <= q.x \/ q.x + window.w <= p.x
    \/ p.y + window.h <= q.y \/ q.y + window.h <= p.y

\* There are n windows inside the frame, not empty and side by side.
Fits(layout, window, n) ==
    /\ DOMAIN layout = 1..n
    /\ window.w > 0 /\ window.h > 0
    /\ \A k \in 1..n : /\ layout[k].x + window.w <= FinalWidth
                       /\ layout[k].y + window.h <= FinalHeight
    /\ \A k, l \in 1..n : k # l => Disjoint(layout[k], layout[l], window)
=============================================================================
