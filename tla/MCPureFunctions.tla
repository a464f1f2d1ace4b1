-------------------------- MODULE MCPureFunctions ---------------------------
(***************************************************************************)
(* Inputs for TLC: every mixture of kinds for a few channels, any number   *)
(* of videos up to a bound, both sides of every boundary of the ports and  *)
(* of the validity of a licence, and lists with removals in a row.         *)
(***************************************************************************)
EXTENDS PureFunctions

CONSTANTS
    MaxChannels,    \* channels of a recording with every mixture of kinds
    MaxVideos,      \* videos of a recording, for the picture alone
    MaxLetters      \* letters of an access string

\* What decoding a channel prints: nothing that matches, half a second and less, more.
Marks == {<<>>, <<NoMatch>>, <<300, 500>>, <<400, 2000>>, <<1000, NoMatch>>, <<1999, 2001>>}

MCRecordings ==
    [what : {"recording"}, actual : {0, 1000, 2000},
     src : UNION {[1..n -> [kind : Kinds, marks : Marks]] : n \in 0..2}]
    \cup [what : {"recording"}, actual : {0},
          src : UNION {[1..n -> [kind : Kinds, marks : {<<>>}]] : n \in 0..MaxChannels}]
    \cup [what : {"recording"}, actual : {0},
          src : {[i \in 1..n |-> [kind |-> "video", marks |-> <<>>]] : n \in 1..MaxVideos}]

Ports == {NotANumber, 0, 1, 4000, 32767, 32768, 65535, 65536, 69536}

MCPortRanges == [what : {"ports"}, parts : UNION {[1..n -> Ports] : n \in 1..3}]

MCAccessStrings == [what : {"access"}, chars : UNION {[1..n -> Letters] : n \in 0..MaxLetters}]

Names == {[base |-> b, capital |-> c, padded |-> p] :
              b \in {"a", "b"}, c \in BOOLEAN, p \in BOOLEAN}
         \cup {[base |-> "", capital |-> FALSE, padded |-> FALSE]}

Plain(b) == [base |-> b, capital |-> FALSE, padded |-> FALSE]

\* Boundaries before, at and after the clock, which is 2, or not set, with one product;
\* removals with two products that are both active.
MCLicences ==
    [what : {"licence"},
     license : {<<[prod |-> "p", scope |-> <<n>>, issued |-> i, expires |-> e]>> :
                    n \in Names, i \in -1..3, e \in -1..3},
     classes : {<<c>> : c \in Names}]
    \cup
    [what : {"licence"},
     license : {<<[prod |-> "p", scope |-> s, issued |-> 1, expires |-> 0],
                  [prod |-> "q", scope |-> t, issued |-> 1, expires |-> e]>> :
                    s \in UNION {[1..n -> {Plain("a"), Plain("b")}] : n \in 0..2},
                    t \in UNION {[1..n -> {Plain("b"), Plain("c"), Plain("d")}] : n \in 1..2},
                    e \in {2, 3}},
     classes : {<<>>, <<Plain("a")>>, <<Plain("b")>>, <<Plain("c"), Plain("a")>>}]

MCGrants == [product : {"p", "q"}, remain : {-1, 0, 1, 2},
             errors : {<<>>, <<"product exhausted">>, <<"expired">>,
                       <<"product exhausted", "expired">>, <<"product exhausted", "product exhausted">>}]

MCLimits == [what : {"limit"}, license : UNION {[1..n -> MCGrants] : n \in 0..2}, product : {"p"}]
=============================================================================
