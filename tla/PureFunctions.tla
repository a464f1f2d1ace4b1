--------------------------- MODULE PureFunctions ----------------------------
(***************************************************************************)
(* The computations of the program that keep no state, each against a      *)
(* definition of what it should compute.  The state is one input of the    *)
(* given sets; a behaviour is one evaluation.                              *)
(***************************************************************************)
EXTENDS MediaLayout, MediaSettings, Authorisation

CONSTANTS
    Recordings,     \* channels to transcode, with the length of their session
    PortRanges,     \* port ranges of the command line
    AccessStrings,  \* access strings of the auth service
    Licences,       \* products of a user and the classes the user has grants for
    Limits,         \* grants of a customer and the product that is looked for
    Now             \* the clock of the licences

Kinds == {"video", "audio", "data"}

\* A channel, with the progress that decoding it prints.
Channels == [kind : Kinds, marks : Seq(Nat \cup {NoMatch})]

Letters == DOMAIN Modes \cup {"?"}

ClassNames == [base : STRING, capital : BOOLEAN, padded : BOOLEAN]

Products == [prod : STRING, scope : Seq(ClassNames), issued : Int, expires : Int]

Grants == [product : STRING, remain : Int, errors : Seq(STRING)]

\* The inputs have the types the program gives them.  More videos than FinalHeight
\* squared would have windows without height.
ASSUME InputsAssumption ==
    /\ Recordings \subseteq [what : {"recording"}, actual : Int, src : Seq(Channels)]
    /\ \A r \in Recordings : Len(r.src) <= FinalHeight * FinalHeight
    /\ PortRanges \subseteq [what : {"ports"}, parts : Seq(Int)]
    /\ AccessStrings \subseteq [what : {"access"}, chars : Seq(Letters)]
    /\ Licences \subseteq [what : {"licence"}, license : Seq(Products), classes : Seq(ClassNames)]
    /\ Limits \subseteq [what : {"limit"}, license : Seq(Grants), product : STRING]
    /\ Now \in Nat

VARIABLE input

Init == input \in Recordings \cup PortRanges \cup AccessStrings \cup Licences \cup Limits

Next == UNCHANGED input

Spec == Init /\ [][Next]_input

-----------------------------------------------------------------------------
\* The picture transcodingArgs describes is complete: every video is scaled and has
\* exactly one place, every audio channel is mixed exactly once and nothing else is
\* used; the windows lie inside the frame, are not empty and never overlap, however
\* many videos there are.  ffmpeg runs exactly when there is something to play.
PictureComplete ==
    input.what = "recording" =>
        LET args == transcodingArgs(input.src, [num |-> 1, den |-> 1])
            Of(kind) == {i - 1 : i \in {j \in DOMAIN input.src : input.src[j].kind = kind}}
        IN  /\ args.run <=> Of("video") \cup Of("audio") # {}
            /\ Range(args.shown) = Of("video") /\ Len(args.shown) = Cardinality(Of("video"))
            /\ Range(args.mixed) = Of("audio") /\ Len(args.mixed) = Cardinality(Of("audio"))
            /\ Fits(args.layout, args.window, Len(args.shown))

\* The factor TranscodingByPath finds stretches the last video that lasts more than
\* half a second to the session's own length, up to the thousandth that is not
\* worth a filter; the length of a video is the last time ffmpeg printed for it.
StretchFits ==
    input.what = "recording" =>
        LET LastTime(i) == LET t == {k \in DOMAIN input.src[i].marks :
                                         input.src[i].marks[k] # NoMatch}
                           IN  IF t = {} THEN 0 ELSE input.src[i].marks[Max(t)]
            videos == {i \in DOMAIN input.src : input.src[i].kind = "video" /\ LastTime(i) > 500}
            length == LastTime(Max(videos))
            result == Stretched(videoScale(input.src, input.actual), length)
        IN  input.actual > 0 /\ videos # {} => 1000 * Abs(result - input.actual) <= length

\* A port range that is accepted is the one that was written: the conversion to 16
\* bits in setPortRange loses nothing.
PortRangeKept ==
    input.what = "ports" =>
        KeepsPorts(input.parts, portRangeFromString(input.parts))

\* parseAccess grants a mode for a letter that occurs, and the right to pass it on for
\* one that occurs again, in any order and with any other letters in between; a string
\* with a letter it does not know grants nothing.
AccessModes ==
    input.what = "access" =>
        LET known == \A i \in DOMAIN input.chars : input.chars[i] \in DOMAIN Modes
            times(c) == Cardinality({i \in DOMAIN input.chars : input.chars[i] = c})
        IN  \A c \in DOMAIN Modes :
               /\ HasMode(parseAccess(input.chars), Modes[c]) <=> known /\ times(c) >= 1
               /\ HasMode(parseAccess(input.chars), 16 * Modes[c]) <=> known /\ times(c) >= 2

\* The scope of a session holds, once each, exactly the classes some active product
\* names and the user has a grant for: the loop of licenseActiveScope that removes from
\* the list it walks over skips none.
ScopeGranted ==
    input.what = "licence" =>
        LET scope  == licenseActiveScope(input.license, input.classes, Now).scope
            active == {i \in DOMAIN input.license :
                          /\ input.license[i].expires <= 0 \/ Now < input.license[i].expires
                          /\ input.license[i].issued <= Now}
            named  == UNION {{n.base : n \in Range(input.license[i].scope)} : i \in active}
            held   == {c.base : c \in {d \in Range(input.classes) : ~ d.padded}}
        IN  /\ Range(scope) = (named \cap held) \ {""}
            /\ IsInjective(scope)

\* ProductLimit answers the largest remainder of the product over the grants that have
\* no error besides a single one that they are used up, and none when no such grant has
\* anything left.
LimitExact ==
    input.what = "limit" =>
        LET remains == {g.remain : g \in {h \in Range(input.license) :
                            /\ h.product = input.product
                            /\ Len(h.errors) <= 1 /\ Range(h.errors) \subseteq {"product exhausted"}}}
        IN  ProductLimit(input.license, input.product) = Max(remains \cup {0})
=============================================================================
