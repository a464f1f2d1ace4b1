--------------------------- MODULE MediaSettings ----------------------------
(***************************************************************************)
(* How the WebRTC API is set up from the command line (cmd/resources.go    *)
(* and infra/webrtc/pion.go): the codecs and the UDP port range are read   *)
(* late in the start-up, and what cannot be read ends it with an error or, *)
(* from inside NewAPI, with a panic.                                       *)
(***************************************************************************)
EXTENDS Integers, Sequences

\* What strconv.Atoi refuses.
NotANumber == -1

\* Mutant of validUint16: only the sign is tested.
validSign(p) == p >= 0

\* math.MaxInt16, although the value becomes a uint16
validUint16(p) == p >= 0 /\ p <= 32767

\* setPortRange: the port as it is stored in the uint16
setPortRange(p) == p % 65536

\* portRangeFromString of the parts between the dashes: a range or none
portRangeFromString(parts) ==
    IF Len(parts) = 2 /\ validUint16(parts[1]) /\ validUint16(parts[2])
    THEN [ok |-> TRUE, min |-> setPortRange(parts[1]), max |-> setPortRange(parts[2])]
    ELSE [ok |-> FALSE, min |-> 0, max |-> 0]

\* NewAPI panics on a codec that is neither audio nor video and, through pion, on a
\* range that ends before it begins; a range with port 0 is ignored.
NewAPI(codecs, range) ==
    LET used     == range.min # 0 /\ range.max # 0
        reversed == used /\ range.max < range.min
        foreign  == \E i \in DOMAIN codecs : codecs[i] \notin {"audio", "video"}
    IN  IF reversed \/ foreign THEN "panic" ELSE "ok"

\* webrtcAPI: the outcome for a configuration; an empty range is not parsed.
webrtcAPI(cfg) ==
    LET range == IF cfg.range = <<>> THEN [ok |-> TRUE, min |-> 0, max |-> 0]
                 ELSE portRangeFromString(cfg.range)
    IN  IF cfg.codecs = <<>> \/ ~ range.ok THEN "error" ELSE NewAPI(cfg.codecs, range)

\* A range that is accepted is the one that was written.
KeepsPorts(parts, range) == range.ok => parts = <<range.min, range.max>>
=============================================================================
