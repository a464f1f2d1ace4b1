-------------------------- MODULE ServiceDiscovery --------------------------
(***************************************************************************)
(* The resolver with the balancer it feeds (infra/resolver/roundrobin.go): *)
(* gRPC's base balancer connects to the endpoints of the last update and   *)
(* has a new picker built from the connections that are ready each time    *)
(* their set changes; every outgoing call (the session of a token, the     *)
(* upload of a recording) asks the picker for a connection.                *)
(***************************************************************************)
EXTENDS ResolverWatch, SequencesExt

CONSTANT
    Modulus   \* the values of the picker's counter: 2^32 in the code

\* A uint32 can number the connections of any process.
ASSUME ModulusAssumption ==
    /\ Modulus \in Nat \ {0}
    /\ \A v \in DOMAIN Catalogue : Cardinality(Endpoints(v)) <= Modulus

VARIABLES
    subConns,    \* the connections of the picker, in the order of its slice
    next,        \* the picker's counter
    waits        \* per connection: picks since its last one, or since Build

pickerVars    == <<subConns, next, waits>>
discoveryVars == <<resolverVars, pickerVars>>

ready == ToSet(subConns)

\* rrPickerBuilder.Build: the slice has the order of a Go map and the counter
\* starts anywhere in it.
BuildPicker(conns) ==
    /\ subConns' \in SetToSeqs(conns)
    /\ next' \in 0 .. (IF conns = {} THEN 0 ELSE Cardinality(conns) - 1)
    /\ waits' = [c \in conns |-> 0]

\* Mutant of Picked: the modulus is one short.
PickedShort(n) == subConns[(n % (IF Len(subConns) > 1 THEN Len(subConns) - 1 ELSE 1)) + 1]

\* p.subConns[nextIndex % subConnsLen]
Picked(n) == subConns[(n % Len(subConns)) + 1]

\* Mutant of Pick: the counter does not wrap.
PickNoWrap ==
    /\ subConns # <<>>
    /\ next' = next + 1
    /\ waits' = [c \in ready |-> IF c = Picked(next') THEN 0 ELSE waits[c] + 1]
    /\ UNCHANGED <<resolverVars, subConns>>

\* The counter is a uint32 that wraps; the addition is atomic.  A call that names
\* its host is answered from an index that only Build writes and takes no turn.
Pick ==
    /\ subConns # <<>>
    /\ next' = (next + 1) % Modulus
    /\ waits' = [c \in ready |-> IF c = Picked(next') THEN 0 ELSE waits[c] + 1]
    /\ UNCHANGED <<resolverVars, subConns>>

\* A connection becomes ready, or breaks (gRPC).
ConnReady(c) ==
    /\ c \in Endpoints(applied) \ ready
    /\ BuildPicker(ready \cup {c})
    /\ UNCHANGED resolverVars

ConnBroken(c) ==
    /\ c \in ready
    /\ BuildPicker(ready \ {c})
    /\ UNCHANGED resolverVars

\* The base balancer drops the connections an update no longer lists.
UpdateBalancer == UpdateState /\ BuildPicker(ready \cap Endpoints(applied'))

Init ==
    /\ ResolverInit
    /\ subConns = <<>> /\ next = 0 /\ waits = <<>>

Next ==
    \/ ResolverStep /\ UNCHANGED pickerVars
    \/ UpdateBalancer
    \/ ~ panicked /\ Pick
    \/ ~ panicked /\ \E c \in Endpoints(applied) : ConnReady(c)
    \/ ~ panicked /\ \E c \in ready : ConnBroken(c)

\* The resolver's fairness; nothing is owed to or by the calls.
Spec == Init /\ [][Next]_discoveryVars /\ ResolverFairness

-----------------------------------------------------------------------------
(* Properties.                                                             *)

TypeOK ==
    /\ ResolverTypeOK
    /\ subConns \in Seq(Endpoints(applied))
    /\ next \in 0 .. Modulus - 1
    /\ DOMAIN waits = ready

\* Round robin: no ready connection waits for more than 2(n - 1) picks, whatever
\* order and start the picker was built with, and also where the counter wraps and
\* n does not divide its range, so that the order jumps.
FairShare ==
    \A c \in ready : waits[c] <= 2 * (Cardinality(ready) - 1)
=============================================================================
