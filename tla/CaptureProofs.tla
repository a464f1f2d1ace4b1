--------------------------- MODULE CaptureProofs ----------------------------
(***************************************************************************)
(* The safety properties of CaptureSession, for any number of tracks, data *)
(* channels and calls: the counter close() decides on (CountAccurate), the *)
(* one job per session (FiledOnce, PermitUsed), its place at the end       *)
(* (FiledLast), and that somebody will write it (EndedHasCloser).          *)
(***************************************************************************)
EXTENDS CaptureSession, FiniteSetTheorems, TLAPS

-----------------------------------------------------------------------------
(* What makes the properties inductive.                                    *)

\* Where a track is before its deferred function has run.
Counting == {"codec", "loop", "read", "push", "exit"}
Starting == {"idle", "append", "store", "count"}

CountedTracks == {t \in Tracks : at[t] \in Counting}
LeftTracks    == {t \in Tracks : at[t] \notin Counting \cup Starting}

\* Also after ICE has set the counter to 0, tracks that are counted bound it from
\* above and those that have left from below.
CountBounds ==
    /\ countTrack <= Cardinality(CountedTracks)
    /\ - Cardinality(LeftTracks) <= countTrack

\* A closer past one of the steps of close() has done it.
PastCancel == {"writers", "peer", "lookup", "remove", "create"}
PastPeer   == {"lookup", "remove", "create"}

ClosedInOrder ==
    /\ \A p \in Procs : at[p] \in PastCancel => cancelled
    /\ \A p \in Procs : at[p] \in PastPeer => pcClosed
    /\ FiledLast

\* Who holds the permit to file the recording: the cache entry, then the closer that
\* looked it up.  Nobody has one before UploadP2PVideo added the session.
Filing == {"remove", "create"}

PermitKnown ==
    /\ at["api"] = "idle" => ~ registered
    /\ inStore => registered
    /\ \A p \in Procs : at[p] \in Filing => registered
    /\ submitted > 0 => registered

\* As long as no two closers overlapped in the cache, there is one permit.
OnePermit ==
    overlapped = FALSE =>
        /\ \A p, q \in Procs : at[p] \in Filing /\ at[q] \in Filing => p = q
        /\ \A p \in Procs : at[p] \in Filing => submitted = 0
        /\ inStore => submitted = 0 /\ \A p \in Procs : at[p] # "create"
        /\ submitted <= 1

\* A track that started found the session answered ...
StartedAnswered == \A t \in Tracks : at[t] # "idle" => registered

\* ... and the first one that is done did not go without a closer past the counter or
\* another track that will yet come to it.
PastGate == {"cancel", "writers", "peer", "lookup", "remove", "create"}

CloserLeft ==
    \/ submitted > 0
    \/ \E p \in Procs : at[p] \in PastGate
    \/ \E t \in Tracks : at[t] \in Counting \cup {"gate"}

CloserKept ==
    /\ \E t \in Tracks : at[t] = "done"
    /\ at["ice"] = "idle" /\ ~ CacheCanEvict /\ ~ crashed
    => CloserLeft

IInv == /\ StateTypeOK /\ countTrack \in Int /\ CountAccurate /\ CountBounds
        /\ ClosedInOrder /\ PermitKnown /\ OnePermit /\ PermitUsed

-----------------------------------------------------------------------------
(* Types.                                                                  *)

\* A goroutine that goes on changes its own place only.
LEMMA GotoMoves ==
    ASSUME StateTypeOK, NEW p \in Procs, NEW from, NEW to \in Places, Goto(p, from, to)
    PROVE  /\ at[p] = from /\ at'[p] = to /\ at' \in [Procs -> Places]
           /\ \A q \in Procs : q # p => at'[q] = at[q]
BY DEF StateTypeOK, Goto

\* A slice that shares its array keeps its length; one slot may have been overwritten.
LEMMA AliasedType ==
    ASSUME NEW slice \in Seq(Sources), NEW k \in Nat \ {0}, NEW x \in Sources
    PROVE  Aliased(slice, k, x) \in Seq(Sources)
<1>1. CASE k <= Len(slice) /\ Len(slice) <= 2
  BY <1>1 DEF Aliased
<1>2. CASE ~ (k <= Len(slice) /\ Len(slice) <= 2)
  BY <1>2 DEF Aliased
<1> QED
  BY <1>1, <1>2

PeerTyped  == cancelled \in BOOLEAN /\ pcClosed \in BOOLEAN
StoreTyped == /\ registered \in BOOLEAN /\ inStore \in BOOLEAN /\ submitted \in Nat
              /\ overlapped \in BOOLEAN
TrackTyped == /\ track \in Seq(Sources) /\ listed \in Seq(Sources)
              /\ seen \in [Sources -> Seq(Sources) \X Seq(Sources)]
              /\ writer \subseteq Sources /\ encoder \subseteq Tracks

\* The parts of the state have their types independently of one another.
LEMMA TypedParts ==
    StateTypeOK <=> /\ at \in [Procs -> Places] /\ TrackTyped /\ PeerTyped /\ StoreTyped
                    /\ crashed \in BOOLEAN
BY DEF StateTypeOK, PeerTyped, StoreTyped, TrackTyped

\* Parts a step leaves alone.
LEMMA PartsKept ==
    /\ TrackTyped /\ UNCHANGED trackVars => TrackTyped'
    /\ PeerTyped /\ UNCHANGED peerVars => PeerTyped'
    /\ StoreTyped /\ UNCHANGED storeVars => StoreTyped'
BY DEF TrackTyped, PeerTyped, StoreTyped, trackVars, peerVars, storeVars

\* close() keeps the types.
LEMMA CloseTyped ==
    ASSUME StateTypeOK, NEW p \in Procs, CloseStep(p)
    PROVE  StateTypeOK'
<1>0. /\ at \in [Procs -> Places] /\ TrackTyped /\ PeerTyped /\ StoreTyped
      /\ crashed \in BOOLEAN
  BY TypedParts
<1>1. at' \in [Procs -> Places]
  BY <1>0 DEF CloseStep, Gate, Cancel, CloseWriters, ClosersCollide, ClosePeer, LookUp,
     RemoveEntry, CreateJob, Goto, Places
<1>2. TrackTyped'
  <2>1. CASE CloseWriters(p)
    BY <1>0, <2>1 DEF CloseWriters, TrackTyped
  <2>2. CASE UNCHANGED trackVars
    BY <1>0, <2>2, PartsKept
  <2> QED
    BY <2>1, <2>2 DEF CloseStep, Gate, Cancel, ClosersCollide, ClosePeer, LookUp,
       RemoveEntry, CreateJob
<1>3. PeerTyped'
  <2>1. CASE Cancel(p) \/ ClosePeer(p)
    BY <1>0, <2>1 DEF Cancel, ClosePeer, PeerTyped
  <2>2. CASE UNCHANGED peerVars
    BY <1>0, <2>2, PartsKept
  <2> QED
    BY <2>1, <2>2 DEF CloseStep, Gate, CloseWriters, ClosersCollide, LookUp,
       RemoveEntry, CreateJob
<1>4. StoreTyped'
  <2>1. CASE LookUp(p)
    <3>1. overlapped' \in BOOLEAN
      <4>1. overlapped' = (overlapped \/ (inStore /\ \E q \in Procs : at[q] = "remove"))
        BY <2>1 DEF LookUp
      <4> QED
        BY <4>1, Zenon
    <3>2. registered' = registered /\ inStore' = inStore /\ submitted' = submitted
      BY <2>1 DEF LookUp
    <3>3. registered' \in BOOLEAN /\ inStore' \in BOOLEAN /\ submitted' \in Nat
      BY <1>0, <3>2 DEF StoreTyped
    <3> QED
      BY <3>1, <3>3, Zenon DEF StoreTyped
  <2>2. CASE RemoveEntry(p)
    BY <1>0, <2>2 DEF RemoveEntry, StoreTyped
  <2>3. CASE CreateJob(p)
    BY <1>0, <2>3 DEF CreateJob, StoreTyped
  <2>4. CASE UNCHANGED storeVars
    BY <1>0, <2>4, PartsKept
  <2> QED
    BY <2>1, <2>2, <2>3, <2>4 DEF CloseStep, Gate, Cancel, CloseWriters, ClosersCollide, ClosePeer
<1>5. crashed' \in BOOLEAN
  BY <1>0 DEF CloseStep, Gate, Cancel, CloseWriters, ClosersCollide, ClosePeer, LookUp,
     RemoveEntry, CreateJob, Panic
<1> QED
  BY <1>1, <1>2, <1>3, <1>4, <1>5, Zenon DEF StateTypeOK, TrackTyped, PeerTyped, StoreTyped

\* So do the goroutines of tracks and data channels, although they overwrite each
\* other's appends.
LEMMA SourceTyped ==
    ASSUME StateTypeOK, NEW x \in Sources, StartSource(x) \/ SourceStep(x)
    PROVE  StateTypeOK'
<1>0. /\ at \in [Procs -> Places] /\ TrackTyped /\ PeerTyped /\ StoreTyped
      /\ crashed \in BOOLEAN /\ Tracks \subseteq Sources
  BY TypedParts DEF Sources
<1>1. at' \in [Procs -> Places]
  BY <1>0 DEF StartSource, SourceStep, ReadSlices, StoreSlices, CountTrack, OpenEncoder,
     CheckContext, ReadRTP, Push, LeaveTrack, Goto, Places
<1>2. TrackTyped'
  <2>1. CASE StartSource(x)
    BY <1>0, <2>1 DEF StartSource, TrackTyped
  <2>2. CASE ReadSlices(x)
    <3> DEFINE v == <<IF x \in Tracks THEN track ELSE <<>>, listed>>
    <3>1. v \in Seq(Sources) \X Seq(Sources)
      <4>1. (IF x \in Tracks THEN track ELSE <<>>) \in Seq(Sources)
        BY <1>0 DEF TrackTyped
      <4> QED
        BY <1>0, <4>1 DEF TrackTyped
    <3>2. seen' = [seen EXCEPT ![x] = v]
      BY <2>2 DEF ReadSlices
    <3> HIDE DEF v
    <3>3. seen' \in [Sources -> Seq(Sources) \X Seq(Sources)]
      BY <1>0, <3>1, <3>2 DEF TrackTyped
    <3> QED
      BY <1>0, <2>2, <3>3 DEF ReadSlices, TrackTyped
  <2>3. CASE StoreSlices(x)
    <3> DEFINE k == Len(seen[x][1]) + 1
    <3>1. /\ seen[x][1] \in Seq(Sources) /\ seen[x][2] \in Seq(Sources)
          /\ track \in Seq(Sources)
      BY <1>0 DEF TrackTyped
    <3>2. k \in Nat \ {0}
      BY <3>1
    <3>6. /\ seen' = [y \in Sources |-> IF y = x THEN <<<<>>, <<>>>>
                                        ELSE <<Aliased(seen[y][1], k, x), seen[y][2]>>]
          /\ track' = IF x \in Tracks THEN Append(seen[x][1], x) ELSE Aliased(track, k, x)
          /\ listed' = Append(seen[x][2], x)
      BY <2>3 DEF StoreSlices
    <3> HIDE DEF k
    <3>3. track' \in Seq(Sources)
      <4>1. Append(seen[x][1], x) \in Seq(Sources)
        BY <3>1
      <4>2. Aliased(track, k, x) \in Seq(Sources)
        BY <3>1, <3>2, AliasedType
      <4> QED
        BY <3>6, <4>1, <4>2
    <3>4. listed' \in Seq(Sources)
      BY <3>6, <3>1
    <3>5. \A y \in Sources : <<Aliased(seen[y][1], k, x), seen[y][2]>>
                               \in Seq(Sources) \X Seq(Sources)
      <4> SUFFICES ASSUME NEW y \in Sources
                   PROVE  /\ Aliased(seen[y][1], k, x) \in Seq(Sources)
                          /\ seen[y][2] \in Seq(Sources)
        OBVIOUS
      <4>1. seen[y][1] \in Seq(Sources) /\ seen[y][2] \in Seq(Sources)
        BY <1>0 DEF TrackTyped
      <4> QED
        BY <3>2, <4>1, AliasedType
    <3>7. seen' \in [Sources -> Seq(Sources) \X Seq(Sources)]
      <4>1. <<<<>>, <<>>>> \in Seq(Sources) \X Seq(Sources)
        <5>1. <<>> \in Seq(Sources)
          OBVIOUS
        <5> HIDE DEF Sources
        <5> QED
          BY <5>1, Zenon
      <4> DEFINE v(y) == <<Aliased(seen[y][1], k, x), seen[y][2]>>
      <4>2. seen' = [y \in Sources |-> IF y = x THEN <<<<>>, <<>>>> ELSE v(y)]
        BY <3>6
      <4>3. \A y \in Sources : v(y) \in Seq(Sources) \X Seq(Sources)
        BY <3>5
      <4> HIDE DEF v
      <4> QED
        BY <4>1, <4>2, <4>3
    <3> QED
      BY <1>0, <2>3, <3>3, <3>4, <3>7 DEF StoreSlices, TrackTyped
  <2>4. CASE x \in Tracks /\ OpenEncoder(x)
    BY <1>0, <2>4 DEF OpenEncoder, TrackTyped
  <2>5. CASE UNCHANGED trackVars
    BY <1>0, <2>5, PartsKept
  <2> QED
    BY <2>1, <2>2, <2>3, <2>4, <2>5 DEF SourceStep, CountTrack, CheckContext, ReadRTP, Push,
       LeaveTrack
<1>3. PeerTyped'
  <2>1. CASE x \in Tracks /\ Push(x)
    BY <1>0, <2>1 DEF Push, PeerTyped, peerVars
  <2>2. CASE UNCHANGED peerVars
    BY <1>0, <2>2, PartsKept
  <2> QED
    BY <2>1, <2>2 DEF StartSource, SourceStep, ReadSlices, StoreSlices, CountTrack, OpenEncoder,
       CheckContext, ReadRTP, LeaveTrack
<1>4. StoreTyped'
  BY <1>0, PartsKept DEF StartSource, SourceStep, ReadSlices, StoreSlices, CountTrack,
     OpenEncoder, CheckContext, ReadRTP, Push, LeaveTrack
<1>5. crashed' \in BOOLEAN
  BY <1>0 DEF StartSource, SourceStep, ReadSlices, StoreSlices, CountTrack,
     OpenEncoder, CheckContext, ReadRTP, Push, LeaveTrack, Panic
<1> QED
  BY <1>1, <1>2, <1>3, <1>4, <1>5, Zenon DEF StateTypeOK, TrackTyped, PeerTyped, StoreTyped

\* The rest: RPCs, ICE and the cache.
LEMMA CallTyped ==
    ASSUME StateTypeOK,
           \/ NegotiationFails \/ AddSession \/ IceFails \/ Evict
           \/ \E c \in Stops : Stop(c)
           \/ \E c \in Renegotiations : Renegotiate(c)
    PROVE  StateTypeOK'
<1>0. /\ at \in [Procs -> Places] /\ TrackTyped /\ PeerTyped /\ StoreTyped
      /\ crashed \in BOOLEAN
  BY TypedParts
<1>1. at' \in [Procs -> Places]
  BY <1>0 DEF NegotiationFails, AddSession, IceFails, Evict, Stop, Renegotiate, Goto, Places
<1>2. TrackTyped' /\ PeerTyped' /\ crashed' \in BOOLEAN
  BY <1>0, PartsKept DEF NegotiationFails, AddSession, IceFails, Evict, Stop, Renegotiate
<1>3. StoreTyped'
  <2>1. CASE AddSession \/ Evict
    BY <1>0, <2>1 DEF AddSession, Evict, StoreTyped
  <2>2. CASE UNCHANGED storeVars
    BY <1>0, <2>2, PartsKept
  <2> QED
    BY <2>1, <2>2 DEF NegotiationFails, IceFails, Stop, Renegotiate
<1> QED
  BY <1>1, <1>2, <1>3, Zenon DEF StateTypeOK, TrackTyped, PeerTyped, StoreTyped

-----------------------------------------------------------------------------
(* The counter.                                                            *)

CountInv == countTrack \in Int /\ CountAccurate /\ CountBounds

\* Tracks are processes, and there are finitely many that are counted or have left.
LEMMA TracksFinite ==
    /\ IsFiniteSet(CountedTracks) /\ IsFiniteSet(LeftTracks)
    /\ Cardinality(CountedTracks) \in Nat /\ Cardinality(LeftTracks) \in Nat
    /\ Cardinality(CountedTracks) <= Cardinality(Tracks)
    /\ Cardinality(LeftTracks) <= Cardinality(Tracks)
    /\ Cardinality(Tracks) \in Nat
<1>1. CountedTracks \subseteq Tracks /\ LeftTracks \subseteq Tracks
  BY DEF CountedTracks, LeftTracks
<1> QED
  BY <1>1, SessionAssumption, FS_Subset, FS_CardinalityType

\* CountAccurate counts the same tracks.
LEMMA CountedTracksCounted == CountedTracks = {t \in Tracks : Counted(t)}
BY DEF CountedTracks, Counted, Counting

\* What a step does to the counter when no track begins or ends to be counted.
SameCount ==
    /\ countTrack' = countTrack
    /\ \A q \in Procs :
          /\ at[q] \in Counting => at'[q] \in Counting
          /\ at'[q] \in Counting => at[q] \in Counting
          /\ at'[q] \in Starting => at[q] \in Starting
          /\ at'[q] = "idle" => at[q] = "idle"

\* Such a step keeps what is known of the counter.
LEMMA SameCountKept == ASSUME CountInv, SameCount PROVE CountInv'
<1>1. \A t \in Tracks : t \in Procs
  BY DEF Procs, Sources
<1>2. CountedTracks' = CountedTracks
  BY <1>1 DEF SameCount, CountedTracks
<1>3. LeftTracks \subseteq LeftTracks'
  BY <1>1 DEF SameCount, LeftTracks
<1>4. IsFiniteSet(LeftTracks')
  <2>1. LeftTracks' \subseteq Tracks
    BY DEF LeftTracks
  <2> QED
    BY <2>1, SessionAssumption, FS_Subset
<1>5. /\ Cardinality(LeftTracks) <= Cardinality(LeftTracks')
      /\ Cardinality(LeftTracks) \in Nat /\ Cardinality(LeftTracks') \in Nat
      /\ Cardinality(CountedTracks) \in Nat
  BY <1>3, <1>4, FS_Subset, FS_CardinalityType, TracksFinite
<1>6. at'["ice"] = "idle" => at["ice"] = "idle"
  BY DEF SameCount, Procs
<1>7. countTrack' \in Int /\ CountBounds'
  <2>1. countTrack' = countTrack
    BY DEF SameCount
  <2> QED
    BY <1>2, <1>5, <2>1 DEF CountInv, CountBounds
<1>8. CountAccurate'
  <2>1. countTrack' = countTrack
    BY DEF SameCount
  <2>2. {t \in Tracks : Counted(t)}' = {t \in Tracks : Counted(t)}
    BY <1>1 DEF SameCount, Counted, Counting
  <2> QED
    BY <1>6, <2>1, <2>2 DEF CountInv, CountAccurate
<1> QED
  BY <1>7, <1>8 DEF CountInv

\* A track that counts itself.
LEMMA CountTrackCounts ==
    ASSUME StateTypeOK, CountInv, NEW t \in Tracks, CountTrack(t) PROVE CountInv'
<1>1. t \in Procs /\ Tracks \subseteq Procs
  BY DEF Procs, Sources
<1>2. /\ at[t] = "count" /\ at'[t] = "codec" /\ countTrack' = countTrack + 1
      /\ \A q \in Procs : q # t => at'[q] = at[q]
  BY <1>1 DEF CountTrack, Goto, StateTypeOK
<1>3. CountedTracks' = CountedTracks \cup {t} /\ t \notin CountedTracks
  BY <1>1, <1>2 DEF CountedTracks, Counting
<1>4. LeftTracks' = LeftTracks
  BY <1>1, <1>2 DEF LeftTracks, Counting, Starting
<1>5. Cardinality(CountedTracks') = Cardinality(CountedTracks) + 1
  BY <1>3, TracksFinite, FS_AddElement
<1>6. at'["ice"] = "idle" => at["ice"] = "idle"
  BY <1>2 DEF Procs
<1>7. countTrack' \in Int /\ CountBounds'
  BY <1>2, <1>4, <1>5, TracksFinite DEF CountInv, CountBounds
<1>8. CountAccurate'
  <2>1. CountedTracks' = {u \in Tracks : Counted(u)}'
    BY DEF CountedTracks, Counted, Counting
  <2> QED
    BY <1>2, <1>5, <1>6, <2>1, TracksFinite, CountedTracksCounted DEF CountInv, CountAccurate
<1> QED
  BY <1>7, <1>8 DEF CountInv

\* The deferred function of a track takes it off the counter.
LEMMA LeaveTrackCounts ==
    ASSUME StateTypeOK, CountInv, NEW t \in Tracks, LeaveTrack(t) PROVE CountInv'
<1>1. t \in Procs /\ Tracks \subseteq Procs
  BY DEF Procs, Sources
<1>2. /\ at[t] = "exit" /\ at'[t] = "gate" /\ countTrack' = countTrack - 1
      /\ \A q \in Procs : q # t => at'[q] = at[q]
  BY <1>1 DEF LeaveTrack, Goto, StateTypeOK
<1>3. CountedTracks' = CountedTracks \ {t} /\ t \in CountedTracks
  BY <1>1, <1>2 DEF CountedTracks, Counting
<1>4. LeftTracks' = LeftTracks \cup {t} /\ t \notin LeftTracks
  BY <1>1, <1>2 DEF LeftTracks, Counting, Starting
<1>5. Cardinality(CountedTracks') = Cardinality(CountedTracks) - 1
  BY <1>3, TracksFinite, FS_RemoveElement
<1>6. Cardinality(LeftTracks') = Cardinality(LeftTracks) + 1
  BY <1>4, TracksFinite, FS_AddElement
<1>7. at'["ice"] = "idle" => at["ice"] = "idle"
  BY <1>2 DEF Procs
<1>8. countTrack' \in Int /\ CountBounds'
  BY <1>2, <1>5, <1>6, TracksFinite DEF CountInv, CountBounds
<1>9. CountAccurate'
  <2>1. CountedTracks' = {u \in Tracks : Counted(u)}'
    BY DEF CountedTracks, Counted, Counting
  <2> QED
    BY <1>2, <1>5, <1>7, <2>1, TracksFinite, CountedTracksCounted DEF CountInv, CountAccurate
<1> QED
  BY <1>8, <1>9 DEF CountInv

\* A failure of ICE sets it to 0, whatever tracks there are.
LEMMA IceFailsCounts == ASSUME StateTypeOK, IceFails PROVE CountInv'
<1>1. countTrack' = 0 /\ at'["ice"] = "gate"
  BY DEF IceFails, Goto, StateTypeOK, Procs
<1>2. Cardinality(CountedTracks') \in Nat /\ Cardinality(LeftTracks') \in Nat
  <2>1. CountedTracks' \subseteq Tracks /\ LeftTracks' \subseteq Tracks
    BY DEF CountedTracks, LeftTracks
  <2> QED
    BY <2>1, SessionAssumption, FS_Subset, FS_CardinalityType
<1> QED
  BY <1>1, <1>2 DEF CountInv, CountBounds, CountAccurate

\* All other steps leave the counter to the tracks it counts.
LEMMA NextCounts == ASSUME StateTypeOK, CountInv, [Next]_sessionVars PROVE CountInv'
<1>1. CASE UNCHANGED sessionVars
  BY <1>1, SameCountKept DEF SameCount, sessionVars
<1>2. CASE IceFails
  BY <1>2, IceFailsCounts
<1>3. CASE NegotiationFails \/ AddSession \/ Evict
  <2>1. SameCount
    BY <1>3 DEF NegotiationFails, AddSession, Evict, Goto, SameCount, Counting, Starting,
       Procs, StateTypeOK
  <2> QED
    BY <2>1, SameCountKept
<1>4. ASSUME NEW c \in Stops \cup Renegotiations, Stop(c) \/ Renegotiate(c) PROVE CountInv'
  <2>1. SameCount
    BY <1>4 DEF Stop, Renegotiate, Goto, SameCount, Counting, Starting, Procs, StateTypeOK
  <2> QED
    BY <2>1, SameCountKept
<1>5. ASSUME NEW x \in Sources, StartSource(x) \/ SourceStep(x) PROVE CountInv'
  <2>1. CASE x \in Tracks /\ (CountTrack(x) \/ LeaveTrack(x))
    BY <2>1, CountTrackCounts, LeaveTrackCounts
  <2>2. CASE StartSource(x) \/ ReadSlices(x) \/ StoreSlices(x)
    <3>1. SameCount
      BY <2>2 DEF StartSource, ReadSlices, StoreSlices, Goto, SameCount, Counting, Starting,
         Procs, StateTypeOK
    <3> QED
      BY <3>1, SameCountKept
  <2>3. CASE OpenEncoder(x) \/ CheckContext(x) \/ ReadRTP(x) \/ Push(x)
    <3>1. SameCount
      BY <2>3 DEF OpenEncoder, CheckContext, ReadRTP, Push, Goto, SameCount, Counting,
         Starting, Procs, StateTypeOK
    <3> QED
      BY <3>1, SameCountKept
  <2> QED
    BY <1>5, <2>1, <2>2, <2>3 DEF SourceStep
<1>6. ASSUME NEW p \in Procs, CloseStep(p) PROVE CountInv'
  <2>1. SameCount
    BY <1>6 DEF CloseStep, Gate, Cancel, CloseWriters, ClosersCollide, ClosePeer, LookUp,
       RemoveEntry, CreateJob, Goto, SameCount, Counting, Starting, StateTypeOK
  <2> QED
    BY <2>1, SameCountKept
<1> QED
  BY <1>1, <1>2, <1>3, <1>4, <1>5, <1>6 DEF Next

-----------------------------------------------------------------------------
(* The order of close() and the permit to file.                            *)

PermitInv == ClosedInOrder /\ PermitKnown /\ OnePermit /\ PermitUsed

\* A step outside what close() does after it has cancelled the session.
OutsideClose ==
    \A q \in Procs : \/ at'[q] = at[q]
                     \/ at[q] \notin PastCancel /\ at'[q] \notin PastCancel \cup {"idle"}

\* It can only cancel or close more than there was.
Onwards == (cancelled => cancelled') /\ (pcClosed => pcClosed')

\* Steps outside close() that do not touch the cache keep the order and the permit.
LEMMA OutsideKeeps ==
    ASSUME PermitInv, OutsideClose, Onwards, UNCHANGED storeVars PROVE PermitInv'
<1>1. /\ \A q \in Procs : at'[q] \in PastCancel => at'[q] = at[q]
      /\ \A q \in Procs : at[q] \in PastCancel => at'[q] = at[q]
      /\ \A q \in Procs : at'[q] = "idle" => at[q] = "idle"
  BY DEF OutsideClose
<1>2. /\ registered' = registered /\ inStore' = inStore /\ submitted' = submitted
      /\ overlapped' = overlapped
  BY DEF storeVars
<1>3. /\ \A q \in Procs : at'[q] \in Filing => at'[q] = at[q]
      /\ \A q \in Procs : at[q] \in Filing => at'[q] = at[q]
  BY <1>1 DEF Filing, PastCancel
<1>4. ClosedInOrder'
  BY <1>1, <1>2 DEF PermitInv, ClosedInOrder, FiledLast, Onwards, PastCancel, PastPeer
<1>5. PermitKnown'
  <2>1. at'["api"] = "idle" => at["api"] = "idle"
    BY <1>1 DEF Procs
  <2> QED
    BY <1>2, <1>3, <2>1 DEF PermitInv, PermitKnown
<1>6. OnePermit'
  BY <1>2, <1>3 DEF PermitInv, OnePermit, Filing
<1>7. PermitUsed'
  BY <1>2, <1>3 DEF PermitInv, PermitUsed, Filing
<1> QED
  BY <1>4, <1>5, <1>6, <1>7 DEF PermitInv

\* The goroutines of tracks and data channels are outside.
LEMMA SourceOutside ==
    ASSUME StateTypeOK, NEW x \in Sources, StartSource(x) \/ SourceStep(x)
    PROVE  OutsideClose /\ Onwards /\ UNCHANGED storeVars
<1>1. x \in Procs
  BY DEF Procs
<1>2. OutsideClose
  BY <1>1 DEF StartSource, SourceStep, ReadSlices, StoreSlices, CountTrack, OpenEncoder,
     CheckContext, ReadRTP, Push, LeaveTrack, Goto, OutsideClose, PastCancel, StateTypeOK
<1>3. Onwards
  <2>1. CASE Push(x)
    <3>1. pcClosed' = pcClosed /\ (cancelled' = cancelled \/ cancelled' = TRUE)
      BY <2>1 DEF Push
    <3>2. CASE cancelled' = TRUE
      BY <3>1, <3>2 DEF Onwards
    <3>3. CASE cancelled' = cancelled
      BY <3>1, <3>3 DEF Onwards
    <3> QED
      BY <3>1, <3>2, <3>3
  <2>2. CASE UNCHANGED peerVars
    BY <2>2 DEF peerVars, Onwards
  <2> QED
    BY <2>1, <2>2 DEF StartSource, SourceStep, ReadSlices, StoreSlices, CountTrack,
       OpenEncoder, CheckContext, ReadRTP, LeaveTrack
<1>4. UNCHANGED storeVars
  BY DEF StartSource, SourceStep, ReadSlices, StoreSlices, CountTrack, OpenEncoder,
     CheckContext, ReadRTP, Push, LeaveTrack
<1> QED
  BY <1>2, <1>3, <1>4

\* So are the RPCs and ICE until they call close(), and its test of the counter.
LEMMA CallOutside ==
    ASSUME StateTypeOK, NEW p \in Procs,
           NegotiationFails \/ IceFails \/ Stop(p) \/ Renegotiate(p) \/ Gate(p)
    PROVE  OutsideClose /\ Onwards /\ UNCHANGED storeVars
<1>1. "api" \in Procs /\ "ice" \in Procs
  BY DEF Procs
<1>2. OutsideClose
  BY <1>1 DEF NegotiationFails, IceFails, Stop, Renegotiate, Gate, Goto, OutsideClose,
     PastCancel, StateTypeOK
<1>3. Onwards
  <2>1. UNCHANGED peerVars
    BY DEF NegotiationFails, IceFails, Stop, Renegotiate, Gate
  <2> QED
    BY <2>1 DEF peerVars, Onwards
<1>4. UNCHANGED storeVars
  BY DEF NegotiationFails, IceFails, Stop, Renegotiate, Gate
<1> QED
  BY <1>2, <1>3, <1>4

\* The first permit: nobody had one before.
LEMMA AddSessionPermit == ASSUME StateTypeOK, PermitInv, AddSession PROVE PermitInv'
<1>1. /\ at["api"] = "idle" /\ at'["api"] = "done" /\ "api" \in Procs
      /\ \A q \in Procs : q # "api" => at'[q] = at[q]
  BY DEF AddSession, Goto, StateTypeOK, Procs
<1>2. /\ registered' = TRUE /\ inStore' = TRUE /\ submitted' = submitted
      /\ overlapped' = overlapped /\ cancelled' = cancelled /\ pcClosed' = pcClosed
  BY DEF AddSession, peerVars
<1>3. /\ ~ registered
      /\ \A p \in Procs : at[p] \notin Filing
      /\ ~ (submitted > 0)
  BY <1>1 DEF PermitInv, PermitKnown
<1>4. \A p \in Procs : at'[p] \notin Filing
  BY <1>1, <1>3 DEF Filing
<1>5. submitted = 0
  BY <1>3 DEF StateTypeOK
<1>6. ClosedInOrder'
  BY <1>1, <1>2 DEF PermitInv, ClosedInOrder, FiledLast, PastCancel, PastPeer
<1>7. PermitKnown'
  BY <1>1, <1>2, <1>4 DEF PermitKnown
<1>8. OnePermit'
  BY <1>2, <1>4, <1>5 DEF OnePermit, Filing
<1>9. PermitUsed'
  BY <1>2 DEF PermitUsed
<1> QED
  BY <1>6, <1>7, <1>8, <1>9 DEF PermitInv

\* The permit may be lost to younger sessions.
LEMMA EvictPermit == ASSUME StateTypeOK, PermitInv, Evict PROVE PermitInv'
<1>1. /\ at' = at /\ registered' = registered /\ inStore' = FALSE /\ submitted' = submitted
      /\ overlapped' = overlapped /\ cancelled' = cancelled /\ pcClosed' = pcClosed
      /\ CacheCanEvict
  BY DEF Evict, peerVars
<1>2. ClosedInOrder'
  BY <1>1 DEF PermitInv, ClosedInOrder, FiledLast
<1>3. PermitKnown'
  BY <1>1 DEF PermitInv, PermitKnown
<1>4. OnePermit'
  BY <1>1 DEF PermitInv, OnePermit
<1>5. PermitUsed'
  BY <1>1 DEF PermitUsed
<1> QED
  BY <1>2, <1>3, <1>4, <1>5 DEF PermitInv

\* close() before it comes to the cache.
LEMMA CloseBeforeCache ==
    ASSUME StateTypeOK, PermitInv, NEW p \in Procs,
           \/ Cancel(p) \/ CloseWriters(p) \/ ClosePeer(p)
           \/ \E q \in Procs : ClosersCollide(p, q)
    PROVE  PermitInv'
<1>1. /\ at[p] \in {"cancel", "writers", "peer"} /\ at'[p] \in {"writers", "peer", "lookup", "done"}
      /\ \A q \in Procs : q # p => at'[q] = at[q]
  BY DEF Cancel, CloseWriters, ClosePeer, ClosersCollide, Goto, StateTypeOK
<1>2. /\ registered' = registered /\ inStore' = inStore /\ submitted' = submitted
      /\ overlapped' = overlapped
  BY DEF Cancel, CloseWriters, ClosePeer, ClosersCollide, storeVars
<1>3. Onwards
  <2>1. CASE Cancel(p)
    BY <2>1, Zenon DEF Cancel, Onwards
  <2>2. CASE ClosePeer(p)
    BY <2>2, Zenon DEF ClosePeer, Onwards
  <2>3. CASE UNCHANGED peerVars
    BY <2>3 DEF peerVars, Onwards
  <2> QED
    BY <2>1, <2>2, <2>3 DEF CloseWriters, ClosersCollide
<1>4. ClosedInOrder'
  <2>1. at'[p] \in PastCancel => cancelled'
    <3>1. CASE Cancel(p)
      BY <3>1 DEF Cancel
    <3>2. CASE ~ Cancel(p)
      <4>1. at[p] \in PastCancel
        BY <3>2 DEF CloseWriters, ClosePeer, ClosersCollide, Goto, PastCancel
      <4> QED
        BY <1>3, <4>1 DEF PermitInv, ClosedInOrder, Onwards
    <3> QED
      BY <3>1, <3>2
  <2>2. at'[p] \in PastPeer => pcClosed'
    <3>1. CASE ClosePeer(p)
      BY <3>1 DEF ClosePeer
    <3>2. CASE ~ ClosePeer(p)
      BY <1>1, <3>2 DEF Cancel, CloseWriters, ClosersCollide, Goto, PastPeer, StateTypeOK
    <3> QED
      BY <3>1, <3>2
  <2> QED
    BY <1>1, <1>2, <1>3, <2>1, <2>2 DEF PermitInv, ClosedInOrder, FiledLast, Onwards
<1>5. /\ \A q \in Procs : at'[q] \in Filing => at'[q] = at[q]
      /\ \A q \in Procs : at[q] \in Filing => at'[q] = at[q]
      /\ at'["api"] = "idle" => at["api"] = "idle"
  BY <1>1 DEF Filing, Procs
<1>6. PermitKnown'
  BY <1>2, <1>5 DEF PermitInv, PermitKnown
<1>7. OnePermit'
  BY <1>2, <1>5 DEF PermitInv, OnePermit, Filing
<1>8. PermitUsed'
  BY <1>2, <1>5 DEF PermitInv, PermitUsed, Filing
<1> QED
  BY <1>4, <1>6, <1>7, <1>8 DEF PermitInv

\* sessions.Remove finds the entry: the permit passes to this closer, alone unless
\* another one is between its look-up and its deletion.
LEMMA LookUpPermit ==
    ASSUME StateTypeOK, PermitInv, NEW p \in Procs, LookUp(p) PROVE PermitInv'
<1>1. /\ at[p] = "lookup" /\ at'[p] \in {"remove", "done"}
      /\ at'[p] = "remove" => inStore
      /\ \A q \in Procs : q # p => at'[q] = at[q]
  BY DEF LookUp, Goto, StateTypeOK
<1>2. /\ registered' = registered /\ inStore' = inStore /\ submitted' = submitted
      /\ cancelled' = cancelled /\ pcClosed' = pcClosed
  BY DEF LookUp, peerVars
<1>3. overlapped' = FALSE =>
          overlapped = FALSE /\ (inStore => \A q \in Procs : at[q] # "remove")
  <2>1. overlapped' = (overlapped \/ (inStore /\ \E q \in Procs : at[q] = "remove"))
    BY DEF LookUp
  <2>2. overlapped \in BOOLEAN
    BY DEF StateTypeOK
  <2> QED
    BY <2>1, <2>2, Zenon
<1>4. ClosedInOrder'
  BY <1>1, <1>2 DEF PermitInv, ClosedInOrder, FiledLast, PastCancel, PastPeer
<1>5. PermitKnown'
  <2>1. at'["api"] = "idle" => at["api"] = "idle"
    BY <1>1 DEF Procs
  <2> QED
    BY <1>1, <1>2, <2>1 DEF PermitInv, PermitKnown, Filing
<1>6. OnePermit'
  <2>1. SUFFICES ASSUME overlapped' = FALSE
                 PROVE  /\ \A r, q \in Procs :
                              at'[r] \in Filing /\ at'[q] \in Filing => r = q
                        /\ \A q \in Procs : at'[q] \in Filing => submitted' = 0
                        /\ inStore' => submitted' = 0 /\ \A q \in Procs : at'[q] # "create"
                        /\ submitted' <= 1
    BY DEF OnePermit
  <2>2. /\ \A r, q \in Procs : at[r] \in Filing /\ at[q] \in Filing => r = q
        /\ \A q \in Procs : at[q] \in Filing => submitted = 0
        /\ inStore => submitted = 0 /\ \A q \in Procs : at[q] # "create"
        /\ submitted <= 1
        /\ inStore => \A q \in Procs : at[q] # "remove"
    BY <1>3, <2>1 DEF PermitInv, OnePermit
  <2>3. inStore => \A q \in Procs : at[q] \notin Filing
    BY <2>2 DEF Filing
  <2> QED
    BY <1>1, <1>2, <2>2, <2>3 DEF Filing
<1>7. PermitUsed'
  <2>1. \A q \in Procs : at[q] = "create" => at'[q] = "create"
    BY <1>1
  <2> QED
    BY <1>2, <2>1 DEF PermitInv, PermitUsed
<1> QED
  BY <1>4, <1>5, <1>6, <1>7 DEF PermitInv

\* It deletes the entry, and the permit is this closer's.
LEMMA RemoveEntryPermit ==
    ASSUME StateTypeOK, PermitInv, NEW p \in Procs, RemoveEntry(p) PROVE PermitInv'
<1>1. /\ at[p] = "remove" /\ at'[p] = "create"
      /\ \A q \in Procs : q # p => at'[q] = at[q]
  BY DEF RemoveEntry, Goto, StateTypeOK
<1>2. /\ registered' = registered /\ inStore' = FALSE /\ submitted' = submitted
      /\ overlapped' = overlapped /\ cancelled' = cancelled /\ pcClosed' = pcClosed
  BY DEF RemoveEntry, peerVars
<1>3. ClosedInOrder'
  BY <1>1, <1>2 DEF PermitInv, ClosedInOrder, FiledLast, PastCancel, PastPeer
<1>4. \A q \in Procs : at'[q] \in Filing => at[q] \in Filing
  BY <1>1 DEF Filing
<1>5. PermitKnown'
  <2>1. at'["api"] = "idle" => at["api"] = "idle"
    BY <1>1 DEF Procs
  <2> QED
    BY <1>2, <1>4, <2>1 DEF PermitInv, PermitKnown
<1>6. OnePermit'
  BY <1>2, <1>4 DEF PermitInv, OnePermit
<1>7. PermitUsed'
  BY <1>1 DEF PermitUsed
<1> QED
  BY <1>3, <1>5, <1>6, <1>7 DEF PermitInv

\* It files the recording, with the permit.
LEMMA CreateJobPermit ==
    ASSUME StateTypeOK, PermitInv, NEW p \in Procs, CreateJob(p) PROVE PermitInv'
<1>1. /\ at[p] = "create" /\ at'[p] = "done"
      /\ \A q \in Procs : q # p => at'[q] = at[q]
  BY DEF CreateJob, Goto, StateTypeOK
<1>2. /\ registered' = registered /\ inStore' = inStore /\ submitted' = submitted + 1
      /\ overlapped' = overlapped /\ cancelled' = cancelled /\ pcClosed' = pcClosed
  BY DEF CreateJob, peerVars
<1>3. submitted \in Nat
  BY DEF StateTypeOK
<1>4. \A q \in Procs : at'[q] \in Filing => q # p /\ at[q] \in Filing
  BY <1>1 DEF Filing
<1>5. ClosedInOrder'
  <2>1. cancelled /\ pcClosed
    BY <1>1 DEF PermitInv, ClosedInOrder, PastCancel, PastPeer
  <2> QED
    BY <1>1, <1>2, <2>1 DEF PermitInv, ClosedInOrder, FiledLast, PastCancel, PastPeer
<1>6. PermitKnown'
  <2>1. at'["api"] = "idle" => at["api"] = "idle"
    BY <1>1 DEF Procs
  <2>2. registered
    BY <1>1 DEF PermitInv, PermitKnown, Filing
  <2> QED
    BY <1>2, <2>1, <2>2 DEF PermitInv, PermitKnown
<1>7. OnePermit'
  <2>1. SUFFICES ASSUME overlapped' = FALSE
                 PROVE  /\ \A r, q \in Procs :
                              at'[r] \in Filing /\ at'[q] \in Filing => r = q
                        /\ \A q \in Procs : at'[q] \in Filing => submitted' = 0
                        /\ inStore' => submitted' = 0 /\ \A q \in Procs : at'[q] # "create"
                        /\ submitted' <= 1
    BY DEF OnePermit
  <2>2. at[p] \in Filing /\ overlapped = FALSE
    BY <1>1, <1>2, <2>1 DEF Filing
  <2>3. submitted = 0 /\ ~ inStore
    BY <1>1, <2>2 DEF PermitInv, OnePermit
  <2>4. \A q \in Procs : at'[q] \notin Filing
    BY <1>4, <2>2 DEF PermitInv, OnePermit
  <2> QED
    BY <1>2, <2>3, <2>4
<1>8. PermitUsed'
  BY <1>2, <1>3 DEF PermitUsed
<1> QED
  BY <1>5, <1>6, <1>7, <1>8 DEF PermitInv

\* Every step keeps the order and the permit.
LEMMA NextPermit == ASSUME StateTypeOK, PermitInv, [Next]_sessionVars PROVE PermitInv'
<1>1. CASE UNCHANGED sessionVars
  <2>1. OutsideClose /\ UNCHANGED storeVars
    BY <1>1 DEF sessionVars, OutsideClose, storeVars
  <2>2. Onwards
    BY <1>1 DEF sessionVars, peerVars, Onwards
  <2> QED
    BY <2>1, <2>2, OutsideKeeps
<1>2. ASSUME NEW c \in Stops \cup Renegotiations \cup {"api", "ice"},
             NegotiationFails \/ IceFails \/ Stop(c) \/ Renegotiate(c)
      PROVE  PermitInv'
  <2>1. c \in Procs
    BY DEF Procs
  <2> QED
    BY <1>2, <2>1, CallOutside, OutsideKeeps
<1>3. ASSUME NEW x \in Sources, StartSource(x) \/ SourceStep(x) PROVE PermitInv'
  BY <1>3, SourceOutside, OutsideKeeps
<1>4. ASSUME NEW p \in Procs, CloseStep(p) PROVE PermitInv'
  <2>1. CASE Gate(p)
    BY <2>1, CallOutside, OutsideKeeps
  <2>2. CASE \/ Cancel(p) \/ CloseWriters(p) \/ ClosePeer(p)
             \/ \E q \in Procs : ClosersCollide(p, q)
    BY <2>2, CloseBeforeCache
  <2>3. CASE LookUp(p)
    BY <2>3, LookUpPermit
  <2>4. CASE RemoveEntry(p)
    BY <2>4, RemoveEntryPermit
  <2>5. CASE CreateJob(p)
    BY <2>5, CreateJobPermit
  <2> QED
    BY <1>4, <2>1, <2>2, <2>3, <2>4, <2>5 DEF CloseStep
<1> QED
  BY <1>1, <1>2, <1>3, <1>4, AddSessionPermit, EvictPermit DEF Next

-----------------------------------------------------------------------------
(* The last track.                                                         *)

\* A track is a goroutine of its own, neither an RPC nor the ICE callback.
LEMMA TracksApart ==
    /\ Tracks \subseteq Procs
    /\ \A t \in Tracks : t \notin Stops \cup Renegotiations \cup {"api", "ice"}
BY SessionAssumption DEF Procs, Sources

\* onTrack begins after the answer, and an answered session stays one.
LEMMA NextStarted ==
    ASSUME StateTypeOK, StartedAnswered, [Next]_sessionVars
    PROVE  StartedAnswered'
<1>t. at \in [Procs -> Places] /\ Tracks \subseteq Procs
  BY TracksApart DEF StateTypeOK
<1>1. registered => registered'
  BY DEF Next, NegotiationFails, AddSession, IceFails, Evict, Stop, Renegotiate, StartSource,
     SourceStep, ReadSlices, StoreSlices, CountTrack, OpenEncoder, CheckContext, ReadRTP, Push,
     LeaveTrack, CloseStep, Gate, Cancel, CloseWriters, ClosersCollide, ClosePeer, LookUp,
     RemoveEntry, CreateJob, storeVars, sessionVars
<1>k. ASSUME NEW q \in Procs, \A r \in Procs : r # q => at'[r] = at[r],
             q \in Tracks => at[q] # "idle" \/ registered
      PROVE  StartedAnswered'
  BY <1>t, <1>1, <1>k DEF StartedAnswered
<1>2. CASE NegotiationFails \/ AddSession \/ IceFails
  <2>1. PICK q \in {"api", "ice"} : \A r \in Procs : r # q => at'[r] = at[r]
    BY <1>t, <1>2 DEF NegotiationFails, AddSession, IceFails, Goto
  <2>2. q \in Procs /\ q \notin Tracks
    BY TracksApart DEF Procs
  <2> QED
    BY <1>k, <2>1, <2>2
<1>3. CASE Evict
  BY <1>1, <1>3 DEF Evict, StartedAnswered
<1>4. ASSUME NEW c \in Stops \cup Renegotiations, Stop(c) \/ Renegotiate(c)
      PROVE  StartedAnswered'
  <2>1. c \in Procs /\ c \notin Tracks
    BY TracksApart DEF Procs
  <2>2. \A r \in Procs : r # c => at'[r] = at[r]
    BY <1>t, <1>4 DEF Stop, Renegotiate, Goto
  <2> QED
    BY <1>k, <2>1, <2>2
<1>5. ASSUME NEW x \in Sources, StartSource(x) \/ SourceStep(x)
      PROVE  StartedAnswered'
  <2>1. x \in Procs
    BY DEF Procs
  <2>2. \A r \in Procs : r # x => at'[r] = at[r]
    BY <1>t, <1>5 DEF StartSource, SourceStep, ReadSlices, StoreSlices, CountTrack, OpenEncoder,
       CheckContext, ReadRTP, Push, LeaveTrack, Goto
  <2>3. at[x] # "idle" \/ registered
    BY <1>5 DEF StartSource, SourceStep, ReadSlices, StoreSlices, CountTrack, OpenEncoder,
       CheckContext, ReadRTP, Push, LeaveTrack, Goto
  <2> QED
    BY <1>k, <2>1, <2>2, <2>3
<1>6. ASSUME NEW p \in Procs, CloseStep(p)
      PROVE  StartedAnswered'
  <2>1. at[p] # "idle"
    BY <1>6 DEF CloseStep, Gate, Cancel, CloseWriters, ClosersCollide, ClosePeer, LookUp,
       RemoveEntry, CreateJob, Goto
  <2>2. \A r \in Procs : r # p => at'[r] = at[r]
    BY <1>t, <1>6 DEF CloseStep, Gate, Cancel, CloseWriters, ClosersCollide, ClosePeer, LookUp,
       RemoveEntry, CreateJob, Goto
  <2> QED
    BY <1>k, <2>1, <2>2
<1>7. CASE UNCHANGED sessionVars
  BY <1>7 DEF sessionVars, storeVars, StartedAnswered
<1> QED
  BY <1>2, <1>3, <1>4, <1>5, <1>6, <1>7 DEF Next

\* A goroutine that was no closer and no track to come may go on, unless it is a track
\* that is done with it.
LEMMA BystanderMoves ==
    ASSUME CloserKept, NEW q \in Procs, \A r \in Procs : r # q => at'[r] = at[r],
           at[q] \notin PastGate, q \in Tracks => at[q] \notin Counting \cup {"gate"},
           q \in Tracks => at'[q] # "done",
           at'["ice"] = "idle" => at["ice"] = "idle", ~ crashed' => ~ crashed,
           submitted' = submitted
    PROVE  CloserKept'
<1>1. \A t \in Tracks : t \in Procs
  BY TracksApart
<1>2. (\E t \in Tracks : at'[t] = "done") => \E t \in Tracks : at[t] = "done"
  BY <1>1
<1>3. CloserLeft => CloserLeft'
  BY <1>1 DEF CloserLeft
<1> QED
  BY <1>2, <1>3 DEF CloserKept

\* A closer that the counter sends away leaves a counted track behind.
LEMMA GateLeaves ==
    ASSUME IInv, NEW p \in Procs, Gate(p), at["ice"] = "idle"
    PROVE  CloserLeft'
<1>t. /\ at \in [Procs -> Places] /\ at[p] = "gate"
      /\ \A r \in Procs : r # p => at'[r] = at[r]
  BY DEF IInv, StateTypeOK, Gate, Goto
<1>1. CASE countTrack = 0
  <2>1. at'[p] = "cancel"
    BY <1>t, <1>1 DEF Gate, Goto
  <2> QED
    BY <2>1 DEF CloserLeft, PastGate
<1>2. CASE countTrack # 0
  <2>1. countTrack = Cardinality(CountedTracks)
    BY CountedTracksCounted DEF IInv, CountAccurate
  <2>2. CountedTracks # {}
    BY <1>2, <2>1, FS_EmptySet
  <2>3. PICK t \in Tracks : at[t] \in Counting
    BY <2>2 DEF CountedTracks
  <2>4. t # p /\ t \in Procs
    BY <1>t, <2>3, TracksApart DEF Counting
  <2>5. at'[t] \in Counting
    BY <1>t, <2>3, <2>4
  <2> QED
    BY <2>5 DEF CloserLeft
<1> QED
  BY <1>1, <1>2

\* One that finds the entry taken leaves the job, or the closer that will file it.
LEMMA LookUpLeaves ==
    ASSUME IInv, NEW p \in Procs, LookUp(p), registered, ~ CacheCanEvict
    PROVE  CloserLeft'
<1>t. /\ at \in [Procs -> Places] /\ at[p] = "lookup"
      /\ \A r \in Procs : r # p => at'[r] = at[r]
      /\ submitted' = submitted
  BY DEF IInv, StateTypeOK, LookUp, Goto
<1>1. CASE inStore
  <2>1. at'[p] = "remove"
    BY <1>t, <1>1 DEF LookUp, Goto
  <2> QED
    BY <2>1 DEF CloserLeft, PastGate
<1>2. CASE ~ inStore
  <2>1. CASE submitted > 0
    BY <1>t, <2>1 DEF CloserLeft
  <2>2. ASSUME NEW q \in Procs, at[q] = "create" PROVE CloserLeft'
    <3>1. at'[q] = "create"
      BY <1>t, <2>2
    <3> QED
      BY <3>1 DEF CloserLeft, PastGate
  <2> QED
    BY <1>2, <2>1, <2>2 DEF IInv, PermitUsed
<1> QED
  BY <1>1, <1>2

\* Every step of close() leaves somebody to go on with it.
LEMMA CloseLeaves ==
    ASSUME IInv, StartedAnswered, CloserKept, NEW p \in Procs, CloseStep(p)
    PROVE  CloserKept'
<1>t. at \in [Procs -> Places] /\ Tracks \subseteq Procs
  BY TracksApart DEF IInv, StateTypeOK
<1>1. CASE Gate(p)
  <2>1. at["ice"] = "idle" \/ at'["ice"] # "idle"
    BY <1>t, <1>1 DEF Gate, Goto, Procs
  <2> QED
    BY <1>1, <2>1, GateLeaves DEF CloserKept
<1>2. CASE Cancel(p) \/ CloseWriters(p) \/ ClosePeer(p) \/ RemoveEntry(p)
  <2>1. at'[p] \in PastGate
    BY <1>t, <1>2 DEF Cancel, CloseWriters, ClosePeer, RemoveEntry, Goto, PastGate
  <2> QED
    BY <2>1 DEF CloserKept, CloserLeft
<1>3. CASE LookUp(p)
  <2>1. ASSUME NEW t \in Tracks, at'[t] = "done" PROVE registered
    <3>1. at[t] # "idle"
      BY <1>t, <1>3, <2>1 DEF LookUp, Goto
    <3> QED
      BY <3>1 DEF StartedAnswered
  <2> QED
    BY <1>3, <2>1, LookUpLeaves DEF CloserKept
<1>4. CASE CreateJob(p)
  <2>1. submitted' > 0
    BY <1>4 DEF CreateJob, IInv, StateTypeOK
  <2> QED
    BY <2>1 DEF CloserKept, CloserLeft
<1>5. CASE \E q \in Procs : ClosersCollide(p, q)
  BY <1>5 DEF ClosersCollide, Panic, CloserKept
<1> QED
  BY <1>1, <1>2, <1>3, <1>4, <1>5 DEF CloseStep

\* A track or a data channel is a bystander until its deferred function.
LEMMA SourceLeaves ==
    ASSUME StateTypeOK, CloserKept, NEW x \in Sources, StartSource(x) \/ SourceStep(x)
    PROVE  CloserKept'
<1>t. at \in [Procs -> Places] /\ x \in Procs
  BY DEF StateTypeOK, Procs
<1>1. CASE StartSource(x) \/ ReadSlices(x) \/ StoreSlices(x)
  <2>1. /\ at[x] \in {"idle", "append", "store"}
        /\ at'[x] # "idle"
        /\ x \in Tracks => at'[x] # "done"
        /\ \A r \in Procs : r # x => at'[r] = at[r]
    BY <1>t, <1>1 DEF StartSource, ReadSlices, StoreSlices, Goto
  <2>2. ~ crashed /\ submitted' = submitted
    BY <1>1 DEF StartSource, ReadSlices, StoreSlices, Goto, storeVars
  <2>3. at'["ice"] = "idle" => at["ice"] = "idle"
    BY <2>1 DEF Procs
  <2>4. at[x] \notin PastGate /\ at[x] \notin Counting \cup {"gate"}
    BY <2>1 DEF PastGate, Counting
  <2> QED
    BY <1>t, <2>1, <2>2, <2>3, <2>4, BystanderMoves
<1>2. CASE x \in Tracks /\ (\/ CountTrack(x) \/ OpenEncoder(x) \/ CheckContext(x)
                            \/ ReadRTP(x) \/ Push(x) \/ LeaveTrack(x))
  <2>1. at'[x] \in Counting \cup {"gate"}
    BY <1>t, <1>2 DEF CountTrack, OpenEncoder, CheckContext, ReadRTP, Push, LeaveTrack, Goto,
       Counting
  <2> QED
    BY <1>2, <2>1 DEF CloserKept, CloserLeft
<1> QED
  BY <1>1, <1>2 DEF SourceStep

\* Every step keeps a closer for the tracks that are done.
LEMMA NextCloser ==
    ASSUME IInv, StartedAnswered, CloserKept, [Next]_sessionVars
    PROVE  CloserKept'
<1>t. at \in [Procs -> Places] /\ StateTypeOK
  BY DEF IInv, StateTypeOK
<1>1. CASE IceFails
  <2>1. at'["ice"] = "gate"
    BY <1>t, <1>1 DEF IceFails, Goto, Procs
  <2> QED
    BY <2>1 DEF CloserKept
<1>2. CASE Evict
  BY <1>2 DEF Evict, CloserKept
<1>3. ASSUME NEW c \in Stops \cup Renegotiations \cup {"api"},
             \/ c = "api" /\ (NegotiationFails \/ AddSession)
             \/ Stop(c) \/ Renegotiate(c)
      PROVE  CloserKept'
  <2>1. c \in Procs /\ c \notin Tracks
    BY TracksApart DEF Procs
  <2>2. /\ at[c] = "idle" /\ at'[c] # "idle"
        /\ \A r \in Procs : r # c => at'[r] = at[r]
    <3>1. \/ Goto(c, "idle", "gate") \/ Goto(c, "idle", "done") \/ Goto(c, "idle", "not found")
      BY <1>3 DEF NegotiationFails, AddSession, Stop, Renegotiate
    <3> QED
      BY <1>t, <2>1, <3>1 DEF Goto
  <2>3. ~ crashed /\ submitted' = submitted
    BY <1>3 DEF NegotiationFails, AddSession, Stop, Renegotiate, Goto, storeVars
  <2>4. at'["ice"] = "idle" => at["ice"] = "idle"
    BY <2>2 DEF Procs
  <2>5. at[c] \notin PastGate
    BY <2>2 DEF PastGate
  <2> QED
    BY <2>1, <2>2, <2>3, <2>4, <2>5, BystanderMoves
<1>4. ASSUME NEW x \in Sources, StartSource(x) \/ SourceStep(x)
      PROVE  CloserKept'
  BY <1>t, <1>4, SourceLeaves
<1>5. ASSUME NEW p \in Procs, CloseStep(p)
      PROVE  CloserKept'
  BY <1>5, CloseLeaves
<1>6. CASE UNCHANGED sessionVars
  BY <1>6 DEF sessionVars, storeVars, CloserKept, CloserLeft
<1> QED
  BY <1>1, <1>2, <1>3, <1>4, <1>5, <1>6 DEF Next

-----------------------------------------------------------------------------
(* The theorems.                                                           *)

\* A session starts with nothing counted, closed or filed.
LEMMA InitOK == Init => IInv
<1> SUFFICES ASSUME Init PROVE IInv
  OBVIOUS
<1>1. StateTypeOK
  <2>1. at \in [Procs -> Places]
    BY DEF Init, Places
  <2>2. <<>> \in Seq(Sources)
    OBVIOUS
  <2>3. seen \in [Sources -> Seq(Sources) \X Seq(Sources)]
    <3>1. <<<<>>, <<>>>> \in Seq(Sources) \X Seq(Sources)
      BY <2>2, Zenon
    <3> DEFINE v == <<<<>>, <<>>>>
    <3>2. seen = [x \in Sources |-> v] /\ v \in Seq(Sources) \X Seq(Sources)
      BY <3>1 DEF Init
    <3> HIDE DEF v
    <3> QED
      BY <3>2
  <2>4. /\ track \in Seq(Sources) /\ listed \in Seq(Sources)
        /\ writer \subseteq Sources /\ encoder \subseteq Tracks /\ submitted \in Nat
    BY <2>2 DEF Init
  <2>5. /\ cancelled \in BOOLEAN /\ pcClosed \in BOOLEAN /\ registered \in BOOLEAN
        /\ inStore \in BOOLEAN /\ overlapped \in BOOLEAN /\ crashed \in BOOLEAN
    BY DEF Init
  <2> QED
    BY <2>1, <2>3, <2>4, <2>5 DEF StateTypeOK
<1>2. \A p \in Procs : at[p] = "idle"
  BY DEF Init
<1>3. countTrack \in Int /\ CountAccurate /\ CountBounds
  <2>1. CountedTracks = {} /\ LeftTracks = {}
    BY <1>2 DEF CountedTracks, LeftTracks, Counting, Starting, Procs, Sources
  <2>2. countTrack = 0
    BY DEF Init
  <2> QED
    BY <2>1, <2>2, FS_EmptySet, CountedTracksCounted DEF CountAccurate, CountBounds
<1>4. ClosedInOrder
  BY <1>2 DEF Init, ClosedInOrder, FiledLast, PastCancel, PastPeer
<1>5. PermitKnown
  BY <1>2 DEF Init, PermitKnown, Filing
<1>6. OnePermit
  BY <1>2 DEF Init, OnePermit, Filing
<1>7. PermitUsed
  BY DEF Init, PermitUsed
<1> QED
  BY <1>1, <1>3, <1>4, <1>5, <1>6, <1>7 DEF IInv

\* Every step keeps the types.
LEMMA NextTyped == ASSUME StateTypeOK, [Next]_sessionVars PROVE StateTypeOK'
<1>1. CASE UNCHANGED sessionVars
  BY <1>1 DEF sessionVars, trackVars, peerVars, storeVars, StateTypeOK
<1> QED
  BY <1>1, CallTyped, SourceTyped, CloseTyped DEF Next

\* What the proofs below rest on holds in every interleaving of onTrack, onDataChannel,
\* the RPCs, ICE and close().
THEOREM SessionInvariant == Spec => []IInv
<1>1. ASSUME IInv, [Next]_sessionVars PROVE IInv'
  BY <1>1, NextTyped, NextCounts, NextPermit DEF IInv, CountInv, PermitInv
<1> QED
  BY InitOK, <1>1, PTL DEF Spec

\* countTrack stays within plus and minus the number of tracks, also when ICE set it to
\* 0 under tracks whose deferred functions still decrement it; all else has its type.
THEOREM SessionTyped == Spec => []TypeOK
<1>1. IInv => TypeOK
  BY TracksFinite DEF IInv, CountBounds, TypeOK
<1> QED
  BY <1>1, SessionInvariant, PTL

\* close() decides on the number of tracks that are recorded, until ICE fails.
THEOREM CounterTells == Spec => []CountAccurate
<1>1. IInv => CountAccurate
  BY DEF IInv
<1> QED
  BY <1>1, SessionInvariant, PTL

\* However many goroutines run close() there is one job, as long as no two of them are
\* inside the cache at once: whoever finds the entry in Remove is alone with the permit.
THEOREM OneJob == Spec => []FiledOnce
<1>1. IInv => FiledOnce
  <2> SUFFICES ASSUME IInv PROVE FiledOnce
    OBVIOUS
  <2>1. submitted \in Nat /\ overlapped \in BOOLEAN
    BY DEF IInv, StateTypeOK
  <2>2. submitted > 1 => ~ (overlapped = FALSE)
    BY <2>1 DEF IInv, OnePermit
  <2>3. submitted > 1 => overlapped
    BY <2>1, <2>2
  <2> QED
    BY <2>3 DEF IInv, PermitKnown, FiledOnce
<1> QED
  BY <1>1, SessionInvariant, PTL

\* The entry that a closer took from the cache in close() always becomes a job: nothing
\* between Remove and CreateJob turns back.
THEOREM EntryBecomesJob == Spec => []PermitUsed
<1>1. IInv => PermitUsed
  BY DEF IInv
<1> QED
  BY <1>1, SessionInvariant, PTL

\* The job comes after the cancellation of the context and the end of the peer connection,
\* however the steps of several close() calls interleave.
THEOREM JobComesLast == Spec => []FiledLast
<1>1. IInv => FiledLast
  BY DEF IInv, ClosedInOrder
<1> QED
  BY <1>1, SessionInvariant, PTL

\* Whatever order tracks start and end in, and whoever else calls close(), the session
\* is never left with all its tracks ended, no job and nobody inside close(): a track that
\* the counter sends away saw another one counted, and one that finds the cache entry gone
\* saw it taken by a closer that files the recording.
THEOREM SomebodyCloses == Spec => []EndedHasCloser
<1> DEFINE Inv == IInv /\ StartedAnswered /\ CloserKept
<1>1. Init => Inv
  <2> SUFFICES ASSUME Init PROVE Inv
    OBVIOUS
  <2>1. \A t \in Tracks : at[t] = "idle"
    BY TracksApart DEF Init
  <2> QED
    BY <2>1, InitOK DEF StartedAnswered, CloserKept
<1>2. ASSUME Inv, [Next]_sessionVars PROVE Inv'
  <2>1. IInv'
    BY <1>2, NextTyped, NextCounts, NextPermit DEF IInv, CountInv, PermitInv
  <2>2. StartedAnswered'
    BY <1>2, NextStarted DEF IInv
  <2>3. CloserKept'
    BY <1>2, NextCloser
  <2> QED
    BY <2>1, <2>2, <2>3
<1>3. Inv => EndedHasCloser
  <2> SUFFICES ASSUME CloserKept, Ended, at["ice"] = "idle", ~ CacheCanEvict, ~ crashed
               PROVE  submitted > 0 \/ \E p \in Procs : at[p] \in Closing
    BY DEF EndedHasCloser
  <2>1. CloserLeft
    BY DEF CloserKept, Ended
  <2>2. \A t \in Tracks : at[t] \notin Counting \cup {"gate"}
    BY DEF Ended, Counting
  <2> QED
    BY <2>1, <2>2 DEF CloserLeft, PastGate, Closing
<1> QED
  BY <1>1, <1>2, <1>3, PTL DEF Spec
=============================================================================
