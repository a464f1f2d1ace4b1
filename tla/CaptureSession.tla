--------------------------- MODULE CaptureSession ---------------------------
(***************************************************************************)
(* One upload session (internal/service/media.go and webrtc.go) from the   *)
(* offer to the job that stopVideoSession submits, with its entry in the   *)
(* session cache (internal/store/session.go).                              *)
(*                                                                         *)
(* Every callback of the peer connection and every RPC runs in a goroutine *)
(* of its own and nothing of the session but countTrack is synchronised:   *)
(* a process of the model is such a goroutine, a step what it does between *)
(* two accesses of what the goroutines share.                              *)
(***************************************************************************)
EXTENDS Integers, Sequences, FiniteSets, SequencesExt

CONSTANTS
    Tracks,          \* remote tracks the peer may start
    Channels,        \* data channels the peer may open
    Stops,           \* calls of StopP2PVideo
    Renegotiations,  \* calls of RenegotiateP2PVideo
    IceCanFail,      \* may ICE reach the state failed?
    CacheCanEvict    \* may 2000 younger sessions push this one out?

ASSUME SessionAssumption ==
    /\ IceCanFail \in BOOLEAN
    /\ CacheCanEvict \in BOOLEAN
    /\ IsFiniteSet(Tracks)
    /\ Tracks \cap (Stops \cup Renegotiations \cup {"api", "ice"}) = {}

VARIABLES
    at,          \* per process: where it is
    countTrack,  \* the session's atomic counter
    track,       \* s.track, the tracks close() will close
    listed,      \* fileConfig.Track, the files the job will name
    seen,        \* per source: the two slices as its appends read them
    writer,      \* sources whose file is open
    encoder,     \* tracks whose encoder is not nil
    cancelled,   \* was the session's context cancelled?
    pcClosed,    \* was the peer connection closed?
    registered,  \* did UploadP2PVideo add the session and answer?
    inStore,     \* is the session in the cache?
    submitted,   \* calls of CreateJob for this recording
    overlapped,  \* did two unsynchronised removals from the cache overlap?
    crashed      \* did a goroutine panic and end the process?

trackVars   == <<track, listed, seen, writer, encoder>>
peerVars    == <<cancelled, pcClosed>>
storeVars   == <<registered, inStore, submitted, overlapped>>
sessionVars == <<at, countTrack, trackVars, peerVars, storeVars, crashed>>

Sources == Tracks \cup Channels
Procs   == Sources \cup Stops \cup Renegotiations \cup {"api", "ice"}

Init ==
    /\ at = [p \in Procs |-> "idle"]
    /\ countTrack = 0
    /\ track = <<>> /\ listed = <<>>
    /\ seen = [x \in Sources |-> <<<<>>, <<>>>>]
    /\ writer = {} /\ encoder = {}
    /\ cancelled = FALSE /\ pcClosed = FALSE
    /\ registered = FALSE /\ inStore = FALSE
    /\ submitted = 0 /\ overlapped = FALSE
    /\ crashed = FALSE

\* Process p goes on from one place to another.
Goto(p, from, to) ==
    /\ ~ crashed
    /\ at[p] = from
    /\ at' = [at EXCEPT ![p] = to]

\* A method of a nil encoder is called: the panic is not recovered.
Panic == crashed' = TRUE

-----------------------------------------------------------------------------
(* close(), called by any of the goroutines; it returns to "done".         *)

\* Mutant of Gate: close() files the recording and leaves the peer alone.
GateToStore(p) ==
    /\ \/ countTrack = 0 /\ Goto(p, "gate", "lookup")
       \/ countTrack # 0 /\ Goto(p, "gate", "done")
    /\ UNCHANGED <<countTrack, trackVars, peerVars, storeVars, crashed>>

\* if s.countTrack.Load() != 0 { return }
Gate(p) ==
    /\ \/ countTrack = 0 /\ Goto(p, "gate", "cancel")
       \/ countTrack # 0 /\ Goto(p, "gate", "done")
    /\ UNCHANGED <<countTrack, trackVars, peerVars, storeVars, crashed>>

Cancel(p) ==
    /\ Goto(p, "cancel", "writers")
    /\ cancelled' = TRUE
    /\ UNCHANGED <<countTrack, trackVars, pcClosed, storeVars, crashed>>

\* Closes and clears the encoder and the writer of every track of the slice.
CloseWriters(p) ==
    /\ Goto(p, "writers", "peer")
    /\ encoder' = encoder \ ToSet(track)
    /\ writer' = writer \ ToSet(track)
    /\ UNCHANGED <<countTrack, track, listed, seen, peerVars, storeVars, crashed>>

\* Two goroutines in that loop: one clears an encoder between the other's test
\* and its call of Close.  (The writers, cleared by the next lines of the loop, collide
\* in the same way.)
ClosersCollide(p, q) ==
    /\ p # q
    /\ Goto(p, "writers", "done")
    /\ at[q] = "writers"
    /\ encoder \cap ToSet(track) # {}
    /\ Panic
    /\ UNCHANGED <<countTrack, trackVars, peerVars, storeVars>>

ClosePeer(p) ==
    /\ Goto(p, "peer", "lookup")
    /\ pcClosed' = TRUE
    /\ UNCHANGED <<countTrack, trackVars, cancelled, storeVars, crashed>>

\* Mutant of LookUp: stopVideoSession does not return when Remove is false.
LookUpUnchecked(p) ==
    /\ \/ inStore /\ Goto(p, "lookup", "remove")
       \/ ~ inStore /\ Goto(p, "lookup", "create")
    /\ overlapped' = (overlapped \/ (inStore /\ \E q \in Procs : at[q] = "remove"))
    /\ UNCHANGED <<countTrack, trackVars, peerVars, registered, inStore, submitted, crashed>>

\* sessions.Remove of the unsynchronised LRU: it looks the entry up ...
LookUp(p) ==
    /\ \/ inStore /\ Goto(p, "lookup", "remove")
       \/ ~ inStore /\ Goto(p, "lookup", "done")
    /\ overlapped' = (overlapped \/ (inStore /\ \E q \in Procs : at[q] = "remove"))
    /\ UNCHANGED <<countTrack, trackVars, peerVars, registered, inStore, submitted, crashed>>

\* ... and deletes it.
RemoveEntry(p) ==
    /\ Goto(p, "remove", "create")
    /\ inStore' = FALSE
    /\ UNCHANGED <<countTrack, trackVars, peerVars, registered, submitted, overlapped, crashed>>

\* Mutant of CreateJob: a recording some track still writes to is not filed.
CreateJobIfQuiet(p) ==
    /\ Goto(p, "create", "done")
    /\ submitted' = IF writer # {} THEN submitted ELSE submitted + 1
    /\ UNCHANGED <<countTrack, trackVars, peerVars, registered, inStore, overlapped, crashed>>

\* CreateJob(s.fileConfig); what becomes of the job is the pipeline's matter.
CreateJob(p) ==
    /\ Goto(p, "create", "done")
    /\ submitted' = submitted + 1
    /\ UNCHANGED <<countTrack, trackVars, peerVars, registered, inStore, overlapped, crashed>>

CloseStep(p) ==
    \/ Gate(p) \/ Cancel(p) \/ CloseWriters(p) \/ ClosePeer(p)
    \/ LookUp(p) \/ RemoveEntry(p) \/ CreateJob(p)
    \/ \E q \in Procs : ClosersCollide(p, q)

-----------------------------------------------------------------------------
(* The RPCs.                                                               *)

\* UploadP2PVideo: a failed negotiation closes the session, which the cache
\* does not know ...
NegotiationFails ==
    /\ Goto("api", "idle", "gate")
    /\ UNCHANGED <<countTrack, trackVars, peerVars, storeVars, crashed>>

\* ... and a successful one adds it to the cache and sends the answer.
AddSession ==
    /\ Goto("api", "idle", "done")
    /\ registered' = TRUE
    /\ inStore' = TRUE
    /\ UNCHANGED <<countTrack, trackVars, peerVars, submitted, overlapped, crashed>>

\* CloseP2P: sessions.Get, then close().  The client knows the id by now.
Stop(c) ==
    /\ c \in Stops /\ registered
    /\ Goto(c, "idle", IF inStore THEN "gate" ELSE "not found")
    /\ UNCHANGED <<countTrack, trackVars, peerVars, storeVars, crashed>>

\* RenegotiateP2P closes the session when the offer is refused; one that is
\* accepted only lets further tracks arrive.
Renegotiate(c) ==
    /\ c \in Renegotiations /\ registered
    /\ \/ Goto(c, "idle", IF inStore THEN "gate" ELSE "not found")
       \/ inStore /\ Goto(c, "idle", "done")
    /\ UNCHANGED <<countTrack, trackVars, peerVars, storeVars, crashed>>

-----------------------------------------------------------------------------
(* onICEConnectionStateChange and the cache.                               *)

IceFails ==
    /\ IceCanFail /\ ~ pcClosed
    /\ Goto("ice", "idle", "gate")
    /\ countTrack' = 0
    /\ UNCHANGED <<trackVars, peerVars, storeVars, crashed>>

Evict ==
    /\ CacheCanEvict /\ ~ crashed
    /\ inStore /\ inStore' = FALSE
    /\ UNCHANGED <<at, countTrack, trackVars, peerVars, registered, submitted,
                   overlapped, crashed>>

-----------------------------------------------------------------------------
(* onTrack, one goroutine per track, and onDataChannel, one per channel.   *)

\* The peer sends media once it has the answer.  A file that cannot be created
\* ends the goroutine without a call of close().
StartSource(x) ==
    /\ registered /\ ~ pcClosed
    /\ \/ Goto(x, "idle", "append") /\ writer' = writer \cup {x}
       \/ Goto(x, "idle", "no file") /\ UNCHANGED writer
    /\ UNCHANGED <<countTrack, track, listed, seen, encoder, peerVars, storeVars, crashed>>

\* The two appends read the slices.  onDataChannel has a value receiver: it works
\* on a copy of the session made when the handler was registered, whose track is
\* still empty; only fileConfig is shared.
ReadSlices(x) ==
    /\ Goto(x, "append", "store")
    /\ seen' = [seen EXCEPT ![x] = <<IF x \in Tracks THEN track ELSE <<>>, listed>>]
    /\ UNCHANGED <<countTrack, track, listed, writer, encoder, peerVars, storeVars, crashed>>

\* A slice of tracks after slot k of the array was written: all slices of up to 2
\* tracks, the capacity NewWebRtcUploadSession gave it, share one array.
Aliased(slice, k, x) ==
    IF k <= Len(slice) /\ Len(slice) <= 2 THEN [slice EXCEPT ![k] = x] ELSE slice

\* The appends write back, over what another goroutine stored meanwhile.  A
\* channel counts itself in its own copy of countTrack.
StoreSlices(x) ==
    LET k == Len(seen[x][1]) + 1 IN
    /\ Goto(x, "store", IF x \in Tracks THEN "count" ELSE "done")
    /\ track' = IF x \in Tracks THEN Append(seen[x][1], x) ELSE Aliased(track, k, x)
    /\ listed' = Append(seen[x][2], x)
    /\ seen' = [y \in Sources |-> IF y = x THEN <<<<>>, <<>>>>
                                  ELSE <<Aliased(seen[y][1], k, x), seen[y][2]>>]
    /\ UNCHANGED <<countTrack, writer, encoder, peerVars, storeVars, crashed>>

CountTrack(t) ==
    /\ Goto(t, "count", "codec")
    /\ countTrack' = countTrack + 1
    /\ UNCHANGED <<trackVars, peerVars, storeVars, crashed>>

\* Mutant of OpenEncoder: a codec that is refused ends the goroutine before close() was
\* deferred.
OpenEncoderBeforeDefer(t) ==
    /\ \/ Goto(t, "codec", "loop") /\ encoder' \in {encoder, encoder \cup {t}}
       \/ Goto(t, "codec", "done") /\ UNCHANGED encoder
    /\ UNCHANGED <<countTrack, track, listed, seen, writer, peerVars, storeVars, crashed>>

\* An unsupported codec or a writer that refuses ends the goroutine, but the error
\* of the Opus writer is dropped: the loop then runs with a writer that is no
\* more use than none (its Close is taken to be harmless).
OpenEncoder(t) ==
    /\ \/ Goto(t, "codec", "loop") /\ encoder' \in {encoder, encoder \cup {t}}
       \/ Goto(t, "codec", "exit") /\ UNCHANGED encoder
    /\ UNCHANGED <<countTrack, track, listed, seen, writer, peerVars, storeVars, crashed>>

\* case <-s.ctx.Done()
CheckContext(t) ==
    /\ \/ cancelled /\ Goto(t, "loop", "exit")
       \/ ~ cancelled /\ Goto(t, "loop", "read")
    /\ UNCHANGED <<countTrack, trackVars, peerVars, storeVars, crashed>>

\* ReadRTP returns a packet, or the error of an ended track or connection.
ReadRTP(t) ==
    /\ Goto(t, "read", "push") \/ Goto(t, "read", "exit")
    /\ UNCHANGED <<countTrack, trackVars, peerVars, storeVars, crashed>>

\* The sample builder keeps the packet or releases it to the encoder; a failed
\* write cancels the session.
Push(t) ==
    /\ Goto(t, "push", "loop")
    /\ \/ UNCHANGED <<cancelled, crashed>>
       \/ t \in encoder /\ cancelled' = TRUE /\ UNCHANGED crashed
       \/ t \notin encoder /\ Panic /\ UNCHANGED cancelled
    /\ UNCHANGED <<countTrack, trackVars, pcClosed, storeVars>>

\* Mutant of LeaveTrack: the counter is not decremented when the loop ends.
LeaveUncounted(t) ==
    /\ Goto(t, "exit", "gate")
    /\ UNCHANGED <<countTrack, trackVars, peerVars, storeVars, crashed>>

\* Mutant of LeaveTrack: decremented where the loop ends and again in the defer.
LeaveTwice(t) ==
    /\ Goto(t, "exit", "gate")
    /\ countTrack' = countTrack - 2
    /\ UNCHANGED <<trackVars, peerVars, storeVars, crashed>>

\* The deferred function: the counter, then close().
LeaveTrack(t) ==
    /\ Goto(t, "exit", "gate")
    /\ countTrack' = countTrack - 1
    /\ UNCHANGED <<trackVars, peerVars, storeVars, crashed>>

SourceStep(x) ==
    \/ ReadSlices(x) \/ StoreSlices(x)
    \/ x \in Tracks /\ (\/ CountTrack(x) \/ OpenEncoder(x) \/ CheckContext(x)
                        \/ ReadRTP(x) \/ Push(x) \/ LeaveTrack(x))

-----------------------------------------------------------------------------

Next ==
    \/ NegotiationFails \/ AddSession \/ IceFails \/ Evict
    \/ \E c \in Stops : Stop(c)
    \/ \E c \in Renegotiations : Renegotiate(c)
    \/ \E x \in Sources : StartSource(x) \/ SourceStep(x)
    \/ \E p \in Procs : CloseStep(p)

Spec == Init /\ [][Next]_sessionVars

\* A goroutine that was started goes on; peers and clients need not do anything.
Fairness ==
    /\ \A x \in Sources : WF_sessionVars(SourceStep(x))
    /\ \A p \in Procs : WF_sessionVars(CloseStep(p))

FairSpec == Spec /\ Fairness

-----------------------------------------------------------------------------
(* Properties.                                                             *)

Places == {"idle", "append", "store", "count", "codec", "loop", "read", "push", "exit",
           "gate", "cancel", "writers", "peer", "lookup", "remove", "create",
           "done", "no file", "not found"}

StateTypeOK ==
    /\ at \in [Procs -> Places]
    /\ track \in Seq(Sources)
    /\ listed \in Seq(Sources)
    /\ seen \in [Sources -> Seq(Sources) \X Seq(Sources)]
    /\ writer \subseteq Sources
    /\ encoder \subseteq Tracks
    /\ cancelled \in BOOLEAN /\ pcClosed \in BOOLEAN
    /\ registered \in BOOLEAN /\ inStore \in BOOLEAN
    /\ submitted \in Nat
    /\ overlapped \in BOOLEAN /\ crashed \in BOOLEAN

\* Every variable has its type, and countTrack stays within what the tracks can
\* add to it and, after ICE failed, take from it.
TypeOK ==
    /\ StateTypeOK
    /\ countTrack \in - Cardinality(Tracks) .. Cardinality(Tracks)

Counted(t) == at[t] \in {"codec", "loop", "read", "push", "exit"}

\* Until ICE fails countTrack is the number of tracks between their count and
\* their deferred function, whatever data channels, RPCs and the other closers
\* do: it is what close() decides on.
CountAccurate ==
    at["ice"] = "idle" => countTrack = Cardinality({t \in Tracks : Counted(t)})

\* A recording is filed only if its session was answered, and only once however
\* many goroutines close it (tracks, RPCs, ICE), unless two of them were inside
\* the unsynchronised cache at the same moment.
FiledOnce ==
    /\ submitted > 0 => registered
    /\ submitted > 1 => overlapped

\* A session that lost its cache entry to a closing goroutine gets its job: the
\* entry is the only permit to file the recording, and it is never wasted.
PermitUsed ==
    registered /\ ~ inStore /\ ~ CacheCanEvict =>
        submitted > 0 \/ \E p \in Procs : at[p] = "create"

\* The job is written last: once it exists the context is cancelled and the
\* connection closed.
FiledLast == submitted > 0 => cancelled /\ pcClosed

\* After the job was submitted no goroutine goes on recording for ever.
FiledThenQuiet ==
    submitted > 0 ~> crashed \/ \A t \in Tracks : ~ Counted(t)

\* All tracks that came have ended.
Ended ==
    /\ \E t \in Tracks : at[t] = "done"
    /\ \A t \in Tracks : at[t] \in {"idle", "no file", "done"}

Closing == {"gate", "cancel", "writers", "peer", "lookup", "remove", "create"}

\* A session whose tracks have all ended, without ICE having failed, is never left alone:
\* its recording is filed or some goroutine is still inside close().  Tracks that end
\* together, start while others end or find the entry taken never each leave it to the
\* other.
EndedHasCloser ==
    Ended /\ at["ice"] = "idle" /\ ~ CacheCanEvict /\ ~ crashed =>
        submitted > 0 \/ \E p \in Procs : at[p] \in Closing

\* README: sessions are recorded, transcoded and uploaded.  When all tracks of
\* an answered session have ended its recording is filed (or another track
\* starts, or the process has panicked).
EndedIsFiled ==
    Ended ~> submitted > 0 \/ crashed \/ ~ Ended

\* README: StopP2PVideo stops the active recording session with that id.  When
\* the call has returned success the session records no more.
StopStopsRecording ==
    \A c \in Stops : at[c] = "done" => cancelled
=============================================================================
