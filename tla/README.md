# TLA+ model of webrtc_recorder

webrtc_recorder records the WebRTC media of a peer to disk, transcodes the
tracks with ffmpeg and uploads the result to a storage service. This directory
holds TLA+ modules that model the parts in which its own logic lives (the
capture session, the job pipeline, the discovery of other services, the life of
the process with its entry in Consul, and the computations without state), TLC
configurations that check them on small instances, and TLAPS proofs, for every
instance and every input, of all safety properties that are checked.

    tlc -workers 2 -config PipelineFaults.cfg MCJobPipeline
    tlapm PipelineOutcomeProofs.tla
    tlapm AuthorisationProofs.tla

## 1. The system

| Component | State it keeps | Operations | Interacts with |
| --- | --- | --- | --- |
| gRPC handler (`internal/handler`) | none | UploadP2PVideo, StopP2PVideo, RenegotiateP2PVideo | recorder |
| Recorder, capture session (`internal/service/webrtc.go`, `media.go`) | per session: tracks, file description, `countTrack`, context, peer connection | `negotiate`, `onTrack`, `onDataChannel`, `onICEConnectionStateChange`, `close`, `stopVideoSession` | pion callbacks (a goroutine each), session cache, temporary files, job store |
| Session cache (`internal/store/session.go`) | LRU of 2000 sessions, no lock | Get, Add, Remove, eviction | recorder |
| Job store (`internal/store/file_job.go`) | table `webrtc_rec.file_jobs`: state, type, retry, file | Create, Fetch, SetError, Update, Delete, Reset | PostgreSQL |
| Temporary files (`internal/service/temp.go`) | a directory | NewWriter, NewFilePath, NewReader, DeleteFile | everything that touches media |
| Transcoding (`internal/service/transcoding.go`, `internal/utils/transcoding.go`) | listener, worker pool | `listen`, `Execute`, `successJob`, ffmpeg | job store, files |
| Uploader (`internal/service/uploader.go`) | listener, worker pool | `listen`, `Execute` | job store, files, storage service |
| Shared job handling (`internal/service/job.go`) | none | `errorJob`, `cleanup` | job store, files |
| Worker pool (`internal/utils/pool.go`) | buffered channel, goroutines | Exec, worker, Close | both listeners |
| Process (`cmd/service.go`, `wire_gen.go`, `resources.go`) | context, the resources it took | start (with Reset), error paths, signal, shutdown, end | all |
| gRPC server (`infra/grpc_srv`) | listener, requests in progress | New, Listen, interceptor, Shutdown | authorisation, handler |
| gRPC and storage clients (`infra/grpc_client`, `infra/storage`) | one shared connection per service | NewClient, Close | resolver, process |
| Consul registration (`infra/consul`) | entry in Consul, updater goroutines, `stop` | Start, RegisterService, `updateTTLStatus`, `handleTTLUpdateError`, Shutdown | Consul, process |
| Consul resolver (`infra/resolver/consul.go`, `builder.go`) | three goroutines, two channels, context, shared clients | Build, Close, query, forward, UpdateState | Consul, gRPC connection |
| Round robin (`infra/resolver/roundrobin.go`) | slice of connections, 32-bit counter | Build, Pick | gRPC base balancer |
| Authorisation (`infra/auth`) | two clients | Start, Stop, GetSession, ProductLimit | auth service, interceptor |
| ffmpeg driver (`internal/utils/transcoding.go`) | none | `transcodingArgs`, `probeActualDuration`, `TranscodingByPath` | ffmpeg |
| WebRTC set-up (`infra/webrtc/pion.go`, `cmd/resources.go`) | none | `webrtcAPI`, `portRangeFromString`, `NewAPI` | pion |
| SQL client (`infra/sql`) | pool | New, Close, statements | PostgreSQL |

What is hard about it:

* **Concurrency without locks.** Every pion callback and every RPC runs in its
  own goroutine; of a session only `countTrack` is synchronised. `close()` is
  entered by several of them and is a sequence of separately visible steps.
* **Copies.** Workers act on copies of rows made when they were fetched;
  `onDataChannel` acts on a copy of its session; `Execute` deletes files through
  a copy of the file description.
* **Failure between two steps.** The row and the files change in separate steps.
  A crash, a cancelled context, or a refused or unanswered statement can fall
  between any two of them, and errors of statements are only logged.
* **Retry accounting** across stages, failures and the Reset of a restart.
* **Unbuffered hand-overs** between goroutines of which some watch the context
  and some do not (resolver), and goroutines that start others (updaters).
* **Order of cleanups.** Each error path of the start-up names its own cleanups,
  and the shutdown runs under requests that are still in progress.
* **Something must eventually happen:** a closed session must be filed, a filed
  recording must leave the table, a connection must learn the current endpoints,
  a lost entry in Consul must come back, and a signal must end the process.

What makes each component correct: a row is held by at most one goroutine and
its copy stays accurate (store, pool, listeners); a recording is given up only
when delivered or tried as often as configured, and its files live exactly as
long as somebody needs them (transcoding, uploader, files); a session is filed
once, last, and surely (session, cache); the endpoints of a connection only move
forward, and to the current ones (resolver); every ready connection gets its turn
(round robin); other services are sent here only while they can connect, a request
finds the handlers, the auth connection and the pool open and, until a signal, has its
statements accepted, and a recording that ends before the signal is filed
(registration, server, process); every video has one place in the picture (ffmpeg
driver).

## 2. Modules

| Module | Models | Correspondence |
| --- | --- | --- |
| `FileJobStore` | `file_job.go` | the columns are functions of the row id; one operator per statement |
| `TempFiles` | `temp.go` | raw files of a recording, one output per attempt; `DeleteFile` |
| `JobPipeline` | `transcoding.go`, `uploader.go`, `job.go`, `pool.go`, the process | a worker's `phase` is its place in `Execute`; `batch`, `queue` and `cur` are the listener's slice, the channel and the running task; one action per statement, file removal or channel operation |
| `JobLifecycle` | what the pipeline promises | abstract: a stage, the attempts in it, delivered or not |
| `CaptureSession` | `media.go`, `webrtc.go`, `session.go` | one session; `at` is the place of every goroutine; `close()` is the seven steps from `Gate` to `CreateJob` |
| `ResolverWatch` | `consul.go`, `builder.go` of the resolver | `fetcher`, `watcher`, `populate` are the places of the three goroutines; a list is the number of the catalogue content it was made from (`Endpoints` says what it contains); a hand-over on a channel is one action of two goroutines |
| `ServiceDiscovery` | `roundrobin.go` with the resolver | extends `ResolverWatch`; an accepted update, a connection that becomes ready or breaks has a new picker built |
| `ConsulRegistration` | `infra/consul` | updaters are counted by where they are (`wait`, `pass`, `reregister`), `main` walks through the same places during the start-up |
| `MediaSettings` | `webrtcAPI`, `portRangeFromString`, `NewAPI` | which settings succeed, fail or panic |
| `AppLifecycle` | `cmd`, gRPC server, clients, pool | extends `ConsulRegistration` and `MediaSettings`; `main` is the place of the main goroutine, one action per resource taken or given back; requests are counted by interceptor and handler; `cancelled` is the process's context, with which handlers and sessions write their jobs (`Accepts`); `session` follows any one capture session until its job is written or refused |
| `MediaLayout`, `Authorisation` | `internal/utils/transcoding.go`, `infra/auth/auth_connection.go` | operators only |
| `PureFunctions` | | states what the operators should compute; the sets of inputs are constants, the state is one input |
| `MCJobPipeline`, `MCCaptureSession`, `MCServiceDiscovery`, `MCAppLifecycle`, `MCPureFunctions` | | values of constants, inputs and symmetry sets for TLC |
| `PipelineClaimProofs`, `PipelineOutcomeProofs`, `PipelineReleaseProofs` | | theorems about `JobPipeline`, each module on top of the one before |
| `CaptureProofs` | | theorems about `CaptureSession` |
| `DiscoveryProofs` | | theorems about `ServiceDiscovery` |
| `ServiceLifeProofs` | | theorems about `AppLifecycle` |
| `LayoutProofs` | | induction over the turns of a loop; theorems about the recordings and port ranges of `PureFunctions` |
| `AuthorisationProofs` | | on top of it, theorems about its access strings, licences and limits |

`JobPipeline` extends the store and the files and instantiates `JobLifecycle`
with the refinement mapping `StageNow`, `TriesNow`, `SentNow`. The two parts meet
in one call: `CreateJob` of `CaptureSession` is `SubmitRecording`/`SubmitFails` of
`JobPipeline`, which in turn takes from the session only whether the recording
has no tracks, data channels only, or media (`TrackKinds`).

Abstractions. A file has no contents; a random file name is a name never used
before (the output of attempt *k* of row *j* is `<<j, k>>`). `created_at` grows with
the id. The storage service and PostgreSQL are external: a statement is answered,
refused, or committed with its answer lost; a completed stream is or is not kept
by the service (`stored`), which the uploader cannot see. An upload is one
transfer, however many chunks. A read error (`uploader.go:156`) calls CloseSend before
the attempt fails; the stream it cuts short is a failed upload here and is counted
neither in `sent` nor in `stored`, which are about complete ones. Of a packet only what it makes the goroutine do
is kept. The unsynchronised appends in `onTrack` and `onDataChannel` are a read and
a write; the array they share while it has at most two slots is modelled
(`Aliased`). The unsynchronised LRU's Remove is a look-up and a deletion; corruption
of the LRU itself by concurrent calls is not modelled, `overlapped` records that
two calls were inside. A panic ends the process (`crashed`); of two closers that
collide in the loop over the tracks the panic on an encoder stands for the one on a
writer (`media.go:265`). A session begins with its negotiation: the returns before it
(`webrtc.go:50`, a peer connection that is made and not closed) touch no state that is
modelled, nor do the OnMessage and OnClose callbacks of a data channel (`media.go:90`).

In `ResolverWatch` Consul's blocking query may return at any moment, with a new
index or because its wait time ended, and always with the current content
(AllowStale is not set by this program). gRPC's base balancer is external: it drops
connections an update no longer lists and asks for a new picker when the set of
ready connections changes; the picker's slice has the order of a Go map and its
counter a random start, so both are arbitrary. `Modulus` stands for 2^32. In
`ConsulRegistration` Consul answers 500 to an update of a check it does not know (the
code acts on no other status: to a 404 it would do nothing, and `Heals` would not hold),
keeps the status of an entry that is registered again, and may fail before or
after it has done what it was asked; the health check is the constant one that
`Cluster.Start` passes. `serverErrors` and `attempts` are history. In `AppLifecycle`
the logger is left out (its cleanup is empty), and the two clients of the auth
service share one connection, as `NewClient` makes them. The database refuses a statement
there only because the pool is closed or the context cancelled; failures of its own are
`JobPipeline`'s. The draining server takes no new call, while gRPC may take one from a
client that has not yet read GOAWAY; such a call is one more in progress when the drain
begins. In `MediaLayout` the filter
string is the record of what it says, a factor is a fraction, and times are
milliseconds; in `Authorisation` a class name is its letters, whether it is in
capitals and whether blanks surround it, which is what `objClass` and `EqualFold` tell
apart.

Definitions marked "Mutant of" are plausible wrong versions of the definition
after them; no specification uses them. Each property is known to fail when its
mutant (`mutants` in `PROJECT.json`) replaces the definition.

## 3. Runs

| Run | Instance | Shows |
| --- | --- | --- |
| `pipeline_faults` | 2 recordings, 2 + 1 workers, queue 1 + 0, 2 attempts per stage, 2 process ends, 1 database error | `SingleClaim`, `AttemptBound`, `UploadKeepsOutput`, `RawReleased`, `NoLeakWithoutFaults`, `SentOncePerLife`, `NoRowForgotten`, `ImplementsLifecycle` |
| `pipeline_liveness` | 2 recordings, 1 + 1 workers, max-retry 2 and 0, 1 end, no database error, `FairSpec` | `Settles` |
| `pipeline_retry` (violation) | default retry counts, no fault | `RetryHasSources` fails: finding 1 |
| `pipeline_stored` (violation) | default retry counts, no fault | `SuccessMeansStored` fails: finding 2 |
| `session_safety` | 2 tracks, a Stop or a renegotiation, ICE failure, eviction | `FiledOnce`, `FiledLast` |
| `session_liveness` | 2 tracks, 1 data channel, no ICE failure, `FairSpec` | `PermitUsed`, `CountAccurate`, `EndedHasCloser`, `EndedIsFiled`, `FiledThenQuiet` |
| `session_ice` (violation) | 2 tracks, a Stop, ICE failure, `FairSpec` | `EndedIsFiled` fails: finding 3 |
| `session_stop` (violation) | 2 tracks, a Stop | `StopStopsRecording` fails: finding 4 |
| `discovery_balance` | 2 catalogue contents of 4 and 2 entries, limit 3, 1 index reset, a client that may fail, counter of 4 values | `NeverBack`, `WaitsAnswered`, `Converges`, `QuitEndsFetcher`, `FairShare` |
| `discovery_close` (violation) | the same without reset and client failure | `CloseEndsAll` fails: finding 5 |
| `service_life` | a configuration per outcome of the WebRTC set-up, 2 registration attempts, 2 Consul failures, 1 request, 1 session | `UpdatersBounded`, `EntryReturnsOnce`, `RequestsHaveResources`, `RecordingsKept`, `ReachableWhilePassing`, `AllGivenBack`, `EntryRemoved`, `Heals`, `SignalEnds` |
| `pure_functions` | 10538 inputs | `PictureComplete`, `StretchFits`, `PortRangeKept`, `AccessModes`, `ScopeGranted`, `LimitExact` |

`TypeOK` is checked in `pipeline_faults`, `session_safety`, `discovery_balance` and
`service_life`.

Why the bounds are enough. Two recordings and two workers of one pool are what
it takes to claim a row twice, to fill a channel of one slot, to block the
listener and to fetch in an order. Two attempts per stage give a first, a last
and, with a restart, an extra attempt; max-retry 0 is the edge where the first
attempt is the last. Two process ends allow a crash while recovering from a
crash; one database error can be any one statement, Reset and a lost answer
included. In a session two tracks are what it takes for a lost append, for a
counter that is not yet zero, and for two closers; a Stop, a refused
renegotiation and ICE add closers that are no tracks. The bounds on restarts and
errors (`MaxRestarts`, `MaxDbErrors`) are guards of the fault actions only. The
proofs need none of these bounds.

Discovery: two contents are what it takes for an older list to be in a
goroutine's hands while a newer one is applied; the first content has one entry
more than the limit and one without an address of its own, the second reuses an
address under a new id. With three connections and a counter of 4 values the
counter wraps at a value three does not divide, as 2^32 does. Service life: two
failures give a registration that fails on its last attempt, a lost update
followed by a lost entry, and a deregistration that fails; with a bound on the
failures the number of updaters is finite. One request suffices, since requests do
not touch each other; it can be in the interceptor or in the handler at every
step of the shutdown. One session suffices for the same reason: it is any one of those
that are recording, and it can end by a request or by itself at every step. Pure functions: all mixtures of kinds for up to 5 channels,
all numbers of videos up to 100, access strings up to 5 letters (every letter
twice, or two letters twice with a third between), ports on both sides of every
boundary, licence boundaries before, at and after the clock or not set, and up to
four classes with one to four consecutive removals.

Deadlock is checked in the pipeline runs (its listeners poll for ever) and trivially
in `pure_functions`. A session, a process and a panicked or closed resolver end, so
their configurations say `CHECK_DEADLOCK FALSE`. Symmetry (workers of one pool,
tracks) is used in runs without liveness properties only; `ImplementsLifecycle`
is a safety property.

Fairness. `JobPipeline`: the tickers fire and a runnable goroutine runs (weak
fairness of `Poll`, `Exec` and each worker); that ffmpeg and the storage service
answer is assumed, for the code has no deadline for them; after cancellation the
process ends, since `main` returns; something starts it again. Crashes,
submissions and cancellations need never happen. `CaptureSession`: a goroutine
that was started goes on; peers, clients and ICE need not do anything, and
`ReadRTP` may return packets for ever. `ServiceDiscovery`: runnable goroutines run
(weak fairness per action of the three); strong fairness of `QueryAnswered` and of
`UpdateState`, since a query or an update that fails may be followed by one that
succeeds and the code retries for ever; nothing is assumed of the catalogue, of
Close or of the callers. `AppLifecycle`: the main goroutine and each updater go on,
a request ends (the auth service answers or the caller's deadline passes), and
strong fairness of `UpdaterStops`, because Go's `select` chooses at random between a
closed `stop` and a tick. Signals, requests, failures and kills need never happen, a
session need not end, and nothing is assumed of Consul beyond its answers.

## 4. Findings

1. **A failed transcoding deletes its sources** (`transcoding.go:149`).
   `DeleteFile(&mp4File)` removes the partial output and, because the copy still
   lists them, the raw tracks. Every later attempt has no input. The documented
   retries of transcoding cannot succeed.
2. **An upload is not confirmed** (`uploader.go:162`). The answer of the service
   is never read before the only copy is deleted.
3. **ICE failure can wedge a session** (`media.go:240`). The counter is set to 0
   under tracks that will still decrement it; at -1 no `close()` passes, and the
   recording is never filed.
4. **StopP2PVideo does not stop a recording with running tracks**
   (`media.go:249`): it returns success and does nothing.

5. **A closed resolver can leak two goroutines** (`infra/resolver/consul.go:138`).
   The watcher's send does not watch the context; if `populateEndpoints` returns
   first, the send never ends, `quit` is never closed and the polling goroutine
   queries Consul once more and then blocks for ever. gRPC closes a resolver not only at
   the end but also when its connection falls idle.

Seen on the way and recorded as hazards only: a nil Consul client is stored before
its error is returned (`builder.go:42`); an updater inside an update at shutdown
registers the service again after it was removed (once, if Consul does not fail:
`EntryReturnsOnce`; the entry then expires); a signal cancels the context before the
server drains (`service.go:70`), so that a session which ends from then on, by a Stop
still in progress or by its tracks, has its `CreateJob` refused and its files deleted
(`webrtc.go:131`; `RecordingsKept` says that this happens at no other time); a failing Serve is noticed by nobody; user and password of a target URL do not reach
`parseURL`, as `Build` joins the URL again without them (`builder.go:27`; the program's
own targets have none); a refused `SetError`, `Update` or
`Delete` leaves its row active until the next start; `Reset` may fail unnoticed; a
process that ends during ffmpeg leaves an output no row names; concurrent `onTrack`
calls lose a track from the job; an evicted session is never filed.

## 5. Proofs

Every invariant and every action property that a passing run checks is also a theorem,
for every value of the constants. The assumptions on the constants are named in the
modules that declare them, and TLC evaluates them on the runs.

### The pipeline

For every set of recordings and workers, every queue size, retry count and bound on
faults, from `JobsAssumption` (ids are naturals) and `PipelineAssumption` (the pools
are disjoint, sizes and counts are naturals).

* `TypeCorrect`: `Spec => []TypeOK`. One lemma per group of actions; the
  statements of the store keep the columns' types whatever they are applied to.
* `ClaimsExclusive`: `Spec => []SingleClaim`. Not inductive alone: it needs that a
  process that is down holds nothing (`MemoryLost`; otherwise Reset would free rows
  that are still held) and that a worker is only in phases of its own stage and
  holds a task there (`InExecute`). A fetch claims only idle rows, which by
  `ClaimsHold` nobody holds; moving a task between batch, channel and worker keeps
  the set of held ids; a worker that changes its row lets go of it in the same step.
* `AttemptsBounded`: `Spec => []AttemptBound`, from the same invariant: a failed
  worker's copy has the row's retry, so the test in `errorJob` bounds the row, and
  only a restart revives a row at its limit.
* `OutputsKept`: `Spec => []UploadKeepsOutput`. Strengthened by `RowsConsistent`
  (what the columns of a row say together; in particular a transcoding row names no
  output) and `HandsFull` (a transcoder that succeeded still has its output when it
  writes the upload row; whoever is about to delete a row has sent the file or is
  at the limit). `SingleClaim` is what makes "nobody else deletes it" true.
* `PipelineRefinesLifecycle`: `Spec => ImplementsLifecycle`, by showing that Init
  implies `LifeInit` and that under the invariant every step is a step of
  `JobLifecycle` or leaves its three variables alone.
* `RowsTakeTracks`: `Spec => []RawReleased`. What is on disk must be related to who
  is at work: `FilesKnown` says that a file belongs to a recording that was submitted
  with tracks (for one without, `DeleteFile` removes nothing), and `HandsEmpty` that a
  worker about to delete its row, or to turn it into an upload row, has removed the
  files that nobody will find afterwards.
* `FilesOwned`: `Spec => []NoLeakWithoutFaults`, from the same `ReleaseInv`: in a life
  without faults a copy is the row, so that the attempt in a worker's hands names
  the output it is making.
* `SentOnce`: `Spec => []SentOncePerLife`. `Unsent` says which rows can still be sent
  in this life, and how often they were sent before: an idle row, or one in the hands
  of a worker that has not reached CloseSend, was sent at most once for every
  restart. A row whose deletion was refused stays active, out of reach of Fetch.
* `NothingForgotten`: `Spec => []NoRowForgotten`, the part of `Settles` that is not about
  fairness: until a statement fails, an active row of a running process is in
  somebody's hands. It is the converse of `ClaimsHold`, and inductive with it: a fetch
  puts what it makes active into the batch, the hand-overs lose nothing (`HandsQueued`,
  `HandsTaken`), a worker that returns has changed its row, since the row it holds
  exists, and Reset leaves nothing active of what an earlier life let fall.

### The capture session

For every finite set of tracks and all data channels and callers, from
`SessionAssumption` (the set is finite, a track's goroutine is neither an RPC nor the
ICE callback, the two switches are Booleans).

* `SessionInvariant`: `Spec => []IInv`, from which the others follow.
* `SessionTyped`: `Spec => []TypeOK`. That `countTrack` stays within plus and minus
  the number of tracks is not a matter of types: after ICE has set the counter to 0
  its value is bounded above by the tracks that are counted and below by those that
  have left (`CountBounds`).
* `CounterTells`: `Spec => []CountAccurate`, by counting: each step of a track moves
  it into or out of the counted places together with the counter.
* `OneJob`: `Spec => []FiledOnce`. The entry in the cache is a permit. `OnePermit`
  says that, unless two goroutines overlapped in the cache, it is in one place: in the
  cache, where at most one goroutine has found it, in the hands of the one goroutine
  about to write the job, or used for the one job; `PermitKnown` that there is none
  before the session was registered.
* `EntryBecomesJob`: `Spec => []PermitUsed`: nothing between Remove and `CreateJob`
  turns back.
* `JobComesLast`: `Spec => []FiledLast`, from `ClosedInOrder`: a goroutine at a step
  of `close()` has the earlier steps behind it, and no step undoes one.
* `SomebodyCloses`: `Spec => []EndedHasCloser`, the part of `EndedIsFiled` that is not
  about fairness. `CloserKept` says that, once a track is done, the recording is filed,
  a goroutine is past the test of the counter, or another track will yet come to it. A
  closer that the counter sends away leaves a counted track (by `CountAccurate`), one
  that finds no entry leaves a job or the goroutine about to write it (by `PermitUsed`,
  since a track starts only in an answered session, `StartedAnswered`). The first of
  these fails once ICE has reset the counter, which is finding 3.

### Discovery

For every catalogue, limit and counter width. `CatalogueAssumption` says that the
catalogue is a non-empty sequence of contents, each a sequence of entries;
`ModulusAssumption` that the counter can number the connections of every content,
which holds of a `uint32` and any list that fits in memory.

* `UpdatesMoveForward`: `Spec => NeverBack`. The property alone says nothing about
  the lists under way, so the invariant is `Chain`: what the connection has is no newer
  than what `populateEndpoints` received, that no newer than what the watcher holds,
  and so on back to Consul (`ListsOrdered`). Every hand-over copies a list one place
  along the chain and only Consul makes a newer one.
* `DiscoveryTyped`: `Spec => []TypeOK`.
* `NobodyWaitsInVain`: `Spec => []WaitsAnswered`, the part of `QuitEndsFetcher` and of
  `Converges` that is not about fairness. `EndsInOrder` says in which order the three
  goroutines can end: nothing before Close, the watcher exactly when it closes `quit`,
  the fetcher after that. The one wait that may be in vain, the watcher's send after
  Close, is finding 5.
* `TurnsAreShared`: `Spec => []FairShare`. The invariant `PickerInv` says that the
  slice lists the ready connections without repetition and bounds the wait of the
  connection at each position by the counter (`TurnBound`): by the picks since the
  counter last passed the position or, if it has not reached the position since it
  was 0, by its value and one whole turn. At the wrap the order jumps, by as much as
  the width leaves over when it is divided by the number of connections; that is why
  the bound is 2(n - 1) and not n - 1.

### The process

For every configuration and every bound on attempts, failures and requests, from
`RegistrationAssumption` (at least one attempt) and `RequestsAssumption`.

* `ServiceInvariant`: `Spec => []IInv`. Its parts are an order of the places of the
  main goroutine in disguise: `Holding` says what is open at each place, `Serving` when
  requests can be in progress, `Passing` when updaters can run and an entry can be
  passing, `AttemptsLeft` that the start-up registers within its attempts, `Paid` that
  the updaters, and those that a new registration under way will start, are covered by
  the registration and the 500s, and `EntryOwned` that the entry is gone once
  Deregister is behind, as long as Consul answers.
* `ServiceTyped`, `UpdatersPaid`, `PassingReachable`, `ResourcesReturned`, `NoEntryLeft`:
  `TypeOK`, `UpdatersBounded`, `ReachableWhilePassing`, `AllGivenBack` and `EntryRemoved`
  hold always.
* `RequestsServed`: `Spec => []RequestsHaveResources`, from `Holding` and `Serving`: what a
  request holds open is given back only after the drain. That its statements are accepted
  is claimed while the main goroutine is at "running" only.
* `RecordingsFiled`: `Spec => []RecordingsKept`. `Cancelling` says that the context is
  cancelled by the signal and by nothing before, and that until then a session, a request
  or a served port means that the process is running; so `Accepts` holds for a session
  that ends before the signal.
* `RaceIsBounded`: `Spec => []EntryReturnsOnce`: the race between a last update and
  Deregister brings the entry back once at most, whatever the number of updaters.
  `Attended` says where updaters can still run, `Raced` that without failures no update is
  refused before Deregister, and that the first one refused after it registers the entry
  again, so that the next one is not refused.

### The computations

All six properties of `PureFunctions`, for every input of the types the program gives
them (`InputsAssumption`: typed recordings, ports, access strings, licences and grants,
and at most 1080 * 1080 channels, where the code's own division begins to give windows
without height).

The loops of the code are folds over their sequences. A theorem about one needs an
induction over its turns, and the library's induction theorems, which take an operator
as a parameter, cannot be instantiated by the installed provers. `LayoutProofs`
therefore derives induction from the well-foundedness of the naturals: a set of naturals
that is not empty has a least element (`MinIsLeast`), so that a set which holds 0 and,
with k, also k + 1 holds every number up to n (`UpTo`); here the induction hypothesis is
a set, not an operator. `LoopRuns` shows that the function by which a fold is defined
exists, and for each loop a lemma gives its values turn by turn (`MarksLoop`,
`ChannelsLoop`, `LimitLoop`, `AccessLoop`, `ScopeLoop`, `ProductLoop`, `DropLoop`). Each
proof is then a loop invariant.

* `PictureIsComplete`: `Spec => []PictureComplete`. After k turns the list of videos (or
  of audio channels) has those of the first k channels, each once. The least c with
  c * c >= n exists; the grid of c columns has a cell for every video and no side longer
  than 1080 (`GridHolds`), so no window is empty and all end inside the frame; two
  videos differ in their row or in their column.
* `StretchAlwaysFits`: `Spec => []StretchFits`. After k turns the duration is the last
  mark that matched, and the factor that of the last video longer than half a second.
  The bound of a thousandth is then arithmetic over all lengths.
* `PortRangesKept`: `Spec => []PortRangeKept`: what passes the check is less than 2^15.
* `LimitIsExact`: `Spec => []LimitExact` (of `ProductLimit`, which nothing calls yet). After k turns the answer is the largest of 0
  and the remainders of the usable grants among the first k.
* `AccessIsExact`: `Spec => []AccessModes`. After k letters the bit of a mode is set if its
  letter occurred, the bit of its grant option if it occurred twice; adding the value
  of a bit that is not set changes no other bit (`BitSet`).
* `ScopeIsGranted`: `Spec => []ScopeGranted`. Collecting: after k products the scope has,
  once each, the classes that the active ones of the first k name. Removing: the loop
  walks over the list it shortens, and its invariant (`Walked`) says that after k turns
  what is in front of its place are the granted ones of the first k classes, and what
  is behind it is the rest of the list, untouched.

### Only model-checked

The seven liveness properties `Settles`, `EndedIsFiled`, `FiledThenQuiet`, `Converges`,
`QuitEndsFetcher`, `Heals` and `SignalEnds` need fairness and ENABLED, which this prover does not reach. `NothingForgotten`, `SomebodyCloses` and
`NobodyWaitsInVain` are the safety facts that `Settles`, `EndedIsFiled`, and `Converges`
with `QuitEndsFetcher` rest on besides fairness.

## 6. Plan

Done, in this order: store and files, pipeline, life cycle and refinement, capture
session, proofs of type correctness, claims, attempts, outputs and refinement;
resolver and picker, registration, process and server, pure functions, proof of
`NeverBack`; proofs of the remaining invariants of pipeline, session, discovery and
process; proofs of the six computations for every input; the safety halves of the
liveness properties of pipeline, session and discovery, stated, checked and proved; the
cancelled context and the session in `AppLifecycle`, with what a signal does to a
recording and to the entry.

Next theorems: the safety halves of `Heals` and `SignalEnds` (an entry that is lost has an
updater that will notice; a main goroutine that waits has requests that can end).

A further module would compose several `CaptureSession`s over one cache with the
pipeline; the interface is one call (section 2), so the two specifications are
kept apart.

## 7. Not modelled

* `src/gen`: about 9900 of the repository's 14442 lines of Go are written by protoc
  (message types, descriptors, stubs). They hold no control of their own, so the
  share of all lines that the modules cover stays far below the share of the
  hand-written ones, of which about half are mapped and most of the rest are
  imports, flags, type declarations and unused code.
* Code without a caller: `wav.go`; the `Transcoding` type with its pipes; the session cache
  behind `getSession`; the accessors of `Session` and `SessionPermission`; `IsReady`.
  `ProductLimit` has no caller either; it is modelled all the same, for the interface of
  `infra/auth` offers it and its error is its zero.
* `resolver/target.go` (parsing of a URL the program itself writes), the choice of the
  published address in `grpc_srv`, the command-line flags and the SQL client's
  forwarding of statements: conversions and I/O that no property here tells apart.
* Contents of media, RTP timestamps, SDP, and what ffmpeg does with its arguments.
