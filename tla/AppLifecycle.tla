---------------------------- MODULE AppLifecycle ----------------------------
(***************************************************************************)
(* The life of the process (cmd/service.go, wire_gen.go, resources.go):    *)
(* the resources are taken one after the other, a failure gives back those *)
(* taken so far, the server runs until a signal and then everything is     *)
(* given back in the reverse order.  With it the gRPC server               *)
(* (infra/grpc_srv), the connections to other services                     *)
(* (infra/grpc_client), the database pool, the requests in progress and    *)
(* any one session, whose job is written with the context of the process.  *)
(*                                                                         *)
(* The main goroutine's places:                                            *)
(*                                                                         *)
(*   sql -> auth -> grpc -> register ... registered -> storage -> handlers *)
(*    |      |       |            |          |            |          |     *)
(*    v      v       v            v          v            v       running  *)
(*   ended <- close sql <- close auth <- close listener <- stop <- close   *)
(*                                                              storage    *)
(***************************************************************************)
EXTENDS ConsulRegistration, MediaSettings

CONSTANTS
    Configs,       \* WebRTC settings the process may be started with
    MaxRequests    \* requests in progress at a time

ASSUME RequestsAssumption == MaxRequests \in Nat

VARIABLES
    cfg,         \* this process's settings
    sql,         \* is the pool open?
    conns,       \* grpc_client's connections per service
    listener,    \* "none", "open" or "closed"
    handlers,    \* is the WebRTC service registered with the server?
    serving,     \* does Serve accept connections or serve those it has?
    serveFailed, \* did Serve end by itself?
    requests,    \* how many requests are in the interceptor and in a handler
    cancelled,   \* was the context cancelled that every statement runs with?
    session      \* "recording", "none" before that and when its job is written, or
                 \* "dropped": its job was refused and its files are deleted

resourceVars == <<sql, conns, listener>>
serverVars   == <<handlers, serving, serveFailed, requests>>
appVars      == <<registrationVars, cfg, resourceVars, serverVars, cancelled, session>>

Init ==
    /\ RegistrationInit
    /\ main = "sql"
    /\ cfg \in Configs
    /\ sql = FALSE
    /\ conns = [s \in {"auth", "storage"} |-> "none"]
    /\ listener = "none"
    /\ handlers = FALSE /\ serving = FALSE /\ serveFailed = FALSE
    /\ requests = [interceptor |-> 0, handler |-> 0]
    /\ cancelled = FALSE /\ session = "none"

\* The main goroutine goes on; the registration's other variables and the session stay.
Goto(from, to) ==
    /\ alive /\ main = from /\ main' = to
    /\ UNCHANGED <<alive, entry, updaters, attempts, stop, serverErrors, errors, session>>

\* NewClient: one connection per service, made by the first client and shared by
\* the later ones (the session and the customer client of the auth service).
NewClient(service) == conns' = [conns EXCEPT ![service] = "open"]

-----------------------------------------------------------------------------
(* initAppResources: each step succeeds or turns back.                     *)

SetupSQL ==
    /\ \/ Goto("sql", "auth") /\ sql' = TRUE
       \/ Goto("sql", "ended") /\ UNCHANGED sql
    /\ UNCHANGED <<cfg, conns, listener, serverVars, cancelled>>

AuthManager ==
    /\ \/ Goto("auth", "grpc") /\ NewClient("auth")
       \/ Goto("auth", "close sql") /\ UNCHANGED conns
    /\ UNCHANGED <<cfg, sql, listener, serverVars, cancelled>>

\* New listens; the address is taken by Consul's clients from now on.
GrpcSrv ==
    /\ \/ Goto("grpc", "register") /\ listener' = "open"
       \/ Goto("grpc", "close auth") /\ UNCHANGED listener
    /\ UNCHANGED <<cfg, sql, conns, serverVars, cancelled>>

\* setupCluster gave up after its attempts, or newConsul had no client to try with.
ClusterFailed ==
    /\ \/ Goto("unregistered", "close listener")
       \/ attempts = 0 /\ Goto("register", "close listener")
    /\ UNCHANGED <<cfg, resourceVars, serverVars, cancelled>>

\* Mutant of WebrtcAPI: the error path forgets the cluster's cleanup.
WebrtcAPINoCleanup ==
    /\ \/ webrtcAPI(cfg) = "ok" /\ Goto("registered", "storage")
       \/ webrtcAPI(cfg) = "error" /\ Goto("registered", "close listener")
    /\ UNCHANGED <<cfg, resourceVars, serverVars, cancelled>>

WebrtcAPI ==
    /\ \/ webrtcAPI(cfg) = "ok" /\ Goto("registered", "storage")
       \/ webrtcAPI(cfg) = "error" /\ Goto("registered", "stop")
    /\ UNCHANGED <<cfg, resourceVars, serverVars, cancelled>>

StorageClient ==
    /\ \/ Goto("storage", "handlers") /\ NewClient("storage")
       \/ Goto("storage", "stop") /\ UNCHANGED conns
    /\ UNCHANGED <<cfg, sql, listener, serverVars, cancelled>>

-----------------------------------------------------------------------------
(* Run and the command's action.                                           *)

\* Mutant of RunServer: the context is Run's own and is cancelled when Run returns.
RunServerCancels ==
    /\ Goto("handlers", "running")
    /\ handlers' = TRUE
    /\ serving' = TRUE
    /\ cancelled' = TRUE
    /\ UNCHANGED <<cfg, resourceVars, serveFailed, requests>>

\* initAppHandlers builds the services and registers them with the server, and only
\* then a goroutine of its own serves.
RunServer ==
    /\ Goto("handlers", "running")
    /\ handlers' = TRUE
    /\ serving' = TRUE
    /\ UNCHANGED <<cfg, resourceVars, serveFailed, requests, cancelled>>

\* Serve returns an error: nobody waits for the goroutine's result.
ServeFails ==
    /\ alive /\ main = "running" /\ serving
    /\ serving' = FALSE /\ serveFailed' = TRUE
    /\ listener' = "closed"
    /\ UNCHANGED <<registrationVars, cfg, sql, conns, handlers, requests, cancelled, session>>

\* A signal: first the context is cancelled, then shutdown runs.  (After a start-up that
\* turned back, the cancellation comes last and concerns nobody.)
Interrupted ==
    /\ Goto("running", "close storage")
    /\ cancelled' = TRUE
    /\ UNCHANGED <<cfg, resourceVars, serverVars>>

\* The process is gone, and with it its goroutines and its memory.
Gone ==
    /\ alive /\ alive' = FALSE
    /\ main' = "dead"
    /\ updaters' = [place \in UpdaterPlaces |-> 0]
    /\ attempts' = 0 /\ stop' = FALSE /\ serverErrors' = 0
    /\ sql' = FALSE
    /\ conns' = [s \in DOMAIN conns |-> "none"]
    /\ listener' = "none"
    /\ handlers' = FALSE /\ serving' = FALSE /\ serveFailed' = FALSE
    /\ requests' = [interceptor |-> 0, handler |-> 0]
    /\ cancelled' = FALSE /\ session' = "none"
    /\ UNCHANGED <<cfg, entry, errors>>

\* NewAPI panics, with the entry in Consul.
WebrtcAPIPanics == main = "registered" /\ webrtcAPI(cfg) = "panic" /\ Gone

\* A signal before Notify, the panic of a capture session or a kill.
Killed == main # "ended" /\ Gone

-----------------------------------------------------------------------------
(* The cleanups, last resource first; stop and deregister are the          *)
(* registration's.                                                         *)

CloseConn(service, from, to) ==
    /\ Goto(from, to)
    /\ conns' = [conns EXCEPT ![service] = "closed"]
    /\ UNCHANGED <<cfg, sql, listener, serverVars, cancelled>>

\* Mutant of StorageStop: the server is stopped before the cluster.
StorageStopListenerFirst ==
    /\ Goto("close storage", "stop")
    /\ conns' = [conns EXCEPT !["storage"] = "closed"]
    /\ listener' = "closed"
    /\ UNCHANGED <<cfg, sql, serverVars, cancelled>>

StorageStop == CloseConn("storage", "close storage", "stop")

\* Shutdown of the server: the listener ...
CloseListener ==
    /\ Goto("close listener", "drain")
    /\ listener' = "closed"
    /\ UNCHANGED <<cfg, sql, conns, serverVars, cancelled>>

\* Mutant of GracefulStop: Stop, which does not wait.
StopServer ==
    /\ Goto("drain", "close auth")
    /\ serving' = FALSE
    /\ UNCHANGED <<cfg, resourceVars, handlers, serveFailed, requests, cancelled>>

\* ... then GracefulStop, which waits for the requests.
GracefulStop ==
    /\ Goto("drain", "close auth")
    /\ requests = [interceptor |-> 0, handler |-> 0]
    /\ serving' = FALSE
    /\ UNCHANGED <<cfg, resourceVars, handlers, serveFailed, requests, cancelled>>

\* Both clients of the auth service close the connection they share.
AuthStop == CloseConn("auth", "close auth", "close sql")

\* Mutant of CloseSQL: the pool is left open.
EndProcess ==
    /\ Goto("close sql", "ended")
    /\ UNCHANGED <<cfg, resourceVars, serverVars, cancelled>>

CloseSQL ==
    /\ Goto("close sql", "ended")
    /\ sql' = FALSE
    /\ UNCHANGED <<cfg, conns, listener, serverVars, cancelled>>

\* The command has returned and so does main().
Exit == main = "ended" /\ Gone

-----------------------------------------------------------------------------
(* A request: the interceptor asks the auth service for the session, the   *)
(* handler starts or ends a session.                                       *)

InProgress == requests.interceptor + requests.handler

requestFrame == <<registrationVars, cfg, resourceVars, handlers, serving, serveFailed, cancelled>>

\* Mutant of RequestArrives: a draining server accepts calls.
RequestArrivesLate ==
    /\ alive /\ serving /\ InProgress < MaxRequests
    /\ requests' = [requests EXCEPT !.interceptor = @ + 1]
    /\ UNCHANGED <<requestFrame, session>>

RequestArrives ==
    /\ alive /\ serving /\ InProgress < MaxRequests
    /\ main # "drain"
    /\ requests' = [requests EXCEPT !.interceptor = @ + 1]
    /\ UNCHANGED <<requestFrame, session>>

\* What the auth service's answer to GetSession may come to; a connection that is
\* closed answers nothing.
GetSession ==
    IF conns["auth"] = "open" THEN {"session", "unauthenticated", "internal"} ELSE {"internal"}

\* getSessionFromCtx: a call without a token or with an expired session is refused
\* like one the auth service does not know.
Admission == {"unauthenticated"} \cup GetSession

\* The session is valid and the handler is called, or the call is refused.
Intercepted ==
    /\ alive /\ requests.interceptor > 0
    /\ \E answer \in Admission :
        requests' = [interceptor |-> requests.interceptor - 1,
                     handler |-> requests.handler + IF answer = "session" THEN 1 ELSE 0]
    /\ UNCHANGED <<requestFrame, session>>

\* A statement gets through: every one runs with the context of the process, and a pool
\* that is open does not help one whose context was cancelled.  Failures of the
\* database itself are the pipeline's.
Accepts == sql /\ ~ cancelled

\* The session has closed.  stopVideoSession writes its job or, if that is refused,
\* deletes its files.
StopVideoSession ==
    /\ session = "recording"
    /\ session' = IF Accepts THEN "none" ELSE "dropped"

\* The handler starts the session, ends it (StopP2PVideo, or a renegotiation that is
\* refused), or leaves it as it is.
Handled ==
    /\ alive /\ requests.handler > 0
    /\ requests' = [requests EXCEPT !.handler = @ - 1]
    /\ \/ UNCHANGED session
       \/ session = "none" /\ session' = "recording"
       \/ StopVideoSession
    /\ UNCHANGED requestFrame

\* The session ends without a request, in a goroutine of its own that no shutdown waits
\* for: its last track has ended or ICE has failed.
SessionEnds ==
    /\ alive /\ StopVideoSession
    /\ UNCHANGED <<requestFrame, requests>>

-----------------------------------------------------------------------------

MainStep ==
    \/ SetupSQL \/ AuthManager \/ GrpcSrv \/ ClusterFailed
    \/ WebrtcAPI \/ WebrtcAPIPanics \/ StorageClient
    \/ RunServer
    \/ StorageStop \/ CloseListener \/ GracefulStop \/ AuthStop \/ CloseSQL \/ Exit

\* The steps of the main goroutine, the registration's included.
MainGoroutine ==
    \/ MainStep
    \/ /\ GoroutineStep("main") \/ CloseStop \/ Deregister
       /\ UNCHANGED <<cfg, resourceVars, serverVars, cancelled, session>>

Next ==
    \/ RegistrationStep /\ UNCHANGED <<cfg, resourceVars, serverVars, cancelled, session>>
    \/ MainStep
    \/ ServeFails \/ Interrupted \/ Killed
    \/ RequestArrives \/ Intercepted \/ Handled \/ SessionEnds

\* Goroutines go on and requests end.  A select that finds stop closed takes that
\* case some time, as Go's choice is random.  Nothing else is owed: signals, requests
\* and failures may stay out, and a session need not end.
Fairness ==
    /\ WF_appVars(MainGoroutine)
    /\ WF_registrationVars(GoroutineStep("updater"))
    /\ WF_registrationVars(Tick) /\ SF_registrationVars(UpdaterStops)
    /\ WF_appVars(Intercepted \/ Handled)

Spec == Init /\ [][Next]_appVars /\ Fairness

-----------------------------------------------------------------------------
(* Properties.                                                             *)

Places == {"sql", "auth", "grpc", "register", "pass", "reregister", "registered",
           "unregistered", "storage", "handlers", "running", "close storage", "stop",
           "deregister", "close listener", "drain", "close auth", "close sql", "ended", "dead"}

TypeOK ==
    /\ RegistrationTypeOK
    /\ main \in Places
    /\ sql \in BOOLEAN
    /\ conns \in [{"auth", "storage"} -> {"none", "open", "closed"}]
    /\ listener \in {"none", "open", "closed"}
    /\ handlers \in BOOLEAN /\ serving \in BOOLEAN /\ serveFailed \in BOOLEAN
    /\ requests \in [interceptor : 0 .. MaxRequests, handler : 0 .. MaxRequests]
    /\ cancelled \in BOOLEAN /\ session \in {"none", "recording", "dropped"}

\* However the shutdown overtakes a request, it finds its handler registered, the auth
\* connection open and the pool open.  That is not all it needs: a signal cancels the
\* context of its statements at once, while the server goes on accepting and waiting.
\* Only until the signal are they sure to get through.
RequestsHaveResources ==
    InProgress > 0 =>
        /\ handlers /\ conns["auth"] = "open" /\ sql
        /\ main = "running" => Accepts

\* The places of the shutdown.
Stopping == {"close storage", "stop", "deregister", "close listener", "drain",
             "close auth", "close sql", "ended"}

\* A recording that ends, by a request or by itself, is filed for as long as the process
\* runs: its files are deleted for want of a job only after a signal, never by a
\* context or a pool that ended before.
RecordingsKept ==
    session = "dropped" => cancelled /\ main \in Stopping

\* Other services are sent here only while they can connect: as long as the entry
\* is passing and the updaters keep it so, the listener is open, unless Serve ended
\* by itself, which nothing notices.
ReachableWhilePassing ==
    entry = "passing" /\ alive /\ ~ stop => listener = "open" \/ serveFailed

\* Whichever step the start-up turned back at, or after a run, the process gives
\* back everything it took before it returns ...
AllGivenBack ==
    main = "ended" =>
        ~ sql /\ listener # "open" /\ ~ serving /\ \A s \in DOMAIN conns : conns[s] # "open"

\* ... and, if Consul answered every call, its entry: an updater that is inside an
\* update when the entry is removed gets a 500 and registers it once more.
EntryRemoved ==
    main = "ended" /\ errors = 0 /\ serverErrors = 0 => entry = "none"

\* A signal ends the process, although the server waits for its requests.
SignalEnds == main = "close storage" ~> ~ alive
=============================================================================
