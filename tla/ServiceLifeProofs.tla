------------------------- MODULE ServiceLifeProofs --------------------------
(***************************************************************************)
(* The safety properties of AppLifecycle for every number of registration  *)
(* attempts, failures and requests and every set of configurations.  The   *)
(* invariant says, for each resource, between which places of the main     *)
(* goroutine it is held, and what the updaters and Consul's entry may be   *)
(* there.                                                                  *)
(***************************************************************************)
EXTENDS AppLifecycle, TLAPS

-----------------------------------------------------------------------------
(* The places, grouped by what is held there.                              *)

Early == {"sql", "auth", "grpc", "register", "unregistered"}
Late  == {"close listener", "drain", "close auth", "close sql", "ended"}

ServingPlaces == {"running", "close storage", "stop", "deregister", "close listener", "drain"}
MiddlePlaces  == {"pass", "reregister", "registered", "storage", "handlers", "running",
                  "close storage", "stop"}
ListenPlaces  == MiddlePlaces \cup {"register", "unregistered", "deregister", "close listener"}
AuthPlaces    == ListenPlaces \cup {"grpc", "drain", "close auth"}
SqlPlaces     == AuthPlaces \cup {"auth", "close sql"}

\* Resources are held exactly while the main goroutine is between taking and giving
\* them back; Serve may have closed the listener by itself.
Holding ==
    /\ alive => main # "dead"
    /\ sql => main \in SqlPlaces
    /\ main \in SqlPlaces => sql
    /\ conns["auth"] = "open" => main \in AuthPlaces
    /\ main \in AuthPlaces => conns["auth"] = "open"
    /\ conns["storage"] = "open" => main \in {"handlers", "running", "close storage"}
    /\ listener = "open" => main \in ListenPlaces
    /\ main \in ListenPlaces => listener = "open" \/ serveFailed

\* Requests exist only between the start of Serve and the end of GracefulStop.
Serving ==
    /\ requests.interceptor + requests.handler <= MaxRequests
    /\ serving \/ requests.interceptor + requests.handler > 0 =>
           handlers /\ main \in ServingPlaces

\* Every 500 pays for one updater: for the one that has been started or, while the
\* goroutine that got it has not registered again, for the one it may start.
Paid ==
    updaters["wait"] + updaters["pass"] + 2 * updaters["reregister"]
        + (IF main \in {"sql", "auth", "grpc", "register", "reregister"} THEN 1 ELSE 0)
    <= 1 + serverErrors

NoUpdaters == \A place \in UpdaterPlaces : updaters[place] = 0

\* Without an updater and without the stop channel closed nothing makes the entry pass.
Passing ==
    /\ main \in Early => NoUpdaters /\ entry # "passing" /\ ~ stop
    /\ main \in Late /\ ~ stop => NoUpdaters /\ entry # "passing"
    /\ main \in MiddlePlaces => ~ stop
    /\ main = "deregister" => stop

\* The entry comes from a registration and goes with Deregister, unless a call failed.
EntryOwned ==
    /\ main \in {"sql", "auth", "grpc"} => entry = "none"
    /\ main = "unregistered" => errors > 0
    /\ main = "reregister" \/ updaters["reregister"] > 0 => serverErrors > 0
    /\ main \in Late /\ errors = 0 /\ serverErrors = 0 => entry = "none"

\* attemptConsulRegistration gives up at its last attempt.
AttemptsLeft == main \in {"sql", "auth", "grpc", "register"} => attempts < MaxAttempts

\* Before the first attempt Consul has no entry; updaters run between the registration
\* and the closing of stop, or are those that have not seen it closed; a dead process
\* has none.
Attended ==
    /\ main = "register" /\ attempts = 0 => entry = "none"
    /\ NoUpdaters \/ main \in MiddlePlaces \/ stop
    /\ ~ alive => main = "dead" /\ serverErrors = 0

\* While nothing fails the entry stays until Deregister, so that no update is refused
\* before; of those after, the first brings the entry back, or is about to.
Raced ==
    /\ errors = 0 => serverErrors <= 1
    /\ errors = 0 /\ serverErrors = 1 => stop /\ (updaters["reregister"] > 0 \/ entry # "none")
    /\ errors = 0 /\ main \in MiddlePlaces \cup {"deregister"} =>
           entry # "none" /\ serverErrors = 0

\* The context is cancelled by the signal and by nothing before, and until then whoever
\* needs it finds the process running.
Cancelling ==
    /\ cancelled => main \in Stopping
    /\ serving \/ requests.interceptor + requests.handler > 0 \/ session # "none" =>
           main = "running" \/ cancelled
    /\ session = "dropped" => cancelled

IInv ==
    /\ TypeOK /\ AttemptsLeft /\ Holding /\ Serving /\ Paid /\ Passing /\ EntryOwned
    /\ Attended /\ Raced /\ Cancelling

-----------------------------------------------------------------------------
(* What Go does to the updaters.                                           *)

\* A step of an updater takes one from its place and adds one to the next.
LEMMA UpdaterMoves ==
    ASSUME updaters \in [UpdaterPlaces -> Nat],
           NEW from \in UpdaterPlaces, NEW to \in UpdaterPlaces \cup {"done"}, from # to,
           NEW started \in {0, 1}, Go("updater", from, to, started)
    PROVE  /\ alive /\ main' = main
           /\ updaters' \in [UpdaterPlaces -> Nat]
           /\ updaters[from] > 0
           /\ \A p \in UpdaterPlaces :
                 updaters'[p] = updaters[p] - (IF p = from THEN 1 ELSE 0)
                                            + (IF p = to THEN 1 ELSE 0)
                                            + (IF p = "wait" THEN started ELSE 0)
BY DEF Go, At, Moved, UpdaterPlaces

\* A step of the main goroutine leaves the updaters alone, but for the one it starts.
LEMMA MainMoves ==
    ASSUME updaters \in [UpdaterPlaces -> Nat],
           NEW from, NEW to, NEW started \in {0, 1}, Go("main", from, to, started)
    PROVE  /\ alive /\ main = from /\ main' = to
           /\ updaters' \in [UpdaterPlaces -> Nat]
           /\ \A p \in UpdaterPlaces :
                 updaters'[p] = updaters[p] + (IF p = "wait" THEN started ELSE 0)
BY DEF Go, At, Moved, UpdaterPlaces

-----------------------------------------------------------------------------
(* Initial states.                                                         *)

\* A process starts with nothing in its hands and nothing in Consul.
LEMMA InitOK == Init => IInv
<1> SUFFICES ASSUME Init PROVE IInv
    OBVIOUS
<1> USE DEF Init, RegistrationInit
<1>1. TypeOK
  <2>1. updaters \in [UpdaterPlaces -> Nat]
      OBVIOUS
  <2>5. /\ attempts \in 0 .. MaxAttempts /\ errors \in 0 .. MaxErrors
        /\ serverErrors \in Nat
      BY RegistrationAssumption
  <2>6. alive \in BOOLEAN /\ stop \in BOOLEAN /\ entry \in {"none", "critical", "passing"}
      OBVIOUS
  <2>7. /\ sql \in BOOLEAN /\ handlers \in BOOLEAN /\ serving \in BOOLEAN
        /\ serveFailed \in BOOLEAN /\ listener \in {"none", "open", "closed"}
        /\ cancelled \in BOOLEAN /\ session \in {"none", "recording", "dropped"}
      OBVIOUS
  <2>2. main \in Places
      BY DEF Places
  <2>3. conns \in [{"auth", "storage"} -> {"none", "open", "closed"}]
      OBVIOUS
  <2>4. requests \in [interceptor : 0 .. MaxRequests, handler : 0 .. MaxRequests]
      BY RequestsAssumption
  <2> QED
      BY <2>1, <2>2, <2>3, <2>4, <2>5, <2>6, <2>7 DEF TypeOK, RegistrationTypeOK
<1>2. Holding
    BY DEF Holding, SqlPlaces, AuthPlaces, ListenPlaces, MiddlePlaces
<1>3. Serving
    BY RequestsAssumption DEF Serving
<1>4. Paid
    BY DEF Paid, UpdaterPlaces
<1>5. Passing
    BY DEF Passing, NoUpdaters, UpdaterPlaces, Early, Late, MiddlePlaces
<1>6. EntryOwned
    BY DEF EntryOwned, UpdaterPlaces, Late
<1>7. AttemptsLeft
    BY RegistrationAssumption DEF AttemptsLeft
<1>8. Attended /\ Raced
    BY DEF Attended, Raced, NoUpdaters, MiddlePlaces
<1>9. Cancelling
    BY DEF Cancelling
<1> QED
    BY <1>1, <1>2, <1>3, <1>4, <1>5, <1>6, <1>7, <1>8, <1>9 DEF IInv

-----------------------------------------------------------------------------
(* Steps by which the main goroutine takes a resource or gives it back.    *)

MainGoes ==
    \/ SetupSQL \/ AuthManager \/ GrpcSrv \/ ClusterFailed
    \/ WebrtcAPI \/ StorageClient \/ RunServer \/ Interrupted
    \/ StorageStop \/ CloseListener \/ GracefulStop \/ AuthStop \/ CloseSQL

\* The places they go from and to.
MainEdge ==
    \/ main = "sql" /\ main' \in {"auth", "ended"}
    \/ main = "auth" /\ main' \in {"grpc", "close sql"}
    \/ main = "grpc" /\ main' \in {"register", "close auth"}
    \/ main = "unregistered" /\ main' = "close listener"
    \/ main = "register" /\ attempts = 0 /\ main' = "close listener"
    \/ main = "registered" /\ main' \in {"storage", "stop"}
    \/ main = "storage" /\ main' \in {"handlers", "stop"}
    \/ main = "handlers" /\ main' = "running"
    \/ main = "running" /\ main' = "close storage"
    \/ main = "close storage" /\ main' = "stop"
    \/ main = "close listener" /\ main' = "drain"
    \/ main = "drain" /\ main' = "close auth"
    \/ main = "close auth" /\ main' = "close sql"
    \/ main = "close sql" /\ main' = "ended"

\* They leave the registration alone.
LEMMA MainGoesOn ==
    ASSUME MainGoes
    PROVE  /\ alive /\ MainEdge
           /\ alive' = alive /\ entry' = entry /\ updaters' = updaters
           /\ attempts' = attempts /\ stop' = stop /\ serverErrors' = serverErrors
           /\ errors' = errors
BY DEF MainGoes, SetupSQL, AuthManager, GrpcSrv, ClusterFailed, WebrtcAPI, StorageClient,
   RunServer, Interrupted, StorageStop, CloseListener, GracefulStop, AuthStop, CloseSQL,
   CloseConn, Goto, MainEdge

\* What is held changes with the place.
LEMMA MainHolds == ASSUME TypeOK, Holding, MainGoes PROVE Holding'
<1>0. conns \in [{"auth", "storage"} -> {"none", "open", "closed"}]
  BY DEF TypeOK
<1>1. CASE SetupSQL
  <2>1. /\ main = "sql" /\ conns' = conns /\ listener' = listener
        /\ serveFailed' = serveFailed
    BY <1>1 DEF SetupSQL, Goto, serverVars
  <2>2. CASE main' = "auth" /\ sql' = TRUE
    BY <2>1, <2>2 DEF Holding, SqlPlaces, AuthPlaces, ListenPlaces, MiddlePlaces
  <2>3. CASE main' = "ended" /\ sql' = sql
    BY <2>1, <2>3 DEF Holding, SqlPlaces, AuthPlaces, ListenPlaces, MiddlePlaces
  <2> QED
    BY <1>1, <2>2, <2>3 DEF SetupSQL, Goto
<1>2. CASE AuthManager
  BY <1>0, <1>2 DEF AuthManager, NewClient, Goto, serverVars, Holding, SqlPlaces, AuthPlaces,
     ListenPlaces, MiddlePlaces
<1>3. CASE GrpcSrv
  BY <1>0, <1>3 DEF GrpcSrv, Goto, serverVars, Holding, SqlPlaces, AuthPlaces, ListenPlaces,
     MiddlePlaces
<1>4. CASE ClusterFailed \/ WebrtcAPI \/ Interrupted
  BY <1>0, <1>4 DEF ClusterFailed, WebrtcAPI, Interrupted, Goto, resourceVars, serverVars,
     Holding, SqlPlaces, AuthPlaces, ListenPlaces, MiddlePlaces
<1>5. CASE RunServer \/ GracefulStop
  BY <1>0, <1>5 DEF RunServer, GracefulStop, Goto, resourceVars, Holding, SqlPlaces,
     AuthPlaces, ListenPlaces, MiddlePlaces
<1>6. CASE StorageClient
  BY <1>0, <1>6 DEF StorageClient, NewClient, Goto, serverVars, Holding, SqlPlaces, AuthPlaces,
     ListenPlaces, MiddlePlaces
<1>7. CASE StorageStop
  BY <1>0, <1>7 DEF StorageStop, CloseConn, Goto, serverVars, Holding, SqlPlaces, AuthPlaces,
     ListenPlaces, MiddlePlaces
<1>8. CASE AuthStop
  BY <1>0, <1>8 DEF AuthStop, CloseConn, Goto, serverVars, Holding, SqlPlaces, AuthPlaces,
     ListenPlaces, MiddlePlaces
<1>9. CASE CloseListener
  BY <1>0, <1>9 DEF CloseListener, Goto, serverVars, Holding, SqlPlaces, AuthPlaces,
     ListenPlaces, MiddlePlaces
<1>10. CASE CloseSQL
  BY <1>0, <1>10 DEF CloseSQL, Goto, serverVars, Holding, SqlPlaces, AuthPlaces, ListenPlaces,
     MiddlePlaces
<1> QED
  BY <1>1, <1>2, <1>3, <1>4, <1>5, <1>6, <1>7, <1>8, <1>9, <1>10 DEF MainGoes

\* Requests are served until the server has been drained.
LEMMA MainServes == ASSUME TypeOK, Serving, MainGoes PROVE Serving'
<1>0. requests.interceptor \in Nat /\ requests.handler \in Nat
  BY RequestsAssumption DEF TypeOK
<1>1. CASE RunServer
  <2>1. /\ handlers' = TRUE /\ main' = "running" /\ requests' = requests
    BY <1>1 DEF RunServer, Goto
  <2> QED
    BY <2>1 DEF Serving, ServingPlaces
<1>2. CASE GracefulStop
  <2>1. /\ serving' = FALSE /\ requests' = requests
        /\ requests.interceptor = 0 /\ requests.handler = 0
    BY <1>2 DEF GracefulStop
  <2> QED
    BY <2>1 DEF Serving
<1>3. CASE ~ RunServer /\ ~ GracefulStop
  <2>1. handlers' = handlers /\ serving' = serving /\ requests' = requests
    BY <1>3 DEF MainGoes, SetupSQL, AuthManager, GrpcSrv, ClusterFailed, WebrtcAPI,
       StorageClient, Interrupted, StorageStop, CloseListener, AuthStop, CloseSQL, CloseConn,
       serverVars
  <2>2. main # "drain"
    BY <1>3 DEF MainGoes, SetupSQL, AuthManager, GrpcSrv, ClusterFailed, WebrtcAPI,
       StorageClient, Interrupted, StorageStop, CloseListener, AuthStop, CloseSQL, CloseConn,
       Goto
  <2>3. main \in ServingPlaces => main' \in ServingPlaces
    BY <2>2, MainGoesOn DEF MainEdge, ServingPlaces
  <2> QED
    BY <2>1, <2>3 DEF Serving
<1> QED
  BY <1>1, <1>2, <1>3

\* Nothing is started or answered for Consul meanwhile.
LEMMA MainRegistration ==
    ASSUME IInv, MainGoes
    PROVE  AttemptsLeft' /\ Paid' /\ Passing' /\ EntryOwned' /\ Attended' /\ Raced'
<1>1. AttemptsLeft'
  BY MainGoesOn DEF IInv, AttemptsLeft, MainEdge
<1>2. Paid'
  <2>1. /\ updaters["wait"] \in Nat /\ updaters["pass"] \in Nat /\ updaters["reregister"] \in Nat
        /\ serverErrors \in Nat
    BY DEF IInv, TypeOK, RegistrationTypeOK, UpdaterPlaces
  <2>2. main' \in {"sql", "auth", "grpc", "register", "reregister"} =>
            main \in {"sql", "auth", "grpc", "register", "reregister"}
    BY MainGoesOn DEF MainEdge
  <2> QED
    BY <2>1, <2>2, MainGoesOn DEF IInv, Paid
<1>3. NoUpdaters => NoUpdaters'
  BY MainGoesOn DEF NoUpdaters
<1>4. Passing'
  <2>1. main' \in Early => main \in Early
    BY MainGoesOn DEF MainEdge, Early
  <2>2. main' \in Late => main \in Late \cup Early
    BY MainGoesOn DEF MainEdge, Early, Late
  <2>3. main' \in MiddlePlaces => main \in MiddlePlaces
    BY MainGoesOn DEF MainEdge, MiddlePlaces
  <2>4. main' # "deregister"
    BY MainGoesOn DEF MainEdge
  <2> QED
    BY <1>3, <2>1, <2>2, <2>3, <2>4, MainGoesOn DEF IInv, Passing
<1>5. EntryOwned'
  <2>1. errors \in Nat /\ serverErrors \in Nat
    BY RegistrationAssumption DEF IInv, TypeOK, RegistrationTypeOK
  <2>2. /\ main' \in {"sql", "auth", "grpc"} => main \in {"sql", "auth", "grpc"}
        /\ main' # "unregistered" /\ main' # "reregister"
        /\ main' \in Late => \/ main \in Late \cup {"sql", "auth", "grpc", "unregistered"}
                             \/ main = "register" /\ attempts = 0
    BY MainGoesOn DEF MainEdge, Late
  <2> QED
    BY <2>1, <2>2, MainGoesOn DEF IInv, EntryOwned, Attended
<1>6. Attended'
  <2>1. main' = "register" /\ attempts' = 0 => entry' = "none"
    BY MainGoesOn DEF IInv, EntryOwned, MainEdge
  <2>2. NoUpdaters' \/ main' \in MiddlePlaces \/ stop'
    <3>1. main \in MiddlePlaces => main' \in MiddlePlaces
      BY MainGoesOn DEF MainEdge, MiddlePlaces
    <3> QED
      BY <1>3, <3>1, MainGoesOn DEF IInv, Attended
  <2> QED
    BY <2>1, <2>2, MainGoesOn DEF Attended
<1>7. Raced'
  <2>1. main' \in MiddlePlaces \cup {"deregister"} => main \in MiddlePlaces
    BY MainGoesOn DEF MainEdge, MiddlePlaces
  <2> QED
    BY <2>1, MainGoesOn DEF IInv, Raced
<1> QED
  BY <1>1, <1>2, <1>4, <1>5, <1>6, <1>7

\* The signal is the only step that cancels, and the only one from "running".
LEMMA MainCancels == ASSUME TypeOK, Cancelling, MainGoes PROVE Cancelling'
<1>1. session' = session /\ requests' = requests
  BY DEF MainGoes, SetupSQL, AuthManager, GrpcSrv, ClusterFailed, WebrtcAPI, StorageClient,
     RunServer, Interrupted, StorageStop, CloseListener, GracefulStop, AuthStop, CloseSQL,
     CloseConn, Goto, serverVars
<1>2. CASE Interrupted
  BY <1>1, <1>2 DEF Interrupted, Goto, Cancelling, Stopping
<1>3. CASE RunServer
  BY <1>1, <1>3 DEF RunServer, Goto, Cancelling, Stopping
<1>4. CASE ~ Interrupted /\ ~ RunServer
  <2>1. /\ cancelled' = cancelled /\ main # "running"
        /\ serving' = serving \/ serving' = FALSE
    BY <1>4 DEF MainGoes, SetupSQL, AuthManager, GrpcSrv, ClusterFailed, WebrtcAPI,
       StorageClient, StorageStop, CloseListener, GracefulStop, AuthStop, CloseSQL, CloseConn,
       Goto, serverVars
  <2>2. main \in Stopping => main' \in Stopping
    BY MainGoesOn DEF MainEdge, Stopping
  <2> QED
    BY <1>1, <2>1, <2>2 DEF Cancelling
<1> QED
  BY <1>2, <1>3, <1>4

\* The types of what is held and served.
LEMMA MainTyped == ASSUME TypeOK, MainGoes PROVE TypeOK'
<1>1. RegistrationTypeOK'
  <2>1. RegistrationTypeOK
    BY DEF TypeOK
  <2> QED
    BY <2>1, MainGoesOn DEF RegistrationTypeOK
<1>2. main' \in Places
  BY MainGoesOn DEF MainEdge, Places
<1>3. sql' \in BOOLEAN
  <2>1. sql' \in {sql, TRUE, FALSE}
    BY DEF MainGoes, SetupSQL, AuthManager, GrpcSrv, ClusterFailed, WebrtcAPI,
       StorageClient, RunServer, Interrupted, StorageStop, CloseListener, GracefulStop,
       AuthStop, CloseSQL, CloseConn, resourceVars
  <2> QED
    BY <2>1 DEF TypeOK
<1>4. conns' \in [{"auth", "storage"} -> {"none", "open", "closed"}]
  BY DEF TypeOK, MainGoes, SetupSQL, AuthManager, GrpcSrv, ClusterFailed, WebrtcAPI,
     StorageClient, RunServer, Interrupted, StorageStop, CloseListener, GracefulStop, AuthStop,
     CloseSQL, CloseConn, NewClient, resourceVars
<1>5. listener' \in {"none", "open", "closed"}
  BY DEF TypeOK, MainGoes, SetupSQL, AuthManager, GrpcSrv, ClusterFailed, WebrtcAPI,
     StorageClient, RunServer, Interrupted, StorageStop, CloseListener, GracefulStop, AuthStop,
     CloseSQL, CloseConn, resourceVars
<1>6. /\ handlers' \in {handlers, TRUE} /\ serving' \in {serving, TRUE, FALSE}
      /\ serveFailed' = serveFailed /\ requests' = requests
  BY DEF MainGoes, SetupSQL, AuthManager, GrpcSrv, ClusterFailed, WebrtcAPI,
     StorageClient, RunServer, Interrupted, StorageStop, CloseListener, GracefulStop, AuthStop,
     CloseSQL, CloseConn, serverVars
<1>7. /\ handlers' \in BOOLEAN /\ serving' \in BOOLEAN /\ serveFailed' \in BOOLEAN
      /\ requests' \in [interceptor : 0 .. MaxRequests, handler : 0 .. MaxRequests]
  BY <1>6 DEF TypeOK
<1>8. cancelled' \in {cancelled, TRUE} /\ session' = session
  BY DEF MainGoes, SetupSQL, AuthManager, GrpcSrv, ClusterFailed, WebrtcAPI, StorageClient,
     RunServer, Interrupted, StorageStop, CloseListener, GracefulStop, AuthStop, CloseSQL,
     CloseConn, Goto
<1>9. cancelled' \in BOOLEAN /\ session' \in {"none", "recording", "dropped"}
  BY <1>8 DEF TypeOK
<1> QED
  BY <1>1, <1>2, <1>3, <1>4, <1>5, <1>7, <1>9, Zenon DEF TypeOK

-----------------------------------------------------------------------------
(* The end of the process, the server and its requests.                    *)

\* A process that is gone holds nothing; its entry stays in Consul.
LEMMA GoneOK == ASSUME TypeOK, Gone PROVE IInv'
<1> USE DEF Gone
<1>1. TypeOK'
  <2>1. updaters' \in [UpdaterPlaces -> Nat]
    OBVIOUS
  <2>2. /\ attempts' \in 0 .. MaxAttempts /\ errors' \in 0 .. MaxErrors
        /\ serverErrors' \in Nat /\ entry' \in {"none", "critical", "passing"}
    BY RegistrationAssumption DEF TypeOK, RegistrationTypeOK
  <2>3. alive' \in BOOLEAN /\ stop' \in BOOLEAN
    OBVIOUS
  <2>4. RegistrationTypeOK'
    BY <2>1, <2>2, <2>3 DEF RegistrationTypeOK
  <2>5. main' \in Places
    BY DEF Places
  <2>6. conns' \in [{"auth", "storage"} -> {"none", "open", "closed"}]
    BY DEF TypeOK
  <2>7. requests' \in [interceptor : 0 .. MaxRequests, handler : 0 .. MaxRequests]
    BY RequestsAssumption
  <2>8. /\ sql' \in BOOLEAN /\ handlers' \in BOOLEAN /\ serving' \in BOOLEAN
        /\ serveFailed' \in BOOLEAN /\ listener' \in {"none", "open", "closed"}
        /\ cancelled' \in BOOLEAN /\ session' \in {"none", "recording", "dropped"}
    OBVIOUS
  <2> QED
    BY <2>4, <2>5, <2>6, <2>7, <2>8 DEF TypeOK
<1>2. Holding'
  <2>1. conns'["auth"] # "open" /\ conns'["storage"] # "open"
    BY DEF TypeOK
  <2> QED
    BY <2>1 DEF Holding, SqlPlaces, AuthPlaces, ListenPlaces, MiddlePlaces
<1>3. Serving'
  BY RequestsAssumption DEF Serving
<1>4. Paid'
  BY DEF Paid, UpdaterPlaces
<1>5. Passing'
  BY DEF Passing, Early, Late, MiddlePlaces
<1>6. EntryOwned'
  BY DEF EntryOwned, UpdaterPlaces, Late
<1>7. AttemptsLeft'
  BY DEF AttemptsLeft
<1>8. Attended' /\ Raced'
  BY DEF Attended, Raced, NoUpdaters, MiddlePlaces
<1>9. Cancelling'
  BY DEF Cancelling
<1> QED
  BY <1>1, <1>2, <1>3, <1>4, <1>5, <1>6, <1>7, <1>8, <1>9 DEF IInv

\* What Serve and the requests do concerns neither the registration nor the pool
\* and the connections.
LEMMA ServerStepKeeps ==
    ASSUME IInv, UNCHANGED registrationVars
    PROVE  /\ RegistrationTypeOK' /\ AttemptsLeft' /\ Paid' /\ Passing' /\ EntryOwned'
           /\ Attended' /\ Raced'
<1>1. /\ alive' = alive /\ main' = main /\ entry' = entry /\ updaters' = updaters
      /\ attempts' = attempts /\ stop' = stop /\ serverErrors' = serverErrors
      /\ errors' = errors
  BY DEF registrationVars
<1>2. RegistrationTypeOK'
  <2>1. RegistrationTypeOK
    BY DEF IInv, TypeOK
  <2> QED
    BY <1>1, <2>1 DEF RegistrationTypeOK
<1>3. AttemptsLeft' /\ Paid'
  BY <1>1 DEF IInv, AttemptsLeft, Paid
<1>4. Passing'
  BY <1>1 DEF IInv, Passing, NoUpdaters
<1>5. EntryOwned'
  BY <1>1 DEF IInv, EntryOwned
<1>6. Attended' /\ Raced'
  BY <1>1 DEF IInv, Attended, Raced, NoUpdaters
<1> QED
  BY <1>2, <1>3, <1>4, <1>5, <1>6

\* Serve ends by itself, and closes the listener.
LEMMA ServeFailsOK == ASSUME IInv, ServeFails PROVE IInv'
<1>1. /\ RegistrationTypeOK' /\ AttemptsLeft' /\ Paid' /\ Passing' /\ EntryOwned'
      /\ Attended' /\ Raced'
  BY ServerStepKeeps DEF ServeFails
<1>2. /\ alive' = alive /\ main' = main /\ main = "running" /\ sql' = sql /\ conns' = conns
      /\ handlers' = handlers /\ requests' = requests
      /\ serving' = FALSE /\ serveFailed' = TRUE /\ listener' = "closed"
      /\ cancelled' = cancelled /\ session' = session
  BY DEF ServeFails, registrationVars
<1>3. TypeOK'
  BY <1>1, <1>2 DEF IInv, TypeOK
<1>4. Holding'
  BY <1>2 DEF IInv, Holding
<1>5. Serving'
  BY <1>2 DEF IInv, Serving
<1>6. Cancelling'
  BY <1>2 DEF IInv, Cancelling
<1> QED
  BY <1>1, <1>3, <1>4, <1>5, <1>6 DEF IInv

\* A request comes, passes the interceptor or ends there, or ends in its handler; or the
\* session ends by itself.
LEMMA RequestOK ==
    ASSUME IInv, RequestArrives \/ Intercepted \/ Handled \/ SessionEnds PROVE IInv'
<1>1. /\ RegistrationTypeOK' /\ AttemptsLeft' /\ Paid' /\ Passing' /\ EntryOwned'
      /\ Attended' /\ Raced'
  BY ServerStepKeeps DEF RequestArrives, Intercepted, Handled, SessionEnds, requestFrame
<1>2. /\ alive' = alive /\ main' = main /\ sql' = sql /\ conns' = conns
      /\ listener' = listener /\ handlers' = handlers /\ serving' = serving
      /\ serveFailed' = serveFailed /\ cancelled' = cancelled
  BY DEF RequestArrives, Intercepted, Handled, SessionEnds, requestFrame, registrationVars,
     resourceVars
<1>3. /\ requests \in [interceptor : 0 .. MaxRequests, handler : 0 .. MaxRequests]
      /\ requests.interceptor + requests.handler <= MaxRequests
      /\ MaxRequests \in Nat
  BY RequestsAssumption DEF IInv, TypeOK, Serving
<1>4. /\ requests' \in [interceptor : 0 .. MaxRequests, handler : 0 .. MaxRequests]
      /\ requests'.interceptor + requests'.handler <= MaxRequests
      /\ serving \/ requests.interceptor + requests.handler > 0 \/ requests' = requests
  <2>1. CASE RequestArrives
    BY <1>3, <2>1 DEF RequestArrives, InProgress
  <2>2. CASE Intercepted
    BY <1>3, <2>2 DEF Intercepted
  <2>3. CASE Handled
    BY <1>3, <2>3 DEF Handled
  <2>4. CASE SessionEnds
    BY <1>3, <2>4 DEF SessionEnds
  <2> QED
    BY <2>1, <2>2, <2>3, <2>4
<1>8. /\ \/ session' = session
         \/ session' = "recording" /\ requests.interceptor + requests.handler > 0
         \/ session' = "none"
         \/ session' = "dropped" /\ cancelled
  <2>1. CASE StopVideoSession
    <3>1. main = "running" \/ cancelled
      BY <2>1 DEF IInv, Cancelling, StopVideoSession
    <3>2. main = "running" => sql
      BY DEF IInv, Holding, SqlPlaces, AuthPlaces, ListenPlaces, MiddlePlaces
    <3> QED
      BY <2>1, <3>1, <3>2 DEF StopVideoSession, Accepts
  <2>2. CASE ~ StopVideoSession
    BY <1>3, <2>2 DEF RequestArrives, Intercepted, Handled, SessionEnds
  <2> QED
    BY <2>1, <2>2
<1>9. session' \in {"none", "recording", "dropped"}
  BY <1>8 DEF IInv, TypeOK
<1>10. Cancelling'
  BY <1>2, <1>3, <1>4, <1>8 DEF IInv, Cancelling
<1>5. TypeOK'
  BY <1>1, <1>2, <1>4, <1>9 DEF IInv, TypeOK
<1>6. Holding'
  BY <1>2 DEF IInv, Holding
<1>7. Serving'
  BY <1>2, <1>4 DEF IInv, Serving
<1> QED
  BY <1>1, <1>5, <1>6, <1>7, <1>10 DEF IInv

-----------------------------------------------------------------------------
(* The registration.                                                       *)

RegInv == RegistrationTypeOK /\ AttemptsLeft /\ Paid /\ Passing /\ EntryOwned

\* How it moves the main goroutine, if at all.
RegistrationEdge ==
    \/ main' = main
    \/ main = "register" /\ main' \in {"pass", "register", "unregistered"}
    \/ main = "reregister" /\ main' \in {"pass", "registered"}
    \/ main = "pass" /\ main' \in {"registered", "reregister"}
    \/ main = "stop" /\ main' = "deregister"
    \/ main = "deregister" /\ main' = "close listener"

\* It does so while the process is alive.
LEMMA RegistrationMoves ==
    ASSUME RegistrationStep PROVE RegistrationEdge /\ alive' = alive
BY DEF RegistrationStep, GoroutineStep, Goroutines, RegisterService, ReregisterFails, PassTTL,
   PassRefused, PassLost, AttemptFails, Tick, UpdaterStops, CloseStop, Deregister, Expires,
   Go, At, Home, RegistrationEdge

\* Nothing of this takes or gives back a resource, and none of these places is one
\* where the resources differ.
LEMMA RegistrationHolds ==
    ASSUME IInv, RegistrationStep,
           UNCHANGED <<cfg, resourceVars, serverVars, cancelled, session>>
    PROVE  Holding' /\ Serving' /\ Cancelling'
<1>1. RegistrationEdge /\ alive' = alive
  BY RegistrationMoves
<1>2. /\ sql' = sql /\ conns' = conns /\ listener' = listener /\ handlers' = handlers
      /\ serving' = serving /\ serveFailed' = serveFailed /\ requests' = requests
  BY DEF resourceVars, serverVars
<1>3. main' = main \/ (main \in ListenPlaces /\ main' \in ListenPlaces)
  BY <1>1 DEF RegistrationEdge, ListenPlaces, MiddlePlaces
<1>4. main' # "dead" \/ main' = main
  BY <1>1 DEF RegistrationEdge
<1>5. main \in {"handlers", "running", "close storage"} => main' = main
  BY <1>1 DEF RegistrationEdge
<1>6. main \in ServingPlaces => main' \in ServingPlaces
  BY <1>1 DEF RegistrationEdge, ServingPlaces
<1>7. ListenPlaces \subseteq AuthPlaces /\ AuthPlaces \subseteq SqlPlaces
  BY DEF SqlPlaces, AuthPlaces
<1>8. Holding'
  BY <1>1, <1>2, <1>3, <1>4, <1>5, <1>7 DEF IInv, Holding
<1>9. Serving'
  BY <1>2, <1>6 DEF IInv, Serving
<1>10. Cancelling'
  <2>1. main \in Stopping => main' \in Stopping
    BY <1>1 DEF RegistrationEdge, Stopping
  <2> QED
    BY <1>2, <1>5, <2>1 DEF IInv, Cancelling
<1> QED
  BY <1>8, <1>9, <1>10

\* The values that the arguments are about.
LEMMA RegistrationNumbers ==
    ASSUME RegInv
    PROVE  /\ updaters \in [UpdaterPlaces -> Nat]
           /\ updaters["wait"] \in Nat /\ updaters["pass"] \in Nat
           /\ updaters["reregister"] \in Nat
           /\ serverErrors \in Nat /\ errors \in Nat /\ attempts \in Nat
BY RegistrationAssumption DEF RegInv, RegistrationTypeOK, UpdaterPlaces

\* Where there is an updater the start-up has registered, and the shutdown has not
\* begun to give back what is behind the registration without closing stop.
LEMMA UpdaterWhere ==
    ASSUME RegInv, NEW place \in UpdaterPlaces, updaters[place] > 0
    PROVE  main \notin Early /\ (main \in Late => stop)
<1>1. ~ NoUpdaters
  BY RegistrationNumbers DEF NoUpdaters
<1> QED
  BY <1>1 DEF RegInv, Passing

\* Therefore a step of an updater cannot make Passing false.
LEMMA UpdaterPasses ==
    ASSUME RegInv, NEW place \in UpdaterPlaces, updaters[place] > 0,
           main' = main, stop' = stop
    PROVE  Passing'
BY UpdaterWhere DEF RegInv, Passing

\* Fails counts a failure of Consul.
LEMMA FailsCounts ==
    ASSUME RegInv, Fails PROVE errors' \in 0 .. MaxErrors /\ errors' > 0
BY RegistrationAssumption DEF RegInv, RegistrationTypeOK, Fails

\* RegisterService by the main goroutine: the first updater, or one that a 500 pays for.
LEMMA MainRegisters == ASSUME RegInv, RegisterService("main") PROVE RegInv'
<1>1. /\ main \in {"register", "reregister"} /\ main' = "pass"
      /\ updaters' \in [UpdaterPlaces -> Nat]
      /\ updaters'["wait"] = updaters["wait"] + 1 /\ updaters'["pass"] = updaters["pass"]
      /\ updaters'["reregister"] = updaters["reregister"]
  <2>1. PICK from \in {"register", "reregister"} : Go("main", from, "pass", 1)
    BY DEF RegisterService
  <2> QED
    BY <2>1, RegistrationNumbers, MainMoves DEF UpdaterPlaces
<1>2. /\ entry' = Entered /\ alive' = alive /\ attempts' = attempts /\ stop' = stop
      /\ serverErrors' = serverErrors /\ errors' = errors
  BY DEF RegisterService
<1>3. RegistrationTypeOK'
  BY <1>1, <1>2 DEF RegInv, RegistrationTypeOK, Entered
<1>4. AttemptsLeft'
  BY <1>1 DEF AttemptsLeft
<1>5. Paid'
  BY <1>1, <1>2, RegistrationNumbers DEF RegInv, Paid
<1>6. Passing'
  <2>1. ~ stop
    BY <1>1 DEF RegInv, Passing, Early, MiddlePlaces
  <2> QED
    BY <1>1, <1>2, <2>1 DEF Passing, Early, Late
<1>7. EntryOwned'
  BY <1>1, <1>2 DEF RegInv, EntryOwned, Late
<1> QED
  BY <1>3, <1>4, <1>5, <1>6, <1>7 DEF RegInv

\* RegisterService by an updater, again: one more, which the 500 it got pays for.
LEMMA UpdaterRegisters == ASSUME RegInv, RegisterService("updater") PROVE RegInv'
<1>1. Go("updater", "reregister", "pass", 1)
  <2>1. PICK from \in {"register", "reregister"} : Go("updater", from, "pass", 1)
    BY DEF RegisterService
  <2>2. from # "register"
    BY <2>1 DEF Go, At, UpdaterPlaces
  <2> QED
    BY <2>1, <2>2
<1>2. /\ main' = main /\ updaters' \in [UpdaterPlaces -> Nat] /\ updaters["reregister"] > 0
      /\ updaters'["wait"] = updaters["wait"] + 1 /\ updaters'["pass"] = updaters["pass"] + 1
      /\ updaters'["reregister"] = updaters["reregister"] - 1
  BY <1>1, RegistrationNumbers, UpdaterMoves DEF UpdaterPlaces
<1>3. /\ entry' = Entered /\ alive' = alive /\ attempts' = attempts /\ stop' = stop
      /\ serverErrors' = serverErrors /\ errors' = errors
  BY DEF RegisterService
<1>4. RegistrationTypeOK'
  BY <1>2, <1>3 DEF RegInv, RegistrationTypeOK, Entered
<1>5. AttemptsLeft'
  BY <1>2, <1>3 DEF RegInv, AttemptsLeft
<1>6. Paid'
  BY <1>2, <1>3, RegistrationNumbers DEF RegInv, Paid
<1>7. Passing'
  BY <1>2, <1>3, UpdaterPasses DEF UpdaterPlaces
<1>8. EntryOwned'
  <2>1. main \notin Early /\ serverErrors > 0
    BY <1>2, UpdaterWhere DEF RegInv, EntryOwned, UpdaterPlaces
  <2> QED
    BY <1>2, <1>3, <2>1, RegistrationNumbers DEF RegInv, EntryOwned, Early
<1> QED
  BY <1>4, <1>5, <1>6, <1>7, <1>8 DEF RegInv

\* An attempt of the start-up fails; the last one ends it.
LEMMA AttemptFailsOK == ASSUME RegInv, AttemptFails PROVE RegInv'
<1>1. /\ main = "register"
      /\ main' = IF attempts + 1 = MaxAttempts THEN "unregistered" ELSE "register"
      /\ updaters' \in [UpdaterPlaces -> Nat]
      /\ \A p \in UpdaterPlaces : updaters'[p] = updaters[p]
  BY RegistrationNumbers, MainMoves DEF AttemptFails
<1>2. /\ attempts' = attempts + 1 /\ entry' \in {entry, Entered}
      /\ alive' = alive /\ stop' = stop /\ serverErrors' = serverErrors
  BY DEF AttemptFails
<1>3. errors' \in 0 .. MaxErrors /\ errors' > 0
  BY FailsCounts DEF AttemptFails
<1>4. attempts < MaxAttempts
  BY <1>1 DEF RegInv, AttemptsLeft
<1>5. RegistrationTypeOK'
  <2>1. attempts' \in 0 .. MaxAttempts
    BY <1>2, <1>4, RegistrationNumbers, RegistrationAssumption
  <2>2. entry' \in {"none", "critical", "passing"}
    BY <1>2 DEF RegInv, RegistrationTypeOK, Entered
  <2> QED
    BY <1>1, <1>2, <1>3, <2>1, <2>2 DEF RegInv, RegistrationTypeOK
<1>6. AttemptsLeft'
  BY <1>1, <1>2, <1>4, RegistrationNumbers, RegistrationAssumption DEF AttemptsLeft
<1>7. Paid'
  BY <1>1, <1>2, RegistrationNumbers DEF RegInv, Paid, UpdaterPlaces
<1>8. Passing'
  <2>1. NoUpdaters /\ entry # "passing" /\ ~ stop
    BY <1>1 DEF RegInv, Passing, Early
  <2>2. NoUpdaters' /\ entry' # "passing" /\ stop' = stop
    BY <1>1, <1>2, <2>1 DEF NoUpdaters, Entered
  <2> QED
    BY <1>1, <2>1, <2>2 DEF Passing, Late, MiddlePlaces
<1>9. EntryOwned'
  BY <1>1, <1>2, <1>3 DEF RegInv, EntryOwned, Late, UpdaterPlaces
<1> QED
  BY <1>5, <1>6, <1>7, <1>8, <1>9 DEF RegInv

\* The main goroutine's first update of the check, and the registration that follows
\* a 500 and fails.
LEMMA MainUpdates ==
    ASSUME RegInv,
           ReregisterFails("main") \/ PassTTL("main") \/ PassRefused("main") \/ PassLost("main")
    PROVE  RegInv'
<1>1. /\ \/ main = "reregister" /\ main' = "registered"
         \/ main = "pass" /\ main' = "registered"
         \/ main = "pass" /\ main' = "reregister" /\ serverErrors' = serverErrors + 1
      /\ updaters' \in [UpdaterPlaces -> Nat]
      /\ \A p \in UpdaterPlaces : updaters'[p] = updaters[p]
  BY RegistrationNumbers, MainMoves DEF ReregisterFails, PassTTL, PassRefused, PassLost, Home
<1>2. /\ serverErrors' \in {serverErrors, serverErrors + 1}
      /\ alive' = alive /\ attempts' = attempts /\ stop' = stop
  BY DEF ReregisterFails, PassTTL, PassRefused, PassLost
<1>3. errors' \in 0 .. MaxErrors
  BY FailsCounts DEF ReregisterFails, PassTTL, PassRefused, PassLost, RegInv,
     RegistrationTypeOK
<1>4. entry' \in {"none", "critical", "passing"}
  BY DEF ReregisterFails, PassTTL, PassRefused, PassLost, RegInv, RegistrationTypeOK, Entered
<1>5. RegistrationTypeOK'
  BY <1>1, <1>2, <1>3, <1>4, RegistrationNumbers DEF RegInv, RegistrationTypeOK
<1>6. AttemptsLeft'
  BY <1>1 DEF AttemptsLeft
<1>7. Paid'
  BY <1>1, <1>2, RegistrationNumbers DEF RegInv, Paid, UpdaterPlaces
<1>8. Passing'
  <2>1. ~ stop
    BY <1>1 DEF RegInv, Passing, MiddlePlaces
  <2> QED
    BY <1>1, <1>2, <2>1 DEF Passing, Early, Late
<1>9. EntryOwned'
  <2>1. main' \notin Late /\ main' \notin {"sql", "auth", "grpc", "unregistered"}
    BY <1>1 DEF Late
  <2>2. updaters'["reregister"] > 0 => serverErrors' > 0
    BY <1>1, <1>2, RegistrationNumbers DEF RegInv, EntryOwned, UpdaterPlaces
  <2>3. main' = "reregister" => serverErrors' > 0
    BY <1>1, RegistrationNumbers
  <2> QED
    BY <2>1, <2>2, <2>3 DEF EntryOwned
<1> QED
  BY <1>5, <1>6, <1>7, <1>8, <1>9 DEF RegInv

\* An updater's update and what follows a refusal: each 500 is counted before the
\* updater it pays for exists.
LEMMA UpdaterUpdates ==
    ASSUME RegInv,
           \/ ReregisterFails("updater") \/ PassTTL("updater")
           \/ PassRefused("updater") \/ PassLost("updater")
           \/ Tick \/ UpdaterStops
    PROVE  RegInv'
<1> DEFINE Moves(from, to) ==
              /\ updaters[from] > 0 /\ main' = main
              /\ updaters' \in [UpdaterPlaces -> Nat]
              /\ \A p \in UpdaterPlaces :
                    updaters'[p] = updaters[p] - (IF p = from THEN 1 ELSE 0)
                                               + (IF p = to THEN 1 ELSE 0)
           Rest == stop' = stop /\ attempts' = attempts /\ alive' = alive
<1>0. ASSUME NEW from \in UpdaterPlaces, NEW to \in UpdaterPlaces \cup {"done"}, from # to,
             Go("updater", from, to, 0)
      PROVE  Moves(from, to)
  <2>1. updaters \in [UpdaterPlaces -> Nat]
    BY RegistrationNumbers
  <2>2. /\ main' = main /\ updaters' \in [UpdaterPlaces -> Nat] /\ updaters[from] > 0
        /\ \A p \in UpdaterPlaces :
              updaters'[p] = updaters[p] - (IF p = from THEN 1 ELSE 0)
                                         + (IF p = to THEN 1 ELSE 0)
                                         + (IF p = "wait" THEN 0 ELSE 0)
    BY <1>0, <2>1, UpdaterMoves
  <2> QED
    BY <2>1, <2>2
<1>1. ReregisterFails("updater") =>
          /\ Moves("reregister", "wait") /\ Rest /\ serverErrors' = serverErrors
          /\ entry' \in {entry, Entered} /\ errors' \in 0 .. MaxErrors /\ errors' > 0
  BY <1>0, FailsCounts DEF ReregisterFails, Home, UpdaterPlaces
<1>2. PassTTL("updater") =>
          /\ Moves("pass", "wait") /\ Rest /\ serverErrors' = serverErrors
          /\ entry # "none" /\ entry' = "passing" /\ errors' = errors
  BY <1>0 DEF PassTTL, Home, UpdaterPlaces
<1>3. PassRefused("updater") =>
          /\ Moves("pass", "reregister") /\ Rest /\ serverErrors' = serverErrors + 1
          /\ entry' = entry /\ errors' \in 0 .. MaxErrors
  BY <1>0, FailsCounts DEF PassRefused, UpdaterPlaces, RegInv, RegistrationTypeOK
<1>4. PassLost("updater") =>
          /\ Moves("pass", "wait") /\ Rest /\ serverErrors' = serverErrors
          /\ entry' \in {entry, IF entry = "none" THEN "none" ELSE "passing"}
          /\ errors' \in 0 .. MaxErrors /\ errors' > 0
  BY <1>0, FailsCounts DEF PassLost, Home, UpdaterPlaces
<1>5. Tick =>
          /\ Moves("wait", "pass") /\ Rest /\ serverErrors' = serverErrors
          /\ entry' = entry /\ errors' = errors
  BY <1>0 DEF Tick, UpdaterPlaces
<1>6. UpdaterStops =>
          /\ Moves("wait", "done") /\ Rest /\ serverErrors' = serverErrors
          /\ entry' = entry /\ errors' = errors
  BY <1>0 DEF UpdaterStops, UpdaterPlaces
<1>7. PICK from \in UpdaterPlaces, to \in UpdaterPlaces \cup {"done"} : Moves(from, to)
  <2>1. {"wait", "pass", "reregister", "done"} = UpdaterPlaces \cup {"done"}
    BY DEF UpdaterPlaces
  <2> HIDE DEF Moves
  <2> QED
    BY <1>1, <1>2, <1>3, <1>4, <1>5, <1>6, <2>1 DEF UpdaterPlaces
<1>8. Rest /\ main' = main /\ updaters' \in [UpdaterPlaces -> Nat]
  BY <1>1, <1>2, <1>3, <1>4, <1>5, <1>6
<1>9. RegistrationTypeOK'
  <2>1. serverErrors' \in Nat /\ errors' \in 0 .. MaxErrors
    BY <1>1, <1>2, <1>3, <1>4, <1>5, <1>6, RegistrationNumbers DEF RegInv, RegistrationTypeOK
  <2>2. entry' \in {"none", "critical", "passing"}
    BY <1>1, <1>2, <1>3, <1>4, <1>5, <1>6 DEF RegInv, RegistrationTypeOK, Entered
  <2> QED
    BY <1>8, <2>1, <2>2 DEF RegInv, RegistrationTypeOK
<1>10. AttemptsLeft'
  BY <1>8 DEF RegInv, AttemptsLeft
<1>11. Paid'
  <2>1. "wait" \in UpdaterPlaces /\ "pass" \in UpdaterPlaces /\ "reregister" \in UpdaterPlaces
    BY DEF UpdaterPlaces
  <2>2. /\ \/ updaters'["wait"] = updaters["wait"] + 1 /\ updaters'["pass"] = updaters["pass"]
              /\ updaters'["reregister"] = updaters["reregister"] - 1
              /\ serverErrors' = serverErrors
           \/ updaters'["wait"] = updaters["wait"] + 1
              /\ updaters'["pass"] = updaters["pass"] - 1
              /\ updaters'["reregister"] = updaters["reregister"]
              /\ serverErrors' = serverErrors
           \/ updaters'["wait"] = updaters["wait"] /\ updaters'["pass"] = updaters["pass"] - 1
              /\ updaters'["reregister"] = updaters["reregister"] + 1
              /\ serverErrors' = serverErrors + 1
           \/ updaters'["wait"] = updaters["wait"] - 1
              /\ updaters'["pass"] \in {updaters["pass"], updaters["pass"] + 1}
              /\ updaters'["reregister"] = updaters["reregister"]
              /\ serverErrors' = serverErrors
      /\ main' = main
    BY <1>1, <1>2, <1>3, <1>4, <1>5, <1>6, <2>1, RegistrationNumbers
  <2> QED
    BY <2>2, RegistrationNumbers DEF RegInv, Paid
<1>12. Passing'
  BY <1>7, <1>8, UpdaterPasses
<1>13. EntryOwned'
  <2>1. main \notin Early
    BY <1>7, UpdaterWhere
  <2>2. updaters'["reregister"] > 0 => serverErrors' > 0
    BY <1>1, <1>2, <1>3, <1>4, <1>5, <1>6, RegistrationNumbers
       DEF RegInv, EntryOwned, UpdaterPlaces
  <2>3. main = "reregister" => serverErrors' > 0
    BY <1>1, <1>2, <1>3, <1>4, <1>5, <1>6, RegistrationNumbers DEF RegInv, EntryOwned
  <2>4. main \in Late /\ errors' = 0 /\ serverErrors' = 0 => entry' = "none"
    BY <1>1, <1>2, <1>3, <1>4, <1>5, <1>6, RegistrationNumbers DEF RegInv, EntryOwned
  <2> QED
    BY <1>8, <2>1, <2>2, <2>3, <2>4 DEF EntryOwned, Early
<1> QED
  BY <1>9, <1>10, <1>11, <1>12, <1>13 DEF RegInv

\* The shutdown's part.
LEMMA ShutdownOK == ASSUME RegInv, CloseStop \/ Deregister PROVE RegInv'
<1>0. ASSUME NEW from, NEW to, Go("main", from, to, 0)
      PROVE  /\ main = from /\ main' = to /\ updaters' \in [UpdaterPlaces -> Nat]
             /\ \A p \in UpdaterPlaces : updaters'[p] = updaters[p]
  BY <1>0, RegistrationNumbers, MainMoves
<1>a. CloseStop => main = "stop" /\ main' = "deregister" /\ stop' = TRUE
  BY <1>0 DEF CloseStop
<1>b. Deregister => main = "deregister" /\ main' = "close listener" /\ stop' = stop
  BY <1>0 DEF Deregister
<1>1. /\ \/ main = "stop" /\ main' = "deregister" /\ stop' = TRUE
         \/ main = "deregister" /\ main' = "close listener" /\ stop' = stop
      /\ updaters' \in [UpdaterPlaces -> Nat]
      /\ \A p \in UpdaterPlaces : updaters'[p] = updaters[p]
  BY <1>0, <1>a, <1>b DEF CloseStop, Deregister
<1>2. /\ serverErrors' = serverErrors /\ alive' = alive /\ attempts' = attempts
  BY DEF CloseStop, Deregister
<1>3. errors' \in 0 .. MaxErrors
  BY FailsCounts DEF CloseStop, Deregister, RegInv, RegistrationTypeOK
<1>4. entry' \in {"none", "critical", "passing"}
  BY DEF CloseStop, Deregister, RegInv, RegistrationTypeOK
<1>5. stop' \in BOOLEAN
  BY <1>1 DEF RegInv, RegistrationTypeOK
<1>6. RegistrationTypeOK'
  BY <1>1, <1>2, <1>3, <1>4, <1>5 DEF RegInv, RegistrationTypeOK
<1>7. AttemptsLeft'
  BY <1>1 DEF AttemptsLeft
<1>8. Paid'
  BY <1>1, <1>2, RegistrationNumbers DEF RegInv, Paid, UpdaterPlaces
<1>9. Passing'
  <2>1. stop'
    <3>1. CASE stop' = TRUE
      BY <3>1
    <3>2. CASE main = "deregister" /\ stop' = stop
      BY <3>2 DEF RegInv, Passing
    <3> QED
      BY <1>1, <3>1, <3>2
  <2> QED
    BY <1>1, <2>1 DEF Passing, Early, MiddlePlaces
<1>10. EntryOwned'
  <2>1. main' \in Late /\ errors' = 0 => entry' = "none"
    <3>1. CASE CloseStop
      BY <3>1, <1>a DEF Late
    <3>2. CASE Deregister
      <4>1. entry' = "none" \/ Fails
        BY <3>2 DEF Deregister
      <4>2. Fails => ~ (errors' = 0)
        BY FailsCounts, RegistrationAssumption
      <4> QED
        BY <4>1, <4>2
    <3> QED
      BY <3>1, <3>2
  <2> QED
    BY <1>1, <1>2, <2>1 DEF RegInv, EntryOwned, UpdaterPlaces
<1> QED
  BY <1>6, <1>7, <1>8, <1>9, <1>10 DEF RegInv

\* Consul by itself only takes the entry away.
LEMMA ExpiresOK == ASSUME RegInv, Expires PROVE RegInv'
<1>1. /\ main' = main /\ updaters' = updaters /\ serverErrors' = serverErrors
      /\ alive' = alive /\ attempts' = attempts /\ stop' = stop
  BY DEF Expires
<1>2. /\ errors' \in 0 .. MaxErrors /\ (errors' = errors \/ errors' > 0)
  BY FailsCounts DEF Expires, RegInv, RegistrationTypeOK
<1>3. entry # "none" /\ entry' \in {"none", "critical"}
  BY DEF Expires
<1>4. RegistrationTypeOK'
  BY <1>1, <1>2, <1>3 DEF RegInv, RegistrationTypeOK
<1>5. AttemptsLeft' /\ Paid'
  BY <1>1 DEF RegInv, AttemptsLeft, Paid
<1>6. Passing'
  BY <1>1, <1>3 DEF RegInv, Passing, NoUpdaters
<1>7. EntryOwned'
  BY <1>1, <1>2, <1>3, RegistrationNumbers DEF RegInv, EntryOwned
<1> QED
  BY <1>4, <1>5, <1>6, <1>7 DEF RegInv

-----------------------------------------------------------------------------
(* The race of the updaters with Deregister.                               *)

\* A step that starts an updater, or moves one, leaves Attended alone, as updaters and
\* the main goroutine already are where it lets them be.
LEMMA RaceAttended == ASSUME RegInv, Attended, RegistrationStep PROVE Attended'
<1>1. RegistrationEdge /\ alive' = alive
  BY RegistrationMoves
<1>2. main \in Early => NoUpdaters
  BY DEF RegInv, Passing
<1>3. CASE Expires
  BY <1>3 DEF Expires, Attended, NoUpdaters
<1>4. CASE CloseStop \/ Deregister
  <2>1. \/ main = "stop" /\ main' = "deregister" /\ stop'
        \/ main = "deregister" /\ main' = "close listener" /\ stop' = stop
    BY <1>4 DEF CloseStop, Deregister, Go, At
  <2>2. main = "deregister" => stop
    BY DEF RegInv, Passing
  <2>3. alive
    BY <1>4 DEF CloseStop, Deregister, Go, At
  <2> QED
    BY <1>1, <2>1, <2>2, <2>3 DEF Attended
<1>5. CASE AttemptFails
  <2>1. /\ alive /\ main = "register" /\ attempts' = attempts + 1
        /\ updaters' \in [UpdaterPlaces -> Nat]
        /\ \A p \in UpdaterPlaces : updaters'[p] = updaters[p]
    BY <1>5, RegistrationNumbers, MainMoves DEF AttemptFails
  <2>2. NoUpdaters'
    BY <1>2, <2>1 DEF NoUpdaters, Early
  <2> QED
    BY <1>1, <2>1, <2>2, RegistrationNumbers DEF Attended
<1>6. CASE \E g \in {"main"} : GoroutineStep(g)
  <2>1. alive /\ main' \in {"pass", "reregister", "registered"}
    BY <1>6 DEF GoroutineStep, RegisterService, ReregisterFails, PassTTL, PassRefused, PassLost,
       Go, At, Home
  <2> QED
    BY <1>1, <2>1 DEF Attended, MiddlePlaces
<1>7. CASE GoroutineStep("updater") \/ Tick \/ UpdaterStops
  <2>1. /\ alive /\ main' = main /\ stop' = stop
        /\ \E place \in UpdaterPlaces : updaters[place] > 0
    BY <1>7 DEF GoroutineStep, RegisterService, ReregisterFails, PassTTL, PassRefused, PassLost,
       Tick, UpdaterStops, Go, At
  <2>2. ~ NoUpdaters
    BY <2>1, RegistrationNumbers DEF NoUpdaters
  <2>3. main # "register"
    BY <1>2, <2>2 DEF Early
  <2> QED
    BY <1>1, <2>1, <2>2, <2>3 DEF Attended
<1> QED
  BY <1>3, <1>4, <1>5, <1>6, <1>7 DEF RegistrationStep, Goroutines

\* Only an updater that finds the entry removed is refused without a failure, and it is the
\* only one there is then: as Paid says, a second would need a 500 of its own.
LEMMA RaceKept == ASSUME RegInv, Attended, Raced, RegistrationStep PROVE Attended' /\ Raced'
<1>1. Attended'
  BY RaceAttended
<1>2. RegistrationEdge /\ alive' = alive
  BY RegistrationMoves
<1> SUFFICES ASSUME errors' = 0
             PROVE  /\ serverErrors' <= 1
                    /\ serverErrors' = 1 =>
                           stop' /\ (updaters'["reregister"] > 0 \/ entry' # "none")
                    /\ main' \in MiddlePlaces \cup {"deregister"} =>
                           entry' # "none" /\ serverErrors' = 0
  BY <1>1 DEF Raced
<1>3. ~ Fails
  BY FailsCounts, RegistrationNumbers
<1>4. errors = 0
  BY <1>3 DEF RegistrationStep, GoroutineStep, RegisterService, ReregisterFails, PassTTL,
     PassRefused, PassLost, AttemptFails, Tick, UpdaterStops, CloseStop, Deregister, Expires
<1>5. /\ serverErrors <= 1
      /\ serverErrors = 1 => stop /\ (updaters["reregister"] > 0 \/ entry # "none")
      /\ main \in MiddlePlaces \cup {"deregister"} => entry # "none" /\ serverErrors = 0
  BY <1>4 DEF Raced
<1>6. ~ AttemptFails /\ \A g \in Goroutines : ~ ReregisterFails(g) /\ ~ PassLost(g)
  BY <1>3 DEF AttemptFails, ReregisterFails, PassLost
<1>7. CASE RegisterService("main")
  <2>1. /\ main \in {"register", "reregister"} /\ main' = "pass" /\ stop' = stop
        /\ entry' # "none" /\ serverErrors' = serverErrors
    BY <1>7 DEF RegisterService, Go, At, Entered
  <2>2. serverErrors = 0
    <3>1. ~ stop
      BY <2>1 DEF RegInv, Passing, Early, MiddlePlaces
    <3>2. serverErrors \in Nat /\ serverErrors <= 1 /\ serverErrors # 1
      BY <1>5, <3>1, RegistrationNumbers
    <3> QED
      BY <3>2
  <2> QED
    BY <2>1, <2>2
<1>8. CASE RegisterService("updater")
  <2>1. /\ main' = main /\ stop' = stop /\ entry' # "none" /\ serverErrors' = serverErrors
    BY <1>8 DEF RegisterService, Go, Entered
  <2> QED
    BY <1>5, <2>1
<1>9. CASE PassTTL("main") \/ PassTTL("updater")
  <2>1. /\ stop' = stop /\ entry' # "none" /\ serverErrors' = serverErrors
        /\ \/ main' = main
           \/ main = "pass" /\ main' = "registered"
    BY <1>9 DEF PassTTL, Go, At, Home
  <2> QED
    BY <1>5, <2>1 DEF MiddlePlaces
<1>10. CASE PassRefused("main")
  <2>1. main = "pass" /\ entry = "none"
    BY <1>3, <1>10 DEF PassRefused, Go, At
  <2> QED
    BY <1>5, <2>1 DEF MiddlePlaces
<1>11. CASE PassRefused("updater")
  <2>1. /\ main' = main /\ stop' = stop /\ entry = "none" /\ entry' = entry
        /\ serverErrors' = serverErrors + 1
        /\ updaters["pass"] > 0 /\ updaters'["reregister"] = updaters["reregister"] + 1
    <3>1. Go("updater", "pass", "reregister", 0)
      BY <1>11 DEF PassRefused
    <3>2. /\ main' = main /\ updaters["pass"] > 0
          /\ updaters'["reregister"] = updaters["reregister"] + 1
      BY <3>1, RegistrationNumbers, UpdaterMoves DEF UpdaterPlaces
    <3> QED
      BY <1>3, <1>11, <3>2 DEF PassRefused
  <2>2. main \notin MiddlePlaces \cup {"deregister"}
    BY <1>5, <2>1
  <2>3. stop
    <3>1. ~ NoUpdaters
      BY <2>1, RegistrationNumbers DEF NoUpdaters, UpdaterPlaces
    <3> QED
      BY <2>2, <3>1 DEF Attended
  <2>4. serverErrors = 0
    BY <1>5, <2>1, RegistrationNumbers DEF RegInv, Paid
  <2> QED
    BY <2>1, <2>2, <2>3, <2>4, RegistrationNumbers
<1>12. CASE Tick \/ UpdaterStops
  <2>1. /\ main' = main /\ stop' = stop /\ entry' = entry /\ serverErrors' = serverErrors
        /\ updaters'["reregister"] = updaters["reregister"]
    <3>1. Go("updater", "wait", "pass", 0) \/ Go("updater", "wait", "done", 0)
      BY <1>12 DEF Tick, UpdaterStops
    <3>2. main' = main /\ updaters'["reregister"] = updaters["reregister"]
      BY <3>1, RegistrationNumbers, UpdaterMoves DEF UpdaterPlaces
    <3> QED
      BY <1>12, <3>2 DEF Tick, UpdaterStops
  <2> QED
    BY <1>5, <2>1
<1>13. CASE CloseStop \/ Deregister
  <2>1. /\ main \in {"stop", "deregister"} /\ serverErrors' = serverErrors
        /\ \/ main' = "deregister" /\ entry' = entry
           \/ main' = "close listener"
    BY <1>13 DEF CloseStop, Deregister, Go, At
  <2>2. serverErrors = 0 /\ entry # "none"
    BY <1>5, <2>1 DEF MiddlePlaces
  <2>3. main' = "close listener" => main' \notin MiddlePlaces \cup {"deregister"}
    BY DEF MiddlePlaces
  <2>4. serverErrors' = 0 /\ (main' \in MiddlePlaces \cup {"deregister"} => entry' # "none")
    BY <2>1, <2>2, <2>3
  <2>5. serverErrors' <= 1 /\ serverErrors' # 1
    BY <2>4
  <2> QED
    BY <2>4, <2>5
<1>14. CASE Expires
  <2>1. ~ alive /\ main' = main /\ serverErrors' = serverErrors
    BY <1>3, <1>14 DEF Expires
  <2> QED
    BY <2>1 DEF Attended, MiddlePlaces
<1> QED
  BY <1>6, <1>7, <1>8, <1>9, <1>10, <1>11, <1>12, <1>13, <1>14
     DEF RegistrationStep, GoroutineStep, Goroutines

-----------------------------------------------------------------------------
(* The theorems.                                                           *)

\* A step of the registration keeps everything.
LEMMA RegistrationOK ==
    ASSUME IInv, RegistrationStep,
           UNCHANGED <<cfg, resourceVars, serverVars, cancelled, session>>
    PROVE  IInv'
<1>1. RegInv
  BY DEF IInv, TypeOK, RegInv
<1>2. RegInv'
  BY <1>1, MainRegisters, UpdaterRegisters, AttemptFailsOK, MainUpdates, UpdaterUpdates,
     ShutdownOK, ExpiresOK DEF RegistrationStep, GoroutineStep, Goroutines
<1>3. main' \in Places
  BY RegistrationMoves DEF RegistrationEdge, IInv, TypeOK, Places
<1>4. TypeOK'
  <2>1. /\ sql' = sql /\ conns' = conns /\ listener' = listener /\ handlers' = handlers
        /\ serving' = serving /\ serveFailed' = serveFailed /\ requests' = requests
    BY DEF resourceVars, serverVars
  <2> QED
    BY <1>2, <1>3, <2>1 DEF IInv, TypeOK, RegInv
<1>5. Attended' /\ Raced'
  BY <1>1, RaceKept DEF IInv
<1> QED
  BY <1>2, <1>4, <1>5, RegistrationHolds DEF IInv, RegInv

\* What the proofs below rest on holds at every step of start-up, error path, operation
\* and shutdown.
THEOREM ServiceInvariant == Spec => []IInv
<1>1. ASSUME IInv, [Next]_appVars PROVE IInv'
  <2>1. CASE /\ RegistrationStep
             /\ UNCHANGED <<cfg, resourceVars, serverVars, cancelled, session>>
    BY <1>1, <2>1, RegistrationOK
  <2>2. CASE MainGoes
    BY <1>1, <2>2, MainTyped, MainHolds, MainServes, MainRegistration, MainCancels DEF IInv
  <2>3. CASE Gone
    BY <1>1, <2>3, GoneOK DEF IInv
  <2>4. CASE ServeFails
    BY <1>1, <2>4, ServeFailsOK
  <2>5. CASE RequestArrives \/ Intercepted \/ Handled \/ SessionEnds
    BY <1>1, <2>5, RequestOK
  <2>6. CASE UNCHANGED appVars
    <3>1. /\ UNCHANGED registrationVars
          /\ main' = main /\ alive' = alive
          /\ sql' = sql /\ conns' = conns /\ listener' = listener /\ handlers' = handlers
          /\ serving' = serving /\ serveFailed' = serveFailed /\ requests' = requests
          /\ cancelled' = cancelled /\ session' = session
      BY <2>6 DEF appVars, registrationVars, resourceVars, serverVars
    <3>2. /\ RegistrationTypeOK' /\ AttemptsLeft' /\ Paid' /\ Passing' /\ EntryOwned'
          /\ Attended' /\ Raced'
      BY <1>1, <3>1, ServerStepKeeps
    <3>3. TypeOK'
      BY <1>1, <3>1, <3>2 DEF IInv, TypeOK
    <3>4. Holding' /\ Serving' /\ Cancelling'
      BY <1>1, <3>1 DEF IInv, Holding, Serving, Cancelling
    <3> QED
      BY <3>2, <3>3, <3>4 DEF IInv
  <2> QED
    BY <1>1, <2>1, <2>2, <2>3, <2>4, <2>5, <2>6
       DEF Next, MainStep, MainGoes, WebrtcAPIPanics, Killed, Exit
<1> QED
  BY InitOK, <1>1, PTL DEF Spec

\* Every variable has its type: RegisterService counts its attempts within their limit,
\* and a request is counted where it is.
THEOREM ServiceTyped == Spec => []TypeOK
<1>1. IInv => TypeOK
  BY DEF IInv
<1> QED
  BY <1>1, ServiceInvariant, PTL

\* handleTTLUpdateError starts a new updater only for a 500: the updaters never outnumber
\* the registration and the 500s, however they interleave.
THEOREM UpdatersPaid == Spec => []UpdatersBounded
<1>1. IInv => UpdatersBounded
  <2> SUFFICES ASSUME IInv PROVE UpdatersBounded
    OBVIOUS
  <2>1. RegInv
    BY DEF IInv, TypeOK, RegInv
  <2> QED
    BY <2>1, RegistrationNumbers DEF RegInv, Paid, UpdatersBounded
<1> QED
  BY <1>1, ServiceInvariant, PTL

\* Without a failure the shutdown's race with the updaters brings the entry back at most
\* once, and only after Shutdown has closed stop.
THEOREM RaceIsBounded == Spec => []EntryReturnsOnce
<1>1. IInv => EntryReturnsOnce
  BY DEF IInv, Raced, EntryReturnsOnce
<1> QED
  BY <1>1, ServiceInvariant, PTL

\* No request outlives its handler, the auth connection or the pool, as GracefulStop waits
\* for it; and until the signal cancels the context its statements get through.
THEOREM RequestsServed == Spec => []RequestsHaveResources
<1>1. IInv => RequestsHaveResources
  <2> SUFFICES ASSUME IInv, InProgress > 0
               PROVE  /\ handlers /\ conns["auth"] = "open" /\ sql
                      /\ main = "running" => Accepts
    BY DEF RequestsHaveResources
  <2>1. handlers /\ main \in ServingPlaces
    BY DEF IInv, Serving, InProgress
  <2>2. main \in AuthPlaces /\ main \in SqlPlaces
    BY <2>1 DEF ServingPlaces, AuthPlaces, SqlPlaces, ListenPlaces, MiddlePlaces
  <2>3. main = "running" => ~ cancelled
    BY DEF IInv, Cancelling, Stopping
  <2> QED
    BY <2>1, <2>2, <2>3 DEF IInv, Holding, Accepts
<1> QED
  BY <1>1, ServiceInvariant, PTL

\* While the process runs every session that ends is filed: stopVideoSession deletes files
\* for want of a job only after the signal has cancelled the context.
THEOREM RecordingsFiled == Spec => []RecordingsKept
<1>1. IInv => RecordingsKept
  BY DEF IInv, Cancelling, RecordingsKept
<1> QED
  BY <1>1, ServiceInvariant, PTL

\* Consul sends clients here only while they can connect: the service is registered after
\* the listener opened, and deregistered before it is closed.
THEOREM PassingReachable == Spec => []ReachableWhilePassing
<1>1. IInv => ReachableWhilePassing
  <2> SUFFICES ASSUME IInv, entry = "passing", alive, ~ stop
               PROVE  listener = "open" \/ serveFailed
    BY DEF ReachableWhilePassing
  <2>1. main \notin Early /\ main \notin Late /\ main # "deregister"
    BY DEF IInv, Passing
  <2>2. main \in Places /\ main # "dead"
    BY DEF IInv, TypeOK, Holding
  <2>3. main \in ListenPlaces
    BY <2>1, <2>2 DEF Places, Early, Late, ListenPlaces, MiddlePlaces
  <2> QED
    BY <2>3 DEF IInv, Holding
<1> QED
  BY <1>1, ServiceInvariant, PTL

\* The process returns with empty hands, at whichever step the start-up turned back: the
\* cleanups each error path names are those of what was taken.
THEOREM ResourcesReturned == Spec => []AllGivenBack
<1>1. IInv => AllGivenBack
  <2> SUFFICES ASSUME IInv, main = "ended"
               PROVE  /\ ~ sql /\ listener # "open" /\ ~ serving
                      /\ \A s \in DOMAIN conns : conns[s] # "open"
    BY DEF AllGivenBack
  <2>1. ~ sql /\ listener # "open"
    BY DEF IInv, Holding, SqlPlaces, AuthPlaces, ListenPlaces, MiddlePlaces
  <2>2. ~ serving
    BY DEF IInv, Serving, ServingPlaces
  <2>3. conns["auth"] # "open" /\ conns["storage"] # "open"
    BY DEF IInv, Holding, AuthPlaces, ListenPlaces, MiddlePlaces
  <2>4. DOMAIN conns = {"auth", "storage"}
    BY DEF IInv, TypeOK
  <2> QED
    BY <2>1, <2>2, <2>3, <2>4
<1> QED
  BY <1>1, ServiceInvariant, PTL

\* If Consul answered every call and no updater met a 500, Shutdown leaves no entry.
THEOREM NoEntryLeft == Spec => []EntryRemoved
<1>1. IInv => EntryRemoved
  BY DEF IInv, EntryOwned, EntryRemoved, Late
<1> QED
  BY <1>1, ServiceInvariant, PTL
=============================================================================
