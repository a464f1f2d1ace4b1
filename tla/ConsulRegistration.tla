------------------------- MODULE ConsulRegistration -------------------------
(***************************************************************************)
(* The entry of this instance in Consul (infra/consul/consul.go and        *)
(* cluster.go): the main goroutine registers it during the start-up and    *)
(* removes it during the shutdown, and the updater goroutines keep its     *)
(* check passing.  An update Consul answers with 500 registers the service *)
(* again, which starts one more updater and updates once more, in the same *)
(* goroutine.                                                              *)
(*                                                                         *)
(* Updaters differ in nothing but where they are, so they are counted.     *)
(* Cluster.Start passes a check that never fails: FailTTL is unreachable.  *)
(* Consul answers 500 to an update of a check it does not know, which is   *)
(* what handleTTLUpdateError relies on.  c.ready is written and never      *)
(* read.                                                                   *)
(***************************************************************************)
EXTENDS Naturals

CONSTANTS
    MaxAttempts,   \* defaultReconnectAttempts
    MaxErrors      \* failures of Consul or of the way to it

ASSUME RegistrationAssumption ==
    /\ MaxAttempts \in Nat \ {0}
    /\ MaxErrors \in Nat

VARIABLES
    alive,         \* does the process exist?
    main,          \* where its main goroutine is
    entry,         \* Consul's entry: "none", "critical" or "passing"
    updaters,      \* how many updaters are where
    attempts,      \* failed attempts of attemptConsulRegistration
    stop,          \* was the stop channel closed?
    serverErrors,  \* updates answered with 500
    errors         \* failures so far

registrationVars == <<alive, main, entry, updaters, attempts, stop, serverErrors, errors>>

UpdaterPlaces == {"wait", "pass", "reregister"}

RegistrationInit ==
    /\ alive = TRUE
    /\ entry = "none"
    /\ updaters = [place \in UpdaterPlaces |-> 0]
    /\ attempts = 0 /\ stop = FALSE
    /\ serverErrors = 0 /\ errors = 0

\* A goroutine goes on, and RegisterService may have started an updater.
Goroutines == {"main", "updater"}

Home(g) == IF g = "main" THEN "registered" ELSE "wait"

At(g, place) ==
    /\ alive
    /\ IF g = "main" THEN main = place ELSE place \in UpdaterPlaces /\ updaters[place] > 0

Moved(from, to) ==
    [p \in UpdaterPlaces |-> IF p = from THEN updaters[p] - 1
                             ELSE IF p = to THEN updaters[p] + 1 ELSE updaters[p]]

Go(g, from, to, started) ==
    /\ At(g, from)
    /\ main' = IF g = "main" THEN to ELSE main
    /\ LET moved == IF g = "main" THEN updaters ELSE Moved(from, to)
       IN  updaters' = [moved EXCEPT !["wait"] = @ + started]

Fails == errors < MaxErrors /\ errors' = errors + 1

\* Consul keeps the status of an entry that is registered again.
Entered == IF entry = "none" THEN "critical" ELSE entry

-----------------------------------------------------------------------------
(* RegisterService, by attemptConsulRegistration ("register") and again by *)
(* handleTTLUpdateError ("reregister").                                    *)

RegisterService(g) ==
    /\ \E from \in {"register", "reregister"} : Go(g, from, "pass", 1)
    /\ entry' = Entered
    /\ UNCHANGED <<alive, attempts, stop, serverErrors, errors>>

\* An attempt fails, before or after Consul has done it; after the last one the
\* start-up is given up.
AttemptFails ==
    /\ Go("main", "register", IF attempts + 1 = MaxAttempts THEN "unregistered" ELSE "register", 0)
    /\ Fails
    /\ attempts' = attempts + 1
    /\ entry' \in {entry, Entered}
    /\ UNCHANGED <<alive, stop, serverErrors>>

\* A failure to register again is only logged: the next update tries once more.
ReregisterFails(g) ==
    /\ Go(g, "reregister", Home(g), 0)
    /\ Fails
    /\ entry' \in {entry, Entered}
    /\ UNCHANGED <<alive, attempts, stop, serverErrors>>

-----------------------------------------------------------------------------
(* updateTTLStatus.                                                        *)

PassTTL(g) ==
    /\ entry # "none"
    /\ Go(g, "pass", Home(g), 0)
    /\ entry' = "passing"
    /\ UNCHANGED <<alive, attempts, stop, serverErrors, errors>>

\* Mutant of PassRefused: handleTTLUpdateError only logs.
PassRefusedLogged(g) ==
    /\ Go(g, "pass", Home(g), 0)
    /\ \/ entry = "none" /\ UNCHANGED errors
       \/ entry # "none" /\ Fails
    /\ UNCHANGED <<alive, entry, attempts, stop, serverErrors>>

\* 500: the check is unknown, or Consul failed.
PassRefused(g) ==
    /\ Go(g, "pass", "reregister", 0)
    /\ \/ entry = "none" /\ UNCHANGED errors
       \/ entry # "none" /\ Fails
    /\ serverErrors' = serverErrors + 1
    /\ UNCHANGED <<alive, entry, attempts, stop>>

\* Mutant of PassLost: every error registers the service again.
PassLostReregisters(g) ==
    /\ Go(g, "pass", "reregister", 0)
    /\ Fails
    /\ entry' \in {entry, IF entry = "none" THEN "none" ELSE "passing"}
    /\ UNCHANGED <<alive, attempts, stop, serverErrors>>

\* Any other error is logged, whether or not Consul got the update.
PassLost(g) ==
    /\ Go(g, "pass", Home(g), 0)
    /\ Fails
    /\ entry' \in {entry, IF entry = "none" THEN "none" ELSE "passing"}
    /\ UNCHANGED <<alive, attempts, stop, serverErrors>>

-----------------------------------------------------------------------------
(* startTTLUpdater: while both cases of its select are ready it may take   *)
(* either one.                                                             *)

Tick ==
    /\ Go("updater", "wait", "pass", 0)
    /\ UNCHANGED <<alive, entry, attempts, stop, serverErrors, errors>>

\* Mutant of UpdaterStops: the end is counted whether or not an updater waits.
UpdaterStopsUnchecked ==
    /\ stop /\ alive
    /\ updaters' = [updaters EXCEPT !["wait"] = @ - 1]
    /\ UNCHANGED <<alive, main, entry, attempts, stop, serverErrors, errors>>

UpdaterStops ==
    /\ stop
    /\ Go("updater", "wait", "done", 0)
    /\ UNCHANGED <<alive, entry, attempts, stop, serverErrors, errors>>

-----------------------------------------------------------------------------
(* Shutdown, then Consul by itself.                                        *)

\* Mutant of CloseStop: Shutdown does not close the channel.
CloseStopForgotten ==
    /\ Go("main", "stop", "deregister", 0)
    /\ UNCHANGED <<alive, entry, attempts, stop, serverErrors, errors>>

CloseStop ==
    /\ Go("main", "stop", "deregister", 0)
    /\ stop' = TRUE
    /\ UNCHANGED <<alive, entry, attempts, serverErrors, errors>>

Deregister ==
    /\ Go("main", "deregister", "close listener", 0)
    /\ \/ entry' = "none" /\ UNCHANGED errors
       \/ entry' \in {entry, "none"} /\ Fails
    /\ UNCHANGED <<alive, attempts, stop, serverErrors>>

\* The check was not updated for its TTL, or critical for the time after which
\* Consul removes the entry.  While the process lives that is a failure: an agent
\* that is restarted, or updates that are late.
Expires ==
    /\ entry # "none"
    /\ entry' \in IF entry = "passing" THEN {"critical"} ELSE {"none"}
    /\ IF alive THEN Fails ELSE UNCHANGED errors
    /\ UNCHANGED <<alive, main, updaters, attempts, stop, serverErrors>>

GoroutineStep(g) ==
    \/ RegisterService(g) \/ ReregisterFails(g)
    \/ PassTTL(g) \/ PassRefused(g) \/ PassLost(g)

RegistrationStep ==
    \/ \E g \in Goroutines : GoroutineStep(g)
    \/ AttemptFails \/ Tick \/ UpdaterStops \/ CloseStop \/ Deregister \/ Expires

-----------------------------------------------------------------------------
(* Properties.                                                             *)

RegistrationTypeOK ==
    /\ alive \in BOOLEAN
    /\ entry \in {"none", "critical", "passing"}
    /\ updaters \in [UpdaterPlaces -> Nat]
    /\ attempts \in 0 .. MaxAttempts /\ stop \in BOOLEAN
    /\ serverErrors \in Nat /\ errors \in 0 .. MaxErrors

\* Updaters multiply only with the 500s: one for the registration and one for each
\* such answer, at most.
UpdatersBounded ==
    updaters["wait"] + updaters["pass"] + updaters["reregister"] <= 1 + serverErrors

\* Shutdown does not wait for the updaters, so one that is inside an update gets a 500 for
\* the check that was just removed and registers the service again.  As long as nothing
\* fails that is the only 500 there is: the entry comes back at most once, and with it
\* one more updater, however often the updaters go round before they see stop.
EntryReturnsOnce ==
    errors = 0 => serverErrors <= 1 /\ (serverErrors = 1 => stop)

\* An instance that has come up is passing again whatever Consul lost or refused,
\* until it is shut down or dies.
Heals ==
    main = "running" ~> entry = "passing" \/ stop \/ ~ alive
=============================================================================
