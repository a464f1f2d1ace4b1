--------------------------- MODULE ResolverWatch ----------------------------
(***************************************************************************)
(* The Consul resolver of the outgoing gRPC connections                    *)
(* (infra/resolver/builder.go and consul.go): three goroutines pass the    *)
(* list of a service's instances from Consul's catalogue to the            *)
(* connection.                                                             *)
(*                                                                         *)
(*    fetcher -- res --> watcher -- out --> populateEndpoints              *)
(*                                                                         *)
(* Both channels are unbuffered: a value changes hands in one step of two  *)
(* goroutines.  Close cancels the context that the last two watch; the     *)
(* fetcher is told by the watcher, which closes quit.                      *)
(***************************************************************************)
EXTENDS Naturals, Sequences, FiniteSets

CONSTANTS
    Catalogue,      \* the successive contents of the catalogue: lists of entries
    Limit,          \* tgt.Limit, 0 for none
    MaxResets,      \* how often Consul may lose its index
    ClientCanFail   \* may api.NewClient refuse its configuration?

\* A service entry without an address of its own has that of its node.
NoAddress == 0

Entries == [address : Nat, node : Nat \ {NoAddress}, id : STRING]

ASSUME CatalogueAssumption ==
    /\ Catalogue \in Seq(Seq(Entries)) \ {<<>>}
    /\ Limit \in Nat /\ MaxResets \in Nat
    /\ ClientCanFail \in BOOLEAN

VARIABLES
    version,    \* which content the catalogue has now
    index,      \* Consul's index of the service
    resets,     \* how often the index was lost
    client,     \* the entry of consulClients: "none", "ok", or "nil" after an error
    context,    \* the resolver's context: "unbuilt", "live" or "done"
    fetcher, lastIndex, fetched,   \* the query loop and the list it holds
    watcher, held, quit,           \* the loop of watchConsulService
    populate, input,               \* the loop of populateEndpoints
    applied,    \* the content the connection was given last, 0 for none
    panicked    \* did a goroutine panic and end the process?

consulVars   == <<version, index, resets>>
buildVars    == <<client, context>>
fetcherVars  == <<fetcher, lastIndex, fetched>>
watcherVars  == <<watcher, held, quit>>
populateVars == <<populate, input, applied>>
resolverVars == <<consulVars, buildVars, fetcherVars, watcherVars, populateVars, panicked>>

\* The list the goroutines pass on for content v: address (its own or the node's)
\* and id, and of these the first Limit.  They hold v itself.  Neither the sort
\* before UpdateState nor the order of Consul's answer reaches the balancer, which
\* keeps its connections in a map.
Endpoint(e) == [addr |-> IF e.address = NoAddress THEN e.node ELSE e.address, id |-> e.id]

Endpoints(v) ==
    LET ss == IF v = 0 THEN <<>> ELSE Catalogue[v]
    IN  {Endpoint(ss[i]) : i \in {k \in DOMAIN ss : Limit = 0 \/ k <= Limit}}

ResolverInit ==
    /\ version = 1 /\ index = 1 /\ resets = 0
    /\ client = "none" /\ context = "unbuilt"
    /\ fetcher = "off" /\ lastIndex = 0 /\ fetched = 0
    /\ watcher = "off" /\ held = 0 /\ quit = FALSE
    /\ populate = "off" /\ input = 0 /\ applied = 0
    /\ panicked = FALSE

-----------------------------------------------------------------------------
(* Consul, as the resolver sees it.                                        *)

\* An instance registers, deregisters or changes its health.
CatalogueChanges ==
    /\ version < Len(Catalogue)
    /\ version' = version + 1
    /\ index' = index + 1
    /\ UNCHANGED <<resets, buildVars, fetcherVars, watcherVars, populateVars, panicked>>

\* The servers are restored or replaced: the content stays, the index starts again.
IndexLost ==
    /\ resets < MaxResets
    /\ resets' = resets + 1
    /\ index' = 1
    /\ UNCHANGED <<version, buildVars, fetcherVars, watcherVars, populateVars, panicked>>

-----------------------------------------------------------------------------
(* Build and Close.                                                        *)

\* Build with a client of this address, a stored one or a new one.  A stored nil
\* is loaded like any other.
Build ==
    /\ context = "unbuilt" /\ ~ panicked
    /\ client' = IF client = "none" THEN "ok" ELSE client
    /\ context' = "live"
    /\ fetcher' = "query" /\ watcher' = "check" /\ populate' = "select"
    /\ UNCHANGED <<consulVars, lastIndex, fetched, held, quit, input, applied, panicked>>

\* api.NewClient fails: its nil client is stored before the error is returned.
BuildFails ==
    /\ context = "unbuilt" /\ ClientCanFail
    /\ client = "none" /\ client' = "nil"
    /\ UNCHANGED <<consulVars, context, fetcherVars, watcherVars, populateVars, panicked>>

\* gRPC closes the resolver when the connection is closed or falls idle.
Close ==
    /\ context = "live" /\ ~ panicked
    /\ context' = "done"
    /\ UNCHANGED <<consulVars, client, fetcherVars, watcherVars, populateVars, panicked>>

-----------------------------------------------------------------------------
(* The fetcher.                                                            *)

\* Mutant of QueryAnswered: only an index that changed is passed on.
QueryAnsweredIfChanged ==
    /\ fetcher = "query" /\ client = "ok" /\ ~ panicked
    /\ fetcher' = IF lastIndex = index THEN "query" ELSE "send"
    /\ lastIndex' = index
    /\ fetched' = version
    /\ UNCHANGED <<consulVars, buildVars, watcherVars, populateVars, panicked>>

\* Mutant of QueryAnswered: AllowStale, any server answers with what it has.
QueryAnsweredStale ==
    /\ fetcher = "query" /\ client = "ok" /\ ~ panicked
    /\ fetcher' = "send"
    /\ lastIndex' = index
    /\ fetched' \in 1 .. version
    /\ UNCHANGED <<consulVars, buildVars, watcherVars, populateVars, panicked>>

\* The blocking query returns once the index has passed WaitIndex and, whatever
\* the index is, after WaitTime: one of the two may happen at any moment.
QueryAnswered ==
    /\ fetcher = "query" /\ client = "ok" /\ ~ panicked
    /\ fetcher' = "send"
    /\ lastIndex' = index
    /\ fetched' = version
    /\ UNCHANGED <<consulVars, buildVars, watcherVars, populateVars, panicked>>

\* An error: the end if quit is closed, else a pause and the next attempt.
QueryFails ==
    /\ fetcher = "query" /\ client = "ok" /\ ~ panicked
    /\ fetcher' = IF quit THEN "done" ELSE "backoff"
    /\ UNCHANGED <<consulVars, buildVars, lastIndex, fetched, watcherVars, populateVars, panicked>>

\* A query through the nil client.
QueryPanics ==
    /\ fetcher = "query" /\ client = "nil" /\ ~ panicked
    /\ panicked' = TRUE
    /\ UNCHANGED <<consulVars, buildVars, fetcherVars, watcherVars, populateVars>>

BackoffEnds ==
    /\ fetcher = "backoff" /\ ~ panicked
    /\ fetcher' = "query"
    /\ UNCHANGED <<consulVars, buildVars, lastIndex, fetched, watcherVars, populateVars, panicked>>

\* Mutant of FetcherQuits: the send does not watch quit, only a failed query does.
FetcherNeverQuits == FALSE /\ UNCHANGED resolverVars

\* case <-quit
FetcherQuits ==
    /\ fetcher = "send" /\ quit /\ ~ panicked
    /\ fetcher' = "done"
    /\ UNCHANGED <<consulVars, buildVars, lastIndex, fetched, watcherVars, populateVars, panicked>>

-----------------------------------------------------------------------------
(* watchConsulService.                                                     *)

\* Mutant of CheckContext: it returns without having closed quit.
CheckContextQuietly ==
    /\ watcher = "check" /\ ~ panicked
    /\ watcher' = IF context = "done" THEN "done" ELSE "select"
    /\ UNCHANGED <<consulVars, buildVars, fetcherVars, held, quit, populateVars, panicked>>

\* if ctx.Err() != nil
CheckContext ==
    /\ watcher = "check" /\ ~ panicked
    /\ watcher' = IF context = "done" THEN "done" ELSE "select"
    /\ quit' = (context = "done")
    /\ UNCHANGED <<consulVars, buildVars, fetcherVars, held, populateVars, panicked>>

\* case ee := <-res
Receive ==
    /\ watcher = "select" /\ fetcher = "send" /\ ~ panicked
    /\ held' = fetched
    /\ watcher' = "forward"
    /\ fetcher' = "query"
    /\ UNCHANGED <<consulVars, buildVars, lastIndex, fetched, quit, populateVars, panicked>>

\* case <-ctx.Done()
WatcherQuits ==
    /\ watcher = "select" /\ context = "done" /\ ~ panicked
    /\ watcher' = "done"
    /\ quit' = TRUE
    /\ UNCHANGED <<consulVars, buildVars, fetcherVars, held, populateVars, panicked>>

\* out <- ee, which nothing but populateEndpoints can end
Forward ==
    /\ watcher = "forward" /\ populate = "select" /\ ~ panicked
    /\ input' = held
    /\ populate' = "update"
    /\ watcher' = "check"
    /\ UNCHANGED <<consulVars, buildVars, fetcherVars, held, quit, applied, panicked>>

-----------------------------------------------------------------------------
(* populateEndpoints.                                                      *)

UpdateState ==
    /\ populate = "update" /\ ~ panicked
    /\ populate' = "select"
    /\ applied' = input
    /\ UNCHANGED <<consulVars, buildVars, fetcherVars, watcherVars, input, panicked>>

\* An update the connection refuses is logged and dropped.
UpdateRefused ==
    /\ populate = "update" /\ ~ panicked
    /\ populate' = "select"
    /\ UNCHANGED <<consulVars, buildVars, fetcherVars, watcherVars, input, applied, panicked>>

PopulateQuits ==
    /\ populate = "select" /\ context = "done" /\ ~ panicked
    /\ populate' = "done"
    /\ UNCHANGED <<consulVars, buildVars, fetcherVars, watcherVars, input, applied, panicked>>

-----------------------------------------------------------------------------

\* Every step but an accepted update, which the balancer answers.
ResolverStep ==
    \/ CatalogueChanges \/ IndexLost
    \/ Build \/ BuildFails \/ Close
    \/ QueryAnswered \/ QueryFails \/ QueryPanics \/ BackoffEnds \/ FetcherQuits
    \/ CheckContext \/ Receive \/ WatcherQuits \/ Forward
    \/ UpdateRefused \/ PopulateQuits

\* The goroutines go on as long as they can.  Consul answers and the connection
\* accepts an update again and again, as often as they may fail in between.
ResolverFairness ==
    /\ WF_resolverVars(BackoffEnds) /\ WF_resolverVars(FetcherQuits)
    /\ WF_resolverVars(QueryPanics)
    /\ SF_resolverVars(QueryAnswered)
    /\ WF_resolverVars(CheckContext) /\ WF_resolverVars(Receive)
    /\ WF_resolverVars(WatcherQuits) /\ WF_resolverVars(Forward)
    /\ WF_resolverVars(PopulateQuits)
    /\ SF_resolverVars(UpdateState)

-----------------------------------------------------------------------------
(* Properties.                                                             *)

ResolverTypeOK ==
    /\ version \in DOMAIN Catalogue /\ index \in Nat /\ resets \in 0 .. MaxResets
    /\ client \in {"none", "ok", "nil"} /\ context \in {"unbuilt", "live", "done"}
    /\ fetcher \in {"off", "query", "backoff", "send", "done"} /\ lastIndex \in Nat
    /\ watcher \in {"off", "check", "select", "forward", "done"} /\ quit \in BOOLEAN
    /\ populate \in {"off", "select", "update", "done"}
    /\ {fetched, held, input, applied} \subseteq 0 .. Len(Catalogue)
    /\ panicked \in BOOLEAN

\* The connection never goes back to an older list, whatever the three goroutines
\* still hold when the catalogue changes.
NeverBack == [][applied' >= applied]_applied

\* A goroutine that waits for another has it to wait for, or a closed channel that ends
\* the wait: the fetcher's send and the two receives never outlive the other side, and
\* the watcher's send, which watches nothing, can only after Close.
WaitsAnswered ==
    /\ fetcher = "send" /\ watcher = "done" => quit
    /\ watcher = "select" /\ fetcher = "done" => context = "done"
    /\ populate = "select" /\ watcher = "done" => context = "done"
    /\ watcher = "forward" /\ populate = "done" => context = "done"

\* The connection ends up with the endpoints the catalogue has now, although
\* queries fail, updates are refused and the index may start again: an unchanged
\* list is sent again after every query, and that is what repairs a lost update.
Converges ==
    context = "live" ~> applied = version \/ context = "done" \/ panicked

\* Once the watcher has closed quit the fetcher returns, wherever it is.
QuitEndsFetcher == quit ~> fetcher = "done" \/ panicked

\* consul.go: quit is closed "so the goroutine returns and doesn't leak".  After
\* Close every goroutine of the resolver ends.
CloseEndsAll ==
    context = "done" ~> panicked \/ (fetcher = "done" /\ watcher = "done" /\ populate = "done")
=============================================================================
