-------------------------- MODULE ServiceLifecycle --------------------------
(***************************************************************************)
(* Start, service, shutdown and restart of an API or worker process: both  *)
(* versions of runService, the HTTP servers and goroutines they start, and *)
(* the supervisor that restarts a process that ended without being stopped *)
(* (compose.yaml: restart: unless-stopped).                                *)
(*                                                                         *)
(* The processes share nothing but PostgreSQL and RabbitMQ, so a behaviour *)
(* follows one of them.                                                    *)
(***************************************************************************)
EXTENDS ServiceConfig, Sequences

CONSTANTS
    Configs,    \* environments a process may be started with
    NotLoaded,  \* no environment was read yet
    MaxFaults   \* bound: failed dependencies, listeners and maintenance passes

ASSUME LifecycleAssumption ==
    /\ Configs \subseteq Config
    /\ NotLoaded \notin Configs
    /\ MaxFaults \in Nat

VARIABLES
    service,   \* "api" or "worker"
    config,    \* its environment, the same after a restart
    pc,        \* where runService stands
    exitCode,  \* what main will return; 2 while running
    refused,   \* a constructor rejected what Load accepted
    stop,      \* SIGTERM arrived: ctx is done
    ready,     \* health.State
    deadline,  \* shutdownCtx is done
    http,      \* listener of the API: ListenAndServe
    admin,     \* listener of the admin server
    errCh,     \* errCh of the API, adminErrCh of the worker; capacity 1
    part,      \* the long-running goroutines
    request,   \* one ingest request: "none", "active", "answered" or "cut"
    stream,    \* one SSE stream: "none", "open" or "cut"
    faults

processVars == <<pc, exitCode, refused, ready, deadline, http, admin, errCh, part, request, stream>>
lifecycleVars == <<service, config, pc, exitCode, refused, stop, ready, deadline, http, admin,
                   errCh, part, request, stream, faults>>

\* maintenance is "idle" between two passes and "running" during one.
Parts == IF service = "api" THEN {"bridge"} ELSE {"maintenance", "consumer", "relay"}
Returned == {"nil", "error"}

LifecycleInit ==
    /\ service \in {"api", "worker"}
    /\ config = NotLoaded
    /\ pc = "down"
    /\ exitCode = 2
    /\ refused = FALSE
    /\ stop = FALSE
    /\ ready = FALSE
    /\ deadline = FALSE
    /\ http = "off"
    /\ admin = "off"
    /\ errCh = <<>>
    /\ part = [p \in Parts |-> "off"]
    /\ request = "none"
    /\ stream = "none"
    /\ faults = 0

Fault == faults < MaxFaults /\ faults' = faults + 1
NoFault == UNCHANGED faults

Alive == pc \notin {"down", "exited"}

\* runService returns: the deferred calls are next.
Return(code) == pc' = "closing" /\ exitCode' = code

-----------------------------------------------------------------------------
(* Start-up.                                                               *)

\* Bootstrap; ctx may be done before runService looks at it.
Bootstrap ==
    /\ pc = "down"
    /\ ~stop
    /\ config' \in IF config = NotLoaded THEN Configs ELSE {config}
    /\ IF Load(config') THEN pc' = "booted" /\ UNCHANGED exitCode ELSE Return(1)
    /\ NoFault
    /\ UNCHANGED <<service, refused, stop, ready, deadline, http, admin, errCh, part,
                   request, stream>>

\* OpenPool, after the test of ctx.
OpenPool ==
    /\ pc = "booted"
    /\ IF stop THEN Return(0) ELSE pc' = "opened" /\ UNCHANGED exitCode
    /\ NoFault
    /\ UNCHANGED <<service, config, refused, stop, ready, deadline, http, admin, errCh, part,
                   request, stream>>

\* PostgreSQL or RabbitMQ cannot be reached, or ctx ends a call.
DependencyFails ==
    /\ \/ pc = "booted" /\ Fault
       \/ pc = "opened" /\ (Fault \/ (stop /\ NoFault))
    /\ Return(1)
    /\ UNCHANGED <<service, config, refused, stop, ready, deadline, http, admin, errCh, part,
                   request, stream>>

\* The constructors; then the listeners and goroutines are started and the
\* process is ready.  The worker's partitions are ensured before that.
Serve ==
    /\ pc = "opened"
    /\ IF ConstructorsAccept(service, config)
       THEN /\ pc' = "serving"
            /\ ready' = TRUE
            /\ http' = IF service = "api" THEN "open" ELSE "off"
            /\ admin' = "open"
            /\ part' = [p \in Parts |-> "running"]
            /\ UNCHANGED <<exitCode, refused>>
       ELSE /\ Return(1)
            /\ refused' = TRUE
            /\ UNCHANGED <<ready, http, admin, part>>
    /\ NoFault
    /\ UNCHANGED <<service, config, stop, deadline, errCh, request, stream>>

-----------------------------------------------------------------------------
(* Listeners and requests.                                                 *)

\* ListenAndServe of either server fails and its goroutine reports the error.
ListenerFails ==
    /\ Fault
    /\ \/ http = "open" /\ http' = "failed" /\ UNCHANGED admin
       \/ admin = "open" /\ admin' = "failed" /\ UNCHANGED http
    /\ errCh' = IF errCh = <<>> THEN <<"error">> ELSE errCh
    /\ UNCHANGED <<service, config, pc, exitCode, refused, stop, ready, deadline, part, request, stream>>

\* ListenAndServe returns ErrServerClosed; the API's goroutine sends nil.
ListenerClosed ==
    /\ http = "closing"
    /\ errCh = <<>>
    /\ http' = "closed"
    /\ errCh' = <<"nil">>
    /\ NoFault
    /\ UNCHANGED <<service, config, pc, exitCode, refused, stop, ready, deadline, admin, part,
                   request, stream>>

\* A client posts a batch or opens a stream.
RequestArrives ==
    /\ http = "open"
    /\ \/ request = "none" /\ request' = "active" /\ UNCHANGED stream
       \/ stream = "none" /\ stream' = "open" /\ UNCHANGED request
    /\ NoFault
    /\ UNCHANGED <<service, config, pc, exitCode, refused, stop, ready, deadline, http, admin,
                   errCh, part>>

\* The ingest handler answers; IngestPublisher shows that it does.
RequestAnswered ==
    /\ Alive
    /\ request = "active"
    /\ request' = "answered"
    /\ NoFault
    /\ UNCHANGED <<service, config, pc, exitCode, refused, stop, ready, deadline, http, admin,
                   errCh, part, stream>>

\* A stream ends only when its client leaves: ctx is not its context.
StreamLeaves ==
    /\ Alive
    /\ stream = "open"
    /\ stream' = "none"
    /\ NoFault
    /\ UNCHANGED <<service, config, pc, exitCode, refused, stop, ready, deadline, http, admin,
                   errCh, part, request>>

-----------------------------------------------------------------------------
(* Goroutines.                                                             *)

\* ctx for the bridge, groupCtx for the errgroup of the worker.
ContextDone == stop \/ \E p \in Parts : part[p] = "error"

\* Mutant: a failed pass is logged and the goroutine ends.
BugPassError == "nil"

\* What RunPartitionMaintenance returns after a failed pass.
PassError == "error"

\* maintain succeeds, or the next tick starts it.
MaintenancePass ==
    /\ Alive
    /\ "maintenance" \in Parts
    /\ \/ part["maintenance"] = "running" /\ part' = [part EXCEPT !["maintenance"] = "idle"]
       \/ part["maintenance"] = "idle" /\ part' = [part EXCEPT !["maintenance"] = "running"]
    /\ NoFault
    /\ UNCHANGED <<service, config, pc, exitCode, refused, stop, ready, deadline, http, admin,
                   errCh, request, stream>>

\* maintain fails: a database error, or ctx ended during the call.
MaintenanceFails ==
    /\ Alive
    /\ "maintenance" \in Parts
    /\ part["maintenance"] = "running"
    /\ Fault \/ (ContextDone /\ NoFault)
    /\ part' = [part EXCEPT !["maintenance"] = PassError]
    /\ UNCHANGED <<service, config, pc, exitCode, refused, stop, ready, deadline, http, admin,
                   errCh, request, stream>>

\* The bridge, consumer and relay return nil once ctx is done, and so does the
\* wait for the next maintenance pass.
PartReturns(p) ==
    /\ Alive
    /\ ContextDone
    /\ part[p] = IF p = "maintenance" THEN "idle" ELSE "running"
    /\ part' = [part EXCEPT ![p] = "nil"]
    /\ NoFault
    /\ UNCHANGED <<service, config, pc, exitCode, refused, stop, ready, deadline, http, admin,
                   errCh, request, stream>>

AllReturned == \A p \in Parts : part[p] \in Returned

\* group.Wait
GroupCode == IF \E p \in Parts : part[p] = "error" THEN 1 ELSE 0

-----------------------------------------------------------------------------
(* Shutdown.                                                               *)

Sigterm ==
    /\ ~stop
    /\ stop' = TRUE
    /\ NoFault
    /\ UNCHANGED <<service, config, processVars>>

\* case <-ctx.Done(): not ready any more; the API closes its listener and
\* waits in Shutdown, the worker goes on to its admin server.
SelectStop ==
    /\ pc = "serving"
    /\ stop
    /\ ready' = FALSE
    /\ deadline' = FALSE
    /\ http' = IF http = "open" THEN "closing" ELSE http
    /\ pc' = IF service = "api" THEN "http" ELSE "admin"
    /\ NoFault
    /\ UNCHANGED <<service, config, exitCode, refused, stop, admin, errCh, part, request, stream>>

\* case err := <-errCh, of the API and of the worker's admin server.  The API
\* leaves its readiness as it is.
SelectListenerError ==
    /\ pc = "serving"
    /\ errCh # <<>>
    /\ errCh' = <<>>
    /\ Return(IF Head(errCh) = "nil" THEN 0 ELSE 1)
    /\ ready' = IF service = "worker" THEN FALSE ELSE ready
    /\ NoFault
    /\ UNCHANGED <<service, config, refused, stop, deadline, http, admin, part, request, stream>>

\* case err := <-groupDone
SelectGroupDone ==
    /\ pc = "serving"
    /\ service = "worker"
    /\ AllReturned
    /\ ready' = FALSE
    /\ admin' = "closed"
    /\ Return(GroupCode)
    /\ NoFault
    /\ UNCHANGED <<service, config, refused, stop, deadline, http, errCh, part, request, stream>>

\* Mutant: Shutdown is given a context without a limit.
BugShutdownTimeout == FALSE /\ UNCHANGED lifecycleVars

\* shutdownCtx
ShutdownTimeout ==
    /\ pc \in {"http", "admin", "bridge"}
    /\ ~deadline
    /\ deadline' = TRUE
    /\ NoFault
    /\ UNCHANGED <<service, config, pc, exitCode, refused, stop, ready, http, admin, errCh, part,
                   request, stream>>

\* Mutant: Shutdown does not wait for requests.
BugIdle == TRUE

\* net/http's Shutdown returns nil when no request is being served.
Idle == request # "active" /\ stream # "open"

\* The calls that shutdownCtx ends: server.Shutdown, adminServer.Shutdown and
\* the wait for the bridge.
ShutdownStep(at, done, next) ==
    /\ pc = at
    /\ \/ done /\ pc' = next /\ UNCHANGED exitCode
       \/ deadline /\ Return(1)
    /\ NoFault
    /\ UNCHANGED <<service, config, refused, stop, ready, deadline, http, errCh, part, request, stream>>

ShutdownHTTP == ShutdownStep("http", Idle, "admin") /\ UNCHANGED admin

ShutdownAdmin ==
    /\ ShutdownStep("admin", TRUE, IF service = "api" THEN "bridge" ELSE "group")
    /\ admin' = IF admin = "open" THEN "closed" ELSE admin

WaitBridge ==
    /\ service = "api"
    /\ ShutdownStep("bridge", part["bridge"] \in Returned, "errCh")
    /\ UNCHANGED admin

\* err := <-errCh
WaitListener ==
    /\ pc = "errCh"
    /\ errCh # <<>>
    /\ errCh' = <<>>
    /\ Return(IF Head(errCh) = "nil" THEN 0 ELSE 1)
    /\ NoFault
    /\ UNCHANGED <<service, config, refused, stop, ready, deadline, http, admin, part, request, stream>>

\* err := <-groupDone, without a limit of time.
WaitGroup ==
    /\ pc = "group"
    /\ AllReturned
    /\ Return(GroupCode)
    /\ NoFault
    /\ UNCHANGED <<service, config, refused, stop, ready, deadline, http, admin, errCh, part,
                   request, stream>>

\* The deferred Close of the publisher and of the pool, and the end of the
\* process: what is still being served is cut off.
Exit ==
    /\ pc = "closing"
    /\ pc' = "exited"
    /\ ready' = FALSE
    /\ http' = "off"
    /\ admin' = "off"
    /\ errCh' = <<>>
    /\ request' = IF request = "active" THEN "cut" ELSE request
    /\ stream' = IF stream = "open" THEN "cut" ELSE stream
    /\ NoFault
    /\ UNCHANGED <<service, config, exitCode, refused, stop, deadline, part>>

\* restart: unless-stopped
Restart ==
    /\ pc = "exited"
    /\ ~stop
    /\ pc' = "down"
    /\ exitCode' = 2
    /\ deadline' = FALSE
    /\ part' = [p \in Parts |-> "off"]
    /\ request' = "none"
    /\ stream' = "none"
    /\ NoFault
    /\ UNCHANGED <<service, config, refused, stop, ready, http, admin, errCh>>

\* Steps of the process that need no outside event.
ProcessStep ==
    \/ OpenPool \/ Serve
    \/ SelectStop \/ SelectListenerError \/ SelectGroupDone
    \/ ShutdownHTTP \/ ShutdownAdmin \/ WaitBridge \/ WaitListener \/ WaitGroup
    \/ Exit

LifecycleNext ==
    \/ ProcessStep
    \/ DependencyFails
    \/ ListenerFails \/ ListenerClosed
    \/ RequestArrives \/ RequestAnswered \/ StreamLeaves
    \/ MaintenancePass \/ MaintenanceFails
    \/ \E p \in Parts : PartReturns(p)
    \/ Sigterm
    \/ ShutdownTimeout
    \/ Restart

\* The process, its goroutines and its timers run, requests are answered and
\* the supervisor restarts.  A select between ready cases takes each of them in
\* the end; signals, failures and clients are not forced.
LifecycleFairness ==
    /\ WF_lifecycleVars(ProcessStep)
    /\ WF_lifecycleVars(ListenerClosed)
    /\ WF_lifecycleVars(RequestAnswered)
    /\ WF_lifecycleVars(MaintenancePass)
    /\ \A p \in {"bridge", "maintenance", "consumer", "relay"} :
            SF_lifecycleVars(p \in Parts /\ PartReturns(p))
    /\ WF_lifecycleVars(ShutdownTimeout)
    /\ WF_lifecycleVars(Restart)

-----------------------------------------------------------------------------
(* Properties.                                                             *)

\* Exit code 0 can be trusted: the process was asked to stop, every goroutine
\* returned without error, and no request or stream was cut off (runService
\* returns 1 on every other path).
CleanExit ==
    pc = "exited" /\ exitCode = 0 =>
        /\ stop
        /\ request # "cut" /\ stream # "cut"
        /\ \A p \in Parts : part[p] \in {"off", "nil"}

\* What Load accepts under the service's own name, no constructor rejects after
\* connections were opened: the checks of config.go imply theirs.
ConfigChecksAgree == refused => config.service # service

\* A process that is asked to stop ends, with streams open, a maintenance pass
\* running or a listener failed at the same moment.
ExitsWhenStopped == stop ~> pc \in {"down", "exited"}

Failed == http = "failed" \/ admin = "failed" \/ \E p \in Parts : part[p] \in Returned
Healthy == pc = "serving" /\ ready /\ ~Failed

\* One failed goroutine or listener does not leave half a process behind: the
\* process ends, is started again and serves, unless it is stopped meanwhile.
RecoversFromFailure == Failed ~> (Healthy \/ stop)
=============================================================================
