----------------------------- MODULE HTTPServer -----------------------------
(***************************************************************************)
(* The API process around its handlers: the chain of middleware that every *)
(* request goes down and comes back up, and the life of the process, from  *)
(* the goroutine that serves to the deferred calls of main.                *)
(*                                                                         *)
(* net/http is modelled from what the process uses of it: a goroutine per  *)
(* request, Shutdown, which closes the listener and waits for them, and    *)
(* ListenAndServe, which returns as soon as Shutdown has begun.            *)
(***************************************************************************)
EXTENDS FiniteSets

CONSTANTS Request,      \* the requests that clients make
          Address,      \* where they come from
          From,         \* the address of the client of each
          Entry,        \* what SERVER_ALLOWED_IPS may hold
          Covers        \* the addresses of an entry; {} if it does not parse

ASSUME ServerAssumption == /\ From \in [Request -> Address]
                           /\ Covers \in [Entry -> SUBSET Address]

VARIABLES allowedIPs,   \* the configured list
          prompt,       \* the services that a ping reaches in time
          main,         \* the main goroutine
          starter,      \* the goroutine of srv.Start
          err,          \* the variable that the two share
          interrupted,  \* the context of NotifyContext is done
          listening,    \* the server accepts connections
          clients,      \* the Redis clients that the handlers use
          place,        \* where the goroutine of a request is
          down,         \* the services that its health check reports down
          wire,         \* the class of the status that was sent
          status,       \* the one in the statusWriter of Metrics
          counted,      \* the one that Metrics counted
          trouble       \* what may keep its health check from an answer

Service == {"postgres", "redis"}
Class == {"2xx", "4xx", "5xx"}
Inside == {"postgres", "redis", "handler", "written"}

process == <<main, starter, err, interrupted, listening, clients>>
perRequest == <<place, down, wire, status, counted, trouble>>
vars == <<allowedIPs, prompt, main, starter, err, interrupted, listening, clients,
          place, down, wire, status, counted, trouble>>

\* A statusWriter whose status nobody has set.
DefaultStatusUnset == "none"

\* The status that Metrics and Logging assume until a header is written.
DefaultStatus == "2xx"

Init == /\ allowedIPs \in SUBSET Entry
        /\ prompt = Service
        /\ main = "serving" /\ starter = "serving" /\ err = "nil"
        /\ interrupted = FALSE /\ listening = TRUE /\ clients = "open"
        /\ place = [r \in Request |-> "none"]
        /\ down = [r \in Request |-> {}]
        /\ wire = [r \in Request |-> "none"]
        /\ status = [r \in Request |-> DefaultStatus]
        /\ counted = [r \in Request |-> "none"]
        /\ trouble = [r \in Request |-> {}]

InFlight(r) == place[r] \notin {"none", "answered", "cut"}
Gone == main \in {"exited", "failed", "killed"}

----------------------------------------------------------------------------
(* Requests.                                                               *)
Go(r, p) == place' = [place EXCEPT ![r] = p]

\* WriteHeader through the two statusWriters: the last class is remembered,
\* the first one is sent.
SendHeader(r, c) == wire' = [wire EXCEPT ![r] = IF @ = "none" THEN c ELSE @]
WriteHeader(r, c) == SendHeader(r, c) /\ status' = [status EXCEPT ![r] = c]

\* SetupRoutes installs the allowlist by the length of the configured list.
Guarding == allowedIPs # {}

\* The entries that did not parse were dropped; a client whose own address
\* does not parse is covered by none.
Listed(r) == \E e \in allowedIPs : From[r] \in Covers[e]

Accept(r) ==
  /\ listening /\ ~Gone /\ place[r] = "none"
  /\ Go(r, "accepted")
  /\ UNCHANGED <<allowedIPs, prompt, process, down, wire, status, counted, trouble>>

\* Recovery, Metrics, otelhttp, Logging and IPAllowlist, down to the router.
Admit(r) ==
  /\ place[r] = "accepted"
  /\ \/ /\ Guarding /\ ~Listed(r)
        /\ WriteHeader(r, "4xx") /\ Go(r, "returning") /\ UNCHANGED trouble
     \/ /\ Guarding => Listed(r)
        /\ \/ Go(r, "postgres") /\ trouble' = [trouble EXCEPT ![r] = Service \ prompt]
           \/ Go(r, "handler") /\ UNCHANGED trouble
        /\ UNCHANGED <<wire, status>>
  /\ UNCHANGED <<allowedIPs, prompt, process, down, counted>>

\* HealthHandler.Check has three seconds, and the client's patience, for both
\* pings: one that finds its service late or its client gone may fail, and
\* what the first of them uses up is missing from the second.
PingPostgres(r) ==
  /\ place[r] = "postgres"
  /\ Go(r, "redis")
  /\ \/ UNCHANGED down
     \/ /\ "postgres" \notin prompt \/ "client" \in trouble[r]
        /\ \E late \in SUBSET Service : down' = [down EXCEPT ![r] = late]
  /\ UNCHANGED <<allowedIPs, prompt, process, wire, status, counted, trouble>>

PingRedis(r) ==
  /\ place[r] = "redis"
  /\ Go(r, "returning")
  /\ \/ clients = "open" /\ UNCHANGED down
     \/ /\ clients = "closed" \/ "redis" \notin prompt \/ "client" \in trouble[r]
        /\ down' = [down EXCEPT ![r] = @ \cup {"redis"}]
  /\ WriteHeader(r, IF down'[r] = {} THEN "2xx" ELSE "5xx")
  /\ UNCHANGED <<allowedIPs, prompt, process, counted, trouble>>

\* Any other handler writes its answer ...
Answer(r) ==
  /\ place[r] = "handler"
  /\ Go(r, "written")
  /\ \E c \in Class : WriteHeader(r, c)
  /\ UNCHANGED <<allowedIPs, prompt, process, down, counted, trouble>>

\* ... or panics, before it or after it.
Panic(r) ==
  /\ place[r] \in {"handler", "written"}
  /\ Go(r, "unwinding")
  /\ UNCHANGED <<allowedIPs, prompt, process, down, wire, status, counted, trouble>>

\* Back up through Logging and Metrics.
Return(r) ==
  /\ place[r] \in {"written", "returning"}
  /\ Go(r, "answered")
  /\ counted' = [counted EXCEPT ![r] = status[r]]
  /\ UNCHANGED <<allowedIPs, prompt, process, down, wire, status, trouble>>

\* Recovery inside of Metrics: what it writes is what is counted.
RecoverInside(r) ==
  /\ place[r] = "unwinding"
  /\ Go(r, "answered")
  /\ WriteHeader(r, "5xx") /\ counted' = [counted EXCEPT ![r] = "5xx"]
  /\ UNCHANGED <<allowedIPs, prompt, process, down, trouble>>

\* A panic passes Logging and Metrics by; Recovery writes to the bare writer.
Recover(r) ==
  /\ place[r] = "unwinding"
  /\ Go(r, "answered")
  /\ SendHeader(r, "5xx")
  /\ UNCHANGED <<allowedIPs, prompt, process, down, status, counted, trouble>>

Checking(r) == place[r] \in {"postgres", "redis"}

\* A service goes down, slows down or has no connection left in its pool, or
\* it is back.
Flap(s) ==
  /\ prompt' = IF s \in prompt THEN prompt \ {s} ELSE prompt \cup {s}
  /\ trouble' = [r \in Request |-> IF Checking(r) THEN trouble[r] \cup (Service \ prompt')
                                                  ELSE trouble[r]]
  /\ UNCHANGED <<allowedIPs, process, place, down, wire, status, counted>>

\* The client of a health check disconnects, which cancels its context.
HangUp(r) ==
  /\ Checking(r)
  /\ trouble' = [trouble EXCEPT ![r] = @ \cup {"client"}]
  /\ UNCHANGED <<allowedIPs, prompt, process, place, down, wire, status, counted>>

----------------------------------------------------------------------------
(* The process.                                                            *)
Die(how) == /\ main' = how
            /\ place' = [r \in Request |-> IF InFlight(r) THEN "cut" ELSE place[r]]

\* SIGINT, which NotifyContext catches for as long as main runs ...
Interrupt ==
  /\ ~Gone /\ ~interrupted
  /\ interrupted' = TRUE
  /\ UNCHANGED <<allowedIPs, prompt, main, starter, err, listening, clients, perRequest>>

\* ... and SIGTERM, which nothing catches.
Terminate ==
  /\ ~Gone /\ Die("killed")
  /\ UNCHANGED <<allowedIPs, prompt, starter, err, interrupted, listening, clients,
                 down, wire, status, counted, trouble>>

\* The clients closed by main's own code, in front of the deferred calls.
BeginShutdownClosing ==
  /\ main = "serving" /\ interrupted
  /\ main' = "shutting" /\ listening' = FALSE /\ clients' = "closed"
  /\ UNCHANGED <<allowedIPs, prompt, starter, err, interrupted, perRequest>>

BeginShutdown ==
  /\ main = "serving" /\ interrupted
  /\ main' = "shutting" /\ listening' = FALSE
  /\ UNCHANGED <<allowedIPs, prompt, starter, err, interrupted, clients, perRequest>>

\* Shutdown finds no connection that is not idle.
Drained ==
  /\ main = "shutting" /\ \A r \in Request : ~InFlight(r)
  /\ main' = "drained" /\ err' = "nil"
  /\ UNCHANGED <<allowedIPs, prompt, starter, interrupted, listening, clients, perRequest>>

\* Shutdown without a deadline.
ForcedNever == FALSE /\ UNCHANGED vars

\* The thirty seconds are over.
Forced ==
  /\ main = "shutting"
  /\ main' = "forced" /\ err' = "deadline"
  /\ UNCHANGED <<allowedIPs, prompt, starter, interrupted, listening, clients, perRequest>>

\* The error of Shutdown is logged, and main goes on.
CheckLogged ==
  /\ main \in {"drained", "forced"}
  /\ main' = "closing"
  /\ UNCHANGED <<allowedIPs, prompt, starter, err, interrupted, listening, clients, perRequest>>

\* err # nil: main finds what it assigned, or what the goroutine of Start has
\* assigned since.
Check ==
  /\ main \in {"drained", "forced"}
  /\ \E e \in {err, IF main = "drained" THEN "nil" ELSE "deadline"} :
       \/ e = "nil" /\ main' = "closing" /\ UNCHANGED place
       \/ e # "nil" /\ Die("failed")
  /\ UNCHANGED <<allowedIPs, prompt, starter, err, interrupted, listening, clients,
                 down, wire, status, counted, trouble>>

\* The deferred calls.
Close ==
  /\ main = "closing"
  /\ main' = "leaving" /\ clients' = "closed"
  /\ UNCHANGED <<allowedIPs, prompt, starter, err, interrupted, listening, perRequest>>

Exit ==
  /\ main = "leaving" /\ Die("exited")
  /\ UNCHANGED <<allowedIPs, prompt, starter, err, interrupted, listening, clients,
                 down, wire, status, counted, trouble>>

\* ListenAndServe returns ErrServerClosed, or the listener failed.
StartReturns ==
  /\ ~Gone /\ starter = "serving"
  /\ starter' = IF listening THEN "failed" ELSE "closed"
  /\ err' = IF listening THEN "listen" ELSE "closed"
  /\ UNCHANGED <<allowedIPs, prompt, main, interrupted, listening, clients, perRequest>>

\* Its two reads of err, before or after main has overwritten it.
StartChecks ==
  /\ ~Gone /\ starter \in {"closed", "failed"}
  /\ starter' = "done"
  /\ \E e, f \in {err, IF starter = "failed" THEN "listen" ELSE "closed"} :
       \/ (e = "nil" \/ f = "closed") /\ UNCHANGED <<main, place>>
       \/ e # "nil" /\ f # "closed" /\ Die("failed")
  /\ UNCHANGED <<allowedIPs, prompt, err, interrupted, listening, clients,
                 down, wire, status, counted, trouble>>

Next == \/ \E r \in Request : \/ Accept(r) \/ Admit(r) \/ PingPostgres(r) \/ PingRedis(r)
                              \/ Answer(r) \/ Panic(r) \/ Return(r) \/ Recover(r)
                              \/ HangUp(r)
        \/ \E s \in Service : Flap(s)
        \/ Interrupt \/ Terminate \/ BeginShutdown \/ Drained \/ Forced \/ Check
        \/ Close \/ Exit \/ StartReturns \/ StartChecks

Spec == Init /\ [][Next]_vars

\* main goes on and its timer runs; nothing is asked of the handlers.
FairSpec == /\ Spec
            /\ WF_vars(BeginShutdown) /\ WF_vars(Forced) /\ WF_vars(Check)
            /\ WF_vars(Close) /\ WF_vars(Exit)

----------------------------------------------------------------------------
TypeOK ==
  /\ allowedIPs \subseteq Entry /\ prompt \subseteq Service
  /\ main \in {"serving", "shutting", "drained", "forced", "closing", "leaving",
               "exited", "failed", "killed"}
  /\ starter \in {"serving", "closed", "failed", "done"}
  /\ err \in {"nil", "closed", "listen", "deadline"}
  /\ interrupted \in BOOLEAN /\ listening \in BOOLEAN
  /\ clients \in {"open", "closed"}
  /\ place \in [Request -> {"none", "accepted", "returning", "unwinding", "answered", "cut"}
                           \cup Inside]
  /\ down \in [Request -> SUBSET Service]
  /\ trouble \in [Request -> SUBSET (Service \cup {"client"})]
  /\ wire \in [Request -> Class \cup {"none"}] /\ status \in [Request -> Class]
  /\ counted \in [Request -> Class \cup {"none"}]

\* A process that exits with 0 has answered every request that it accepted,
\* those that panicked included, whichever value of the shared err was read.
CleanExit == main = "exited" => \A r \in Request : place[r] \in {"none", "answered"}

\* A health check reports a service down only for a cause outside of the
\* process that met this very check: Postgres, when Postgres was late or the
\* client gone, whatever became of Redis; Redis, when one of the three was.  It
\* is never the process itself that has closed the client under the check.
DegradedIsTrouble ==
  \A r \in Request :
    /\ "postgres" \in down[r] => trouble[r] \cap {"postgres", "client"} # {}
    /\ "redis" \in down[r] => trouble[r] # {}

\* What Metrics counts is what the client was sent.
CountedIsSent == \A r \in Request : counted[r] \in {"none", wire[r]}

\* After a SIGINT the process ends, however long the handlers take.
Stops == interrupted ~> Gone
=============================================================================
