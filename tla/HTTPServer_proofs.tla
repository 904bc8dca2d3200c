------------------------- MODULE HTTPServer_proofs -------------------------
(***************************************************************************)
(* Theorems about HTTPServer: the counters, the health check and the exit  *)
(* code, for any requests, addresses and allowlists.                       *)
(***************************************************************************)
EXTENDS HTTPServer, TLAPS

\* Once Shutdown has drained the server nothing is in flight, and nothing
\* can come; only the end of the process cuts a request off.
Quiet ==
  /\ main \notin {"serving", "exited", "failed", "killed"} => ~listening
  /\ main \in {"drained", "closing", "leaving", "exited"} \/ clients = "closed" =>
       ~listening /\ \A r \in Request : ~InFlight(r)
  /\ main = "forced" => err # "nil"
  /\ main \notin {"failed", "killed"} => \A r \in Request : place[r] # "cut"

\* What a request has written so far, by its place.
Written ==
  \A r \in Request :
    /\ place[r] \in {"none", "accepted", "postgres", "redis", "handler"} => wire[r] = "none"
    /\ place[r] \in {"none", "accepted", "postgres"} => down[r] = {}
    /\ place[r] \in {"written", "returning"} => status[r] = wire[r]
    /\ place[r] \notin {"answered"} => counted[r] = "none"

\* A check that is under way has met every service that is late now.
Noticed == \A r \in Request : Checking(r) => Service \ prompt \subseteq trouble[r]

IInv == /\ TypeOK /\ DegradedIsTrouble /\ CountedIsSent
        /\ Quiet /\ Written /\ Noticed

----------------------------------------------------------------------------
LEMMA InitInv == Init => IInv
<1> SUFFICES ASSUME Init PROVE IInv
  OBVIOUS
<1>1. \A r \in Request : /\ place[r] = "none" /\ wire[r] = "none" /\ counted[r] = "none"
                         /\ down[r] = {}
  BY DEF Init
<1>2. TypeOK
  BY DEF Init, TypeOK, Service, Class, DefaultStatus
<1>3. DegradedIsTrouble /\ CountedIsSent
  BY <1>1 DEF DegradedIsTrouble, CountedIsSent, Inside
<1>4. Quiet /\ Written /\ Noticed
  BY <1>1 DEF Init, Quiet, Written, Noticed, InFlight, Checking
<1> QED BY <1>2, <1>3, <1>4 DEF IInv

\* A request that is not yet written moves on, or is turned away.
LEMMA AdmitInv ==
  ASSUME IInv, NEW r \in Request, Accept(r) \/ Admit(r)
  PROVE  IInv'
<1>0. UNCHANGED <<allowedIPs, prompt, process, down, counted>>
  BY DEF Accept, Admit
<1>1. TypeOK'
  <2>1. CASE Accept(r)
    BY <2>1 DEF Accept, Go, IInv, TypeOK, process
  <2>2. CASE Admit(r)
    <3>1. place' \in [Request -> {"none", "accepted", "returning", "unwinding", "answered", "cut"} \cup Inside]
      BY <2>2 DEF Admit, Go, IInv, TypeOK, Inside
    <3>2. wire' \in [Request -> Class \cup {"none"}] /\ status' \in [Request -> Class]
      BY <2>2 DEF Admit, WriteHeader, SendHeader, IInv, TypeOK, Class
    <3>3. trouble' \in [Request -> SUBSET (Service \cup {"client"})]
      BY <2>2 DEF Admit, IInv, TypeOK, Service
    <3> QED BY <1>0, <3>1, <3>2, <3>3 DEF IInv, TypeOK, process
  <2> QED BY <2>1, <2>2
<1>2. DegradedIsTrouble' /\ Noticed'
  BY <1>0 DEF Accept, Admit, Go, IInv, TypeOK, DegradedIsTrouble, Noticed, Written, Checking
<1>3. Quiet'
  BY <1>0 DEF Accept, Admit, Go, IInv, TypeOK, Quiet, InFlight, process, Gone
<1>4. Written' /\ CountedIsSent'
  BY <1>0 DEF Accept, Admit, Go, IInv, TypeOK, Written, CountedIsSent, WriteHeader, SendHeader
<1> QED BY <1>1, <1>2, <1>3, <1>4 DEF IInv

\* The health check, whose client is open while the request is in flight.
LEMMA PingInv ==
  ASSUME IInv, NEW r \in Request, PingPostgres(r) \/ PingRedis(r)
  PROVE  IInv'
<1>0. UNCHANGED <<allowedIPs, prompt, process, counted, trouble>> /\ Checking(r)
  BY DEF PingPostgres, PingRedis, Checking
<1>1. /\ place' \in [Request -> {"none", "accepted", "returning", "unwinding", "answered", "cut"} \cup Inside]
      /\ place'[r] \in {"redis", "returning"}
      /\ \A q \in Request : q # r => place'[q] = place[q]
  BY DEF PingPostgres, PingRedis, Go, IInv, TypeOK, Inside
<1>2. TypeOK'
  <2>1. down' \in [Request -> SUBSET Service]
    <3>1. \E d \in SUBSET Service : down' = [down EXCEPT ![r] = d]
      <4>1. CASE PingPostgres(r)
        <5>1. CASE UNCHANGED down
          <6>1. down' = [down EXCEPT ![r] = down[r]] /\ down[r] \in SUBSET Service
            BY <5>1 DEF IInv, TypeOK
          <6> QED BY <6>1
        <5>2. CASE \E late \in SUBSET Service : down' = [down EXCEPT ![r] = late]
          BY <5>2
        <5> QED BY <4>1, <5>1, <5>2 DEF PingPostgres
      <4>2. CASE PingRedis(r)
        <5>1. \E d \in {{}, {"redis"}} : down' = [down EXCEPT ![r] = down[r] \cup d]
          <6>1. CASE UNCHANGED down
            <7>1. down' = [down EXCEPT ![r] = down[r] \cup {}]
              BY <6>1 DEF IInv, TypeOK
            <7> QED BY <7>1
          <6>2. CASE down' = [down EXCEPT ![r] = @ \cup {"redis"}]
            BY <6>2
          <6> QED BY <4>2, <6>1, <6>2 DEF PingRedis
        <5>2. \A d \in {{}, {"redis"}} : down[r] \cup d \in SUBSET Service
          BY DEF IInv, TypeOK, Service
        <5> QED BY <5>1, <5>2
      <4> QED BY <4>1, <4>2
    <3> QED BY <3>1 DEF IInv, TypeOK
  <2>2. wire' \in [Request -> Class \cup {"none"}] /\ status' \in [Request -> Class]
    BY DEF PingPostgres, PingRedis, WriteHeader, SendHeader, IInv, TypeOK, Class
  <2> QED BY <1>0, <1>1, <2>1, <2>2 DEF IInv, TypeOK, process
<1>3. clients = "open"
  BY <1>0 DEF IInv, TypeOK, Quiet, InFlight, Checking
<1>4. DegradedIsTrouble' /\ Noticed'
  <2>1. Noticed'
    BY <1>0, <1>1 DEF IInv, Noticed, Checking
  <2>2. \A q \in Request : q # r => down'[q] = down[q]
    BY DEF PingPostgres, PingRedis, IInv, TypeOK
  <2>3. /\ "postgres" \in down'[r] => trouble[r] \cap {"postgres", "client"} # {}
        /\ "redis" \in down'[r] => trouble[r] # {}
    <3>0. /\ "postgres" \notin prompt => "postgres" \in trouble[r]
          /\ "redis" \notin prompt => "redis" \in trouble[r]
      BY <1>0 DEF IInv, Noticed, Service
    <3>1. CASE PingPostgres(r)
      BY <3>0, <3>1 DEF PingPostgres, IInv, TypeOK, DegradedIsTrouble
    <3>2. CASE PingRedis(r)
      BY <1>3, <3>0, <3>2 DEF PingRedis, IInv, TypeOK, DegradedIsTrouble
    <3> QED BY <3>1, <3>2
  <2> QED BY <1>0, <2>1, <2>2, <2>3 DEF IInv, DegradedIsTrouble
<1>5. Quiet'
  BY <1>0, <1>1 DEF IInv, TypeOK, Quiet, InFlight, Checking, process
<1>6. Written' /\ CountedIsSent'
  BY <1>0 DEF PingPostgres, PingRedis, Go, IInv, TypeOK, Written, CountedIsSent, WriteHeader,
              SendHeader, Checking
<1> QED BY <1>2, <1>4, <1>5, <1>6 DEF IInv

\* The other handlers, and the way back up.
LEMMA HandlerInv ==
  ASSUME IInv, NEW r \in Request, Answer(r) \/ Panic(r) \/ Return(r) \/ Recover(r)
  PROVE  IInv'
<1>0. /\ UNCHANGED <<allowedIPs, prompt, process, down, trouble>>
      /\ place[r] \in {"handler", "written", "returning", "unwinding"}
  BY DEF Answer, Panic, Return, Recover
<1>1. /\ place' \in [Request -> {"none", "accepted", "returning", "unwinding", "answered", "cut"} \cup Inside]
      /\ place'[r] \in {"written", "unwinding", "answered"}
      /\ place'[r] = "written" => place[r] = "handler"
      /\ \A q \in Request : q # r => place'[q] = place[q]
  BY DEF Answer, Panic, Return, Recover, Go, IInv, TypeOK, Inside
<1>2. TypeOK'
  <2>1. /\ wire' \in [Request -> Class \cup {"none"}] /\ status' \in [Request -> Class]
        /\ counted' \in [Request -> Class \cup {"none"}]
    BY DEF Answer, Panic, Return, Recover, WriteHeader, SendHeader, IInv, TypeOK, Class
  <2> QED BY <1>0, <1>1, <2>1 DEF IInv, TypeOK, process
<1>3. DegradedIsTrouble' /\ Noticed'
  BY <1>0, <1>1 DEF IInv, DegradedIsTrouble, Noticed, Checking
<1>4. Quiet'
  BY <1>0, <1>1 DEF IInv, TypeOK, Quiet, InFlight, process
<1>5. Written' /\ CountedIsSent'
  BY <1>0 DEF Answer, Panic, Return, Recover, Go, IInv, TypeOK, Written, CountedIsSent,
              WriteHeader, SendHeader
<1> QED BY <1>2, <1>3, <1>4, <1>5 DEF IInv

\* What a check meets only grows.
LEMMA FlapInv ==
  ASSUME IInv, (\E s \in Service : Flap(s)) \/ (\E r \in Request : HangUp(r))
  PROVE  IInv'
<1>0. UNCHANGED <<allowedIPs, process, place, down, wire, status, counted>>
  BY DEF Flap, HangUp
<1>1. /\ prompt' \in SUBSET Service
      /\ trouble' \in [Request -> SUBSET (Service \cup {"client"})]
      /\ \A r \in Request : trouble[r] \subseteq trouble'[r]
      /\ \A r \in Request : Checking(r) => Service \ prompt' \subseteq trouble'[r]
  <2>1. CASE \E s \in Service : Flap(s)
    <3>1. PICK s \in Service : Flap(s)
      BY <2>1
    <3>2. prompt' \in SUBSET Service
      BY <3>1 DEF Flap, IInv, TypeOK
    <3> QED BY <3>1, <3>2 DEF Flap, IInv, TypeOK, Service
  <2>2. CASE \E r \in Request : HangUp(r)
    <3>1. PICK r \in Request : HangUp(r)
      BY <2>2
    <3>2. UNCHANGED prompt /\ trouble' = [trouble EXCEPT ![r] = @ \cup {"client"}]
      BY <3>1 DEF HangUp
    <3> QED BY <3>2 DEF IInv, TypeOK, Noticed
  <2> QED BY <2>1, <2>2
<1>2. TypeOK'
  BY <1>0, <1>1 DEF IInv, TypeOK, process
<1>3. DegradedIsTrouble' /\ Noticed'
  <2>1. Noticed'
    BY <1>0, <1>1 DEF Noticed, Checking
  <2>2. DegradedIsTrouble'
    BY <1>0, <1>1 DEF IInv, DegradedIsTrouble
  <2> QED BY <2>1, <2>2
<1>4. CountedIsSent' /\ Quiet' /\ Written'
  BY <1>0 DEF IInv, CountedIsSent, Quiet, Written, InFlight, process
<1> QED BY <1>2, <1>3, <1>4 DEF IInv

\* The end of the process cuts off what is in flight.
LEMMA DieInv ==
  ASSUME IInv, NEW how \in {"failed", "killed", "exited"}, Die(how),
         how = "exited" => main = "leaving",
         starter' \in {"serving", "closed", "failed", "done"},
         UNCHANGED <<allowedIPs, prompt, err, interrupted, listening, clients,
                     down, wire, status, counted, trouble>>
  PROVE  IInv'
<1>1. \A r \in Request : place'[r] = IF InFlight(r) THEN "cut" ELSE place[r]
  BY DEF Die
<1>2. TypeOK'
  BY DEF Die, IInv, TypeOK, Inside
<1>3. CountedIsSent' /\ DegradedIsTrouble' /\ Noticed'
  BY <1>1 DEF IInv, CountedIsSent, DegradedIsTrouble, Noticed, Inside, InFlight,
              Checking
<1>4. Quiet'
  BY <1>1 DEF Die, IInv, TypeOK, Quiet, InFlight
<1>5. Written'
  BY <1>1 DEF IInv, Written, InFlight
<1> QED BY <1>2, <1>3, <1>4, <1>5 DEF IInv

\* The steps of the process that leave the requests alone.
LEMMA ProcessInv ==
  ASSUME IInv,
         \/ Interrupt \/ BeginShutdown \/ Drained \/ Forced \/ Close \/ StartReturns
         \/ Check /\ UNCHANGED place
         \/ StartChecks /\ UNCHANGED <<main, place>>
  PROVE  IInv'
<1>0. UNCHANGED <<allowedIPs, prompt, perRequest>>
  BY DEF Interrupt, BeginShutdown, Drained, Forced, Close, StartReturns, Check, StartChecks,
         perRequest
<1>1. TypeOK'
  <2>1. CASE Interrupt \/ BeginShutdown \/ Close
    BY <1>0, <2>1 DEF IInv, TypeOK, perRequest, Interrupt, BeginShutdown, Close
  <2>2. CASE Drained \/ Forced \/ StartReturns
    BY <1>0, <2>2 DEF IInv, TypeOK, perRequest, Drained, Forced, StartReturns
  <2>3. CASE Check /\ UNCHANGED place
    BY <1>0, <2>3 DEF IInv, TypeOK, perRequest, Check, Die
  <2>4. CASE StartChecks /\ UNCHANGED <<main, place>>
    BY <1>0, <2>4 DEF IInv, TypeOK, perRequest, StartChecks
  <2> QED BY <2>1, <2>2, <2>3, <2>4
<1>2. CountedIsSent' /\ DegradedIsTrouble' /\ Noticed' /\ Written'
  BY <1>0 DEF IInv, CountedIsSent, DegradedIsTrouble, Noticed, Written, Checking,
              perRequest
<1>3. Quiet'
  <2>1. CASE Interrupt \/ BeginShutdown \/ Drained \/ Forced
    BY <1>0, <2>1 DEF IInv, TypeOK, Quiet, InFlight, perRequest, Interrupt, BeginShutdown,
                      Drained, Forced, Gone
  <2>2. CASE Close \/ StartReturns \/ (StartChecks /\ UNCHANGED <<main, place>>)
    BY <1>0, <2>2 DEF IInv, TypeOK, Quiet, InFlight, perRequest, Close, StartReturns,
                      StartChecks, Gone
  <2>3. CASE Check /\ UNCHANGED place
    BY <1>0, <2>3 DEF IInv, TypeOK, Quiet, InFlight, perRequest, Check, Die
  <2> QED BY <2>1, <2>2, <2>3
<1> QED BY <1>1, <1>2, <1>3 DEF IInv

LEMMA NextInv == IInv /\ [Next]_vars => IInv'
<1> SUFFICES ASSUME IInv, [Next]_vars PROVE IInv'
  OBVIOUS
<1>1. CASE UNCHANGED vars
  BY <1>1 DEF vars, IInv, TypeOK, CountedIsSent, DegradedIsTrouble, Noticed, Quiet,
              Written, InFlight, Checking
<1>2. CASE Terminate \/ Exit
  BY <1>2, DieInv DEF Terminate, Exit, IInv, TypeOK
<1>3. CASE Check
  <2>1. CASE UNCHANGED place
    BY <1>3, <2>1, ProcessInv
  <2>2. CASE Die("failed")
    BY <1>3, <2>2, DieInv DEF Check, IInv, TypeOK
  <2> QED BY <1>3, <2>1, <2>2 DEF Check
<1>4. CASE StartChecks
  <2>1. CASE UNCHANGED <<main, place>>
    BY <1>4, <2>1, ProcessInv
  <2>2. CASE Die("failed")
    BY <1>4, <2>2, DieInv DEF StartChecks, IInv, TypeOK
  <2> QED BY <1>4, <2>1, <2>2 DEF StartChecks
<1> QED BY <1>1, <1>2, <1>3, <1>4, AdmitInv, PingInv, HandlerInv, FlapInv, ProcessInv DEF Next

\* The type invariant of the process and its requests.
THEOREM ServerTypeCorrect == Spec => []TypeOK
<1>1. IInv => TypeOK
  BY DEF IInv
<1> QED BY <1>1, InitInv, NextInv, PTL DEF Spec

\* An exit code of 0 means that no request was cut off, in spite of the race
\* for err.
THEOREM ExitZeroIsClean == Spec => []CleanExit
<1>1. IInv => CleanExit
  BY DEF IInv, TypeOK, Quiet, CleanExit, InFlight, Inside
<1> QED BY <1>1, InitInv, NextInv, PTL DEF Spec

\* A check that reports a service down met one that is late, or lost its
\* client: the process keeps its own clients open for as long as checks run.
THEOREM DegradedOnlyInTrouble == Spec => []DegradedIsTrouble
<1>1. IInv => DegradedIsTrouble
  BY DEF IInv
<1> QED BY <1>1, InitInv, NextInv, PTL DEF Spec

\* The counters agree with what was sent.
THEOREM CountersAreHonest == Spec => []CountedIsSent
<1>1. IInv => CountedIsSent
  BY DEF IInv
<1> QED BY <1>1, InitInv, NextInv, PTL DEF Spec
=============================================================================
