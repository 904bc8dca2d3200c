------------------------ MODULE BoxAllocator_proofs ------------------------
(***************************************************************************)
(* Theorems about BoxAllocator, for any maxBoxID and any number of         *)
(* goroutines and crashes: every handler reads the result of its own run,  *)
(* unless its sandbox has met one a whole number of rounds of the counter  *)
(* away; even then it reads nothing that a restart has left behind; and    *)
(* what it makes of a metadata file is what the file says.                 *)
(***************************************************************************)
EXTENDS BoxAllocator, WellFoundedInduction, TLAPS

\* Numbers that leave the same remainder differ by a multiple of m.
LEMMA SameRemainder ==
  ASSUME NEW a \in Nat, NEW b \in Nat, NEW m \in Nat \ {0}, a % m = b % m
  PROVE  (b - a) % m = 0
<1>1. /\ a \div m \in Int /\ a % m \in Int /\ a = m * (a \div m) + (a % m)
      /\ b \div m \in Int /\ b % m \in Int /\ b = m * (b \div m) + (b % m)
  OBVIOUS
<1> DEFINE q == (b \div m) - (a \div m)
<1>2. q \in Int /\ b - a = m * q
  BY <1>1
<1> HIDE DEF q
<1>3. ASSUME NEW d \in Int, d = m * q PROVE d % m = 0
  <2>1. d \div m \in Int /\ d % m \in 0..m-1 /\ d = m * (d \div m) + (d % m)
    OBVIOUS
  <2> DEFINE p == q - (d \div m)
  <2>2. p \in Int /\ d % m = m * p
    BY <1>2, <1>3, <2>1
  <2> HIDE DEF p
  <2>3. CASE p <= -1
    <3>1. m * p <= -m
      BY <2>2, <2>3
    <3> QED BY <2>1, <2>2, <3>1
  <2>4. CASE p >= 1
    <3>1. m * p >= m
      BY <2>2, <2>4
    <3> QED BY <2>1, <2>2, <3>1
  <2>5. CASE p = 0
    BY <2>2, <2>5
  <2> QED BY <2>2, <2>3, <2>4, <2>5
<1> QED BY <1>2, <1>3

LEMMA BoxIDType ==
  ASSUME NEW n \in Nat
  PROVE  nextBoxID(n) \in BoxID
<1>1. n % MaxBoxID \in 0 .. MaxBoxID - 1
  BY BoxAssumption
<1> QED BY <1>1 DEF nextBoxID, BoxID

----------------------------------------------------------------------------
(* Type correctness.                                                       *)

LEMMA IdType ==
  ASSUME TypeOK, NEW h \in Handler
  PROVE  /\ HostOf[h] \in Worker /\ IdOf(h) \in BoxID
         /\ Tag(h) \in Use /\ RunTag(h) \in RunOfUse
BY BoxAssumption, BoxIDType DEF TypeOK, IdOf, Tag, RunTag, Use, RunOfUse

LEMMA NothingType ==
  /\ Nothing \in Use /\ Absent \in Box /\ Fresh \in Box
  /\ NoFile \in RunOfUse /\ NoResult \in RunOfUse \X Use
BY BoxAssumption DEF Nothing, Use, Absent, Fresh, Box, NoFile, NoResult, RunOfUse

LEMMA BoxOfType ==
  ASSUME TypeOK, NEW h \in Handler
  PROVE  BoxOf(h) \in Box /\ MetaOf(h) \in RunOfUse
BY IdType DEF TypeOK, BoxOf, MetaOf

LEMMA SetBoxType ==
  ASSUME TypeOK, NEW h \in Handler, NEW b \in Box, SetBox(h, b)
  PROVE  box' \in [Worker -> [BoxID -> Box]]
<1>1. [box[HostOf[h]] EXCEPT ![IdOf(h)] = b] \in [BoxID -> Box]
  BY IdType DEF TypeOK
<1>2. box' = [box EXCEPT ![HostOf[h]] = [box[HostOf[h]] EXCEPT ![IdOf(h)] = b]]
  BY DEF SetBox
<1> QED BY <1>1, <1>2 DEF TypeOK

LEMMA SetMetaType ==
  ASSUME TypeOK, NEW h \in Handler, NEW m \in RunOfUse, SetMeta(h, m)
  PROVE  meta' \in [Worker -> [BoxID -> RunOfUse]]
<1>1. [meta[HostOf[h]] EXCEPT ![IdOf(h)] = m] \in [BoxID -> RunOfUse]
  BY IdType DEF TypeOK
<1>2. meta' = [meta EXCEPT ![HostOf[h]] = [meta[HostOf[h]] EXCEPT ![IdOf(h)] = m]]
  BY DEF SetMeta
<1> QED BY <1>1, <1>2 DEF TypeOK

LEMMA GotoType ==
  ASSUME TypeOK, NEW h \in Handler, NEW p \in Place, Goto(h, p)
  PROVE  at' \in [Handler -> Place]
BY DEF TypeOK, Goto

\* The last part of TypeOK follows from the type of ticket.
LEMMA IdTypes ==
  ASSUME ticket \in [Handler -> 0..MaxClaims]
  PROVE  \A h \in Handler : IdOf(h) \in BoxID
BY BoxAssumption, BoxIDType DEF IdOf

LEMMA InitType == Init => TypeOK
<1> SUFFICES ASSUME Init PROVE TypeOK
  OBVIOUS
<1>1. ticket \in [Handler -> 0..MaxClaims]
  BY BoxAssumption DEF Init
<1>2. box \in [Worker -> [BoxID -> Box]] /\ meta \in [Worker -> [BoxID -> RunOfUse]]
  BY NothingType DEF Init
<1>3. ran \in [Handler -> Use] /\ got \in [Handler -> RunOfUse \X Use]
  BY NothingType DEF Init
<1> QED BY <1>1, <1>2, <1>3, IdTypes, BoxAssumption DEF Init, TypeOK, Place

LEMMA HandlerStepType ==
  ASSUME TypeOK, NEW h \in Handler,
         \/ Claim(h) \/ initBox(h) \/ createFiles(h) \/ run(h) \/ Exit(h)
         \/ readMetadata(h) \/ resetMetadata(h) \/ cleanupBox(h)
  PROVE  TypeOK'
<1>0. /\ HostOf[h] \in Worker /\ Tag(h) \in Use /\ RunTag(h) \in RunOfUse
      /\ BoxOf(h) \in Box /\ MetaOf(h) \in RunOfUse /\ ran[h] \in Use
  BY IdType, BoxOfType DEF TypeOK
<1>1. CASE Claim(h)
  <2>1. counter' \in [Worker -> 0..MaxClaims] /\ ticket' \in [Handler -> 0..MaxClaims]
    BY <1>0, <1>1, BoxAssumption DEF Claim, TypeOK
  <2>2. \A g \in Handler : IdOf(g)' \in BoxID
    BY <2>1, BoxAssumption, BoxIDType DEF IdOf
  <2>3. met' \subseteq Handler /\ turn' \in [Handler -> {1, 2}]
    BY <1>1 DEF Claim, TypeOK
  <2> QED BY <1>1, <2>1, <2>2, <2>3, GotoType DEF Claim, TypeOK, Place
<1>2. CASE initBox(h)
  BY <1>2, GotoType, SetBoxType, NothingType DEF initBox, TypeOK, Place, IdOf
<1>3. CASE createFiles(h)
  <2>1. [BoxOf(h) EXCEPT !.source = Tag(h)] \in Box
    BY <1>0 DEF Box
  <2> QED BY <1>3, <2>1, GotoType, SetBoxType DEF createFiles, TypeOK, Place, IdOf
<1>4. CASE run(h)
  <2>1. BoxOf(h).source \in Use
    BY <1>0 DEF Box
  <2>2. ran' \in [Handler -> Use]
    BY <1>4, <2>1 DEF run, TypeOK
  <2>3. at' \in [Handler -> Place]
    BY <1>4, GotoType DEF run, Place
  <2> QED BY <1>4, <2>2, <2>3 DEF run, TypeOK, IdOf
<1>5. CASE Exit(h)
  <2>1. [BoxOf(h) EXCEPT !.output = ran[h]] \in Box
    BY <1>0 DEF Box
  <2>2. box' \in [Worker -> [BoxID -> Box]] /\ meta' \in [Worker -> [BoxID -> RunOfUse]]
    BY <1>0, <1>5, <2>1, SetBoxType, SetMetaType DEF Exit
  <2>3. ran' \in [Handler -> Use] /\ at' \in [Handler -> Place]
    BY <1>5, NothingType, GotoType DEF Exit, TypeOK, Place
  <2> QED BY <1>5, <2>2, <2>3 DEF Exit, TypeOK, IdOf
<1>6. CASE readMetadata(h)
  <2>1. BoxOf(h).output \in Use
    BY <1>0 DEF Box
  <2>2. got' \in [Handler -> RunOfUse \X Use]
    <3>1. <<MetaOf(h), BoxOf(h).output>> \in RunOfUse \X Use
      BY <1>0, <2>1
    <3>2. \/ UNCHANGED got
          \/ got' = [got EXCEPT ![h] = <<MetaOf(h), BoxOf(h).output>>]
      BY <1>6 DEF readMetadata
    <3> QED BY <3>1, <3>2 DEF TypeOK
  <2>3. at' \in [Handler -> Place]
    BY <1>6, GotoType DEF readMetadata, Place
  <2> QED BY <1>6, <2>2, <2>3 DEF readMetadata, TypeOK, IdOf
<1>7. CASE cleanupBox(h)
  <2>1. meta' \in [Worker -> [BoxID -> RunOfUse]]
    BY <1>7, SetMetaType, NothingType DEF cleanupBox, TypeOK
  <2>2. box' \in [Worker -> [BoxID -> Box]]
    BY <1>7, SetBoxType, NothingType DEF cleanupBox, TypeOK
  <2>3. got' \in [Handler -> RunOfUse \X Use]
    BY <1>7, NothingType DEF cleanupBox, TypeOK
  <2>4. at' \in [Handler -> Place]
    BY <1>7, GotoType DEF cleanupBox, Place
  <2> QED BY <1>7, <2>1, <2>2, <2>3, <2>4 DEF cleanupBox, TypeOK, IdOf
<1>8. CASE resetMetadata(h)
  <2>1. meta' \in [Worker -> [BoxID -> RunOfUse]] /\ at' \in [Handler -> Place]
    BY <1>8, SetMetaType, GotoType, NothingType DEF resetMetadata, Place
  <2>2. got' \in [Handler -> RunOfUse \X Use] /\ turn' \in [Handler -> {1, 2}]
    BY <1>8, NothingType DEF resetMetadata, TypeOK
  <2> QED BY <1>8, <2>1, <2>2 DEF resetMetadata, TypeOK, IdOf
<1> QED BY <1>1, <1>2, <1>3, <1>4, <1>5, <1>6, <1>7, <1>8

LEMMA CrashType ==
  ASSUME TypeOK, NEW w \in Worker, Crash(w)
  PROVE  TypeOK'
<1>1. epoch' \in [Worker -> 0..MaxCrashes] /\ counter' \in [Worker -> 0..MaxClaims]
  BY BoxAssumption DEF Crash, TypeOK
<1>2. at' \in [Handler -> Place]
  BY DEF Crash, TypeOK, Place
<1>3. ran' \in [Handler -> Use]
  BY NothingType DEF Crash, TypeOK
<1>4. got' \in [Handler -> RunOfUse \X Use]
  BY NothingType DEF Crash, TypeOK
<1> QED BY <1>1, <1>2, <1>3, <1>4 DEF Crash, TypeOK, IdOf

LEMMA NextType == TypeOK /\ [Next]_vars => TypeOK'
<1>1. TypeOK /\ UNCHANGED vars => TypeOK'
  BY DEF vars, TypeOK, IdOf
<1> QED BY <1>1, HandlerStepType, CrashType DEF Next

\* Every box number is in range and every file holds the traces of some use.
THEOREM BoxTypeCorrect == Spec => []TypeOK
<1> QED BY InitType, NextType, PTL DEF Spec

----------------------------------------------------------------------------
(* Sandboxes that share a number have met: they are whole rounds apart.    *)

TicketsBelow == \A h \in Handler : Live(h) => ticket[h] <= counter[HostOf[h]]

SharersHaveMet ==
  \A g, h \in Handler :
    g # h /\ Live(g) /\ Live(h) /\ HostOf[g] = HostOf[h] /\ IdOf(g) = IdOf(h)
      => g \in met /\ h \in met

\* The steps other than Claim and Crash.
InSandbox(h) == \/ initBox(h) \/ createFiles(h) \/ run(h) \/ Exit(h)
                \/ readMetadata(h) \/ resetMetadata(h) \/ cleanupBox(h)

\* What such a step leaves alone.
LEMMA SandboxStep ==
  ASSUME TypeOK, NEW h \in Handler, InSandbox(h)
  PROVE  /\ UNCHANGED <<counter, epoch, ticket, met>>
         /\ Live(h)
         /\ \A g \in Handler : g # h => /\ at'[g] = at[g] /\ turn'[g] = turn[g]
                                        /\ ran'[g] = ran[g] /\ got'[g] = got[g]
         /\ UNCHANGED box \/ \E b : SetBox(h, b)
         /\ UNCHANGED meta \/ \E m : SetMeta(h, m)
<1>1. /\ UNCHANGED <<counter, epoch, ticket, met>>
      /\ Live(h)
      /\ \A g \in Handler : g # h => /\ at'[g] = at[g] /\ turn'[g] = turn[g]
                                     /\ ran'[g] = ran[g] /\ got'[g] = got[g]
  BY DEF InSandbox, initBox, createFiles, run, Exit, readMetadata, resetMetadata, cleanupBox,
     Goto, Live, TypeOK
<1>2. UNCHANGED box \/ \E b : SetBox(h, b)
  BY DEF InSandbox, initBox, createFiles, run, Exit, readMetadata, resetMetadata, cleanupBox
<1>3. UNCHANGED meta \/ \E m : SetMeta(h, m)
  BY DEF InSandbox, initBox, createFiles, run, Exit, readMetadata, resetMetadata, cleanupBox
<1> QED BY <1>1, <1>2, <1>3

LEMMA NextBelow == TypeOK /\ TicketsBelow /\ [Next]_vars => TicketsBelow'
<1> SUFFICES ASSUME TypeOK, TicketsBelow, [Next]_vars,
                    NEW g \in Handler, Live(g)'
             PROVE  ticket'[g] <= counter'[HostOf[g]]
  BY DEF TicketsBelow
<1>0. /\ counter \in [Worker -> Nat] /\ ticket \in [Handler -> Nat]
      /\ HostOf \in [Handler -> Worker] /\ at \in [Handler -> Place]
  BY BoxAssumption DEF TypeOK
<1>1. ASSUME NEW h \in Handler, Claim(h) PROVE ticket'[g] <= counter'[HostOf[g]]
  <2>1. /\ counter' = [counter EXCEPT ![HostOf[h]] = @ + 1]
        /\ ticket' = [ticket EXCEPT ![h] = counter[HostOf[h]] + 1]
        /\ at' = [at EXCEPT ![h] = "claimed"]
    BY <1>0, <1>1 DEF Claim, Goto
  <2>2. counter[HostOf[g]] \in Nat /\ HostOf[g] \in Worker /\ HostOf[h] \in Worker
    BY <1>0
  <2>3. CASE g = h
    BY <1>0, <2>1, <2>2, <2>3
  <2>4. CASE g # h
    <3>1. ticket[g] <= counter[HostOf[g]] /\ ticket'[g] = ticket[g] /\ ticket[g] \in Nat
      BY <1>0, <2>1, <2>4 DEF TicketsBelow, Live
    <3>2. counter'[HostOf[g]] \in {counter[HostOf[g]], counter[HostOf[g]] + 1}
      BY <1>0, <2>1, <2>2
    <3> QED BY <2>2, <3>1, <3>2
  <2> QED BY <2>3, <2>4
<1>2. ASSUME NEW h \in Handler, InSandbox(h) PROVE ticket'[g] <= counter'[HostOf[g]]
  <2>1. Live(g)
    BY <1>2, SandboxStep DEF Live
  <2> QED BY <1>2, <2>1, SandboxStep DEF TicketsBelow
<1>3. ASSUME NEW w \in Worker, Crash(w) PROVE ticket'[g] <= counter'[HostOf[g]]
  BY <1>0, <1>3 DEF Crash, Live, TicketsBelow
<1>4. CASE UNCHANGED vars
  BY <1>4 DEF vars, TicketsBelow, Live
<1> QED BY <1>1, <1>2, <1>3, <1>4 DEF Next, InSandbox

\* A claim of a number in use is recorded on both sides.
LEMMA ClaimMeets ==
  ASSUME TypeOK, TicketsBelow, SharersHaveMet, NEW h \in Handler, Claim(h),
         NEW g \in Handler, g # h, Live(g), HostOf[g] = HostOf[h], IdOf(g)' = IdOf(h)'
  PROVE  g \in met' /\ h \in met'
<1> DEFINE n == counter[HostOf[h]] + 1
<1>1. /\ counter[HostOf[h]] \in Nat /\ ticket[g] \in Nat /\ MaxBoxID \in Nat \ {0}
      /\ ticket'[h] = n /\ ticket'[g] = ticket[g]
  <2>1. counter \in [Worker -> Nat] /\ ticket \in [Handler -> Nat] /\ HostOf[h] \in Worker
    BY BoxAssumption DEF TypeOK
  <2>2. ticket' = [ticket EXCEPT ![h] = n]
    BY DEF Claim
  <2> QED BY <2>1, <2>2, BoxAssumption
<1>2. ticket[g] % MaxBoxID = n % MaxBoxID
  BY <1>1 DEF IdOf, nextBoxID
<1>3. ticket[g] <= counter[HostOf[h]]
  BY DEF TicketsBelow
<1> HIDE DEF n
<1>4. n \in Nat /\ ticket[g] # n
  BY <1>1, <1>3 DEF n
<1>5. Rounds(ticket[g], n)
  BY <1>1, <1>2, <1>4, SameRemainder DEF Rounds
<1> QED BY <1>5 DEF Claim, n

LEMMA NextMeets ==
  TypeOK /\ TicketsBelow /\ SharersHaveMet /\ [Next]_vars => SharersHaveMet'
<1> SUFFICES ASSUME TypeOK, TicketsBelow, SharersHaveMet, [Next]_vars PROVE SharersHaveMet'
  OBVIOUS
<1>1. ASSUME NEW h \in Handler, Claim(h) PROVE SharersHaveMet'
  <2> SUFFICES ASSUME NEW f \in Handler, NEW g \in Handler, f # g, Live(f)', Live(g)',
                      HostOf[f] = HostOf[g], IdOf(f)' = IdOf(g)'
               PROVE  f \in met' /\ g \in met'
    BY DEF SharersHaveMet
  <2>1. \A k \in Handler : k # h => /\ Live(k)' => Live(k)
                                    /\ ticket'[k] = ticket[k]
                                    /\ k \in met => k \in met'
    BY <1>1 DEF Claim, Goto, Live, TypeOK
  <2>2. CASE f # h /\ g # h
    <3>1. Live(f) /\ Live(g) /\ IdOf(f) = IdOf(g)
      BY <2>1, <2>2 DEF IdOf, Live
    <3> QED BY <2>1, <2>2, <3>1 DEF SharersHaveMet
  <2>3. CASE f = h
    <3>1. Live(g) /\ IdOf(g)' = IdOf(h)'
      BY <2>1, <2>3 DEF IdOf, Live
    <3> QED BY <1>1, <2>3, <3>1, ClaimMeets
  <2>4. CASE g = h
    <3>1. Live(f)
      BY <2>1, <2>4 DEF Live
    <3>2. IdOf(f)' = IdOf(h)'
      BY <2>4 DEF IdOf
    <3> QED BY <1>1, <2>4, <3>1, ClaimMeets
  <2> QED BY <2>2, <2>3, <2>4
<1>2. ASSUME NEW h \in Handler, InSandbox(h) PROVE SharersHaveMet'
  <2>1. /\ UNCHANGED <<ticket, met>>
        /\ \A g \in Handler : Live(g)' => Live(g)
    BY <1>2, SandboxStep DEF Live
  <2> QED BY <2>1 DEF SharersHaveMet, IdOf
<1>3. ASSUME NEW w \in Worker, Crash(w) PROVE SharersHaveMet'
  <2>1. /\ UNCHANGED <<ticket, met>>
        /\ \A g \in Handler : Live(g)' => Live(g)
    BY <1>3 DEF Crash, Live, TypeOK
  <2> QED BY <2>1 DEF SharersHaveMet, IdOf
<1>4. CASE UNCHANGED vars
  BY <1>4 DEF vars, SharersHaveMet, IdOf, Live
<1> QED BY <1>1, <1>2, <1>3, <1>4 DEF Next, InSandbox

LEMMA InitMeets == Init => TicketsBelow /\ SharersHaveMet
BY DEF Init, TicketsBelow, SharersHaveMet, Live

----------------------------------------------------------------------------
(* Every handler reads its own result.                                     *)

Own(h) ==
  /\ at[h] = "ready" => BoxOf(h).ready
  /\ at[h] \in {"filled", "running", "stopped", "read"} =>
       BoxOf(h).ready /\ BoxOf(h).source = Tag(h)
  /\ at[h] = "running" => ran[h] = Tag(h)
  /\ at[h] = "stopped" => BoxOf(h).output = Tag(h) /\ MetaOf(h) = RunTag(h)
  /\ at[h] = "read" => got[h] = <<RunTag(h), Tag(h)>>

OwnTraces == \A h \in Handler \ met : Own(h)

\* A write to the box or the metadata of h leaves alone those of whoever has
\* not met it.
LEMMA OthersKept ==
  ASSUME TypeOK, SharersHaveMet, NEW g \in Handler \ met, NEW h \in Handler, g # h,
         Live(g), Live(h), UNCHANGED ticket
  PROVE  /\ \A b : SetBox(h, b) => BoxOf(g)' = BoxOf(g)
         /\ \A m : SetMeta(h, m) => MetaOf(g)' = MetaOf(g)
<1>1. HostOf[g] # HostOf[h] \/ IdOf(g) # IdOf(h)
  BY DEF SharersHaveMet
<1>2. HostOf[g] \in Worker /\ HostOf[h] \in Worker /\ IdOf(g) \in BoxID /\ IdOf(h) \in BoxID
  BY IdType
<1>3. IdOf(g)' = IdOf(g)
  BY DEF IdOf
<1>4. ASSUME NEW b, SetBox(h, b) PROVE BoxOf(g)' = BoxOf(g)
  BY <1>1, <1>2, <1>3, <1>4 DEF SetBox, BoxOf, TypeOK
<1>5. ASSUME NEW m, SetMeta(h, m) PROVE MetaOf(g)' = MetaOf(g)
  BY <1>1, <1>2, <1>3, <1>5 DEF SetMeta, MetaOf, TypeOK
<1> QED BY <1>4, <1>5

LEMMA SetIsSeen ==
  ASSUME TypeOK, NEW h \in Handler, UNCHANGED ticket
  PROVE  /\ \A b : SetBox(h, b) => BoxOf(h)' = b
         /\ \A m : SetMeta(h, m) => MetaOf(h)' = m
<1>1. HostOf[h] \in Worker /\ IdOf(h) \in BoxID /\ IdOf(h)' = IdOf(h)
  BY IdType DEF IdOf
<1>2. ASSUME NEW b, SetBox(h, b) PROVE BoxOf(h)' = b
  BY <1>1, <1>2 DEF SetBox, BoxOf, TypeOK
<1>3. ASSUME NEW m, SetMeta(h, m) PROVE MetaOf(h)' = m
  BY <1>1, <1>3 DEF SetMeta, MetaOf, TypeOK
<1> QED BY <1>2, <1>3

\* Nobody is running in the box of h.
LEMMA NotLocked ==
  ASSUME SharersHaveMet, NEW h \in Handler \ met, Live(h), at[h] # "running"
  PROVE  ~Locked(h)
BY DEF SharersHaveMet, Locked, Live

\* A step of h in its own sandbox keeps the traces of the others ...
LEMMA OthersOwn ==
  ASSUME TypeOK, SharersHaveMet, OwnTraces, NEW h \in Handler, InSandbox(h),
         NEW g \in Handler \ met, g # h
  PROVE  Own(g)'
<1>0. /\ Own(g) /\ Live(h) /\ UNCHANGED <<ticket, epoch>>
      /\ at'[g] = at[g] /\ turn'[g] = turn[g] /\ ran'[g] = ran[g] /\ got'[g] = got[g]
      /\ UNCHANGED box \/ \E b : SetBox(h, b)
      /\ UNCHANGED meta \/ \E m : SetMeta(h, m)
  BY SandboxStep DEF OwnTraces
<1>1. Tag(g)' = Tag(g) /\ RunTag(g)' = RunTag(g) /\ IdOf(g)' = IdOf(g)
  BY <1>0 DEF Tag, RunTag, IdOf
<1>2. CASE ~Live(g)
  BY <1>0, <1>2 DEF Own, Live
<1>3. CASE Live(g)
  <2>1. BoxOf(g)' = BoxOf(g)
    BY <1>0, <1>1, <1>3, OthersKept DEF BoxOf
  <2>2. MetaOf(g)' = MetaOf(g)
    BY <1>0, <1>1, <1>3, OthersKept DEF MetaOf
  <2> QED BY <1>0, <1>1, <2>1, <2>2 DEF Own
<1> QED BY <1>2, <1>3

\* ... and its own.
LEMMA HandlerOwn ==
  ASSUME TypeOK, SharersHaveMet, OwnTraces, NEW h \in Handler \ met, InSandbox(h)
  PROVE  Own(h)'
<1>0. /\ Own(h) /\ Live(h) /\ BoxOf(h) \in Box /\ UNCHANGED <<ticket, epoch>>
      /\ Tag(h)' = Tag(h) /\ (UNCHANGED turn => RunTag(h)' = RunTag(h))
      /\ at \in [Handler -> Place] /\ ran \in [Handler -> Use]
      /\ got \in [Handler -> RunOfUse \X Use]
  BY SandboxStep, BoxOfType DEF OwnTraces, TypeOK, Tag, RunTag
<1>1. CASE initBox(h)
  <2>1. ~Locked(h)
    BY <1>0, <1>1, NotLocked DEF initBox
  <2>2. at'[h] = "ready" /\ SetBox(h, Fresh)
    BY <1>0, <1>1, <2>1 DEF initBox, Goto
  <2>3. BoxOf(h)' = Fresh
    BY <1>0, <2>2, SetIsSeen
  <2> QED BY <2>2, <2>3 DEF Own, Fresh
<1>2. CASE createFiles(h)
  <2>1. BoxOf(h).ready
    BY <1>0, <1>2 DEF createFiles, Own
  <2>2. at'[h] = "filled" /\ SetBox(h, [BoxOf(h) EXCEPT !.source = Tag(h)])
    BY <1>0, <1>2, <2>1 DEF createFiles, Goto
  <2>3. BoxOf(h)' = [BoxOf(h) EXCEPT !.source = Tag(h)]
    BY <1>0, <2>2, SetIsSeen
  <2>4. BoxOf(h)'.ready /\ BoxOf(h)'.source = Tag(h)
    BY <1>0, <2>1, <2>3 DEF Box
  <2> QED BY <1>0, <2>2, <2>4 DEF Own
<1>3. CASE run(h)
  <2>1. BoxOf(h).ready /\ BoxOf(h).source = Tag(h) /\ ~Locked(h)
    BY <1>0, <1>3, NotLocked DEF run, Own
  <2>2. /\ \/ at'[h] = "running" /\ ran'[h] = Tag(h)
           \/ at'[h] = "unlaunched"
        /\ BoxOf(h)' = BoxOf(h)
    BY <1>0, <1>3, <2>1 DEF run, Goto, BoxOf, IdOf
  <2> QED BY <1>0, <2>1, <2>2 DEF Own
<1>4. CASE Exit(h)
  <2>1. ran[h] = Tag(h) /\ BoxOf(h).ready /\ BoxOf(h).source = Tag(h)
    BY <1>0, <1>4 DEF Exit, Own
  <2>2. /\ at'[h] = "stopped" /\ SetBox(h, [BoxOf(h) EXCEPT !.output = ran[h]])
        /\ SetMeta(h, RunTag(h)) /\ UNCHANGED turn
    BY <1>0, <1>4 DEF Exit, Goto
  <2>3. BoxOf(h)' = [BoxOf(h) EXCEPT !.output = ran[h]] /\ MetaOf(h)' = RunTag(h)
    BY <1>0, <2>2, SetIsSeen
  <2>4. BoxOf(h)'.output = Tag(h) /\ BoxOf(h)'.ready /\ BoxOf(h)'.source = Tag(h)
    BY <1>0, <2>1, <2>3 DEF Box
  <2> QED BY <1>0, <2>2, <2>3, <2>4 DEF Own
<1>5. CASE readMetadata(h)
  <2>1. /\ \/ at'[h] \in {"broken", "guessed"}
           \/ /\ at[h] = "stopped" /\ at'[h] = "read"
              /\ got'[h] = <<MetaOf(h), BoxOf(h).output>>
        /\ UNCHANGED turn /\ BoxOf(h)' = BoxOf(h)
    BY <1>0, <1>5 DEF readMetadata, Goto, BoxOf, IdOf
  <2>2. at[h] = "stopped" => /\ MetaOf(h) = RunTag(h) /\ BoxOf(h).output = Tag(h)
                             /\ BoxOf(h).ready /\ BoxOf(h).source = Tag(h)
    BY <1>0 DEF Own
  <2> QED BY <1>0, <2>1, <2>2 DEF Own
<1>6. CASE resetMetadata(h)
  <2>1. at'[h] = "filled" /\ BoxOf(h)' = BoxOf(h) /\ at[h] = "read"
    BY <1>0, <1>6 DEF resetMetadata, Goto, BoxOf, IdOf
  <2> QED BY <1>0, <2>1 DEF Own
<1>7. CASE cleanupBox(h)
  BY <1>0, <1>7 DEF cleanupBox, Goto, Own
<1> QED BY <1>1, <1>2, <1>3, <1>4, <1>5, <1>6, <1>7 DEF InSandbox

\* The handlers on the process that crashes are idle; nothing else changes.
LEMMA CrashOwn ==
  ASSUME TypeOK, OwnTraces, NEW w \in Worker, Crash(w)
  PROVE  OwnTraces'
<1> SUFFICES ASSUME NEW h \in Handler \ met PROVE Own(h)'
  BY DEF OwnTraces, Crash
<1>1. CASE HostOf[h] = w
  BY <1>1 DEF Crash, Own
<1>2. CASE HostOf[h] # w
  <2>1. at'[h] = at[h] /\ ran'[h] = ran[h] /\ got'[h] = got[h]
    BY <1>2 DEF Crash
  <2>2. Tag(h)' = Tag(h) /\ RunTag(h)' = RunTag(h)
    BY <1>2 DEF Crash, Tag, RunTag, TypeOK
  <2>3. BoxOf(h)' = BoxOf(h) /\ MetaOf(h)' = MetaOf(h)
    BY DEF Crash, BoxOf, MetaOf, IdOf
  <2> QED BY <2>1, <2>2, <2>3 DEF OwnTraces, Own
<1> QED BY <1>1, <1>2

LEMMA ClaimOwn ==
  ASSUME TypeOK, OwnTraces, NEW h \in Handler, Claim(h)
  PROVE  OwnTraces'
<1> SUFFICES ASSUME NEW g \in Handler \ met' PROVE Own(g)'
  BY DEF OwnTraces
<1>1. CASE g = h
  <2>1. at'[h] = "claimed"
    BY DEF Claim, Goto, TypeOK
  <2> QED BY <1>1, <2>1 DEF Own
<1>2. CASE g # h
  <2>1. /\ at'[g] = at[g] /\ ticket'[g] = ticket[g] /\ turn'[g] = turn[g]
        /\ UNCHANGED <<ran, got, epoch, box, meta>> /\ g \notin met
    BY <1>2 DEF Claim, Goto, TypeOK
  <2>2. /\ Tag(g)' = Tag(g) /\ RunTag(g)' = RunTag(g)
        /\ BoxOf(g)' = BoxOf(g) /\ MetaOf(g)' = MetaOf(g)
    BY <2>1 DEF Tag, RunTag, BoxOf, MetaOf, IdOf
  <2> QED BY <2>1, <2>2 DEF OwnTraces, Own
<1> QED BY <1>1, <1>2

LEMMA NextOwn == TypeOK /\ SharersHaveMet /\ OwnTraces /\ [Next]_vars => OwnTraces'
<1>1. OwnTraces /\ UNCHANGED vars => OwnTraces'
  BY DEF vars, OwnTraces, Own, BoxOf, MetaOf, Tag, RunTag, IdOf
<1>2. ASSUME TypeOK, SharersHaveMet, OwnTraces, NEW h \in Handler, InSandbox(h)
      PROVE  OwnTraces'
  BY <1>2, OthersOwn, HandlerOwn, SandboxStep DEF OwnTraces
<1> QED BY <1>1, <1>2, ClaimOwn, CrashOwn DEF Next, InSandbox

LEMMA InitOwn == Init => OwnTraces
BY DEF Init, OwnTraces, Own

\* A metadata file belongs to a run that is being read, or a crash left it.
Owned(w, i) == \E h \in Handler : /\ HostOf[h] = w /\ IdOf(h) = i
                                  /\ at[h] \in {"stopped", "read"}

FilesOwned == \A w \in Worker, i \in BoxID :
                meta[w][i] # NoFile => epoch[w] > 0 \/ Owned(w, i)

GuessesAfterCrash == \A h \in Handler \ met : at[h] = "guessed" => epoch[HostOf[h]] > 0

\* A step of h that keeps the other handlers keeps what they own.
LEMMA OthersOwned ==
  ASSUME NEW h \in Handler, NEW w \in Worker, NEW i \in BoxID, Owned(w, i),
         \A g \in Handler : g # h => at'[g] = at[g] /\ IdOf(g)' = IdOf(g),
         \/ ~(HostOf[h] = w /\ IdOf(h) = i /\ at[h] \in {"stopped", "read"})
         \/ IdOf(h)' = IdOf(h) /\ at'[h] \in {"stopped", "read"}
  PROVE  Owned(w, i)'
BY DEF Owned

LEMMA HandlerFiles ==
  ASSUME TypeOK, FilesOwned, NEW h \in Handler,
         \/ Claim(h) \/ initBox(h) \/ createFiles(h) \/ run(h) \/ Exit(h)
         \/ readMetadata(h) \/ resetMetadata(h) \/ cleanupBox(h)
  PROVE  FilesOwned'
<1> SUFFICES ASSUME NEW w \in Worker, NEW i \in BoxID,
                    meta'[w][i] # NoFile, ~(epoch[w] > 0)
             PROVE  Owned(w, i)'
  BY DEF FilesOwned, Claim, initBox, createFiles, run, Exit, readMetadata, resetMetadata, cleanupBox
<1>0. /\ at \in [Handler -> Place] /\ HostOf[h] \in Worker /\ IdOf(h) \in BoxID
      /\ meta \in [Worker -> [BoxID -> RunOfUse]]
  BY IdType DEF TypeOK
<1>1. \A g \in Handler : g # h => at'[g] = at[g] /\ IdOf(g)' = IdOf(g)
  BY <1>0 DEF TypeOK, Claim, initBox, createFiles, run, Exit, readMetadata, resetMetadata, cleanupBox,
     Goto, IdOf
<1>2. meta[w][i] # NoFile => Owned(w, i)
  BY DEF FilesOwned
<1>3. CASE Claim(h) \/ initBox(h) \/ createFiles(h) \/ run(h)
  <2>1. UNCHANGED meta /\ at[h] \notin {"stopped", "read"}
    BY <1>3 DEF Claim, initBox, createFiles, run
  <2> QED BY <1>1, <1>2, <2>1, OthersOwned
<1>4. CASE Exit(h)
  <2>1. at'[h] = "stopped" /\ IdOf(h)' = IdOf(h) /\ at[h] = "running" /\ SetMeta(h, RunTag(h))
    BY <1>0, <1>4 DEF Exit, Goto, IdOf
  <2>2. CASE HostOf[h] = w /\ IdOf(h) = i
    BY <2>1, <2>2 DEF Owned
  <2>3. CASE ~(HostOf[h] = w /\ IdOf(h) = i)
    <3>1. meta'[w][i] = meta[w][i]
      BY <1>0, <2>1, <2>3 DEF SetMeta
    <3> QED BY <1>1, <1>2, <2>1, <3>1, OthersOwned
  <2> QED BY <2>2, <2>3
<1>5. CASE readMetadata(h)
  <2>1. UNCHANGED meta /\ IdOf(h)' = IdOf(h)
    BY <1>5 DEF readMetadata, IdOf
  <2>2. CASE at[h] = "unlaunched"
    BY <1>1, <1>2, <2>1, <2>2, OthersOwned
  <2>3. CASE at[h] = "stopped" /\ MetaOf(h) # NoFile
    <3>1. at'[h] = "read"
      BY <1>0, <1>5, <2>3 DEF readMetadata, Goto
    <3> QED BY <1>1, <1>2, <2>1, <3>1, OthersOwned
  <2>4. CASE at[h] = "stopped" /\ MetaOf(h) = NoFile
    <3>1. ~(HostOf[h] = w /\ IdOf(h) = i)
      BY <2>1, <2>4 DEF MetaOf
    <3> QED BY <1>1, <1>2, <2>1, <3>1, OthersOwned
  <2> QED BY <1>5, <2>2, <2>3, <2>4 DEF readMetadata
<1>6. CASE cleanupBox(h)
  <2>1. CASE at[h] = "unfilled"
    <3>1. UNCHANGED meta
      BY <1>6, <2>1 DEF cleanupBox
    <3> QED BY <1>1, <1>2, <2>1, <3>1, OthersOwned
  <2>2. CASE at[h] # "unfilled"
    <3>1. SetMeta(h, NoFile)
      BY <1>6, <2>2 DEF cleanupBox
    <3>2. ~(HostOf[h] = w /\ IdOf(h) = i) /\ meta'[w][i] = meta[w][i]
      BY <1>0, <3>1 DEF SetMeta
    <3> QED BY <1>1, <1>2, <3>2, OthersOwned
  <2> QED BY <2>1, <2>2
<1>7. CASE resetMetadata(h)
  <2>1. ~(HostOf[h] = w /\ IdOf(h) = i) /\ meta'[w][i] = meta[w][i]
    BY <1>0, <1>7 DEF resetMetadata, SetMeta
  <2> QED BY <1>1, <1>2, <2>1, OthersOwned
<1> QED BY <1>3, <1>4, <1>5, <1>6, <1>7

LEMMA CrashFiles ==
  ASSUME TypeOK, FilesOwned, NEW c \in Worker, Crash(c)
  PROVE  FilesOwned'
<1> SUFFICES ASSUME NEW w \in Worker, NEW i \in BoxID,
                    meta'[w][i] # NoFile, ~(epoch'[w] > 0)
             PROVE  Owned(w, i)'
  BY DEF FilesOwned
<1>1. epoch \in [Worker -> Nat]
  BY BoxAssumption DEF TypeOK
<1>2. w # c /\ epoch'[w] = epoch[w] /\ UNCHANGED <<meta, ticket>>
  BY <1>1 DEF Crash
<1>3. PICK h \in Handler : /\ HostOf[h] = w /\ IdOf(h) = i
                           /\ at[h] \in {"stopped", "read"}
  BY <1>2 DEF FilesOwned, Owned
<1>4. at'[h] = at[h] /\ IdOf(h)' = IdOf(h)
  BY <1>2, <1>3 DEF Crash, IdOf
<1> QED BY <1>3, <1>4 DEF Owned

LEMMA NextFiles == TypeOK /\ FilesOwned /\ [Next]_vars => FilesOwned'
<1>1. FilesOwned /\ UNCHANGED vars => FilesOwned'
  BY DEF vars, FilesOwned, Owned, IdOf
<1> QED BY <1>1, HandlerFiles, CrashFiles DEF Next

LEMMA InitFiles == Init => FilesOwned /\ GuessesAfterCrash
BY DEF Init, FilesOwned, GuessesAfterCrash

\* Only readMetadata guesses, and it finds a file that nobody owns.
LEMMA NextGuesses ==
  TypeOK /\ SharersHaveMet /\ FilesOwned /\ GuessesAfterCrash /\ [Next]_vars
    => GuessesAfterCrash'
<1> SUFFICES ASSUME TypeOK, SharersHaveMet, FilesOwned, GuessesAfterCrash, [Next]_vars,
                    NEW h \in Handler \ met', at'[h] = "guessed"
             PROVE  epoch'[HostOf[h]] > 0
  BY DEF GuessesAfterCrash
<1>0. /\ at \in [Handler -> Place] /\ epoch \in [Worker -> Nat] /\ HostOf[h] \in Worker
      /\ IdOf(h) \in BoxID
  BY BoxAssumption, IdType DEF TypeOK
<1>1. CASE at[h] = "guessed"
  <2>1. h \notin met
    BY <1>0, <1>1 DEF Next, vars, Claim, initBox, createFiles, run, Exit, readMetadata,
       resetMetadata, cleanupBox, Crash, Goto
  <2>2. epoch[HostOf[h]] > 0
    BY <1>1, <2>1 DEF GuessesAfterCrash
  <2>3. UNCHANGED epoch \/ \E c \in Worker : epoch' = [epoch EXCEPT ![c] = @ + 1]
    BY DEF Next, vars, Claim, initBox, createFiles, run, Exit, readMetadata, resetMetadata,
       cleanupBox, Crash
  <2> QED BY <1>0, <2>2, <2>3
<1>2. CASE at[h] # "guessed"
  <2>1. readMetadata(h) /\ UNCHANGED <<epoch, met>>
    BY <1>0, <1>2 DEF Next, vars, Claim, initBox, createFiles, run, Exit, readMetadata,
       resetMetadata, cleanupBox, Crash, Goto
  <2>2. at[h] = "unlaunched" /\ meta[HostOf[h]][IdOf(h)] # NoFile
    BY <1>0, <2>1 DEF readMetadata, Goto, MetaOf
  <2>3. ~Owned(HostOf[h], IdOf(h))
    BY <2>1, <2>2 DEF Owned, SharersHaveMet, Live
  <2> QED BY <1>0, <2>1, <2>2, <2>3 DEF FilesOwned
<1> QED BY <1>1, <1>2

\* Whatever a handler reads after a run was produced by that run, across crashes
\* that leave boxes and metadata files behind and numbers that start again, and
\* a handler whose isolate did not start reads something only after a crash:
\* for any maxBoxID, and however often numbers collide, of every sandbox that
\* has not itself met one a whole number of rounds away.
THEOREM ReadsOwnResult == Spec => []OwnResult
<1>1. OwnTraces /\ GuessesAfterCrash => OwnResult
  BY DEF OwnTraces, Own, GuessesAfterCrash, OwnResult
<1> QED BY <1>1, InitType, NextType, InitMeets, NextBelow, NextMeets, InitOwn, NextOwn,
           InitFiles, NextFiles, NextGuesses, PTL DEF Spec

----------------------------------------------------------------------------
(* Results that are never stale, however often numbers collide: a finished *)
(* run has put a file of its own epoch there, and whoever shares its       *)
(* number can only replace it by another of that epoch or remove it.       *)

Recent(w, m) == m = NoFile \/ m[1][1] = epoch[w]

RecentFiles == \A h \in Handler : at[h] = "stopped" => Recent(HostOf[h], MetaOf(h))

FInv == RecentFiles /\ NoStaleResult

LEMMA InitRecent == Init => FInv
BY DEF Init, FInv, RecentFiles, NoStaleResult

\* What a handler's step does to a metadata file leaves it recent.
LEMMA HandlerWritesRecent ==
  ASSUME TypeOK, NEW g \in Handler,
         \/ Claim(g) \/ initBox(g) \/ createFiles(g) \/ run(g)
         \/ Exit(g) \/ readMetadata(g) \/ resetMetadata(g) \/ cleanupBox(g),
         NEW w \in Worker, NEW i \in BoxID, Recent(w, meta[w][i])
  PROVE  Recent(w, meta[w][i])'
<1>1. /\ meta \in [Worker -> [BoxID -> RunOfUse]] /\ UNCHANGED epoch
      /\ HostOf[g] \in Worker /\ IdOf(g) \in BoxID
  BY IdType DEF TypeOK, Claim, initBox, createFiles, run, Exit, readMetadata, resetMetadata, cleanupBox
<1>2. CASE SetMeta(g, RunTag(g))
  <2>1. RunTag(g)[1][1] = epoch[HostOf[g]]
    BY DEF RunTag, Tag
  <2> QED BY <1>1, <1>2, <2>1 DEF SetMeta, Recent
<1>3. CASE SetMeta(g, NoFile)
  BY <1>1, <1>3 DEF SetMeta, Recent
<1>4. CASE UNCHANGED meta
  BY <1>1, <1>4 DEF Recent
<1> QED BY <1>2, <1>3, <1>4 DEF Claim, initBox, createFiles, run, Exit, readMetadata, resetMetadata, cleanupBox

LEMMA HandlerRecent ==
  ASSUME TypeOK, FInv, NEW g \in Handler,
         \/ Claim(g) \/ initBox(g) \/ createFiles(g) \/ run(g)
         \/ Exit(g) \/ readMetadata(g) \/ resetMetadata(g) \/ cleanupBox(g)
  PROVE  FInv'
<1>1. /\ at \in [Handler -> Place] /\ ticket \in [Handler -> 0..MaxClaims]
      /\ meta \in [Worker -> [BoxID -> RunOfUse]] /\ got \in [Handler -> RunOfUse \X Use]
      /\ UNCHANGED epoch
  BY DEF TypeOK, Claim, initBox, createFiles, run, Exit, readMetadata, resetMetadata, cleanupBox
<1>2. RecentFiles'
  <2> SUFFICES ASSUME NEW h \in Handler, at'[h] = "stopped"
               PROVE  Recent(HostOf[h], MetaOf(h))'
    BY DEF RecentFiles
  <2>1. HostOf[h] \in Worker /\ IdOf(h) \in BoxID
    BY IdType
  <2>2. CASE Exit(h)
    <3>1. IdOf(h)' = IdOf(h)
      BY <2>2 DEF Exit, IdOf
    <3>2. meta'[HostOf[h]][IdOf(h)] = RunTag(h) /\ RunTag(h)[1][1] = epoch[HostOf[h]]
      BY <1>1, <2>1, <2>2 DEF Exit, SetMeta, RunTag, Tag
    <3> QED BY <1>1, <3>1, <3>2 DEF Recent, MetaOf
  <2>3. CASE ~Exit(h)
    <3>1. at[h] = "stopped" /\ IdOf(h)' = IdOf(h)
      BY <1>1, <2>3 DEF Claim, initBox, createFiles, run, Exit, readMetadata, resetMetadata, cleanupBox,
         Goto, IdOf
    <3>2. Recent(HostOf[h], meta[HostOf[h]][IdOf(h)])
      BY <3>1 DEF FInv, RecentFiles, MetaOf
    <3>3. Recent(HostOf[h], meta[HostOf[h]][IdOf(h)])'
      <4> DEFINE i == IdOf(h)
      <4>1. ASSUME NEW j \in BoxID, Recent(HostOf[h], meta[HostOf[h]][j])
            PROVE  Recent(HostOf[h], meta[HostOf[h]][j])'
        BY <2>1, <4>1, HandlerWritesRecent
      <4>2. Recent(HostOf[h], meta'[HostOf[h]][IdOf(h)])
        BY <1>1, <2>1, <3>2, <4>1 DEF Recent
      <4> QED BY <1>1, <3>1, <4>2 DEF Recent
    <3> QED BY <3>3 DEF Recent, MetaOf
  <2> QED BY <2>2, <2>3
<1>3. NoStaleResult'
  <2> SUFFICES ASSUME NEW h \in Handler, at'[h] = "read"
               PROVE  got'[h][1] # NoFile /\ got'[h][1][1][1] = epoch[HostOf[h]]
    BY <1>1 DEF NoStaleResult
  <2>1. CASE at[h] = "read"
    <3>1. got'[h] = got[h]
      BY <1>1, <2>1 DEF Claim, initBox, createFiles, run, Exit, readMetadata, resetMetadata, cleanupBox, Goto
    <3> QED BY <2>1, <3>1 DEF FInv, NoStaleResult
  <2>2. CASE at[h] # "read"
    <3>1. readMetadata(h) /\ at[h] = "stopped"
      BY <1>1, <2>2 DEF Claim, initBox, createFiles, run, Exit, readMetadata, resetMetadata, cleanupBox, Goto
    <3>2. MetaOf(h) # NoFile /\ got'[h][1] = MetaOf(h)
      BY <1>1, <3>1 DEF readMetadata, Goto
    <3> QED BY <3>1, <3>2 DEF FInv, RecentFiles, Recent
  <2> QED BY <2>1, <2>2
<1> QED BY <1>2, <1>3 DEF FInv

LEMMA CrashRecent == ASSUME TypeOK, FInv, NEW c \in Worker, Crash(c) PROVE FInv'
<1>1. /\ at \in [Handler -> Place] /\ epoch \in [Worker -> 0..MaxCrashes]
      /\ epoch' = [epoch EXCEPT ![c] = @ + 1] /\ UNCHANGED <<meta, ticket>>
  BY DEF TypeOK, Crash
<1>2. ASSUME NEW h \in Handler, at'[h] \in {"stopped", "read"}
      PROVE  /\ at[h] = at'[h] /\ got'[h] = got[h] /\ epoch'[HostOf[h]] = epoch[HostOf[h]]
             /\ HostOf[h] \in Worker /\ MetaOf(h)' = MetaOf(h)
  <2>1. HostOf[h] # c /\ HostOf[h] \in Worker
    BY <1>2, IdType DEF Crash
  <2> QED BY <1>1, <1>2, <2>1 DEF Crash, MetaOf, IdOf
<1>3. RecentFiles'
  <2> SUFFICES ASSUME NEW h \in Handler, at'[h] = "stopped"
               PROVE  Recent(HostOf[h], MetaOf(h))'
    BY DEF RecentFiles
  <2> QED BY <1>2 DEF FInv, RecentFiles, Recent
<1>4. NoStaleResult'
  BY <1>2 DEF FInv, NoStaleResult
<1> QED BY <1>3, <1>4 DEF FInv

LEMMA NextRecent == TypeOK /\ FInv /\ [Next]_vars => FInv'
<1>1. FInv /\ UNCHANGED vars => FInv'
  BY DEF vars, FInv, RecentFiles, NoStaleResult, Recent, MetaOf, IdOf
<1> QED BY <1>1, HandlerRecent, CrashRecent DEF Next

\* Even when numbers collide, what is taken for the report of a run that took
\* place was written since the process started: the files that restarts leave
\* behind are never read as results.
THEOREM NothingStaleIsRead == Spec => []NoStaleResult
<1>1. FInv => NoStaleResult
  BY DEF FInv
<1> QED BY <1>1, InitType, NextType, InitRecent, NextRecent, PTL DEF Spec

----------------------------------------------------------------------------
(* What readMetadata makes of a file of any length.                        *)

LEMMA LeastNumber ==
  ASSUME NEW S \in SUBSET Nat, S # {}
  PROVE  \E m \in S : \A k \in S : m <= k
<1> DEFINE R == OpToRel(<, Nat)
<1>1. \E m \in S : \A k \in S : ~(<<k, m>> \in R)
  <2>1. IsWellFoundedOn(R, Nat)
    BY NatLessThanWellFounded
  <2> HIDE DEF R
  <2> QED BY <2>1, WFMin
<1>2. \A k, m \in Nat : k < m => <<k, m>> \in R
  <2>1. R = {ss \in Nat \X Nat : ss[1] < ss[2]}
    BY Zenon DEF OpToRel
  <2> HIDE DEF R
  <2> QED BY <2>1
<1> HIDE DEF R
<1>3. PICK m \in S : \A k \in S : ~(<<k, m>> \in R)
  BY <1>1
<1>4. \A k \in S : ~(k < m)
  BY <1>2, <1>3
<1>5. \A k \in S : m <= k
  BY <1>4
<1> QED BY <1>5

\* What n turns of the loop make of the file.
Turns(file, g, n) ==
  g = [k \in 0..n |-> IF k = 0 THEN File!Zero ELSE File!Assign(g[k-1], file[k])]

LEMMA TurnsExist ==
  ASSUME NEW file, NEW n \in Nat
  PROVE  \E g : Turns(file, g, n)
<1> DEFINE Bad == {k \in Nat : \A g : ~Turns(file, g, k)}
<1> SUFFICES ASSUME Bad # {} PROVE FALSE
  OBVIOUS
<1>1. PICK m \in Bad : \A k \in Bad : m <= k
  BY LeastNumber
<1>2. CASE m = 0
  <2>1. Turns(file, [k \in 0..0 |-> File!Zero], 0)
    BY DEF Turns
  <2> QED BY <1>1, <1>2, <2>1
<1>3. CASE m > 0
  <2>1. m - 1 \in Nat /\ m - 1 \notin Bad
    BY <1>1, <1>3
  <2>2. PICK g : Turns(file, g, m - 1)
    BY <2>1
  <2> DEFINE next == [k \in 0..m |-> IF k < m THEN g[k] ELSE File!Assign(g[m-1], file[m])]
  <2>3. ASSUME NEW k \in 0..m
        PROVE  next[k] = IF k = 0 THEN File!Zero ELSE File!Assign(next[k-1], file[k])
    <3>1. CASE k < m
      BY <1>1, <1>3, <2>1, <2>2, <3>1 DEF Turns
    <3>2. CASE k = m
      BY <1>1, <1>3, <3>2
    <3> QED BY <1>1, <3>1, <3>2
  <2>4. Turns(file, next, m)
    <3> HIDE DEF next
    <3> QED BY <2>3 DEF Turns, next
  <2> QED BY <1>1, <2>4
<1> QED BY <1>1, <1>2, <1>3

LEMMA LoopTurns ==
  ASSUME NEW file \in Seq(File!Line)
  PROVE  Turns(file, File!Loop(File!Assign, File!Zero, file), Len(file))
<1>1. \E g : Turns(file, g, Len(file))
  BY TurnsExist
<1> QED BY <1>1 DEF Turns, File!Loop

\* The metadata holds, for each field, the value of the last of the first n
\* lines with its key, or nothing if there is none.
HoldsLast(file, m, n) ==
  /\ m = [field \in File!Field |-> m[field]]
  /\ \A field \in File!Field :
       /\ (\A i \in 1..n : file[i].key # field) => m[field] = File!Zero[field]
       /\ \A i \in 1..n :
            file[i].key = field /\ (\A j \in 1..n : file[j].key = field => j <= i)
            => m[field] = File!Value(field, file[i].value)

LEMMA OneTurn ==
  ASSUME NEW file, NEW n \in Nat, NEW m, HoldsLast(file, m, n)
  PROVE  HoldsLast(file, File!Assign(m, file[n+1]), n + 1)
<1> DEFINE line == file[n+1]
           next == File!Assign(m, line)
<1>1. next = [field \in File!Field |-> next[field]]
  BY DEF HoldsLast, File!Assign
<1>2. ASSUME NEW field \in File!Field
      PROVE  next[field] = IF line.key = field THEN File!Value(field, line.value) ELSE m[field]
  BY <1>2 DEF HoldsLast, File!Assign
<1> HIDE DEF next
<1>3. ASSUME NEW field \in File!Field, \A i \in 1..n+1 : file[i].key # field
      PROVE  next[field] = File!Zero[field]
  BY <1>2, <1>3 DEF HoldsLast
<1>4. ASSUME NEW field \in File!Field, NEW i \in 1..n+1, file[i].key = field,
             \A j \in 1..n+1 : file[j].key = field => j <= i
      PROVE  next[field] = File!Value(field, file[i].value)
  <2>1. CASE i = n + 1
    BY <1>2, <1>4, <2>1
  <2>2. CASE i # n + 1
    <3>1. line.key # field /\ i \in 1..n
      BY <1>4, <2>2
    <3> QED BY <1>2, <1>4, <3>1 DEF HoldsLast
  <2> QED BY <2>1, <2>2
<1> QED BY <1>1, <1>3, <1>4 DEF HoldsLast, next

LEMMA EveryTurn ==
  ASSUME NEW file, NEW n \in Nat, NEW g, Turns(file, g, n)
  PROVE  HoldsLast(file, g[n], n)
<1> DEFINE Bad == {k \in Nat : k <= n /\ ~HoldsLast(file, g[k], k)}
<1> SUFFICES ASSUME Bad # {} PROVE FALSE
  OBVIOUS
<1>1. PICK k \in Bad : \A j \in Bad : k <= j
  BY LeastNumber
<1>2. CASE k = 0
  <2>1. g[0] = File!Zero
    BY DEF Turns
  <2>2. HoldsLast(file, File!Zero, 0)
    BY DEF HoldsLast, File!Zero
  <2> QED BY <1>1, <1>2, <2>1, <2>2
<1>3. CASE k > 0
  <2>1. k - 1 \in Nat /\ (k - 1) + 1 = k /\ HoldsLast(file, g[k-1], k - 1)
    BY <1>1, <1>3
  <2>2. g[k] = File!Assign(g[k-1], file[k])
    BY <1>1, <1>3 DEF Turns
  <2>3. HoldsLast(file, File!Assign(g[k-1], file[(k-1)+1]), (k-1)+1)
    BY <2>1, OneTurn
  <2> QED BY <1>1, <2>1, <2>2, <2>3
<1> QED BY <1>1, <1>2, <1>3

\* strconv.ParseInt keeps the sign, and whether the number is 0.
LEMMA Saturates ==
  ASSUME NEW v \in [numeric : BOOLEAN, n : Int]
  PROVE  /\ File!ParseInt(v) \in -Int32Half .. Int32Half - 1
         /\ (File!ParseInt(v) = 0 <=> v.n = 0) /\ (File!ParseInt(v) < 0 <=> v.n < 0)
         /\ v.n \in -Int32Half .. Int32Half - 1 => File!ParseInt(v) = v.n
BY ReportAssumption DEF File!ParseInt

LEMMA FieldsDiffer ==
  ASSUME NEW field \in File!Field, NEW v
  PROVE  /\ field \in File!Whole => File!Value(field, v) = File!ParseInt(v)
         /\ field \in File!Real => File!Value(field, v) = v.n
         /\ field \in File!Text => File!Value(field, v) = v
BY DEF File!Field, File!Value, File!Whole, File!Real, File!Text

LEMMA ReportIsRead ==
  ASSUME NEW file \in Seq(File!Line), ~File!readMetadata(file).err, NEW field \in File!Field
  PROVE  LET read == File!readMetadata(file).meta[field] IN
           /\ File!LastLine(file, field) = {} => read = File!Zero[field]
           /\ \A line \in File!LastLine(file, field) :
                /\ line.value \in [numeric : BOOLEAN, n : Int]
                /\ read = File!Value(field, line.value)
<1> DEFINE m == File!readMetadata(file).meta
           n == Len(file)
           lines == {i \in DOMAIN file : file[i].key = field}
<1>1. n \in Nat /\ DOMAIN file = 1..n
  OBVIOUS
<1>2. HoldsLast(file, m, n)
  <2>1. File!Scanned(file) = file
    BY DEF File!readMetadata
  <2>2. m = File!Loop(File!Assign, File!Zero, file)[n]
    BY <2>1 DEF File!readMetadata
  <2> QED BY <1>1, <2>2, LoopTurns, EveryTurn
<1>3. ASSUME lines # {}
      PROVE  \E i \in lines : \A j \in lines : j <= i
  <2> DEFINE D == {n - i : i \in lines}
  <2>1. D \in SUBSET Nat /\ D # {}
    BY <1>1, <1>3
  <2>2. PICK d \in D : \A e \in D : d <= e
    BY <2>1, LeastNumber
  <2>3. PICK i \in lines : d = n - i
    BY <2>2
  <2>4. ASSUME NEW j \in lines PROVE j <= i
    <3>1. n - i <= n - j
      BY <2>2, <2>3
    <3> QED BY <1>1, <3>1
  <2> QED BY <2>4
<1>4. File!LastLine(file, field) = {file[i] : i \in {i \in lines : \A j \in lines : j <= i}}
  BY DEF File!LastLine
<1>5. ASSUME File!LastLine(file, field) = {} PROVE m[field] = File!Zero[field]
  <2>1. lines = {}
    BY <1>3, <1>4, <1>5
  <2> QED BY <1>1, <1>2, <2>1 DEF HoldsLast
<1>6. ASSUME NEW line \in File!LastLine(file, field)
      PROVE  /\ line.value \in [numeric : BOOLEAN, n : Int]
             /\ m[field] = File!Value(field, line.value)
  <2>1. PICK i \in lines : line = file[i] /\ \A j \in lines : j <= i
    BY <1>4
  <2>2. line \in File!Line
    BY <1>1, <2>1
  <2> QED BY <1>1, <1>2, <2>1, <2>2 DEF HoldsLast, File!Line
<1> QED BY <1>5, <1>6

\* Whatever lines a report consists of, and however many, what is read of it
\* without an error is what the last line with each key says, numbers out of
\* range included.
THEOREM ReportsAreUnderstood == Spec => []MetadataIsRead
<1>1. ReportsAreRead
  <2> SUFFICES ASSUME NEW file \in Reports, ~File!readMetadata(file).err, NEW field \in File!Field
               PROVE  LET read == File!readMetadata(file).meta[field] IN
                 /\ File!LastLine(file, field) = {} => read = File!Zero[field]
                 /\ \A line \in File!LastLine(file, field) :
                      /\ field \in File!Text => read = line.value
                      /\ field \in File!Real => read = line.value.n
                      /\ field \in File!Whole =>
                           /\ read \in -Int32Half .. Int32Half - 1
                           /\ (read = 0 <=> line.value.n = 0) /\ (read < 0 <=> line.value.n < 0)
                           /\ line.value.n \in -Int32Half .. Int32Half - 1 => read = line.value.n
    BY DEF ReportsAreRead, File!ReadsLastLine
  <2>1. file \in Seq(File!Line)
    BY ReportAssumption
  <2> QED BY <2>1, ReportIsRead, Saturates, FieldsDiffer
<1>2. MetadataIsRead
  BY <1>1 DEF MetadataIsRead
<1> QED BY <1>2, PTL

============================================================================
