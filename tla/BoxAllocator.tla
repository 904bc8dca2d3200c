---------------------------- MODULE BoxAllocator ----------------------------
(***************************************************************************)
(* Sandbox numbers.  Every worker process has a counter, and box n is      *)
(* counter % maxBoxID: nothing records which numbers are in use.  This     *)
(* module follows the sandboxes of execution.go from nextBoxID to          *)
(* cleanupBox, on the files of the worker's container: isolate's box       *)
(* directories and the metadata file /tmp/isolate_meta_<n>.txt.            *)
(*                                                                         *)
(* A tag names one use of a sandbox; the model records which use's source  *)
(* and output, and the metadata of which use's compilation or run, a file  *)
(* holds.  isolate itself is external: it locks a box while a program runs *)
(* in it, and resets a box it initialises.                                 *)
(***************************************************************************)
EXTENDS Integers, Sequences

CONSTANTS Handler, Worker, HostOf,
          MaxBoxID,     \* maxBoxID
          LaunchFails,  \* whether isolate may fail to start at all
          Reports, Int32Half, \* the metadata files of its runs, and 2^31
          MaxClaims, MaxCrashes

ASSUME BoxAssumption == /\ HostOf \in [Handler -> Worker]
                        /\ MaxBoxID \in Nat \ {0}
                        /\ MaxClaims \in Nat /\ MaxCrashes \in Nat
                        /\ LaunchFails \in BOOLEAN

VARIABLES counter,      \* boxIDCounter of each process
          epoch,        \* how often the process has been restarted
          at,           \* the step each handler's sandbox is at
          ticket,       \* the counter value it got
          turn,         \* 2 when it runs in the sandbox that it has compiled in
          ran,          \* whose source its isolate --run executes
          got,          \* whose metadata and output it read
          box,          \* the box directories of each worker
          meta,         \* the metadata files of each worker
          met           \* history: who has met another sandbox of its number

vars == <<counter, epoch, at, ticket, turn, ran, got, box, meta, met>>

File == INSTANCE Metadata

ASSUME ReportAssumption == Int32Half \in Nat /\ Int32Half > 1 /\ Reports \subseteq Seq(File!Line)

BoxID == 0 .. MaxBoxID - 1

nextBoxIDRaw(n) == n                         \* without the remainder
nextBoxID(n) == n % MaxBoxID

Tag(h) == <<epoch[HostOf[h]], ticket[h]>>
Nothing == <<0, 0>>
Use == (0..MaxCrashes) \X (0..MaxClaims)

RunTag(h) == <<Tag(h), turn[h]>>
NoFile == <<Nothing, 0>>
NoResult == <<NoFile, Nothing>>
RunOfUse == Use \X (0..2)

Absent == [ready |-> FALSE, source |-> Nothing, output |-> Nothing]
Fresh  == [ready |-> TRUE,  source |-> Nothing, output |-> Nothing]

Box == [ready : BOOLEAN, source : Use, output : Use]

Place == {"idle", "claimed", "ready", "filled", "running", "stopped", "read",
          "unlaunched", "guessed", "unfilled", "broken"}

\* "claimed" has a number, but isolate --init has not run yet.
Live(h) == at[h] # "idle"

IdOf(h) == nextBoxID(ticket[h])
BoxOf(h) == box[HostOf[h]][IdOf(h)]
MetaOf(h) == meta[HostOf[h]][IdOf(h)]
SetBox(h, b) == box' = [box EXCEPT ![HostOf[h]][IdOf(h)] = b]
SetMeta(h, m) == meta' = [meta EXCEPT ![HostOf[h]][IdOf(h)] = m]
Goto(h, p) == at' = [at EXCEPT ![h] = p]

Locked(h) == \E g \in Handler : /\ HostOf[g] = HostOf[h] /\ IdOf(g) = IdOf(h)
                                /\ at[g] = "running"

Init == /\ counter = [w \in Worker |-> 0]
        /\ epoch = [w \in Worker |-> 0]
        /\ at = [h \in Handler |-> "idle"]
        /\ ticket = [h \in Handler |-> 0]
        /\ turn = [h \in Handler |-> 1]
        /\ ran = [h \in Handler |-> Nothing]
        /\ got = [h \in Handler |-> NoResult]
        /\ box = [w \in Worker |-> [i \in BoxID |-> Absent]]
        /\ meta = [w \in Worker |-> [i \in BoxID |-> NoFile]]
        /\ met = {}

\* A whole number of rounds of the counter apart.
Rounds(a, b) == a # b /\ (b - a) % MaxBoxID = 0

\* Nothing asks which sandboxes are in use: the number may be that of a live
\* one.  met only records that.
Claim(h) ==
  LET w == HostOf[h]
      n == counter[w] + 1
      lapped == {g \in Handler : HostOf[g] = w /\ Live(g) /\ Rounds(ticket[g], n)}
  IN /\ at[h] = "idle"
     /\ n <= MaxClaims
     /\ counter' = [counter EXCEPT ![w] = n]
     /\ ticket' = [ticket EXCEPT ![h] = n]
     /\ turn' = [turn EXCEPT ![h] = 1]
     /\ met' = IF lapped = {} THEN met \ {h} ELSE met \cup lapped \cup {h}
     /\ Goto(h, "claimed")
     /\ UNCHANGED <<epoch, ran, got, box, meta>>

\* initBox, its retry after cleaning up a stale box included: only a box in
\* which a program is running resists.
initBox(h) ==
  /\ at[h] = "claimed"
  /\ IF Locked(h) THEN Goto(h, "idle") /\ UNCHANGED box
     ELSE Goto(h, "ready") /\ SetBox(h, Fresh)
  /\ UNCHANGED <<counter, epoch, ticket, turn, met, ran, got, meta>>

createFiles(h) ==
  /\ at[h] = "ready"
  /\ IF BoxOf(h).ready
     THEN Goto(h, "filled") /\ SetBox(h, [BoxOf(h) EXCEPT !.source = Tag(h)])
     ELSE Goto(h, "unfilled") /\ UNCHANGED box
  /\ UNCHANGED <<counter, epoch, ticket, turn, met, ran, got, meta>>

\* The exit code of isolate is not looked at: the metadata decides.
runUnchecked(h) ==
  /\ at[h] = "filled"
  /\ \/ /\ BoxOf(h).ready /\ ~Locked(h)
        /\ ran' = [ran EXCEPT ![h] = BoxOf(h).source]
        /\ Goto(h, "running")
     \/ /\ ~BoxOf(h).ready \/ Locked(h)
        /\ Goto(h, "stopped") /\ UNCHANGED ran
     \/ /\ LaunchFails
        /\ Goto(h, "unlaunched") /\ UNCHANGED ran
  /\ UNCHANGED <<counter, epoch, ticket, turn, met, got, box, meta>>

\* compile or run: isolate --run.  It exits with 2 when the box is in use or
\* does not exist; when it cannot be started, the code reads the metadata.
run(h) ==
  /\ at[h] = "filled"
  /\ \/ /\ BoxOf(h).ready /\ ~Locked(h)
        /\ ran' = [ran EXCEPT ![h] = BoxOf(h).source]
        /\ Goto(h, "running")
     \/ /\ ~BoxOf(h).ready \/ Locked(h)
        /\ Goto(h, "broken") /\ UNCHANGED ran
     \/ /\ LaunchFails
        /\ Goto(h, "unlaunched") /\ UNCHANGED ran
  /\ UNCHANGED <<counter, epoch, ticket, turn, met, got, box, meta>>

\* The program has ended: isolate has written the metadata file of this run;
\* the output is that of the source that was in the box.
Exit(h) ==
  /\ at[h] = "running"
  /\ Goto(h, "stopped")
  /\ SetBox(h, [BoxOf(h) EXCEPT !.output = ran[h]])
  /\ SetMeta(h, RunTag(h))
  /\ ran' = [ran EXCEPT ![h] = Nothing]
  /\ UNCHANGED <<counter, epoch, ticket, turn, met, got>>

\* Whatever file is there is taken for the report of this run, also when
\* isolate never started ("guessed").
readMetadata(h) ==
  /\ at[h] \in {"stopped", "unlaunched"}
  /\ IF MetaOf(h) = NoFile
     THEN Goto(h, "broken") /\ UNCHANGED got
     ELSE /\ Goto(h, IF at[h] = "stopped" THEN "read" ELSE "guessed")
          /\ got' = [got EXCEPT ![h] = <<MetaOf(h), BoxOf(h).output>>]
  /\ UNCHANGED <<counter, epoch, ticket, turn, met, ran, box, meta>>

\* The next run does not begin without a metadata file.
resetNothing(h) ==
  /\ at[h] = "read" /\ turn[h] = 1
  /\ Goto(h, "filled")
  /\ turn' = [turn EXCEPT ![h] = 2]
  /\ got' = [got EXCEPT ![h] = NoResult]
  /\ UNCHANGED <<counter, epoch, ticket, ran, box, meta, met>>

\* executeSingle has compiled in the sandbox: it removes the metadata file and
\* runs in the same sandbox.
resetMetadata(h) ==
  /\ at[h] = "read" /\ turn[h] = 1
  /\ Goto(h, "filled")
  /\ turn' = [turn EXCEPT ![h] = 2]
  /\ got' = [got EXCEPT ![h] = NoResult]
  /\ SetMeta(h, NoFile)
  /\ UNCHANGED <<counter, epoch, ticket, ran, box, met>>

\* Also removes the metadata file, unless the files could not be written.  A
\* cleanup isolate refuses is only logged.
cleanupBox(h) ==
  /\ at[h] \in {"read", "guessed", "unfilled", "broken"}
  /\ Goto(h, "idle")
  /\ IF at[h] = "unfilled" THEN UNCHANGED meta ELSE SetMeta(h, NoFile)
  /\ got' = [got EXCEPT ![h] = NoResult]
  /\ IF Locked(h) THEN UNCHANGED box ELSE SetBox(h, Absent)
  /\ UNCHANGED <<counter, epoch, ticket, turn, met, ran>>

\* The process restarts in its container: the counter starts again, the
\* files of the sandboxes are still there.
Crash(w) ==
  /\ epoch[w] < MaxCrashes
  /\ epoch' = [epoch EXCEPT ![w] = @ + 1]
  /\ counter' = [counter EXCEPT ![w] = 0]
  /\ at' = [h \in Handler |-> IF HostOf[h] = w THEN "idle" ELSE at[h]]
  /\ ran' = [h \in Handler |-> IF HostOf[h] = w THEN Nothing ELSE ran[h]]
  /\ got' = [h \in Handler |-> IF HostOf[h] = w THEN NoResult ELSE got[h]]
  /\ UNCHANGED <<ticket, turn, box, meta, met>>

Next == \/ \E h \in Handler : \/ Claim(h) \/ initBox(h) \/ createFiles(h) \/ run(h)
                              \/ Exit(h) \/ readMetadata(h) \/ resetMetadata(h) \/ cleanupBox(h)
        \/ \E w \in Worker : Crash(w)

Spec == Init /\ [][Next]_vars

----------------------------------------------------------------------------
TypeOK == /\ counter \in [Worker -> 0..MaxClaims]
          /\ epoch \in [Worker -> 0..MaxCrashes]
          /\ at \in [Handler -> Place]
          /\ ticket \in [Handler -> 0..MaxClaims]
          /\ turn \in [Handler -> {1, 2}]
          /\ ran \in [Handler -> Use]
          /\ got \in [Handler -> RunOfUse \X Use]
          /\ box \in [Worker -> [BoxID -> Box]]
          /\ meta \in [Worker -> [BoxID -> RunOfUse]]
          /\ met \subseteq Handler
          /\ \A h \in Handler : IdOf(h) \in BoxID

\* README: collision-free sandbox allocation.  Two sandboxes of one process
\* that are in use at the same time have different numbers.
CollisionFree == \A g, h \in Handler :
  g # h /\ Live(g) /\ Live(h) /\ HostOf[g] = HostOf[h] => IdOf(g) # IdOf(h)

\* What a handler reads back, the metadata and the output, comes from its own
\* run, and not the compilation before it, of its own source; and if isolate
\* did not start, it finds no file to mistake for a report, unless a crash of
\* its process has left one.  Only two sandboxes that live at the same time a
\* whole number of rounds of maxBoxID numbers apart are excused.
OwnResult == \A h \in Handler \ met :
  /\ at[h] = "read" => got[h] = <<RunTag(h), Tag(h)>>
  /\ at[h] = "guessed" => epoch[HostOf[h]] > 0

\* Even when numbers collide, the metadata read after a run was written since
\* the process started: isolate's exit code tells a run from none.
NoStaleResult == \A h \in Handler :
  at[h] = "read" => got[h][1] # NoFile /\ got[h][1][1][1] = epoch[HostOf[h]]

ReportsAreRead == File!ReadsLastLine(Reports)

\* Whatever lines the report of a run consists of, the handler that reads it
\* gets from readMetadata what they say, or an error.
MetadataIsRead == \A h \in Handler : at[h] = "read" => ReportsAreRead
============================================================================
