------------------------ MODULE SubmissionAPI_proofs ------------------------
(***************************************************************************)
(* Theorems about SubmissionAPI: whatever fails, and however requests      *)
(* interleave, submissions are stored whole or not at all, tasks name      *)
(* committed submissions, and an id that was returned has its one task.    *)
(***************************************************************************)
EXTENDS SubmissionAPI, FiniteSetTheorems, TLAPS

\* The requests whose transaction drew an id.
Drawn == {r \in Request : id[r] # 0}

\* The requests that have tried to insert their submission, or never will.
Early == {"new", "begin", "insert"}
Past == {r \in Request : at[r] \notin Early}

\* Ids are drawn once each, from a sequence of which no request takes more
\* than one number.
Ids == /\ nextId \in Nat \ {0} /\ nextId <= Cardinality(Past) + 1
       /\ \A r \in Drawn : id[r] \in Id /\ id[r] < nextId
       /\ \A q, r \in Drawn : id[q] = id[r] => q = r

\* What a goroutine that is at its step has done so far.
Mine(r) ==
  /\ at[r] \in {"new", "begin", "insert"} => id[r] = 0 /\ written[r] = {}
  /\ at[r] \in {"rows", "commit", "label", "enqueue"} => id[r] # 0
  /\ at[r] # "new" => body[r] \in Body
  /\ at[r] \in {"begin", "insert", "rows"} => body[r].tests # 0
  /\ at[r] \in {"rows", "commit"} => Accepted(body[r])
  /\ \E n \in Nat : written[r] = 1..n /\ (at[r] = "rows" => n < body[r].tests)
  /\ at[r] = "commit" => written[r] = Tests(r)
  /\ at[r] \in {"label", "enqueue"} \/ reply[r] = 201 =>
       subs[id[r]] # Absent /\ subs[id[r]].by = r
  /\ reply[r] = 201 => at[r] = "done" /\ id[r] # 0 /\ queue[id[r]] = 1

\* What is stored was committed by the request that drew its id.
Stored(i) == subs[i] # Absent =>
  /\ id[subs[i].by] = i
  /\ subs[i].rows = Tests(subs[i].by)
  /\ subs[i].limit = valOrDefault(body[subs[i].by].limit)
  /\ subs[i].limit > 0 /\ subs[i].limit <= MaxLimit
  /\ at[subs[i].by] \in {"label", "enqueue", "done", "lost"}

\* A task was pushed in the last step of the request.
Queued(i) == queue[i] > 0 => subs[i] # Absent /\ at[subs[i].by] = "done"

IInv == /\ TypeOK
        /\ Ids
        /\ \A r \in Request : Mine(r)
        /\ \A i \in Id : Stored(i) /\ Queued(i)

----------------------------------------------------------------------------
(* Facts about the operators.                                              *)

LEMMA BodyType ==
  ASSUME NEW b \in Body
  PROVE  b.tests \in Nat
BY APIAssumption DEF Bodies

LEMMA LimitType ==
  ASSUME NEW b \in Body
  PROVE  valOrDefault(b.limit) \in Int /\ valOrDefault(b.limit) <= MaxLimit
<1>1. b.limit \in Int \cup {Unset}
  BY APIAssumption DEF Bodies
<1> QED BY <1>1, APIAssumption DEF valOrDefault

LEMMA IntervalSize ==
  ASSUME NEW n \in Nat
  PROVE  Cardinality(1..n) = n
BY FS_Interval

LEMMA PastFinite == IsFiniteSet(Past) /\ Cardinality(Past) \in Nat
<1>1. Past \in SUBSET Request
  BY DEF Past
<1> QED BY <1>1, APIAssumption, FS_Subset, FS_CardinalityType

\* There is an id left for a request that is about to draw one.
LEMMA NextIdIsFree ==
  ASSUME Ids, NEW r \in Request, at[r] = "insert"
  PROVE  /\ nextId \in Id /\ nextId \in Nat /\ nextId # 0
         /\ Cardinality(Past \cup {r}) = Cardinality(Past) + 1
<1>1. Cardinality(Past \cup {r}) = Cardinality(Past) + 1
  BY PastFinite, FS_AddElement DEF Past, Early
<1>2. Past \cup {r} \in SUBSET Request
  BY DEF Past
<1>3. Cardinality(Past \cup {r}) <= Cardinality(Request)
  BY <1>2, APIAssumption, FS_Subset
<1>4. Cardinality(Request) \in Nat
  BY APIAssumption, FS_CardinalityType
<1> QED BY <1>1, <1>3, <1>4, PastFinite DEF Ids, Id

LEMMA FaultType ==
  ASSUME TypeOK, NEW k, Fault(k)
  PROVE  faults' \in 0..MaxFaults
BY APIAssumption DEF TypeOK, Fault

LEMMA GotoType ==
  ASSUME TypeOK, NEW r \in Request, NEW p \in Place, Goto(r, p)
  PROVE  at' \in [Request -> Place]
BY DEF TypeOK, Goto

LEMMA WorksOrFails ==
  ASSUME TypeOK, NEW r \in Request, NEW k, Works(r) \/ Fails(r, k)
  PROVE  faults' \in 0..MaxFaults
BY FaultType DEF TypeOK, Works, Fails

\* A step leaves the work of the requests that do not take it alone.
LEMMA OthersMine ==
  ASSUME NEW q \in Request, Mine(q),
         at'[q] = at[q], body'[q] = body[q], id'[q] = id[q],
         written'[q] = written[q], reply'[q] = reply[q],
         id[q] # 0 => subs'[id[q]] = subs[id[q]] /\ queue'[id[q]] = queue[id[q]]
  PROVE  Mine(q)'
BY DEF Mine, Tests

LEMMA InitInv == Init => IInv
<1> SUFFICES ASSUME Init PROVE IInv
  OBVIOUS
<1>1. TypeOK
  BY APIAssumption DEF Init, TypeOK, Place
<1>2. Ids
  <2>1. Drawn = {} /\ nextId = 1
    BY DEF Init, Drawn
  <2> QED BY <2>1, PastFinite DEF Ids
<1>3. ASSUME NEW r \in Request PROVE Mine(r)
  <2>1. written[r] = 1..0
    BY DEF Init
  <2> QED BY <2>1 DEF Init, Mine
<1>4. \A i \in Id : Stored(i) /\ Queued(i)
  BY DEF Init, Stored, Queued
<1> QED BY <1>1, <1>2, <1>3, <1>4 DEF IInv

----------------------------------------------------------------------------
(* The steps.                                                              *)

Later == {"label", "enqueue", "done", "lost"}

\* What is stored and queued stays justified while its request moves on.
LEMMA StoredKept ==
  ASSUME TypeOK, NEW i \in Id, Stored(i), Queued(i), UNCHANGED id,
         subs'[i] = subs[i], queue'[i] = queue[i],
         \A q \in Request : at[q] \in Later =>
            at'[q] \in Later /\ body'[q] = body[q] /\ (at[q] = "done" => at'[q] = "done")
  PROVE  Stored(i)' /\ Queued(i)'
<1>1. subs[i] # Absent => subs[i].by \in Request
  BY DEF TypeOK
<1> QED BY <1>1 DEF Stored, Queued, Later, Tests

LEMMA IdsKept ==
  ASSUME Ids, UNCHANGED <<id, nextId>>,
         \A q \in Request : at[q] \notin Early => at'[q] \notin Early
  PROVE  Ids'
<1>1. Past \in SUBSET Past' /\ Past' \in SUBSET Request
  BY DEF Past
<1>2. IsFiniteSet(Past')
  BY <1>1, APIAssumption, FS_Subset
<1>3. Cardinality(Past) <= Cardinality(Past') /\ Cardinality(Past') \in Nat
  BY <1>1, <1>2, FS_Subset, FS_CardinalityType
<1> QED BY <1>3, PastFinite DEF Ids, Drawn

\* An insert takes a number of the sequence, or none.
LEMMA PastGrows ==
  ASSUME TypeOK, Ids, NEW r \in Request, at[r] = "insert", NEW p \in Place \ Early,
         Goto(r, p), nextId' \in {nextId, nextId + 1}
  PROVE  nextId' \in Nat \ {0} /\ nextId' <= Cardinality(Past') + 1
<1>1. Past' = Past \cup {r}
  BY DEF Past, Early, Goto, TypeOK
<1> QED BY <1>1, NextIdIsFree, PastFinite DEF Ids

LEMMA ReceiveInv ==
  ASSUME IInv, NEW r \in Request, NEW b \in Body, Receive(r, b)
  PROVE  IInv'
<1>0. /\ TypeOK /\ Mine(r) /\ at[r] = "new" /\ body' = [body EXCEPT ![r] = b]
      /\ id[r] = 0 /\ written[r] = {} /\ reply[r] # 201
      /\ UNCHANGED <<cancelled, id, written, nextId, subs, queue, faults>>
  BY DEF IInv, Mine, Receive
<1>1. \/ at' = [at EXCEPT ![r] = "done"] /\ reply' = [reply EXCEPT ![r] = 400]
      \/ at' = [at EXCEPT ![r] = "done"] /\ reply' = [reply EXCEPT ![r] = 422]
      \/ at' = [at EXCEPT ![r] = "begin"] /\ ~Invalid(b) /\ UNCHANGED reply
  BY DEF Receive, Answer, Goto
<1>2. TypeOK'
  BY <1>0, <1>1 DEF TypeOK, Place, Tests
<1>3. Ids'
  BY <1>0, <1>1, IdsKept DEF IInv, TypeOK, Early
<1>4. Mine(r)'
  BY <1>0, <1>1, BodyType DEF Mine, TypeOK, Invalid
<1>5. ASSUME NEW q \in Request, q # r PROVE Mine(q)'
  BY <1>0, <1>1, <1>5, OthersMine DEF IInv, TypeOK
<1>6. ASSUME NEW i \in Id PROVE Stored(i)' /\ Queued(i)'
  BY <1>0, <1>1, <1>6, StoredKept DEF IInv, TypeOK, Later
<1> QED BY <1>2, <1>3, <1>4, <1>5, <1>6 DEF IInv

\* The steps that only move on or answer with an error.
LEMMA MoveInv ==
  ASSUME IInv, NEW r \in Request,
         UNCHANGED <<body, cancelled, id, written, subs, queue>>,
         faults' \in 0..MaxFaults,
         nextId' = nextId \/ (at[r] = "insert" /\ nextId' = nextId + 1),
         \/ /\ at[r] \in {"begin", "insert", "rows", "commit"} /\ Answer(r, 422)
         \/ /\ at[r] = "begin" /\ Goto(r, "insert") /\ UNCHANGED reply
         \/ /\ at[r] = "label" /\ Goto(r, "enqueue") /\ UNCHANGED reply
         \/ /\ at[r] = "enqueue" /\ Answer(r, 422)
  PROVE  IInv'
<1>0. TypeOK /\ Mine(r)
  BY DEF IInv
<1>2. TypeOK'
  BY <1>0 DEF TypeOK, Place, Tests, Answer, Goto
<1>3. Ids'
  <2>1. CASE at[r] = "insert"
    <3>1. Goto(r, "done") /\ "done" \in Place \ Early
      BY <2>1 DEF Answer, Place, Early
    <3>2. nextId' \in Nat \ {0} /\ nextId' <= Cardinality(Past') + 1 /\ nextId <= nextId'
      BY <1>0, <2>1, <3>1, PastGrows DEF IInv, Ids
    <3> QED BY <1>0, <3>2 DEF IInv, Ids, Drawn, TypeOK
  <2>2. CASE at[r] # "insert"
    BY <1>0, <2>2, IdsKept DEF IInv, TypeOK, Early, Answer, Goto
  <2> QED BY <2>1, <2>2
<1>4. Mine(r)'
  <2>1. CASE Answer(r, 422)
    <3>1. at'[r] = "done" /\ reply'[r] = 422
      BY <1>0, <2>1 DEF Answer, Goto, TypeOK
    <3>2. body'[r] \in Body
      BY <1>0 DEF Mine
    <3> QED BY <1>0, <3>1, <3>2 DEF Mine
  <2>2. CASE at[r] = "begin" /\ Goto(r, "insert") /\ UNCHANGED reply
    <3>1. at'[r] = "insert" /\ reply'[r] = reply[r]
      BY <1>0, <2>2 DEF Goto, TypeOK
    <3> QED BY <1>0, <2>2, <3>1 DEF Mine
  <2>3. CASE at[r] = "label" /\ Goto(r, "enqueue") /\ UNCHANGED reply
    <3>1. at'[r] = "enqueue" /\ reply'[r] = reply[r]
      BY <1>0, <2>3 DEF Goto, TypeOK
    <3> QED BY <1>0, <2>3, <3>1 DEF Mine
  <2> QED BY <2>1, <2>2, <2>3
<1>5. ASSUME NEW q \in Request, q # r PROVE Mine(q)'
  <2>1. at'[q] = at[q] /\ reply'[q] = reply[q]
    BY <1>0, <1>5 DEF Answer, Goto, TypeOK
  <2> QED BY <2>1, OthersMine DEF IInv
<1>6. ASSUME NEW i \in Id PROVE Stored(i)' /\ Queued(i)'
  <2>1. \A q \in Request : at[q] \in Later =>
          at'[q] \in Later /\ (at[q] = "done" => at'[q] = "done")
    BY <1>0 DEF Answer, Goto, TypeOK, Later
  <2> QED BY <2>1, StoredKept DEF IInv
<1> QED BY <1>2, <1>3, <1>4, <1>5, <1>6 DEF IInv

LEMMA BeginInv ==
  ASSUME IInv, NEW r \in Request, Begin(r) \/ GetLanguage(r)
  PROVE  IInv'
<1>1. faults' \in 0..MaxFaults
  BY WorksOrFails DEF IInv, Begin, GetLanguage, TypeOK
<1> QED BY <1>1, MoveInv DEF Begin, GetLanguage, local

LEMMA InsertSubmissionInv ==
  ASSUME IInv, NEW r \in Request, InsertSubmission(r)
  PROVE  IInv'
<1>0. /\ TypeOK /\ Mine(r) /\ Ids /\ at[r] = "insert" /\ id[r] = 0 /\ written[r] = {}
      /\ body[r] \in Body /\ body[r].tests # 0
      /\ UNCHANGED <<body, cancelled, written, subs, queue>>
  BY DEF IInv, Mine, InsertSubmission
<1>1. faults' \in 0..MaxFaults
  BY <1>0, WorksOrFails DEF InsertSubmission, TypeOK
<1>2. CASE UNCHANGED id /\ nextId' \in {nextId, nextId + 1} /\ Answer(r, 422)
  BY <1>0, <1>1, <1>2, MoveInv
<1>3. CASE /\ id' = [id EXCEPT ![r] = nextId] /\ nextId' = nextId + 1
           /\ Goto(r, "rows") /\ UNCHANGED reply
  <2>0. /\ nextId \in Id /\ nextId \in Nat /\ nextId # 0
    BY <1>0, NextIdIsFree
  <2>1. TypeOK'
    BY <1>0, <1>1, <1>3, <2>0 DEF TypeOK, Place, Goto, Tests
  <2>2. Ids'
    <3>1. Drawn' = Drawn \cup {r}
      BY <1>0, <1>3, <2>0 DEF Drawn, TypeOK
    <3>2. nextId' \in Nat \ {0} /\ nextId' <= Cardinality(Past') + 1
      BY <1>0, <1>3, PastGrows DEF Place, Early
    <3>3. \A q \in Drawn' : id'[q] \in Id /\ id'[q] < nextId'
      BY <1>0, <1>3, <2>0, <3>1 DEF Ids, TypeOK, Drawn
    <3>4. \A p, q \in Drawn' : id'[p] = id'[q] => p = q
      BY <1>0, <1>3, <2>0, <3>1 DEF Ids, TypeOK, Drawn
    <3> QED BY <3>2, <3>3, <3>4 DEF Ids
  <2>3. Mine(r)'
    <3>1. at'[r] = "rows" /\ id'[r] # 0 /\ reply'[r] # 201
      BY <1>0, <1>3, <2>0 DEF Mine, TypeOK, Goto
    <3>2. written'[r] = 1..0 /\ 0 < body'[r].tests
      BY <1>0, BodyType
    <3>3. Accepted(body[r])
      <4>1. at'[r] = "rows"
        BY <3>1
      <4> QED BY <1>0, <4>1 DEF InsertSubmission, Answer, Goto, TypeOK
    <3> QED BY <1>0, <3>1, <3>2, <3>3 DEF Mine
  <2>4. ASSUME NEW q \in Request, q # r PROVE Mine(q)'
    BY <1>0, <1>3, <2>4, OthersMine DEF IInv, TypeOK, Goto
  <2>5. ASSUME NEW i \in Id PROVE Stored(i)' /\ Queued(i)'
    <3>1. subs[i] # Absent => subs[i].by \in Request /\ subs[i].by # r
      BY <1>0 DEF TypeOK, IInv, Stored
    <3>2. \A q \in Request : q # r => id'[q] = id[q] /\ at'[q] = at[q]
      BY <1>0, <1>3 DEF TypeOK, Goto
    <3> QED BY <1>0, <3>1, <3>2 DEF IInv, Stored, Queued, Tests
  <2> QED BY <2>1, <2>2, <2>3, <2>4, <2>5 DEF IInv
<1> QED BY <1>2, <1>3 DEF InsertSubmission

LEMMA InsertRowInv ==
  ASSUME IInv, NEW r \in Request, InsertRow(r)
  PROVE  IInv'
<1>0. /\ TypeOK /\ Mine(r) /\ at[r] = "rows" /\ id[r] # 0 /\ reply[r] # 201
      /\ body[r] \in Body /\ body[r].tests \in Nat
      /\ UNCHANGED <<body, cancelled, id, nextId, subs, queue>>
  BY BodyType DEF IInv, Mine, InsertRow
<1>1. faults' \in 0..MaxFaults
  BY <1>0, WorksOrFails DEF InsertRow
<1>2. CASE Answer(r, 422) /\ UNCHANGED written
  BY <1>0, <1>1, <1>2, MoveInv
<1>3. CASE ~(Answer(r, 422) /\ UNCHANGED written)
  <2>1. PICK n \in Nat : written[r] = 1..n /\ n < body[r].tests
    BY <1>0 DEF Mine
  <2>2. Cardinality(written[r]) = n
    BY <2>1, IntervalSize
  <2>3. /\ written' = [written EXCEPT ![r] = 1..n+1]
        /\ Goto(r, IF n + 1 = body[r].tests THEN "commit" ELSE "rows")
        /\ UNCHANGED reply
    <3>1. 1..n \cup {n + 1} = 1..n+1
      BY <2>1
    <3>2. /\ written' = [written EXCEPT ![r] = @ \cup {n + 1}]
          /\ Goto(r, IF n + 1 = body[r].tests THEN "commit" ELSE "rows")
          /\ UNCHANGED reply
      BY <1>3, <2>2 DEF InsertRow, Position
    <3> QED BY <1>0, <2>1, <3>1, <3>2 DEF TypeOK
  <2>4. /\ written'[r] = 1..n+1 /\ written'[r] \subseteq Tests(r) /\ written'[r] \in SUBSET Nat
        /\ at'[r] \in {"commit", "rows"}
        /\ at'[r] = "rows" => n + 1 < body[r].tests
        /\ at'[r] = "commit" => n + 1 = body[r].tests
    BY <1>0, <2>1, <2>3 DEF TypeOK, Goto, Tests
  <2>5. TypeOK'
    <3>1. written' \in [Request -> SUBSET Nat]
      BY <1>0, <2>3, <2>4 DEF TypeOK
    <3>2. ASSUME NEW q \in Request, written'[q] # {} PROVE written'[q] \subseteq Tests(q)'
      <4>0. Tests(q)' = Tests(q)
        BY <1>0 DEF Tests
      <4>1. CASE q = r
        BY <2>4, <4>0, <4>1
      <4>2. CASE q # r
        <5>1. written'[q] = written[q]
          BY <1>0, <2>3, <4>2 DEF TypeOK
        <5> QED BY <1>0, <3>2, <4>0, <5>1 DEF TypeOK
      <4> QED BY <4>1, <4>2
    <3>3. at' \in [Request -> Place]
      BY <1>0, <2>3, GotoType DEF Place
    <3> QED BY <1>0, <1>1, <2>3, <3>1, <3>2, <3>3 DEF TypeOK
  <2>6. Mine(r)'
    BY <1>0, <2>1, <2>3, <2>4 DEF Mine, Tests
  <2>7. ASSUME NEW q \in Request, q # r PROVE Mine(q)'
    BY <1>0, <2>3, <2>7, OthersMine DEF IInv, TypeOK, Goto
  <2>8. ASSUME NEW i \in Id PROVE Stored(i)' /\ Queued(i)'
    BY <1>0, <2>3, StoredKept DEF IInv, TypeOK, Goto, Later
  <2>9. Ids'
    BY <1>0, <2>3, IdsKept DEF IInv, TypeOK, Goto, Early
  <2> QED BY <2>5, <2>6, <2>7, <2>8, <2>9 DEF IInv
<1> QED BY <1>2, <1>3

\* No other request has the id of r, and its submission is not stored yet.
LEMMA OwnId ==
  ASSUME IInv, NEW r \in Request, id[r] # 0
  PROVE  /\ id[r] \in Id
         /\ \A q \in Request : q # r /\ id[q] # 0 => id[q] # id[r]
         /\ at[r] = "commit" => subs[id[r]] = Absent /\ queue[id[r]] = 0
         /\ at[r] = "enqueue" => queue[id[r]] = 0
<1>1. id[r] \in Id /\ \A q \in Request : q # r /\ id[q] # 0 => id[q] # id[r]
  BY DEF IInv, Ids, Drawn
<1>2. Stored(id[r]) /\ Queued(id[r]) /\ Mine(r) /\ queue[id[r]] \in Nat
      /\ (subs[id[r]] # Absent => subs[id[r]].by \in Request)
  BY <1>1 DEF IInv, TypeOK
<1>3. at[r] = "commit" => subs[id[r]] = Absent
  BY <1>1, <1>2 DEF Stored
<1>4. at[r] = "enqueue" => subs[id[r]].by = r
  BY <1>2 DEF Mine
<1> QED BY <1>1, <1>2, <1>3, <1>4 DEF Queued

\* The transaction takes effect, whether or not it is heard.
LEMMA StoreInv ==
  ASSUME IInv, NEW r \in Request, at[r] = "commit", Store(r, written[r]),
         \/ Goto(r, "label") /\ UNCHANGED reply
         \/ Answer(r, 422),
         UNCHANGED <<body, cancelled, id, written, nextId, queue>>,
         faults' \in 0..MaxFaults
  PROVE  IInv'
<1>0. TypeOK /\ Mine(r) /\ id[r] # 0 /\ written[r] = Tests(r) /\ written[r] \in SUBSET Nat
  <2>1. TypeOK /\ Mine(r)
    BY DEF IInv
  <2>2. id[r] # 0 /\ written[r] = Tests(r)
    BY <2>1 DEF Mine
  <2> QED BY <2>1, <2>2 DEF TypeOK
<1> DEFINE sub == Submitted(r, written[r])
<1>a. /\ sub.by = r /\ sub.rows = written[r]
      /\ sub.limit = valOrDefault(body[r].limit) /\ sub.limit \in Int
      /\ sub.limit > 0 /\ sub.limit <= MaxLimit
  <2>1. body[r] \in Body /\ Accepted(body[r])
    BY <1>0 DEF Mine
  <2> QED BY <2>1, LimitType DEF Submitted, Accepted
<1>1. id[r] \in Id /\ \A q \in Request : q # r /\ id[q] # 0 => id[q] # id[r]
  BY <1>0, OwnId
<1>2. sub \in [by : Request, rows : SUBSET Nat, limit : Int] /\ sub # Absent
  BY <1>0, <1>a, APIAssumption DEF Submitted
<1>3. /\ subs'[id[r]] = sub /\ \A i \in Id : i # id[r] => subs'[i] = subs[i]
      /\ subs' \in [Id -> [by : Request, rows : SUBSET Nat, limit : Int] \cup {Absent}]
  BY <1>0, <1>1, <1>2 DEF Store, TypeOK
<1>4. /\ at'[r] \in {"label", "done"} /\ at' \in [Request -> Place]
      /\ reply'[r] # 201
      /\ \A q \in Request : q # r => at'[q] = at[q] /\ reply'[q] = reply[q]
      /\ reply' \in [Request -> {0, 201, 400, 422}]
  <2>1. reply[r] # 201
    BY <1>0 DEF Mine
  <2> QED BY <1>0, <2>1 DEF Goto, Answer, TypeOK, Place
<1>5. TypeOK'
  BY <1>0, <1>3, <1>4 DEF TypeOK, Tests
<1>6. Ids'
  BY <1>4, IdsKept DEF IInv, Early
<1>7. Mine(r)'
  BY <1>0, <1>a, <1>2, <1>3, <1>4 DEF Mine
<1>8. ASSUME NEW q \in Request, q # r PROVE Mine(q)'
  <2>1. id[q] # 0 => subs'[id[q]] = subs[id[q]]
    BY <1>1, <1>3, <1>8 DEF IInv, Ids, Drawn
  <2> QED BY <1>4, <1>8, <2>1, OthersMine DEF IInv
<1>9. ASSUME NEW i \in Id PROVE Stored(i)' /\ Queued(i)'
  <2>1. CASE i # id[r]
    BY <1>3, <1>4, <2>1, StoredKept DEF IInv, Later
  <2>2. CASE i = id[r]
    <3>1. subs'[i].by = r /\ subs'[i].rows = Tests(r) /\ queue'[i] = 0
      BY <1>0, <1>a, <1>3, <2>2, OwnId
    <3>2. /\ subs'[i].limit = valOrDefault(body[r].limit)
          /\ subs'[i].limit > 0 /\ subs'[i].limit <= MaxLimit
      BY <1>a, <1>3, <2>2
    <3> QED BY <1>4, <2>2, <3>1, <3>2 DEF Stored, Queued, Tests
  <2> QED BY <2>1, <2>2
<1> QED BY <1>5, <1>6, <1>7, <1>8, <1>9 DEF IInv

LEMMA CommitInv ==
  ASSUME IInv, NEW r \in Request, Commit(r)
  PROVE  IInv'
<1>1. faults' \in 0..MaxFaults
  BY WorksOrFails, FaultType DEF IInv, Commit
<1>2. CASE UNCHANGED subs /\ Answer(r, 422)
  BY <1>1, <1>2, MoveInv DEF Commit
<1>3. CASE /\ Store(r, written[r])
           /\ \/ Goto(r, "label") /\ UNCHANGED reply
              \/ Answer(r, 422)
  BY <1>1, <1>3, StoreInv DEF Commit
<1> QED BY <1>2, <1>3 DEF Commit

LEMMA EnqueueInv ==
  ASSUME IInv, NEW r \in Request, Enqueue(r)
  PROVE  IInv'
<1>0. /\ TypeOK /\ Mine(r) /\ at[r] = "enqueue" /\ id[r] # 0
      /\ subs[id[r]] # Absent /\ subs[id[r]].by = r
      /\ UNCHANGED <<body, cancelled, id, written, nextId, subs>>
  BY DEF IInv, Mine, Enqueue
<1>1. faults' \in 0..MaxFaults
  BY <1>0, FaultType DEF Enqueue, TypeOK
<1>2. CASE UNCHANGED queue /\ Answer(r, 422)
  BY <1>0, <1>1, <1>2, MoveInv
<1>3. CASE Push(r) /\ (\E code \in {201, 422} : Answer(r, code))
  <2>1. /\ id[r] \in Id /\ queue[id[r]] = 0
        /\ \A q \in Request : q # r /\ id[q] # 0 => id[q] # id[r]
    BY <1>0, OwnId
  <2>2. /\ queue' \in [Id -> Nat] /\ queue'[id[r]] = 1
        /\ \A i \in Id : i # id[r] => queue'[i] = queue[i]
    BY <1>0, <1>3, <2>1 DEF Push, TypeOK
  <2>3. /\ at' \in [Request -> Place] /\ at'[r] = "done" /\ reply'[r] \in {201, 422}
        /\ reply' \in [Request -> {0, 201, 400, 422}]
        /\ \A q \in Request : q # r => at'[q] = at[q] /\ reply'[q] = reply[q]
    BY <1>0, <1>3 DEF Answer, Goto, TypeOK, Place
  <2>4. TypeOK'
    BY <1>0, <1>1, <2>2, <2>3 DEF TypeOK, Tests
  <2>5. Ids'
    BY <1>0, <2>3, IdsKept DEF IInv, Early
  <2>6. Mine(r)'
    BY <1>0, <2>2, <2>3 DEF Mine
  <2>7. ASSUME NEW q \in Request, q # r PROVE Mine(q)'
    <3>1. id[q] # 0 => queue'[id[q]] = queue[id[q]]
      BY <2>1, <2>2, <2>7 DEF IInv, Ids, Drawn
    <3> QED BY <1>0, <2>3, <2>7, <3>1, OthersMine DEF IInv
  <2>8. ASSUME NEW i \in Id PROVE Stored(i)' /\ Queued(i)'
    <3>1. CASE i # id[r]
      BY <1>0, <2>2, <2>3, <3>1, StoredKept DEF IInv, Later
    <3>2. CASE i = id[r]
      BY <1>0, <2>3, <3>2 DEF IInv, Stored, Queued, Tests
    <3> QED BY <3>1, <3>2
  <2> QED BY <2>4, <2>5, <2>6, <2>7, <2>8 DEF IInv
<1> QED BY <1>2, <1>3 DEF Enqueue

LEMMA DisconnectInv ==
  ASSUME IInv, NEW r \in Request, Disconnect(r)
  PROVE  IInv'
<1>0. TypeOK /\ UNCHANGED <<at, body, id, written, reply, nextId, subs, queue>>
  BY DEF IInv, Disconnect
<1>1. TypeOK'
  <2>1. faults' \in 0..MaxFaults /\ cancelled' \in [Request -> BOOLEAN]
    BY <1>0, FaultType DEF Disconnect, TypeOK
  <2> QED BY <1>0, <2>1 DEF TypeOK, Tests
<1>2. Ids'
  BY <1>0, IdsKept DEF IInv
<1>3. \A q \in Request : Mine(q)'
  BY <1>0, OthersMine DEF IInv
<1>4. \A i \in Id : Stored(i)' /\ Queued(i)'
  BY <1>0, StoredKept DEF IInv
<1> QED BY <1>1, <1>2, <1>3, <1>4 DEF IInv

LEMMA CrashInv ==
  ASSUME IInv, Crash
  PROVE  IInv'
<1>0. /\ TypeOK /\ UNCHANGED <<body, cancelled, id, written, reply, nextId, subs, queue>>
      /\ \A q \in Request : /\ InFlight(q) => at'[q] = "lost"
                            /\ ~InFlight(q) => at'[q] = at[q]
  BY DEF IInv, Crash, local
<1>1. TypeOK'
  <2>1. faults' \in 0..MaxFaults
    BY <1>0, FaultType DEF Crash
  <2>2. at' \in [Request -> Place]
    BY <1>0 DEF Crash, TypeOK, Place
  <2> QED BY <1>0, <2>1, <2>2 DEF TypeOK, Tests
<1>2. Ids'
  BY <1>0, IdsKept DEF IInv, InFlight, Early
<1>3. ASSUME NEW q \in Request PROVE Mine(q)'
  <2>1. Mine(q)
    BY DEF IInv
  <2>2. CASE InFlight(q)
    BY <1>0, <2>1, <2>2 DEF Mine, InFlight, Tests
  <2>3. CASE ~InFlight(q)
    BY <1>0, <2>1, <2>3, OthersMine
  <2> QED BY <2>2, <2>3
<1>4. ASSUME NEW i \in Id PROVE Stored(i)' /\ Queued(i)'
  BY <1>0, StoredKept DEF IInv, InFlight, Later
<1> QED BY <1>1, <1>2, <1>3, <1>4 DEF IInv

LEMMA NextInv == IInv /\ [Next]_vars => IInv'
<1> SUFFICES ASSUME IInv, [Next]_vars PROVE IInv'
  OBVIOUS
<1>1. CASE UNCHANGED vars
  <2>1. TypeOK' /\ Ids'
    BY <1>1, IdsKept DEF vars, IInv, TypeOK, Tests
  <2>2. \A q \in Request : Mine(q)'
    BY <1>1, OthersMine DEF vars, IInv
  <2>3. \A i \in Id : Stored(i)' /\ Queued(i)'
    BY <1>1, StoredKept DEF vars, IInv
  <2> QED BY <2>1, <2>2, <2>3 DEF IInv
<1>2. ASSUME NEW r \in Request, Step(r) PROVE IInv'
  BY <1>2, BeginInv, InsertSubmissionInv, InsertRowInv, CommitInv, EnqueueInv DEF Step
<1>3. ASSUME NEW r \in Request, NEW b \in Body, Receive(r, b) PROVE IInv'
  BY <1>3, ReceiveInv
<1> QED BY <1>1, <1>2, <1>3, DisconnectInv, CrashInv DEF Next

----------------------------------------------------------------------------
(* Submissions that no task names.                                         *)

Cancelled == {r \in Request : cancelled[r]}

LEMMA Finite ==
  /\ IsFiniteSet(Orphans) /\ Cardinality(Orphans) \in Nat
  /\ IsFiniteSet(Cancelled) /\ Cardinality(Cancelled) \in Nat
<1>1. Cardinality(Request) \in Nat
  BY APIAssumption, FS_CardinalityType
<1>2. IsFiniteSet(Id)
  BY <1>1, FS_Interval DEF Id
<1>3. Orphans \in SUBSET Id /\ Cancelled \in SUBSET Request
  BY DEF Orphans, Cancelled
<1> QED BY <1>2, <1>3, APIAssumption, FS_Subset, FS_CardinalityType

LEMMA OneMore ==
  ASSUME NEW S, IsFiniteSet(S), Cardinality(S) \in Nat, NEW x
  PROVE  /\ IsFiniteSet(S \cup {x}) /\ Cardinality(S \cup {x}) \in Nat
         /\ Cardinality(S \cup {x}) <= Cardinality(S) + 1
<1>1. /\ IsFiniteSet(S \cup {x})
      /\ Cardinality(S \cup {x}) \in {Cardinality(S), Cardinality(S) + 1}
  BY FS_AddElement
<1> QED BY <1>1

LEMMA NoOrphanCounts ==
  /\ NoOrphan <=> Cardinality(Orphans) + Cardinality(Cancelled) <= faults
  /\ NoOrphan' <=> Cardinality(Orphans') + Cardinality(Cancelled') <= faults'
BY DEF NoOrphan, Cancelled

\* A step that adds nothing to either set.
LEMMA NoNewOrphan ==
  ASSUME TypeOK, TypeOK', NoOrphan, Orphans' \subseteq Orphans, UNCHANGED cancelled,
         faults' >= faults
  PROVE  NoOrphan'
<1>1. Cardinality(Orphans') \in Nat /\ Cardinality(Orphans') <= Cardinality(Orphans)
  BY Finite, FS_Subset, FS_CardinalityType
<1>2. Cardinality(Cancelled) \in Nat /\ Cancelled' = Cancelled
  BY Finite DEF Cancelled
<1> QED BY <1>1, <1>2, Finite DEF NoOrphan, Cancelled, TypeOK

\* A step that leaves the submission of one request without a task, for a fault.
LEMMA PaidOrphan ==
  ASSUME TypeOK, NoOrphan, NEW r \in Request, Orphans' \subseteq Orphans \cup {id[r]},
         UNCHANGED cancelled, faults' = faults + 1
  PROVE  NoOrphan'
<1>1. /\ IsFiniteSet(Orphans \cup {id[r]})
      /\ Cardinality(Orphans \cup {id[r]}) \in Nat
      /\ Cardinality(Orphans \cup {id[r]}) <= Cardinality(Orphans) + 1
  BY Finite, OneMore
<1>2. Cardinality(Orphans') \in Nat /\ Cardinality(Orphans') <= Cardinality(Orphans) + 1
  BY <1>1, Finite, FS_Subset, FS_CardinalityType
<1>3. Cancelled' = Cancelled
  BY DEF Cancelled
<1> QED BY <1>2, <1>3, Finite DEF NoOrphan, Cancelled, TypeOK

LEMMA DisconnectPaid ==
  ASSUME TypeOK, NoOrphan, NEW r \in Request, Disconnect(r)
  PROVE  NoOrphan'
<1>1. Orphans' = Orphans /\ faults' = faults + 1 /\ Cancelled' = Cancelled \cup {r}
  BY DEF Disconnect, Fault, Orphans, Cancelled, TypeOK
<1>2. /\ Cardinality(Cancelled \cup {r}) \in Nat
      /\ Cardinality(Cancelled \cup {r}) <= Cardinality(Cancelled) + 1
  BY Finite, OneMore
<1> QED BY <1>1, <1>2, Finite, NoOrphanCounts DEF TypeOK

LEMMA StepNoOrphan ==
  ASSUME IInv, IInv', NoOrphan, NEW r \in Request, Step(r)
  PROVE  NoOrphan'
<1>0. TypeOK /\ TypeOK' /\ Mine(r) /\ UNCHANGED cancelled
  BY DEF IInv, Step, Begin, InsertSubmission, InsertRow, Commit, GetLanguage, Enqueue, local
<1>1. ASSUME UNCHANGED <<subs, queue>>, at[r] \in {"begin", "insert", "rows"}
      PROVE  Orphans' \subseteq Orphans
  <2>1. ASSUME NEW i \in Id, subs[i] # Absent PROVE at'[subs[i].by] = at[subs[i].by]
    <3>1. subs[i].by \in Request /\ subs[i].by # r
      BY <1>0, <1>1, <2>1 DEF IInv, TypeOK, Stored
    <3> QED BY <1>0, <3>1 DEF Step, Begin, InsertSubmission, InsertRow, Commit,
                              GetLanguage, Enqueue, Answer, Goto, TypeOK
  <2> QED BY <1>1, <2>1 DEF Orphans
<1>2. CASE Begin(r) \/ InsertSubmission(r) \/ InsertRow(r)
  <2>1. faults' >= faults
    BY <1>0, <1>2 DEF Begin, InsertSubmission, InsertRow, Works, Fails, Fault, TypeOK
  <2> QED BY <1>0, <1>1, <1>2, <2>1, NoNewOrphan DEF Begin, InsertSubmission, InsertRow
<1>3. CASE GetLanguage(r)
  <2>1. Orphans' \subseteq Orphans
    BY <1>0, <1>3 DEF GetLanguage, Goto, Orphans, TypeOK
  <2> QED BY <1>0, <1>3, <2>1, NoNewOrphan DEF GetLanguage, TypeOK
<1>4. CASE Commit(r)
  <2>1. CASE Store(r, written[r]) /\ Goto(r, "label") /\ UNCHANGED faults
    <3>1. Orphans' \subseteq Orphans
      <4>1. /\ subs' = [subs EXCEPT ![id[r]] = Submitted(r, written[r])]
            /\ at' = [at EXCEPT ![r] = "label"] /\ Submitted(r, written[r]).by = r
        BY <2>1 DEF Store, Goto, Submitted
      <4>2. UNCHANGED queue
        BY <1>4 DEF Commit
      <4>3. ASSUME NEW i \in Id, i \in Orphans' PROVE i \in Orphans
        <5>1. subs'[i].by # r
          BY <1>0, <4>1, <4>3 DEF Orphans, TypeOK
        <5>2. i # id[r] /\ subs'[i] = subs[i]
          BY <1>0, <4>1, <5>1 DEF TypeOK
        <5> QED BY <1>0, <4>1, <4>2, <4>3, <5>1, <5>2 DEF Orphans, TypeOK
      <4>4. Orphans' \in SUBSET Id
        BY DEF Orphans
      <4> QED BY <4>3, <4>4
    <3>2. faults' >= faults
      BY <1>0, <2>1 DEF TypeOK
    <3> QED BY <1>0, <3>1, <3>2, NoNewOrphan
  <2>2. CASE UNCHANGED subs /\ Answer(r, 422)
    <3>1. subs[id[r]] = Absent
      BY <1>0, <1>4, OwnId DEF Mine, Commit
    <3>2. ASSUME NEW i \in Id, subs[i] # Absent PROVE subs[i].by \in Request \ {r}
      BY <1>0, <3>1, <3>2 DEF IInv, TypeOK, Stored
    <3>3. Orphans' \subseteq Orphans
      BY <1>0, <1>4, <2>2, <3>2 DEF Commit, Answer, Goto, Orphans, TypeOK
    <3>4. faults' >= faults
      BY <1>0, <1>4 DEF Commit, Works, Fails, Fault, TypeOK
    <3> QED BY <1>0, <3>3, <3>4, NoNewOrphan
  <2>3. CASE Store(r, written[r]) /\ Answer(r, 422) /\ Fault("ambiguous")
    <3>1. \A i \in Id : i # id[r] => subs'[i] = subs[i]
      BY <1>0, <2>3 DEF Store, TypeOK
    <3>2. ASSUME NEW i \in Id, i # id[r], subs[i] # Absent PROVE subs[i].by \in Request \ {r}
      BY <1>0, <3>2 DEF IInv, TypeOK, Stored
    <3>3. Orphans' \subseteq Orphans \cup {id[r]}
      BY <1>0, <1>4, <2>3, <3>1, <3>2 DEF Commit, Answer, Goto, Orphans, TypeOK
    <3> QED BY <1>0, <2>3, <3>3, PaidOrphan DEF Fault
  <2> QED BY <1>4, <2>1, <2>2, <2>3 DEF Commit, Works
<1>5. CASE Enqueue(r)
  <2>1. ASSUME NEW i \in Id, i # id[r], subs[i] # Absent PROVE subs[i].by \in Request \ {r}
    BY <1>0, <2>1 DEF IInv, TypeOK, Stored
  <2>2. Orphans' \subseteq Orphans \cup {id[r]}
    BY <1>0, <1>5, <2>1 DEF Enqueue, Push, Answer, Goto, Orphans, TypeOK
  <2>3. Push(r) => Orphans' \subseteq Orphans
    <3>1. id[r] # 0
      BY <1>0, <1>5 DEF Mine, Enqueue
    <3>2. Push(r) => id[r] \in Id /\ queue'[id[r]] = queue[id[r]] + 1 /\ queue[id[r]] \in Nat
      BY <1>0, <3>1, OwnId DEF Push, TypeOK
    <3> QED BY <2>2, <3>2 DEF Orphans
  <2>4. CASE Push(r)
    <3>1. faults' >= faults
      BY <1>0, <1>5 DEF Enqueue, Fault, TypeOK
    <3> QED BY <1>0, <2>3, <2>4, <3>1, NoNewOrphan
  <2>5. CASE Fault("enqueue")
    BY <1>0, <2>2, <2>5, PaidOrphan DEF Fault
  <2> QED BY <1>5, <2>4, <2>5 DEF Enqueue
<1> QED BY <1>2, <1>3, <1>4, <1>5 DEF Step

LEMMA NextNoOrphan == IInv /\ IInv' /\ NoOrphan /\ [Next]_vars => NoOrphan'
<1> SUFFICES ASSUME IInv, IInv', NoOrphan, [Next]_vars PROVE NoOrphan'
  OBVIOUS
<1>0. TypeOK /\ TypeOK'
  BY DEF IInv
<1>1. CASE UNCHANGED vars
  BY <1>1 DEF vars, NoOrphan, Orphans
<1>2. ASSUME NEW r \in Request, Step(r) PROVE NoOrphan'
  BY <1>2, StepNoOrphan
<1>3. ASSUME NEW r \in Request, NEW b \in Body, Receive(r, b) PROVE NoOrphan'
  <2>1. ASSUME NEW i \in Id, subs[i] # Absent PROVE at'[subs[i].by] = at[subs[i].by]
    <3>1. subs[i].by \in Request /\ subs[i].by # r
      BY <1>3, <2>1 DEF IInv, TypeOK, Stored, Receive
    <3> QED BY <1>0, <1>3, <3>1 DEF Receive, Answer, Goto, TypeOK
  <2>2. Orphans' \subseteq Orphans
    BY <1>3, <2>1 DEF Orphans, Receive
  <2> QED BY <1>0, <1>3, <2>2, NoNewOrphan DEF Receive, TypeOK
<1>4. CASE Crash
  <2>1. Orphans' \subseteq Orphans
    BY <1>0, <1>4 DEF Crash, local, Orphans, InFlight, TypeOK
  <2> QED BY <1>0, <1>4, <2>1, NoNewOrphan DEF Crash, Fault, local, TypeOK
<1> QED BY <1>0, <1>1, <1>2, <1>3, <1>4, DisconnectPaid DEF Next

----------------------------------------------------------------------------
(* The theorems.                                                           *)

\* Every goroutine is at a place of the handler, every row it writes is that
\* of a test case, and ids stay within the sequence.
THEOREM APITypeCorrect == Spec => []TypeOK
<1>1. IInv => TypeOK
  BY DEF IInv
<1> QED BY <1>1, InitInv, NextInv, PTL DEF Spec

\* Neither a failed insert nor a crash leaves a part of a submission.
THEOREM NoPartialSubmission == Spec => []AllOrNothing
<1>1. IInv => AllOrNothing
  BY DEF IInv, Stored, AllOrNothing
<1> QED BY <1>1, InitInv, NextInv, PTL DEF Spec

\* A worker finds the submission of every task it takes.
THEOREM TasksAreCommitted == Spec => []QueuedIsCommitted
<1>1. IInv => QueuedIsCommitted
  BY DEF IInv, Queued, QueuedIsCommitted
<1> QED BY <1>1, InitInv, NextInv, PTL DEF Spec

\* An id that was returned has its own submission and exactly one task.
THEOREM ReturnedIsQueued == Spec => []CreatedIsQueued
<1>1. IInv => CreatedIsQueued
  BY DEF IInv, Ids, Drawn, Mine, CreatedIsQueued
<1> QED BY <1>1, InitInv, NextInv, PTL DEF Spec

\* Whatever limits are asked for, what is stored is within the server's bounds,
\* and a legal limit is stored as it was asked for.
THEOREM StoredWithinLimits == Spec => []WithinLimits
<1>1. IInv => WithinLimits
  <2> SUFFICES ASSUME IInv, NEW i \in Id, subs[i] # Absent
               PROVE  LET asked == body[subs[i].by].limit
                      IN /\ subs[i].limit \in 1..MaxLimit
                         /\ asked \in 1..MaxLimit => subs[i].limit = asked
    BY DEF WithinLimits
  <2>1. TypeOK /\ Stored(i)
    BY DEF IInv
  <2>2. subs[i].limit \in Int
    BY <2>1 DEF TypeOK
  <2> QED BY <2>1, <2>2, APIAssumption DEF Stored, valOrDefault
<1> QED BY <1>1, InitInv, NextInv, PTL DEF Spec

\* Each submission that was answered for and that no task names was paid for by
\* a fault of its own, and no disconnect pays for one.
THEOREM OrphansArePaid == Spec => []NoOrphan
<1>1. Init => NoOrphan
  <2> SUFFICES ASSUME Init PROVE NoOrphan
    OBVIOUS
  <2>1. Orphans = {} /\ {r \in Request : cancelled[r]} = {}
    BY DEF Init, Orphans
  <2> QED BY <2>1, FS_EmptySet DEF Init, NoOrphan
<1> QED BY <1>1, InitInv, NextInv, NextNoOrphan, PTL DEF Spec
============================================================================
