------------------------------ MODULE Listing ------------------------------
(***************************************************************************)
(* GET /submissions: pages of the submissions, newest first, while others  *)
(* are being created.  created_at is the time at which the transaction of  *)
(* a submission began, a row is visible when that transaction has          *)
(* committed, and so rows appear behind newer ones.                        *)
(*                                                                         *)
(* A client walks the pages, 1, 2, and so on, until one is empty.  Two     *)
(* transactions are taken never to begin in the same microsecond.          *)
(***************************************************************************)
EXTENDS Integers, FiniteSets

CONSTANTS Submission,   \* the submissions that are created
          Half,         \* 2^31: page, perPage and offset are int32
          DefaultRows,  \* rows of a page that nobody asked for: 20
          MaxRows,      \* rows of a page at most: 100
          Asked         \* the values of per_page that the client may send

ASSUME ListingAssumption ==
  /\ DefaultRows \in 1..MaxRows /\ MaxRows \in 1..Half /\ Asked \subseteq Int
  /\ IsFiniteSet(Submission)
  /\ Half \in Nat /\ Cardinality(Submission) + 1 < Half

VARIABLES created,      \* created_at of the transactions that have begun; 0 of the others
          committed,    \* the rows that can be read
          walk,         \* what the client is at
          page,         \* the page it asks for next
          asked,        \* its per_page
          had,          \* the rows that were there when it set out
          seen          \* the rows that it has been given

table == <<created, committed>>
client == <<walk, page, asked, had, seen>>
vars == <<created, committed, walk, page, asked, had, seen>>

\* A conversion to int32.
Wrap(n) == ((n + Half) % (2 * Half)) - Half

Init == /\ created = [s \in Submission |-> 0] /\ committed = {}
        /\ walk = "idle" /\ page = 1 /\ asked \in Asked
        /\ had = {} /\ seen = {}

----------------------------------------------------------------------------
(* The table.                                                              *)
Begun == {s \in Submission : created[s] # 0}

Begin(s) ==
  /\ created[s] = 0
  /\ created' = [created EXCEPT ![s] = Cardinality(Begun) + 1]
  /\ UNCHANGED <<committed, client>>

Commit(s) ==
  /\ created[s] # 0 /\ s \notin committed
  /\ committed' = committed \cup {s}
  /\ UNCHANGED <<created, client>>

----------------------------------------------------------------------------
(* The page.                                                               *)

\* ListSubmissions clamps what List has converted.
Page(p) == IF Wrap(p) < 1 THEN 1 ELSE Wrap(p)
PerPage(n) == LET rows == IF Wrap(n) < 1 THEN DefaultRows ELSE Wrap(n)
              IN  IF rows > MaxRows THEN MaxRows ELSE rows

\* The first page taken to be number 0.
OffsetFromZero(p, n) == Wrap(Page(p) * PerPage(n))

\* The product is one of int32, too.
Offset(p, n) == Wrap((Page(p) - 1) * PerPage(n))

\* ORDER BY created_at DESC: how many rows come before that of s.
Position(s) == Cardinality({c \in committed : created[c] > created[s]})

\* Rows of transactions that are still open are shown, too.
RowsUncommitted(offset, limit) ==
  {s \in Begun : Position(s) >= offset /\ Position(s) < offset + limit}

Rows(offset, limit) == {s \in committed : Position(s) >= offset /\ Position(s) < offset + limit}

SetOut ==
  /\ walk = "idle"
  /\ walk' = "walking" /\ had' = committed
  /\ UNCHANGED <<table, page, asked, seen>>

\* Postgres refuses a negative OFFSET.
Turn ==
  /\ walk = "walking"
  /\ \/ /\ Offset(page, asked) < 0
        /\ walk' = "failed" /\ UNCHANGED <<page, seen>>
     \/ /\ Offset(page, asked) >= 0
        /\ LET rows == Rows(Offset(page, asked), PerPage(asked)) IN
             \/ rows = {} /\ walk' = "finished" /\ UNCHANGED <<page, seen>>
             \/ rows # {} /\ page' = page + 1 /\ seen' = seen \cup rows /\ UNCHANGED walk
  /\ UNCHANGED <<table, asked, had>>

Next == \/ \E s \in Submission : Begin(s) \/ Commit(s)
        \/ SetOut \/ Turn

Spec == Init /\ [][Next]_vars

----------------------------------------------------------------------------
TypeOK ==
  /\ created \in [Submission -> Nat] /\ committed \subseteq Begun
  /\ walk \in {"idle", "walking", "finished", "failed"}
  /\ page \in Nat \ {0} /\ asked \in Asked
  /\ had \subseteq committed /\ seen \subseteq committed

\* A walk that ends with an empty page has been given every submission that
\* was there when it set out, whatever was begun or committed meanwhile.
WalkSeesAll == walk = "finished" => had \subseteq seen

\* A row that the walk has yet to see is never in front of the page it asks
\* for next: rows that appear only push it back.
NothingSlipsPast ==
  walk = "walking" => \A s \in had \ seen : Position(s) >= (page - 1) * PerPage(asked)
=============================================================================
