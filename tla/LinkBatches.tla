---------------------------- MODULE LinkBatches ----------------------------
(***************************************************************************)
(* The walk of a crawl over table links: NotifySubscribers reads them in   *)
(* batches with GetLinksBatch and hands each link of a batch to            *)
(* processLink (internal/scrapper/application/crawler_case.go).            *)
(*                                                                         *)
(* The cursor is the created_at of the last link of a batch, and the next  *)
(* batch begins strictly after it.  created_at is NOW(), the time at which *)
(* the transaction that tracks the link began: a link may appear behind a  *)
(* cursor, and links may share a created_at.  Migration 000002 gave all    *)
(* links that were there before the column one and the same.               *)
(*                                                                         *)
(* The crawl job is not a singleton, so walks overlap; each has a cursor   *)
(* of its own.  What processLink does is the subject of ScrapperPipeline.  *)
(***************************************************************************)
EXTENDS Integers, FiniteSets

CONSTANTS
  Links,        \* link ids; their order is that of the UUIDs
  Migrated,     \* links older than migration 000002
  Walks,        \* runs of the crawl job that may overlap
  Access,       \* DB_ACCESS_TYPE
  BatchSize,    \* SCRAPPER_BATCH_SIZE
  MaxTime,      \* bound: the clock of the database
  MaxFailures   \* bound: failed reads and restarts

ASSUME LinkBatchesAssumption ==
  /\ Links \subseteq Int
  /\ Migrated \subseteq Links
  /\ IsFiniteSet(Links)
  /\ Access \in {"sql", "builder"}
  /\ BatchSize \in Nat \ {0}
  /\ MaxTime \in Nat
  /\ MaxFailures \in Nat

VARIABLES
  now,          \* clock of the database
  opened,       \* links whose transaction has begun and not ended
  links,        \* rows of table links
  created,      \* created_at of the rows and of the links in opened
  walk,         \* state of each walk
  failures      \* failures so far

tableVars == <<now, opened, links, created>>
vars == <<tableVars, walk, failures>>

Nil   == -1
Times == 0 .. MaxTime

(* ptr: the cursor of the next read, or Nil; todo: the links of the batch  *)
(* that processLink has not got; last: the break condition holds.          *)
(* History: due, the links that were there when the walk began; visited,   *)
(* the links that were handed to processLink.                              *)
Walk == [pc: {"idle", "read", "process", "finished"}, ptr: Times \cup {Nil},
         todo: SUBSET Links, last: BOOLEAN, due: SUBSET Links,
         visited: SUBSET Links]

Idle == [pc |-> "idle", ptr |-> Nil, todo |-> {}, last |-> FALSE,
         due |-> {}, visited |-> {}]

TypeOK ==
  /\ now \in Times
  /\ opened \subseteq Links \ links
  /\ links \subseteq Links
  /\ created \in [Links -> 0 .. now]
  /\ walk \in [Walks -> Walk]
  /\ \A w \in Walks : walk[w].todo \cap walk[w].visited = {} \* no link twice
  /\ failures \in 0 .. MaxFailures

Init ==
  /\ now = 0
  /\ opened = {}
  /\ links = Migrated
  /\ created = [l \in Links |-> 0]
  /\ walk = [w \in Walks |-> Idle]
  /\ failures = 0

Fail == failures < MaxFailures /\ failures' = failures + 1

----------------------------------------------------------------------------
(* Links are tracked. *)

Tick ==
  /\ now < MaxTime
  /\ now' = now + 1
  /\ UNCHANGED <<opened, links, created, walk, failures>>

(* The transaction of subscribeTx begins. *)
BeginSubscribe(l) ==
  /\ l \notin links \cup opened
  /\ opened' = opened \cup {l}
  /\ created' = [created EXCEPT ![l] = now]
  /\ UNCHANGED <<now, links, walk, failures>>

(* It ends: with the row that AddLink inserted, or rolled back. *)
AddLink(l) ==
  /\ l \in opened
  /\ opened' = opened \ {l}
  /\ links' \in {links, links \cup {l}}
  /\ UNCHANGED <<now, created, walk, failures>>

----------------------------------------------------------------------------
(* GetLinksBatch. *)

(* Fault: the order is that of the ids. *)
FaultById(k, l) == k < l

(* The query builder orders by created_at alone. *)
Before(k, l) ==
  \/ created[k] < created[l]
  \/ Access = "sql" /\ created[k] = created[l] /\ k < l

(* WHERE created_at > $1. *)
After(ptr) == {l \in links : ptr = Nil \/ created[l] > ptr}

(* ORDER BY created_at, link_id LIMIT $2. *)
IsBatch(B, S) ==
  /\ B \subseteq S
  /\ Cardinality(B) = BatchSize \/ (B = S /\ Cardinality(S) < BatchSize)
  /\ \A k \in B, l \in S \ B : ~Before(l, k)

(* t is the created_at of the last row. *)
IsLastCreated(t, B) ==
  IF B = {} THEN t = Nil
            ELSE (\E l \in B : created[l] = t) /\ \A l \in B : created[l] <= t

(* Fault: a full batch ends the walk as well. *)
FaultFullIsLast(B) == Cardinality(B) <= BatchSize

(* nextPtr == nil || len(links) < batchSize. *)
IsLast(B) == Cardinality(B) < BatchSize

----------------------------------------------------------------------------
(* NotifySubscribers. *)

StartWalk(w) ==
  /\ walk[w].pc \in {"idle", "finished"}
  /\ walk' = [walk EXCEPT ![w] = [Idle EXCEPT !.pc = "read", !.due = links]]
  /\ UNCHANGED <<tableVars, failures>>

GetLinksBatch(w) ==
  /\ walk[w].pc = "read"
  /\ \E B \in SUBSET After(walk[w].ptr), t \in Times \cup {Nil} :
       /\ IsBatch(B, After(walk[w].ptr))
       /\ IsLastCreated(t, B)
       /\ walk' = [walk EXCEPT ![w].pc = "process", ![w].ptr = t, ![w].todo = B,
            ![w].last = IsLast(B)]
  /\ UNCHANGED <<tableVars, failures>>

(* The walk ends with the error; what it has not visited must wait. *)
GetLinksBatchFails(w) ==
  /\ walk[w].pc = "read"
  /\ Fail
  /\ walk' = [walk EXCEPT ![w] = Idle]
  /\ UNCHANGED tableVars

(* A worker takes a link; an error of processLink is only logged. *)
ProcessLink(w, l) ==
  /\ walk[w].pc = "process"
  /\ l \in walk[w].todo
  /\ walk' = [walk EXCEPT ![w].todo = @ \ {l}, ![w].visited = @ \cup {l}]
  /\ UNCHANGED <<tableVars, failures>>

(* The workers are done with the batch. *)
NextBatch(w) ==
  /\ walk[w].pc = "process"
  /\ walk[w].todo = {}
  /\ walk' = [walk EXCEPT ![w].pc = IF walk[w].last THEN "finished" ELSE "read"]
  /\ UNCHANGED <<tableVars, failures>>

Restart ==
  /\ Fail
  /\ walk' = [w \in Walks |-> Idle]
  /\ UNCHANGED tableVars

----------------------------------------------------------------------------
WalkStep(w) ==
  \/ StartWalk(w)
  \/ GetLinksBatch(w)
  \/ \E l \in Links : ProcessLink(w, l)
  \/ NextBatch(w)

Next ==
  \/ Tick
  \/ \E l \in Links : BeginSubscribe(l) \/ AddLink(l)
  \/ \E w \in Walks : WalkStep(w) \/ GetLinksBatchFails(w)
  \/ Restart

Spec == Init /\ [][Next]_vars

(* The crawl job runs again and again. *)
Fairness == \A w \in Walks : WF_vars(WalkStep(w))

FairSpec == Spec /\ Fairness

----------------------------------------------------------------------------
(* Correctness. *)

Twins(k, l) == k # l /\ created[k] = created[l]

(* A walk that went through has visited every link that was there when it  *)
(* began, whatever was added meanwhile and wherever its batches ended: only *)
(* a link that shares its created_at with a visited one is passed over.    *)
SkippedHasTwin ==
  \A w \in Walks : walk[w].pc = "finished" =>
    \A l \in walk[w].due \ walk[w].visited : \E k \in walk[w].visited : Twins(k, l)

(* A link that appeared behind the cursors is visited by a later walk, and *)
(* every link again and again, unless it has a twin.                       *)
CrawledAgain ==
  \A l \in Links :
    l \in links ~> \/ \E w \in Walks : l \in walk[w].visited
                   \/ \E k \in links : Twins(k, l)

============================================================================
