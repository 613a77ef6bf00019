----------------------- MODULE ScrapperPipelineProofs -----------------------
(***************************************************************************)
(* Theorems about ScrapperPipeline, for every value of its constants, and, *)
(* at the end, about the walk of LinkBatches that hands it the links.      *)
(***************************************************************************)
EXTENDS ScrapperPipeline, FiniteSetTheorems, TLAPS

(* The typing of Rows is all that AddBatch needs. *)
LEMMA NewRowsTyped ==
  ASSUME txs \in Nat, NEW l \in Links, NEW updates \in SUBSET Update
  PROVE  NewRows(l, updates) \subseteq Row
  BY DEF NewRows, Row, Update

LEMMA UpdatesOfTyped ==
  ASSUME NEW readers \in SUBSET Reader, NEW f \in [Shots -> Times]
  PROVE  UpdatesOf(readers, f) \subseteq Update
  BY DEF UpdatesOf, Addressees, Reader, Update

LEMMA ReadersTyped ==
  ASSUME TypeOK, NEW l \in Links
  PROVE  Readers(l) \subseteq Reader
  BY DEF TypeOK, Readers, Reader, Subscriptions

LEMMA AddBatchTyped ==
  ASSUME TypeOK, NEW rows \in SUBSET Row, AddBatch(rows)
  PROVE  /\ txs' \in Nat
         /\ written' \subseteq Row
         /\ pending' \subseteq written'
         /\ processed' \subseteq written'
         /\ sends' \in [written' -> Nat]
         /\ written \subseteq written'
  BY DEF TypeOK, AddBatch

LEMMA FailTyped ==
  ASSUME TypeOK, Fail
  PROVE  failures' \in 0 .. MaxFailures /\ failures' = failures + 1
  BY PipelineAssumption DEF TypeOK, Fail, PipelineAssumption

LEMMA TypeStep == TypeOK /\ [Next]_vars => TypeOK'
<1> SUFFICES ASSUME TypeOK, [Next]_vars PROVE TypeOK'
  OBVIOUS
<1> USE DEF sourceVars, subVars, crawlVars, outboxVars, relayVars
<1>1. CASE Tick
  BY <1>1, PipelineAssumption DEF Tick, TypeOK, Times, PipelineAssumption
<1>2. ASSUME NEW l \in Links, NEW s \in Shots, SourceChanges(l, s)
      PROVE  TypeOK'
  BY <1>2 DEF SourceChanges, TypeOK
<1>3. ASSUME NEW c \in Chats, NEW l \in Links, Subscribe(c, l)
      PROVE  TypeOK'
  BY <1>3, PipelineAssumption
  DEF Subscribe, TypeOK, Subscriptions, Times, PipelineAssumption
<1>4. ASSUME NEW c \in Chats, NEW l \in Links, Unsubscribe(c, l)
      PROVE  TypeOK'
  BY <1>4 DEF Unsubscribe, TypeOK
<1>5. ASSUME NEW w \in Workers, NEW l \in Links, ReadSubscribers(w, l)
      PROVE  TypeOK'
  <2>1. [pc |-> "search", link |-> l, readers |-> Readers(l), updates |-> {}]
          \in Worker
    BY ReadersTyped DEF Worker
  <2>2. overlaps' \in [Links -> 0 .. MaxOverlaps]
    BY <1>5, PipelineAssumption DEF ReadSubscribers, TypeOK, PipelineAssumption
  <2> QED  BY <1>5, <2>1, <2>2 DEF ReadSubscribers, TypeOK
<1>6. ASSUME NEW w \in Workers, SearchResource(w)
      PROVE  TypeOK'
  <2> DEFINE found == UpdatesOf(crawl[w].readers, source[crawl[w].link])
  <2>1. crawl[w] \in [pc: {"search", "commit", "report"}, link: Links,
                      readers: SUBSET Reader, updates: SUBSET Update]
    BY <1>6 DEF SearchResource, TypeOK, Worker, Idle
  <2>2. found \subseteq Update
    BY <2>1, UpdatesOfTyped DEF TypeOK
  <2> HIDE DEF found
  <2>3. [crawl[w] EXCEPT !.pc = "commit", !.updates = found] \in Worker
    BY <2>1, <2>2 DEF Worker
  <2>4. Idle \in Worker
    BY DEF Worker
  <2>5. crawl' \in [Workers -> Worker]
    BY <1>6, <2>3, <2>4 DEF SearchResource, TypeOK, found
  <2> QED  BY <1>6, <2>5 DEF SearchResource, TypeOK
<1>7. ASSUME NEW w \in Workers, SearchFails(w)
      PROVE  TypeOK'
  <2> DEFINE u == [shot |-> NoShot, at |-> 0,
                   chats |-> {x.chat : x \in crawl[w].readers}]
  <2>1. crawl[w] \in [pc: {"search", "commit", "report"}, link: Links,
                      readers: SUBSET Reader, updates: SUBSET Update]
    BY <1>7 DEF SearchFails, TypeOK, Worker, Idle
  <2>2. u \in Update
    BY <2>1, PipelineAssumption DEF Update, Reader, Times, PipelineAssumption
  <2> HIDE DEF u
  <2>3. [crawl[w] EXCEPT !.pc = "report", !.updates = {u}] \in Worker
    BY <2>1, <2>2 DEF Worker
  <2>4. crawl' \in [Workers -> Worker]
    BY <1>7, <2>1, <2>3 DEF SearchFails, TypeOK, u
  <2> QED  BY <1>7, <2>4, FailTyped DEF SearchFails, TypeOK
<1> DEFINE rows(w) == NewRows(crawl[w].link, crawl[w].updates)
<1>8. ASSUME NEW w \in Workers, crawl[w].pc # "idle"
      PROVE  rows(w) \subseteq Row
  <2>1. crawl[w].link \in Links /\ crawl[w].updates \subseteq Update
    BY <1>8 DEF TypeOK, Worker, Idle
  <2> QED  BY <2>1, NewRowsTyped DEF TypeOK
<1> HIDE DEF rows
<1>9. ASSUME NEW w \in Workers, ProcessLinkTx(w)
      PROVE  TypeOK'
  <2>1. AddBatch(rows(w)) /\ rows(w) \subseteq Row
    BY <1>8, <1>9 DEF ProcessLinkTx, rows
  <2>2. lastUpdate' \in [Subscriptions -> Times]
    BY <1>9 DEF ProcessLinkTx, TypeOK
  <2>3. crawl' \in [Workers -> Worker]
    BY <1>9 DEF ProcessLinkTx, TypeOK, Worker
  <2> QED  BY <1>9, <2>1, <2>2, <2>3, AddBatchTyped DEF ProcessLinkTx, TypeOK
<1>10. ASSUME NEW w \in Workers, ProcessLinkRollback(w) \/ CrawlTxFails(w)
       PROVE  TypeOK'
  BY <1>10, FailTyped DEF ProcessLinkRollback, CrawlTxFails, TypeOK, Worker
<1>11. ASSUME NEW w \in Workers, ProcessErrLinkTx(w)
       PROVE  TypeOK'
  <2>1. rows(w) \subseteq Row
    BY <1>8, <1>11 DEF ProcessErrLinkTx
  <2>2. crawl' \in [Workers -> Worker]
    BY <1>11 DEF ProcessErrLinkTx, TypeOK, Worker
  <2>3. CASE AddBatch(rows(w))
    BY <1>11, <2>1, <2>2, <2>3, AddBatchTyped DEF ProcessErrLinkTx, TypeOK
  <2>4. CASE UNCHANGED <<outboxVars, sends>>
    BY <1>11, <2>2, <2>4 DEF ProcessErrLinkTx, TypeOK
  <2> QED  BY <1>11, <2>3, <2>4 DEF ProcessErrLinkTx, rows
<1>12. CASE FetchPending
  BY <1>12 DEF FetchPending, Oldest, TypeOK
<1>13. ASSUME NEW r \in batch, SendUpdate(r)
       PROVE  TypeOK'
  BY <1>13 DEF SendUpdate, MarkProcessed, TypeOK
<1>14. ASSUME NEW r \in batch, SendFails(r)
       PROVE  TypeOK'
  BY <1>14, FailTyped DEF SendFails, TypeOK
<1>15. ASSUME NEW r \in batch, UpdateStatusFails(r)
       PROVE  TypeOK'
  BY <1>15, FailTyped DEF UpdateStatusFails, TypeOK
<1>16. CASE RelayCommit
  BY <1>16 DEF RelayCommit, TypeOK
<1>17. CASE RelayRollback
  BY <1>17 DEF RelayRollback, TypeOK
<1>18. CASE RelayTxFails
  BY <1>18, FailTyped DEF RelayTxFails, TypeOK
<1>19. CASE CleanOutbox
  BY <1>19 DEF CleanOutbox, TypeOK
<1>20. CASE Crash
  BY <1>20, FailTyped DEF Crash, TypeOK, Worker
<1>21. CASE UNCHANGED vars
  BY <1>21 DEF TypeOK, vars
<1> QED
  BY <1>1, <1>2, <1>3, <1>4, <1>5, <1>6, <1>7, <1>9, <1>10, <1>11, <1>12,
     <1>13, <1>14, <1>15, <1>16, <1>17, <1>18, <1>19, <1>20, <1>21
  DEF Next, Environment, CrawlStep, RelayStep, Failure

(* Every variable keeps its type: sends counts exactly the rows written,   *)
(* and what the relay and the workers hold refers to them.                 *)
THEOREM TypeCorrect == Spec => []TypeOK
<1>1. Init => TypeOK
  BY PipelineAssumption
  DEF Init, TypeOK, PipelineAssumption, Times, Subscriptions, Worker, Row
<1> QED
  BY <1>1, TypeStep, PTL DEF Spec

----------------------------------------------------------------------------
(* The relay.  For its invariants a step of the specification is one of    *)
(* eight kinds; what the crawl and the environment do otherwise is quiet.  *)

Quiet == UNCHANGED <<txs, written, pending, sends, relayVars>> /\ failures' >= failures

Insert ==
  \E rows \in SUBSET Row :
    /\ AddBatch(rows)
    /\ \A r \in rows : r.tx = txs + 1
    /\ UNCHANGED <<relayVars, failures>>

Abandon ==
  /\ relayTx' = "none"
  /\ batch' = {}
  /\ marked' = {}
  /\ failures' = failures + 1
  /\ UNCHANGED <<txs, written, pending, sends>>

LEMMA NewRowsAreNew ==
  ASSUME NEW l, NEW updates, NEW r \in NewRows(l, updates)
  PROVE  r.tx = txs + 1
  BY DEF NewRows

LEMMA StepKinds ==
  ASSUME TypeOK, [Next]_vars
  PROVE  \/ Quiet
         \/ Insert
         \/ FetchPending
         \/ \E r \in batch : SendUpdate(r) \/ SendFails(r) \/ UpdateStatusFails(r)
         \/ RelayCommit
         \/ RelayRollback
         \/ Abandon
<1> USE DEF sourceVars, subVars, crawlVars, outboxVars, relayVars
<1>1. failures \in Nat
  BY PipelineAssumption DEF TypeOK, PipelineAssumption
<1>2. ASSUME NEW w \in Workers, crawl[w].pc # "idle",
             AddBatch(NewRows(crawl[w].link, crawl[w].updates)),
             UNCHANGED <<relayVars, failures>>
      PROVE  Insert
  <2>1. crawl[w].link \in Links /\ crawl[w].updates \subseteq Update
    BY <1>2 DEF TypeOK, Worker, Idle
  <2>2. NewRows(crawl[w].link, crawl[w].updates) \subseteq Row
    BY <2>1, NewRowsTyped DEF TypeOK
  <2> QED  BY <1>2, <2>2, NewRowsAreNew DEF Insert
<1>3. ASSUME UNCHANGED <<txs, written, pending, sends, relayVars, failures>>
      PROVE  Quiet
  BY <1>1, <1>3 DEF Quiet
<1>4. CASE \/ Tick
           \/ CleanOutbox
           \/ \E l \in Links, s \in Shots : SourceChanges(l, s)
           \/ \E c \in Chats, l \in Links : Subscribe(c, l) \/ Unsubscribe(c, l)
  BY <1>3, <1>4 DEF Tick, CleanOutbox, SourceChanges, Subscribe, Unsubscribe
<1>5. CASE \/ \E w \in Workers, l \in Links : ReadSubscribers(w, l)
           \/ \E w \in Workers : SearchResource(w) \/ ProcessLinkRollback(w)
           \/ UNCHANGED vars
  BY <1>3, <1>5 DEF ReadSubscribers, SearchResource, ProcessLinkRollback, vars
<1>6. CASE \E w \in Workers : SearchFails(w) \/ CrawlTxFails(w)
  BY <1>1, <1>6 DEF Quiet, SearchFails, CrawlTxFails, Fail
<1>7. CASE \E w \in Workers : ProcessLinkTx(w) \/ ProcessErrLinkTx(w)
  BY <1>2, <1>3, <1>7 DEF ProcessLinkTx, ProcessErrLinkTx
<1>8. CASE RelayTxFails \/ Crash
  BY <1>8 DEF Abandon, RelayTxFails, Crash, Fail
<1> QED
  BY <1>4, <1>5, <1>6, <1>7, <1>8
  DEF Next, Environment, CrawlStep, RelayStep, Failure

(* What the relay holds: rows of its batch and rows it has sent and marked *)
(* are pending and apart; without a transaction it holds nothing.          *)
RelayInv ==
  /\ batch \subseteq pending
  /\ marked \subseteq pending
  /\ batch \cap marked = {}
  /\ relayTx = "none" => batch = {} /\ marked = {}
  /\ \A r \in marked : sends[r] > 0

LEMMA RelayInvHolds == Spec => []RelayInv
<1>1. Init => RelayInv
  BY DEF Init, RelayInv
<1>2. TypeOK /\ RelayInv /\ [Next]_vars => RelayInv'
  <2> SUFFICES ASSUME TypeOK, RelayInv, [Next]_vars PROVE RelayInv'
    OBVIOUS
  <2> USE DEF outboxVars, relayVars, TypeOK, RelayInv
  <2>1. CASE Quiet
    BY <2>1 DEF Quiet
  <2>2. CASE Insert
    BY <2>2 DEF Insert, AddBatch
  <2>3. CASE FetchPending
    BY <2>3 DEF FetchPending, Oldest
  <2>4. ASSUME NEW r \in batch, SendUpdate(r) PROVE RelayInv'
    BY <2>4 DEF SendUpdate, MarkProcessed
  <2>5. ASSUME NEW r \in batch, SendFails(r) PROVE RelayInv'
    BY <2>5 DEF SendFails
  <2>6. ASSUME NEW r \in batch, UpdateStatusFails(r) PROVE RelayInv'
    BY <2>6 DEF UpdateStatusFails
  <2>7. CASE RelayCommit
    BY <2>7 DEF RelayCommit
  <2>8. CASE RelayRollback
    BY <2>8 DEF RelayRollback
  <2>9. CASE Abandon
    BY <2>9 DEF Abandon
  <2> QED
    BY <2>1, <2>2, <2>3, <2>4, <2>5, <2>6, <2>7, <2>8, <2>9, StepKinds
<1> QED
  BY <1>1, <1>2, TypeCorrect, PTL DEF Spec

(* No row leaves the pending rows unsent (relayOutboxTx marks what it has  *)
(* sent, and only the commit of the same transaction makes it count).      *)
THEOREM SettledRowsWerePublished == Spec => []SettledWasPublished
<1>1. Init => SettledWasPublished
  BY DEF Init, SettledWasPublished
<1>2. TypeOK /\ RelayInv /\ SettledWasPublished /\ [Next]_vars
        => SettledWasPublished'
  <2> SUFFICES ASSUME TypeOK, RelayInv, SettledWasPublished, [Next]_vars
               PROVE  SettledWasPublished'
    OBVIOUS
  <2> USE DEF outboxVars, relayVars, TypeOK, SettledWasPublished
  <2>1. CASE Quiet
    BY <2>1 DEF Quiet
  <2>2. CASE Insert
    BY <2>2 DEF Insert, AddBatch
  <2>3. CASE FetchPending
    BY <2>3 DEF FetchPending
  <2>4. ASSUME NEW r \in batch,
               SendUpdate(r) \/ SendFails(r) \/ UpdateStatusFails(r)
        PROVE  SettledWasPublished'
    BY <2>4 DEF SendUpdate, SendFails, UpdateStatusFails
  <2>5. CASE RelayCommit
    BY <2>5 DEF RelayCommit, RelayInv
  <2>6. CASE RelayRollback \/ Abandon
    BY <2>6 DEF RelayRollback, Abandon
  <2> QED
    BY <2>1, <2>2, <2>3, <2>4, <2>5, <2>6, StepKinds
<1> QED
  BY <1>1, <1>2, TypeCorrect, RelayInvHolds, PTL DEF Spec

(* The rows of one transaction are new: created_at grows. *)
RowsInOrder == \A r \in written : r.tx <= txs

LEMMA RowsInOrderHolds == Spec => []RowsInOrder
<1>1. Init => RowsInOrder
  BY DEF Init, RowsInOrder
<1>2. TypeOK /\ RowsInOrder /\ [Next]_vars => RowsInOrder'
  <2> SUFFICES ASSUME TypeOK, RowsInOrder, [Next]_vars PROVE RowsInOrder'
    OBVIOUS
  <2>1. CASE UNCHANGED <<txs, written>>
    BY <2>1 DEF RowsInOrder
  <2>2. CASE Insert
    <3>1. PICK rows \in SUBSET Row : AddBatch(rows) /\ \A r \in rows : r.tx = txs + 1
      BY <2>2 DEF Insert
    <3>2. txs \in Nat /\ \A r \in written : r.tx \in Nat
      BY DEF TypeOK, Row
    <3> QED  BY <3>1, <3>2 DEF RowsInOrder, AddBatch
  <2> QED
    BY <2>1, <2>2, StepKinds
    DEF Quiet, FetchPending, SendUpdate, SendFails, UpdateStatusFails,
        RelayCommit, RelayRollback, Abandon, outboxVars
<1> QED
  BY <1>1, <1>2, TypeCorrect, PTL DEF Spec

(* How many copies a row may have, by where it is.  A pending row that is  *)
(* not marked has cost a failure for every copy; in a doomed transaction   *)
(* the failure that doomed it still pays for the copies to come.           *)
CopiesPaid ==
  /\ \A r \in written : sends[r] <= 1 + failures
  /\ \A r \in pending \ marked : sends[r] <= failures
  /\ relayTx = "doomed" =>
       /\ \A r \in pending : sends[r] <= failures
       /\ \A r \in batch : sends[r] + 1 <= failures

(* The relay sends a row once more only after a failure, and each failure  *)
(* costs one copy of a row at most.                                        *)
THEOREM ResendsArePaid == Spec => []ResendOnlyAfterFailure
<1>1. Init => CopiesPaid
  BY DEF Init, CopiesPaid
<1>2. TypeOK /\ RelayInv /\ RowsInOrder /\ CopiesPaid /\ [Next]_vars => CopiesPaid'
  <2> SUFFICES ASSUME TypeOK, RelayInv, RowsInOrder, CopiesPaid, [Next]_vars
               PROVE  CopiesPaid'
    OBVIOUS
  <2>1. /\ failures \in Nat
        /\ sends \in [written -> Nat]
        /\ pending \subseteq written
        /\ batch \subseteq pending /\ marked \subseteq pending
        /\ batch \cap marked = {}
        /\ relayTx = "none" => batch = {} /\ marked = {}
        /\ relayTx \in {"none", "open", "doomed"}
    BY PipelineAssumption DEF TypeOK, RelayInv, PipelineAssumption
  <2> USE <2>1 DEF CopiesPaid, outboxVars, relayVars
  <2>2. CASE Quiet
    <3>1. failures' \in Nat /\ failures' >= failures
      BY <2>2, TypeStep, PipelineAssumption DEF Quiet, TypeOK, PipelineAssumption
    <3> QED  BY <2>2, <3>1 DEF Quiet
  <2>3. CASE Insert
    <3>1. PICK rows \in SUBSET Row : /\ AddBatch(rows)
                                     /\ \A r \in rows : r.tx = txs + 1
                                     /\ UNCHANGED <<relayVars, failures>>
      BY <2>3 DEF Insert
    <3>2. rows \cap written = {}
      BY <3>1 DEF RowsInOrder, TypeOK, Row
    <3> QED  BY <3>1, <3>2 DEF AddBatch
  <2>4. CASE FetchPending
    BY <2>4 DEF FetchPending, Oldest
  <2>5. ASSUME NEW r \in batch, SendUpdate(r) PROVE CopiesPaid'
    BY <2>5 DEF SendUpdate, MarkProcessed
  <2>6. ASSUME NEW r \in batch, SendFails(r) PROVE CopiesPaid'
    BY <2>6 DEF SendFails, Fail
  <2>7. ASSUME NEW r \in batch, UpdateStatusFails(r) PROVE CopiesPaid'
    BY <2>7 DEF UpdateStatusFails, Fail
  <2>8. CASE RelayCommit
    BY <2>8 DEF RelayCommit
  <2>9. CASE RelayRollback
    BY <2>9 DEF RelayRollback
  <2>10. CASE Abandon
    BY <2>10 DEF Abandon
  <2> QED
    BY <2>2, <2>3, <2>4, <2>5, <2>6, <2>7, <2>8, <2>9, <2>10, StepKinds
<1>3. CopiesPaid => ResendOnlyAfterFailure
  BY DEF CopiesPaid, ResendOnlyAfterFailure
<1> QED
  BY <1>1, <1>2, <1>3, TypeCorrect, RelayInvHolds, RowsInOrderHolds, PTL DEF Spec

(* The outbox with its relay implements AtLeastOnce: rows are accepted by  *)
(* the crawl's transactions, delivered by SendUpdate, settled by the       *)
(* relay's commit, and never settled before they were delivered.           *)
THEOREM OutboxDeliversAtLeastOnce == Spec => DeliversAtLeastOnce
<1> DEFINE sent == {r \in written : sends[r] > 0}
           settled == written \ pending
<1>1. Init => Delivery!Init
  BY DEF Init, Delivery!Init
<1>2. TypeOK /\ TypeOK' /\ RelayInv /\ RowsInOrder /\ SettledWasPublished'
        /\ [Next]_vars => [Delivery!Next]_Delivery!vars
  <2> SUFFICES ASSUME TypeOK, TypeOK', RelayInv, RowsInOrder,
                      SettledWasPublished', [Next]_vars
               PROVE  [Delivery!Next]_Delivery!vars
    OBVIOUS
  <2>1. /\ sends \in [written -> Nat]
        /\ sends' \in [written' -> Nat]
        /\ pending \subseteq written /\ pending' \subseteq written'
        /\ written \subseteq Row /\ written' \subseteq Row
        /\ batch \subseteq pending /\ marked \subseteq pending
    BY DEF TypeOK, RelayInv
  <2>2. settled' \subseteq sent'
    BY <2>1 DEF SettledWasPublished
  <2>3. ASSUME UNCHANGED <<written, sends, pending>>
        PROVE  UNCHANGED Delivery!vars
    BY <2>3 DEF Delivery!vars
  <2>4. CASE Insert
    <3>1. PICK rows \in SUBSET Row : /\ AddBatch(rows)
                                     /\ \A r \in rows : r.tx = txs + 1
      BY <2>4 DEF Insert
    <3>2. rows \cap written = {}
      BY <3>1 DEF RowsInOrder, TypeOK, Row
    <3>3. written \subseteq written' /\ UNCHANGED settled
      BY <2>1, <3>1, <3>2 DEF AddBatch
    <3>4. UNCHANGED sent
      BY <2>1, <3>1, <3>2 DEF AddBatch
    <3> QED  BY <2>1, <3>3, <3>4 DEF Delivery!Next, Delivery!Accept
  <2>5. ASSUME NEW r \in batch,
               SendUpdate(r) \/ SendFails(r) \/ UpdateStatusFails(r)
        PROVE  Delivery!Next
    <3>1. UNCHANGED written /\ UNCHANGED pending
      BY <2>5 DEF SendUpdate, SendFails, UpdateStatusFails, outboxVars
    <3>2. \E n \in {0, 1} : sends' = [sends EXCEPT ![r] = @ + n]
      BY <2>5 DEF SendUpdate, SendFails, UpdateStatusFails
    <3>3. sent \subseteq sent' /\ sent' \subseteq sent \cup {r}
      BY <2>1, <3>1, <3>2
    <3>4. r \in written \ settled
      BY <2>1
    <3> QED  BY <2>2, <3>1, <3>3, <3>4 DEF Delivery!Next, Delivery!HandOn
  <2>6. CASE RelayCommit
    <3>1. UNCHANGED <<written, sends>> /\ pending' = pending \ marked
      BY <2>6 DEF RelayCommit
    <3> QED  BY <2>1, <2>2, <3>1 DEF Delivery!Next, Delivery!HandOn
  <2> QED
    BY <2>3, <2>4, <2>5, <2>6, StepKinds
    DEF Quiet, FetchPending, RelayRollback, Abandon, outboxVars
<1> QED
  BY <1>1, <1>2, TypeCorrect, RelayInvHolds, RowsInOrderHolds,
     SettledRowsWerePublished, PTL
  DEF Spec, DeliversAtLeastOnce, Delivery!Spec

----------------------------------------------------------------------------
(* The crawl. *)

(* The chat has been told, or is going to be, of a change of that second. *)
Told(c, l, at) == \E r \in written : Reports(r, c, l, at)

LEMMA WrittenGrows ==
  ASSUME TypeOK, [Next]_vars
  PROVE  written \subseteq written'
  BY StepKinds
  DEF Quiet, Insert, AddBatch, FetchPending, SendUpdate, SendFails,
      UpdateStatusFails, RelayCommit, RelayRollback, Abandon, outboxVars

LEMMA ToldForEver ==
  ASSUME TypeOK, [Next]_vars, NEW c, NEW l, NEW at, Told(c, l, at)
  PROVE  Told(c, l, at)'
  BY WrittenGrows DEF Told, Reports

(* Steps that the crawl's invariants do not see. *)
RelaySide == UNCHANGED <<sourceVars, subVars, crawlVars>>

LEMMA RelayIsElsewhere ==
  ASSUME \/ RelayStep
         \/ CleanOutbox
         \/ RelayTxFails
         \/ \E r \in batch : SendFails(r) \/ UpdateStatusFails(r)
  PROVE  RelaySide
  BY DEF RelaySide, RelayStep, CleanOutbox, RelayTxFails, FetchPending, SendUpdate,
         SendFails, UpdateStatusFails, RelayCommit, RelayRollback

(* The updates of a busy worker, and what its transaction makes of them. *)
LEMMA CommitOfUpdates ==
  ASSUME TypeOK, NEW w \in Workers, ProcessLinkTx(w),
         NEW p \in Subscriptions
  PROVE  \/ lastUpdate'[p] = lastUpdate[p]
         \/ /\ p \in subs
            /\ p[2] = crawl[w].link
            /\ \E u \in crawl[w].updates : p[1] \in u.chats /\ u.at = lastUpdate'[p]
            /\ \A u \in crawl[w].updates : p[1] \in u.chats => u.at <= lastUpdate'[p]
<1> DEFINE l == crawl[w].link
           updates == crawl[w].updates
<1>1. PICK last \in [Addressed(updates) -> Times] :
        /\ IsUserUpdate(last, updates)
        /\ lastUpdate' = [q \in Subscriptions |->
             IF q[2] = l /\ q[1] \in Addressed(updates)
             THEN last[q[1]] ELSE lastUpdate[q]]
  BY DEF ProcessLinkTx
<1>2. CASE p[2] = l /\ p[1] \in Addressed(updates)
  <2>1. p = <<p[1], p[2]>> /\ p \in subs
    BY <1>2 DEF Subscriptions, ProcessLinkTx
  <2>2. lastUpdate'[p] = last[p[1]]
    BY <1>1, <1>2
  <2>3. /\ last[p[1]] \in TimesFor(updates, p[1])
        /\ \A t \in TimesFor(updates, p[1]) : t <= last[p[1]]
    BY <1>1, <1>2 DEF IsUserUpdate
  <2> QED  BY <1>2, <2>1, <2>2, <2>3 DEF TimesFor
<1>3. CASE ~(p[2] = l /\ p[1] \in Addressed(updates))
  BY <1>1, <1>3
<1> QED  BY <1>2, <1>3

(* Each of them has become a row. *)
LEMMA CommitTells ==
  ASSUME NEW w \in Workers, ProcessLinkTx(w), NEW l, l = crawl[w].link,
         NEW u \in crawl[w].updates, NEW c \in u.chats
  PROVE  Told(c, l, u.at)'
<1> DEFINE r == [tx |-> txs + 1, link |-> l, shot |-> u.shot, at |-> u.at,
                 chats |-> u.chats]
<1>1. r \in written'
  BY DEF ProcessLinkTx, AddBatch, NewRows
<1>2. r.link = l /\ c \in r.chats /\ r.at = u.at
  OBVIOUS
<1> HIDE DEF r
<1> QED  BY <1>1, <1>2 DEF Told, Reports

(* A cursor, or a copy of it that a worker has read, is backed by a row. *)
Backed(c, l, last) == last > 0 => Told(c, l, last)
CursorsBacked == \A p \in Subscriptions : Backed(p[1], p[2], lastUpdate[p])

(* Only three kinds of step touch a cursor. *)
LEMMA CursorSteps ==
  ASSUME TypeOK, [Next]_vars, NEW p \in Subscriptions
  PROVE  \/ lastUpdate'[p] = lastUpdate[p]
         \/ p \notin subs /\ lastUpdate'[p] = 0
         \/ \E w \in Workers : ProcessLinkTx(w)
<1> USE DEF subVars
<1>1. ASSUME NEW c \in Chats, NEW l \in Links, Subscribe(c, l)
      PROVE  \/ lastUpdate'[p] = lastUpdate[p]
             \/ p \notin subs /\ lastUpdate'[p] = 0
  BY <1>1 DEF Subscribe, TypeOK
<1>2. ASSUME NEW c \in Chats, NEW l \in Links, Unsubscribe(c, l)
      PROVE  lastUpdate'[p] = lastUpdate[p]
  BY <1>2 DEF Unsubscribe
<1>3. ASSUME NEW w \in Workers,
             (\E l \in Links : ReadSubscribers(w, l)) \/ SearchResource(w)
               \/ SearchFails(w) \/ ProcessLinkRollback(w)
               \/ ProcessErrLinkTx(w) \/ CrawlTxFails(w)
      PROVE  lastUpdate'[p] = lastUpdate[p]
  BY <1>3 DEF ReadSubscribers, SearchResource, SearchFails, ProcessLinkRollback,
              ProcessErrLinkTx, CrawlTxFails
<1>4. ASSUME Tick \/ (\E l \in Links, s \in Shots : SourceChanges(l, s)) \/ Crash
               \/ UNCHANGED vars
      PROVE  lastUpdate'[p] = lastUpdate[p]
  BY <1>4 DEF Tick, SourceChanges, Crash, vars
<1> QED
  BY <1>1, <1>2, <1>3, <1>4, RelayIsElsewhere
  DEF Next, Environment, CrawlStep, Failure, RelaySide

(* A cursor never runs ahead of the outbox (processLinkTx moves the cursor *)
(* and inserts the rows in one transaction), whatever overlaps or fails.   *)
THEOREM CursorIsBacked == Spec => []CursorBacked
<1>1. Init => CursorsBacked
  BY DEF Init, CursorsBacked, Backed
<1>2. TypeOK /\ CursorsBacked /\ [Next]_vars => CursorsBacked'
  <2> SUFFICES ASSUME TypeOK, CursorsBacked, [Next]_vars,
                      NEW p \in Subscriptions, NEW at, at = lastUpdate'[p], at > 0
               PROVE  Told(p[1], p[2], at)'
    BY DEF CursorsBacked, Backed, Told, Reports
  <2>1. CASE at = lastUpdate[p]
    BY <2>1, ToldForEver DEF CursorsBacked, Backed
  <2>2. CASE at = 0
    BY <2>2
  <2>3. ASSUME NEW w \in Workers, ProcessLinkTx(w), at # lastUpdate[p]
        PROVE  Told(p[1], p[2], at)'
    BY <2>3, CommitOfUpdates, CommitTells
  <2> QED
    BY <2>1, <2>2, <2>3, CursorSteps
<1>3. TypeOK /\ CursorsBacked => CursorBacked
  BY DEF TypeOK, CursorsBacked, CursorBacked, Backed, Told
<1> QED
  BY <1>1, <1>2, <1>3, TypeCorrect, PTL DEF Spec

(* Of each shot of the link, the change of that second is newer than the   *)
(* cursor, or the chat has been told of a change of that second.           *)
Skipless(c, l, last) ==
  \A s \in Shots :
    \/ source[l][s] = 0
    \/ source[l][s] > last
    \/ Told(c, l, source[l][s])

Fresh(c, l, last) == last <= clock /\ Backed(c, l, last) /\ Skipless(c, l, last)

(* What a worker has found is complete: whatever change of the link its    *)
(* transaction will not report to a reader is newer than all it reports.   *)
Complete(w) ==
  /\ \A u \in crawl[w].updates : u.at <= clock
  /\ \A u \in crawl[w].updates :
       \A c \in u.chats : \E x \in crawl[w].readers : x.chat = c
  /\ \A x \in crawl[w].readers, s \in Shots :
       LET at == source[crawl[w].link][s]
       IN  \/ at = 0
           \/ Told(x.chat, crawl[w].link, at)
           \/ \E u \in crawl[w].updates : x.chat \in u.chats /\ u.at = at
           \/ \A u \in crawl[w].updates : x.chat \in u.chats => u.at < at

NoSkipInv ==
  /\ clock >= 1
  /\ \A l \in Links, s \in Shots : source[l][s] <= clock
  /\ \A p \in Subscriptions : Fresh(p[1], p[2], lastUpdate[p])
  /\ \A w \in Workers :
       \A x \in crawl[w].readers : Fresh(x.chat, crawl[w].link, x.last)
  /\ \A w \in Workers : crawl[w].pc = "commit" => Complete(w)

(* Fresh survives every step: rows are only added, and a shot that changes *)
(* takes the time of the clock, which a cursor equals only if the chat has *)
(* been told of a change of that second.                                   *)
LEMMA SourceSteps ==
  ASSUME TypeOK, [Next]_vars
  PROVE  /\ clock' >= clock
         /\ \A l \in Links, s \in Shots :
              \/ source'[l][s] = source[l][s]
              \/ source'[l][s] = clock /\ clock' = clock
<1> USE DEF sourceVars
<1> clock \in Nat
  BY PipelineAssumption DEF TypeOK, Times, PipelineAssumption
<1>1. CASE Tick
  BY <1>1 DEF Tick
<1>2. ASSUME NEW k \in Links, NEW z \in Shots, SourceChanges(k, z)
      PROVE  /\ clock' = clock
             /\ \A l \in Links, s \in Shots :
                  source'[l][s] = source[l][s] \/ source'[l][s] = clock
  BY <1>2 DEF SourceChanges, TypeOK
<1>3. CASE UNCHANGED sourceVars
  BY <1>3
<1>4. ASSUME (\E c \in Chats, k \in Links : Subscribe(c, k) \/ Unsubscribe(c, k))
               \/ (\E w \in Workers : CrawlStep(w))
               \/ (\E w \in Workers : SearchFails(w) \/ CrawlTxFails(w))
               \/ Crash \/ UNCHANGED vars
      PROVE  UNCHANGED sourceVars
  BY <1>4 DEF Subscribe, Unsubscribe, CrawlStep, ReadSubscribers, SearchResource,
              SearchFails, ProcessLinkTx, ProcessLinkRollback, ProcessErrLinkTx,
              CrawlTxFails, Crash, vars
<1> QED
  BY <1>1, <1>2, <1>3, <1>4, RelayIsElsewhere
  DEF Next, Environment, Failure, RelaySide

LEMMA FreshForEver ==
  ASSUME TypeOK, NoSkipInv, [Next]_vars,
         NEW c, NEW l \in Links, NEW last \in Nat, Fresh(c, l, last)
  PROVE  Fresh(c, l, last)'
<1>0. clock \in Nat /\ clock >= 1
  BY PipelineAssumption DEF TypeOK, Times, PipelineAssumption, NoSkipInv
<1>1. Backed(c, l, last)'
  BY ToldForEver DEF Fresh, Backed
<1>2. ASSUME NEW s \in Shots, NEW at, at = source'[l][s]
      PROVE  at = 0 \/ at > last \/ Told(c, l, at)'
  <2>1. CASE at = source[l][s]
    BY <2>1, ToldForEver DEF Fresh, Skipless
  <2>2. CASE at = clock /\ at > last
    BY <2>2
  <2>3. CASE at = clock /\ at = last
    BY <1>0, <1>1, <2>3 DEF Backed
  <2> QED
    BY <1>0, <1>2, <2>1, <2>2, <2>3, SourceSteps DEF Fresh
<1>3. Skipless(c, l, last)'
  BY <1>2 DEF Skipless, Told, Reports
<1>4. clock' >= clock /\ clock' \in Nat
  BY TypeStep, SourceSteps, PipelineAssumption DEF TypeOK, Times, PipelineAssumption
<1> QED
  BY <1>0, <1>1, <1>3, <1>4 DEF Fresh

(* How a worker gets its readers, and its updates. *)
LEMMA WorkerSteps ==
  ASSUME TypeOK, [Next]_vars, NEW w \in Workers
  PROVE  /\ \/ crawl'[w] = Idle
            \/ /\ crawl'[w].readers = crawl[w].readers
               /\ crawl'[w].link = crawl[w].link
            \/ \E l \in Links : ReadSubscribers(w, l)
         /\ crawl'[w].pc = "commit" => crawl'[w] = crawl[w] \/ SearchResource(w)
<1> DEFINE Goal ==
         /\ \/ crawl'[w] = Idle
            \/ /\ crawl'[w].readers = crawl[w].readers
               /\ crawl'[w].link = crawl[w].link
            \/ \E l \in Links : ReadSubscribers(w, l)
         /\ crawl'[w].pc = "commit" => crawl'[w] = crawl[w] \/ SearchResource(w)
<1>1. crawl \in [Workers -> Worker]
  BY DEF TypeOK
<1>2. ASSUME NEW v \in Workers, v # w,
             (\E l \in Links : ReadSubscribers(v, l)) \/ SearchResource(v)
               \/ SearchFails(v) \/ ProcessLinkTx(v) \/ ProcessLinkRollback(v)
               \/ ProcessErrLinkTx(v) \/ CrawlTxFails(v)
      PROVE  Goal
  BY <1>1, <1>2 DEF ReadSubscribers, SearchResource, SearchFails, ProcessLinkTx,
                    ProcessLinkRollback, ProcessErrLinkTx, CrawlTxFails
<1>3. ASSUME NEW l \in Links, ReadSubscribers(w, l)
      PROVE  Goal
  BY <1>1, <1>3 DEF ReadSubscribers
<1>4. CASE SearchResource(w)
  <2>1. crawl[w] \in [pc: {"search", "commit", "report"}, link: Links,
                      readers: SUBSET Reader, updates: SUBSET Update]
    BY <1>1, <1>4 DEF SearchResource, Worker, Idle
  <2> QED  BY <1>1, <1>4, <2>1 DEF SearchResource, Idle
<1>5. CASE SearchFails(w)
  <2>1. crawl[w] \in [pc: {"search", "commit", "report"}, link: Links,
                      readers: SUBSET Reader, updates: SUBSET Update]
    BY <1>1, <1>5 DEF SearchFails, Worker, Idle
  <2> QED  BY <1>1, <1>5, <2>1 DEF SearchFails
<1>6. ASSUME crawl'[w] = Idle
      PROVE  Goal
  BY <1>6 DEF Idle
<1>7. CASE ProcessLinkTx(w) \/ ProcessLinkRollback(w) \/ ProcessErrLinkTx(w)
             \/ CrawlTxFails(w) \/ Crash
  BY <1>1, <1>6, <1>7 DEF ProcessLinkTx, ProcessLinkRollback, ProcessErrLinkTx,
                          CrawlTxFails, Crash
<1>8. ASSUME Environment \/ UNCHANGED vars
      PROVE  Goal
  BY <1>8 DEF Environment, Tick, SourceChanges, Subscribe, Unsubscribe, crawlVars, vars
<1> QED
  BY <1>2, <1>3, <1>4, <1>5, <1>7, <1>8, RelayIsElsewhere
  DEF Next, CrawlStep, Failure, RelaySide, crawlVars

(* SearchResource finds what the transaction has to report. *)
LEMMA SearchIsComplete ==
  ASSUME TypeOK, NoSkipInv, NEW w \in Workers, SearchResource(w),
         crawl'[w].pc = "commit"
  PROVE  Complete(w)'
<1> DEFINE l == crawl[w].link
           readers == crawl[w].readers
           found == UpdatesOf(readers, source[l])
<1>1. crawl[w] \in [pc: {"search", "commit", "report"}, link: Links,
                    readers: SUBSET Reader, updates: SUBSET Update]
  BY DEF SearchResource, TypeOK, Worker, Idle
<1>2. /\ crawl'[w].link = l
      /\ crawl'[w].readers = readers
      /\ crawl'[w].updates = found
  BY <1>1 DEF SearchResource, TypeOK, Idle
<1>3. l \in Links /\ source[l] \in [Shots -> Times]
  BY <1>1 DEF TypeOK
<1>4. UNCHANGED <<clock, source, written>>
  BY DEF SearchResource, sourceVars, outboxVars
<1>5. \A u \in found : u.at <= clock
  BY <1>3 DEF UpdatesOf, NoSkipInv
<1>6. \A u \in found : \A c \in u.chats : \E x \in readers : x.chat = c
  BY DEF UpdatesOf, Addressees
<1>7. ASSUME NEW x \in readers, NEW s \in Shots, NEW at, at = source[l][s],
             at # 0, ~Told(x.chat, l, at)
      PROVE  \E u \in found : x.chat \in u.chats /\ u.at = at
  <2>1. at > x.last
    BY <1>7 DEF NoSkipInv, Fresh, Skipless
  <2>2. at > 0
    BY <1>3, <1>7, PipelineAssumption DEF Times, PipelineAssumption
  <2>3. [shot |-> s, at |-> at, chats |-> Addressees(readers, at)] \in found
    <3>1. x.chat \in Addressees(readers, at)
      BY <2>1 DEF Addressees
    <3> QED  BY <1>7, <2>2, <3>1 DEF UpdatesOf
  <2> QED  BY <2>1, <2>3 DEF Addressees
<1> HIDE DEF l, readers, found
<1>8. \A x \in readers, s \in Shots :
        \/ source[l][s] = 0
        \/ Told(x.chat, l, source[l][s])
        \/ \E u \in found : x.chat \in u.chats /\ u.at = source[l][s]
  BY <1>7
<1> QED
  BY <1>2, <1>4, <1>5, <1>6, <1>8 DEF Complete, Told, Reports

(* It stays so until the transaction runs: a later change is newer. *)
LEMMA CompleteForEver ==
  ASSUME TypeOK, NoSkipInv, [Next]_vars, NEW w \in Workers,
         crawl[w].pc = "commit", crawl'[w] = crawl[w]
  PROVE  Complete(w)'
<1> DEFINE l == crawl[w].link
           readers == crawl[w].readers
           updates == crawl[w].updates
<1>1. crawl[w] \in [pc: {"search", "commit", "report"}, link: Links,
                    readers: SUBSET Reader, updates: SUBSET Update]
  BY DEF TypeOK, Worker, Idle
<1>2. l \in Links /\ \A u \in updates : u.at \in Nat
  BY <1>1, PipelineAssumption DEF Update, Times, PipelineAssumption
<1>3. /\ \A u \in updates : u.at <= clock
      /\ clock \in Nat /\ clock' \in Nat /\ clock' >= clock
  BY SourceSteps, TypeStep, PipelineAssumption
  DEF NoSkipInv, Complete, TypeOK, Times, PipelineAssumption
<1>4. ASSUME NEW x \in readers, NEW s \in Shots, NEW at, at = source'[l][s]
      PROVE  \/ at = 0
             \/ \E r \in written' : Reports(r, x.chat, l, at)
             \/ \E u \in updates : x.chat \in u.chats /\ u.at = at
             \/ \A u \in updates : x.chat \in u.chats => u.at < at
  <2>1. CASE at = source[l][s]
    <3>1. \/ at = 0
          \/ Told(x.chat, l, at)
          \/ \E u \in updates : x.chat \in u.chats /\ u.at = at
          \/ \A u \in updates : x.chat \in u.chats => u.at < at
      BY <2>1 DEF NoSkipInv, Complete
    <3> QED  BY <3>1, WrittenGrows DEF Told
  <2>2. CASE at = clock
    BY <1>2, <1>3, <2>2
  <2> QED
    BY <1>2, <1>4, <2>1, <2>2, SourceSteps
<1>5. \A u \in updates : \A c \in u.chats : \E x \in readers : x.chat = c
  BY DEF NoSkipInv, Complete
<1>6. \A u \in updates : u.at <= clock'
  BY <1>2, <1>3
<1> HIDE DEF l, readers, updates
<1>7. \A x \in readers, s \in Shots :
        \/ source'[l][s] = 0
        \/ \E r \in written' : Reports(r, x.chat, l, source'[l][s])
        \/ \E u \in updates : x.chat \in u.chats /\ u.at = source'[l][s]
        \/ \A u \in updates : x.chat \in u.chats => u.at < source'[l][s]
  BY <1>4
<1> QED
  BY <1>5, <1>6, <1>7 DEF Complete, Told, Reports, l, readers, updates

(* The transaction of a complete worker leaves fresh cursors. *)
LEMMA CommitIsFresh ==
  ASSUME TypeOK, NoSkipInv, [Next]_vars, NEW w \in Workers, ProcessLinkTx(w),
         NEW p \in Subscriptions, NEW last, last = lastUpdate'[p],
         last # lastUpdate[p]
  PROVE  Fresh(p[1], p[2], last)'
<1>1. /\ p[2] = crawl[w].link
      /\ \E u \in crawl[w].updates : p[1] \in u.chats /\ u.at = last
      /\ \A u \in crawl[w].updates : p[1] \in u.chats => u.at <= last
  BY CommitOfUpdates
<1>2. Complete(w)
  BY DEF NoSkipInv, ProcessLinkTx
<1>3. crawl[w] \in [pc: {"search", "commit", "report"}, link: Links,
                    readers: SUBSET Reader, updates: SUBSET Update]
  BY DEF ProcessLinkTx, TypeOK, Worker, Idle
<1>4. UNCHANGED <<clock, source>>
  BY DEF ProcessLinkTx, sourceVars
<1>5. last <= clock
  BY <1>1, <1>2 DEF Complete
<1>6. Told(p[1], p[2], last)'
  BY <1>1, CommitTells
<1>7. ASSUME NEW s \in Shots, NEW at, at = source[p[2]][s]
      PROVE  at = 0 \/ at > last \/ Told(p[1], p[2], at)'
  <2>1. PICK x \in crawl[w].readers : x.chat = p[1]
    BY <1>1, <1>2 DEF Complete
  <2>2. \/ at = 0
        \/ Told(p[1], p[2], at)
        \/ \E u \in crawl[w].updates : p[1] \in u.chats /\ u.at = at
        \/ \A u \in crawl[w].updates : p[1] \in u.chats => u.at < at
    BY <1>1, <1>2, <1>7, <2>1 DEF Complete
  <2>3. CASE Told(p[1], p[2], at)
    BY <2>3, ToldForEver
  <2>4. CASE \E u \in crawl[w].updates : p[1] \in u.chats /\ u.at = at
    BY <1>1, <2>4, CommitTells
  <2>5. CASE \A u \in crawl[w].updates : p[1] \in u.chats => u.at < at
    BY <1>1, <2>5
  <2> QED  BY <2>2, <2>3, <2>4, <2>5
<1>8. \A s \in Shots : \/ source'[p[2]][s] = 0
                       \/ source'[p[2]][s] > last
                       \/ Told(p[1], p[2], source[p[2]][s])'
  BY <1>4, <1>7 DEF Told, Reports
<1> QED
  BY <1>4, <1>5, <1>6, <1>8 DEF Fresh, Backed, Skipless, Told, Reports

LEMMA NoSkipInvHolds == Spec => []NoSkipInv
<1>1. Init => NoSkipInv
  BY PipelineAssumption
  DEF Init, NoSkipInv, Fresh, Backed, Skipless, Idle, Subscriptions,
      PipelineAssumption
<1>2. TypeOK /\ NoSkipInv /\ [Next]_vars => NoSkipInv'
  <2> SUFFICES ASSUME TypeOK, NoSkipInv, [Next]_vars PROVE NoSkipInv'
    OBVIOUS
  <2>1. /\ clock \in Nat /\ clock' \in Nat /\ clock' >= clock /\ clock >= 1
        /\ \A l \in Links, s \in Shots : source[l][s] \in Nat /\ source'[l][s] \in Nat
        /\ \A p \in Subscriptions : p[1] \in Chats /\ p[2] \in Links
        /\ \A p \in Subscriptions : lastUpdate[p] \in Nat
    BY SourceSteps, TypeStep, PipelineAssumption
    DEF TypeOK, Times, Subscriptions, NoSkipInv, PipelineAssumption
  <2>2. clock' >= 1
    BY <2>1
  <2>3. \A l \in Links, s \in Shots : source'[l][s] <= clock'
    BY <2>1, SourceSteps DEF NoSkipInv
  <2>4. ASSUME NEW p \in Subscriptions, NEW last, last = lastUpdate'[p]
        PROVE  Fresh(p[1], p[2], last)'
    <3>1. CASE last = lastUpdate[p]
      BY <2>1, <3>1, FreshForEver DEF NoSkipInv
    <3>2. CASE last = 0
      <4>1. \A s \in Shots : source'[p[2]][s] = 0 \/ source'[p[2]][s] > 0
        BY <2>1
      <4> QED  BY <2>1, <3>2, <4>1 DEF Fresh, Backed, Skipless
    <3>3. ASSUME NEW w \in Workers, ProcessLinkTx(w), last # lastUpdate[p]
          PROVE  Fresh(p[1], p[2], last)'
      BY <2>4, <3>3, CommitIsFresh
    <3> QED
      BY <2>4, <3>1, <3>2, <3>3, CursorSteps
  <2>5. ASSUME NEW w \in Workers, NEW x \in crawl'[w].readers,
               NEW l, l = crawl'[w].link
        PROVE  Fresh(x.chat, l, x.last)'
    <3>1. CASE x \in crawl[w].readers /\ l = crawl[w].link
      <4>1. l \in Links /\ x.last \in Nat
        BY <3>1, PipelineAssumption
        DEF TypeOK, Worker, Idle, Reader, Times, PipelineAssumption
      <4> QED  BY <3>1, <4>1, FreshForEver DEF NoSkipInv
    <3>2. ASSUME NEW k \in Links, ReadSubscribers(w, k)
          PROVE  Fresh(x.chat, l, x.last)'
      <4>1. x \in Readers(k) /\ l = k
        BY <2>5, <3>2 DEF ReadSubscribers, TypeOK
      <4>2. PICK p \in subs : p[2] = k /\ x.chat = p[1] /\ x.last = lastUpdate[p]
        BY <4>1 DEF Readers
      <4>3. p \in Subscriptions
        BY DEF TypeOK
      <4> QED  BY <2>1, <4>1, <4>2, <4>3, FreshForEver DEF NoSkipInv
    <3> QED
      BY <2>5, <3>1, <3>2, WorkerSteps DEF Idle
  <2>6. ASSUME NEW w \in Workers, crawl'[w].pc = "commit"
        PROVE  Complete(w)'
    <3>1. CASE crawl'[w] = crawl[w]
      BY <2>6, <3>1, CompleteForEver
    <3>2. CASE SearchResource(w)
      BY <2>6, <3>2, SearchIsComplete
    <3> QED  BY <2>6, <3>1, <3>2, WorkerSteps
  <2>7. \A p \in Subscriptions : Fresh(p[1], p[2], lastUpdate[p])'
    BY <2>4 DEF Fresh, Backed, Skipless, Told, Reports
  <2>8. \A w \in Workers :
          \A x \in crawl'[w].readers : Fresh(x.chat, crawl[w].link, x.last)'
    BY <2>5 DEF Fresh, Backed, Skipless, Told, Reports
  <2> QED
    BY <2>2, <2>3, <2>6, <2>7, <2>8 DEF NoSkipInv
<1> QED
  BY <1>1, <1>2, TypeCorrect, PTL DEF Spec

(* No change is skipped in silence, although the subscribers are read long *)
(* before the transaction, and by several crawls at a time.                *)
THEOREM NothingIsSkipped == Spec => []NoSilentSkip
<1>1. TypeOK /\ NoSkipInv => NoSilentSkip
  <2> SUFFICES ASSUME TypeOK, NoSkipInv, NEW p \in subs, NEW s \in Shots
               PROVE  LET at == source[p[2]][s]
                      IN  \/ at = 0
                          \/ at > lastUpdate[p]
                          \/ \E r \in written : Reports(r, p[1], p[2], at)
    BY DEF NoSilentSkip
  <2>1. Skipless(p[1], p[2], lastUpdate[p])
    BY DEF TypeOK, NoSkipInv, Fresh
  <2> QED  BY <2>1 DEF Skipless, Told
<1> QED
  BY <1>1, TypeCorrect, NoSkipInvHolds, PTL

(* What a worker has found is ahead of what it has read. *)
UpdatesAreDue ==
  \A w \in Workers : crawl[w].pc = "commit" =>
    \A u \in crawl[w].updates :
      \A c \in u.chats : \E x \in crawl[w].readers : x.chat = c /\ x.last < u.at

LEMMA BusyWorker ==
  ASSUME TypeOK, NEW w \in Workers
  PROVE  \/ crawl[w] = Idle /\ crawl[w].link = NoLink /\ crawl[w].readers = {}
         \/ /\ crawl[w].link \in Links
            /\ crawl[w].link # NoLink
            /\ \A x \in crawl[w].readers : x.chat \in Chats /\ x.last \in Nat
            /\ \A u \in crawl[w].updates : u.at \in Nat
  BY PipelineAssumption
  DEF TypeOK, Worker, Idle, Reader, Update, Times, PipelineAssumption

LEMMA UpdatesAreDueHolds == Spec => []UpdatesAreDue
<1>1. Init => UpdatesAreDue
  BY DEF Init, UpdatesAreDue, Idle
<1>2. TypeOK /\ UpdatesAreDue /\ [Next]_vars => UpdatesAreDue'
  <2> SUFFICES ASSUME TypeOK, UpdatesAreDue, [Next]_vars,
                      NEW w \in Workers, crawl'[w].pc = "commit",
                      NEW u \in crawl'[w].updates, NEW c \in u.chats
               PROVE  \E x \in crawl'[w].readers : x.chat = c /\ x.last < u.at
    BY DEF UpdatesAreDue
  <2>1. CASE crawl'[w] = crawl[w]
    BY <2>1 DEF UpdatesAreDue
  <2>2. CASE SearchResource(w)
    <3>1. crawl[w] \in [pc: {"search", "commit", "report"}, link: Links,
                        readers: SUBSET Reader, updates: SUBSET Update]
      BY <2>2 DEF SearchResource, TypeOK, Worker, Idle
    <3>2. /\ crawl'[w].readers = crawl[w].readers
          /\ crawl'[w].updates = UpdatesOf(crawl[w].readers, source[crawl[w].link])
      BY <2>2, <3>1 DEF SearchResource, TypeOK, Idle
    <3>3. PICK x \in crawl[w].readers : x.chat = c /\ u.at > x.last
      BY <3>2 DEF UpdatesOf, Addressees
    <3>4. source[crawl[w].link] \in [Shots -> Times]
      BY <3>1 DEF TypeOK
    <3>5. u \in Update /\ x \in Reader
      BY <3>1, <3>2, <3>4, UpdatesOfTyped
    <3>6. x.last \in Nat /\ u.at \in Nat
      BY <3>5, PipelineAssumption DEF Reader, Update, Times, PipelineAssumption
    <3> QED  BY <3>2, <3>3, <3>6
  <2> QED  BY <2>1, <2>2, WorkerSteps
<1> QED
  BY <1>1, <1>2, TypeCorrect, PTL DEF Spec

----------------------------------------------------------------------------
(* How often a change is reported. *)

(* The rows that report the change of shot s at time t to a subscription. *)
Telling(p, s, t) == {r \in written : r.shot = s /\ Reports(r, p[1], p[2], t)}

(* The workers that have read a cursor of the subscription behind t: each  *)
(* may yet report the change, or move the cursor back before it.           *)
Behind(p, t) ==
  {w \in Workers : /\ crawl[w].link = p[2]
                   /\ \E x \in crawl[w].readers : x.chat = p[1] /\ x.last < t}

(* The reports there are and may come stay within what the subscriptions   *)
(* and the overlaps pay for.                                               *)
ToldOnce(p, s, t) ==
  /\ IsFiniteSet(Telling(p, s, t))
  /\ Cardinality(Telling(p, s, t)) + Cardinality(Behind(p, t)) <= epochs[p] + overlaps[p[2]]
  /\ p \in subs /\ lastUpdate[p] < t =>
       Cardinality(Telling(p, s, t)) + 1 <= epochs[p] + overlaps[p[2]]

ToldOnceInv == \A p \in Subscriptions, s \in Shots, t \in Times \ {0} : ToldOnce(p, s, t)

(* A worker holds one update of a shot, and the report of a failed crawl   *)
(* is of none.                                                             *)
ShotsInv ==
  \A w \in Workers :
    /\ crawl[w].pc = "commit" =>
         \A u, v \in crawl[w].updates : u.shot = v.shot => u = v
    /\ crawl[w].pc = "report" => \A u \in crawl[w].updates : u.shot = NoShot

(* How a worker gets to the report of a failed crawl. *)
LEMMA ReportSteps ==
  ASSUME TypeOK, [Next]_vars, NEW w \in Workers, crawl'[w].pc = "report"
  PROVE  crawl'[w] = crawl[w] \/ SearchFails(w)
<1>1. crawl \in [Workers -> Worker]
  BY DEF TypeOK
<1>2. ASSUME NEW v \in Workers, v # w,
             (\E l \in Links : ReadSubscribers(v, l)) \/ SearchResource(v)
               \/ SearchFails(v) \/ ProcessLinkTx(v) \/ ProcessLinkRollback(v)
               \/ ProcessErrLinkTx(v) \/ CrawlTxFails(v)
      PROVE  crawl'[w] = crawl[w]
  BY <1>1, <1>2 DEF ReadSubscribers, SearchResource, SearchFails, ProcessLinkTx,
                    ProcessLinkRollback, ProcessErrLinkTx, CrawlTxFails
<1>3. ~\E l \in Links : ReadSubscribers(w, l)
  BY <1>1 DEF ReadSubscribers
<1>4. ~SearchResource(w)
  <2>1. SearchResource(w) =>
          crawl[w] \in [pc: {"search", "commit", "report"}, link: Links,
                        readers: SUBSET Reader, updates: SUBSET Update]
    BY <1>1 DEF SearchResource, Worker, Idle
  <2> SUFFICES ASSUME SearchResource(w) PROVE FALSE
    OBVIOUS
  <2> DEFINE found == UpdatesOf(crawl[w].readers, source[crawl[w].link])
  <2>2. crawl'[w] = IF found = {} THEN Idle
                    ELSE [crawl[w] EXCEPT !.pc = "commit", !.updates = found]
    BY <1>1 DEF SearchResource
  <2> HIDE DEF found
  <2>3. crawl'[w].pc \in {"idle", "commit"}
    BY <2>1, <2>2 DEF Idle
  <2> QED  BY <2>3
<1>5. ~(ProcessLinkTx(w) \/ ProcessLinkRollback(w) \/ ProcessErrLinkTx(w)
          \/ CrawlTxFails(w) \/ Crash)
  BY <1>1 DEF ProcessLinkTx, ProcessLinkRollback, ProcessErrLinkTx, CrawlTxFails, Crash, Idle
<1>6. Environment \/ UNCHANGED vars => crawl' = crawl
  BY DEF Environment, Tick, SourceChanges, Subscribe, Unsubscribe, crawlVars, vars
<1> QED
  BY <1>2, <1>3, <1>4, <1>5, <1>6, RelayIsElsewhere
  DEF Next, CrawlStep, Failure, RelaySide, crawlVars

LEMMA ShotsInvHolds == Spec => []ShotsInv
<1>1. Init => ShotsInv
  BY DEF Init, ShotsInv, Idle
<1>2. TypeOK /\ ShotsInv /\ [Next]_vars => ShotsInv'
  <2> SUFFICES ASSUME TypeOK, ShotsInv, [Next]_vars, NEW w \in Workers
               PROVE  /\ crawl'[w].pc = "commit" =>
                           \A u, v \in crawl'[w].updates : u.shot = v.shot => u = v
                      /\ crawl'[w].pc = "report" =>
                           \A u \in crawl'[w].updates : u.shot = NoShot
    BY DEF ShotsInv
  <2>1. ASSUME crawl'[w].pc = "commit", NEW u \in crawl'[w].updates, NEW v \in crawl'[w].updates,
               u.shot = v.shot
        PROVE  u = v
    <3>1. CASE crawl'[w] = crawl[w]
      BY <2>1, <3>1 DEF ShotsInv
    <3>2. CASE SearchResource(w)
      <4>1. crawl[w] \in [pc: {"search", "commit", "report"}, link: Links,
                          readers: SUBSET Reader, updates: SUBSET Update]
        BY <3>2 DEF SearchResource, TypeOK, Worker, Idle
      <4>2. crawl'[w].updates = UpdatesOf(crawl[w].readers, source[crawl[w].link])
        BY <2>1, <3>2, <4>1 DEF SearchResource, TypeOK, Idle
      <4> QED  BY <2>1, <4>2 DEF UpdatesOf
    <3> QED  BY <2>1, <3>1, <3>2, WorkerSteps
  <2>2. ASSUME crawl'[w].pc = "report", NEW u \in crawl'[w].updates
        PROVE  u.shot = NoShot
    <3>1. CASE crawl'[w] = crawl[w]
      BY <2>2, <3>1 DEF ShotsInv
    <3>2. CASE SearchFails(w)
      <4>1. crawl[w] \in [pc: {"search", "commit", "report"}, link: Links,
                          readers: SUBSET Reader, updates: SUBSET Update]
        BY <3>2 DEF SearchFails, TypeOK, Worker, Idle
      <4> QED  BY <2>2, <3>2, <4>1 DEF SearchFails, TypeOK
    <3> QED  BY <2>2, <3>1, <3>2, ReportSteps
  <2> QED  BY <2>1, <2>2
<1> QED
  BY <1>1, <1>2, TypeCorrect, PTL DEF Spec

(* The transaction moves the cursor of each addressee, who is subscribed,  *)
(* as far as any of its updates.                                           *)
LEMMA CommitCovers ==
  ASSUME TypeOK, NEW w \in Workers, ProcessLinkTx(w), NEW p \in Subscriptions,
         p[2] = crawl[w].link, NEW u \in crawl[w].updates, p[1] \in u.chats
  PROVE  p \in subs /\ u.at <= lastUpdate'[p]
<1> DEFINE updates == crawl[w].updates
<1>1. PICK last \in [Addressed(updates) -> Times] :
        /\ IsUserUpdate(last, updates)
        /\ lastUpdate' = [q \in Subscriptions |->
             IF q[2] = crawl[w].link /\ q[1] \in Addressed(updates)
             THEN last[q[1]] ELSE lastUpdate[q]]
  BY DEF ProcessLinkTx
<1>2. p[1] \in Addressed(updates) /\ u.at \in TimesFor(updates, p[1])
  BY DEF Addressed, TimesFor
<1>3. p = <<p[1], p[2]>>
  BY DEF Subscriptions
<1>4. p \in subs
  BY <1>2, <1>3 DEF ProcessLinkTx
<1>5. lastUpdate'[p] = last[p[1]]
  BY <1>1, <1>2
<1> QED  BY <1>1, <1>2, <1>4, <1>5 DEF IsUserUpdate

(* Which steps write rows, and which change a subscription. *)
LEMMA RowSteps ==
  ASSUME TypeOK, [Next]_vars
  PROVE  UNCHANGED written \/ \E w \in Workers : ProcessLinkTx(w) \/ ProcessErrLinkTx(w)
<1> USE DEF outboxVars
<1>1. ASSUME Environment \/ UNCHANGED vars PROVE UNCHANGED written
  BY <1>1 DEF Environment, Tick, SourceChanges, Subscribe, Unsubscribe, vars
<1>2. ASSUME NEW w \in Workers,
             (\E l \in Links : ReadSubscribers(w, l)) \/ SearchResource(w)
               \/ SearchFails(w) \/ ProcessLinkRollback(w) \/ CrawlTxFails(w) \/ Crash
      PROVE  UNCHANGED written
  BY <1>2 DEF ReadSubscribers, SearchResource, SearchFails, ProcessLinkRollback, CrawlTxFails, Crash
<1>3. ASSUME RelayStep \/ CleanOutbox \/ RelayTxFails
               \/ \E r \in batch : SendFails(r) \/ UpdateStatusFails(r)
      PROVE  UNCHANGED written
  BY <1>3 DEF RelayStep, CleanOutbox, RelayTxFails, FetchPending, SendUpdate,
         SendFails, UpdateStatusFails, RelayCommit, RelayRollback
<1>4. Crash => UNCHANGED written
  BY DEF Crash
<1> QED  BY <1>1, <1>2, <1>3, <1>4 DEF Next, CrawlStep, Failure

LEMMA SubscriptionSteps ==
  ASSUME TypeOK, [Next]_vars, NEW p \in Subscriptions
  PROVE  \/ epochs'[p] = epochs[p] /\ (p \in subs' => p \in subs)
         \/ epochs'[p] = epochs[p] + 1
<1> USE DEF subVars
<1>1. ASSUME NEW c \in Chats, NEW l \in Links, Subscribe(c, l)
      PROVE  \/ epochs'[p] = epochs[p] /\ (p \in subs' => p \in subs)
             \/ epochs'[p] = epochs[p] + 1
  BY <1>1 DEF Subscribe, TypeOK
<1>2. ASSUME NEW c \in Chats, NEW l \in Links, Unsubscribe(c, l)
      PROVE  epochs'[p] = epochs[p] /\ (p \in subs' => p \in subs)
  BY <1>2 DEF Unsubscribe
<1>3. ASSUME NEW w \in Workers,
             (\E l \in Links : ReadSubscribers(w, l)) \/ SearchResource(w)
               \/ SearchFails(w) \/ ProcessLinkTx(w) \/ ProcessLinkRollback(w)
               \/ ProcessErrLinkTx(w) \/ CrawlTxFails(w)
      PROVE  epochs' = epochs /\ subs' = subs
  BY <1>3 DEF ReadSubscribers, SearchResource, SearchFails, ProcessLinkTx, ProcessLinkRollback,
              ProcessErrLinkTx, CrawlTxFails
<1>4. ASSUME Tick \/ (\E l \in Links, s \in Shots : SourceChanges(l, s)) \/ Crash
               \/ UNCHANGED vars
      PROVE  epochs' = epochs /\ subs' = subs
  BY <1>4 DEF Tick, SourceChanges, Crash, vars
<1> QED
  BY <1>1, <1>2, <1>3, <1>4, RelayIsElsewhere
  DEF Next, Environment, CrawlStep, Failure, RelaySide

(* A row more. *)
LEMMA AddRow ==
  ASSUME NEW S, NEW r, IsFiniteSet(S)
  PROVE  /\ IsFiniteSet(S \cup {r})
         /\ Cardinality(S \cup {r}) \in Nat
         /\ Cardinality(S \cup {r}) <= Cardinality(S) + 1
<1>1. Cardinality(S) \in Nat
  BY FS_CardinalityType
<1>2. IsFiniteSet(S \cup {r})
  BY FS_AddElement
<1>3. Cardinality(S \cup {r}) \in Nat
  BY <1>2, FS_CardinalityType
<1>4. \/ Cardinality(S \cup {r}) = Cardinality(S)
      \/ Cardinality(S \cup {r}) = Cardinality(S) + 1
  BY FS_AddElement
<1> QED  BY <1>1, <1>2, <1>3, <1>4

LEMMA OverlapSteps ==
  ASSUME TypeOK, [Next]_vars
  PROVE  overlaps' = overlaps \/ \E w \in Workers, l \in Links : ReadSubscribers(w, l)
<1>1. ASSUME NEW w \in Workers,
             SearchResource(w) \/ SearchFails(w) \/ ProcessLinkTx(w)
               \/ ProcessLinkRollback(w) \/ ProcessErrLinkTx(w) \/ CrawlTxFails(w)
      PROVE  overlaps' = overlaps
  BY <1>1 DEF SearchResource, SearchFails, ProcessLinkTx, ProcessLinkRollback,
              ProcessErrLinkTx, CrawlTxFails
<1>2. ASSUME Environment \/ Crash \/ UNCHANGED vars PROVE overlaps' = overlaps
  BY <1>2 DEF Environment, Tick, SourceChanges, Subscribe, Unsubscribe, Crash, vars, crawlVars
<1> QED
  BY <1>1, <1>2, RelayIsElsewhere DEF Next, CrawlStep, Failure, RelaySide, crawlVars

(* The workers behind a change are finitely many. *)
LEMMA BehindIsFinite ==
  ASSUME NEW p, NEW t
  PROVE  IsFiniteSet(Behind(p, t)) /\ Cardinality(Behind(p, t)) \in Nat
<1>1. Behind(p, t) \subseteq Workers /\ IsFiniteSet(Workers)
  BY PipelineAssumption DEF Behind, PipelineAssumption
<1>2. IsFiniteSet(Behind(p, t))
  BY <1>1, FS_Subset
<1> QED  BY <1>2, FS_CardinalityType

(* A crawl that begins beside another is paid for by the overlap, and one  *)
(* that begins alone has none beside it that is behind.                    *)
LEMMA ReadKeepsToldOnce ==
  ASSUME TypeOK, NEW w \in Workers, NEW l \in Links, ReadSubscribers(w, l),
         NEW p \in Subscriptions, NEW s \in Shots, NEW t \in Times \ {0}, ToldOnce(p, s, t)
  PROVE  ToldOnce(p, s, t)'
<1> DEFINE T == Telling(p, s, t)
           B == Behind(p, t)
           paid == epochs[p] + overlaps[p[2]]
<1>1. /\ IsFiniteSet(T) /\ Cardinality(T) \in Nat
      /\ IsFiniteSet(B) /\ Cardinality(B) \in Nat
      /\ Cardinality(T) + Cardinality(B) <= paid
      /\ p \in subs /\ lastUpdate[p] < t => Cardinality(T) + 1 <= paid
  BY BehindIsFinite, FS_CardinalityType DEF ToldOnce
<1>2. /\ t \in Nat /\ epochs[p] \in Nat /\ lastUpdate[p] \in Nat
      /\ p[2] \in Links /\ p = <<p[1], p[2]>> /\ overlaps[p[2]] \in Nat
  BY PipelineAssumption DEF TypeOK, Times, Subscriptions, PipelineAssumption
<1>3. /\ UNCHANGED <<written, subs, lastUpdate, epochs>>
      /\ overlaps' = [overlaps EXCEPT ![l] = IF Crawled(l) THEN @ + 1 ELSE @]
      /\ crawl'[w].link = l /\ crawl'[w].readers = Readers(l)
      /\ \A v \in Workers \ {w} : crawl'[v] = crawl[v]
      /\ crawl[w].link = NoLink
  <2>1. crawl[w] = Idle
    BY DEF ReadSubscribers, TypeOK, Worker
  <2> QED  BY <2>1 DEF ReadSubscribers, TypeOK, subVars, outboxVars, Idle
<1>4. T' = T
  BY <1>3 DEF Telling, Reports
<1>5. B' \subseteq B \cup {w} /\ IsFiniteSet(B') /\ Cardinality(B') \in Nat
  <2>1. B' \subseteq B \cup {w}
    BY <1>3 DEF Behind
  <2>2. IsFiniteSet(B \cup {w})
    BY <1>1, AddRow
  <2> QED  BY <2>1, <2>2, FS_Subset, FS_CardinalityType
<1> DEFINE paid2 == epochs'[p] + overlaps'[p[2]]
<1>6. paid2 \in Nat /\ paid \in Nat /\ paid <= paid2
  BY <1>2, <1>3 DEF TypeOK
<1> SUFFICES Cardinality(T) + Cardinality(B') <= paid2
  <2> HIDE DEF T, B, paid
  <2> QED  BY <1>1, <1>2, <1>3, <1>4, <1>6 DEF ToldOnce, T, B
<1>7. CASE w \notin B'
  <2>1. B' \subseteq B
    BY <1>5, <1>7
  <2>2. Cardinality(B') <= Cardinality(B)
    BY <1>1, <2>1, FS_Subset
  <2> HIDE DEF T, B, paid, paid2
  <2> QED  BY <1>1, <1>5, <1>6, <2>2
<1>8. CASE w \in B'
  <2>1. p[2] = l /\ \E x \in Readers(l) : x.chat = p[1] /\ x.last < t
    BY <1>3, <1>8 DEF Behind
  <2>2. p \in subs /\ lastUpdate[p] < t
    <3>1. PICK q \in subs : q[2] = l /\ q[1] = p[1] /\ lastUpdate[q] < t
      BY <2>1 DEF Readers
    <3>2. q = p
      BY <1>2, <2>1, <3>1 DEF TypeOK, Subscriptions
    <3> QED  BY <3>1, <3>2
  <2>3. CASE Crawled(l)
    <3>1. paid2 = paid + 1
      BY <1>2, <1>3, <2>1, <2>3 DEF TypeOK
    <3>2. Cardinality(B \cup {w}) \in Nat /\ Cardinality(B \cup {w}) <= Cardinality(B) + 1
          /\ IsFiniteSet(B \cup {w})
      BY <1>1, AddRow
    <3>3. Cardinality(B') <= Cardinality(B \cup {w})
      BY <1>5, <3>2, FS_Subset
    <3> HIDE DEF T, B, paid, paid2
    <3> QED  BY <1>1, <1>5, <1>6, <3>1, <3>2, <3>3
  <2>4. CASE ~Crawled(l)
    <3>1. B = {}
      BY <2>1, <2>4 DEF Behind, Crawled
    <3>2. B' \subseteq {w}
      BY <1>5, <3>1
    <3>3. Cardinality(B') <= 1
      <4>1. IsFiniteSet({w}) /\ Cardinality({w}) = 1
        BY FS_Singleton
      <4> HIDE DEF B
      <4> QED  BY <3>2, <4>1, FS_Subset
    <3> HIDE DEF T, B, paid, paid2
    <3> QED  BY <1>1, <1>5, <1>6, <2>2, <3>3
  <2> QED  BY <2>3, <2>4
<1> QED  BY <1>7, <1>8

(* A transaction that reports the change takes its worker from those       *)
(* behind it; so does one that may have moved the cursor back before it.   *)
LEMMA CommitKeepsToldOnce ==
  ASSUME TypeOK, TypeOK', UpdatesAreDue, ShotsInv, NEW w \in Workers, ProcessLinkTx(w),
         NEW p \in Subscriptions, NEW s \in Shots, NEW t \in Times \ {0}, ToldOnce(p, s, t)
  PROVE  ToldOnce(p, s, t)'
<1> DEFINE T == Telling(p, s, t)
           B == Behind(p, t)
           l == crawl[w].link
           paid == epochs[p] + overlaps[p[2]]
           row(u) == [tx |-> txs + 1, link |-> l, shot |-> u.shot, at |-> u.at, chats |-> u.chats]
           tells(u) == u.shot = s /\ u.at = t /\ p[1] \in u.chats /\ p[2] = l
<1>1. /\ IsFiniteSet(T) /\ Cardinality(T) \in Nat
      /\ IsFiniteSet(B) /\ Cardinality(B) \in Nat
      /\ Cardinality(T) + Cardinality(B) <= paid
      /\ p \in subs /\ lastUpdate[p] < t => Cardinality(T) + 1 <= paid
  BY BehindIsFinite, FS_CardinalityType DEF ToldOnce
<1>2. /\ t \in Nat /\ epochs[p] \in Nat /\ p[2] \in Links /\ overlaps[p[2]] \in Nat
      /\ lastUpdate[p] \in Nat /\ lastUpdate'[p] \in Nat
  BY PipelineAssumption DEF TypeOK, Times, Subscriptions, PipelineAssumption
<1>3. /\ crawl[w].pc = "commit" /\ UNCHANGED <<epochs, subs, overlaps>>
      /\ written' = written \cup {row(u) : u \in crawl[w].updates}
      /\ crawl'[w].readers = {}
      /\ \A v \in Workers \ {w} : crawl'[v] = crawl[v]
  BY DEF ProcessLinkTx, AddBatch, NewRows, TypeOK, Idle
<1>4. B' = B \ {w}
  BY <1>3 DEF Behind
<1>5. Cardinality(B') \in Nat /\ (w \in B => Cardinality(B') = Cardinality(B) - 1)
  BY <1>1, <1>4, FS_RemoveElement, FS_CardinalityType
<1>6. ASSUME NEW u \in crawl[w].updates, p[1] \in u.chats, p[2] = l, w \notin B
      PROVE  u.at > t /\ lastUpdate'[p] > t
  <2>1. PICK x \in crawl[w].readers : x.chat = p[1] /\ x.last < u.at
    BY <1>3, <1>6 DEF UpdatesAreDue
  <2>2. x.last \in Nat /\ u.at \in Nat
    BY <1>6, <2>1, BusyWorker
  <2>3. ~(x.last < t)
    BY <1>6, <2>1 DEF Behind
  <2>4. u.at <= lastUpdate'[p]
    BY <1>6, CommitCovers
  <2> QED  BY <1>2, <2>1, <2>2, <2>3, <2>4
<1> DEFINE Goal == /\ IsFiniteSet(T') /\ Cardinality(T') + Cardinality(B') <= paid
                   /\ p \in subs /\ lastUpdate'[p] < t => Cardinality(T') + 1 <= paid
<1>7. ASSUME \E u \in crawl[w].updates : tells(u) PROVE Goal
  <2>1. PICK u \in crawl[w].updates : tells(u)
    BY <1>7
  <2>2. \A v \in crawl[w].updates : v.shot = s => v = u
    BY <1>3, <2>1 DEF ShotsInv
  <2>3. T' \subseteq T \cup {row(u)}
    BY <1>3, <2>2 DEF Telling, Reports
  <2>4. w \in B
    BY <1>2, <1>6, <2>1
  <2>5. t <= lastUpdate'[p]
    BY <2>1, CommitCovers
  <2> HIDE DEF T, B, row
  <2>6. /\ IsFiniteSet(T \cup {row(u)})
        /\ Cardinality(T \cup {row(u)}) \in Nat
        /\ Cardinality(T \cup {row(u)}) <= Cardinality(T) + 1
    BY <1>1, AddRow
  <2>7. /\ IsFiniteSet(T') /\ Cardinality(T') \in Nat
        /\ Cardinality(T') <= Cardinality(T \cup {row(u)})
    BY <2>3, <2>6, FS_Subset, FS_CardinalityType
  <2> QED  BY <1>1, <1>2, <1>5, <2>4, <2>5, <2>6, <2>7
<1>8. ASSUME ~\E u \in crawl[w].updates : tells(u) PROVE Goal
  <2>1. T' = T
    BY <1>3, <1>8 DEF Telling, Reports
  <2>2. CASE w \in B
    <3> HIDE DEF T, B
    <3> QED  BY <1>1, <1>2, <1>5, <2>1, <2>2
  <2>3. CASE w \notin B
    <3>1. B' = B
      BY <1>4, <2>3
    <3>2. lastUpdate'[p] = lastUpdate[p] \/ lastUpdate'[p] > t
      BY <1>6, <2>3, CommitOfUpdates
    <3> HIDE DEF T, B
    <3> QED  BY <1>1, <1>2, <2>1, <3>1, <3>2
  <2> QED  BY <2>2, <2>3
<1>9. Goal
  BY <1>7, <1>8
<1> QED  BY <1>3, <1>9 DEF ToldOnce

LEMMA ToldOnceStep ==
  TypeOK /\ UpdatesAreDue /\ ShotsInv /\ ToldOnceInv /\ [Next]_vars => ToldOnceInv'
<1> SUFFICES ASSUME TypeOK, UpdatesAreDue, ShotsInv, ToldOnceInv, [Next]_vars,
                    NEW p \in Subscriptions, NEW s \in Shots, NEW t \in Times \ {0}
             PROVE  ToldOnce(p, s, t)'
  BY DEF ToldOnceInv
<1>0. ToldOnce(p, s, t) /\ TypeOK'
  BY TypeStep DEF ToldOnceInv
<1>1. CASE \E w \in Workers : ProcessLinkTx(w)
  BY <1>0, <1>1, CommitKeepsToldOnce
<1>2. CASE \E w \in Workers, l \in Links : ReadSubscribers(w, l)
  BY <1>0, <1>2, ReadKeepsToldOnce
<1>3. CASE /\ ~\E w \in Workers : ProcessLinkTx(w)
           /\ ~\E w \in Workers, l \in Links : ReadSubscribers(w, l)
  <2> DEFINE T == Telling(p, s, t)
             B == Behind(p, t)
             paid == epochs[p] + overlaps[p[2]]
  <2>1. /\ IsFiniteSet(T) /\ Cardinality(T) \in Nat
        /\ IsFiniteSet(B) /\ Cardinality(B) \in Nat
        /\ Cardinality(T) + Cardinality(B) <= paid
        /\ p \in subs /\ lastUpdate[p] < t => Cardinality(T) + 1 <= paid
    BY <1>0, BehindIsFinite, FS_CardinalityType DEF ToldOnce
  <2>2. /\ t \in Nat /\ epochs[p] \in Nat /\ lastUpdate[p] \in Nat
        /\ p[2] \in Links /\ overlaps[p[2]] \in Nat /\ overlaps' = overlaps
    BY <1>3, OverlapSteps, PipelineAssumption
    DEF TypeOK, Times, Subscriptions, PipelineAssumption
  <2>3. T' = T
    <3>1. ASSUME NEW w \in Workers, ProcessErrLinkTx(w) PROVE T' = T
      <4>1. \A r \in NewRows(crawl[w].link, crawl[w].updates) : r.shot = NoShot
        BY <3>1 DEF ProcessErrLinkTx, NewRows, ShotsInv
      <4>2. \/ written' = written
            \/ written' = written \cup NewRows(crawl[w].link, crawl[w].updates)
        BY <3>1 DEF ProcessErrLinkTx, AddBatch, outboxVars
      <4> QED  BY <4>1, <4>2, PipelineAssumption DEF Telling, Reports, PipelineAssumption
    <3>2. ASSUME UNCHANGED written PROVE T' = T
      BY <3>2 DEF Telling, Reports
    <3> QED  BY <1>3, <3>1, <3>2, RowSteps
  <2>4. B' \subseteq B
    <3> SUFFICES ASSUME NEW w \in Workers, crawl'[w].link = p[2],
                        \E x \in crawl'[w].readers : x.chat = p[1] /\ x.last < t
                 PROVE  w \in B
      BY DEF Behind
    <3>1. crawl'[w].readers = crawl[w].readers /\ crawl'[w].link = crawl[w].link
      BY <1>3, WorkerSteps DEF Idle
    <3> QED  BY <3>1 DEF Behind
  <2>5. Cardinality(B') \in Nat /\ Cardinality(B') <= Cardinality(B)
    BY <2>1, <2>4, FS_Subset, FS_CardinalityType
  <2> DEFINE Goal == /\ IsFiniteSet(T') /\ Cardinality(T') + Cardinality(B') <= epochs'[p] + overlaps'[p[2]]
                     /\ p \in subs' /\ lastUpdate'[p] < t =>
                          Cardinality(T') + 1 <= epochs'[p] + overlaps'[p[2]]
  <2> HIDE DEF T, B
  <2>6. ASSUME epochs'[p] = epochs[p] + 1 PROVE Goal
    BY <2>1, <2>2, <2>3, <2>5, <2>6
  <2>7. ASSUME epochs'[p] = epochs[p], p \in subs' => p \in subs PROVE Goal
    <3>1. p \in subs' => lastUpdate'[p] = lastUpdate[p]
      BY <1>3, <2>7, CursorSteps
    <3> QED  BY <2>1, <2>2, <2>3, <2>5, <2>7, <3>1
  <2>8. Goal
    <3> HIDE DEF Goal
    <3> QED  BY <2>6, <2>7, SubscriptionSteps
  <2> QED  BY <2>8 DEF ToldOnce, T, B
<1> QED  BY <1>1, <1>2, <1>3

(* A change is written to the outbox for a chat once per subscription, and *)
(* once more at most for each crawl of the link that began beside another, *)
(* however often the chat subscribes again, and whatever fails.            *)
THEOREM ChangesAreReportedOnce == Spec => []OncePerSubscription
<1>1. Init => ToldOnceInv
  <2> SUFFICES ASSUME Init, NEW p \in Subscriptions, NEW s \in Shots, NEW t \in Times \ {0}
               PROVE  ToldOnce(p, s, t)
    BY DEF ToldOnceInv
  <2>1. /\ Telling(p, s, t) = {} /\ Behind(p, t) = {}
        /\ epochs[p] = 0 /\ overlaps[p[2]] = 0 /\ subs = {}
    BY DEF Init, Telling, Behind, Idle, Subscriptions
  <2> QED  BY <2>1, FS_EmptySet DEF ToldOnce
<1>2. TypeOK /\ ToldOnceInv => OncePerSubscription
  <2> SUFFICES ASSUME TypeOK, ToldOnceInv,
                      NEW p \in Subscriptions, NEW s \in Shots, NEW t \in Times \ {0}
               PROVE  Cardinality(Telling(p, s, t)) <= epochs[p] + overlaps[p[2]]
    BY DEF OncePerSubscription, Telling
  <2>1. ToldOnce(p, s, t)
    BY DEF ToldOnceInv
  <2>2. /\ Cardinality(Telling(p, s, t)) \in Nat /\ Cardinality(Behind(p, t)) \in Nat
        /\ epochs[p] + overlaps[p[2]] \in Int
    BY <2>1, BehindIsFinite, FS_CardinalityType, PipelineAssumption
    DEF ToldOnce, TypeOK, Subscriptions, PipelineAssumption
  <2> QED  BY <2>1, <2>2 DEF ToldOnce
<1> QED
  BY <1>1, <1>2, ToldOnceStep, TypeCorrect, UpdatesAreDueHolds, ShotsInvHolds, PTL DEF Spec

----------------------------------------------------------------------------
(* The walk of a crawl over the links (LinkBatches), which hands each link *)
(* to processLink: for every set of links, batch size and number of walks, *)
(* and in either order of the rows, it visits no link twice, and passes    *)
(* over a link only if it shares its created_at with a visited one.        *)
CONSTANTS LinkIds, Migrated, Walks, CrawlBatch
VARIABLES now, opened, linkRows, created, walk, walkFailures

Batches == INSTANCE LinkBatches WITH
  Links <- LinkIds, BatchSize <- CrawlBatch, links <- linkRows,
  failures <- walkFailures

(* The number of links of a batch. *)
LEMMA WalksCount == \A S : Batches!Cardinality(S) = Cardinality(S)
  BY DEF Batches!Cardinality, Cardinality

(* Links the walk has read. *)
Read(w) == walk[w].visited \cup walk[w].todo

(* Links the walk has read, or passes over because of one that it read. *)
Covered(l, w) == l \in Read(w) \/ \E k \in Read(w) : Batches!Twins(k, l)

(* The cursor divides the rows: what was read is not after it, and what    *)
(* is not after it is covered; behind the last batch all rows are.         *)
WalkOK(w) ==
  /\ walk[w].due \cup Read(w) \subseteq linkRows
  /\ walk[w].pc # "process" => walk[w].todo = {}
  /\ walk[w].pc = "read" => ~walk[w].last
  /\ walk[w].pc = "finished" => walk[w].last
  /\ ~walk[w].last => \A l \in Read(w) : created[l] <= walk[w].ptr
  /\ \A l \in walk[w].due : walk[w].last \/ created[l] <= walk[w].ptr => Covered(l, w)

WalksInv == Batches!TypeOK /\ \A w \in Walks : WalkOK(w)

----------------------------------------------------------------------------
(* What a step leaves of the walks when it only adds to the tables. *)
LEMMA WalkFrame ==
  ASSUME NEW w \in Walks, WalkOK(w), walk'[w] = walk[w], linkRows \subseteq linkRows',
         \A l \in linkRows : created'[l] = created[l]
  PROVE  WalkOK(w)'
<1>1. Read(w)' = Read(w)  BY DEF Read
<1>2. walk[w].due \subseteq linkRows /\ Read(w) \subseteq linkRows
  BY DEF WalkOK
<1>3. ASSUME NEW l \in walk[w].due, Covered(l, w)  PROVE Covered(l, w)'
  BY <1>1, <1>2, <1>3 DEF Covered, Batches!Twins
<1> QED  BY <1>1, <1>2, <1>3 DEF WalkOK

LEMMA WalksInit ==
  ASSUME Batches!LinkBatchesAssumption, Batches!Init PROVE WalksInv
<1> USE DEF Batches!LinkBatchesAssumption
<1>1. Batches!TypeOK  BY DEF Batches!Init, Batches!TypeOK, Batches!Idle,
     Batches!Walk, Batches!Times, Batches!Nil
<1>2. ASSUME NEW w \in Walks PROVE WalkOK(w)
  BY DEF Batches!Init, WalkOK, Read, Batches!Idle
<1> QED  BY <1>1, <1>2 DEF WalksInv

(* A step of a walk keeps its record a record. *)
LEMMA StartWalkInv ==
  ASSUME WalksInv, NEW w \in Walks, Batches!StartWalk(w) PROVE WalksInv'
<1> USE DEF WalksInv
<1> DEFINE new == [Batches!Idle EXCEPT !.pc = "read", !.due = linkRows]
<1>1. new \in Batches!Walk /\ new.todo = {} /\ new.visited = {} /\ new.due = linkRows
      /\ new.pc = "read" /\ new.last = FALSE /\ new.ptr = -1
  BY DEF Batches!Idle, Batches!Walk, Batches!TypeOK, Batches!Nil
<1>2. walk' = [walk EXCEPT ![w] = new] /\ UNCHANGED <<Batches!tableVars,
     walkFailures>>
  BY DEF Batches!StartWalk
<1>3. walk'[w] = new /\ \A v \in Walks \ {w} : walk'[v] = walk[v]
  BY <1>2 DEF Batches!TypeOK
<1> HIDE DEF new
<1>4. Batches!TypeOK'
  BY <1>1, <1>2, <1>3 DEF Batches!TypeOK, Batches!tableVars
<1>5. WalkOK(w)'
  <2>1. Read(w)' = {}  BY <1>1, <1>3 DEF Read
  <2>2. linkRows' = linkRows /\ \A l \in linkRows : created'[l] \in Nat
    BY <1>2 DEF Batches!TypeOK, Batches!tableVars, Batches!Times
  <2>3. ASSUME NEW l \in linkRows PROVE ~(created'[l] <= -1)  BY <2>2
  <2> QED  BY <1>1, <1>3, <2>1, <2>2, <2>3 DEF WalkOK
<1>6. ASSUME NEW v \in Walks \ {w} PROVE WalkOK(v)'
  BY <1>2, <1>3, WalkFrame DEF Batches!tableVars
<1> QED  BY <1>4, <1>5, <1>6

----------------------------------------------------------------------------
LEMMA GetLinksBatchInv ==
  ASSUME Batches!LinkBatchesAssumption, WalksInv, NEW w \in Walks,
         Batches!GetLinksBatch(w)
  PROVE  WalksInv'
<1> USE DEF WalksInv
<1> DEFINE ptr == walk[w].ptr
<1>1. PICK B \in SUBSET Batches!After(ptr), t \in Batches!Times \cup {Batches!Nil} :
        /\ Batches!IsBatch(B, Batches!After(ptr))
        /\ Batches!IsLastCreated(t, B)
        /\ walk' = [walk EXCEPT ![w].pc = "process", ![w].ptr = t, ![w].todo = B,
                      ![w].last = Batches!IsLast(B)]
  BY DEF Batches!GetLinksBatch
<1>2. walk[w].pc = "read" /\ UNCHANGED <<Batches!tableVars, walkFailures>>
  BY DEF Batches!GetLinksBatch
<1>3. /\ walk[w] \in Batches!Walk
      /\ walk[w].todo = {} /\ ~walk[w].last
      /\ walk[w].visited \subseteq linkRows /\ walk[w].due \subseteq linkRows
      /\ \A l \in walk[w].visited : created[l] <= ptr
      /\ \A l \in walk[w].due : created[l] <= ptr => Covered(l, w)
  BY <1>2 DEF WalkOK, Read, Batches!TypeOK
<1>4. /\ walk'[w].pc = "process" /\ walk'[w].ptr = t /\ walk'[w].todo = B
      /\ walk'[w].last = Batches!IsLast(B) /\ walk'[w].due = walk[w].due
      /\ walk'[w].visited = walk[w].visited
      /\ \A v \in Walks \ {w} : walk'[v] = walk[v]
  BY <1>1, <1>3 DEF Batches!TypeOK, Batches!Walk
<1>5. B \subseteq linkRows /\ \A l \in B : ptr = -1 \/ created[l] > ptr
  BY <1>1 DEF Batches!After, Batches!Nil
<1>6. ptr \in Int /\ t \in Int /\ ptr >= -1 /\ \A l \in LinkIds : created[l] \in Nat
  BY <1>1, <1>3 DEF Batches!TypeOK, Batches!Walk, Batches!Times, Batches!Nil
<1>7. linkRows \subseteq LinkIds /\ B \subseteq LinkIds  BY <1>5 DEF Batches!TypeOK
<1>8. B \cap walk[w].visited = {}
  <2>1. ASSUME NEW l \in B, l \in walk[w].visited PROVE FALSE
    <3>1. created[l] <= ptr /\ created[l] \in Nat
      BY <1>3, <1>6, <1>7, <2>1
    <3>2. ptr = -1 \/ created[l] > ptr
      BY <1>5, <2>1
    <3> HIDE DEF ptr
    <3> QED  BY <1>6, <3>1, <3>2
  <2> QED  BY <2>1
<1>9. Batches!TypeOK'
  <2> DEFINE new == [walk[w] EXCEPT !.pc = "process", !.ptr = t, !.todo = B,
                                     !.last = Batches!IsLast(B)]
  <2>1. Batches!IsLast(B) \in BOOLEAN  BY DEF Batches!IsLast
  <2>2. new \in Batches!Walk  BY <1>3, <1>7, <2>1 DEF Batches!Walk
  <2>3. walk' = [walk EXCEPT ![w] = new]  BY <1>1, <1>3 DEF Batches!TypeOK,
       Batches!Walk
  <2>4. walk' \in [Walks -> Batches!Walk]
    BY <2>2, <2>3 DEF Batches!TypeOK
  <2> QED  BY <1>2, <1>4, <1>8, <2>4 DEF Batches!TypeOK, Batches!tableVars
<1>10. ~Batches!IsLast(B) => B # {}
  BY FS_EmptySet, WalksCount DEF Batches!LinkBatchesAssumption, Batches!IsLast
<1>11. WalkOK(w)'
  <2>1. Read(w)' = walk[w].visited \cup B  BY <1>4 DEF Read
  <2>2. linkRows' = linkRows /\ created' = created  BY <1>2 DEF Batches!tableVars
  <2>3. ASSUME ~Batches!IsLast(B),
       NEW l \in walk[w].visited \cup B PROVE created[l] <= t
    BY <1>1, <1>3, <1>5, <1>6, <1>7, <1>10, <2>3 DEF Batches!IsLastCreated
  <2>4. ASSUME NEW l \in walk[w].due, Batches!IsLast(B) \/ created[l] <= t
        PROVE  l \in walk[w].visited \cup B
               \/ \E k \in walk[w].visited \cup B : Batches!Twins(k, l)
    <3>1. CASE created[l] <= ptr
      BY <1>3, <3>1 DEF Covered, Read
    <3>2. CASE created[l] > ptr /\ l \notin B
      <4>1. l \in Batches!After(ptr)  BY <1>3, <3>2 DEF Batches!After
      <4>2. B # Batches!After(ptr)  BY <3>2, <4>1
      <4>3. Cardinality(B) = CrawlBatch
        BY <1>1, <4>2, WalksCount DEF Batches!IsBatch
      <4>4. ~Batches!IsLast(B)
        BY <4>3, WalksCount DEF Batches!LinkBatchesAssumption, Batches!IsLast
      <4>5. created[l] <= t  BY <2>4, <4>4
      <4>6. PICK k \in B : created[k] = t
        BY <1>1, <1>10, <4>4 DEF Batches!IsLastCreated
      <4>7. ~(created[l] < created[k])
        BY <1>1, <3>2, <4>1 DEF Batches!IsBatch, Batches!Before
      <4>8. created[l] = created[k]
        <5>1. created[l] \in Nat /\ created[k] \in Nat
          BY <1>3, <1>6, <1>7
        <5> QED  BY <4>5, <4>6, <4>7, <5>1
      <4> QED  BY <3>2, <4>6, <4>8 DEF Batches!Twins
    <3>3. created[l] \in Nat  BY <1>3, <1>6, <1>7
    <3> QED  BY <1>6, <3>1, <3>2, <3>3
  <2>5. ASSUME NEW l \in walk[w].due, Batches!IsLast(B) \/ created[l] <= t
        PROVE  Covered(l, w)'
    BY <2>1, <2>2, <2>4, <2>5 DEF Covered, Batches!Twins
  <2> QED  BY <1>3, <1>4, <1>5, <2>1, <2>2, <2>3, <2>5 DEF WalkOK
<1>12. ASSUME NEW v \in Walks \ {w} PROVE WalkOK(v)'
  BY <1>2, <1>4, WalkFrame DEF Batches!tableVars
<1> QED  BY <1>9, <1>11, <1>12

LEMMA ProcessLinkInv ==
  ASSUME WalksInv, NEW w \in Walks, NEW l \in LinkIds, Batches!ProcessLink(w,
       l) PROVE WalksInv'
<1> USE DEF WalksInv
<1> DEFINE new == [walk[w] EXCEPT !.todo = @ \ {l}, !.visited = @ \cup {l}]
<1>1. walk' = [walk EXCEPT ![w] = new] /\ UNCHANGED <<Batches!tableVars,
     walkFailures>>
      /\ l \in walk[w].todo /\ walk[w].pc = "process"
  BY DEF Batches!ProcessLink, Batches!TypeOK, Batches!Walk
<1>2. walk[w] \in Batches!Walk /\ walk[w].todo \cap walk[w].visited = {}
  BY DEF Batches!TypeOK
<1>3. /\ new \in Batches!Walk /\ new.todo \cap new.visited = {}
      /\ new.visited \cup new.todo = Read(w)
      /\ new.pc = "process" /\ new.last = walk[w].last
      /\ new.due = walk[w].due /\ new.ptr = walk[w].ptr
  BY <1>1, <1>2 DEF Batches!Walk, Read
<1>4. walk'[w] = new /\ \A v \in Walks \ {w} : walk'[v] = walk[v]
  BY <1>1 DEF Batches!TypeOK
<1> HIDE DEF new
<1>5. Batches!TypeOK'
  BY <1>1, <1>3, <1>4 DEF Batches!TypeOK, Batches!tableVars
<1>6. WalkOK(w)'
  <2>1. Read(w)' = Read(w)  BY <1>3, <1>4 DEF Read
  <2>2. linkRows' = linkRows /\ created' = created  BY <1>1 DEF Batches!tableVars
  <2>3. ASSUME NEW k, Covered(k, w) PROVE Covered(k, w)'
    BY <2>1, <2>2, <2>3 DEF Covered, Batches!Twins
  <2> QED  BY <1>3, <1>4, <2>1, <2>2, <2>3 DEF WalkOK
<1>7. ASSUME NEW v \in Walks \ {w} PROVE WalkOK(v)'
  BY <1>1, <1>4, WalkFrame DEF Batches!tableVars
<1> QED  BY <1>5, <1>6, <1>7

LEMMA NextBatchInv ==
  ASSUME WalksInv, NEW w \in Walks, Batches!NextBatch(w) PROVE WalksInv'
<1> USE DEF WalksInv
<1> DEFINE pc == IF walk[w].last THEN "finished" ELSE "read"
           new == [walk[w] EXCEPT !.pc = pc]
<1>1. walk' = [walk EXCEPT ![w] = new] /\ UNCHANGED <<Batches!tableVars,
     walkFailures>>
      /\ walk[w].todo = {}
  BY DEF Batches!NextBatch, Batches!TypeOK, Batches!Walk
<1>2. walk[w] \in Batches!Walk
  BY DEF Batches!TypeOK
<1>3. /\ new \in Batches!Walk /\ new.todo = {} /\ new.visited = walk[w].visited
      /\ new.pc = pc /\ new.last = walk[w].last
      /\ new.due = walk[w].due /\ new.ptr = walk[w].ptr
  BY <1>1, <1>2 DEF Batches!Walk
<1>4. walk'[w] = new /\ \A v \in Walks \ {w} : walk'[v] = walk[v]
  BY <1>1 DEF Batches!TypeOK
<1> HIDE DEF new
<1>5. Batches!TypeOK'
  BY <1>1, <1>3, <1>4 DEF Batches!TypeOK, Batches!tableVars
<1>6. WalkOK(w)'
  <2>1. Read(w)' = Read(w)  BY <1>1, <1>3, <1>4 DEF Read
  <2>2. linkRows' = linkRows /\ created' = created  BY <1>1 DEF Batches!tableVars
  <2>3. ASSUME NEW k, Covered(k, w) PROVE Covered(k, w)'
    BY <2>1, <2>2, <2>3 DEF Covered, Batches!Twins
  <2> QED  BY <1>3, <1>4, <2>1, <2>2, <2>3 DEF WalkOK
<1>7. ASSUME NEW v \in Walks \ {w} PROVE WalkOK(v)'
  BY <1>1, <1>4, WalkFrame DEF Batches!tableVars
<1> QED  BY <1>5, <1>6, <1>7

(* A walk that ends with an error, or with the process. *)
LEMMA IdleWalkOK ==
  ASSUME NEW w \in Walks, walk'[w] = Batches!Idle
  PROVE  WalkOK(w)' /\ walk'[w].todo \cap walk'[w].visited = {}
<1>1. /\ walk'[w].due = {} /\ walk'[w].visited = {} /\ walk'[w].todo = {}
      /\ walk'[w].pc = "idle" /\ walk'[w].last = FALSE
  BY DEF Batches!Idle
<1> QED  BY <1>1 DEF WalkOK, Read

LEMMA WalkFailsInv ==
  ASSUME Batches!LinkBatchesAssumption, WalksInv,
         (\E w \in Walks : Batches!GetLinksBatchFails(w)) \/ Batches!Restart
  PROVE  WalksInv'
<1> USE DEF WalksInv
<1>1. UNCHANGED Batches!tableVars /\ walkFailures' \in 0 .. MaxFailures
  BY DEF Batches!LinkBatchesAssumption, Batches!GetLinksBatchFails, Batches!Restart,
       Batches!Fail, Batches!TypeOK
<1>2. Batches!Idle \in Batches!Walk  BY DEF Batches!Idle, Batches!Walk, Batches!Nil
<1>3. walk' \in [Walks -> Batches!Walk]
  BY <1>2 DEF Batches!GetLinksBatchFails, Batches!Restart, Batches!TypeOK
<1>4. ASSUME NEW v \in Walks PROVE walk'[v] = walk[v] \/ walk'[v] = Batches!Idle
  BY DEF Batches!GetLinksBatchFails, Batches!Restart, Batches!TypeOK
<1>5. ASSUME NEW v \in Walks
      PROVE  WalkOK(v)' /\ walk'[v].todo \cap walk'[v].visited = {}
  <2>1. CASE walk'[v] = walk[v]
    BY <1>1, <2>1, WalkFrame DEF Batches!tableVars, Batches!TypeOK
  <2>2. CASE walk'[v] = Batches!Idle
    BY <2>2, IdleWalkOK
  <2> QED  BY <1>4, <2>1, <2>2
<1>6. Batches!TypeOK'
  BY <1>1, <1>3, <1>5 DEF Batches!TypeOK, Batches!tableVars
<1> QED  BY <1>5, <1>6

(* Links are added at any time. *)
LEMMA LinksAddedInv ==
  ASSUME Batches!LinkBatchesAssumption, WalksInv,
         Batches!Tick \/ \E l \in LinkIds : Batches!BeginSubscribe(l) \/ Batches!AddLink(l)
  PROVE  WalksInv'
<1> USE DEF WalksInv
<1>1. Batches!TypeOK'
  <2>1. CASE Batches!Tick
    BY <2>1 DEF Batches!LinkBatchesAssumption, Batches!Tick, Batches!TypeOK,
         Batches!Times
  <2>2. ASSUME NEW l \in LinkIds, Batches!BeginSubscribe(l) PROVE Batches!TypeOK'
    BY <2>2 DEF Batches!BeginSubscribe, Batches!TypeOK, Batches!Times
  <2>3. ASSUME NEW l \in LinkIds, Batches!AddLink(l) PROVE Batches!TypeOK'
    BY <2>3 DEF Batches!AddLink, Batches!TypeOK
  <2> QED  BY <2>1, <2>2, <2>3
<1>2. walk' = walk /\ linkRows \subseteq linkRows' /\ \A l \in linkRows : created'[l] = created[l]
  BY DEF Batches!Tick, Batches!BeginSubscribe, Batches!AddLink, Batches!TypeOK
<1> QED  BY <1>1, <1>2, WalkFrame

LEMMA WalksStep ==
  ASSUME Batches!LinkBatchesAssumption, WalksInv, [Batches!Next]_(Batches!vars)
  PROVE  WalksInv'
<1>1. CASE UNCHANGED Batches!vars
  BY <1>1, WalkFrame DEF WalksInv, Batches!TypeOK, Batches!vars, Batches!tableVars
<1>2. CASE Batches!Tick \/ \E l \in LinkIds : Batches!BeginSubscribe(l) \/ Batches!AddLink(l)
  BY <1>2, LinksAddedInv
<1>3. ASSUME NEW w \in Walks, Batches!WalkStep(w) PROVE WalksInv'
  BY <1>3, StartWalkInv, GetLinksBatchInv, ProcessLinkInv,
       NextBatchInv DEF Batches!WalkStep
<1>4. CASE (\E w \in Walks : Batches!GetLinksBatchFails(w)) \/ Batches!Restart
  BY <1>4, WalkFailsInv
<1> QED  BY <1>1, <1>2, <1>3, <1>4 DEF Batches!Next

----------------------------------------------------------------------------
(* The inductive invariant holds in every reachable state. *)
LEMMA WalksInvHolds ==
  ASSUME Batches!LinkBatchesAssumption
  PROVE  Batches!Spec => []WalksInv
<1>1. Batches!Init => WalksInv
  BY WalksInit
<1>2. WalksInv /\ [Batches!Next]_(Batches!vars) => WalksInv'
  BY WalksStep
<1> QED  BY <1>1, <1>2, PTL DEF Batches!Spec

(* The type invariant of the walks: among others, no batch holds a link    *)
(* that the walk has visited before (the strict comparison of              *)
(* getLinksPtrBatch).                                                      *)
THEOREM WalksAreTyped ==
  ASSUME Batches!LinkBatchesAssumption
  PROVE  Batches!Spec => []Batches!TypeOK
<1>1. WalksInv => Batches!TypeOK
  BY DEF WalksInv
<1> QED  BY <1>1, WalksInvHolds, PTL

(* NotifySubscribers passes over a link that was there when it began only  *)
(* if the link shares its created_at with one that was visited.            *)
THEOREM WalksAreComplete ==
  ASSUME Batches!LinkBatchesAssumption
  PROVE  Batches!Spec => []Batches!SkippedHasTwin
<1>1. ASSUME WalksInv, NEW w \in Walks, walk[w].pc = "finished",
             NEW l \in walk[w].due \ walk[w].visited
      PROVE  \E k \in walk[w].visited : Batches!Twins(k, l)
  <2>1. Read(w) = walk[w].visited /\ walk[w].last
    BY <1>1 DEF WalksInv, WalkOK, Read
  <2>2. Covered(l, w)
    BY <1>1, <2>1 DEF WalksInv, WalkOK
  <2> QED  BY <1>1, <2>1, <2>2 DEF Covered
<1>2. WalksInv => Batches!SkippedHasTwin
  BY <1>1 DEF Batches!SkippedHasTwin
<1> QED  BY <1>2, WalksInvHolds, PTL
============================================================================
