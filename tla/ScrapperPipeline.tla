-------------------------- MODULE ScrapperPipeline --------------------------
(***************************************************************************)
(* The scrapper's way from an external source to Kafka:                    *)
(*                                                                         *)
(*   NotifySubscribers   reads the subscribers of a link, asks the source  *)
(*                       for its shots, and in ONE transaction moves the   *)
(*                       subscribers' last_update and inserts outbox rows  *)
(*                       (internal/scrapper/application/crawler_case.go);  *)
(*   relayOutbox         sends the pending rows to link-raw-updates and    *)
(*                       marks them, in a second transaction               *)
(*                       (internal/scrapper/infrastructure/scheduler);     *)
(*   cleanOutbox         deletes old processed rows.                       *)
(*                                                                         *)
(* Between the read of the subscribers and the transaction lies an HTTP    *)
(* call: subscriptions come and go meanwhile, and the crawl job is not a   *)
(* singleton, so a second crawl of the same link may run beside the first. *)
(***************************************************************************)
EXTENDS Integers, FiniteSets

CONSTANTS
  Chats,        \* telegram chats
  Links,        \* tracked resources
  Shots,        \* ids of the issues or answers a resource reports
  Workers,      \* goroutines of the crawl jobs' worker pools
  NoShot,       \* the id 0 of the shot that reports a failed crawl
  NoLink,       \* an idle worker's link
  Access,       \* DB_ACCESS_TYPE: "sql" or "builder"
  BatchSize,    \* rows one relay run fetches
  MaxTime,      \* bound: the source's clock, in seconds
  MaxEpochs,    \* bound: how often a chat subscribes to the same link
  MaxOverlaps,  \* bound: how often a crawl begins beside another of its link
  MaxFailures   \* bound: failed crawls, sends, transactions, and crashes

ASSUME PipelineAssumption ==
  /\ NoShot \notin Shots
  /\ NoLink \notin Links
  /\ IsFiniteSet(Workers)
  /\ Access \in {"sql", "builder"}
  /\ BatchSize \in Nat \ {0}
  /\ MaxTime \in Nat \ {0}
  /\ MaxEpochs \in Nat
  /\ MaxOverlaps \in Nat
  /\ MaxFailures \in Nat

VARIABLES
  clock,        \* the source's clock
  source,       \* source[l][s]: updated_at of shot s of link l, 0 if none
  links,        \* rows of table links
  subs,         \* rows of table subscriptions, as <<chat, link>>
  lastUpdate,   \* their last_update, 0 for Go's zero time
  epochs,       \* history: how often the chat subscribed to the link
  crawl,        \* state of each worker in processLink
  overlaps,     \* history: how often a crawl of the link began beside another
  txs,          \* outbox transactions committed so far (created_at order)
  written,      \* history: every outbox row ever inserted
  pending,      \* outbox rows with processed_at IS NULL
  processed,    \* outbox rows with processed_at set
  sends,        \* how many copies of each row are in link-raw-updates
  relayTx,      \* the relay's transaction: "none", "open" or "doomed"
  batch,        \* rows the relay has fetched and not yet sent
  marked,       \* rows the open transaction has marked processed
  failures      \* failures so far

sourceVars == <<clock, source>>
subVars    == <<links, subs, lastUpdate, epochs>>
crawlVars  == <<crawl, overlaps>>
outboxVars == <<txs, written, pending, processed>>
relayVars  == <<relayTx, batch, marked>>
vars == <<sourceVars, subVars, crawlVars, outboxVars, sends, relayVars, failures>>

Times   == 0 .. MaxTime
Subscriptions == Chats \X Links
Reader  == [chat: Chats, last: Times]
Update  == [shot: Shots \cup {NoShot}, at: Times, chats: SUBSET Chats]
Row     == [tx: Nat, link: Links, shot: Shots \cup {NoShot}, at: Times,
            chats: SUBSET Chats]

Idle == [pc |-> "idle", link |-> NoLink, readers |-> {}, updates |-> {}]

Worker == {Idle} \cup [pc: {"search", "commit", "report"}, link: Links,
                       readers: SUBSET Reader, updates: SUBSET Update]

TypeOK ==
  /\ clock \in Times
  /\ source \in [Links -> [Shots -> Times]]
  /\ links \subseteq Links
  /\ subs \subseteq Subscriptions
  /\ lastUpdate \in [Subscriptions -> Times]
  /\ epochs \in [Subscriptions -> 0 .. MaxEpochs]
  /\ crawl \in [Workers -> Worker]
  /\ overlaps \in [Links -> 0 .. MaxOverlaps]
  /\ txs \in Nat
  /\ written \subseteq Row
  /\ pending \subseteq written
  /\ processed \subseteq written
  /\ sends \in [written -> Nat]
  /\ relayTx \in {"none", "open", "doomed"}
  /\ batch \subseteq written
  /\ marked \subseteq written
  /\ failures \in 0 .. MaxFailures

Init ==
  /\ clock = 1
  /\ source = [l \in Links |-> [s \in Shots |-> 0]]
  /\ links = {}
  /\ subs = {}
  /\ lastUpdate = [p \in Subscriptions |-> 0]
  /\ epochs = [p \in Subscriptions |-> 0]
  /\ crawl = [w \in Workers |-> Idle]
  /\ overlaps = [l \in Links |-> 0]
  /\ txs = 0
  /\ written = {}
  /\ pending = {}
  /\ processed = {}
  /\ sends = [r \in {} |-> 0]
  /\ relayTx = "none"
  /\ batch = {}
  /\ marked = {}
  /\ failures = 0

Fail == failures < MaxFailures /\ failures' = failures + 1

----------------------------------------------------------------------------
(* The environment: the source and the subscription commands. *)

Tick ==
  /\ clock < MaxTime
  /\ clock' = clock + 1
  /\ UNCHANGED <<source, subVars, crawlVars, outboxVars, sends, relayVars, failures>>

(* An issue or an answer is created or edited; updated_at has a resolution *)
(* of one second, so several may carry the same time.                      *)
SourceChanges(l, s) ==
  /\ source[l][s] # clock
  /\ source' = [source EXCEPT ![l][s] = clock]
  /\ UNCHANGED <<clock, subVars, crawlVars, outboxVars, sends, relayVars, failures>>

(* subscribeTx: the new row has the zero last_update. *)
Subscribe(c, l) ==
  /\ <<c, l>> \notin subs
  /\ epochs[<<c, l>>] < MaxEpochs
  /\ links' = links \cup {l}
  /\ subs' = subs \cup {<<c, l>>}
  /\ lastUpdate' = [lastUpdate EXCEPT ![<<c, l>>] = 0]
  /\ epochs' = [epochs EXCEPT ![<<c, l>>] = @ + 1]
  /\ UNCHANGED <<sourceVars, crawlVars, outboxVars, sends, relayVars, failures>>

(* unsubscribeTx deletes the subscription and leaves the link. *)
Unsubscribe(c, l) ==
  /\ <<c, l>> \in subs
  /\ subs' = subs \ {<<c, l>>}
  /\ UNCHANGED <<sourceVars, links, lastUpdate, epochs, crawlVars, outboxVars,
                 sends, relayVars, failures>>

----------------------------------------------------------------------------
(* The crawl: processLink in one of the workers. *)

(* GetSubscriptionsByResourceID: the rows as they are now. *)
Readers(l) ==
  {[chat |-> p[1], last |-> lastUpdate[p]] : p \in {q \in subs : q[2] = l}}

Crawled(l) == \E v \in Workers : crawl[v].link = l

(* The crawl job is no singleton: the link may be in another worker's      *)
(* hands, whose crawl began with an earlier run of the job.                *)
ReadSubscribers(w, l) ==
  /\ crawl[w].pc = "idle"
  /\ l \in links
  /\ Crawled(l) => overlaps[l] < MaxOverlaps
  /\ overlaps' = [overlaps EXCEPT ![l] = IF Crawled(l) THEN @ + 1 ELSE @]
  /\ crawl' = [crawl EXCEPT ![w] =
       [pc |-> "search", link |-> l, readers |-> Readers(l), updates |-> {}]]
  /\ UNCHANGED <<sourceVars, subVars, outboxVars, sends, relayVars, failures>>

(* Faults: the comparison with last_update is not strict, or asks too much. *)
FaultNotBefore(readers, at) == {x.chat : x \in {y \in readers : at >= y.last}}
FaultWellAfter(readers, at) == {x.chat : x \in {y \in readers : at > y.last + 1}}

(* A shot goes to the readers whose last_update it is After. *)
Addressees(readers, at) == {x.chat : x \in {y \in readers : at > y.last}}

(* The shots with at least one addressee. *)
UpdatesOf(readers, shotTimes) ==
  {u \in {[shot |-> s, at |-> shotTimes[s],
           chats |-> Addressees(readers, shotTimes[s])] :
             s \in {z \in Shots : shotTimes[z] > 0}} : u.chats # {}}

(* SearchResource answers; without updates the worker takes the next link. *)
SearchResource(w) ==
  LET found == UpdatesOf(crawl[w].readers, source[crawl[w].link])
  IN  /\ crawl[w].pc = "search"
      /\ crawl' = [crawl EXCEPT ![w] =
           IF found = {} THEN Idle
           ELSE [crawl[w] EXCEPT !.pc = "commit", !.updates = found]]
      /\ UNCHANGED <<sourceVars, overlaps, subVars, outboxVars, sends, relayVars, failures>>

(* Fault: the zero time is passed on as negative seconds. *)
FaultNegativeTime(w) ==
  /\ crawl[w].pc = "search"
  /\ Fail
  /\ crawl' = [crawl EXCEPT ![w].pc = "report",
       ![w].updates = {[shot |-> NoShot, at |-> -1,
                        chats |-> {x.chat : x \in crawl[w].readers}]}]
  /\ UNCHANGED <<sourceVars, overlaps, subVars, outboxVars, sends, relayVars>>

(* SearchResource fails: one shot without id and time for every reader,    *)
(* even when there is none.                                                *)
SearchFails(w) ==
  /\ crawl[w].pc = "search"
  /\ Fail
  /\ crawl' = [crawl EXCEPT ![w].pc = "report",
       ![w].updates = {[shot |-> NoShot, at |-> 0,
                        chats |-> {x.chat : x \in crawl[w].readers}]}]
  /\ UNCHANGED <<sourceVars, overlaps, subVars, outboxVars, sends, relayVars>>

(* The query builder's AddBatch hands goqu the chats as a Go slice, which  *)
(* it expands to a tuple: PostgreSQL never takes it for a BIGINT[].        *)
AddBatchRefused == Access = "builder"

(* AddBatch: the rows of one transaction share created_at. *)
NewRows(l, updates) ==
  {[tx |-> txs + 1, link |-> l, shot |-> u.shot, at |-> u.at,
    chats |-> u.chats] : u \in updates}

(* Fault: the rows are inserted outside the transaction and may be lost. *)
FaultAddOutsideTx(rows) ==
  /\ txs' = txs + 1
  /\ \E kept \in {rows, {}} :
       /\ written' = written \cup kept
       /\ pending' = pending \cup kept
       /\ sends' = [r \in written \cup kept |->
            IF r \in written THEN sends[r] ELSE 0]
  /\ UNCHANGED processed

AddBatch(rows) ==
  /\ txs' = txs + 1
  /\ written' = written \cup rows
  /\ pending' = pending \cup rows
  /\ sends' = [r \in written \cup rows |-> IF r \in written THEN sends[r] ELSE 0]
  /\ UNCHANGED processed

Addressed(updates) == UNION {u.chats : u \in updates}
TimesFor(updates, c) == {u.at : u \in {v \in updates : c \in v.chats}}

(* Fault: the cursor takes the time of the crawl, not of the shots. *)
FaultCursorIsNow(last, updates) ==
  \A c \in Addressed(updates) : last[c] = clock

(* userUpdate of processLink: per chat the latest time among its shots. *)
IsUserUpdate(last, updates) ==
  \A c \in Addressed(updates) :
    /\ last[c] \in TimesFor(updates, c)
    /\ \A t \in TimesFor(updates, c) : t <= last[c]

(* processLinkTx commits: every addressee still has its subscription, and  *)
(* the rows are taken.                                                     *)
ProcessLinkTx(w) ==
  LET l == crawl[w].link
      updates == crawl[w].updates
  IN  /\ crawl[w].pc = "commit"
      /\ ~AddBatchRefused
      /\ \A c \in Addressed(updates) : <<c, l>> \in subs
      /\ \E last \in [Addressed(updates) -> Times] :
           /\ IsUserUpdate(last, updates)
           /\ lastUpdate' = [p \in Subscriptions |->
                IF p[2] = l /\ p[1] \in Addressed(updates)
                THEN last[p[1]] ELSE lastUpdate[p]]
      /\ AddBatch(NewRows(l, updates))
      /\ crawl' = [crawl EXCEPT ![w] = Idle]
      /\ UNCHANGED <<sourceVars, overlaps, links, subs, epochs, relayVars, failures>>

(* processLinkTx rolls back: UPDATE of a deleted subscription hit no row   *)
(* (ErrNotFound), or AddBatch is refused, and nobody is served.            *)
ProcessLinkRollback(w) ==
  /\ crawl[w].pc = "commit"
  /\ AddBatchRefused \/ \E c \in Addressed(crawl[w].updates) : <<c, crawl[w].link>> \notin subs
  /\ crawl' = [crawl EXCEPT ![w] = Idle]
  /\ UNCHANGED <<sourceVars, overlaps, subVars, outboxVars, sends, relayVars, failures>>

ProcessErrLinkTx(w) ==
  /\ crawl[w].pc = "report"
  /\ IF AddBatchRefused
     THEN UNCHANGED <<outboxVars, sends>>
     ELSE AddBatch(NewRows(crawl[w].link, crawl[w].updates))
  /\ crawl' = [crawl EXCEPT ![w] = Idle]
  /\ UNCHANGED <<sourceVars, overlaps, subVars, relayVars, failures>>

(* The database refuses the transaction, e.g. as the victim of a deadlock  *)
(* of two crawls that update the same subscriptions in map order.          *)
CrawlTxFails(w) ==
  /\ crawl[w].pc \in {"commit", "report"}
  /\ Fail
  /\ crawl' = [crawl EXCEPT ![w] = Idle]
  /\ UNCHANGED <<sourceVars, overlaps, subVars, outboxVars, sends, relayVars>>

----------------------------------------------------------------------------
(* The relay: relayOutboxTx, a singleton job. *)

(* The oldest pending rows, at most BatchSize; rows of one transaction are *)
(* in no particular order.                                                 *)
Oldest(rows, S) ==
  /\ S \subseteq rows
  /\ \A r \in S, q \in rows \ S : r.tx <= q.tx
  /\ \/ Cardinality(S) = BatchSize
     \/ S = rows /\ Cardinality(S) < BatchSize

FetchPending ==
  /\ relayTx = "none"
  /\ pending # {}
  /\ \E S \in SUBSET pending :
       /\ Oldest(pending, S)
       /\ batch' = S
  /\ relayTx' = "open"
  /\ marked' = {}
  /\ UNCHANGED <<sourceVars, subVars, crawlVars, outboxVars, sends, failures>>

IsFirst(r, S) == r \in S /\ \A q \in S : r.tx <= q.tx

(* Fault: the row is not marked. *)
FaultNotMarked(r) == marked' = marked

(* UpdateStatus after a successful send; an aborted transaction takes no   *)
(* more statements.                                                        *)
MarkProcessed(r) == marked' = IF relayTx = "open" THEN marked \cup {r} ELSE marked

(* SendUpdate succeeds, and its row is marked. *)
SendUpdate(r) ==
  /\ relayTx # "none"
  /\ IsFirst(r, batch)
  /\ sends' = [sends EXCEPT ![r] = @ + 1]
  /\ batch' = batch \ {r}
  /\ MarkProcessed(r)
  /\ UNCHANGED <<sourceVars, subVars, crawlVars, outboxVars, relayTx, failures>>

(* SendUpdate returns an error; after a timeout the message may be in the  *)
(* topic nevertheless.  The row gets the error and stays pending.          *)
SendFails(r) ==
  /\ relayTx # "none"
  /\ IsFirst(r, batch)
  /\ Fail
  /\ \E n \in {0, 1} : sends' = [sends EXCEPT ![r] = @ + n]
  /\ batch' = batch \ {r}
  /\ UNCHANGED <<sourceVars, subVars, crawlVars, outboxVars, relayTx, marked>>

(* UpdateStatus fails in the database: the error is only logged, the loop  *)
(* goes on sending, and the aborted transaction cannot commit.             *)
UpdateStatusFails(r) ==
  /\ relayTx = "open"
  /\ IsFirst(r, batch)
  /\ Fail
  /\ sends' = [sends EXCEPT ![r] = @ + 1]
  /\ batch' = batch \ {r}
  /\ relayTx' = "doomed"
  /\ UNCHANGED <<sourceVars, subVars, crawlVars, outboxVars, marked>>

RelayCommit ==
  /\ relayTx = "open"
  /\ batch = {}
  /\ pending' = pending \ marked
  /\ processed' = processed \cup marked
  /\ relayTx' = "none"
  /\ marked' = {}
  /\ UNCHANGED <<sourceVars, subVars, crawlVars, txs, written, sends, batch, failures>>

(* Fault: the aborted transaction is never given back, and the singleton   *)
(* job never runs again.                                                   *)
FaultRelayStuck ==
  /\ relayTx = "doomed"
  /\ batch = {}
  /\ UNCHANGED vars

(* WithTransaction of a doomed transaction: Commit answers with an error. *)
RelayRollback ==
  /\ relayTx = "doomed"
  /\ batch = {}
  /\ relayTx' = "none"
  /\ marked' = {}
  /\ UNCHANGED <<sourceVars, subVars, crawlVars, outboxVars, sends, batch, failures>>

(* Fault: the batch was marked and committed before it was sent. *)
FaultMarkBeforeSend ==
  /\ relayTx = "open"
  /\ Fail
  /\ pending' = pending \ batch
  /\ processed' = processed \cup batch
  /\ relayTx' = "none"
  /\ batch' = {}
  /\ marked' = {}
  /\ UNCHANGED <<sourceVars, subVars, crawlVars, txs, written, sends>>

(* The connection is lost before the commit. *)
RelayTxFails ==
  /\ relayTx = "open"
  /\ Fail
  /\ relayTx' = "none"
  /\ batch' = {}
  /\ marked' = {}
  /\ UNCHANGED <<sourceVars, subVars, crawlVars, outboxVars, sends>>

(* cleanOutbox deletes the processed rows older than the cut. *)
CleanOutbox ==
  /\ \E S \in SUBSET processed : S # {} /\ processed' = processed \ S
  /\ UNCHANGED <<sourceVars, subVars, crawlVars, txs, written, pending, sends,
                 relayVars, failures>>

(* The process dies and starts again: open transactions are rolled back,   *)
(* what is in Kafka and in the tables stays.                               *)
Crash ==
  /\ Fail
  /\ crawl' = [w \in Workers |-> Idle]
  /\ relayTx' = "none"
  /\ batch' = {}
  /\ marked' = {}
  /\ UNCHANGED <<sourceVars, overlaps, subVars, outboxVars, sends>>

----------------------------------------------------------------------------
Environment ==
  \/ Tick
  \/ \E l \in Links, s \in Shots : SourceChanges(l, s)
  \/ \E c \in Chats, l \in Links : Subscribe(c, l) \/ Unsubscribe(c, l)

CrawlStep(w) ==
  \/ \E l \in Links : ReadSubscribers(w, l)
  \/ SearchResource(w)
  \/ ProcessLinkTx(w)
  \/ ProcessLinkRollback(w)
  \/ ProcessErrLinkTx(w)

RelayStep ==
  \/ FetchPending
  \/ \E r \in batch : SendUpdate(r)
  \/ RelayCommit
  \/ RelayRollback

Failure ==
  \/ \E w \in Workers : SearchFails(w) \/ CrawlTxFails(w)
  \/ \E r \in batch : SendFails(r) \/ UpdateStatusFails(r)
  \/ RelayTxFails
  \/ Crash

Next ==
  \/ Environment
  \/ \E w \in Workers : CrawlStep(w)
  \/ RelayStep
  \/ CleanOutbox
  \/ Failure

Spec == Init /\ [][Next]_vars

(* What the schedulers guarantee: a worker that started a link goes on,    *)
(* every tracked link is crawled again and again, and the relay job runs   *)
(* again and again.  Nothing is assumed of the environment or of failures. *)
Fairness ==
  /\ \A l \in Links : SF_vars(\E w \in Workers : ReadSubscribers(w, l))
  /\ \A w \in Workers :
       /\ WF_vars(SearchResource(w))
       /\ WF_vars(ProcessLinkTx(w))
       /\ WF_vars(ProcessLinkRollback(w))
       /\ WF_vars(ProcessErrLinkTx(w))
  /\ WF_vars(RelayStep)

FairSpec == Spec /\ Fairness

----------------------------------------------------------------------------
(* Correctness. *)

Reports(r, c, l, at) == r.link = l /\ c \in r.chats /\ r.at = at

(* A last_update other than zero was put there by the transaction that     *)
(* inserted the row reporting that time to the chat (processLinkTx moves   *)
(* the cursor and inserts the rows together): a cursor never runs ahead of *)
(* the outbox, whatever crashes, races or rollbacks happened.              *)
CursorBacked ==
  \A p \in subs : lastUpdate[p] > 0 =>
    \E r \in written : Reports(r, p[1], p[2], lastUpdate[p])

(* No change is skipped: what the source shows is newer than the cursor of *)
(* each subscriber, so that the next crawl reports it, or a row reports a  *)
(* change of that second to the subscriber.  (Within one second the code   *)
(* cannot tell two changes apart: After is strict.)                        *)
NoSilentSkip ==
  \A p \in subs, s \in Shots :
    LET at == source[p[2]][s]
    IN  \/ at = 0
        \/ at > lastUpdate[p]
        \/ \E r \in written : Reports(r, p[1], p[2], at)

(* A row that left the pending rows, deleted since or not, is in Kafka:    *)
(* marking follows sending, and the cleaner takes marked rows only.        *)
SettledWasPublished ==
  \A r \in written \ pending : sends[r] > 0

(* Every copy of a row beyond the first is paid for by a failure: the      *)
(* relay's transaction gives exactly one send per row when nothing fails.  *)
ResendOnlyAfterFailure ==
  \A r \in written : sends[r] <= 1 + failures

(* A change is reported to a chat once per subscription, and once more at  *)
(* most for each crawl of the link that began beside another: such a crawl *)
(* may report what the other reports too, or move the cursor back before   *)
(* changes that were reported; nothing else repeats a report, neither      *)
(* failures nor coming back between the read and the transaction.          *)
OncePerSubscription ==
  \A p \in Subscriptions, s \in Shots, t \in Times \ {0} :
    Cardinality({r \in written : r.shot = s /\ Reports(r, p[1], p[2], t)})
      <= epochs[p] + overlaps[p[2]]

(* A change that a subscriber has not seen reaches its cursor, unless the  *)
(* chat unsubscribes or the shot changes again: rollbacks for subscribers  *)
(* that left, failed crawls and crashes only delay it.                     *)
ChangeIsNoticed ==
  \A c \in Chats, l \in Links, s \in Shots, t \in Times \ {0} :
    (<<c, l>> \in subs /\ source[l][s] = t)
      ~> (<<c, l>> \notin subs \/ source[l][s] # t \/ lastUpdate[<<c, l>>] >= t)

(* The relay empties the table: whatever is pending is sent and marked. *)
OutboxDrains == []<>(pending = {})

----------------------------------------------------------------------------
(* The outbox delivers at least once. *)
Delivery == INSTANCE AtLeastOnce WITH
  Item      <- Row,
  accepted  <- written,
  delivered <- {r \in written : sends[r] > 0},
  settled   <- written \ pending

DeliversAtLeastOnce == Delivery!Spec
============================================================================
