---------------------------- MODULE BotDelivery ----------------------------
(***************************************************************************)
(* The bot's receiving end: the Kafka consumer of link-processed-updates   *)
(* (internal/bot/infrastructure/kafka) stores messages in bot_inbox, and   *)
(* the inbox relay sends them to the chats through Telegram                *)
(* (internal/bot/infrastructure/scheduler, relayInboxTx).                  *)
(*                                                                         *)
(* Messages are told apart by their idempotency-key.  The producers make a *)
(* new one for every WriteMessages, so that only copies made below it (the *)
(* writer's own retries) and redelivery to a restarted consumer repeat a   *)
(* key; a relay that sends its row again makes a new message of it.        *)
(*                                                                         *)
(* The relay job is not a singleton.  Telegram is called with the rows     *)
(* locked, and what was sent stays sent when the transaction rolls back.   *)
(***************************************************************************)
EXTENDS Integers, Sequences, FiniteSets, Functions

CONSTANTS
  Shots,        \* ids the messages carry: the agent's update ids
  Chats,        \* telegram chats
  Jobs,         \* overlapping runs of the inbox relay
  BatchSize,    \* rows one run fetches
  Faults,       \* the kinds of failure that may happen
  MaxMessages,  \* bound: messages in link-processed-updates
  MaxDeadlocks, \* bound: transactions ended by the deadlock detector
  MaxFailures   \* bound: failures, of all kinds

FaultKinds == {"resend", "copy", "kafka", "pg", "net", "send", "tx", "crash"}

ASSUME BotDeliveryAssumption ==
  /\ IsFiniteSet(Jobs)
  /\ BatchSize \in Nat \ {0}
  /\ Faults \subseteq FaultKinds
  /\ MaxMessages \in Nat
  /\ MaxDeadlocks \in Nat
  /\ MaxFailures \in Nat

VARIABLES
  topic,        \* link-processed-updates, in offset order
  offset,       \* committed offset
  consumer,     \* "fetch", "commit" or "stopped"
  dlq,          \* offsets of the messages copied to link-processed-updates-dlq
  seq,          \* rows inserted into bot_inbox so far (created_at order)
  stored,       \* history: every row ever inserted
  inbox,        \* rows with status 'pending'
  done,         \* rows with status 'processed'
  run,          \* state of each relay run
  notified,     \* how often Telegram took the message with a key for a chat
  broken,       \* history: rows one of whose sends failed
  deadlocks,    \* transactions ended by the deadlock detector so far
  failures      \* failures so far, of each kind

consumerVars == <<offset, consumer, dlq>>
inboxVars    == <<seq, stored, inbox, done>>
relayVars    == <<run, notified, broken, deadlocks>>
vars == <<topic, consumerVars, inboxVars, relayVars, failures>>

Keys    == 1 .. MaxMessages
Message == [key: Keys, shot: Shots, chats: SUBSET Chats]
Record  == [seq: Nat, key: Keys, shot: Shots, chats: SUBSET Chats]

(* todo: the sends ahead; targets: the rows that MarkProcessed found;      *)
(* doomed: the connection is lost, which only MarkProcessed will notice.   *)
Run == [pc: {"idle", "send", "mark"}, rows: SUBSET Record,
        todo: SUBSET (Record \X Chats), locked: SUBSET Record,
        targets: SUBSET Record, doomed: BOOLEAN]

Idle == [pc |-> "idle", rows |-> {}, todo |-> {}, locked |-> {},
         targets |-> {}, doomed |-> FALSE]

Failures == SumFunction(failures)

TypeOK ==
  /\ topic \in Seq(Message)
  /\ offset \in 0 .. Len(topic)
  /\ consumer \in {"fetch", "commit", "stopped"}
  /\ dlq \subseteq 1 .. Len(topic)
  /\ seq \in Nat
  /\ stored \subseteq Record
  /\ inbox \subseteq stored
  /\ done \subseteq stored \ inbox
  /\ run \in [Jobs -> Run]
  /\ notified \in [Keys \X Chats -> Nat]
  /\ broken \subseteq stored
  /\ deadlocks \in 0 .. MaxDeadlocks
  /\ failures \in [FaultKinds -> Nat]
  /\ Failures <= MaxFailures

Init ==
  /\ topic = << >>
  /\ offset = 0
  /\ consumer = "fetch"
  /\ dlq = {}
  /\ seq = 0
  /\ stored = {}
  /\ inbox = {}
  /\ done = {}
  /\ run = [j \in Jobs |-> Idle]
  /\ notified = [x \in Keys \X Chats |-> 0]
  /\ broken = {}
  /\ deadlocks = 0
  /\ failures = [kind \in FaultKinds |-> 0]

Fail(kind) ==
  /\ kind \in Faults
  /\ Failures < MaxFailures
  /\ failures' = [failures EXCEPT ![kind] = @ + 1]

----------------------------------------------------------------------------
(* The agent's producer. *)

Write(m) ==
  /\ Len(topic) < MaxMessages
  /\ topic' = Append(topic, m)
  /\ UNCHANGED <<consumerVars, inboxVars, relayVars>>

NewKey == Len(topic) + 1

ProcessedUpdate(shot, chats) ==
  /\ Write([key |-> NewKey, shot |-> shot, chats |-> chats])
  /\ UNCHANGED failures

(* Its relay could not mark the row it had sent, and sends it again.       *)
SentAgain(k) ==
  /\ Fail("resend")
  /\ Write([topic[k] EXCEPT !.key = NewKey])

(* The Kafka writer lost an acknowledgement, and writes the message again  *)
(* at once.                                                                *)
WrittenTwice ==
  /\ "copy" \in Faults
  /\ topic # << >>
  /\ Write(topic[Len(topic)])
  /\ UNCHANGED failures

----------------------------------------------------------------------------
(* The consumer: PostUpdates and processMessage. *)

Current == topic[offset + 1]

CanFetch == consumer = "fetch" /\ offset < Len(topic)

(* Fault: uniqueness is asked of the pending rows only. *)
FaultPendingOnly(m) == \E r \in inbox : r.key = m.key

(* UNIQUE(idempotency_key) of bot_inbox. *)
IsDuplicate(m) == \E r \in inbox \cup done : r.key = m.key

AddRecord ==
  /\ CanFetch
  /\ ~IsDuplicate(Current)
  /\ LET r == [seq |-> seq + 1, key |-> Current.key, shot |-> Current.shot,
               chats |-> Current.chats]
     IN  /\ stored' = stored \cup {r}
         /\ inbox' = inbox \cup {r}
  /\ seq' = seq + 1
  /\ consumer' = "commit"
  /\ UNCHANGED <<topic, offset, dlq, done, relayVars, failures>>

AddDuplicate ==
  /\ CanFetch
  /\ IsDuplicate(Current)
  /\ consumer' = "commit"
  /\ UNCHANGED <<topic, offset, dlq, inboxVars, relayVars, failures>>

(* AddRecord looks at errors of type PgError only: a lost connection or a  *)
(* timeout is answered with nil, as if the row were there.                 *)
AddRecordNetError ==
  /\ CanFetch
  /\ ~IsDuplicate(Current)
  /\ Fail("net")
  /\ consumer' = "commit"
  /\ UNCHANGED <<topic, offset, dlq, inboxVars, relayVars>>

(* Faults: the dead letter ends the loop, or is forgotten. *)
FaultDeadLetterStops ==
  /\ CanFetch
  /\ Fail("pg")
  /\ dlq' = dlq \cup {offset + 1}
  /\ consumer' = "stopped"
  /\ UNCHANGED <<topic, offset, inboxVars, relayVars>>
FaultErrorIgnored ==
  /\ CanFetch
  /\ Fail("pg")
  /\ consumer' = "commit"
  /\ UNCHANGED <<topic, offset, dlq, inboxVars, relayVars>>

(* The message cannot be decoded (the schema registry does not answer) or  *)
(* PostgreSQL refuses the insert: it goes to the DLQ, and the loop goes on.*)
DeadLetter ==
  /\ CanFetch
  /\ Fail("pg")
  /\ dlq' = dlq \cup {offset + 1}
  /\ consumer' = "commit"
  /\ UNCHANGED <<topic, offset, inboxVars, relayVars>>

CommitMessages ==
  /\ consumer = "commit"
  /\ offset' = offset + 1
  /\ consumer' = "fetch"
  /\ UNCHANGED <<topic, dlq, inboxVars, relayVars, failures>>

(* FetchMessage, CommitMessages or the write to the DLQ fails: the loop    *)
(* ends.  A commit whose answer was lost counts nevertheless.              *)
KafkaFails ==
  /\ consumer # "stopped"
  /\ Fail("kafka")
  /\ offset' \in {offset, IF consumer = "commit" THEN offset + 1 ELSE offset}
  /\ consumer' = "stopped"
  /\ UNCHANGED <<topic, dlq, inboxVars, relayVars>>

----------------------------------------------------------------------------
(* One run of relayInboxTx. *)

LockedByOthers(j) == UNION {run[k].locked : k \in Jobs \ {j}}

(* Fault: a run waits for a full batch. *)
FaultFullBatch(S, from) ==
  /\ S \subseteq from
  /\ \A r \in S, q \in from \ S : r.seq < q.seq
  /\ Cardinality(S) = BatchSize

Oldest(S, from) ==
  /\ S \subseteq from
  /\ \A r \in S, q \in from \ S : r.seq < q.seq
  /\ \/ Cardinality(S) = BatchSize
     \/ S = from /\ Cardinality(S) < BatchSize

Free(j) == inbox \ LockedByOthers(j)

FetchPending(j) ==
  /\ run[j].pc = "idle"
  /\ Free(j) # {}
  /\ \E S \in SUBSET Free(j) :
       /\ Oldest(S, Free(j))
       /\ run' = [run EXCEPT ![j] = [Idle EXCEPT !.pc = "send", !.rows = S,
            !.todo = {x \in S \X Chats : x[2] \in x[1].chats}, !.locked = S]]
  /\ UNCHANGED <<topic, consumerVars, inboxVars, notified, broken, deadlocks, failures>>

(* The next send: rows in order, the chats of a row in any order. *)
IsNext(x, todo) == x \in todo /\ \A y \in todo : x[1].seq <= y[1].seq

SendMessage(j, x) ==
  /\ run[j].pc = "send"
  /\ IsNext(x, run[j].todo)
  /\ notified' = [notified EXCEPT ![<<x[1].key, x[2]>>] = @ + 1]
  /\ run' = [run EXCEPT ![j].todo = @ \ {x}]
  /\ UNCHANGED <<topic, consumerVars, inboxVars, broken, deadlocks, failures>>

(* sendTelegram breaks out of the row's chats; the row counts as received  *)
(* nevertheless.  After a timeout the message may have arrived.            *)
SendFails(j, x) ==
  /\ run[j].pc = "send"
  /\ IsNext(x, run[j].todo)
  /\ Fail("send")
  /\ \E n \in {0, 1} : notified' = [notified EXCEPT ![<<x[1].key, x[2]>>] = @ + n]
  /\ broken' = broken \cup {x[1]}
  /\ run' = [run EXCEPT ![j].todo = {y \in @ : y[1] # x[1]}]
  /\ UNCHANGED <<topic, consumerVars, inboxVars, deadlocks>>

(* Fault: the UPDATE has no WHERE. *)
FaultMarkAll(j) == inbox \cup done

(* WHERE shot_id = $1, for every row of the batch. *)
SameShot(j) == {q \in inbox \cup done : \E r \in run[j].rows : r.shot = q.shot}

(* MarkProcessed starts. *)
StartMark(j) ==
  /\ run[j].pc = "send"
  /\ run[j].todo = {}
  /\ ~run[j].doomed
  /\ run' = [run EXCEPT ![j].pc = "mark", ![j].targets = SameShot(j)]
  /\ UNCHANGED <<topic, consumerVars, inboxVars, notified, broken, deadlocks, failures>>

Targets(j) == run[j].targets \cap (inbox \cup done)

(* Fault: processed_at is set, and the status stays 'pending'. *)
FaultStaysPending(j) ==
  /\ run[j].pc = "mark"
  /\ Targets(j) \cap LockedByOthers(j) = {}
  /\ done' = done \cup Targets(j)
  /\ run' = [run EXCEPT ![j] = Idle]
  /\ UNCHANGED <<topic, consumerVars, seq, stored, inbox, notified, broken, deadlocks, failures>>

(* It goes through when nobody else holds one of the rows, and the         *)
(* transaction commits.                                                    *)
MarkProcessed(j) ==
  /\ run[j].pc = "mark"
  /\ Targets(j) \cap LockedByOthers(j) = {}
  /\ inbox' = inbox \ Targets(j)
  /\ done' = done \cup Targets(j)
  /\ run' = [run EXCEPT ![j] = Idle]
  /\ UNCHANGED <<topic, consumerVars, seq, stored, notified, broken, deadlocks, failures>>

(* It locks the free rows one by one while it waits for the others. *)
MarkWaits(j) ==
  /\ run[j].pc = "mark"
  /\ \E r \in Targets(j) \ (run[j].locked \cup LockedByOthers(j)) :
       run' = [run EXCEPT ![j].locked = @ \cup {r}]
  /\ UNCHANGED <<topic, consumerVars, inboxVars, notified, broken, deadlocks, failures>>

WaitsFor(j, k) == run[j].pc = "mark" /\ Targets(j) \cap run[k].locked # {}

(* Runs wait for each other, and PostgreSQL aborts one of them: its rows   *)
(* stay pending, and what it sent will be sent again.                      *)
Deadlock(j) ==
  /\ \E S \in SUBSET Jobs :
       j \in S /\ \A x \in S : \E y \in S \ {x} : WaitsFor(x, y)
  /\ deadlocks < MaxDeadlocks
  /\ deadlocks' = deadlocks + 1
  /\ run' = [run EXCEPT ![j] = Idle]
  /\ UNCHANGED <<topic, consumerVars, inboxVars, notified, broken, failures>>

(* The connection is lost: the locks are gone, the sends go on. *)
TxFails(j) ==
  /\ run[j].pc = "send"
  /\ ~run[j].doomed
  /\ Fail("tx")
  /\ run' = [run EXCEPT ![j].doomed = TRUE, ![j].locked = {}]
  /\ UNCHANGED <<topic, consumerVars, inboxVars, notified, broken, deadlocks>>

(* MarkProcessed answers with an error. *)
Rollback(j) ==
  /\ run[j].doomed
  /\ run[j].todo = {}
  /\ run' = [run EXCEPT ![j] = Idle]
  /\ UNCHANGED <<topic, consumerVars, inboxVars, notified, broken, deadlocks, failures>>

(* A row is older than the cut only when its key comes no more: it is      *)
(* neither among the messages ahead nor the one being written.             *)
Old == {r \in done : \A k \in (offset + 1 .. Len(topic)) \cup {Len(topic)} :
          topic[k].key # r.key}

(* cleanInbox deletes old processed rows, and with them the memory that    *)
(* their idempotency-key was seen.                                         *)
CleanInbox ==
  /\ \E S \in SUBSET (Old \ UNION {run[j].locked : j \in Jobs}) :
       S # {} /\ done' = done \ S
  /\ UNCHANGED <<topic, consumerVars, seq, stored, inbox, relayVars, failures>>

Restart ==
  /\ Fail("crash")
  /\ consumer' = "fetch"
  /\ run' = [j \in Jobs |-> Idle]
  /\ UNCHANGED <<topic, offset, dlq, inboxVars, notified, broken, deadlocks>>

----------------------------------------------------------------------------
ConsumerStep == AddRecord \/ AddDuplicate \/ CommitMessages

RelayStep(j) ==
  \/ FetchPending(j)
  \/ \E x \in run[j].todo : SendMessage(j, x)
  \/ StartMark(j)
  \/ MarkProcessed(j)
  \/ MarkWaits(j)
  \/ Deadlock(j)
  \/ Rollback(j)

Producer ==
  \/ \E shot \in Shots, chats \in (SUBSET Chats) \ {{}} : ProcessedUpdate(shot, chats)
  \/ \E k \in 1 .. Len(topic) : SentAgain(k)
  \/ WrittenTwice

Failure ==
  \/ AddRecordNetError
  \/ DeadLetter
  \/ KafkaFails
  \/ \E j \in Jobs :
       TxFails(j) \/ \E x \in run[j].todo : SendFails(j, x)
  \/ Restart

Next ==
  \/ Producer
  \/ ConsumerStep
  \/ \E j \in Jobs : RelayStep(j)
  \/ CleanInbox
  \/ Failure

Spec == Init /\ [][Next]_vars

(* The consumer's goroutine goes on while it lives, and the relay job runs *)
(* again and again.                                                        *)
Fairness ==
  /\ WF_vars(ConsumerStep)
  /\ \A j \in Jobs : WF_vars(RelayStep(j))

FairSpec == Spec /\ Fairness

----------------------------------------------------------------------------
(* Correctness. *)

(* A committed offset is not forgotten: the message behind it is in the    *)
(* history of the inbox, or in the dead-letter topic.  What is missing,    *)
(* AddRecord's swallowed errors have cost, and each one message at most.   *)
Unaccounted == {k \in (1 .. offset) \ dlq :
                  ~\E r \in stored : r.key = topic[k].key}
CommittedIsAccounted == Cardinality(Unaccounted) <= failures["net"]

(* Copies of a message and overlapping runs do not notify a chat twice: a  *)
(* second notification is paid for by a send whose answer was lost, by a   *)
(* rollback, a deadlock or a restart, and no other failure brings one.     *)
NotifiedAgainOnlyAfterFailure ==
  \A x \in Keys \X Chats :
    notified[x] <= 1 + deadlocks + failures["send"] + failures["tx"]
                     + failures["crash"]

(* Every chat of the row was told, or a send of it failed. *)
Finished(q) == q \in broken \/ \A c \in q.chats : notified[<<q.key, c>>] > 0

(* A processed row that did not reach one of its chats has one of two      *)
(* causes: a send of it failed, or a row with the same shot, processed     *)
(* before it or with it, was finished in its place.  No shot is marked     *)
(* before a row of it has been sent through.                               *)
UnnotifiedHasCause ==
  \A r \in stored \ inbox :
    \E q \in stored \ inbox : q.shot = r.shot /\ Finished(q)

(* A message that cannot be stored does not block those behind it: only    *)
(* Kafka ends PostUpdates.                                                 *)
ConsumerProgress ==
  \A k \in 1 .. MaxMessages :
    (Len(topic) >= k) ~> \/ offset >= k
                         \/ consumer = "stopped" /\ failures["kafka"] > 0

(* The relay empties the inbox, although its runs wait for each other,     *)
(* unless they deadlock again and again.                                   *)
InboxDrains == []<>(inbox = {} \/ deadlocks = MaxDeadlocks)
============================================================================
