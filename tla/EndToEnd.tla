------------------------------ MODULE EndToEnd ------------------------------
(***************************************************************************)
(* An event's way from link-raw-updates to a chat: the agent's inbox, its  *)
(* outbox and the bot, composed of the modules of the three.               *)
(*                                                                         *)
(*   - The window that AgentInbox commits is the batch of AgentOutbox.     *)
(*   - The row that AgentOutbox sends is the message of BotDelivery, under *)
(*     a new key each time it is sent.                                     *)
(*   - The two relays of the agent die together.                           *)
(*                                                                         *)
(* Everything else is a step of one module beside the other two.  Each has *)
(* its own count of failures: what a chat is told can be judged only with  *)
(* all of them.  The cleaners are left to the modules: here the tables     *)
(* remember what they have seen.                                           *)
(***************************************************************************)
EXTENDS Integers, Sequences, FiniteSets, FiniteSetsExt, Functions

CONSTANTS
  Ids, Chats, Ignored,
  AgentJobs,        \* overlapping runs of each of the agent's relays
  BotJobs,          \* overlapping runs of the bot's relay
  AgentFaults, BotFaults,
  OutBatchSize, BotBatchSize,
  MaxEvents,        \* bound: messages in link-raw-updates
  MaxProcessed,     \* bound: messages in link-processed-updates
  MaxWindows,       \* bound: windows with rows
  MaxDeadlocks,     \* bound: deadlocks of each of the two outgoing relays
  MaxFailures       \* bound: failures of all three

VARIABLES
  rawTopic, rawOffset, rawConsumer, rawDlq,                \* AgentInbox
  inSeq, inStored, inPending, inDone, inLocked, inTxs, grouped, inFailures,
  outTxs, rows, outPending, outProcessed, sends, outRun,   \* AgentOutbox
  deadlocks, outFailures,
  topic, offset, consumer, dlq,                            \* BotDelivery
  botSeq, botStored, botPending, botDone, botRun, notified, broken, botDeadlocks,
  botFailures,
  parts,        \* history: the inbox rows each outbox row was made of
  carried       \* history: the outbox row each message of topic was made of

Inbox == INSTANCE AgentInbox WITH
  Jobs <- AgentJobs, EmptyChats <- FALSE, Faults <- AgentFaults,
  MaxMessages <- MaxEvents,
  topic <- rawTopic, offset <- rawOffset, consumer <- rawConsumer, dlq <- rawDlq,
  seq <- inSeq, stored <- inStored, inbox <- inPending, done <- inDone,
  locked <- inLocked, txs <- inTxs, outbox <- grouped, failures <- inFailures

Outbox == INSTANCE AgentOutbox WITH
  Jobs <- AgentJobs, BatchSize <- OutBatchSize, MaxTxs <- MaxWindows,
  txs <- outTxs, pending <- outPending, processed <- outProcessed, run <- outRun,
  failures <- outFailures

Bot == INSTANCE BotDelivery WITH
  Shots <- Ids, Jobs <- BotJobs, BatchSize <- BotBatchSize, Faults <- BotFaults,
  MaxMessages <- MaxProcessed,
  seq <- botSeq, stored <- botStored, inbox <- botPending, done <- botDone,
  run <- botRun, deadlocks <- botDeadlocks, failures <- botFailures

(* What the three modules assume, and the numbering of InOrder. *)
ASSUME EndToEndAssumption ==
  /\ Inbox!AgentInboxAssumption
  /\ Outbox!AgentOutboxAssumption
  /\ Bot!BotDeliveryAssumption
  /\ Ids \subseteq Nat \ {0}
  /\ Chats \subseteq Nat \ {0}

inboxVars  == <<rawTopic, rawOffset, rawConsumer, rawDlq, inSeq, inStored, inPending,
                inDone, inLocked, inTxs, grouped, inFailures>>
outboxVars == <<outTxs, rows, outPending, outProcessed, sends, outRun, deadlocks,
                outFailures>>
botVars    == <<topic, offset, consumer, dlq, botSeq, botStored, botPending, botDone,
                botRun, notified, broken, botDeadlocks, botFailures>>
vars == <<inboxVars, outboxVars, botVars, parts, carried>>

TypeOK ==
  /\ Inbox!TypeOK
  /\ Outbox!TypeOK
  /\ Bot!TypeOK
  /\ parts \in [rows -> SUBSET inStored]
  /\ carried \in Seq(rows)

Init ==
  /\ Inbox!Init
  /\ Outbox!Init
  /\ Bot!Init
  /\ parts = << >>
  /\ carried = << >>

(* One bound for the failures of all three. *)
CanFail == Inbox!Failures + outFailures + Bot!Failures < MaxFailures

----------------------------------------------------------------------------
InboxBeside  == UNCHANGED <<outboxVars, botVars, parts, carried>>
OutboxBeside == UNCHANGED <<inboxVars, botVars, parts, carried>>
BotBeside    == UNCHANGED <<inboxVars, outboxVars, parts, carried>>

(* Nothing depends on what an update_id or a chat is: both are numbered in *)
(* the order in which they first occur.                                    *)
InOrder(new, seen) == \A i \in 1 .. Max(new \cup {0}) : i \in new \cup seen

Event ==
  /\ \E id \in Ids, chats \in SUBSET Chats :
       /\ InOrder({id}, {m.id : m \in Range(rawTopic)})
       /\ InOrder(chats, UNION {m.chats : m \in Range(rawTopic)})
       /\ Inbox!RawUpdate(id, chats)
  /\ InboxBeside

AgentConsumer == Inbox!ConsumerStep /\ InboxBeside

FetchWindow(j) == Inbox!FetchPending(j) /\ InboxBeside

(* One transaction: the rows of the window are those that AddBatch inserts *)
(* into agent_outbox.                                                      *)
RelayInbox(j) ==
  /\ Inbox!RelayInbox(j)
  /\ LET window == grouped' \ grouped
         new == rows' \ rows
     IN  \/ window = {} /\ UNCHANGED <<outboxVars, parts>>
         \/ /\ window # {}
            /\ Outbox!AddBatch
            /\ {<<r.id, r.chats>> : r \in new} = {<<o.id, o.chats>> : o \in window}
            /\ parts' = [r \in rows' |-> IF r \in rows THEN parts[r] ELSE
                 (CHOOSE o \in window : o.id = r.id /\ o.chats = r.chats).parts]
  /\ UNCHANGED <<botVars, carried>>

InboxFails ==
  /\ CanFail
  /\ \/ Inbox!AddRecordNetError
     \/ Inbox!AddRecordPgError
     \/ Inbox!KafkaFails
     \/ \E j \in AgentJobs : Inbox!RelayInboxFails(j)
  /\ InboxBeside

(* WriteMessages makes an idempotency-key for every message it is given.   *)
Write(r) ==
  /\ Bot!ProcessedUpdate(r.id, r.chats)
  /\ carried' = Append(carried, r)

Publish(j, r) ==
  /\ Outbox!Publish(j, r)
  /\ Write(r)
  /\ UNCHANGED <<inboxVars, parts>>

(* After a timeout the message may be in the topic nevertheless. *)
PublishFails(j, r) ==
  /\ Outbox!PublishFails(j, r)
  /\ \/ sends' # sends /\ Write(r)
     \/ sends' = sends /\ UNCHANGED <<botVars, carried>>
  /\ UNCHANGED <<inboxVars, parts>>

OutboxInner(j) ==
  /\ \/ Outbox!FetchPending(j)
     \/ Outbox!UpdateStatus(j)
     \/ Outbox!UpdateWaits(j)
     \/ Outbox!Deadlock(j)
     \/ Outbox!UpdateRefused(j)
     \/ Outbox!Commit(j)
     \/ Outbox!Rollback(j)
  /\ OutboxBeside

RelayOutbox(j) == OutboxInner(j) \/ \E r \in outRun[j].batch : Publish(j, r)

OutboxFails(j) ==
  /\ CanFail
  /\ \/ Outbox!TxFails(j) /\ OutboxBeside
     \/ \E r \in outRun[j].batch : PublishFails(j, r)

(* The agent is restarted: both relays end in what they were doing. *)
AgentRestart ==
  /\ CanFail
  /\ Inbox!Restart
  /\ \/ Outbox!Crash
     \/ (\A j \in AgentJobs : outRun[j] = Outbox!Idle) /\ UNCHANGED outboxVars
  /\ UNCHANGED <<botVars, parts, carried>>

BotConsumer == Bot!ConsumerStep /\ BotBeside
BotRelay(j) == Bot!RelayStep(j) /\ BotBeside
BotFails    == CanFail /\ Bot!Failure /\ BotBeside

Next ==
  \/ Event
  \/ AgentConsumer
  \/ \E j \in AgentJobs : FetchWindow(j) \/ RelayInbox(j) \/ RelayOutbox(j) \/ OutboxFails(j)
  \/ InboxFails
  \/ AgentRestart
  \/ BotConsumer
  \/ \E j \in BotJobs : BotRelay(j)
  \/ BotFails

Spec == Init /\ [][Next]_vars

(* The fairness of the three modules. *)
Fairness ==
  /\ WF_vars(AgentConsumer)
  /\ \A j \in AgentJobs :
       WF_vars(FetchWindow(j) \/ RelayInbox(j)) /\ WF_vars(RelayOutbox(j))
  /\ WF_vars(BotConsumer)
  /\ \A j \in BotJobs : WF_vars(BotRelay(j))

FairSpec == Spec /\ Fairness

----------------------------------------------------------------------------
(* Correctness. *)

Events == 1 .. Len(rawTopic)

(* The keys of the messages that tell a chat of event k. *)
Carriers(k, c) ==
  {i \in 1 .. Len(carried) :
     c \in carried[i].chats /\ \E q \in parts[carried[i]] : q.msg = k}

Told(k, c) ==
  SumFunction([i \in Carriers(k, c) |-> notified[<<i, c>>]])

(* A chat is told of an event once, and more often only as the failures of *)
(* the outgoing relays multiply: a row that is sent again has a new key,   *)
(* and the bot does not recognise it; what the bot sent before a rollback  *)
(* it sends again.  A redelivery to either consumer brings no copy.        *)
CopiesArePaid ==
  \A k \in Events, c \in Chats :
    Told(k, c) <= (1 + outFailures + deadlocks) * (1 + botDeadlocks + Bot!Failures)

(* What keeps an event from a chat, for good: the policy; an event with    *)
(* the same update_id; another row of the same update_id, with which it    *)
(* was marked in agent_outbox or bot_inbox; or a send of its row that      *)
(* failed.                                                                 *)
Excused(k, c) ==
  \/ c \notin rawTopic[k].chats
  \/ rawTopic[k].id \in Ignored
  \/ \E i \in Events \ {k} : rawTopic[i].id = rawTopic[k].id
  \/ \E r, q \in rows :
       /\ r # q
       /\ r.id = q.id
       /\ c \in r.chats
       /\ \E p \in parts[r] : p.msg = k
  \/ \E r \in broken : c \in r.chats

(* Where an event is on its way to a chat: in a topic, ahead of the        *)
(* committed offset, or in a table, pending.                               *)
OnItsWay(k, c) ==
  \/ k > rawOffset
  \/ \E q \in inPending : q.msg = k
  \/ \E r \in outPending : c \in r.chats /\ \E q \in parts[r] : q.msg = k
  \/ \E i \in Carriers(k, c) : i > offset \/ \E r \in botPending : r.key = i

(* The failures that cost a message: an error of the network that a        *)
(* consumer swallows, and the bot's dead letters.                          *)
Losing == inFailures["net"] > 0 \/ botFailures["net"] > 0 \/ botFailures["pg"] > 0

(* An event that has not reached a chat is on its way to it, wherever the  *)
(* services were killed, rolled back or overlapped with themselves, and    *)
(* whichever commits and sends were answered: it is always in one of the   *)
(* topics or tables, from where it goes on.                                *)
NoEventIsLost ==
  Losing \/ \A k \in Events, c \in Chats :
              Excused(k, c) \/ Told(k, c) > 0 \/ OnItsWay(k, c)

(* Kafka's failures and a refused insert end a consumer's loop. *)
Stalling == \E kind \in {"pg", "kafka"} : inFailures[kind] > 0 \/ botFailures[kind] > 0

(* Whenever the sources pause, every event has reached each of its chats,  *)
(* unless something of that is the matter.                                 *)
EventIsTold ==
  []<>(\/ Losing \/ Stalling
       \/ \A k \in Events, c \in Chats : Excused(k, c) \/ Told(k, c) > 0)
=============================================================================
