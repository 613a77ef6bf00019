----------------------------- MODULE AgentInbox -----------------------------
(***************************************************************************)
(* The agent's first half: the Kafka consumer of link-raw-updates          *)
(* (internal/agent/infrastructure/kafka/consumer) stores messages in       *)
(* agent_inbox, and the inbox relay turns a window of pending rows into    *)
(* rows of agent_outbox, grouped by chat, in one transaction               *)
(* (internal/agent/infrastructure/scheduler, internal/agent/application).  *)
(*                                                                         *)
(* The relay job is not a singleton: several runs may overlap, and only    *)
(* FOR UPDATE SKIP LOCKED keeps them apart.  The consumer stores a message *)
(* and commits its offset in two steps, and a crash in between makes Kafka *)
(* deliver it again.                                                       *)
(***************************************************************************)
EXTENDS Integers, Sequences, FiniteSets, Functions

CONSTANTS
  Ids,          \* update ids, as the sources assign them
  Chats,        \* telegram chats
  Ignored,      \* updates the filtering policy ignores
  Jobs,         \* overlapping runs of the inbox relay
  EmptyChats,   \* may a message without chats arrive?
  Faults,       \* the kinds of failure that may happen
  MaxMessages,  \* bound: messages in link-raw-updates
  MaxFailures   \* bound: failures, of all kinds

FaultKinds == {"crash", "kafka", "tx", "pg", "net"}

ASSUME AgentInboxAssumption ==
  /\ Ignored \subseteq Ids
  /\ EmptyChats \in BOOLEAN
  /\ Faults \subseteq FaultKinds
  /\ MaxMessages \in Nat
  /\ MaxFailures \in Nat

VARIABLES
  topic,        \* link-raw-updates, in offset order; each message is a new event
  offset,       \* committed offset: messages the group will not see again
  consumer,     \* "fetch", "commit" (stored, offset not committed), "stopped"
  dlq,          \* offsets of the messages copied to link-raw-updates-dlq
  seq,          \* rows inserted into agent_inbox so far (created_at order)
  stored,       \* history: every row ever inserted
  inbox,        \* rows with status 'pending'
  done,         \* rows with status 'processed'
  locked,       \* rows locked by each relay run; {} when it is idle
  txs,          \* relay transactions that inserted into agent_outbox
  outbox,       \* history: every agent_outbox row ever inserted
  failures      \* failures so far, of each kind

consumerVars == <<offset, consumer, dlq>>
inboxVars    == <<seq, stored, inbox, done>>
relayVars    == <<locked, txs, outbox>>
vars == <<topic, consumerVars, inboxVars, relayVars, failures>>

Message == [id: Ids, chats: SUBSET Chats]
Record  == [seq: Nat, msg: Nat, id: Ids, chats: SUBSET Chats]
(* parts: the inbox rows an outbox row was made of. *)
OutRow  == [tx: Nat, id: Ids, chats: SUBSET Chats, parts: SUBSET Record]

Failures == SumFunction(failures)

TypeOK ==
  /\ topic \in Seq(Message)
  /\ offset \in 0 .. Len(topic)
  /\ consumer \in {"fetch", "commit", "stopped"}
  /\ dlq \subseteq 1 .. Len(topic)
  /\ seq \in Nat
  /\ stored \subseteq Record
  /\ inbox \subseteq stored
  /\ done \subseteq stored
  /\ locked \in [Jobs -> SUBSET stored]
  /\ txs \in Nat
  /\ outbox \subseteq OutRow
  /\ failures \in [FaultKinds -> Nat]
  /\ Failures <= MaxFailures

Init ==
  /\ topic = << >>
  /\ offset = 0
  /\ consumer = "fetch"
  /\ dlq = {}
  /\ seq = 0
  /\ stored = {}
  /\ inbox = {}
  /\ done = {}
  /\ locked = [j \in Jobs |-> {}]
  /\ txs = 0
  /\ outbox = {}
  /\ failures = [kind \in FaultKinds |-> 0]

Fail(kind) ==
  /\ kind \in Faults
  /\ Failures < MaxFailures
  /\ failures' = [failures EXCEPT ![kind] = @ + 1]

----------------------------------------------------------------------------
(* The scrapper publishes.  The shot of a failed crawl of a link without   *)
(* subscribers has no chats.                                               *)
RawUpdate(id, chats) ==
  /\ Len(topic) < MaxMessages
  /\ EmptyChats \/ chats # {}
  /\ topic' = Append(topic, [id |-> id, chats |-> chats])
  /\ UNCHANGED <<consumerVars, inboxVars, relayVars, failures>>

----------------------------------------------------------------------------
(* Consume: the loop body, up to the insert. *)

Current == topic[offset + 1]

CanFetch == consumer = "fetch" /\ offset < Len(topic)

(* RawUpdate.Validate refuses a message without chats. *)
Valid(m) == m.chats # {}

(* UNIQUE(update_id) of agent_inbox. *)
IsDuplicate(m) == \E r \in inbox \cup done : r.id = m.id

Insert(m) ==
  LET r == [seq |-> seq + 1, msg |-> offset + 1, id |-> m.id, chats |-> m.chats]
  IN  /\ seq' = seq + 1
      /\ stored' = stored \cup {r}
      /\ inbox' = inbox \cup {r}
      /\ UNCHANGED done

AddRecord ==
  /\ CanFetch
  /\ Valid(Current)
  /\ ~IsDuplicate(Current)
  /\ Insert(Current)
  /\ consumer' = "commit"
  /\ UNCHANGED <<topic, offset, dlq, relayVars, failures>>

(* Fault: a duplicate is handled like any other error. *)
FaultDuplicateStops ==
  /\ CanFetch
  /\ Valid(Current)
  /\ IsDuplicate(Current)
  /\ consumer' = "stopped"
  /\ UNCHANGED <<topic, offset, dlq, inboxVars, relayVars, failures>>

(* ErrDuplicateMsg is no failure: the offset is committed. *)
AddDuplicate ==
  /\ CanFetch
  /\ Valid(Current)
  /\ IsDuplicate(Current)
  /\ consumer' = "commit"
  /\ UNCHANGED <<topic, offset, dlq, inboxVars, relayVars, failures>>

(* AddRecord looks at errors of type PgError only: a lost connection or a  *)
(* timeout is answered with nil, as if the row were there.  (It may be, if *)
(* only the reply was lost: that is AddRecord.)                            *)
AddRecordNetError ==
  /\ CanFetch
  /\ Valid(Current)
  /\ ~IsDuplicate(Current)
  /\ Fail("net")
  /\ consumer' = "commit"
  /\ UNCHANGED <<topic, offset, dlq, inboxVars, relayVars>>

(* handleFailure: the message goes to the DLQ, unless that fails too;      *)
(* Consume returns without committing the offset, and nobody starts it     *)
(* again.                                                                  *)
DeadLetter ==
  /\ dlq' \in {dlq, dlq \cup {offset + 1}}
  /\ consumer' = "stopped"
  /\ UNCHANGED <<topic, offset, inboxVars, relayVars>>

InvalidMessage ==
  /\ CanFetch
  /\ ~Valid(Current)
  /\ DeadLetter
  /\ UNCHANGED failures

(* Fault: every error of the insert is taken for a duplicate. *)
FaultPgErrorIgnored ==
  /\ CanFetch
  /\ Valid(Current)
  /\ Fail("pg")
  /\ consumer' = "commit"
  /\ UNCHANGED <<topic, offset, dlq, inboxVars, relayVars>>

AddRecordPgError ==
  /\ CanFetch
  /\ Valid(Current)
  /\ Fail("pg")
  /\ DeadLetter

CommitMessages ==
  /\ consumer = "commit"
  /\ offset' = offset + 1
  /\ consumer' = "fetch"
  /\ UNCHANGED <<topic, dlq, inboxVars, relayVars, failures>>

(* FetchMessage or CommitMessages fails and Consume returns; a commit whose *)
(* answer was lost counts nevertheless.                                    *)
KafkaFails ==
  /\ consumer # "stopped"
  /\ Fail("kafka")
  /\ offset' \in {offset, IF consumer = "commit" THEN offset + 1 ELSE offset}
  /\ consumer' = "stopped"
  /\ UNCHANGED <<topic, dlq, inboxVars, relayVars>>

----------------------------------------------------------------------------
(* The inbox relay: relayInboxTx. *)

(* Fault: a plain SELECT, without FOR UPDATE SKIP LOCKED. *)
FaultNoLocks(j) == {}

LockedByOthers(j) == UNION {locked[k] : k \in Jobs \ {j}}

(* The pending rows nobody has locked, from the oldest to groupWindow      *)
(* after it: a prefix of them in arrival order, never an empty one.        *)
IsWindow(S, rows) ==
  /\ S # {}
  /\ S \subseteq rows
  /\ \A r \in S, q \in rows \ S : r.seq < q.seq

FetchPending(j) ==
  /\ locked[j] = {}
  /\ \E S \in SUBSET (inbox \ LockedByOthers(j)) :
       /\ IsWindow(S, inbox \ LockedByOthers(j))
       /\ locked' = [locked EXCEPT ![j] = S]
  /\ UNCHANGED <<topic, consumerVars, inboxVars, txs, outbox, failures>>

(* processUpdates: the rows the policy lets pass, in the order in which    *)
(* the workers happened to finish.                                         *)
Passed(rows) == {r \in rows : r.id \notin Ignored}
Orders(S) == {f \in [S -> 1 .. Cardinality(S)] :
                \A r, q \in S : f[r] = f[q] => r = q}

For(rows, c) == {r \in rows : c \in r.chats}

(* HandleUpdatesWindow: a chat with one update shares that update's row    *)
(* with the other chats that have only this one; a chat with several gets  *)
(* a row of its own, under the id of the last of them.                     *)
Singles(rows) ==
  {o \in {[tx |-> txs + 1, id |-> r.id, parts |-> {r},
           chats |-> {c \in r.chats : For(rows, c) = {r}}] : r \in rows} :
     o.chats # {}}

Groups(rows, order) ==
  {[tx |-> txs + 1, id |-> (CHOOSE r \in For(rows, c) :
                              \A q \in For(rows, c) : order[q] <= order[r]).id,
    parts |-> For(rows, c), chats |-> {c}] :
     c \in {d \in Chats : Cardinality(For(rows, d)) > 1}}

Deliveries(rows, order) == Singles(rows) \cup Groups(rows, order)

Mark(rows) ==
  LET marked == {r \in inbox : \E q \in rows : q.id = r.id}
  IN  /\ inbox' = inbox \ marked
      /\ done' = done \cup marked

(* MarkProcessed, by update_id. *)
MarkProcessed(rows) == Mark(rows)

(* HandleUpdatesWindow, MarkProcessed and the commit. *)
RelayInbox(j) ==
  /\ locked[j] # {}
  /\ \E order \in Orders(Passed(locked[j])) :
       outbox' = outbox \cup Deliveries(Passed(locked[j]), order)
  /\ txs' = txs + 1
  /\ MarkProcessed(locked[j])
  /\ locked' = [locked EXCEPT ![j] = {}]
  /\ UNCHANGED <<topic, consumerVars, seq, stored, failures>>

(* Fault: AddBatch's error is logged only, and the rows are marked. *)
FaultBatchErrorIgnored(j) ==
  /\ locked[j] # {}
  /\ Fail("tx")
  /\ MarkProcessed(locked[j])
  /\ locked' = [locked EXCEPT ![j] = {}]
  /\ UNCHANGED <<topic, consumerVars, seq, stored, txs, outbox>>

(* AddBatch, MarkProcessed or the commit fails: everything is rolled back. *)
RelayInboxFails(j) ==
  /\ locked[j] # {}
  /\ Fail("tx")
  /\ locked' = [locked EXCEPT ![j] = {}]
  /\ UNCHANGED <<topic, consumerVars, inboxVars, txs, outbox>>

(* cleanInbox deletes old processed rows, and with them the memory that    *)
(* their update_id was seen.                                               *)
CleanInbox ==
  /\ \E S \in SUBSET done : S # {} /\ done' = done \ S
  /\ UNCHANGED <<topic, consumerVars, seq, stored, inbox, relayVars, failures>>

(* The process is killed, or restarted by hand: the consumer starts at the *)
(* committed offset, open transactions are gone.                           *)
Restart ==
  /\ Fail("crash")
  /\ consumer' = "fetch"
  /\ locked' = [j \in Jobs |-> {}]
  /\ UNCHANGED <<topic, offset, dlq, inboxVars, txs, outbox>>

----------------------------------------------------------------------------
ConsumerStep ==
  AddRecord \/ AddDuplicate \/ InvalidMessage \/ CommitMessages

Failure ==
  \/ AddRecordNetError
  \/ AddRecordPgError
  \/ KafkaFails
  \/ \E j \in Jobs : RelayInboxFails(j)
  \/ Restart

Next ==
  \/ \E id \in Ids, chats \in SUBSET Chats : RawUpdate(id, chats)
  \/ ConsumerStep
  \/ \E j \in Jobs : FetchPending(j) \/ RelayInbox(j)
  \/ CleanInbox
  \/ Failure

Spec == Init /\ [][Next]_vars

(* The consumer's goroutine goes on while it lives, and the relay job runs *)
(* again and again.                                                        *)
Fairness ==
  /\ WF_vars(ConsumerStep)
  /\ \A j \in Jobs : WF_vars(FetchPending(j)) /\ WF_vars(RelayInbox(j))

FairSpec == Spec /\ Fairness

----------------------------------------------------------------------------
(* Correctness. *)

(* No update is handed on twice to a chat, although relay runs overlap,    *)
(* fail and are restarted; and a window sends at most one message to a     *)
(* chat, which is what grouping is for.                                    *)
HandedOnOnce ==
  \A o, p \in outbox :
    /\ o.chats \cap p.chats # {}
    /\ o.tx = p.tx \/ o.parts \cap p.parts # {}
    => o = p

(* A committed offset is not forgotten: the update of every message behind *)
(* it is in the inbox's history, from this message or from an earlier one  *)
(* with the same update_id.  What is missing, AddRecord's swallowed errors *)
(* have cost, and each of them one message at most.                        *)
Unrecorded == {k \in 1 .. offset :
                 ~\E r \in stored : r.id = topic[k].id /\ r.msg <= k}
CommittedIsRecorded == Cardinality(Unrecorded) <= failures["net"]

(* What ends Consume for good: Kafka, a refused insert, or a message that  *)
(* is not valid.                                                           *)
StoppedForCause ==
  /\ consumer = "stopped"
  /\ failures["kafka"] + failures["pg"] > 0 \/ ~Valid(Current)

(* Every message is passed in the end, duplicates and redelivered messages *)
(* among them, unless something has stopped the consumer.                  *)
ConsumerProgress ==
  \A k \in 1 .. MaxMessages : (Len(topic) >= k) ~> (offset >= k \/ StoppedForCause)

----------------------------------------------------------------------------
(* The inbox with its relay delivers at least once: an update that the     *)
(* policy lets pass is owed to its chats from the insert on.               *)
Owed(rows) == {x \in Passed(rows) \X Chats : x[2] \in x[1].chats}

Delivery == INSTANCE AtLeastOnce WITH
  Item      <- Record \X Chats,
  accepted  <- Owed(stored),
  delivered <- {x \in Owed(stored) :
                  \E o \in outbox : x[2] \in o.chats /\ x[1] \in o.parts},
  settled   <- {x \in Owed(stored) : x[1] \notin inbox}

DeliversAtLeastOnce == Delivery!Spec
============================================================================
