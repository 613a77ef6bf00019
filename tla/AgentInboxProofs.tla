-------------------------- MODULE AgentInboxProofs --------------------------
(***************************************************************************)
(* For every number of relay runs, messages and failures: no update is     *)
(* handed on twice to a chat, what a committed offset has lost is paid by  *)
(* the errors that AddRecord swallows, and the inbox with its relay is an  *)
(* outbox that delivers at least once.                                     *)
(***************************************************************************)
EXTENDS AgentInbox, FiniteSetTheorems, WellFoundedInduction, TLAPS

(* TypeOK without the bound on the failures, and the facts about numbers   *)
(* and finiteness that the other invariants rest on.                       *)
Typed ==
  /\ topic \in Seq(Message)
  /\ offset \in 0 .. Len(topic)
  /\ consumer \in {"fetch", "commit", "stopped"}
  /\ consumer = "commit" => offset < Len(topic)
  /\ seq \in Nat
  /\ stored \subseteq Record
  /\ IsFiniteSet(stored)
  /\ \A r \in stored : r.seq <= seq
  /\ inbox \subseteq stored
  /\ done \subseteq stored
  /\ locked \in [Jobs -> SUBSET stored]
  /\ txs \in Nat
  /\ failures \in [FaultKinds -> Nat]

(* UNIQUE(update_id) and FOR UPDATE SKIP LOCKED: a run holds pending rows  *)
(* that nobody else holds, so that marking by update_id marks these only.  *)
LocksInv ==
  /\ \A r, q \in inbox : r.id = q.id => r = q
  /\ inbox \cap done = {}
  /\ \A r \in inbox, q \in done : r.id # q.id
  /\ \A j \in Jobs : locked[j] \subseteq inbox
  /\ \A j, k \in Jobs : j # k => locked[j] \cap locked[k] = {}

(* What went into the agent's outbox is no longer pending. *)
OutboxInv ==
  \A o \in outbox : /\ o.tx \in Nat /\ o.tx <= txs
                    /\ o.parts \subseteq stored
                    /\ o.parts \cap inbox = {}

(* A row that is no longer pending was handed on to each of its chats.     *)
Delivered(r) ==
  r.id \notin Ignored => \A c \in r.chats : \E o \in outbox : c \in o.chats /\ r \in o.parts
SettledInv == \A r \in stored \ inbox : Delivered(r)

----------------------------------------------------------------------------
(* A failure is counted under its own kind, and under no other. *)
LEMMA FailCounts ==
  ASSUME Typed, NEW kind, Fail(kind)
  PROVE  /\ failures' \in [FaultKinds -> Nat]
         /\ kind \in FaultKinds
         /\ failures'[kind] = failures[kind] + 1
         /\ \A k \in FaultKinds \ {kind} : failures'[k] = failures[k]
  BY AgentInboxAssumption DEF Fail, Typed, AgentInboxAssumption

(* The message at the committed offset, while there is one. *)
LEMMA CurrentTyped ==
  ASSUME Typed, offset < Len(topic)
  PROVE  Current \in Message /\ offset + 1 \in 1 .. Len(topic)
  BY DEF Typed, Current

(* The row that Insert adds. *)
NewRecord == [seq |-> seq + 1, msg |-> offset + 1, id |-> Current.id,
              chats |-> Current.chats]

LEMMA InsertAdds ==
  ASSUME Typed, AddRecord
  PROVE  /\ NewRecord \in Record /\ NewRecord \notin stored
         /\ NewRecord.seq = seq + 1 /\ NewRecord.msg = offset + 1
         /\ NewRecord.id = Current.id
         /\ seq' = seq + 1
         /\ stored' = stored \cup {NewRecord}
         /\ inbox' = inbox \cup {NewRecord}
         /\ done' = done
         /\ \A r \in inbox \cup done : r.id # NewRecord.id
         /\ IsFiniteSet(stored')
<1>1. Current \in Message
  BY CurrentTyped DEF AddRecord, CanFetch
<1>2. /\ seq' = seq + 1
      /\ stored' = stored \cup {NewRecord}
      /\ inbox' = inbox \cup {NewRecord}
      /\ done' = done
  BY DEF AddRecord, Insert, NewRecord
<1>3. NewRecord \in Record /\ NewRecord.seq = seq + 1 /\ NewRecord.msg = offset + 1
      /\ NewRecord.id = Current.id
  BY <1>1 DEF NewRecord, Record, Message, Typed
<1>4. NewRecord \notin stored
  BY <1>3 DEF Typed
<1>5. IsFiniteSet(stored')
  BY <1>2, FS_AddElement DEF Typed
<1>6. \A r \in inbox \cup done : r.id # NewRecord.id
  BY <1>3 DEF AddRecord, IsDuplicate
<1> QED  BY <1>2, <1>3, <1>4, <1>5, <1>6

(* MarkProcessed goes by update_id and marks the rows of the window. *)
LEMMA MarkMarks ==
  ASSUME Typed, LocksInv, NEW j \in Jobs, MarkProcessed(locked[j])
  PROVE  inbox' = inbox \ locked[j] /\ done' = done \cup locked[j]
<1>1. {r \in inbox : \E q \in locked[j] : q.id = r.id} = locked[j]
  BY DEF LocksInv
<1> QED  BY <1>1 DEF MarkProcessed, Mark

(* The steps that leave the tables of the relay alone. *)
LEMMA StepKinds ==
  ASSUME Typed, [Next]_vars
  PROVE  \/ AddRecord
         \/ \E j \in Jobs : FetchPending(j)
         \/ \E j \in Jobs : RelayInbox(j)
         \/ CleanInbox
         \/ /\ UNCHANGED <<inboxVars, txs, outbox>>
            /\ \/ locked' = locked
               \/ \E j \in Jobs : locked' = [locked EXCEPT ![j] = {}]
               \/ locked' = [j \in Jobs |-> {}]
  BY DEF Next, ConsumerStep, Failure, RawUpdate, AddDuplicate, InvalidMessage,
         DeadLetter, CommitMessages, AddRecordNetError, AddRecordPgError, KafkaFails,
         RelayInboxFails, Restart, inboxVars, relayVars, consumerVars, vars

LEMMA TypedStep == Typed /\ LocksInv /\ [Next]_vars => Typed'
<1> SUFFICES ASSUME Typed, LocksInv, [Next]_vars PROVE Typed'
  OBVIOUS
<1> USE DEF consumerVars, inboxVars, relayVars
<1>1. ASSUME NEW id \in Ids, NEW chats \in SUBSET Chats, RawUpdate(id, chats)
      PROVE  Typed'
  <2>1. [id |-> id, chats |-> chats] \in Message
    BY DEF Message
  <2>2. topic' \in Seq(Message) /\ Len(topic') = Len(topic) + 1
    BY <1>1, <2>1 DEF RawUpdate, Typed
  <2> QED  BY <1>1, <2>2 DEF RawUpdate, Typed
<1>2. CASE AddRecord
  <2>1. /\ topic' = topic /\ offset' = offset /\ consumer' = "commit"
        /\ offset < Len(topic) /\ UNCHANGED <<relayVars, failures>>
    BY <1>2 DEF AddRecord, CanFetch
  <2>2. /\ NewRecord \in Record /\ NewRecord.seq = seq + 1 /\ seq' = seq + 1
        /\ stored' = stored \cup {NewRecord} /\ inbox' = inbox \cup {NewRecord}
        /\ done' = done /\ IsFiniteSet(stored')
    BY <1>2, InsertAdds
  <2>3. seq' \in Nat /\ stored' \subseteq Record /\ \A r \in stored' : r.seq <= seq'
    BY <2>2 DEF Typed, Record
  <2>4. locked' = locked /\ txs' = txs /\ failures' = failures
    BY <2>1
  <2>5. locked' \in [Jobs -> SUBSET stored']
    BY <2>2, <2>4 DEF Typed
  <2> QED  BY <2>1, <2>2, <2>3, <2>4, <2>5 DEF Typed
<1>3. CASE AddDuplicate \/ InvalidMessage \/ AddRecordPgError \/ AddRecordNetError
  BY <1>3, FailCounts
  DEF AddDuplicate, InvalidMessage, AddRecordPgError, AddRecordNetError, CanFetch,
      DeadLetter, Typed
<1>4. CASE CommitMessages
  BY <1>4 DEF CommitMessages, Typed
<1>5. CASE KafkaFails
  BY <1>5, FailCounts DEF KafkaFails, Typed
<1>6. ASSUME NEW j \in Jobs, FetchPending(j) \/ RelayInboxFails(j)
      PROVE  Typed'
  BY <1>6, FailCounts DEF FetchPending, RelayInboxFails, Typed
<1>7. ASSUME NEW j \in Jobs, RelayInbox(j)
      PROVE  Typed'
  <2>1. MarkProcessed(locked[j])
    BY <1>7 DEF RelayInbox
  <2>2. inbox' = inbox \ locked[j] /\ done' = done \cup locked[j]
    BY <2>1, MarkMarks
  <2> QED  BY <1>7, <2>2 DEF RelayInbox, Typed
<1>8. CASE CleanInbox
  BY <1>8 DEF CleanInbox, Typed
<1>9. CASE Restart
  BY <1>9, FailCounts DEF Restart, Typed
<1>10. CASE UNCHANGED vars
  BY <1>10 DEF Typed, vars
<1> QED
  BY <1>1, <1>2, <1>3, <1>4, <1>5, <1>6, <1>7, <1>8, <1>9, <1>10
  DEF Next, ConsumerStep, Failure

----------------------------------------------------------------------------
LEMMA LocksStep == Typed /\ LocksInv /\ [Next]_vars => LocksInv'
<1> SUFFICES ASSUME Typed, LocksInv, [Next]_vars PROVE LocksInv'
  OBVIOUS
<1>1. CASE AddRecord
  BY <1>1, InsertAdds DEF AddRecord, relayVars, LocksInv, Typed
<1>2. ASSUME NEW j \in Jobs, FetchPending(j)
      PROVE  LocksInv'
  <2>1. PICK S \in SUBSET (inbox \ LockedByOthers(j)) :
          locked' = [locked EXCEPT ![j] = S]
    BY <1>2 DEF FetchPending
  <2>2. S \subseteq inbox /\ \A k \in Jobs \ {j} : S \cap locked[k] = {}
    BY DEF LockedByOthers
  <2>3. locked'[j] = S /\ \A k \in Jobs \ {j} : locked'[k] = locked[k]
    BY <2>1 DEF Typed
  <2>4. inbox' = inbox /\ done' = done
    BY <1>2 DEF FetchPending, inboxVars
  <2> QED  BY <2>2, <2>3, <2>4 DEF LocksInv
<1>3. ASSUME NEW j \in Jobs, RelayInbox(j)
      PROVE  LocksInv'
  <2>1. inbox' = inbox \ locked[j] /\ done' = done \cup locked[j]
    BY <1>3, MarkMarks DEF RelayInbox
  <2>2. locked'[j] = {} /\ \A k \in Jobs \ {j} : locked'[k] = locked[k]
    BY <1>3 DEF RelayInbox, Typed
  <2>3. \A k \in Jobs : locked[k] \subseteq inbox
    BY DEF LocksInv
  <2>4. \A r \in inbox', q \in done' : r.id # q.id /\ r # q
    BY <2>1, <2>3 DEF LocksInv
  <2> QED  BY <2>1, <2>2, <2>3, <2>4 DEF LocksInv
<1>4. CASE CleanInbox
  BY <1>4 DEF CleanInbox, relayVars, LocksInv
<1>5. CASE /\ UNCHANGED <<inboxVars, txs, outbox>>
           /\ \/ locked' = locked
              \/ \E j \in Jobs : locked' = [locked EXCEPT ![j] = {}]
              \/ locked' = [j \in Jobs |-> {}]
  BY <1>5 DEF inboxVars, LocksInv, Typed
<1> QED  BY <1>1, <1>2, <1>3, <1>4, <1>5, StepKinds

LEMMA InitInv == Init => Typed /\ LocksInv /\ OutboxInv /\ SettledInv
<1> SUFFICES ASSUME Init PROVE Typed /\ LocksInv /\ OutboxInv /\ SettledInv
  OBVIOUS
<1>1. Typed
  BY FS_EmptySet, AgentInboxAssumption DEF Init, Typed, AgentInboxAssumption
<1>2. LocksInv /\ OutboxInv /\ SettledInv
  BY DEF Init, LocksInv, OutboxInv, SettledInv
<1> QED  BY <1>1, <1>2

(* The rows of the two tables are typed, and locked rows are held once.    *)
LEMMA LocksCorrect == Spec => [](Typed /\ LocksInv)
<1>1. Init => Typed /\ LocksInv
  BY InitInv
<1>2. Typed /\ LocksInv /\ [Next]_vars => (Typed /\ LocksInv)'
  BY TypedStep, LocksStep
<1> QED  BY <1>1, <1>2, PTL DEF Spec

----------------------------------------------------------------------------
(* Grouping: what HandleUpdatesWindow makes of a window. *)

(* A row that a window writes is made of rows of the window, carries the   *)
(* number of its transaction, and tells a chat of all its updates in it.   *)
LEMMA DeliveriesOf ==
  ASSUME NEW rows, NEW order, NEW o \in Deliveries(rows, order)
  PROVE  /\ o.tx = txs + 1
         /\ o.parts \subseteq rows
         /\ \A c \in o.chats : o.parts = For(rows, c)
<1>1. CASE o \in Singles(rows)
  BY <1>1 DEF Singles, For
<1>2. CASE o \in Groups(rows, order)
  <2>1. \E c \in Chats : \E id :
          o = [tx |-> txs + 1, id |-> id, parts |-> For(rows, c), chats |-> {c}]
    BY <1>2 DEF Groups
  <2> QED  BY <2>1 DEF For
<1> QED  BY <1>1, <1>2 DEF Deliveries

(* A window sends at most one message to a chat. *)
LEMMA OneDeliveryPerChat ==
  ASSUME NEW rows, NEW order, NEW c \in Chats,
         NEW o \in Deliveries(rows, order), NEW p \in Deliveries(rows, order),
         c \in o.chats, c \in p.chats
  PROVE  o = p
<1>1. ASSUME NEW q \in Singles(rows), c \in q.chats
      PROVE  \E r \in rows :
               /\ q = [tx |-> txs + 1, id |-> r.id, parts |-> {r},
                       chats |-> {d \in r.chats : For(rows, d) = {r}}]
               /\ For(rows, c) = {r}
  BY <1>1 DEF Singles
<1>2. ASSUME NEW q \in Groups(rows, order), c \in q.chats
      PROVE  /\ q = [tx |-> txs + 1,
                     id |-> (CHOOSE r \in For(rows, c) :
                               \A k \in For(rows, c) : order[k] <= order[r]).id,
                     parts |-> For(rows, c), chats |-> {c}]
             /\ Cardinality(For(rows, c)) > 1
  BY <1>2 DEF Groups
<1>3. ASSUME NEW q \in Singles(rows), NEW k \in Groups(rows, order),
             c \in q.chats, c \in k.chats
      PROVE  FALSE
  <2>1. \E r \in rows : For(rows, c) = {r}
    BY <1>1, <1>3
  <2>2. Cardinality(For(rows, c)) = 1
    BY <2>1, FS_Singleton
  <2> QED  BY <1>2, <1>3, <2>2
<1>4. CASE o \in Singles(rows) /\ p \in Singles(rows)
  <2>1. PICK r \in rows :
          /\ o = [tx |-> txs + 1, id |-> r.id, parts |-> {r},
                  chats |-> {d \in r.chats : For(rows, d) = {r}}]
          /\ For(rows, c) = {r}
    BY <1>1, <1>4
  <2>2. PICK k \in rows :
          /\ p = [tx |-> txs + 1, id |-> k.id, parts |-> {k},
                  chats |-> {d \in k.chats : For(rows, d) = {k}}]
          /\ For(rows, c) = {k}
    BY <1>1, <1>4
  <2>3. r = k
    BY <2>1, <2>2
  <2> QED  BY <2>1, <2>2, <2>3
<1>5. CASE o \in Groups(rows, order) /\ p \in Groups(rows, order)
  BY <1>2, <1>5
<1> QED  BY <1>3, <1>4, <1>5 DEF Deliveries

(* Every chat of an update of the window is told of it. *)
LEMMA DeliveriesComplete ==
  ASSUME NEW rows, NEW order, IsFiniteSet(rows),
         NEW r \in rows, NEW c \in Chats, c \in r.chats
  PROVE  \E o \in Deliveries(rows, order) : c \in o.chats /\ r \in o.parts
<1>1. r \in For(rows, c)
  BY DEF For
<1>2. CASE For(rows, c) = {r}
  <2> DEFINE o == [tx |-> txs + 1, id |-> r.id, parts |-> {r},
                   chats |-> {d \in r.chats : For(rows, d) = {r}}]
  <2>1. c \in o.chats /\ r \in o.parts
    BY <1>2
  <2>2. o.chats # {}
    BY <2>1
  <2>3. o \in Singles(rows)
    BY <2>2 DEF Singles
  <2> QED  BY <2>1, <2>3 DEF Deliveries
<1>3. CASE For(rows, c) # {r}
  <2>1. IsFiniteSet(For(rows, c))
    BY FS_Subset DEF For
  <2>2. Cardinality(For(rows, c)) \in Nat
    BY <2>1, FS_CardinalityType
  <2>3. Cardinality(For(rows, c)) # 0
    BY <1>1, <2>1, FS_EmptySet
  <2>4. Cardinality(For(rows, c)) # 1
    BY <1>1, <1>3, <2>1, FS_Singleton
  <2>5. Cardinality(For(rows, c)) > 1
    BY <2>2, <2>3, <2>4
  <2> DEFINE o == [tx |-> txs + 1,
                   id |-> (CHOOSE q \in For(rows, c) :
                             \A k \in For(rows, c) : order[k] <= order[q]).id,
                   parts |-> For(rows, c), chats |-> {c}]
  <2>6. o \in Groups(rows, order)
    BY <2>5 DEF Groups
  <2> QED  BY <1>1, <2>6 DEF Deliveries
<1> QED  BY <1>2, <1>3

(* What a run of the relay adds to the agent's outbox. *)
LEMMA RelayAdds ==
  ASSUME Typed, LocksInv, NEW j \in Jobs, RelayInbox(j)
  PROVE  /\ txs' = txs + 1
         /\ stored' = stored
         /\ inbox' = inbox \ locked[j]
         /\ \E order \in Orders(Passed(locked[j])) :
              outbox' = outbox \cup Deliveries(Passed(locked[j]), order)
         /\ Passed(locked[j]) \subseteq locked[j]
         /\ locked[j] \subseteq inbox
<1>1. inbox' = inbox \ locked[j]
  BY MarkMarks DEF RelayInbox
<1> QED  BY <1>1 DEF RelayInbox, Passed, LocksInv

LEMMA OutboxStep == Typed /\ LocksInv /\ OutboxInv /\ [Next]_vars => OutboxInv'
<1> SUFFICES ASSUME Typed, LocksInv, OutboxInv, [Next]_vars PROVE OutboxInv'
  OBVIOUS
<1>1. CASE AddRecord
  BY <1>1, InsertAdds DEF AddRecord, relayVars, OutboxInv
<1>2. ASSUME NEW j \in Jobs, RelayInbox(j)
      PROVE  OutboxInv'
  <2>1. PICK order : outbox' = outbox \cup Deliveries(Passed(locked[j]), order)
    BY <1>2, RelayAdds
  <2>2. /\ txs \in Nat /\ txs' = txs + 1 /\ stored' = stored
        /\ inbox' = inbox \ locked[j] /\ Passed(locked[j]) \subseteq locked[j]
        /\ locked[j] \subseteq stored
    BY <1>2, RelayAdds DEF Typed
  <2>3. ASSUME NEW o \in Deliveries(Passed(locked[j]), order)
        PROVE  o.tx = txs' /\ o.parts \subseteq locked[j]
    BY <2>2, DeliveriesOf
  <2> QED  BY <2>1, <2>2, <2>3 DEF OutboxInv
<1>3. CASE CleanInbox \/ \E j \in Jobs : FetchPending(j)
  BY <1>3 DEF CleanInbox, FetchPending, relayVars, inboxVars, OutboxInv
<1>4. CASE UNCHANGED <<inboxVars, txs, outbox>>
  BY <1>4 DEF inboxVars, OutboxInv
<1> QED  BY <1>1, <1>2, <1>3, <1>4, StepKinds

LEMMA HandedStep ==
  Typed /\ LocksInv /\ OutboxInv /\ HandedOnOnce /\ [Next]_vars => HandedOnOnce'
<1> SUFFICES ASSUME Typed, LocksInv, OutboxInv, HandedOnOnce, [Next]_vars
             PROVE  HandedOnOnce'
  OBVIOUS
<1>1. ASSUME NEW j \in Jobs, RelayInbox(j)
      PROVE  HandedOnOnce'
  <2> DEFINE rows == Passed(locked[j])
  <2>1. PICK order : outbox' = outbox \cup Deliveries(rows, order)
    BY <1>1, RelayAdds
  <2> DEFINE new == Deliveries(rows, order)
  <2>2. rows \subseteq inbox /\ rows \subseteq Record
    BY <1>1, RelayAdds DEF Typed
  (* An old and a new row share neither a part nor a transaction. *)
  <2>3. ASSUME NEW o \in outbox, NEW p \in new
        PROVE  o.tx # p.tx /\ o.parts \cap p.parts = {}
    <3>1. p.tx = txs + 1 /\ p.parts \subseteq rows
      BY DeliveriesOf
    <3> QED  BY <2>2, <3>1 DEF OutboxInv, Typed
  <2>4. ASSUME NEW o \in new, NEW p \in new, o.chats \cap p.chats # {}
        PROVE  o = p
    <3>1. PICK c \in o.chats : c \in p.chats
      BY <2>4
    <3>2. c \in Chats
      BY <2>2, <3>1 DEF Deliveries, Singles, Groups, Record
    <3> QED  BY <3>1, <3>2, OneDeliveryPerChat
  <2> HIDE DEF new, rows
  <2> QED  BY <2>1, <2>3, <2>4 DEF HandedOnOnce, new
<1>2. CASE outbox' = outbox
  BY <1>2 DEF HandedOnOnce
<1>3. CASE AddRecord \/ CleanInbox \/ \E j \in Jobs : FetchPending(j)
  BY <1>2, <1>3 DEF AddRecord, CleanInbox, FetchPending, relayVars
<1> QED  BY <1>1, <1>2, <1>3, StepKinds

(* What was handed on is not pending, whatever the runs do. *)
LEMMA OutboxCorrect == Spec => []OutboxInv
<1>1. Init => OutboxInv
  BY InitInv
<1> QED  BY <1>1, OutboxStep, LocksCorrect, PTL DEF Spec

(* Overlapping, failing and restarted runs of the inbox relay hand no      *)
(* update on to a chat twice, and one window sends a chat one message.     *)
THEOREM UpdatesAreHandedOnOnce == Spec => []HandedOnOnce
<1>1. Init => HandedOnOnce
  BY DEF Init, HandedOnOnce
<1>2. Typed /\ LocksInv /\ OutboxInv /\ HandedOnOnce /\ [Next]_vars => HandedOnOnce'
  BY HandedStep
<1> QED  BY <1>1, <1>2, LocksCorrect, OutboxCorrect, PTL DEF Spec

----------------------------------------------------------------------------
(* At least once. *)

LEMMA SettledStep ==
  Typed /\ LocksInv /\ SettledInv /\ [Next]_vars => SettledInv'
<1> SUFFICES ASSUME Typed, LocksInv, SettledInv, [Next]_vars
             PROVE  SettledInv'
  OBVIOUS
<1>1. CASE AddRecord
  BY <1>1, InsertAdds DEF AddRecord, relayVars, SettledInv, Delivered
<1>2. ASSUME NEW j \in Jobs, RelayInbox(j)
      PROVE  SettledInv'
  <2> DEFINE rows == Passed(locked[j])
  <2>1. PICK order : outbox' = outbox \cup Deliveries(rows, order)
    BY <1>2, RelayAdds
  <2>2. /\ stored' = stored /\ inbox' = inbox \ locked[j]
        /\ rows \subseteq stored /\ IsFiniteSet(rows)
    BY <1>2, RelayAdds, FS_Subset DEF Typed
  <2>3. ASSUME NEW r \in stored \ inbox
        PROVE  Delivered(r)'
    BY <2>1, <2>3 DEF SettledInv, Delivered
  <2>4. ASSUME NEW r \in locked[j]
        PROVE  Delivered(r)'
    <3> SUFFICES ASSUME r.id \notin Ignored, NEW c \in r.chats
                 PROVE  \E o \in outbox' : c \in o.chats /\ r \in o.parts
      BY DEF Delivered
    <3>1. r \in rows /\ r \in Record
      BY <2>2 DEF Passed, Typed
    <3>2. c \in Chats
      BY <3>1 DEF Record
    <3>3. \E o \in Deliveries(rows, order) : c \in o.chats /\ r \in o.parts
      BY <2>2, <3>1, <3>2, DeliveriesComplete
    <3> QED  BY <2>1, <3>3
  <2> QED  BY <2>2, <2>3, <2>4 DEF SettledInv
<1>3. CASE CleanInbox \/ \E j \in Jobs : FetchPending(j)
  BY <1>3 DEF CleanInbox, FetchPending, relayVars, inboxVars, SettledInv, Delivered
<1>4. CASE UNCHANGED <<inboxVars, txs, outbox>>
  BY <1>4 DEF inboxVars, SettledInv, Delivered
<1> QED  BY <1>1, <1>2, <1>3, <1>4, StepKinds

LEMMA SettledHolds == Spec => []SettledInv
<1>1. Init => SettledInv
  BY InitInv
<1> QED  BY <1>1, SettledStep, LocksCorrect, PTL DEF Spec

(* The refinement mapping: what is owed, handed on, and settled.           *)
Given == {x \in Owed(stored) : \E o \in outbox : x[2] \in o.chats /\ x[1] \in o.parts}
Settled == {x \in Owed(stored) : x[1] \notin inbox}

LEMMA OwedIs ==
  ASSUME NEW rows
  PROVE  \A x : x \in Owed(rows) <=>
                  \E r \in rows, c \in Chats :
                    x = <<r, c>> /\ r.id \notin Ignored /\ c \in r.chats
  BY DEF Owed, Passed

LEMMA GivenIs ==
  \A x : x \in Given <=>
           \E r \in stored, c \in Chats :
             /\ x = <<r, c>> /\ r.id \notin Ignored /\ c \in r.chats
             /\ \E o \in outbox : c \in o.chats /\ r \in o.parts
  BY OwedIs DEF Given

LEMMA SettledIs ==
  \A x : x \in Settled <=>
           \E r \in stored, c \in Chats :
             x = <<r, c>> /\ r.id \notin Ignored /\ c \in r.chats /\ r \notin inbox
  BY OwedIs DEF Settled

LEMMA DeliveryStep ==
  /\ Typed /\ LocksInv /\ OutboxInv /\ SettledInv'
  /\ [Next]_vars
  => [Delivery!Next]_Delivery!vars
<1> SUFFICES ASSUME Typed, LocksInv, OutboxInv, SettledInv', [Next]_vars
             PROVE  [Delivery!Next]_Delivery!vars
  OBVIOUS
<1>1. CASE AddRecord
  <2>1. /\ NewRecord \in Record /\ NewRecord \notin stored
        /\ stored' = stored \cup {NewRecord} /\ inbox' = inbox \cup {NewRecord}
        /\ outbox' = outbox /\ stored \subseteq Record
    BY <1>1, InsertAdds DEF AddRecord, relayVars, Typed
  <2>2. Owed(stored) \subseteq Owed(stored')
    BY <2>1, OwedIs
  <2>3. Owed(stored') \subseteq Record \X Chats
    BY <2>1, OwedIs
  <2>4. \A o \in outbox : o.parts \subseteq stored
    BY DEF OutboxInv
  <2>5. ASSUME NEW x PROVE x \in Given' <=> x \in Given
    <3>1. x \in Given' <=>
           \E r \in stored', c \in Chats :
             /\ x = <<r, c>> /\ r.id \notin Ignored /\ c \in r.chats
             /\ \E o \in outbox' : c \in o.chats /\ r \in o.parts
      BY OwedIs DEF Given
    <3> QED  BY <2>1, <2>4, <3>1, GivenIs
  <2>6. ASSUME NEW x PROVE x \in Settled' <=> x \in Settled
    <3>1. x \in Settled' <=>
           \E r \in stored', c \in Chats :
             x = <<r, c>> /\ r.id \notin Ignored /\ c \in r.chats /\ r \notin inbox'
      BY OwedIs DEF Settled
    <3> QED  BY <2>1, <3>1, SettledIs
  <2>7. Given' = Given /\ Settled' = Settled
    BY <2>5, <2>6 DEF Given, Settled
  <2> QED  BY <2>2, <2>3, <2>7 DEF Delivery!Next, Delivery!Accept, Given, Settled
<1>2. ASSUME NEW j \in Jobs, RelayInbox(j)
      PROVE  Delivery!Next
  <2>1. PICK order : outbox' = outbox \cup Deliveries(Passed(locked[j]), order)
    BY <1>2, RelayAdds
  <2>2. /\ stored' = stored /\ inbox' = inbox \ locked[j]
        /\ Passed(locked[j]) \subseteq inbox /\ stored \subseteq Record
    BY <1>2, RelayAdds DEF Typed
  <2>3. \A o \in Deliveries(Passed(locked[j]), order) : o.parts \subseteq inbox
    BY <2>2, DeliveriesOf
  <2>4. Given \subseteq Given'
    BY <2>1, <2>2 DEF Given
  <2>5. ASSUME NEW x \in Given' \ Given PROVE x \in Owed(stored) \ Settled
    BY <2>1, <2>2, <2>3, <2>5 DEF Given, Settled
  <2>6. Settled \subseteq Settled'
    BY <2>2 DEF Settled
  <2>7. Settled' \subseteq Given'
    <3> SUFFICES ASSUME NEW x \in Settled' PROVE x \in Given'
      OBVIOUS
    <3>1. PICK r \in stored, c \in Chats :
            x = <<r, c>> /\ r.id \notin Ignored /\ c \in r.chats /\ r \notin inbox'
      BY <2>2, OwedIs DEF Settled
    <3>2. \E o \in outbox' : c \in o.chats /\ r \in o.parts
      BY <2>2, <3>1 DEF SettledInv, Delivered
    <3> QED  BY <2>2, <3>1, <3>2, OwedIs DEF Given
  <2>8. Given' \subseteq Given \cup (Owed(stored) \ Settled)
    BY <2>5
  <2> QED
    BY <2>2, <2>4, <2>6, <2>7, <2>8 DEF Delivery!Next, Delivery!HandOn, Given, Settled
<1>3. CASE UNCHANGED <<stored, inbox, outbox>>
  BY <1>3 DEF Delivery!vars, Owed, Passed
<1>4. CASE CleanInbox \/ \E j \in Jobs : FetchPending(j)
  BY <1>3, <1>4 DEF CleanInbox, FetchPending, relayVars, inboxVars
<1> QED  BY <1>1, <1>2, <1>3, <1>4, StepKinds DEF inboxVars

(* The inbox with its relay implements AtLeastOnce: an update is accepted  *)
(* with its row, handed on to each of its chats by the transaction that    *)
(* marks the row, and no row is marked otherwise.                          *)
THEOREM InboxDeliversAtLeastOnce == Spec => DeliversAtLeastOnce
<1>1. Init => Delivery!Init
  BY DEF Init, Delivery!Init, Owed, Passed
<1> QED
  BY <1>1, SettledHolds, DeliveryStep, LocksCorrect, OutboxCorrect, PTL
  DEF Spec, DeliversAtLeastOnce, Delivery!Spec

----------------------------------------------------------------------------
(* What a commit may lose. *)

Recorded(k) == \E r \in stored : r.id = topic[k].id /\ r.msg <= k

(* A stored row's message is at most the one that the consumer is at.      *)
MessagesInv == \A r \in stored : r.msg <= offset + 1

(* Before a commit: the message is in the table, or an error that nobody   *)
(* else has paid with was swallowed for it.                                *)
CommitInv ==
  consumer = "commit" =>
    Recorded(offset + 1) \/ Cardinality(Unrecorded) + 1 <= failures["net"]

LEMMA UnrecordedFinite ==
  ASSUME Typed
  PROVE  IsFiniteSet(Unrecorded) /\ Cardinality(Unrecorded) \in Nat
<1>1. IsFiniteSet(1 .. offset)
  BY FS_Interval DEF Typed
<1>2. Unrecorded \in SUBSET (1 .. offset)
  BY DEF Unrecorded
<1>3. IsFiniteSet(Unrecorded)
  BY <1>1, <1>2, FS_Subset
<1> QED  BY <1>3, FS_CardinalityType

(* Messages and rows are only added. *)
LEMMA Grows ==
  ASSUME Typed, [Next]_vars
  PROVE  /\ stored \subseteq stored'
         /\ \A k \in 1 .. Len(topic) : topic'[k] = topic[k]
         /\ failures["net"] <= failures'["net"]
<1> USE DEF consumerVars, inboxVars, relayVars
<1>1. failures["net"] \in Nat
  BY DEF Typed, FaultKinds
<1>2. CASE \E id \in Ids, chats \in SUBSET Chats : RawUpdate(id, chats)
  BY <1>1, <1>2 DEF RawUpdate, Typed
<1>3. CASE AddRecord
  BY <1>1, <1>3, InsertAdds DEF AddRecord
<1>4. CASE Failure
  <2>1. stored' = stored /\ topic' = topic
    BY <1>4 DEF Failure, AddRecordNetError, AddRecordPgError, KafkaFails, RelayInboxFails,
                Restart, DeadLetter
  <2>2. \E kind \in FaultKinds : Fail(kind)
    BY <1>4 DEF Failure, AddRecordNetError, AddRecordPgError, KafkaFails, RelayInboxFails,
                Restart, FaultKinds
  <2>3. failures["net"] <= failures'["net"]
    BY <1>1, <2>2, FailCounts DEF FaultKinds
  <2> QED  BY <2>1, <2>3
<1>5. CASE \E j \in Jobs : RelayInbox(j)
  BY <1>1, <1>5 DEF RelayInbox
<1>6. CASE UNCHANGED <<topic, stored, failures>>
  BY <1>1, <1>6
<1>7. CASE \/ AddDuplicate \/ InvalidMessage \/ CommitMessages \/ CleanInbox
           \/ \E j \in Jobs : FetchPending(j)
           \/ UNCHANGED vars
  BY <1>6, <1>7 DEF AddDuplicate, InvalidMessage, CommitMessages, CleanInbox, FetchPending,
                    DeadLetter, vars
<1> QED  BY <1>2, <1>3, <1>4, <1>5, <1>7 DEF Next, ConsumerStep

(* The committed offset is passed only by a commit. *)
LEMMA OffsetSteps ==
  ASSUME Typed, [Next]_vars
  PROVE  \/ offset' = offset
         \/ consumer = "commit" /\ offset' = offset + 1 /\ consumer' # "commit"
  BY DEF Next, ConsumerStep, Failure, RawUpdate, AddRecord, AddDuplicate, InvalidMessage,
         DeadLetter, CommitMessages, AddRecordNetError, AddRecordPgError, KafkaFails,
         RelayInboxFails, Restart, FetchPending, RelayInbox, CleanInbox,
         consumerVars, vars

LEMMA MessagesStep == Typed /\ MessagesInv /\ [Next]_vars => MessagesInv'
<1> SUFFICES ASSUME Typed, MessagesInv, [Next]_vars PROVE MessagesInv'
  OBVIOUS
<1>1. offset \in Nat /\ offset' >= offset /\ offset' \in Nat
  BY OffsetSteps DEF Typed
<1>2. CASE AddRecord
  BY <1>2, InsertAdds DEF AddRecord, MessagesInv, Typed
<1>3. CASE stored' = stored
  BY <1>1, <1>3 DEF MessagesInv, Typed, Record
<1>4. ~AddRecord => stored' = stored
  BY StepKinds DEF FetchPending, RelayInbox, CleanInbox, inboxVars
<1> QED  BY <1>2, <1>3, <1>4

(* While the offset stays, nothing becomes unrecorded. *)
LEMMA StillRecorded ==
  ASSUME Typed, [Next]_vars, offset' = offset
  PROVE  /\ Cardinality(Unrecorded') <= Cardinality(Unrecorded)
         /\ Cardinality(Unrecorded') \in Nat
         /\ \A k \in 1 .. Len(topic) : Recorded(k) => Recorded(k)'
<1>1. /\ stored \subseteq stored'
      /\ \A k \in 1 .. Len(topic) : topic'[k] = topic[k]
      /\ 1 .. offset \subseteq 1 .. Len(topic)
  BY Grows DEF Typed
<1>2. Unrecorded' \in SUBSET Unrecorded
  BY <1>1 DEF Unrecorded
<1>3. \A k \in 1 .. Len(topic) : Recorded(k) => Recorded(k)'
  BY <1>1 DEF Recorded
<1>4. IsFiniteSet(Unrecorded') /\ Cardinality(Unrecorded') <= Cardinality(Unrecorded)
  BY <1>2, UnrecordedFinite, FS_Subset
<1> QED  BY <1>3, <1>4, FS_CardinalityType

(* A commit passes one message, and it may be one that is not recorded.    *)
LEMMA CommitPasses ==
  ASSUME Typed, [Next]_vars, offset' = offset + 1
  PROVE  /\ Cardinality(Unrecorded') \in Nat
         /\ Cardinality(Unrecorded') <= Cardinality(Unrecorded) + 1
         /\ Recorded(offset + 1) => Cardinality(Unrecorded') <= Cardinality(Unrecorded)
<1>1. /\ stored \subseteq stored'
      /\ \A k \in 1 .. Len(topic) : topic'[k] = topic[k]
      /\ offset \in Nat /\ Len(topic) \in Nat /\ offset + 1 <= Len(topic)
  BY Grows, OffsetSteps DEF Typed
<1>2. ASSUME NEW k \in Unrecorded' PROVE k \in Unrecorded \/ k = offset + 1
  BY <1>1, <1>2 DEF Unrecorded
<1>3. Recorded(offset + 1) => offset + 1 \notin Unrecorded'
  BY <1>1 DEF Unrecorded, Recorded
<1>4. /\ IsFiniteSet(Unrecorded \cup {offset + 1})
      /\ Cardinality(Unrecorded \cup {offset + 1}) <= Cardinality(Unrecorded) + 1
      /\ Cardinality(Unrecorded \cup {offset + 1}) \in Nat
  BY UnrecordedFinite, FS_AddElement
<1>5. Unrecorded' \in SUBSET (Unrecorded \cup {offset + 1})
  BY <1>2
<1>6. /\ IsFiniteSet(Unrecorded')
      /\ Cardinality(Unrecorded') <= Cardinality(Unrecorded \cup {offset + 1})
      /\ Cardinality(Unrecorded') \in Nat
  BY <1>4, <1>5, FS_Subset, FS_CardinalityType
<1>7. ASSUME Recorded(offset + 1)
      PROVE  Cardinality(Unrecorded') <= Cardinality(Unrecorded)
  <2>1. Unrecorded' \in SUBSET Unrecorded
    BY <1>2, <1>3, <1>7
  <2> QED  BY <2>1, UnrecordedFinite, FS_Subset
<1> QED  BY <1>4, <1>6, <1>7, UnrecordedFinite

LEMMA CommitStep ==
  /\ Typed /\ MessagesInv /\ CommitInv /\ CommittedIsRecorded
  /\ [Next]_vars
  => CommitInv' /\ CommittedIsRecorded'
<1> SUFFICES ASSUME Typed, MessagesInv, CommitInv, CommittedIsRecorded, [Next]_vars
             PROVE  CommitInv' /\ CommittedIsRecorded'
  OBVIOUS
<1>1. /\ failures["net"] \in Nat /\ failures'["net"] \in Int
      /\ failures["net"] <= failures'["net"]
      /\ Cardinality(Unrecorded) \in Nat
      /\ Cardinality(Unrecorded) <= failures["net"]
  <2>1. "net" \in FaultKinds
    BY DEF FaultKinds
  <2>2. failures' = failures \/ \E kind : Fail(kind)
    BY DEF Next, ConsumerStep, Failure, RawUpdate, AddRecord, AddDuplicate, InvalidMessage,
           CommitMessages, AddRecordNetError, AddRecordPgError, KafkaFails,
           RelayInboxFails, Restart, FetchPending, RelayInbox, CleanInbox, vars
  <2>3. failures["net"] \in Nat /\ failures'["net"] \in Nat
    BY <2>1, <2>2, FailCounts DEF Typed
  <2> QED  BY <2>3, Grows, UnrecordedFinite DEF CommittedIsRecorded
<1>2. CASE offset' = offset + 1
  <2>1. consumer = "commit" /\ consumer' # "commit"
    BY <1>2, OffsetSteps DEF Typed
  <2>2. Cardinality(Unrecorded') \in Nat /\ Cardinality(Unrecorded') <= failures["net"]
    <3>1. CASE Recorded(offset + 1)
      BY <1>1, <1>2, <3>1, CommitPasses
    <3>2. CASE ~Recorded(offset + 1)
      BY <1>1, <1>2, <2>1, <3>2, CommitPasses DEF CommitInv
    <3> QED  BY <3>1, <3>2
  <2> QED  BY <1>1, <2>1, <2>2 DEF CommitInv, CommittedIsRecorded
<1>3. CASE offset' = offset
  <2>1. /\ Cardinality(Unrecorded') <= Cardinality(Unrecorded)
        /\ Cardinality(Unrecorded') \in Nat
        /\ \A k \in 1 .. Len(topic) : Recorded(k) => Recorded(k)'
    BY <1>3, StillRecorded
  <2>2. CommittedIsRecorded'
    BY <1>1, <2>1 DEF CommittedIsRecorded
  <2>3. CASE consumer' # "commit"
    BY <2>2, <2>3 DEF CommitInv
  <2>4. CASE consumer = "commit" /\ consumer' = "commit"
    <3>1. offset + 1 \in 1 .. Len(topic)
      BY <2>4 DEF Typed
    <3> QED  BY <1>1, <1>3, <2>1, <2>2, <2>4, <3>1 DEF CommitInv
  <2>5. CASE AddRecord
    <3>1. /\ NewRecord \in stored' /\ NewRecord.id = Current.id
          /\ NewRecord.msg = offset + 1 /\ topic' = topic
      BY <2>5, InsertAdds DEF AddRecord
    <3>2. Recorded(offset + 1)'
      BY <1>3, <3>1 DEF Recorded, Current, Typed
    <3> QED  BY <2>2, <3>2, <1>3 DEF CommitInv
  <2>6. CASE AddDuplicate
    <3>1. PICK r \in stored : r.id = Current.id
      BY <2>6 DEF AddDuplicate, IsDuplicate, Typed
    <3>2. r.msg <= offset + 1 /\ r \in stored' /\ topic' = topic
      BY <2>6 DEF AddDuplicate, inboxVars, MessagesInv
    <3>3. Recorded(offset + 1)'
      BY <1>3, <3>1, <3>2 DEF Recorded, Current
    <3> QED  BY <2>2, <3>3, <1>3 DEF CommitInv
  <2>7. CASE AddRecordNetError
    <3>1. failures'["net"] = failures["net"] + 1
      BY <2>7, FailCounts DEF AddRecordNetError
    <3> QED  BY <1>1, <2>1, <2>2, <3>1 DEF CommitInv
  <2>8. \/ consumer = "commit" \/ consumer' # "commit"
        \/ AddRecord \/ AddDuplicate \/ AddRecordNetError
    BY DEF Next, ConsumerStep, Failure, RawUpdate, InvalidMessage, DeadLetter,
           CommitMessages, AddRecordPgError, KafkaFails, RelayInboxFails, Restart,
           FetchPending, RelayInbox, CleanInbox, consumerVars, vars
  <2> QED  BY <2>3, <2>4, <2>5, <2>6, <2>7, <2>8
<1> QED  BY <1>2, <1>3, OffsetSteps

(* The update of every message behind the committed offset is in the       *)
(* history of the inbox, but for one message at most for each error of the *)
(* network that AddRecord answers with nil.                                *)
THEOREM CommittedMessagesAreRecorded == Spec => []CommittedIsRecorded
<1>1. Init => MessagesInv /\ CommitInv /\ CommittedIsRecorded
  <2> SUFFICES ASSUME Init PROVE MessagesInv /\ CommitInv /\ CommittedIsRecorded
    OBVIOUS
  <2>1. Unrecorded = {} /\ failures["net"] = 0
    BY DEF Init, Unrecorded, FaultKinds
  <2> QED
    BY <2>1, FS_EmptySet DEF Init, MessagesInv, CommitInv, CommittedIsRecorded
<1>2. Typed /\ MessagesInv /\ CommitInv /\ CommittedIsRecorded /\ [Next]_vars
        => MessagesInv' /\ CommitInv' /\ CommittedIsRecorded'
  BY MessagesStep, CommitStep
<1> QED  BY <1>1, <1>2, LocksCorrect, PTL DEF Spec
----------------------------------------------------------------------------
(* The rest of TypeOK, but for the bound on the failures. *)

(* A row of the agent's outbox has an update and a chat. *)
Shaped ==
  /\ dlq \subseteq 1 .. Len(topic)
  /\ outbox \subseteq OutRow
  /\ \A o \in outbox : o.chats # {} /\ o.parts # {}

(* Of several updates one is the last. *)
LEMMA LastUpdate ==
  ASSUME NEW S, S # {}, NEW n \in Nat, NEW order, \A r \in S : order[r] \in 1 .. n
  PROVE  \E r \in S : \A q \in S : order[q] <= order[r]
<1> DEFINE Gaps == {n - order[r] : r \in S}
<1>1. Gaps \subseteq Nat /\ Gaps # {}
  OBVIOUS
<1>2. \E x \in Gaps : \A y \in Gaps : ~(<<y, x>> \in OpToRel(<, Nat))
  BY <1>1, NatLessThanWellFounded, WFMin
<1>3. PICK x \in Gaps : \A y \in Gaps : ~(y < x)
  BY <1>1, <1>2 DEF OpToRel
<1>4. PICK r \in S : x = n - order[r]
  OBVIOUS
<1>5. ASSUME NEW q \in S PROVE order[q] <= order[r]
  <2>1. ~(n - order[q] < n - order[r])
    BY <1>3, <1>4
  <2> QED  BY <2>1
<1> QED  BY <1>5

(* What a window writes are rows of agent_outbox. *)
LEMMA DeliveriesTyped ==
  ASSUME txs \in Nat, NEW rows \in SUBSET Record, IsFiniteSet(rows),
         NEW order \in Orders(rows), NEW o \in Deliveries(rows, order)
  PROVE  o \in OutRow /\ o.chats # {} /\ o.parts # {}
<1>1. CASE o \in Singles(rows)
  BY <1>1 DEF Singles, OutRow, Record
<1>2. CASE o \in Groups(rows, order)
  <2>1. PICK c \in Chats :
          /\ Cardinality(For(rows, c)) > 1
          /\ o = [tx |-> txs + 1,
                  id |-> (CHOOSE r \in For(rows, c) :
                            \A q \in For(rows, c) : order[q] <= order[r]).id,
                  parts |-> For(rows, c), chats |-> {c}]
    BY <1>2 DEF Groups
  <2>2. For(rows, c) # {} /\ For(rows, c) \subseteq rows
    <3>1. Cardinality({}) = 0  BY FS_EmptySet
    <3>2. For(rows, c) # {}  BY <2>1, <3>1
    <3> QED  BY <3>2 DEF For
  <2>3. Cardinality(rows) \in Nat
    BY FS_CardinalityType
  <2>4. \A r \in For(rows, c) : order[r] \in 1 .. Cardinality(rows)
    BY <2>2 DEF Orders
  <2>5. \E r \in For(rows, c) : \A q \in For(rows, c) : order[q] <= order[r]
    BY <2>2, <2>3, <2>4, LastUpdate
  <2>6. (CHOOSE r \in For(rows, c) : \A q \in For(rows, c) : order[q] <= order[r])
           \in For(rows, c)
    BY <2>5
  <2>7. o.id \in Ids /\ o.tx \in Nat /\ o.parts = For(rows, c) /\ o.chats = {c}
    BY <2>1, <2>2, <2>6 DEF Record
  <2> QED  BY <2>1, <2>2, <2>7 DEF OutRow
<1> QED  BY <1>1, <1>2 DEF Deliveries

LEMMA ShapedStep == Typed /\ LocksInv /\ Shaped /\ [Next]_vars => Shaped'
<1> SUFFICES ASSUME Typed, LocksInv, Shaped, [Next]_vars PROVE Shaped'
  OBVIOUS
<1> USE DEF consumerVars, inboxVars, relayVars
<1>1. outbox' \subseteq OutRow /\ \A o \in outbox' : o.chats # {} /\ o.parts # {}
  <2>1. CASE outbox' = outbox
    BY <2>1 DEF Shaped
  <2>2. ASSUME NEW j \in Jobs, RelayInbox(j)
        PROVE  outbox' \subseteq OutRow /\ \A o \in outbox' : o.chats # {} /\ o.parts # {}
    <3>1. PICK order \in Orders(Passed(locked[j])) :
            outbox' = outbox \cup Deliveries(Passed(locked[j]), order)
      BY <2>2, RelayAdds
    <3>2. Passed(locked[j]) \subseteq stored
      BY <2>2, RelayAdds DEF Typed
    <3>3. IsFiniteSet(Passed(locked[j])) /\ Passed(locked[j]) \in SUBSET Record /\ txs \in Nat
      BY <3>2, FS_Subset DEF Typed
    <3>4. \A o \in Deliveries(Passed(locked[j]), order) :
             o \in OutRow /\ o.chats # {} /\ o.parts # {}
      BY <3>3, DeliveriesTyped
    <3> QED  BY <3>1, <3>4 DEF Shaped
  <2> QED  BY <2>1, <2>2, StepKinds DEF AddRecord, FetchPending, CleanInbox
<1>2. dlq' \subseteq 1 .. Len(topic')
  <2>0. topic' = topic \/ \E m \in Message : topic' = Append(topic, m)
    BY DEF Message, Next, ConsumerStep, Failure, RawUpdate, AddRecord, AddDuplicate,
           InvalidMessage, DeadLetter, CommitMessages, AddRecordNetError, AddRecordPgError,
           KafkaFails, RelayInboxFails, Restart, FetchPending, RelayInbox, CleanInbox, vars
  <2>1. Len(topic) \in Nat /\ Len(topic') \in Nat /\ Len(topic) <= Len(topic')
    BY <2>0 DEF Typed
  <2>2. dlq' = dlq \/ (CanFetch /\ dlq' \in {dlq, dlq \cup {offset + 1}})
    BY DEF Next, ConsumerStep, Failure, RawUpdate, AddRecord, AddDuplicate,
           InvalidMessage, DeadLetter, CommitMessages, AddRecordNetError, AddRecordPgError,
           KafkaFails, RelayInboxFails, Restart, FetchPending, RelayInbox, CleanInbox, vars
  <2>3. CanFetch => offset + 1 \in 1 .. Len(topic)
    BY DEF CanFetch, Typed
  <2> QED  BY <2>1, <2>2, <2>3 DEF Shaped
<1> QED  BY <1>1, <1>2 DEF Shaped

LEMMA ShapesCorrect == Spec => []Shaped
<1>1. Init => Shaped  BY DEF Init, Shaped
<1> QED  BY <1>1, LocksCorrect, ShapedStep, PTL DEF Spec
=============================================================================
