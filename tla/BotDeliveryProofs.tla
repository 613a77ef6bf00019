-------------------------- MODULE BotDeliveryProofs -------------------------
(***************************************************************************)
(* For every number of chats, relay runs, messages and failures: what a    *)
(* committed offset has lost is paid by the errors that AddRecord          *)
(* swallows, a second notification by a failure of the relay, and a        *)
(* missing one has one of two causes.                                      *)
(***************************************************************************)
EXTENDS BotDelivery, FiniteSetTheorems, TLAPS

(* TypeOK without the bounds on the failures. *)
Typed ==
  /\ topic \in Seq(Message)
  /\ offset \in 0 .. Len(topic)
  /\ consumer \in {"fetch", "commit", "stopped"}
  /\ consumer = "commit" => offset < Len(topic)
  /\ seq \in Nat
  /\ stored \subseteq Record
  /\ inbox \subseteq stored
  /\ done \subseteq stored
  /\ run \in [Jobs -> Run]
  /\ notified \in [Keys \X Chats -> Nat]
  /\ deadlocks \in Nat
  /\ failures \in [FaultKinds -> Nat]

(* A key is stored once: its row stays in the table as long as a message   *)
(* with this key may come.                                                 *)
KeysInv ==
  /\ \A k \in 1 .. Len(topic) : topic[k].key <= Len(topic)
  /\ \A r \in stored : r.key <= Len(topic)
  /\ \A r, q \in stored : r.key = q.key => r = q
  /\ \A r \in stored \ (inbox \cup done) :
       \A k \in (offset + 1 .. Len(topic)) \cup {Len(topic)} : topic[k].key # r.key

----------------------------------------------------------------------------
(* A failure is counted under its own kind, and under no other. *)
LEMMA FailCounts ==
  ASSUME Typed, NEW kind, Fail(kind)
  PROVE  /\ failures' \in [FaultKinds -> Nat]
         /\ kind \in FaultKinds
         /\ failures'[kind] = failures[kind] + 1
         /\ \A k \in FaultKinds \ {kind} : failures'[k] = failures[k]
  BY BotDeliveryAssumption DEF Fail, Typed, BotDeliveryAssumption

LEMMA CurrentTyped ==
  ASSUME Typed, offset < Len(topic)
  PROVE  Current \in Message /\ offset + 1 \in 1 .. Len(topic)
  BY DEF Typed, Current

(* The row that AddRecord inserts. *)
NewRecord == [seq |-> seq + 1, key |-> Current.key, shot |-> Current.shot,
              chats |-> Current.chats]

LEMMA AddRecordAdds ==
  ASSUME Typed, KeysInv, AddRecord
  PROVE  /\ NewRecord \in Record /\ NewRecord.key = Current.key
         /\ \A r \in stored : r.key # NewRecord.key
         /\ Current.key <= Len(topic)
         /\ stored' = stored \cup {NewRecord}
         /\ inbox' = inbox \cup {NewRecord}
         /\ done' = done /\ seq' = seq + 1
         /\ offset < Len(topic) /\ consumer' = "commit"
         /\ UNCHANGED <<topic, offset, dlq, relayVars, failures>>
<1>1. offset < Len(topic) /\ consumer' = "commit" /\ ~IsDuplicate(Current)
      /\ UNCHANGED <<topic, offset, dlq, done, relayVars, failures>>
  BY DEF AddRecord, CanFetch
<1>2. Current \in Message /\ offset + 1 \in 1 .. Len(topic)
  BY <1>1, CurrentTyped
<1>3. NewRecord \in Record /\ NewRecord.key = Current.key
  BY <1>2 DEF NewRecord, Record, Message, Typed
<1>4. stored' = stored \cup {NewRecord} /\ inbox' = inbox \cup {NewRecord} /\ seq' = seq + 1
  BY DEF AddRecord, NewRecord
<1>5. ASSUME NEW r \in stored PROVE r.key # Current.key
  <2>1. CASE r \in inbox \cup done
    BY <1>1, <2>1 DEF IsDuplicate
  <2>2. CASE r \notin inbox \cup done
    <3>1. offset + 1 \in offset + 1 .. Len(topic)
      BY <1>2
    <3> QED  BY <2>2, <3>1 DEF KeysInv, Current
  <2> QED  BY <2>1, <2>2
<1>6. Current.key <= Len(topic)
  BY <1>2 DEF KeysInv, Current
<1> QED  BY <1>1, <1>3, <1>4, <1>5, <1>6

LEMMA AddRecordFrame ==
  ASSUME AddRecord
  PROVE  UNCHANGED <<topic, offset, dlq, done, relayVars, failures>>
  BY DEF AddRecord

(* A producer's step appends a message with a new key, or with the last    *)
(* one.                                                                    *)
LEMMA ProducerWrites ==
  ASSUME Typed, Producer
  PROVE  /\ UNCHANGED <<consumerVars, inboxVars, relayVars>>
         /\ \E m \in Message :
              /\ topic' = Append(topic, m)
              /\ m.key = NewKey \/ (topic # << >> /\ m.key = topic[Len(topic)].key)
         /\ failures' = failures \/ Fail("resend")
<1>1. ASSUME NEW m \in Message, Write(m) PROVE topic' = Append(topic, m)
  BY <1>1 DEF Write
<1>2. ASSUME Len(topic) < MaxMessages PROVE NewKey \in Keys
  BY <1>2, BotDeliveryAssumption DEF NewKey, Keys, Typed, BotDeliveryAssumption
<1>3. CASE \E shot \in Shots, chats \in (SUBSET Chats) \ {{}} : ProcessedUpdate(shot, chats)
  <2>1. PICK shot \in Shots, chats \in SUBSET Chats : ProcessedUpdate(shot, chats)
    BY <1>3
  <2> DEFINE m == [key |-> NewKey, shot |-> shot, chats |-> chats]
  <2>2. Write(m) /\ Len(topic) < MaxMessages /\ failures' = failures
    BY <2>1 DEF ProcessedUpdate, Write
  <2>3. m \in Message /\ m.key = NewKey
    BY <1>2, <2>2 DEF Message
  <2> QED  BY <2>2, <2>3 DEF Write
<1>4. CASE \E k \in 1 .. Len(topic) : SentAgain(k)
  <2>1. PICK k \in 1 .. Len(topic) : SentAgain(k)
    BY <1>4
  <2> DEFINE m == [topic[k] EXCEPT !.key = NewKey]
  <2>2. Write(m) /\ Len(topic) < MaxMessages /\ Fail("resend")
    BY <2>1 DEF SentAgain, Write
  <2>3. topic[k] \in Message
    BY DEF Typed
  <2>4. m \in Message /\ m.key = NewKey
    BY <1>2, <2>2, <2>3 DEF Message
  <2> QED  BY <2>2, <2>4 DEF Write
<1>5. CASE WrittenTwice
  <2>1. topic # << >> /\ Write(topic[Len(topic)]) /\ failures' = failures
    BY <1>5 DEF WrittenTwice
  <2>2. topic[Len(topic)] \in Message
    BY <2>1 DEF Typed
  <2> QED  BY <2>1, <2>2 DEF Write
<1> QED  BY <1>3, <1>4, <1>5 DEF Producer

(* The consumer's steps other than AddRecord leave the tables alone. *)
ConsumerOnly ==
  \/ AddDuplicate \/ CommitMessages \/ AddRecordNetError \/ DeadLetter \/ KafkaFails

LEMMA ConsumerOnlyFrame ==
  ASSUME Typed, ConsumerOnly
  PROVE  /\ UNCHANGED <<topic, inboxVars, relayVars>>
         /\ offset' \in 0 .. Len(topic) /\ offset' >= offset
         /\ consumer' \in {"fetch", "commit", "stopped"}
         /\ consumer' = "commit" => offset' < Len(topic) /\ offset' = offset
         /\ offset' # offset => consumer = "commit" /\ offset' = offset + 1
         /\ failures' = failures \/ \E kind \in {"net", "pg", "kafka"} : Fail(kind)
<1>1. CASE AddDuplicate
  BY <1>1 DEF AddDuplicate, CanFetch, Typed
<1>2. CASE CommitMessages
  BY <1>2 DEF CommitMessages, Typed
<1>3. CASE AddRecordNetError \/ DeadLetter
  BY <1>3 DEF AddRecordNetError, DeadLetter, CanFetch, Typed
<1>4. CASE KafkaFails
  BY <1>4 DEF KafkaFails, Typed
<1> QED  BY <1>1, <1>2, <1>3, <1>4 DEF ConsumerOnly

----------------------------------------------------------------------------
(* The steps of a relay run: what each makes of the run's state. *)

(* Run j is replaced by t; the other runs go on. *)
Becomes(j, t) == /\ run' \in [Jobs -> Run]
                 /\ run'[j] = t
                 /\ \A k \in Jobs \ {j} : run'[k] = run[k]

LEMMA SetRun ==
  ASSUME Typed, NEW j \in Jobs, NEW t \in Run, run' = [run EXCEPT ![j] = t]
  PROVE  Becomes(j, t)
  BY DEF Typed, Becomes

LEMMA IdleTyped == Idle \in Run
  BY DEF Idle, Run

Sends(S) == {x \in S \X Chats : x[2] \in x[1].chats}

LEMMA FetchRun ==
  ASSUME Typed, NEW j \in Jobs, FetchPending(j)
  PROVE  \E S \in SUBSET Free(j), t \in Run :
           /\ Becomes(j, t)
           /\ t.pc = "send" /\ t.rows = S /\ t.todo = Sends(S)
           /\ t.locked = S /\ ~t.doomed
<1>1. PICK S \in SUBSET Free(j) :
        run' = [run EXCEPT ![j] = [Idle EXCEPT !.pc = "send", !.rows = S,
                 !.todo = {x \in S \X Chats : x[2] \in x[1].chats}, !.locked = S]]
  BY DEF FetchPending
<1>2. PICK t : t = [Idle EXCEPT !.pc = "send", !.rows = S, !.todo = Sends(S), !.locked = S]
  OBVIOUS
<1>3. t = [pc |-> "send", rows |-> S, todo |-> Sends(S), locked |-> S,
           targets |-> {}, doomed |-> FALSE]
  BY <1>2 DEF Idle
<1>4. S \subseteq Record /\ Sends(S) \subseteq Record \X Chats
  BY DEF Free, Typed, Sends
<1>5. t \in Run
  BY <1>3, <1>4 DEF Run
<1>6. Becomes(j, t)
  BY <1>1, <1>2, <1>5, SetRun DEF Sends
<1> QED  BY <1>3, <1>5, <1>6

(* The sends of a run become fewer. *)
LEMMA SendRun ==
  ASSUME Typed, NEW j \in Jobs, NEW x, SendMessage(j, x)
  PROVE  /\ \E t \in Run :
              /\ Becomes(j, t)
              /\ t.pc = run[j].pc /\ t.rows = run[j].rows
              /\ t.todo = run[j].todo \ {x}
              /\ t.locked = run[j].locked /\ t.targets = run[j].targets
              /\ t.doomed = run[j].doomed
         /\ run[j].pc = "send" /\ x \in run[j].todo
<1> DEFINE todo == run[j].todo \ {x}
           t == [run[j] EXCEPT !.todo = todo]
<1>1. run' = [run EXCEPT ![j].todo = todo] /\ todo \subseteq run[j].todo
  BY DEF SendMessage
<1>2. run[j].pc = "send" /\ x \in run[j].todo /\ run[j] \in Run
  BY DEF SendMessage, IsNext, Typed
<1> HIDE DEF todo
<1>3. t \in Run
  BY <1>1, <1>2 DEF Run
<1>4. run' = [run EXCEPT ![j] = t]
  BY <1>1, <1>2 DEF Typed, Run
<1>5. /\ t.pc = run[j].pc /\ t.rows = run[j].rows /\ t.todo = todo
      /\ t.locked = run[j].locked /\ t.targets = run[j].targets
      /\ t.doomed = run[j].doomed
  BY <1>2 DEF Run
<1> HIDE DEF t
<1>6. Becomes(j, t)
  BY <1>3, <1>4, SetRun
<1> QED  BY <1>2, <1>3, <1>5, <1>6 DEF todo

LEMMA SendFailsRun ==
  ASSUME Typed, NEW j \in Jobs, NEW x, SendFails(j, x)
  PROVE  /\ \E t \in Run :
              /\ Becomes(j, t)
              /\ t.pc = run[j].pc /\ t.rows = run[j].rows
              /\ t.todo = {y \in run[j].todo : y[1] # x[1]}
              /\ t.locked = run[j].locked /\ t.targets = run[j].targets
              /\ t.doomed = run[j].doomed
         /\ run[j].pc = "send" /\ x \in run[j].todo
<1> DEFINE todo == {y \in run[j].todo : y[1] # x[1]}
           t == [run[j] EXCEPT !.todo = todo]
<1>1. run' = [run EXCEPT ![j].todo = todo] /\ todo \subseteq run[j].todo
  BY DEF SendFails
<1>2. run[j].pc = "send" /\ x \in run[j].todo /\ run[j] \in Run
  BY DEF SendFails, IsNext, Typed
<1> HIDE DEF todo
<1>3. t \in Run
  BY <1>1, <1>2 DEF Run
<1>4. run' = [run EXCEPT ![j] = t]
  BY <1>1, <1>2 DEF Typed, Run
<1>5. /\ t.pc = run[j].pc /\ t.rows = run[j].rows /\ t.todo = todo
      /\ t.locked = run[j].locked /\ t.targets = run[j].targets
      /\ t.doomed = run[j].doomed
  BY <1>2 DEF Run
<1> HIDE DEF t
<1>6. Becomes(j, t)
  BY <1>3, <1>4, SetRun
<1> QED  BY <1>2, <1>3, <1>5, <1>6 DEF todo

LEMMA StartMarkRun ==
  ASSUME Typed, NEW j \in Jobs, StartMark(j)
  PROVE  /\ \E t \in Run :
              /\ Becomes(j, t)
              /\ t.pc = "mark" /\ t.rows = run[j].rows /\ t.todo = {}
              /\ t.locked = run[j].locked /\ t.targets = SameShot(j)
              /\ ~t.doomed
         /\ run[j].pc = "send" /\ run[j].todo = {} /\ ~run[j].doomed
<1> DEFINE t == [run[j] EXCEPT !.pc = "mark", !.targets = SameShot(j)]
           f == [run EXCEPT ![j].pc = "mark"]
           targets == SameShot(j)
<1>1. run[j] \in Run /\ run[j].pc = "send" /\ run[j].todo = {} /\ ~run[j].doomed
  BY DEF Typed, StartMark
<1>2. targets \subseteq Record
  BY DEF SameShot, Typed
<1>3. t \in Run
  BY <1>1, <1>2 DEF Run
<1>4. run' = [f EXCEPT ![j].targets = targets]
  BY DEF StartMark
<1>5. f[j] = [run[j] EXCEPT !.pc = "mark"] /\ DOMAIN f = DOMAIN run
      /\ \A k \in Jobs \ {j} : f[k] = run[k]
  BY DEF Typed
<1> HIDE DEF targets
<1>6. [f[j] EXCEPT !.targets = targets] = t
  BY <1>5 DEF targets
<1>7. run' = [run EXCEPT ![j] = t]
  BY <1>4, <1>5, <1>6 DEF Typed
<1>8. /\ t.pc = "mark" /\ t.rows = run[j].rows /\ t.todo = {}
      /\ t.locked = run[j].locked /\ t.targets = SameShot(j) /\ ~t.doomed
  BY <1>1 DEF Run
<1> HIDE DEF t
<1> QED  BY <1>1, <1>3, <1>7, <1>8, SetRun

LEMMA MarkWaitsRun ==
  ASSUME Typed, NEW j \in Jobs, MarkWaits(j)
  PROVE  \E r \in inbox \cup done, t \in Run :
           /\ r \notin LockedByOthers(j)
           /\ Becomes(j, t)
           /\ t.pc = run[j].pc /\ t.rows = run[j].rows /\ t.todo = run[j].todo
           /\ t.locked = run[j].locked \cup {r} /\ t.targets = run[j].targets
           /\ t.doomed = run[j].doomed
<1>1. PICK r \in inbox \cup done : /\ r \notin LockedByOthers(j)
                                   /\ run' = [run EXCEPT ![j].locked = @ \cup {r}]
  BY DEF MarkWaits, Targets
<1> DEFINE t == [run[j] EXCEPT !.locked = @ \cup {r}]
<1>2. run[j] \in Run /\ r \in Record
  BY DEF Typed
<1>3. t \in Run
  BY <1>2 DEF Run
<1>4. run' = [run EXCEPT ![j] = t]
  BY <1>1, <1>2 DEF Typed, Run
<1>5. /\ t.pc = run[j].pc /\ t.rows = run[j].rows /\ t.todo = run[j].todo
      /\ t.locked = run[j].locked \cup {r} /\ t.targets = run[j].targets
      /\ t.doomed = run[j].doomed
  BY <1>2 DEF Run
<1> HIDE DEF t
<1> QED  BY <1>1, <1>3, <1>4, <1>5, SetRun

LEMMA TxFailsRun ==
  ASSUME Typed, NEW j \in Jobs, TxFails(j)
  PROVE  /\ \E t \in Run :
              /\ Becomes(j, t)
              /\ t.pc = "send" /\ t.rows = run[j].rows /\ t.todo = run[j].todo
              /\ t.locked = {} /\ t.targets = run[j].targets
              /\ t.doomed
         /\ run[j].pc = "send" /\ ~run[j].doomed
<1> DEFINE t == [run[j] EXCEPT !.doomed = TRUE, !.locked = {}]
           f == [run EXCEPT ![j].doomed = TRUE]
<1>1. run[j] \in Run /\ run[j].pc = "send" /\ ~run[j].doomed
  BY DEF Typed, TxFails
<1>2. t \in Run
  BY <1>1 DEF Run
<1>3. run' = [f EXCEPT ![j].locked = {}]
  BY DEF TxFails
<1>4. f[j] = [run[j] EXCEPT !.doomed = TRUE] /\ DOMAIN f = DOMAIN run
      /\ \A k \in Jobs \ {j} : f[k] = run[k]
  BY DEF Typed
<1>5. [f[j] EXCEPT !.locked = {}] = t
  BY <1>4
<1>6. run' = [run EXCEPT ![j] = t]
  BY <1>3, <1>4, <1>5 DEF Typed
<1>7. /\ t.pc = "send" /\ t.rows = run[j].rows /\ t.todo = run[j].todo
      /\ t.locked = {} /\ t.targets = run[j].targets /\ t.doomed
  BY <1>1 DEF Run
<1> HIDE DEF t
<1> QED  BY <1>1, <1>2, <1>6, <1>7, SetRun

(* The run ends: its transaction commits, is aborted, or is rolled back.   *)
Ends(j) == MarkProcessed(j) \/ Deadlock(j) \/ Rollback(j)

LEMMA EndsRun ==
  ASSUME Typed, NEW j \in Jobs, Ends(j)
  PROVE  Becomes(j, Idle)
  BY IdleTyped, SetRun DEF Ends, MarkProcessed, Deadlock, Rollback

----------------------------------------------------------------------------
(* The steps, as the invariants look at them. *)
LEMMA StepKinds ==
  ASSUME [Next]_vars
  PROVE  \/ Producer \/ AddRecord \/ ConsumerOnly \/ CleanInbox \/ Restart
         \/ \E j \in Jobs : FetchPending(j)
         \/ \E j \in Jobs : \E x : SendMessage(j, x)
         \/ \E j \in Jobs : \E x : SendFails(j, x)
         \/ \E j \in Jobs : StartMark(j)
         \/ \E j \in Jobs : MarkWaits(j)
         \/ \E j \in Jobs : TxFails(j)
         \/ \E j \in Jobs : Ends(j)
         \/ UNCHANGED vars
  BY DEF Next, ConsumerStep, RelayStep, Failure, ConsumerOnly, Ends

(* A send counts a notification, and one that fails may. *)
LEMMA SendNotifies ==
  ASSUME Typed, NEW j \in Jobs, NEW x, SendMessage(j, x) \/ SendFails(j, x)
  PROVE  /\ x \in Record \X Chats /\ <<x[1].key, x[2]>> \in Keys \X Chats
         /\ notified' \in [Keys \X Chats -> Nat]
         /\ \A y \in Keys \X Chats : y # <<x[1].key, x[2]>> => notified'[y] = notified[y]
         /\ notified'[<<x[1].key, x[2]>>] \in
              {notified[<<x[1].key, x[2]>>], notified[<<x[1].key, x[2]>>] + 1}
         /\ SendMessage(j, x) =>
              notified'[<<x[1].key, x[2]>>] = notified[<<x[1].key, x[2]>>] + 1
<1>1. x \in run[j].todo /\ run[j] \in Run
  BY DEF SendMessage, SendFails, IsNext, Typed
<1>2. x \in Record \X Chats
  BY <1>1 DEF Run
<1>3. PICK y : y = <<x[1].key, x[2]>>
  OBVIOUS
<1>4. y \in Keys \X Chats
  BY <1>2, <1>3 DEF Record
<1>5. PICK n \in {0, 1} : /\ notified' = [notified EXCEPT ![y] = @ + n]
                          /\ SendMessage(j, x) => n = 1
  <2>1. CASE SendMessage(j, x)
    BY <1>3, <2>1 DEF SendMessage
  <2>2. CASE SendFails(j, x) /\ ~SendMessage(j, x)
    BY <1>3, <2>2 DEF SendFails
  <2> QED  BY <2>1, <2>2
<1>6. notified \in [Keys \X Chats -> Nat]
  BY DEF Typed
<1>7. /\ notified' \in [Keys \X Chats -> Nat]
      /\ \A z \in Keys \X Chats : z # y => notified'[z] = notified[z]
      /\ notified'[y] = notified[y] + n
  BY <1>4, <1>5, <1>6
<1>8. notified[y] \in Nat
  BY <1>4, <1>6
<1>9. notified'[y] \in {notified[y], notified[y] + 1}
  BY <1>7, <1>8
<1> QED  BY <1>2, <1>3, <1>4, <1>5, <1>7, <1>9

LEMMA TypedStep == Typed /\ KeysInv /\ [Next]_vars => Typed'
<1> SUFFICES ASSUME Typed, KeysInv, [Next]_vars PROVE Typed'
  OBVIOUS
<1> USE DEF consumerVars, inboxVars, relayVars
<1>1. CASE Producer
  <2>1. failures' \in [FaultKinds -> Nat]
    BY <1>1, ProducerWrites, FailCounts DEF Typed
  <2>2. PICK m \in Message : topic' = Append(topic, m)
    BY <1>1, ProducerWrites
  <2>3. topic' \in Seq(Message) /\ Len(topic') = Len(topic) + 1
    BY <2>2 DEF Typed
  <2>4. UNCHANGED <<consumerVars, inboxVars, relayVars>>
    BY <1>1, ProducerWrites
  <2> QED  BY <2>1, <2>3, <2>4 DEF Typed
<1>2. CASE AddRecord
  <2>1. /\ NewRecord \in Record /\ stored' = stored \cup {NewRecord}
        /\ inbox' = inbox \cup {NewRecord} /\ done' = done /\ seq' = seq + 1
        /\ offset < Len(topic) /\ consumer' = "commit"
        /\ UNCHANGED <<topic, offset, dlq, relayVars, failures>>
    BY <1>2, AddRecordAdds
  <2> QED  BY <2>1 DEF Typed
<1>3. CASE ConsumerOnly
  <2>1. failures' \in [FaultKinds -> Nat]
    BY <1>3, ConsumerOnlyFrame, FailCounts DEF Typed
  <2> QED  BY <1>3, <2>1, ConsumerOnlyFrame DEF Typed
<1>4. CASE CleanInbox
  BY <1>4 DEF CleanInbox, Typed
<1>5. CASE Restart
  <2>1. run' \in [Jobs -> Run]
    BY <1>5, IdleTyped DEF Restart
  <2> QED  BY <1>5, <2>1, FailCounts DEF Restart, Typed
<1>6. ASSUME NEW j \in Jobs, FetchPending(j) PROVE Typed'
  <2>1. run' \in [Jobs -> Run]
    BY <1>6, FetchRun DEF Becomes
  <2> QED  BY <1>6, <2>1 DEF FetchPending, Typed
<1>7. ASSUME NEW j \in Jobs, NEW x, SendMessage(j, x) PROVE Typed'
  <2>1. run' \in [Jobs -> Run]
    BY <1>7, SendRun DEF Becomes
  <2>2. notified' \in [Keys \X Chats -> Nat]
    BY <1>7, SendNotifies
  <2> QED  BY <1>7, <2>1, <2>2 DEF SendMessage, Typed
<1>8. ASSUME NEW j \in Jobs, NEW x, SendFails(j, x) PROVE Typed'
  <2>1. run' \in [Jobs -> Run]
    BY <1>8, SendFailsRun DEF Becomes
  <2>2. notified' \in [Keys \X Chats -> Nat]
    BY <1>8, SendNotifies
  <2>3. failures' \in [FaultKinds -> Nat]
    BY <1>8, FailCounts DEF SendFails
  <2> QED  BY <1>8, <2>1, <2>2, <2>3 DEF SendFails, Typed
<1>9. ASSUME NEW j \in Jobs, StartMark(j) \/ MarkWaits(j) PROVE Typed'
  <2>1. run' \in [Jobs -> Run]
    BY <1>9, StartMarkRun, MarkWaitsRun DEF Becomes
  <2> QED  BY <1>9, <2>1 DEF StartMark, MarkWaits, Typed
<1>10. ASSUME NEW j \in Jobs, TxFails(j) PROVE Typed'
  <2>1. run' \in [Jobs -> Run]
    BY <1>10, TxFailsRun DEF Becomes
  <2>2. failures' \in [FaultKinds -> Nat]
    BY <1>10, FailCounts DEF TxFails
  <2> QED  BY <1>10, <2>1, <2>2 DEF TxFails, Typed
<1>11. ASSUME NEW j \in Jobs, Ends(j) PROVE Typed'
  <2>1. run' \in [Jobs -> Run]
    BY <1>11, EndsRun DEF Becomes
  <2>2. inbox' \subseteq stored /\ done' \subseteq stored
    BY <1>11 DEF Ends, MarkProcessed, Deadlock, Rollback, Targets, Typed
  <2>3. deadlocks' \in Nat
    BY <1>11 DEF Ends, MarkProcessed, Deadlock, Rollback, Typed
  <2> QED  BY <1>11, <2>1, <2>2, <2>3 DEF Ends, MarkProcessed, Deadlock, Rollback, Typed
<1>12. CASE UNCHANGED vars
  BY <1>12 DEF vars, Typed
<1> QED
  BY <1>1, <1>2, <1>3, <1>4, <1>5, <1>6, <1>7, <1>8, <1>9, <1>10, <1>11, <1>12, StepKinds

LEMMA KeysStep == Typed /\ KeysInv /\ [Next]_vars => KeysInv'
<1> SUFFICES ASSUME Typed, KeysInv, [Next]_vars PROVE KeysInv'
  OBVIOUS
<1> USE DEF consumerVars, inboxVars, relayVars
<1>1. Len(topic) \in Nat /\ offset \in Nat
  BY DEF Typed
<1>2. ASSUME NEW k \in 1 .. Len(topic) PROVE topic[k].key \in Nat
  <2>1. topic[k] \in Message
    BY DEF Typed
  <2>2. Keys \subseteq Nat
    BY DEF Keys
  <2> QED  BY <2>1, <2>2 DEF Message
<1>3. \A r \in stored : r.key \in Nat
  BY DEF Typed, Record, Keys
<1>4. CASE Producer
  <2>1. PICK m \in Message :
          /\ topic' = Append(topic, m)
          /\ m.key = NewKey \/ (topic # << >> /\ m.key = topic[Len(topic)].key)
    BY <1>4, ProducerWrites
  <2>2. UNCHANGED <<consumerVars, inboxVars, relayVars>>
    BY <1>4, ProducerWrites
  <2>3. /\ Len(topic') = Len(topic) + 1 /\ topic'[Len(topic) + 1] = m
        /\ \A k \in 1 .. Len(topic) : topic'[k] = topic[k]
    BY <2>1 DEF Typed
  <2>4. m.key <= Len(topic) + 1 /\ m.key \in Nat
    <3>1. CASE m.key = NewKey
      BY <1>1, <3>1 DEF NewKey
    <3>2. CASE topic # << >> /\ m.key = topic[Len(topic)].key
      <4>1. Len(topic) \in 1 .. Len(topic)
        BY <3>2 DEF Typed
      <4> QED  BY <1>1, <1>2, <3>2, <4>1 DEF KeysInv
    <3> QED  BY <2>1, <3>1, <3>2
  <2>5. \A k \in 1 .. Len(topic') : topic'[k].key <= Len(topic')
    BY <1>1, <1>2, <2>3, <2>4 DEF KeysInv
  <2>6. \A r \in stored : r.key <= Len(topic')
    BY <1>1, <1>3, <2>3 DEF KeysInv
  <2>7. ASSUME NEW r \in stored \ (inbox \cup done)
        PROVE  m.key # r.key
    <3>1. CASE m.key = NewKey
      BY <1>1, <1>3, <3>1 DEF NewKey, KeysInv
    <3>2. CASE topic # << >> /\ m.key = topic[Len(topic)].key
      BY <3>2 DEF KeysInv
    <3> QED  BY <2>1, <3>1, <3>2
  <2>8. ASSUME NEW r \in stored \ (inbox \cup done),
               NEW k \in (offset + 1 .. Len(topic')) \cup {Len(topic')}
        PROVE  topic'[k].key # r.key
    <3>1. CASE k = Len(topic) + 1
      BY <2>3, <2>7, <3>1
    <3>2. CASE k # Len(topic) + 1
      <4>1. k \in offset + 1 .. Len(topic) /\ k \in 1 .. Len(topic)
        BY <1>1, <2>3, <3>2
      <4> QED  BY <2>3, <4>1 DEF KeysInv
    <3> QED  BY <3>1, <3>2
  <2> QED  BY <2>2, <2>5, <2>6, <2>8 DEF KeysInv
<1>5. CASE AddRecord
  <2>1. /\ NewRecord.key = Current.key /\ Current.key <= Len(topic)
        /\ \A r \in stored : r.key # NewRecord.key
        /\ stored' = stored \cup {NewRecord}
        /\ inbox' = inbox \cup {NewRecord} /\ done' = done
        /\ UNCHANGED <<topic, offset>>
    BY <1>5, AddRecordAdds
  <2> QED  BY <2>1 DEF KeysInv
<1>6. CASE ConsumerOnly
  <2>1. UNCHANGED <<topic, inboxVars>> /\ offset' >= offset /\ offset' \in Nat
    BY <1>6, ConsumerOnlyFrame DEF Typed
  <2>2. offset' + 1 .. Len(topic) \subseteq offset + 1 .. Len(topic)
    BY <1>1, <2>1
  <2> QED  BY <2>1, <2>2 DEF KeysInv
<1>7. CASE CleanInbox
  <2>1. PICK S \in SUBSET Old : done' = done \ S
    BY <1>7 DEF CleanInbox
  <2>2. UNCHANGED <<topic, offset, stored, inbox>>
    BY <1>7 DEF CleanInbox
  <2>3. \A r \in S : \A k \in (offset + 1 .. Len(topic)) \cup {Len(topic)} : topic[k].key # r.key
    BY DEF Old
  <2>4. \A r \in stored \ (inbox' \cup done') : r \in stored \ (inbox \cup done) \/ r \in S
    BY <2>1, <2>2
  <2> QED  BY <2>2, <2>3, <2>4 DEF KeysInv
<1>8. ASSUME NEW j \in Jobs, Ends(j) PROVE KeysInv'
  <2>1. UNCHANGED <<topic, offset, stored>>
    BY <1>8 DEF Ends, MarkProcessed, Deadlock, Rollback
  <2>2. inbox' \cup done' = inbox \cup done
    BY <1>8 DEF Ends, MarkProcessed, Deadlock, Rollback, Targets
  <2> QED  BY <2>1, <2>2 DEF KeysInv
<1>9. CASE UNCHANGED <<topic, offset, stored, inbox, done>>
  BY <1>9 DEF KeysInv
<1> QED
  BY <1>4, <1>5, <1>6, <1>7, <1>8, <1>9, StepKinds
  DEF Restart, FetchPending, SendMessage, SendFails, StartMark, MarkWaits, TxFails, vars

LEMMA TypedInit == Init => Typed /\ KeysInv
<1> SUFFICES ASSUME Init PROVE Typed /\ KeysInv
  OBVIOUS
<1>1. Typed
  BY IdleTyped, BotDeliveryAssumption DEF Init, Typed, BotDeliveryAssumption
<1>2. KeysInv
  BY DEF Init, KeysInv
<1> QED  BY <1>1, <1>2

(* The tables are typed, and no key is stored twice, although processed    *)
(* rows are deleted and messages come again.                               *)
LEMMA KeysCorrect == Spec => [](Typed /\ KeysInv)
<1>1. Typed /\ KeysInv /\ [Next]_vars => (Typed /\ KeysInv)'
  BY TypedStep, KeysStep
<1> QED  BY <1>1, TypedInit, PTL DEF Spec

----------------------------------------------------------------------------
(* The relay runs. *)

(* A run whose transaction lives holds its rows, and they are pending; a   *)
(* run that marks has done its sends, and marks its own rows and only rows *)
(* with the same shot.                                                     *)
RunOK(t) ==
  /\ t.rows \subseteq stored
  /\ t.todo \subseteq Sends(t.rows)
  /\ ~t.doomed => t.rows \subseteq inbox /\ t.rows \subseteq t.locked
  /\ t.doomed => t.pc = "send"
  /\ t.pc = "idle" => t.rows = {} /\ t.todo = {}
  /\ t.pc = "mark" => /\ t.todo = {} /\ t.rows \subseteq t.targets
                      /\ \A q \in t.targets : \E r \in t.rows : r.shot = q.shot

RunsInv ==
  /\ \A j \in Jobs : RunOK(run[j])
  /\ \A j, k \in Jobs : j # k => run[j].locked \cap run[k].locked = {}

LEMMA IdleOK == RunOK(Idle) /\ Idle.locked = {} /\ ~Idle.doomed /\ Idle.todo = {} /\ Idle.rows = {}
  BY DEF Idle, RunOK

(* One run moves, the tables stay. *)
LEMMA RunsFrame ==
  ASSUME Typed, RunsInv, UNCHANGED inboxVars,
         NEW j \in Jobs, NEW t \in Run, Becomes(j, t), RunOK(t),
         t.locked \cap LockedByOthers(j) = {}
  PROVE  RunsInv'
<1>1. /\ run'[j] = t /\ \A k \in Jobs \ {j} : run'[k] = run[k]
      /\ stored' = stored /\ inbox' = inbox
  BY DEF Becomes, inboxVars
<1>2. ASSUME NEW k \in Jobs PROVE RunOK(run[k])'
  <2>1. CASE k = j
    BY <1>1, <2>1 DEF RunOK
  <2>2. CASE k # j
    BY <1>1, <2>2 DEF RunOK, RunsInv
  <2> QED  BY <2>1, <2>2
<1>3. \A k \in Jobs \ {j} : t.locked \cap run[k].locked = {}
  BY DEF LockedByOthers
<1> QED  BY <1>1, <1>2, <1>3 DEF RunsInv

LEMMA OwnLocks ==
  ASSUME RunsInv, NEW j \in Jobs
  PROVE  run[j].locked \cap LockedByOthers(j) = {}
  BY DEF RunsInv, LockedByOthers

LEMMA RunsStep == Typed /\ KeysInv /\ RunsInv /\ [Next]_vars => RunsInv'
<1> SUFFICES ASSUME Typed, KeysInv, RunsInv, [Next]_vars PROVE RunsInv'
  OBVIOUS
<1>1. ASSUME UNCHANGED run, stored \subseteq stored', inbox \subseteq inbox'
      PROVE  RunsInv'
  BY <1>1 DEF RunsInv, RunOK
<1>2. CASE Producer \/ AddRecord \/ ConsumerOnly \/ CleanInbox \/ UNCHANGED vars
  <2>1. CASE AddRecord
    BY <1>1, <2>1, AddRecordAdds DEF relayVars
  <2>2. CASE Producer \/ ConsumerOnly
    BY <1>1, <2>2, ProducerWrites, ConsumerOnlyFrame DEF relayVars, inboxVars
  <2>3. CASE CleanInbox \/ UNCHANGED vars
    BY <1>1, <2>3 DEF CleanInbox, vars, relayVars, inboxVars
  <2> QED  BY <1>2, <2>1, <2>2, <2>3
<1>3. CASE Restart
  <2>1. \A k \in Jobs : run'[k] = Idle
    BY <1>3 DEF Restart
  <2> QED  BY <2>1, IdleOK DEF RunsInv, RunOK
<1>4. ASSUME NEW j \in Jobs, FetchPending(j) PROVE RunsInv'
  <2>1. PICK S \in SUBSET Free(j), t \in Run :
          /\ Becomes(j, t)
          /\ t.pc = "send" /\ t.rows = S /\ t.todo = Sends(S)
          /\ t.locked = S /\ ~t.doomed
    BY <1>4, FetchRun
  <2>2. RunOK(t)
    BY <2>1 DEF RunOK, Free, Typed
  <2>3. t.locked \cap LockedByOthers(j) = {}
    BY <2>1 DEF Free
  <2> QED  BY <1>4, <2>1, <2>2, <2>3, RunsFrame DEF FetchPending
<1>5. ASSUME NEW j \in Jobs, NEW x, SendMessage(j, x) \/ SendFails(j, x) PROVE RunsInv'
  <2>1. PICK t \in Run :
          /\ Becomes(j, t)
          /\ t.pc = run[j].pc /\ t.rows = run[j].rows /\ t.todo \subseteq run[j].todo
          /\ t.locked = run[j].locked /\ t.targets = run[j].targets
          /\ t.doomed = run[j].doomed
    BY <1>5, SendRun, SendFailsRun
  <2>2. RunOK(t)
    BY <2>1 DEF RunsInv, RunOK
  <2>3. UNCHANGED inboxVars
    BY <1>5 DEF SendMessage, SendFails
  <2> QED  BY <2>1, <2>2, <2>3, OwnLocks, RunsFrame
<1>6. ASSUME NEW j \in Jobs, StartMark(j) PROVE RunsInv'
  <2>1. PICK t \in Run :
          /\ Becomes(j, t)
          /\ t.pc = "mark" /\ t.rows = run[j].rows /\ t.todo = {}
          /\ t.locked = run[j].locked /\ t.targets = SameShot(j)
          /\ ~t.doomed
    BY <1>6, StartMarkRun
  <2>2. ~run[j].doomed /\ run[j].rows \subseteq inbox /\ run[j].rows \subseteq run[j].locked
    BY <1>6, StartMarkRun DEF RunsInv, RunOK
  <2>3. run[j].rows \subseteq SameShot(j)
    BY <2>2 DEF SameShot
  <2>4. \A q \in SameShot(j) : \E r \in run[j].rows : r.shot = q.shot
    BY DEF SameShot
  <2>5. RunOK(t)
    BY <2>1, <2>2, <2>3, <2>4 DEF RunOK, Typed
  <2> QED  BY <1>6, <2>1, <2>5, OwnLocks, RunsFrame DEF StartMark
<1>7. ASSUME NEW j \in Jobs, MarkWaits(j) PROVE RunsInv'
  <2>1. PICK r \in inbox \cup done, t \in Run :
           /\ r \notin LockedByOthers(j)
           /\ Becomes(j, t)
           /\ t.pc = run[j].pc /\ t.rows = run[j].rows /\ t.todo = run[j].todo
           /\ t.locked = run[j].locked \cup {r} /\ t.targets = run[j].targets
           /\ t.doomed = run[j].doomed
    BY <1>7, MarkWaitsRun
  <2>2. RunOK(t)
    BY <2>1 DEF RunsInv, RunOK
  <2>3. t.locked \cap LockedByOthers(j) = {}
    BY <2>1, OwnLocks
  <2> QED  BY <1>7, <2>1, <2>2, <2>3, RunsFrame DEF MarkWaits
<1>8. ASSUME NEW j \in Jobs, TxFails(j) PROVE RunsInv'
  <2>1. PICK t \in Run :
          /\ Becomes(j, t)
          /\ t.pc = "send" /\ t.rows = run[j].rows /\ t.todo = run[j].todo
          /\ t.locked = {} /\ t.targets = run[j].targets
          /\ t.doomed
    BY <1>8, TxFailsRun
  <2>2. RunOK(t)
    BY <2>1 DEF RunsInv, RunOK
  <2> QED  BY <1>8, <2>1, <2>2, RunsFrame DEF TxFails
<1>9. ASSUME NEW j \in Jobs, Ends(j) PROVE RunsInv'
  <2>1. Becomes(j, Idle)
    BY <1>9, EndsRun
  <2>2. CASE Deadlock(j) \/ Rollback(j)
    BY <2>1, <2>2, IdleOK, IdleTyped, RunsFrame DEF Deadlock, Rollback
  <2>3. CASE MarkProcessed(j)
    <3>1. /\ stored' = stored /\ inbox' = inbox \ Targets(j)
          /\ Targets(j) \cap LockedByOthers(j) = {}
      BY <2>3 DEF MarkProcessed
    <3>2. ASSUME NEW k \in Jobs \ {j}, ~run[k].doomed
          PROVE  run[k].rows \subseteq inbox'
      BY <3>1, <3>2 DEF LockedByOthers, RunsInv, RunOK
    <3>3. run'[j] = Idle /\ \A k \in Jobs \ {j} : run'[k] = run[k]
      BY <2>1 DEF Becomes
    <3>4. ASSUME NEW k \in Jobs PROVE RunOK(run[k])'
      <4>1. CASE k = j
        BY <3>3, <4>1, IdleOK DEF RunOK
      <4>2. CASE k # j
        BY <3>1, <3>2, <3>3, <4>2 DEF RunsInv, RunOK
      <4> QED  BY <4>1, <4>2
    <3> QED  BY <3>3, <3>4, IdleOK DEF RunsInv
  <2> QED  BY <1>9, <2>2, <2>3 DEF Ends
<1> QED  BY <1>2, <1>3, <1>4, <1>5, <1>6, <1>7, <1>8, <1>9, StepKinds

(* Rows are held once, and marked with their kind. *)
LEMMA RunsCorrect == Spec => []RunsInv
<1>1. Init => RunsInv
  BY IdleOK DEF Init, RunsInv
<1> QED  BY <1>1, RunsStep, KeysCorrect, PTL DEF Spec

----------------------------------------------------------------------------
(* What was not sent. *)

(* A live run has passed over a chat of its row only when it sent it, or   *)
(* when a send of this row failed.                                         *)
PassedInv ==
  \A j \in Jobs : \A r \in run[j].rows, c \in Chats :
    ~run[j].doomed /\ c \in r.chats =>
      \/ <<r, c>> \in run[j].todo
      \/ notified[<<r.key, c>>] > 0
      \/ r \in broken

(* Counts and broken rows are only added. *)
LEMMA NotifiedGrows ==
  ASSUME Typed, [Next]_vars
  PROVE  /\ \A x \in Keys \X Chats :
              notified[x] \in Nat /\ notified'[x] \in Nat /\ notified'[x] >= notified[x]
         /\ broken \subseteq broken'
<1>1. notified \in [Keys \X Chats -> Nat]
  BY DEF Typed
<1>2. ASSUME NEW j \in Jobs, NEW x, SendMessage(j, x) \/ SendFails(j, x)
      PROVE  /\ \A y \in Keys \X Chats : notified'[y] \in Nat /\ notified'[y] >= notified[y]
             /\ broken \subseteq broken'
  <2>1. broken \subseteq broken'
    BY <1>2 DEF SendMessage, SendFails
  <2>2. ASSUME NEW y \in Keys \X Chats
        PROVE  notified'[y] \in Nat /\ notified'[y] >= notified[y]
    <3>1. notified[y] \in Nat
      BY <1>1
    <3>2. notified'[y] = notified[y] \/ notified'[y] = notified[y] + 1
      BY <1>2, SendNotifies
    <3> QED  BY <3>1, <3>2
  <2> QED  BY <2>1, <2>2
<1>3. CASE UNCHANGED <<notified, broken>>
  BY <1>1, <1>3
<1>4. \/ UNCHANGED <<notified, broken>>
      \/ \E j \in Jobs : \E x : SendMessage(j, x) \/ SendFails(j, x)
  BY StepKinds, ProducerWrites, AddRecordFrame, ConsumerOnlyFrame
  DEF CleanInbox, Restart, FetchPending, StartMark, MarkWaits, TxFails, Ends,
      MarkProcessed, Deadlock, Rollback, relayVars, vars
<1> QED  BY <1>1, <1>2, <1>3, <1>4

LEMMA PassedStep ==
  Typed /\ RunsInv /\ PassedInv /\ [Next]_vars => PassedInv'
<1> SUFFICES ASSUME Typed, RunsInv, PassedInv, [Next]_vars,
                    NEW k \in Jobs, NEW r \in run'[k].rows, NEW c \in Chats,
                    ~run'[k].doomed, c \in r.chats
             PROVE  \/ <<r, c>> \in run'[k].todo
                    \/ notified'[<<r.key, c>>] > 0
                    \/ r \in broken'
  BY DEF PassedInv
<1>0. ASSUME k \in Jobs, r \in run[k].rows, ~run[k].doomed,
             <<r, c>> \in run[k].todo => <<r, c>> \in run'[k].todo
      PROVE  \/ <<r, c>> \in run'[k].todo
             \/ notified'[<<r.key, c>>] > 0
             \/ r \in broken'
  <2>1. r \in Record
    BY <1>0 DEF RunsInv, RunOK, Typed
  <2>2. <<r.key, c>> \in Keys \X Chats
    BY <2>1 DEF Record
  <2>3. notified[<<r.key, c>>] > 0 => notified'[<<r.key, c>>] > 0
    BY <2>2, NotifiedGrows
  <2> QED  BY <1>0, <2>3, NotifiedGrows DEF PassedInv
<1>1. CASE run' = run
  BY <1>0, <1>1
<1>2. CASE Restart
  BY <1>2, IdleOK DEF Restart
<1>3. ASSUME NEW j \in Jobs, FetchPending(j)
      PROVE  \/ <<r, c>> \in run'[k].todo
             \/ notified'[<<r.key, c>>] > 0
             \/ r \in broken'
  <2>1. PICK S \in SUBSET Free(j), t \in Run :
          Becomes(j, t) /\ t.rows = S /\ t.todo = Sends(S)
    BY <1>3, FetchRun
  <2>2. CASE k = j
    BY <2>1, <2>2 DEF Becomes, Sends
  <2>3. CASE k # j
    BY <1>0, <2>1, <2>3 DEF Becomes
  <2> QED  BY <2>2, <2>3
<1>4. ASSUME NEW j \in Jobs, NEW x, SendMessage(j, x) \/ SendFails(j, x)
      PROVE  \/ <<r, c>> \in run'[k].todo
             \/ notified'[<<r.key, c>>] > 0
             \/ r \in broken'
  <2>1. PICK t \in Run : /\ Becomes(j, t) /\ t.rows = run[j].rows
                         /\ t.doomed = run[j].doomed
                         /\ SendMessage(j, x) => t.todo = run[j].todo \ {x}
                         /\ SendFails(j, x) => t.todo = {y \in run[j].todo : y[1] # x[1]}
    <3>1. CASE SendMessage(j, x)
      <4>1. ~SendFails(j, x)
        BY <3>1, FailCounts DEF SendMessage, SendFails, Typed
      <4> QED  BY <3>1, <4>1, SendRun
    <3>2. CASE SendFails(j, x)
      <4>1. ~SendMessage(j, x)
        BY <3>2, FailCounts DEF SendMessage, SendFails, Typed
      <4> QED  BY <3>2, <4>1, SendFailsRun
    <3> QED  BY <1>4, <3>1, <3>2
  <2>2. CASE k # j
    BY <1>0, <2>1, <2>2 DEF Becomes
  <2>3. CASE k = j /\ SendMessage(j, x)
    <3>1. CASE x = <<r, c>>
      <4>1. <<r.key, c>> \in Keys \X Chats
        BY <1>4, <3>1, SendNotifies
      <4>2. notified'[<<r.key, c>>] = notified[<<r.key, c>>] + 1
        BY <2>3, <3>1, SendNotifies
      <4> QED  BY <4>1, <4>2 DEF Typed
    <3>2. CASE x # <<r, c>>
      BY <1>0, <2>1, <2>3, <3>2 DEF Becomes
    <3> QED  BY <3>1, <3>2
  <2>4. CASE k = j /\ SendFails(j, x)
    <3>1. CASE x[1] = r
      BY <2>4, <3>1 DEF SendFails
    <3>2. CASE x[1] # r
      BY <1>0, <2>1, <2>4, <3>2 DEF Becomes
    <3> QED  BY <3>1, <3>2
  <2> QED  BY <1>4, <2>2, <2>3, <2>4
<1>5. ASSUME NEW j \in Jobs, StartMark(j) \/ MarkWaits(j)
      PROVE  \/ <<r, c>> \in run'[k].todo
             \/ notified'[<<r.key, c>>] > 0
             \/ r \in broken'
  <2>1. PICK t \in Run : /\ Becomes(j, t) /\ t.rows = run[j].rows
                         /\ run[j].doomed => t.doomed
                         /\ t.todo = run[j].todo
    <3>1. CASE StartMark(j)
      BY <3>1, StartMarkRun
    <3>2. CASE MarkWaits(j)
      BY <3>2, MarkWaitsRun
    <3> QED  BY <1>5, <3>1, <3>2
  <2> QED  BY <1>0, <2>1 DEF Becomes
<1>6. ASSUME NEW j \in Jobs, TxFails(j)
      PROVE  \/ <<r, c>> \in run'[k].todo
             \/ notified'[<<r.key, c>>] > 0
             \/ r \in broken'
  <2>1. PICK t \in Run : Becomes(j, t) /\ t.doomed
    BY <1>6, TxFailsRun
  <2> QED  BY <1>0, <2>1 DEF Becomes
<1>7. ASSUME NEW j \in Jobs, Ends(j)
      PROVE  \/ <<r, c>> \in run'[k].todo
             \/ notified'[<<r.key, c>>] > 0
             \/ r \in broken'
  <2>1. Becomes(j, Idle)
    BY <1>7, EndsRun
  <2> QED  BY <1>0, <2>1, IdleOK DEF Becomes
<1> QED
  BY <1>1, <1>2, <1>3, <1>4, <1>5, <1>6, <1>7, StepKinds, ProducerWrites,
     AddRecordFrame, ConsumerOnlyFrame
  DEF CleanInbox, relayVars, vars

(* A row leaves the pending ones only when a run marks it. *)
LEMMA LeavesInbox ==
  ASSUME Typed, KeysInv, [Next]_vars
  PROVE  /\ stored \subseteq stored'
         /\ \A r \in stored' \ inbox' :
              \/ r \in stored \ inbox
              \/ \E j \in Jobs : MarkProcessed(j) /\ r \in Targets(j) /\ r \in stored
<1>1. CASE AddRecord
  <2>1. stored' = stored \cup {NewRecord} /\ inbox' = inbox \cup {NewRecord}
    BY <1>1, AddRecordAdds
  <2> QED  BY <2>1
<1>2. ASSUME NEW j \in Jobs, MarkProcessed(j)
      PROVE  /\ stored \subseteq stored'
             /\ \A r \in stored' \ inbox' : r \in stored \ inbox \/ (r \in Targets(j) /\ r \in stored)
  BY <1>2 DEF MarkProcessed
<1>3. CASE UNCHANGED <<stored, inbox>>
  BY <1>3
<1>4. \/ AddRecord \/ UNCHANGED <<stored, inbox>>
      \/ \E j \in Jobs : MarkProcessed(j)
  BY StepKinds, ProducerWrites, ConsumerOnlyFrame
  DEF CleanInbox, Restart, FetchPending, SendMessage, SendFails, StartMark, MarkWaits,
      TxFails, Ends, Deadlock, Rollback, inboxVars, vars
<1> QED  BY <1>1, <1>2, <1>3, <1>4

(* No row becomes pending again. *)
LEMMA StaysOut ==
  ASSUME Typed, KeysInv, [Next]_vars, NEW q \in stored \ inbox
  PROVE  q \notin inbox'
<1>1. CASE AddRecord
  BY <1>1, AddRecordAdds
<1>2. inbox' \subseteq inbox \/ AddRecord
  BY StepKinds, ProducerWrites, ConsumerOnlyFrame
  DEF CleanInbox, Restart, FetchPending, SendMessage, SendFails, StartMark, MarkWaits,
      TxFails, Ends, MarkProcessed, Deadlock, Rollback, inboxVars, vars
<1> QED  BY <1>1, <1>2

LEMMA CauseStep ==
  Typed /\ KeysInv /\ RunsInv /\ PassedInv /\ UnnotifiedHasCause /\ [Next]_vars
    => UnnotifiedHasCause'
<1> SUFFICES ASSUME Typed, KeysInv, RunsInv, PassedInv, UnnotifiedHasCause, [Next]_vars,
                    NEW r \in stored' \ inbox'
             PROVE  \E q \in stored' \ inbox' : q.shot = r.shot /\ Finished(q)'
  BY DEF UnnotifiedHasCause
<1>1. \E q \in stored : q \notin inbox' /\ q.shot = r.shot /\ Finished(q)
  <2>1. CASE r \in stored \ inbox
    <3>1. PICK q \in stored \ inbox : q.shot = r.shot /\ Finished(q)
      BY <2>1 DEF UnnotifiedHasCause
    <3>2. q \notin inbox'
      BY StaysOut
    <3> QED  BY <3>1, <3>2
  <2>2. CASE r \notin stored \ inbox
    <3>1. PICK j \in Jobs : MarkProcessed(j) /\ r \in Targets(j)
      BY <2>2, LeavesInbox
    <3>2. /\ ~run[j].doomed /\ run[j].todo = {} /\ run[j].rows \subseteq inbox
          /\ run[j].rows \subseteq run[j].targets
          /\ \E p \in run[j].rows : p.shot = r.shot
      BY <3>1 DEF MarkProcessed, Targets, RunsInv, RunOK
    <3>3. PICK p \in run[j].rows : p.shot = r.shot
      BY <3>2
    <3>4. Finished(p)
      <4>1. p.chats \subseteq Chats
        BY <3>2, <3>3 DEF Typed, Record
      <4> QED  BY <3>2, <4>1 DEF PassedInv, Finished
    <3>5. p \in stored /\ p \notin inbox'
      BY <3>1, <3>2 DEF MarkProcessed, Targets, Typed
    <3> QED  BY <3>3, <3>4, <3>5
  <2> QED  BY <2>1, <2>2
<1>2. PICK q \in stored : q \notin inbox' /\ q.shot = r.shot /\ Finished(q)
  BY <1>1
<1>3. Finished(q)'
  <2>1. \A c \in q.chats : <<q.key, c>> \in Keys \X Chats
    BY DEF Typed, Record
  <2> QED  BY <1>2, <2>1, NotifiedGrows DEF Finished
<1> QED  BY <1>2, <1>3, LeavesInbox

LEMMA PassedHolds == Spec => []PassedInv
<1>1. Init => PassedInv
  BY IdleOK DEF Init, PassedInv
<1> QED  BY <1>1, PassedStep, KeysCorrect, RunsCorrect, PTL DEF Spec

(* A processed row that has not reached one of its chats had a send fail,  *)
(* or shares its shot with a processed row that was sent in its place:     *)
(* there is no third way to lose a notification, whatever runs overlap,    *)
(* die or deadlock.                                                        *)
THEOREM UnnotifiedRowsHaveCause == Spec => []UnnotifiedHasCause
<1>1. Init => UnnotifiedHasCause
  BY DEF Init, UnnotifiedHasCause
<1> QED
  BY <1>1, CauseStep, KeysCorrect, RunsCorrect, PassedHolds, PTL DEF Spec

----------------------------------------------------------------------------
(* What was sent again. *)

(* The failures that may repeat a notification. *)
Budget == deadlocks + failures["send"] + failures["tx"] + failures["crash"]

(* Runs with a lost transaction that will still send row r to chat c.      *)
DoomedSends(r, c) == {j \in Jobs : run[j].doomed /\ <<r, c>> \in run[j].todo}

(* Notifications of c about r, with those that cannot be stopped.          *)
Copies(r, c) == notified[<<r.key, c>>] + Cardinality(DoomedSends(r, c))

(* A live run has sent r to c, or will not: its commit settles the row.    *)
Passed(r, c) == \E j \in Jobs : /\ ~run[j].doomed
                                /\ r \in run[j].rows
                                /\ <<r, c>> \notin run[j].todo

(* A failure has paid for every copy but one, and for this one too while   *)
(* the row is pending and no live run has passed it.                       *)
CopyOK(r, c) == /\ Copies(r, c) <= 1 + Budget
                /\ r \in inbox /\ ~Passed(r, c) => Copies(r, c) <= Budget

PaidInv ==
  /\ \A r \in stored, c \in Chats : CopyOK(r, c)
  /\ \A x \in Keys \X Chats : (\A r \in stored : r.key # x[1]) => notified[x] = 0

LEMMA BudgetTyped ==
  ASSUME Typed
  PROVE  Budget \in Nat
  BY DEF Typed, Budget, FaultKinds

LEMMA DoomedFinite ==
  ASSUME NEW r, NEW c
  PROVE  IsFiniteSet(DoomedSends(r, c)) /\ Cardinality(DoomedSends(r, c)) \in Nat
<1>1. DoomedSends(r, c) \in SUBSET Jobs
  BY DEF DoomedSends
<1> QED  BY <1>1, FS_Subset, FS_CardinalityType, BotDeliveryAssumption DEF BotDeliveryAssumption

LEMMA CopiesTyped ==
  ASSUME Typed, NEW r \in stored, NEW c \in Chats
  PROVE  /\ <<r.key, c>> \in Keys \X Chats /\ notified[<<r.key, c>>] \in Nat
         /\ Copies(r, c) \in Nat
<1>1. <<r.key, c>> \in Keys \X Chats
  BY DEF Typed, Record
<1>2. notified[<<r.key, c>>] \in Nat
  BY <1>1 DEF Typed
<1> QED  BY <1>1, <1>2, DoomedFinite DEF Copies

(* What the move of a run does to the copies that cannot be stopped. *)
LEMMA DoomedStep ==
  ASSUME Typed, NEW j \in Jobs, NEW t \in Run, Becomes(j, t), NEW r, NEW c
  PROVE  LET before == run[j].doomed /\ <<r, c>> \in run[j].todo
             after  == t.doomed /\ <<r, c>> \in t.todo
             n  == Cardinality(DoomedSends(r, c))
         IN  /\ before /\ after => n' = n
             /\ ~before /\ ~after => n' = n
             /\ ~before /\ after => n' = n + 1
             /\ before /\ ~after => n' = n - 1
<1> DEFINE before == run[j].doomed /\ <<r, c>> \in run[j].todo
           after  == t.doomed /\ <<r, c>> \in t.todo
           D == DoomedSends(r, c)
<1>1. run'[j] = t /\ \A k \in Jobs \ {j} : run'[k] = run[k]
  BY DEF Becomes
<1>2. (j \in D <=> before) /\ (j \in D' <=> after)
  BY <1>1 DEF DoomedSends
<1>3. \A k : k # j => (k \in D' <=> k \in D)
  BY <1>1 DEF DoomedSends
<1>4. IsFiniteSet(D)
  BY DoomedFinite
<1> HIDE DEF D, before, after
<1>5. CASE before <=> after
  <2>1. D' = D
    BY <1>2, <1>3, <1>5
  <2> QED  BY <1>5, <2>1 DEF D, before, after
<1>6. CASE ~before /\ after
  <2>1. D' = D \cup {j} /\ j \notin D
    BY <1>2, <1>3, <1>6
  <2>2. Cardinality(D') = Cardinality(D) + 1
    BY <1>4, <2>1, FS_AddElement
  <2> QED  BY <1>6, <2>2 DEF D, before, after
<1>7. CASE before /\ ~after
  <2>1. D' = D \ {j} /\ j \in D
    BY <1>2, <1>3, <1>7
  <2>2. Cardinality(D') = Cardinality(D) - 1
    BY <1>4, <2>1, FS_RemoveElement
  <2> QED  BY <1>7, <2>2 DEF D, before, after
<1> QED  BY <1>5, <1>6, <1>7

(* A failure of the relay is paid in, others change nothing here. *)
LEMMA BudgetFails ==
  ASSUME Typed, NEW kind, Fail(kind), deadlocks' = deadlocks
  PROVE  /\ kind \in {"send", "tx", "crash"} => Budget' = Budget + 1
         /\ kind \notin {"send", "tx", "crash"} => Budget' = Budget
<1>1. /\ kind \in FaultKinds /\ failures'[kind] = failures[kind] + 1
      /\ \A k \in FaultKinds \ {kind} : failures'[k] = failures[k]
  BY FailCounts
<1>2. /\ deadlocks \in Nat /\ failures["send"] \in Nat
      /\ failures["tx"] \in Nat /\ failures["crash"] \in Nat
  BY DEF Typed, FaultKinds
<1>3. /\ "send" \in FaultKinds /\ "tx" \in FaultKinds /\ "crash" \in FaultKinds
  BY DEF FaultKinds
<1>4. CASE kind = "send"
  BY <1>1, <1>2, <1>3, <1>4 DEF Budget
<1>5. CASE kind = "tx"
  BY <1>1, <1>2, <1>3, <1>5 DEF Budget
<1>6. CASE kind = "crash"
  BY <1>1, <1>2, <1>3, <1>6 DEF Budget
<1>7. CASE kind \notin {"send", "tx", "crash"}
  BY <1>1, <1>2, <1>3, <1>7 DEF Budget
<1> QED  BY <1>4, <1>5, <1>6, <1>7

LEMMA BudgetSame ==
  ASSUME UNCHANGED <<deadlocks, failures>>
  PROVE  Budget' = Budget
  BY DEF Budget

(* Who has passed a row after the move of one run. *)
PassedBy(t, r, c) == ~t.doomed /\ r \in t.rows /\ <<r, c>> \notin t.todo
PassedByOthers(j, r, c) == \E k \in Jobs \ {j} : PassedBy(run[k], r, c)

LEMMA PassedMove ==
  ASSUME NEW j \in Jobs, NEW t, Becomes(j, t), NEW r, NEW c
  PROVE  /\ Passed(r, c) <=> PassedBy(run[j], r, c) \/ PassedByOthers(j, r, c)
         /\ Passed(r, c)' <=> PassedBy(t, r, c) \/ PassedByOthers(j, r, c)
  BY DEF Becomes, Passed, PassedBy, PassedByOthers

(* A move that sends nothing, and dooms no run: what holds of a row before *)
(* holds after it, if the run that has passed it either stays or settles   *)
(* it.                                                                     *)
LEMMA QuietMove ==
  ASSUME Typed, NEW j \in Jobs, NEW t \in Run, Becomes(j, t),
         NEW r \in stored, NEW c \in Chats, CopyOK(r, c),
         notified' = notified, Budget' \in Nat,
         t.doomed /\ <<r, c>> \in t.todo => run[j].doomed /\ <<r, c>> \in run[j].todo,
         \/ /\ Budget' = Budget
            /\ r \in inbox' => r \in inbox /\ (PassedBy(run[j], r, c) => PassedBy(t, r, c))
         \/ Budget' = Budget + 1
  PROVE  CopyOK(r, c)'
<1>1. Cardinality(DoomedSends(r, c))' <= Cardinality(DoomedSends(r, c))
      /\ Cardinality(DoomedSends(r, c))' \in Int
  <2>1. Cardinality(DoomedSends(r, c)) \in Nat
    BY DoomedFinite
  <2> QED  BY <2>1, DoomedStep
<1>2. /\ Copies(r, c)' <= Copies(r, c) /\ Copies(r, c)' \in Int
      /\ Copies(r, c) \in Nat /\ Budget \in Nat
  BY <1>1, CopiesTyped, DoomedFinite, BudgetTyped DEF Copies
<1>3. CASE Budget' = Budget
  BY <1>2, <1>3, PassedMove DEF CopyOK
<1>4. CASE Budget' = Budget + 1
  BY <1>2, <1>4 DEF CopyOK
<1> QED  BY <1>3, <1>4

LEMMA SendCopies ==
  ASSUME Typed, KeysInv, RunsInv, NEW j \in Jobs, NEW x, SendMessage(j, x),
         NEW r \in stored, NEW c \in Chats, CopyOK(r, c)
  PROVE  CopyOK(r, c)'
<1>1. PICK t \in Run :
        /\ Becomes(j, t)
        /\ t.rows = run[j].rows /\ t.todo = run[j].todo \ {x}
        /\ t.doomed = run[j].doomed
  BY SendRun
<1>2. /\ x \in run[j].todo /\ x[1] \in run[j].rows /\ x[1] \in stored
      /\ x = <<x[1], x[2]>>
  BY SendRun DEF RunsInv, RunOK, Sends
<1>3. UNCHANGED <<inbox, deadlocks, failures>> /\ Budget' = Budget /\ Budget \in Nat
  BY BudgetTyped DEF SendMessage, inboxVars, Budget
<1>4. /\ Copies(r, c) \in Nat /\ notified[<<r.key, c>>] \in Nat
      /\ <<r.key, c>> \in Keys \X Chats
      /\ Cardinality(DoomedSends(r, c)) \in Nat
  BY CopiesTyped, DoomedFinite
<1>5. CASE x = <<r, c>>
  <2>1. notified'[<<r.key, c>>] = notified[<<r.key, c>>] + 1
    BY <1>5, SendNotifies
  <2>2. <<r, c>> \in run[j].todo /\ <<r, c>> \notin t.todo
    BY <1>1, <1>2, <1>5
  <2>3. CASE run[j].doomed
    <3>1. Cardinality(DoomedSends(r, c))' = Cardinality(DoomedSends(r, c)) - 1
      BY <1>1, <2>2, <2>3, DoomedStep
    <3>2. Copies(r, c)' = Copies(r, c)
      BY <1>4, <2>1, <3>1 DEF Copies
    <3>3. Passed(r, c)' <=> Passed(r, c)
      BY <1>1, <2>3, PassedMove DEF PassedBy
    <3> QED  BY <1>3, <3>2, <3>3 DEF CopyOK
  <2>4. CASE ~run[j].doomed
    <3>0. ~t.doomed /\ Becomes(j, t)
      BY <1>1, <2>4
    <3>1. Cardinality(DoomedSends(r, c))' = Cardinality(DoomedSends(r, c))
      BY <2>4, <3>0, DoomedStep
    <3>2. Copies(r, c)' = Copies(r, c) + 1
      BY <1>4, <2>1, <3>1 DEF Copies
    <3>3. r \in inbox /\ r \in run[j].locked
      BY <1>2, <1>5, <2>4 DEF RunsInv, RunOK
    <3>4. ASSUME NEW k \in Jobs \ {j} PROVE ~PassedBy(run[k], r, c)
      BY <3>3, <3>4 DEF PassedBy, RunsInv, RunOK
    <3>5. ~Passed(r, c)
      BY <1>1, <2>2, <3>4, PassedMove DEF PassedBy, PassedByOthers
    <3>6. Passed(r, c)'
      BY <1>1, <1>2, <1>5, <2>2, <2>4, PassedMove DEF PassedBy
    <3> QED  BY <1>3, <1>4, <3>2, <3>3, <3>5, <3>6 DEF CopyOK
  <2> QED  BY <2>3, <2>4
<1>6. CASE x # <<r, c>>
  <2>1. <<r.key, c>> # <<x[1].key, x[2]>>
    BY <1>2, <1>6 DEF KeysInv
  <2>2. notified'[<<r.key, c>>] = notified[<<r.key, c>>]
    BY <1>4, <2>1, SendNotifies
  <2>3. <<r, c>> \in t.todo <=> <<r, c>> \in run[j].todo
    BY <1>1, <1>6
  <2>4. Cardinality(DoomedSends(r, c))' = Cardinality(DoomedSends(r, c))
    BY <1>1, <2>3, DoomedStep
  <2>5. Copies(r, c)' = Copies(r, c)
    BY <2>2, <2>4 DEF Copies
  <2>6. Passed(r, c)' <=> Passed(r, c)
    BY <1>1, <2>3, PassedMove DEF PassedBy
  <2> QED  BY <1>3, <2>5, <2>6 DEF CopyOK
<1> QED  BY <1>5, <1>6

LEMMA SendFailsCopies ==
  ASSUME Typed, KeysInv, RunsInv, NEW j \in Jobs, NEW x, SendFails(j, x),
         NEW r \in stored, NEW c \in Chats, CopyOK(r, c)
  PROVE  CopyOK(r, c)'
<1>1. PICK t \in Run :
        /\ Becomes(j, t)
        /\ t.rows = run[j].rows /\ t.todo = {y \in run[j].todo : y[1] # x[1]}
        /\ t.doomed = run[j].doomed
  BY SendFailsRun
<1>2. /\ x \in run[j].todo /\ x[1] \in run[j].rows /\ x[1] \in stored
      /\ x = <<x[1], x[2]>>
  BY SendFailsRun DEF RunsInv, RunOK, Sends
<1>3. UNCHANGED <<inbox, deadlocks>> /\ Budget' = Budget + 1 /\ Budget \in Nat
  BY BudgetTyped, BudgetFails DEF SendFails, inboxVars
<1>4. /\ Copies(r, c) \in Nat /\ notified[<<r.key, c>>] \in Nat
      /\ <<r.key, c>> \in Keys \X Chats
      /\ Cardinality(DoomedSends(r, c)) \in Nat
  BY CopiesTyped, DoomedFinite
<1>5. /\ Cardinality(DoomedSends(r, c))' \in Int
      /\ Cardinality(DoomedSends(r, c))' <= Cardinality(DoomedSends(r, c))
  <2>1. <<r, c>> \in t.todo => <<r, c>> \in run[j].todo
    BY <1>1
  <2> QED  BY <1>1, <1>4, <2>1, DoomedStep
<1>6. CASE x = <<r, c>>
  <2>1. /\ notified'[<<r.key, c>>] \in Int
        /\ notified'[<<r.key, c>>] <= notified[<<r.key, c>>] + 1
    BY <1>4, <1>6, SendNotifies
  <2>2. <<r, c>> \in run[j].todo /\ <<r, c>> \notin t.todo
    BY <1>1, <1>2, <1>6
  <2>3. CASE run[j].doomed
    <3>1. Cardinality(DoomedSends(r, c))' = Cardinality(DoomedSends(r, c)) - 1
      BY <1>1, <2>2, <2>3, DoomedStep
    <3>2. Copies(r, c)' <= Copies(r, c) /\ Copies(r, c)' \in Int
      BY <1>4, <2>1, <3>1 DEF Copies
    <3> QED  BY <1>3, <1>4, <3>2 DEF CopyOK
  <2>4. CASE ~run[j].doomed
    <3>1. Copies(r, c)' <= Copies(r, c) + 1 /\ Copies(r, c)' \in Int
      BY <1>4, <1>5, <2>1 DEF Copies
    <3>2. Passed(r, c)'
      BY <1>1, <1>2, <1>6, <2>2, <2>4, PassedMove DEF PassedBy
    <3> QED  BY <1>3, <1>4, <3>1, <3>2 DEF CopyOK
  <2> QED  BY <2>3, <2>4
<1>7. CASE x # <<r, c>>
  <2>1. <<r.key, c>> # <<x[1].key, x[2]>>
    BY <1>2, <1>7 DEF KeysInv
  <2>2. notified'[<<r.key, c>>] = notified[<<r.key, c>>]
    BY <1>4, <2>1, SendNotifies
  <2>3. Copies(r, c)' <= Copies(r, c) /\ Copies(r, c)' \in Int
    BY <1>4, <1>5, <2>2 DEF Copies
  <2> QED  BY <1>3, <1>4, <2>3 DEF CopyOK
<1> QED  BY <1>6, <1>7

LEMMA TxFailsCopies ==
  ASSUME Typed, KeysInv, RunsInv, NEW j \in Jobs, TxFails(j),
         NEW r \in stored, NEW c \in Chats, CopyOK(r, c)
  PROVE  CopyOK(r, c)'
<1>1. PICK t \in Run : /\ Becomes(j, t) /\ t.rows = run[j].rows
                       /\ t.todo = run[j].todo /\ t.doomed
  BY TxFailsRun
<1>2. ~run[j].doomed
  BY TxFailsRun
<1>3. UNCHANGED <<inbox, notified>> /\ Budget' = Budget + 1 /\ Budget \in Nat
  BY BudgetTyped, BudgetFails DEF TxFails, inboxVars
<1>4. /\ Copies(r, c) \in Nat /\ notified[<<r.key, c>>] \in Nat
      /\ Cardinality(DoomedSends(r, c)) \in Nat
  BY CopiesTyped, DoomedFinite
<1>5. CASE <<r, c>> \in run[j].todo
  <2>1. Cardinality(DoomedSends(r, c))' = Cardinality(DoomedSends(r, c)) + 1
    BY <1>1, <1>2, <1>5, DoomedStep
  <2>2. Copies(r, c)' = Copies(r, c) + 1
    BY <1>3, <1>4, <2>1 DEF Copies
  <2>3. r \in inbox /\ r \in run[j].locked
    BY <1>2, <1>5 DEF RunsInv, RunOK, Sends
  <2>4. ASSUME NEW k \in Jobs \ {j} PROVE ~PassedBy(run[k], r, c)
    BY <2>3, <2>4 DEF PassedBy, RunsInv, RunOK
  <2>5. ~Passed(r, c)
    BY <1>1, <1>5, <2>4, PassedMove DEF PassedBy, PassedByOthers
  <2> QED  BY <1>3, <1>4, <2>2, <2>3, <2>5 DEF CopyOK
<1>6. CASE <<r, c>> \notin run[j].todo
  <2>1. t.doomed /\ <<r, c>> \in t.todo => run[j].doomed /\ <<r, c>> \in run[j].todo
    BY <1>1, <1>6
  <2> QED  BY <1>1, <1>3, <2>1, QuietMove
<1> QED  BY <1>5, <1>6

(* The move of a run that sends nothing. *)
LEMMA QuietCopies ==
  ASSUME Typed, KeysInv, RunsInv, NEW j \in Jobs,
         FetchPending(j) \/ StartMark(j) \/ MarkWaits(j) \/ Ends(j),
         NEW r \in stored, NEW c \in Chats, CopyOK(r, c)
  PROVE  CopyOK(r, c)'
<1>1. notified' = notified /\ failures' = failures
  BY DEF FetchPending, StartMark, MarkWaits, Ends, MarkProcessed, Deadlock, Rollback
<1>2. CASE FetchPending(j)
  <2>1. PICK S \in SUBSET Free(j), t \in Run : Becomes(j, t) /\ ~t.doomed
    BY <1>2, FetchRun
  <2>2. run[j].rows = {}
    BY <1>2 DEF FetchPending, RunsInv, RunOK
  <2>3. inbox' = inbox /\ Budget' = Budget /\ Budget \in Nat
    BY <1>2, BudgetTyped, BudgetSame DEF FetchPending, inboxVars
  <2> QED  BY <1>1, <2>1, <2>2, <2>3, QuietMove DEF PassedBy
<1>3. CASE StartMark(j)
  <2>1. PICK t \in Run : /\ Becomes(j, t) /\ t.rows = run[j].rows
                         /\ t.todo = {} /\ ~t.doomed
    BY <1>3, StartMarkRun
  <2>2. inbox' = inbox /\ Budget' = Budget /\ Budget \in Nat
    BY <1>3, BudgetTyped, BudgetSame DEF StartMark, inboxVars
  <2> QED  BY <1>1, <2>1, <2>2, QuietMove DEF PassedBy
<1>4. CASE MarkWaits(j)
  <2>1. PICK t \in Run : /\ Becomes(j, t) /\ t.rows = run[j].rows
                         /\ t.todo = run[j].todo
                         /\ t.doomed => run[j].doomed
                         /\ run[j].doomed => t.doomed
    BY <1>4, MarkWaitsRun
  <2>2. inbox' = inbox /\ Budget' = Budget /\ Budget \in Nat
    BY <1>4, BudgetTyped, BudgetSame DEF MarkWaits, inboxVars
  <2> QED  BY <1>1, <2>1, <2>2, QuietMove DEF PassedBy
<1>5. CASE Ends(j)
  <2>1. Becomes(j, Idle) /\ Idle \in Run /\ ~Idle.doomed
    BY <1>5, EndsRun, IdleTyped, IdleOK
  <2>2. CASE MarkProcessed(j)
    <3>1. Budget' = Budget /\ Budget \in Nat
      BY <2>2, BudgetTyped, BudgetSame DEF MarkProcessed
    <3>2. inbox' = inbox \ Targets(j) /\ run[j].pc = "mark"
      BY <2>2 DEF MarkProcessed
    <3>3. PassedBy(run[j], r, c) => r \in Targets(j)
      BY <3>2 DEF PassedBy, Targets, RunsInv, RunOK
    <3> QED  BY <1>1, <2>1, <3>1, <3>2, <3>3, QuietMove
  <2>3. CASE Deadlock(j)
    <3>1. Budget' = Budget + 1 /\ Budget' \in Nat
      <4>1. deadlocks' = deadlocks + 1
        BY <2>3 DEF Deadlock
      <4>2. /\ deadlocks \in Nat /\ failures["send"] \in Nat
            /\ failures["tx"] \in Nat /\ failures["crash"] \in Nat
        BY DEF Typed, FaultKinds
      <4> QED  BY <1>1, <4>1, <4>2 DEF Budget
    <3> QED  BY <1>1, <2>1, <3>1, QuietMove
  <2>4. CASE Rollback(j)
    <3>1. Budget' = Budget /\ Budget \in Nat /\ inbox' = inbox /\ run[j].doomed
      BY <2>4, BudgetTyped, BudgetSame DEF Rollback, inboxVars
    <3> QED  BY <1>1, <2>1, <3>1, QuietMove DEF PassedBy
  <2> QED  BY <1>5, <2>2, <2>3, <2>4 DEF Ends
<1> QED  BY <1>2, <1>3, <1>4, <1>5

(* Neither the tables nor the runs change. *)
LEMMA StillPaid ==
  ASSUME Typed, UNCHANGED <<stored, inbox, run, notified>>, Budget' = Budget, PaidInv
  PROVE  PaidInv'
<1>1. ASSUME NEW r \in stored, NEW c \in Chats PROVE CopyOK(r, c)'
  <2>1. DoomedSends(r, c)' = DoomedSends(r, c) /\ (Passed(r, c)' <=> Passed(r, c))
    BY DEF DoomedSends, Passed
  <2>2. Copies(r, c)' = Copies(r, c)
    BY <2>1 DEF Copies
  <2> QED  BY <2>1, <2>2 DEF PaidInv, CopyOK
<1> QED  BY <1>1 DEF PaidInv

LEMMA PaidStep ==
  Typed /\ KeysInv /\ RunsInv /\ PaidInv /\ [Next]_vars => PaidInv'
<1> SUFFICES ASSUME Typed, KeysInv, RunsInv, PaidInv, [Next]_vars PROVE PaidInv'
  OBVIOUS
<1>1. CASE Producer
  <2>1. failures' = failures \/ Fail("resend")
    BY <1>1, ProducerWrites
  <2>2. UNCHANGED <<stored, inbox, run, notified, deadlocks>>
    BY <1>1, ProducerWrites DEF inboxVars, relayVars
  <2>3. Budget' = Budget
    BY <2>1, <2>2, BudgetFails, BudgetSame
  <2> QED  BY <2>2, <2>3, StillPaid
<1>2. CASE ConsumerOnly
  <2>1. failures' = failures \/ \E kind \in {"net", "pg", "kafka"} : Fail(kind)
    BY <1>2, ConsumerOnlyFrame
  <2>2. UNCHANGED <<stored, inbox, run, notified, deadlocks>>
    BY <1>2, ConsumerOnlyFrame DEF inboxVars, relayVars
  <2>3. Budget' = Budget
    BY <2>1, <2>2, BudgetFails, BudgetSame
  <2> QED  BY <2>2, <2>3, StillPaid
<1>3. CASE CleanInbox \/ UNCHANGED vars
  <2>1. UNCHANGED <<stored, inbox, run, notified, deadlocks, failures>>
    BY <1>3 DEF CleanInbox, vars, inboxVars, relayVars
  <2> QED  BY <2>1, BudgetSame, StillPaid
<1>4. CASE AddRecord
  <2>1. PICK new \in Record :
          /\ \A r \in stored : r.key # new.key
          /\ stored' = stored \cup {new}
          /\ inbox' = inbox \cup {new}
    BY <1>4, AddRecordAdds
  <2>2. UNCHANGED <<run, notified, deadlocks, failures>> /\ Budget' = Budget /\ Budget \in Nat
    BY <1>4, AddRecordFrame, BudgetTyped, BudgetSame DEF relayVars
  <2>3. ASSUME NEW r \in stored, NEW c \in Chats PROVE CopyOK(r, c)'
    <3>1. DoomedSends(r, c)' = DoomedSends(r, c) /\ (Passed(r, c)' <=> Passed(r, c))
      BY <2>2 DEF DoomedSends, Passed
    <3>2. Copies(r, c)' = Copies(r, c)
      BY <2>2, <3>1 DEF Copies
    <3>3. r # new
      BY <2>1
    <3> QED  BY <2>1, <2>2, <3>1, <3>2, <3>3 DEF PaidInv, CopyOK
  <2>4. ASSUME NEW c \in Chats PROVE CopyOK(new, c)'
    <3>1. <<new.key, c>> \in Keys \X Chats
      BY <2>1 DEF Record
    <3>2. notified[<<new.key, c>>] = 0
      BY <2>1, <3>1 DEF PaidInv
    <3>3. new \notin stored
      BY <2>1
    <3>4. DoomedSends(new, c)' = {}
      BY <2>2, <3>3 DEF DoomedSends, RunsInv, RunOK, Sends
    <3>5. Copies(new, c)' = 0
      BY <2>2, <3>2, <3>4, FS_EmptySet DEF Copies
    <3> QED  BY <2>2, <3>5 DEF CopyOK
  <2>5. ASSUME NEW x \in Keys \X Chats, \A r \in stored' : r.key # x[1]
        PROVE  notified'[x] = 0
    BY <2>1, <2>2, <2>5 DEF PaidInv
  <2> QED  BY <2>1, <2>3, <2>4, <2>5 DEF PaidInv
<1>5. CASE Restart
  <2>1. /\ UNCHANGED <<stored, notified, deadlocks>> /\ Fail("crash")
        /\ \A k \in Jobs : run'[k] = Idle
    BY <1>5 DEF Restart, inboxVars
  <2>2. Budget' = Budget + 1 /\ Budget \in Nat
    BY <2>1, BudgetFails, BudgetTyped
  <2>3. ASSUME NEW r \in stored, NEW c \in Chats PROVE CopyOK(r, c)'
    <3>1. DoomedSends(r, c)' = {}
      BY <2>1, IdleOK DEF DoomedSends
    <3>2. /\ Copies(r, c) \in Nat /\ notified[<<r.key, c>>] \in Nat
          /\ Cardinality(DoomedSends(r, c)) \in Nat
      BY CopiesTyped, DoomedFinite
    <3>3. Copies(r, c)' = notified[<<r.key, c>>]
      BY <2>1, <3>1, <3>2, FS_EmptySet DEF Copies
    <3>4. Copies(r, c)' <= Copies(r, c) /\ Copies(r, c)' \in Nat
      BY <3>2, <3>3 DEF Copies
    <3> QED  BY <2>2, <3>2, <3>4 DEF PaidInv, CopyOK
  <2> QED  BY <2>1, <2>3 DEF PaidInv
<1>6. ASSUME NEW j \in Jobs, TxFails(j) PROVE PaidInv'
  <2>1. UNCHANGED <<stored, notified>>
    BY <1>6 DEF TxFails, inboxVars
  <2> QED  BY <1>6, <2>1, TxFailsCopies DEF PaidInv
<1>7. ASSUME NEW j \in Jobs, FetchPending(j) \/ StartMark(j) \/ MarkWaits(j) \/ Ends(j)
      PROVE  PaidInv'
  <2>1. UNCHANGED <<stored, notified>>
    BY <1>7 DEF FetchPending, StartMark, MarkWaits, Ends, MarkProcessed, Deadlock,
                Rollback, inboxVars
  <2>2. \A r \in stored, c \in Chats : CopyOK(r, c)'
    BY <1>7, QuietCopies DEF PaidInv
  <2> QED  BY <2>1, <2>2 DEF PaidInv
<1>8. ASSUME NEW j \in Jobs, NEW x, SendMessage(j, x) \/ SendFails(j, x)
      PROVE  PaidInv'
  <2>1. stored' = stored
    BY <1>8 DEF SendMessage, SendFails, inboxVars
  <2>2. \A r \in stored, c \in Chats : CopyOK(r, c)'
    BY <1>8, SendCopies, SendFailsCopies DEF PaidInv
  <2>3. x[1] \in stored
    BY <1>8, SendRun, SendFailsRun DEF RunsInv, RunOK, Sends
  <2>4. ASSUME NEW y \in Keys \X Chats, \A r \in stored : r.key # y[1]
        PROVE  notified'[y] = 0
    <3>1. y # <<x[1].key, x[2]>>
      BY <2>3, <2>4
    <3> QED  BY <1>8, <2>4, <3>1, SendNotifies DEF PaidInv
  <2> QED  BY <2>1, <2>2, <2>4 DEF PaidInv
<1> QED
  BY <1>1, <1>2, <1>3, <1>4, <1>5, <1>6, <1>7, <1>8, StepKinds

LEMMA PaidHolds == Spec => []PaidInv
<1>1. Init => PaidInv
  BY DEF Init, PaidInv
<1> QED  BY <1>1, PaidStep, KeysCorrect, RunsCorrect, PTL DEF Spec

(* Whatever runs of the relay overlap, and however often messages are      *)
(* copied or delivered again: a chat gets a message twice only for a send  *)
(* whose answer was lost, a lost transaction, a deadlock or a restart, one *)
(* copy for each.                                                          *)
THEOREM RepeatsArePaid == Spec => []NotifiedAgainOnlyAfterFailure
<1>1. ASSUME Typed, PaidInv, NEW x \in Keys \X Chats
      PROVE  notified[x] <= 1 + Budget
  <2>1. Budget \in Nat
    BY <1>1, BudgetTyped
  <2>2. CASE \E r \in stored : r.key = x[1]
    <3>1. PICK r \in stored : r.key = x[1]
      BY <2>2
    <3>2. PICK c \in Chats : c = x[2]
      OBVIOUS
    <3>3. x = <<r.key, c>>
      BY <3>1, <3>2
    <3>4. notified[x] \in Nat /\ Cardinality(DoomedSends(r, c)) \in Nat
      BY <1>1, DoomedFinite DEF Typed
    <3>5. notified[x] + Cardinality(DoomedSends(r, c)) <= 1 + Budget
      BY <1>1, <3>3 DEF PaidInv, CopyOK, Copies
    <3> QED  BY <2>1, <3>4, <3>5
  <2>3. CASE \A r \in stored : r.key # x[1]
    BY <1>1, <2>1, <2>3 DEF PaidInv
  <2> QED  BY <2>2, <2>3
<1>2. Typed /\ PaidInv => NotifiedAgainOnlyAfterFailure
  <2> SUFFICES ASSUME Typed, PaidInv, NEW x \in Keys \X Chats
               PROVE  notified[x] <= 1 + deadlocks + failures["send"] + failures["tx"]
                                       + failures["crash"]
    BY DEF NotifiedAgainOnlyAfterFailure
  <2>1. /\ deadlocks \in Nat /\ failures["send"] \in Nat
        /\ failures["tx"] \in Nat /\ failures["crash"] \in Nat
    BY DEF Typed, FaultKinds
  <2>2. notified[x] <= 1 + Budget /\ notified[x] \in Nat
    BY <1>1 DEF Typed
  <2> QED  BY <2>1, <2>2 DEF Budget
<1> QED  BY <1>2, PaidHolds, KeysCorrect, PTL

----------------------------------------------------------------------------
(* What a commit may lose. *)

Accounted(k) == k \in dlq \/ \E r \in stored : r.key = topic[k].key

(* Before a commit: the message is in the table or in the dead-letter      *)
(* topic, or an error that nobody else has paid with was swallowed for it. *)
CommitInv ==
  consumer = "commit" =>
    Accounted(offset + 1) \/ Cardinality(Unaccounted) + 1 <= failures["net"]

LEMMA UnaccountedFinite ==
  ASSUME Typed
  PROVE  IsFiniteSet(Unaccounted) /\ Cardinality(Unaccounted) \in Nat
<1>1. IsFiniteSet(1 .. offset)
  BY FS_Interval DEF Typed
<1>2. Unaccounted \in SUBSET (1 .. offset)
  BY DEF Unaccounted
<1>3. IsFiniteSet(Unaccounted)
  BY <1>1, <1>2, FS_Subset
<1> QED  BY <1>3, FS_CardinalityType

(* Messages, rows, dead letters and failures are only added, and the       *)
(* committed offset is passed only by a commit.                            *)
LEMMA Grows ==
  ASSUME Typed, KeysInv, [Next]_vars
  PROVE  /\ stored \subseteq stored' /\ dlq \subseteq dlq'
         /\ \A k \in 1 .. Len(topic) : topic'[k] = topic[k]
         /\ failures["net"] \in Nat /\ failures'["net"] \in Nat
         /\ failures["net"] <= failures'["net"]
         /\ \/ offset' = offset
            \/ consumer = "commit" /\ offset' = offset + 1 /\ consumer' # "commit"
<1> USE DEF consumerVars, inboxVars, relayVars
<1>1. failures["net"] \in Nat
  BY DEF Typed, FaultKinds
<1>2. failures' = failures \/ \E kind : Fail(kind)
  BY StepKinds, ProducerWrites, AddRecordFrame, ConsumerOnlyFrame
  DEF CleanInbox, Restart, FetchPending, SendMessage, SendFails, StartMark, MarkWaits,
      TxFails, Ends, MarkProcessed, Deadlock, Rollback, vars
<1>3. failures'["net"] \in Nat /\ failures["net"] <= failures'["net"]
  <2>1. "net" \in FaultKinds
    BY DEF FaultKinds
  <2> QED  BY <1>1, <1>2, <2>1, FailCounts
<1>4. stored \subseteq stored'
  BY LeavesInbox
<1>5. \A k \in 1 .. Len(topic) : topic'[k] = topic[k]
  <2>1. CASE Producer
    <3>1. PICK m \in Message : topic' = Append(topic, m)
      BY <2>1, ProducerWrites
    <3> QED  BY <3>1 DEF Typed
  <2>2. ~Producer => topic' = topic
    BY StepKinds, AddRecordFrame, ConsumerOnlyFrame
    DEF CleanInbox, Restart, FetchPending, SendMessage, SendFails, StartMark, MarkWaits,
        TxFails, Ends, MarkProcessed, Deadlock, Rollback, vars
  <2> QED  BY <2>1, <2>2
<1>6. /\ dlq \subseteq dlq'
      /\ \/ offset' = offset
         \/ consumer = "commit" /\ offset' = offset + 1 /\ consumer' # "commit"
  <2>1. CASE ConsumerOnly
    BY <2>1 DEF ConsumerOnly, AddDuplicate, CommitMessages, AddRecordNetError, DeadLetter,
                KafkaFails
  <2>2. ~ConsumerOnly => UNCHANGED <<dlq, offset>>
    BY StepKinds, ProducerWrites, AddRecordFrame
    DEF CleanInbox, Restart, FetchPending, SendMessage, SendFails, StartMark, MarkWaits,
        TxFails, Ends, MarkProcessed, Deadlock, Rollback, vars
  <2> QED  BY <2>1, <2>2
<1> QED  BY <1>1, <1>3, <1>4, <1>5, <1>6

(* While the offset stays, nothing gets lost. *)
LEMMA StillAccounted ==
  ASSUME Typed, KeysInv, [Next]_vars, offset' = offset
  PROVE  /\ Cardinality(Unaccounted') <= Cardinality(Unaccounted)
         /\ Cardinality(Unaccounted') \in Nat
         /\ \A k \in 1 .. Len(topic) : Accounted(k) => Accounted(k)'
<1>1. /\ stored \subseteq stored' /\ dlq \subseteq dlq'
      /\ \A k \in 1 .. Len(topic) : topic'[k] = topic[k]
      /\ 1 .. offset \subseteq 1 .. Len(topic)
  <2>1. 1 .. offset \subseteq 1 .. Len(topic)
    BY DEF Typed
  <2> QED  BY <2>1, Grows
<1>2. Unaccounted' \in SUBSET Unaccounted
  BY <1>1 DEF Unaccounted
<1>3. \A k \in 1 .. Len(topic) : Accounted(k) => Accounted(k)'
  BY <1>1 DEF Accounted
<1>4. IsFiniteSet(Unaccounted') /\ Cardinality(Unaccounted') <= Cardinality(Unaccounted)
  BY <1>2, UnaccountedFinite, FS_Subset
<1> QED  BY <1>3, <1>4, FS_CardinalityType

(* A commit passes one message, and it may be one that is lost. *)
LEMMA CommitPasses ==
  ASSUME Typed, KeysInv, [Next]_vars, offset' = offset + 1
  PROVE  /\ Cardinality(Unaccounted') \in Nat
         /\ Cardinality(Unaccounted') <= Cardinality(Unaccounted) + 1
         /\ Accounted(offset + 1) => Cardinality(Unaccounted') <= Cardinality(Unaccounted)
<1>1. /\ stored \subseteq stored' /\ dlq \subseteq dlq'
      /\ \A k \in 1 .. Len(topic) : topic'[k] = topic[k]
      /\ offset \in Nat /\ Len(topic) \in Nat /\ offset + 1 <= Len(topic)
  BY Grows DEF Typed
<1>2. ASSUME NEW k \in Unaccounted' PROVE k \in Unaccounted \/ k = offset + 1
  BY <1>1, <1>2 DEF Unaccounted
<1>3. Accounted(offset + 1) => offset + 1 \notin Unaccounted'
  BY <1>1 DEF Unaccounted, Accounted
<1>4. /\ IsFiniteSet(Unaccounted \cup {offset + 1})
      /\ Cardinality(Unaccounted \cup {offset + 1}) <= Cardinality(Unaccounted) + 1
      /\ Cardinality(Unaccounted \cup {offset + 1}) \in Nat
  BY UnaccountedFinite, FS_AddElement
<1>5. Unaccounted' \in SUBSET (Unaccounted \cup {offset + 1})
  BY <1>2
<1>6. /\ IsFiniteSet(Unaccounted')
      /\ Cardinality(Unaccounted') <= Cardinality(Unaccounted \cup {offset + 1})
      /\ Cardinality(Unaccounted') \in Nat
  BY <1>4, <1>5, FS_Subset, FS_CardinalityType
<1>7. ASSUME Accounted(offset + 1)
      PROVE  Cardinality(Unaccounted') <= Cardinality(Unaccounted)
  <2>1. Unaccounted' \in SUBSET Unaccounted
    BY <1>2, <1>3, <1>7
  <2> QED  BY <2>1, UnaccountedFinite, FS_Subset
<1> QED  BY <1>4, <1>6, <1>7, UnaccountedFinite

LEMMA CommitStep ==
  /\ Typed /\ KeysInv /\ CommitInv /\ CommittedIsAccounted
  /\ [Next]_vars
  => CommitInv' /\ CommittedIsAccounted'
<1> SUFFICES ASSUME Typed, KeysInv, CommitInv, CommittedIsAccounted, [Next]_vars
             PROVE  CommitInv' /\ CommittedIsAccounted'
  OBVIOUS
<1>1. /\ failures["net"] \in Nat /\ failures'["net"] \in Nat
      /\ failures["net"] <= failures'["net"]
      /\ Cardinality(Unaccounted) \in Nat
      /\ Cardinality(Unaccounted) <= failures["net"]
  BY Grows, UnaccountedFinite DEF CommittedIsAccounted
<1>2. CASE offset' = offset + 1
  <2>1. consumer = "commit" /\ consumer' # "commit"
    BY <1>2, Grows DEF Typed
  <2>2. Cardinality(Unaccounted') \in Nat /\ Cardinality(Unaccounted') <= failures["net"]
    <3>1. CASE Accounted(offset + 1)
      BY <1>1, <1>2, <3>1, CommitPasses
    <3>2. CASE ~Accounted(offset + 1)
      BY <1>1, <1>2, <2>1, <3>2, CommitPasses DEF CommitInv
    <3> QED  BY <3>1, <3>2
  <2> QED  BY <1>1, <2>1, <2>2 DEF CommitInv, CommittedIsAccounted
<1>3. CASE offset' = offset
  <2>1. /\ Cardinality(Unaccounted') <= Cardinality(Unaccounted)
        /\ Cardinality(Unaccounted') \in Nat
        /\ \A k \in 1 .. Len(topic) : Accounted(k) => Accounted(k)'
    BY <1>3, StillAccounted
  <2>2. CommittedIsAccounted'
    BY <1>1, <2>1 DEF CommittedIsAccounted
  <2>3. CASE consumer' # "commit"
    BY <2>2, <2>3 DEF CommitInv
  <2>4. CASE consumer = "commit" /\ consumer' = "commit"
    <3>1. offset + 1 \in 1 .. Len(topic)
      BY <2>4 DEF Typed
    <3> QED  BY <1>1, <1>3, <2>1, <2>2, <2>4, <3>1 DEF CommitInv
  <2>5. CASE AddRecord
    <3>1. /\ NewRecord \in stored' /\ NewRecord.key = Current.key /\ topic' = topic
      BY <2>5, AddRecordAdds
    <3>2. Accounted(offset + 1)'
      BY <1>3, <3>1 DEF Accounted, Current
    <3> QED  BY <2>2, <3>2, <1>3 DEF CommitInv
  <2>6. CASE AddDuplicate
    <3>1. PICK r \in stored : r.key = Current.key
      BY <2>6 DEF AddDuplicate, IsDuplicate, Typed
    <3>2. r \in stored' /\ topic' = topic
      BY <2>6 DEF AddDuplicate, inboxVars
    <3>3. Accounted(offset + 1)'
      BY <1>3, <3>1, <3>2 DEF Accounted, Current
    <3> QED  BY <2>2, <3>3, <1>3 DEF CommitInv
  <2>7. CASE AddRecordNetError
    <3>1. failures'["net"] = failures["net"] + 1
      BY <2>7, FailCounts DEF AddRecordNetError
    <3> QED  BY <1>1, <2>1, <2>2, <3>1 DEF CommitInv
  <2>8. CASE DeadLetter
    <3>1. Accounted(offset + 1)'
      BY <1>3, <2>8 DEF Accounted, DeadLetter
    <3> QED  BY <2>2, <3>1, <1>3 DEF CommitInv
  <2>9. \/ consumer = "commit" \/ consumer' # "commit"
        \/ AddRecord \/ AddDuplicate \/ AddRecordNetError \/ DeadLetter
    BY StepKinds, ProducerWrites
    DEF ConsumerOnly, CommitMessages, KafkaFails, CleanInbox, Restart, FetchPending,
        SendMessage, SendFails, StartMark, MarkWaits, TxFails, Ends, MarkProcessed,
        Deadlock, Rollback, consumerVars, vars
  <2> QED  BY <2>3, <2>4, <2>5, <2>6, <2>7, <2>8, <2>9
<1> QED  BY <1>2, <1>3, Grows

(* Every message behind the committed offset has been stored, or went to   *)
(* the dead-letter topic, but for one message at most for each error of    *)
(* the network that AddRecord answers with nil.                            *)
THEOREM CommittedMessagesAreAccounted == Spec => []CommittedIsAccounted
<1>1. Init => CommitInv /\ CommittedIsAccounted
  <2> SUFFICES ASSUME Init PROVE CommitInv /\ CommittedIsAccounted
    OBVIOUS
  <2>1. Unaccounted = {} /\ failures["net"] = 0
    BY DEF Init, Unaccounted, FaultKinds
  <2> QED  BY <2>1, FS_EmptySet DEF Init, CommitInv, CommittedIsAccounted
<1> QED  BY <1>1, CommitStep, KeysCorrect, PTL DEF Spec

(* Only a message that could not be stored is a dead letter. *)
DeadInv == dlq # {} => failures["pg"] > 0

LEMMA DeadStep == Typed /\ DeadInv /\ [Next]_vars => DeadInv'
<1> SUFFICES ASSUME Typed, DeadInv, [Next]_vars PROVE DeadInv'
  OBVIOUS
<1> USE DEF consumerVars, inboxVars, relayVars
<1>1. failures["pg"] \in Nat /\ "pg" \in FaultKinds
  BY DEF Typed, FaultKinds
<1>2. failures' = failures \/ \E kind : Fail(kind)
  BY StepKinds, ProducerWrites, AddRecordFrame, ConsumerOnlyFrame
  DEF CleanInbox, Restart, FetchPending, SendMessage, SendFails, StartMark, MarkWaits,
      TxFails, Ends, MarkProcessed, Deadlock, Rollback, vars
<1>3. failures'["pg"] \in Nat /\ failures'["pg"] >= failures["pg"]
  BY <1>1, <1>2, FailCounts
<1>4. CASE DeadLetter
  BY <1>1, <1>4, FailCounts DEF DeadLetter, DeadInv
<1>5. CASE dlq' = dlq
  BY <1>1, <1>3, <1>5 DEF DeadInv
<1>6. DeadLetter \/ dlq' = dlq
  BY StepKinds, ProducerWrites, AddRecordFrame
  DEF ConsumerOnly, AddDuplicate, CommitMessages, AddRecordNetError, KafkaFails,
      CleanInbox, Restart, FetchPending, SendMessage, SendFails, StartMark, MarkWaits,
      TxFails, Ends, MarkProcessed, Deadlock, Rollback, vars
<1> QED  BY <1>4, <1>5, <1>6

LEMMA DeadLettersPaid == Spec => []DeadInv
<1>1. Init => DeadInv
  BY DEF Init, DeadInv
<1> QED  BY <1>1, DeadStep, KeysCorrect, PTL DEF Spec

----------------------------------------------------------------------------
(* The rest of TypeOK, but for the bound on the failures. *)
Shaped ==
  /\ Len(topic) <= MaxMessages
  /\ dlq \subseteq 1 .. Len(topic)
  /\ inbox \cap done = {}
  /\ broken \subseteq stored
  /\ deadlocks <= MaxDeadlocks

LEMMA ShapedStep == Typed /\ KeysInv /\ RunsInv /\ Shaped /\ [Next]_vars => Shaped'
<1> SUFFICES ASSUME Typed, KeysInv, RunsInv, Shaped, [Next]_vars PROVE Shaped'
  OBVIOUS
<1> USE DEF consumerVars, inboxVars, relayVars
<1>1. CASE Producer
  <2>1. PICK m \in Message : topic' = Append(topic, m)
    BY <1>1, ProducerWrites
  <2>2. UNCHANGED <<consumerVars, inboxVars, relayVars>> /\ Len(topic) < MaxMessages
    BY <1>1, ProducerWrites DEF Producer, ProcessedUpdate, SentAgain, WrittenTwice, Write
  <2>3. Len(topic') = Len(topic) + 1 /\ Len(topic) \in Nat
    BY <2>1 DEF Typed
  <2> QED  BY <2>2, <2>3, BotDeliveryAssumption DEF Shaped
<1>2. CASE AddRecord
  <2>1. NewRecord \notin stored
    BY <1>2, AddRecordAdds
  <2> QED  BY <1>2, <2>1, AddRecordAdds DEF Shaped, Typed
<1>3. CASE ConsumerOnly
  <2>1. dlq' = dlq \/ (CanFetch /\ dlq' = dlq \cup {offset + 1})
    BY <1>3 DEF ConsumerOnly, AddDuplicate, CommitMessages, AddRecordNetError, DeadLetter,
                KafkaFails
  <2>2. CanFetch => offset + 1 \in 1 .. Len(topic)
    BY DEF CanFetch, Typed
  <2> QED  BY <1>3, <2>1, <2>2, ConsumerOnlyFrame DEF Shaped
<1>4. CASE CleanInbox
  BY <1>4 DEF CleanInbox, Shaped
<1>5. ASSUME NEW j \in Jobs, NEW x, SendFails(j, x) PROVE Shaped'
  <2>1. x \in run[j].todo
    BY <1>5 DEF SendFails, IsNext
  <2>2. x[1] \in stored
    BY <2>1 DEF RunsInv, RunOK, Sends
  <2> QED  BY <1>5, <2>2 DEF SendFails, Shaped
<1>6. ASSUME NEW j \in Jobs, Ends(j) PROVE Shaped'
  <2>1. CASE MarkProcessed(j)
    BY <2>1 DEF MarkProcessed, Shaped
  <2>2. CASE Deadlock(j)
    <3>1. deadlocks < MaxDeadlocks /\ deadlocks' = deadlocks + 1
          /\ UNCHANGED <<topic, dlq, stored, inbox, done, broken>>
      BY <2>2 DEF Deadlock
    <3> QED  BY <3>1, BotDeliveryAssumption DEF Shaped, Typed
  <2>3. CASE Rollback(j)
    BY <2>3 DEF Rollback, Shaped
  <2> QED  BY <1>6, <2>1, <2>2, <2>3 DEF Ends
<1>7. CASE UNCHANGED <<topic, dlq, stored, inbox, done, broken, deadlocks>>
  BY <1>7 DEF Shaped
<1> QED
  BY <1>1, <1>2, <1>3, <1>4, <1>5, <1>6, <1>7, StepKinds
  DEF Restart, FetchPending, SendMessage, StartMark, MarkWaits, TxFails, vars

LEMMA ShapesCorrect == Spec => []Shaped
<1>1. Init => Shaped
  BY BotDeliveryAssumption DEF Init, Shaped
<1> QED  BY <1>1, ShapedStep, KeysCorrect, RunsCorrect, PTL DEF Spec
=============================================================================
