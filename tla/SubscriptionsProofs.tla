------------------------- MODULE SubscriptionsProofs -------------------------
(***************************************************************************)
(* Theorems about Subscriptions, for every value of its constants.         *)
(***************************************************************************)
EXTENDS Subscriptions, TLAPS

(* A request in work has a chat, and a text where its operation needs one. *)
LEMMA ActiveTyped ==
  ASSUME TypeOK, NEW h \in Handlers, req[h].pc # "idle"
  PROVE  /\ req[h] \in Active(WithText, Texts) \cup Active(Ops \ WithText, {NoText})
         /\ req[h].chat \in Chats
         /\ req[h].op \in Ops
         /\ req[h].tags \subseteq Tags
         /\ req[h].seen \subseteq Sub
         /\ req[h].op \in WithText => req[h].text \in Texts
  BY DEF TypeOK, Request, Active, Done, Idle, Ops, WithText, NeedsLink

LEMMA IdleTyped == Idle \in Request
  BY DEF Idle, Request, Outcomes

LEMMA AnswerTyped ==
  ASSUME TypeOK, NEW h \in Handlers, NEW o \in Outcomes, Answer(h, o)
  PROVE  req' \in [Handlers -> Request]
  BY DEF TypeOK, Answer, Request

LEMMA GotoTyped ==
  ASSUME TypeOK, NEW h \in Handlers, req[h].pc # "idle",
         NEW pc \in {"get", "find", "write", "set", "delete"}, Goto(h, pc)
  PROVE  req' \in [Handlers -> Request]
<1>1. [req[h] EXCEPT !.pc = pc] \in Request
  BY ActiveTyped DEF Request, Active
<1> QED  BY <1>1 DEF TypeOK, Goto

LEMMA FailTyped ==
  ASSUME TypeOK, Fail
  PROVE  failures' \in 0 .. MaxFailures
  BY SubscriptionsAssumption DEF TypeOK, Fail, SubscriptionsAssumption

LEMMA TypeStep == TypeOK /\ [Next]_vars => TypeOK'
<1> SUFFICES ASSUME TypeOK, [Next]_vars PROVE TypeOK'
  OBVIOUS
<1> USE DEF tables
<1>a. \A o \in {"none", "ok", "error", "NotFound", "AlreadyExists",
                "LinkNotFound", "LinkAlreadyTracked"} : o \in Outcomes
  BY DEF Outcomes
<1>1. ASSUME NEW h \in Handlers, NEW op \in Ops, NEW c \in Chats,
             NEW text \in Texts \cup {NoText}, NEW tags \in SUBSET Tags,
             Arrive(h, op, c, text, tags)
      PROVE  TypeOK'
  <2> DEFINE r == [Idle EXCEPT !.pc = IF op = "list" THEN "get" ELSE "find",
                     !.op = op, !.chat = c, !.text = text, !.tags = tags]
  <2>1. r \in Request
    BY <1>1 DEF Arrive, Request, Active, Idle, Done
  <2> HIDE DEF r
  <2>2. req' \in [Handlers -> Request]
    BY <1>1, <2>1 DEF Arrive, TypeOK, r
  <2> QED  BY <1>1, <2>2 DEF Arrive, TypeOK
<1>2. ASSUME NEW h \in Handlers, AddClient(h) \/ AddClientUnanswered(h)
      PROVE  TypeOK'
  <2>1. req[h].chat \in Chats
    BY <1>2, ActiveTyped DEF AddClient, AddClientUnanswered, At
  <2>2. req' \in [Handlers -> Request]
    BY <1>2, <1>a, AnswerTyped DEF AddClient, AddClientUnanswered
  <2> QED  BY <1>2, <2>1, <2>2, FailTyped DEF AddClient, AddClientUnanswered, TypeOK
<1>3. ASSUME NEW h \in Handlers, Find(h)
      PROVE  TypeOK'
  <2>1. req[h].pc # "idle"
    BY <1>3 DEF Find, At
  <2> DEFINE known == req[h].op \in WithText /\ Path(req[h].text) \in links
             r == [req[h] EXCEPT !.pc = "write", !.known = known]
  <2>2. r \in Request
    <3>1. known \in BOOLEAN
      OBVIOUS
    <3> HIDE DEF known
    <3> QED  BY <2>1, <3>1, ActiveTyped DEF Request, Active
  <2>3. req' \in [Handlers -> Request]
    <3>1. CASE Answer(h, "NotFound") \/ Answer(h, "LinkNotFound")
      BY <3>1, <1>a, AnswerTyped
    <3>2. CASE req' = [req EXCEPT ![h].pc = "write", ![h].known = known]
      <4>1. req' = [req EXCEPT ![h] = r]
        BY <3>2 DEF TypeOK
      <4> HIDE DEF r, known
      <4> QED  BY <4>1, <2>2 DEF TypeOK
    <3>3. CASE Goto(h, "write")
      BY <3>3, <2>1, GotoTyped
    <3> QED  BY <1>3, <3>1, <3>2, <3>3 DEF Find
  <2> QED  BY <1>3, <2>3 DEF Find, TypeOK
<1>4. ASSUME NEW h \in Handlers, Subscribe(h)
      PROVE  TypeOK'
  <2>1. req[h].pc # "idle" /\ req[h].op \in WithText
    BY <1>4 DEF Subscribe, At, WithText
  <2>2. req[h].chat \in Chats /\ req[h].text \in Texts /\ req[h].tags \subseteq Tags
    BY <2>1, ActiveTyped
  <2>3. Path(req[h].text) \in Links
    BY <2>2 DEF Path, Texts
  <2> DEFINE new == [chat |-> req[h].chat, text |-> req[h].text, tags |-> req[h].tags]
  <2>4. new \in Sub
    BY <2>2 DEF Sub
  <2>5. \A s \in subs : ~(s.chat = new.chat /\ Path(s.text) = Path(new.text))
    BY <1>4 DEF Subscribe, Tracked, View
  <2>6. subs' = subs \cup {new}
    BY <1>4 DEF Subscribe
  <2>7. req' \in [Handlers -> Request]
    BY <1>4, <2>1, GotoTyped DEF Subscribe
  <2> HIDE DEF new
  <2>8. \A s, t \in subs' : (s.chat = t.chat /\ Path(s.text) = Path(t.text)) => s = t
    BY <2>5, <2>6 DEF TypeOK
  <2> QED  BY <1>4, <2>3, <2>4, <2>6, <2>7, <2>8 DEF Subscribe, TypeOK
<1>5. ASSUME NEW h \in Handlers, SubscribeRefused(h)
      PROVE  TypeOK'
  <2>1. req' \in [Handlers -> Request]
    BY <1>5, <1>a, AnswerTyped DEF SubscribeRefused
  <2> QED  BY <1>5, <2>1 DEF SubscribeRefused, TypeOK
<1>6. ASSUME NEW h \in Handlers, UnSubscribe(h)
      PROVE  TypeOK'
  <2>1. req' \in [Handlers -> Request]
    BY <1>6, <1>a, AnswerTyped, GotoTyped DEF UnSubscribe, At
  <2> QED  BY <1>6, <2>1 DEF UnSubscribe, TypeOK
<1>7. ASSUME NEW h \in Handlers, ChangeTags(h)
      PROVE  TypeOK'
  <2>1. req' \in [Handlers -> Request]
    BY <1>7, <1>a, AnswerTyped, GotoTyped DEF ChangeTags, At
  <2>2. req[h].tags \subseteq Tags
    BY <1>7, ActiveTyped DEF ChangeTags, At
  <2>3. \A s \in Retagged(h) : \E t \in Tracked(h) :
           s.chat = t.chat /\ s.text = t.text /\ s \in Sub
    BY <2>2 DEF Retagged, Tracked, View, TypeOK, Sub
  <2>4. \A s, t \in Retagged(h) : s = t
    BY DEF Retagged, Tracked, View, TypeOK
  <2>5. Tracked(h) \subseteq subs
    BY DEF Tracked, View
  <2>6. \A s \in Tracked(h), t \in subs :
          (s.chat = t.chat /\ Path(s.text) = Path(t.text)) => t \in Tracked(h)
    BY DEF Tracked, View
  <2>7. subs' = (subs \ Tracked(h)) \cup Retagged(h)
    BY <1>7 DEF ChangeTags
  <2>8. subs' \subseteq Sub
    BY <2>3, <2>7 DEF TypeOK
  <2>9. \A s, t \in subs' : (s.chat = t.chat /\ Path(s.text) = Path(t.text)) => s = t
    BY <2>3, <2>4, <2>5, <2>6, <2>7 DEF TypeOK
  <2> QED  BY <1>7, <2>1, <2>8, <2>9 DEF ChangeTags, TypeOK
<1>8. ASSUME NEW h \in Handlers, RemoveClient(h)
      PROVE  TypeOK'
  <2>1. req' \in [Handlers -> Request]
    BY <1>8, <1>a, AnswerTyped, GotoTyped DEF RemoveClient, At
  <2> QED  BY <1>8, <2>1 DEF RemoveClient, TypeOK
<1>9. ASSUME NEW h \in Handlers,
             TxFails(h) \/ CommitUnanswered(h) \/ CacheSetFails(h) \/ CacheDeleteFails(h)
      PROVE  TypeOK'
  <2>1. req' \in [Handlers -> Request]
    BY <1>9, <1>a, AnswerTyped
    DEF TxFails, CommitUnanswered, CacheSetFails, CacheDeleteFails
  <2>2. req[h].pc = "delete" => req[h].chat \in Chats
    BY ActiveTyped
  <2> QED  BY <1>9, <2>1, <2>2, FailTyped
           DEF TxFails, CommitUnanswered, CacheSetFails, CacheDeleteFails, TypeOK
<1>10. ASSUME NEW h \in Handlers, CacheHit(h)
       PROVE  TypeOK'
  <2>1. req' \in [Handlers -> Request]
    BY <1>10, <1>a, AnswerTyped DEF CacheHit
  <2> QED  BY <1>10, <2>1 DEF CacheHit, TypeOK
<1>11. ASSUME NEW h \in Handlers, CacheMiss(h) \/ CacheGetFails(h)
       PROVE  TypeOK'
  <2>1. req' \in [Handlers -> Request]
    BY <1>11, GotoTyped DEF CacheMiss, CacheGetFails, At
  <2> QED  BY <1>11, <2>1, FailTyped DEF CacheMiss, CacheGetFails, TypeOK
<1>12. ASSUME NEW h \in Handlers, ReadSubscriptions(h)
       PROVE  TypeOK'
  <2> DEFINE r == [req[h] EXCEPT !.pc = "set", !.seen = View(req[h].chat)]
  <2>1. View(req[h].chat) \subseteq Sub
    BY DEF View, TypeOK
  <2>2. r \in Request
    BY <1>12, <2>1, ActiveTyped DEF ReadSubscriptions, At, Request, Active
  <2>3. req' = [req EXCEPT ![h] = r]
    BY <1>12 DEF ReadSubscriptions, TypeOK
  <2> HIDE DEF r
  <2> QED  BY <1>12, <2>2, <2>3 DEF ReadSubscriptions, TypeOK
<1>13. ASSUME NEW h \in Handlers, CacheSet(h)
       PROVE  TypeOK'
  <2>1. req[h].chat \in Chats /\ req[h].seen \subseteq Sub
    BY <1>13, ActiveTyped DEF CacheSet, At
  <2>2. req' \in [Handlers -> Request]
    BY <1>13, <1>a, AnswerTyped DEF CacheSet
  <2> QED  BY <1>13, <2>1, <2>2 DEF CacheSet, TypeOK
<1>14. ASSUME NEW h \in Handlers, CacheDelete(h)
       PROVE  TypeOK'
  <2>1. req' \in [Handlers -> Request]
    BY <1>14, <1>a, AnswerTyped DEF CacheDelete
  <2> QED  BY <1>14, <2>1 DEF CacheDelete, Forget, TypeOK
<1>15. ASSUME NEW c \in Chats, Expire(c)
       PROVE  TypeOK'
  BY <1>15 DEF Expire, Forget, TypeOK
<1>16. CASE Crash
  BY <1>16, IdleTyped, FailTyped DEF Crash, TypeOK
<1>17. CASE UNCHANGED vars
  BY <1>17 DEF TypeOK, vars
<1> QED
  BY <1>1, <1>2, <1>3, <1>4, <1>5, <1>6, <1>7, <1>8, <1>9, <1>10, <1>11,
     <1>12, <1>13, <1>14, <1>15, <1>16, <1>17
  DEF Next, Step, Failure

(* Every variable keeps its type, and a chat has at most one subscription  *)
(* to a link, however it is spelled.                                       *)
THEOREM TypeCorrect == Spec => []TypeOK
<1>1. Init => TypeOK
  BY IdleTyped, SubscriptionsAssumption DEF Init, TypeOK, SubscriptionsAssumption
<1> QED  BY <1>1, TypeStep, PTL DEF Spec

----------------------------------------------------------------------------
(* A step that touches the tables adds a subscription of a registered      *)
(* chat, changes tags, or removes subscriptions, the chat's last ones      *)
(* together with the chat.                                                 *)
LEMMA RegisteredStep ==
  TypeOK /\ RemovedChatIsForgotten /\ [Next]_vars => RemovedChatIsForgotten'
<1> SUFFICES ASSUME TypeOK, RemovedChatIsForgotten, [Next]_vars
             PROVE  RemovedChatIsForgotten'
  OBVIOUS
<1> USE DEF tables
<1>1. ASSUME NEW h \in Handlers, AddClient(h) \/ AddClientUnanswered(h)
      PROVE  RemovedChatIsForgotten'
  BY <1>1 DEF AddClient, AddClientUnanswered, RemovedChatIsForgotten
<1>2. ASSUME NEW h \in Handlers, Subscribe(h)
      PROVE  RemovedChatIsForgotten'
  BY <1>2 DEF Subscribe, StillRegistered, RemovedChatIsForgotten
<1>3. ASSUME NEW h \in Handlers, UnSubscribe(h)
      PROVE  RemovedChatIsForgotten'
  BY <1>3 DEF UnSubscribe, RemovedChatIsForgotten
<1>4. ASSUME NEW h \in Handlers, ChangeTags(h)
      PROVE  RemovedChatIsForgotten'
  <2>1. \A s \in Retagged(h) : \E t \in subs : s.chat = t.chat
    BY DEF Retagged, Tracked, View, TypeOK, Sub
  <2> QED  BY <1>4, <2>1 DEF ChangeTags, RemovedChatIsForgotten
<1>5. ASSUME NEW h \in Handlers, RemoveClient(h)
      PROVE  RemovedChatIsForgotten'
  BY <1>5 DEF RemoveClient, View, RemovedChatIsForgotten
<1>6. CASE UNCHANGED tables
  BY <1>6 DEF RemovedChatIsForgotten
<1> QED
  BY <1>1, <1>2, <1>3, <1>4, <1>5, <1>6
  DEF Next, Step, Failure, Arrive, Find, SubscribeRefused, CacheHit, CacheMiss,
      ReadSubscriptions, CacheSet, CacheDelete, TxFails, CommitUnanswered,
      CacheGetFails, CacheSetFails, CacheDeleteFails, Expire, Crash, vars

(* A removed chat keeps no subscription, although the removal may fall     *)
(* between the reads and the INSERT of a subscribing transaction.          *)
THEOREM SubscribersAreRegistered == Spec => []RemovedChatIsForgotten
<1>1. Init => RemovedChatIsForgotten
  BY DEF Init, RemovedChatIsForgotten
<1> QED  BY <1>1, TypeCorrect, RegisteredStep, PTL DEF Spec

----------------------------------------------------------------------------
(* The cache of the chats that nothing disturbed. *)

(* The requests in work of such a chat are one at most. *)
Alone ==
  \A h, k \in Handlers :
    (/\ req[h].pc # "idle" /\ req[k].pc # "idle"
     /\ req[h].chat = req[k].chat /\ req[h].chat \notin disturbed) => h = k

(* What a list is about to store is still what the tables say. *)
ReadsCurrent ==
  \A h \in Handlers :
    (req[h].pc = "set" /\ req[h].chat \notin disturbed) => req[h].seen = View(req[h].chat)

CacheInv == TypeOK /\ Alone /\ ReadsCurrent /\ CacheIsCurrent

(* A step that changes subscriptions changes those of one chat, whose      *)
(* request goes on to delete the entry.                                    *)
WritesOf(h) ==
  /\ req[h].pc = "write"
  /\ Goto(h, "delete")
  /\ UNCHANGED <<cached, cache, disturbed>>
  /\ \A c \in Chats : c # req[h].chat => View(c)' = View(c)

LEMMA SubsStep ==
  ASSUME TypeOK, [Next]_vars
  PROVE  UNCHANGED subs \/ \E h \in Handlers : WritesOf(h)
<1> USE DEF tables
<1>1. ASSUME NEW h \in Handlers, Subscribe(h)
      PROVE  WritesOf(h)
  BY <1>1 DEF Subscribe, WritesOf, View, At
<1>2. ASSUME NEW h \in Handlers, UnSubscribe(h)
      PROVE  UNCHANGED subs \/ WritesOf(h)
  <2> DEFINE same == {s \in Tracked(h) : s.text = req[h].text}
  <2>1. subs' = subs \ same
    BY <1>2 DEF UnSubscribe
  <2>2. CASE same = {}
    BY <2>1, <2>2
  <2>3. CASE same # {}
    <3>1. Goto(h, "delete") /\ req[h].pc = "write" /\ UNCHANGED <<cached, cache, disturbed>>
      BY <1>2, <2>3 DEF UnSubscribe, At
    <3>2. \A s \in same : s.chat = req[h].chat
      BY DEF Tracked, View
    <3> HIDE DEF same
    <3> QED  BY <2>1, <3>1, <3>2 DEF WritesOf, View
  <2> QED  BY <2>2, <2>3
<1>3. ASSUME NEW h \in Handlers, ChangeTags(h)
      PROVE  UNCHANGED subs \/ WritesOf(h)
  <2>1. subs' = (subs \ Tracked(h)) \cup Retagged(h)
    BY <1>3 DEF ChangeTags
  <2>2. CASE Tracked(h) = {}
    BY <2>1, <2>2 DEF Retagged
  <2>3. CASE Tracked(h) # {}
    <3>1. Goto(h, "delete") /\ req[h].pc = "write" /\ UNCHANGED <<cached, cache, disturbed>>
      BY <1>3, <2>3 DEF ChangeTags, At
    <3>2. \A s \in Tracked(h) \cup Retagged(h) : s.chat = req[h].chat
      BY DEF Tracked, View, Retagged, TypeOK, Sub
    <3> QED  BY <2>1, <3>1, <3>2 DEF WritesOf, View
  <2> QED  BY <2>2, <2>3
<1>4. ASSUME NEW h \in Handlers, RemoveClient(h)
      PROVE  UNCHANGED subs \/ WritesOf(h)
  BY <1>4 DEF RemoveClient, WritesOf, View, At
<1> QED
  BY <1>1, <1>2, <1>3, <1>4
  DEF Next, Step, Failure, Arrive, AddClient, Find, SubscribeRefused, CacheHit,
      CacheMiss, ReadSubscriptions, CacheSet, CacheDelete, TxFails,
      CommitUnanswered, AddClientUnanswered, CacheGetFails, CacheSetFails,
      CacheDeleteFails, Expire, Crash, vars

LEMMA WriteKeeps ==
  ASSUME CacheInv, NEW h \in Handlers, WritesOf(h)
  PROVE  Alone' /\ ReadsCurrent' /\ CacheIsCurrent'
<1>1. /\ req' = [req EXCEPT ![h].pc = "delete"]
      /\ req[h].pc = "write"
      /\ req[h].chat \in Chats /\ req[h].op \in Ops
  BY ActiveTyped DEF WritesOf, Goto, CacheInv
<1>2. /\ req'[h].pc = "delete" /\ req'[h].chat = req[h].chat /\ req'[h].op = req[h].op
      /\ \A k \in Handlers \ {h} : req'[k] = req[k]
  BY <1>1 DEF CacheInv, TypeOK
<1>3. Alone'
  BY <1>1, <1>2 DEF CacheInv, Alone, WritesOf
<1>4. ReadsCurrent'
  <2> SUFFICES ASSUME NEW k \in Handlers, req'[k].pc = "set",
                      req'[k].chat \notin disturbed'
               PROVE  req'[k].seen = {s \in subs' : s.chat = req'[k].chat}
    BY DEF ReadsCurrent, View
  <2>1. k # h /\ req'[k] = req[k]
    BY <1>2
  <2>2. req[k].chat # req[h].chat /\ req[k].chat \in Chats
    BY <1>1, <2>1, ActiveTyped DEF CacheInv, Alone, WritesOf
  <2> QED  BY <2>1, <2>2 DEF CacheInv, ReadsCurrent, WritesOf, View
<1>5. CacheIsCurrent'
  <2> SUFFICES ASSUME NEW c \in cached \ disturbed, cache[c] # View(c)'
               PROVE  \E k \in Handlers : At(k, "delete", Ops)' /\ req'[k].chat = c
    BY DEF CacheIsCurrent, WritesOf, View
  <2>1. CASE c = req[h].chat
    BY <1>1, <1>2, <2>1 DEF At
  <2>2. CASE c # req[h].chat
    <3>1. View(c)' = View(c)
      BY <2>2 DEF WritesOf, CacheInv, TypeOK
    <3>2. PICK k \in Handlers : At(k, "delete", Ops) /\ req[k].chat = c
      BY <3>1 DEF CacheInv, CacheIsCurrent
    <3> QED  BY <1>1, <1>2, <3>2 DEF At
  <2> QED  BY <2>1, <2>2
<1> QED  BY <1>3, <1>4, <1>5

(* Two ways to change a request that matter to nobody else.                *)
LEMMA AnswerKeeps ==
  ASSUME CacheInv, NEW h \in Handlers, req[h].pc # "delete",
         NEW o, Answer(h, o), UNCHANGED <<subs, cached, cache, disturbed>>
  PROVE  Alone' /\ ReadsCurrent' /\ CacheIsCurrent'
<1>1. /\ req'[h].pc = "idle"
      /\ \A k \in Handlers \ {h} : req'[k] = req[k]
  BY DEF Answer, Done, CacheInv, TypeOK
<1>2. Alone' /\ ReadsCurrent'
  BY <1>1 DEF CacheInv, Alone, ReadsCurrent, View
<1>3. \A k \in Handlers, c \in Chats :
        At(k, "delete", Ops) /\ req[k].chat = c => At(k, "delete", Ops)' /\ req'[k].chat = c
  BY <1>1 DEF At
<1>4. CacheIsCurrent'
  BY <1>3 DEF CacheInv, TypeOK, CacheIsCurrent, View
<1> QED  BY <1>2, <1>4

LEMMA GotoKeeps ==
  ASSUME CacheInv, NEW h \in Handlers, req[h].pc \notin {"idle", "delete"},
         NEW r, req' = [req EXCEPT ![h] = r], r.pc \in {"find", "write", "delete"},
         r.chat = req[h].chat, UNCHANGED <<subs, cached, cache, disturbed>>
  PROVE  Alone' /\ ReadsCurrent' /\ CacheIsCurrent'
<1>1. /\ req'[h].pc \in {"find", "write", "delete"} /\ req'[h].chat = req[h].chat
      /\ \A k \in Handlers \ {h} : req'[k] = req[k]
  BY DEF CacheInv, TypeOK
<1>2. Alone' /\ ReadsCurrent'
  BY <1>1 DEF CacheInv, Alone, ReadsCurrent, View
<1>3. \A k \in Handlers, c \in Chats :
        At(k, "delete", Ops) /\ req[k].chat = c => At(k, "delete", Ops)' /\ req'[k].chat = c
  BY <1>1 DEF At
<1>4. CacheIsCurrent'
  BY <1>3 DEF CacheInv, TypeOK, CacheIsCurrent, View
<1> QED  BY <1>2, <1>4

LEMMA GotoIs ==
  ASSUME TypeOK, NEW h \in Handlers, req[h].pc # "idle",
         NEW pc \in {"find", "write", "delete"}, Goto(h, pc)
  PROVE  \E r : /\ req' = [req EXCEPT ![h] = r]
                /\ r.pc \in {"find", "write", "delete"}
                /\ r.chat = req[h].chat
<1> DEFINE r == [req[h] EXCEPT !.pc = pc]
<1>1. r.pc = pc /\ r.chat = req[h].chat
  BY ActiveTyped DEF Active
<1>2. req' = [req EXCEPT ![h] = r]
  BY DEF Goto
<1> QED  BY <1>1, <1>2

LEMMA CacheStep == CacheInv /\ [Next]_vars => CacheInv'
<1> SUFFICES ASSUME CacheInv, [Next]_vars PROVE CacheInv'
  OBVIOUS
<1> USE DEF tables
<1> DEFINE Kept == Alone' /\ ReadsCurrent' /\ CacheIsCurrent'
<1>t. TypeOK /\ TypeOK'
  BY TypeStep DEF CacheInv
<1>w. ASSUME NEW h \in Handlers, WritesOf(h)
      PROVE  Kept
  BY <1>w, WriteKeeps
<1>1. ASSUME NEW h \in Handlers, NEW op \in Ops, NEW c \in Chats,
             NEW text \in Texts \cup {NoText}, NEW tags \in SUBSET Tags,
             Arrive(h, op, c, text, tags)
      PROVE  Kept
  <2>1. /\ req[h].pc = "idle" /\ req'[h].pc \in {"get", "find"} /\ req'[h].chat = c
        /\ \A k \in Handlers \ {h} : req'[k] = req[k]
    BY <1>1, <1>t DEF Arrive, TypeOK, Idle, Done
  <2>2. /\ UNCHANGED <<subs, cached, cache>>
        /\ \A d \in disturbed : d \in disturbed'
        /\ c \notin disturbed' => \A k \in Handlers : ~Busy(k, c)
    BY <1>1 DEF Arrive
  <2>3. Alone' /\ ReadsCurrent'
    BY <2>1, <2>2 DEF CacheInv, Alone, ReadsCurrent, View, Busy
  <2>4. \A k \in Handlers, d \in Chats :
          At(k, "delete", Ops) /\ req[k].chat = d => At(k, "delete", Ops)' /\ req'[k].chat = d
    BY <2>1 DEF At
  <2>5. CacheIsCurrent'
    BY <1>t, <2>2, <2>4 DEF CacheInv, TypeOK, CacheIsCurrent, View
  <2> QED  BY <2>3, <2>5
<1>2. ASSUME NEW h \in Handlers, AddClient(h) \/ SubscribeRefused(h) \/ CacheHit(h)
                              \/ TxFails(h) \/ AddClientUnanswered(h) \/ CacheSetFails(h)
      PROVE  Kept
  <2>1. /\ req[h].pc # "delete" /\ UNCHANGED <<subs, cached, cache, disturbed>>
        /\ \E o : Answer(h, o)
    BY <1>2 DEF AddClient, SubscribeRefused, CacheHit, TxFails, AddClientUnanswered,
                CacheSetFails, At
  <2> QED  BY <2>1, AnswerKeeps
<1>3. ASSUME NEW h \in Handlers, Find(h)
      PROVE  Kept
  <2>1. req[h].pc = "find" /\ UNCHANGED <<subs, cached, cache, disturbed>>
    BY <1>3 DEF Find, At
  <2>2. CASE \E o : Answer(h, o)
    BY <2>1, <2>2, AnswerKeeps
  <2>3. CASE \E known : req' = [req EXCEPT ![h].pc = "write", ![h].known = known]
    <3>1. PICK known : req' = [req EXCEPT ![h].pc = "write", ![h].known = known]
      BY <2>3
    <3> DEFINE r == [req[h] EXCEPT !.pc = "write", !.known = known]
    <3>2. r.pc = "write" /\ r.chat = req[h].chat
      BY <1>t, <2>1, ActiveTyped DEF Active
    <3>3. req' = [req EXCEPT ![h] = r]
      BY <1>t, <3>1 DEF TypeOK
    <3> HIDE DEF r
    <3> QED  BY <2>1, <3>2, <3>3, GotoKeeps
  <2>4. CASE Goto(h, "write")
    BY <1>t, <2>1, <2>4, GotoIs, GotoKeeps
  <2> QED  BY <1>3, <2>2, <2>3, <2>4 DEF Find
<1>4. ASSUME NEW h \in Handlers, UNCHANGED subs,
             UnSubscribe(h) \/ ChangeTags(h) \/ RemoveClient(h) \/ Subscribe(h)
      PROVE  Kept
  <2>1. /\ req[h].pc = "write" /\ UNCHANGED <<cached, cache, disturbed>>
        /\ Goto(h, "delete") \/ \E o : Answer(h, o)
    BY <1>4 DEF UnSubscribe, ChangeTags, RemoveClient, Subscribe, At
  <2> QED  BY <1>4, <1>t, <2>1, AnswerKeeps, GotoIs, GotoKeeps
<1>5. ASSUME NEW h \in Handlers, CacheMiss(h) \/ CacheGetFails(h)
      PROVE  Kept
  <2>1. req[h].pc = "get" /\ UNCHANGED <<subs, cached, cache, disturbed>> /\ Goto(h, "find")
    BY <1>5 DEF CacheMiss, CacheGetFails, At
  <2> QED  BY <1>t, <2>1, GotoIs, GotoKeeps
<1>6. ASSUME NEW h \in Handlers, ReadSubscriptions(h)
      PROVE  Kept
  <2>1. req[h].pc = "write" /\ UNCHANGED <<subs, cached, cache, disturbed>>
    BY <1>6 DEF ReadSubscriptions, At
  <2>2. /\ req'[h].pc = "set" /\ req'[h].chat = req[h].chat
        /\ req'[h].seen = View(req[h].chat)
        /\ \A k \in Handlers \ {h} : req'[k] = req[k]
    BY <1>6, <1>t, <2>1, ActiveTyped DEF ReadSubscriptions, Active, TypeOK
  <2>3. Alone' /\ ReadsCurrent'
    BY <2>1, <2>2 DEF CacheInv, Alone, ReadsCurrent, View
  <2>4. \A k \in Handlers, d \in Chats :
          At(k, "delete", Ops) /\ req[k].chat = d => At(k, "delete", Ops)' /\ req'[k].chat = d
    BY <2>1, <2>2 DEF At
  <2>5. CacheIsCurrent'
    BY <1>t, <2>1, <2>4 DEF CacheInv, TypeOK, CacheIsCurrent, View
  <2> QED  BY <2>3, <2>5
<1>7. ASSUME NEW h \in Handlers, CacheSet(h)
      PROVE  Kept
  <2>1. /\ req[h].pc = "set" /\ UNCHANGED <<subs, disturbed>> /\ Answer(h, "ok")
        /\ cached' = cached \cup {req[h].chat}
        /\ cache' = [cache EXCEPT ![req[h].chat] = req[h].seen]
    BY <1>7 DEF CacheSet, At
  <2>2. /\ req'[h].pc = "idle"
        /\ \A k \in Handlers \ {h} : req'[k] = req[k]
    BY <1>t, <2>1 DEF Answer, Done, TypeOK
  <2>3. Alone' /\ ReadsCurrent'
    BY <2>1, <2>2 DEF CacheInv, Alone, ReadsCurrent, View
  <2>4. \A k \in Handlers, d \in Chats :
          At(k, "delete", Ops) /\ req[k].chat = d => At(k, "delete", Ops)' /\ req'[k].chat = d
    BY <2>1, <2>2 DEF At
  <2>5. /\ req[h].chat \in Chats
        /\ req[h].chat \notin disturbed => req[h].seen = View(req[h].chat)
    BY <1>t, <2>1, ActiveTyped DEF CacheInv, ReadsCurrent
  <2>6. CacheIsCurrent'
    BY <1>t, <2>1, <2>4, <2>5 DEF CacheInv, TypeOK, CacheIsCurrent, View
  <2> QED  BY <2>3, <2>6
<1>8. ASSUME NEW h \in Handlers, CacheDelete(h)
      PROVE  Kept
  <2> DEFINE c == req[h].chat
  <2>1. /\ req[h].pc = "delete" /\ UNCHANGED subs /\ Answer(h, "ok")
        /\ Forget(c, Handlers \ {h})
    BY <1>8 DEF CacheDelete
  <2>2. /\ req'[h].pc = "idle"
        /\ \A k \in Handlers \ {h} : req'[k] = req[k]
    BY <1>t, <2>1 DEF Answer, Done, TypeOK
  <2>3. /\ \A d : d # c => (d \in disturbed <=> d \in disturbed')
        /\ c \in disturbed /\ c \notin disturbed' => \A k \in Handlers \ {h} : ~Busy(k, c)
    BY <2>1 DEF Forget
  <2>4. Alone' /\ ReadsCurrent'
    BY <2>1, <2>2, <2>3 DEF CacheInv, Alone, ReadsCurrent, View, Busy
  <2>5. \A k \in Handlers, d \in Chats \ {c} :
          At(k, "delete", Ops) /\ req[k].chat = d => At(k, "delete", Ops)' /\ req'[k].chat = d
    BY <2>1, <2>2 DEF At
  <2>6. cached' = cached \ {c} /\ \A d \in Chats \ {c} : cache'[d] = cache[d]
    BY <1>t, <2>1 DEF Forget, TypeOK
  <2>7. CacheIsCurrent'
    BY <1>t, <2>1, <2>3, <2>5, <2>6 DEF CacheInv, TypeOK, CacheIsCurrent, View
  <2> QED  BY <2>4, <2>7
<1>9. ASSUME NEW c \in Chats, Expire(c)
      PROVE  Kept
  <2>1. /\ UNCHANGED <<req, subs>>
        /\ cached' = cached \ {c}
        /\ \A d \in Chats \ {c} : cache'[d] = cache[d]
        /\ \A d : d # c => (d \in disturbed <=> d \in disturbed')
        /\ c \in disturbed /\ c \notin disturbed' => \A k \in Handlers : ~Busy(k, c)
    BY <1>9, <1>t DEF Expire, Forget, TypeOK
  <2>2. Alone' /\ ReadsCurrent'
    BY <2>1 DEF CacheInv, Alone, ReadsCurrent, View, Busy
  <2>3. CacheIsCurrent'
    BY <1>t, <2>1 DEF CacheInv, TypeOK, CacheIsCurrent, View, At
  <2> QED  BY <2>2, <2>3
<1>10. ASSUME UNCHANGED vars
       PROVE  Kept
  <2>1. Alone' /\ ReadsCurrent'
    BY <1>10 DEF vars, CacheInv, Alone, ReadsCurrent, View
  <2>2. CacheIsCurrent'
    BY <1>10 DEF vars, CacheInv, CacheIsCurrent, View, At
  <2> QED  BY <2>1, <2>2
<1>11. ASSUME NEW h \in Handlers, CacheDeleteFails(h) \/ CommitUnanswered(h)
       PROVE  Kept
  <2>1. /\ req[h].pc = "delete" /\ UNCHANGED <<subs, cached, cache>>
        /\ Answer(h, "ok") \/ Answer(h, "error")
        /\ disturbed' = disturbed \cup {req[h].chat}
    BY <1>11 DEF CacheDeleteFails, CommitUnanswered
  <2>2. /\ req'[h].pc = "idle"
        /\ \A k \in Handlers \ {h} : req'[k] = req[k]
    BY <1>t, <2>1 DEF Answer, Done, TypeOK
  <2>3. Alone' /\ ReadsCurrent'
    BY <2>1, <2>2 DEF CacheInv, Alone, ReadsCurrent, View
  <2>4. \A k \in Handlers, d \in Chats \ {req[h].chat} :
          At(k, "delete", Ops) /\ req[k].chat = d => At(k, "delete", Ops)' /\ req'[k].chat = d
    BY <2>1, <2>2 DEF At
  <2>5. CacheIsCurrent'
    BY <1>t, <2>1, <2>4 DEF CacheInv, TypeOK, CacheIsCurrent, View
  <2> QED  BY <2>3, <2>5
<1>12. ASSUME Crash
       PROVE  Kept
  <2>1. /\ UNCHANGED <<subs, cached, cache>>
        /\ \A h \in Handlers : req'[h].pc = "idle"
        /\ disturbed' = disturbed \cup {c \in Chats :
             \E h \in Handlers : req[h].pc = "delete" /\ req[h].chat = c}
    BY <1>12 DEF Crash, Idle, Done
  <2>2. Alone' /\ ReadsCurrent'
    BY <2>1 DEF Alone, ReadsCurrent
  <2>3. CacheIsCurrent'
    BY <1>t, <2>1 DEF CacheInv, TypeOK, CacheIsCurrent, View, At
  <2> QED  BY <2>2, <2>3
<1> HIDE DEF Kept
<1>13. Kept
  <2>1. CASE \E h \in Handlers : WritesOf(h)
    BY <2>1, <1>w
  <2>2. CASE UNCHANGED subs
    <3>1. ASSUME NEW h \in Handlers, Step(h)
          PROVE  Kept
      BY <3>1, <2>2, <1>1, <1>2, <1>3, <1>4, <1>5, <1>6, <1>7, <1>8 DEF Step
    <3>2. ASSUME NEW h \in Handlers, Failure(h)
          PROVE  Kept
      BY <3>2, <1>2, <1>5, <1>11 DEF Failure
    <3> QED  BY <3>1, <3>2, <1>9, <1>10, <1>12 DEF Next
  <2> QED  BY <1>t, <2>1, <2>2, SubsStep
<1> QED  BY <1>t, <1>13 DEF CacheInv, Kept

(* A chat that waits for its answers, and gets them, reads its own writes, *)
(* whatever other chats do and whatever else fails: the entry in the cache *)
(* is what the tables say, except between the commit of a command and its  *)
(* answer, and until the entry is next deleted when requests of the chat   *)
(* overlapped, a deletion failed or a crash prevented it, or a command     *)
(* that had committed was answered with an error.                          *)
THEOREM ChatsReadTheirWrites == Spec => []CacheIsCurrent
<1>1. Init => CacheInv
  <2> SUFFICES ASSUME Init PROVE CacheInv
    OBVIOUS
  <2>1. TypeOK
    BY IdleTyped, SubscriptionsAssumption DEF Init, TypeOK, SubscriptionsAssumption
  <2> QED  BY <2>1 DEF Init, CacheInv, Alone, ReadsCurrent, CacheIsCurrent, Idle, Done
<1>2. CacheInv /\ [Next]_vars => CacheInv'
  BY CacheStep
<1>3. CacheInv => CacheIsCurrent
  BY DEF CacheInv
<1> QED  BY <1>1, <1>2, <1>3, PTL DEF Spec
============================================================================
