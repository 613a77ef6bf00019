------------------------- MODULE ChatSessionProofs --------------------------
(***************************************************************************)
(* For every number of chats, links, goroutines, attempts and failures:    *)
(* the sessions of the dialogue are sound, a chat is told that a request   *)
(* is done only if it was done for this answer, and what was done without  *)
(* an answer has cost a failure.                                           *)
(***************************************************************************)
EXTENDS ChatSession, FiniteSetTheorems, TLAPS

(* TypeOK without the account of the requests. *)
Shape ==
  /\ transport \in {"grpc", "http"}
  /\ session \in [Chats -> Session]
  /\ work \in [Handlers -> Task \cup {Idle}]
  /\ users \subseteq Chats
  /\ tracked \in [Chats -> SUBSET Links]
  /\ failures \in 0 .. MaxFailures

(* An execution that was not answered, or that may still come, was paid    *)
(* for by a failure; an answer was backed by an execution.                 *)
Accounts ==
  /\ late \in [Changes -> Nat]
  /\ credit \in [Changes -> Int]
  /\ \A r \in Changes : credit[r] >= 0 /\ credit[r] + late[r] <= failures

(* What a handler keeps in mind between two steps. *)
TaskOK(t) ==
  /\ t.pc = "url" => t.text # NoText
  /\ t.pc \in {"tags", "get", "remove"} => t.op = "track"
WorkInv == \A h \in Handlers : TaskOK(work[h])

(* A handler that will remove the session of chat c. *)
Owns(t, c) == t.pc \in {"get", "call", "remove"} /\ t.op = "track" /\ t.chat = c

LEMMA TypesFollow == Shape /\ Accounts => TypeOK
<1> SUFFICES ASSUME Shape, Accounts PROVE TypeOK
  OBVIOUS
<1>1. ASSUME NEW r \in Changes PROVE late[r] \in 0 .. MaxFailures
  BY ChatSessionAssumption DEF Accounts, Shape, ChatSessionAssumption
<1>2. late \in [Changes -> 0 .. MaxFailures]
  BY <1>1 DEF Accounts
<1> QED  BY <1>2 DEF Shape, Accounts, TypeOK

----------------------------------------------------------------------------
(* The tasks that the steps leave behind. *)

LEMMA BusyTask ==
  ASSUME Shape, NEW h \in Handlers, work[h].pc # "idle"
  PROVE  work[h] \in Task
  BY DEF Shape, Idle

(* A handler that only has to send a reply. *)
Replying(c) == [pc |-> "send", op |-> "list", chat |-> c, text |-> NoText, attempt |-> 0]

LEMMA ReplyingTyped ==
  ASSUME NEW c \in Chats
  PROVE  /\ Replying(c) \in Task
         /\ Replying(c).pc = "send"
         /\ TaskOK(Replying(c))
<1>1. 0 \in 0 .. MaxAttempts - 1 /\ "list" \in Calls /\ NoText \in Args
  BY ChatSessionAssumption DEF Calls, Args, ChatSessionAssumption
<1>2. Replying(c) \in Task
  BY <1>1 DEF Replying, Task
<1> QED  BY <1>2 DEF Replying, TaskOK

LEMMA AnswerReplies ==
  ASSUME NEW h \in Handlers, Answer(h)
  PROVE  work' = [work EXCEPT ![h] = Replying(work[h].chat)]
<1>1. PICK t : t = [Idle EXCEPT !.pc = "send", !.chat = work[h].chat]
  OBVIOUS
<1>2. t = Replying(work[h].chat)
  BY <1>1 DEF Idle, Replying
<1> QED  BY <1>1, <1>2 DEF Answer

(* Where a handler is after an attempt: it tries again, removes the        *)
(* session after a call to track, or replies.                              *)
AfterAttempt(h, t) ==
  /\ t \in Task /\ TaskOK(t)
  /\ work' = [work EXCEPT ![h] = t]
  /\ \A c \in Chats : Owns(work[h], c) => Owns(t, c)

LEMMA GotoMoves ==
  ASSUME Shape, NEW h \in Handlers, work[h] \in Task, NEW pc, Goto(h, pc)
  PROVE  work' = [work EXCEPT ![h] = [work[h] EXCEPT !.pc = pc, !.attempt = 0]]
<1> DEFINE f == [work EXCEPT ![h].pc = pc]
<1>1. work' = [f EXCEPT ![h].attempt = 0]
  BY DEF Goto
<1>2. h \in DOMAIN work /\ DOMAIN f = DOMAIN work
  BY DEF Shape
<1>3. f[h] = [work[h] EXCEPT !.pc = pc] /\ \A g \in Handlers \ {h} : f[g] = work[g]
  BY <1>2 DEF Shape
<1>4. [f[h] EXCEPT !.attempt = 0] = [work[h] EXCEPT !.pc = pc, !.attempt = 0]
  BY <1>3
<1> QED  BY <1>1, <1>2, <1>3, <1>4 DEF Shape

LEMMA ReturnMoves ==
  ASSUME Shape, NEW h \in Handlers, At(h, "call"), Return(h)
  PROVE  \E t : AfterAttempt(h, t)
<1>1. work[h] \in Task
  BY BusyTask DEF At
<1>2. CASE work[h].op = "track"
  <2> DEFINE t == [work[h] EXCEPT !.pc = "remove", !.attempt = 0]
  <2>1. work' = [work EXCEPT ![h] = t]
    BY <1>1, <1>2, GotoMoves DEF Return
  <2>2. 0 \in 0 .. MaxAttempts - 1
    BY ChatSessionAssumption DEF ChatSessionAssumption
  <2>3. t \in Task
    BY <1>1, <2>2 DEF Task
  <2>4. t.pc = "remove" /\ t.op = work[h].op /\ t.chat = work[h].chat
    BY <1>1 DEF Task
  <2>5. TaskOK(t) /\ \A c \in Chats : Owns(work[h], c) => Owns(t, c)
    BY <1>2, <2>4 DEF TaskOK, Owns
  <2> QED  BY <2>1, <2>3, <2>5 DEF AfterAttempt
<1>3. CASE work[h].op # "track"
  <2>1. work' = [work EXCEPT ![h] = Replying(work[h].chat)]
    BY <1>3, AnswerReplies DEF Return
  <2>2. work[h].chat \in Chats
    BY <1>1 DEF Task
  <2> QED  BY <1>3, <2>1, <2>2, ReplyingTyped DEF AfterAttempt, Owns
<1> QED  BY <1>2, <1>3

LEMMA TryAgainMoves ==
  ASSUME Shape, NEW h \in Handlers, At(h, "call"), TryAgain(h)
  PROVE  \E t : AfterAttempt(h, t)
<1>1. CASE Return(h)
  BY <1>1, ReturnMoves
<1>2. CASE /\ work[h].attempt + 1 < MaxAttempts
           /\ work' = [work EXCEPT ![h].attempt = @ + 1]
  <2> DEFINE t == [work[h] EXCEPT !.attempt = @ + 1]
  <2>1. work[h] \in Task /\ work[h].pc = "call"
    BY BusyTask DEF At
  <2>2. work' = [work EXCEPT ![h] = t]
    BY <1>2, <2>1 DEF Shape, Task
  <2>3. t \in Task /\ t.pc = "call" /\ t.op = work[h].op /\ t.chat = work[h].chat
    BY <1>2, <2>1, ChatSessionAssumption DEF Task, ChatSessionAssumption
  <2> QED  BY <2>2, <2>3 DEF AfterAttempt, TaskOK, Owns
<1> QED  BY <1>1, <1>2 DEF TryAgain

LEMMA CallMoves ==
  ASSUME Shape, NEW h \in Handlers, Call(h)
  PROVE  /\ \E t : AfterAttempt(h, t)
         /\ UNCHANGED <<transport, session>>
<1>1. At(h, "call")
  BY DEF Call, Reply, ReplyWithError, Unreachable, ReplyLost, GiveUp, Abandon
<1>2. Return(h) \/ TryAgain(h)
  BY DEF Call, Reply, ReplyWithError, Unreachable, ReplyLost, GiveUp, Abandon
<1>3. UNCHANGED <<transport, session>>
  BY DEF Call, Reply, ReplyWithError, Unreachable, ReplyLost, GiveUp, Abandon
<1> QED  BY <1>1, <1>2, <1>3, ReturnMoves, TryAgainMoves

(* A message becomes a task. *)
LEMMA ReceiveMoves ==
  ASSUME Shape, NEW h \in Handlers, NEW c \in Chats, NEW cmd \in Commands, NEW arg \in Args,
         Receive(h, c, cmd, arg)
  PROVE  /\ \E t \in Task : work' = [work EXCEPT ![h] = t] /\ TaskOK(t)
         /\ work[h].pc = "idle"
         /\ UNCHANGED <<transport, session, scrapper, late, credit, failures>>
<1> DEFINE state == IF session[c].state = "none" THEN "available" ELSE session[c].state
           pc == NextStep(state, cmd, arg)
           op == IF pc = "tags" THEN "track" ELSE IF pc \in {"clear", "call"} THEN cmd ELSE "list"
           text == IF pc \in {"url", "call"} THEN arg ELSE NoText
           t == [pc |-> pc, op |-> op, chat |-> c, text |-> text, attempt |-> 0]
<1>1. /\ pc \in {"begin", "url", "cancel", "tags", "call", "clear", "send"}
      /\ pc = "url" => arg # NoText
      /\ pc \in {"clear", "call"} => cmd \in Calls
  BY DEF NextStep, NeedsText, Calls
<1>2. PICK r : /\ r = [Idle EXCEPT
                       !.pc = pc,
                       !.op = IF pc = "tags" THEN "track" ELSE IF pc \in {"clear", "call"} THEN cmd ELSE @,
                       !.chat = c,
                       !.text = IF pc \in {"url", "call"} THEN arg ELSE @]
               /\ work' = [work EXCEPT ![h] = r]
  BY DEF Receive
<1>3. /\ op = IF pc = "tags" THEN "track" ELSE IF pc \in {"clear", "call"} THEN cmd ELSE Idle.op
      /\ text = IF pc \in {"url", "call"} THEN arg ELSE Idle.text
  BY DEF Idle
<1>4. pc \in {"begin", "url", "cancel", "tags", "call", "clear", "send"}
        /\ op \in Calls /\ text \in Args /\ 0 \in 0 .. MaxAttempts - 1
  BY <1>1, ChatSessionAssumption DEF Calls, Args, ChatSessionAssumption
<1>5. TaskOK(t)
  BY <1>1 DEF TaskOK
<1> HIDE DEF pc, op, text
<1>6. r = t
  BY <1>2, <1>3 DEF Idle
<1>7. t \in Task
  BY <1>4 DEF Task
<1> QED  BY <1>2, <1>5, <1>6, <1>7 DEF Receive, At

(* What a handler's step leaves of the others. *)
LEMMA WorkFrame ==
  ASSUME Shape, WorkInv, NEW h \in Handlers, NEW t \in Task \cup {Idle}, TaskOK(t),
         work' = [work EXCEPT ![h] = t]
  PROVE  /\ work' \in [Handlers -> Task \cup {Idle}]
         /\ WorkInv'
         /\ work'[h] = t
         /\ \A g \in Handlers \ {h} : work'[g] = work[g]
<1>1. /\ work' \in [Handlers -> Task \cup {Idle}]
      /\ work'[h] = t
      /\ \A g \in Handlers \ {h} : work'[g] = work[g]
  BY DEF Shape
<1> QED  BY <1>1 DEF WorkInv

(* The session stays, and so do its owners. *)
LEMMA SoundFrame ==
  ASSUME Shape, WorkInv, SessionsAreSound, session' = session,
         NEW h \in Handlers, NEW t \in Task \cup {Idle}, TaskOK(t),
         work' = [work EXCEPT ![h] = t],
         \A c \in Chats : Owns(work[h], c) => Owns(t, c)
  PROVE  SessionsAreSound'
<1>1. work'[h] = t /\ \A g \in Handlers \ {h} : work'[g] = work[g]
  BY WorkFrame
<1> QED  BY <1>1 DEF SessionsAreSound, Owns

(* The handler of a chat replaces its session. *)
LEMMA SoundStore ==
  ASSUME Shape, WorkInv, SessionsAreSound,
         NEW h \in Handlers, NEW t \in Task \cup {Idle}, TaskOK(t),
         work' = [work EXCEPT ![h] = t],
         work[h] \in Task, NEW s \in Session, Store(work[h].chat, s),
         s.state = "tags" => s.url # NoText,
         s.state = "available" => Owns(t, work[h].chat)
  PROVE  session' \in [Chats -> Session] /\ SessionsAreSound'
<1> DEFINE c == work[h].chat
<1>1. work'[h] = t /\ \A g \in Handlers \ {h} : work'[g] = work[g]
  BY WorkFrame
<1>2. c \in Chats
  BY DEF Task
<1>3. /\ session' \in [Chats -> Session]
      /\ session'[c] = s
      /\ \A d \in Chats \ {c} : session'[d] = session[d]
  BY <1>2 DEF Store, Shape
<1>4. ASSUME NEW d \in Chats \ {c}
      PROVE  /\ session'[d].state = "tags" => session'[d].url # NoText
             /\ session'[d].state = "available" => \E g \in Handlers : Owns(work'[g], d)
  BY <1>1, <1>3, <1>4 DEF SessionsAreSound, Owns
<1>5. SessionsAreSound'
  BY <1>1, <1>3, <1>4 DEF SessionsAreSound, Owns
<1> QED  BY <1>3, <1>5

(* Every step of a handler: the task it leaves, and the session it stores. *)
LEMMA DialogueStep ==
  ASSUME Shape, WorkInv, SessionsAreSound, NEW h \in Handlers, Dialogue(h)
  PROVE  /\ work' \in [Handlers -> Task \cup {Idle}]
         /\ session' \in [Chats -> Session]
         /\ WorkInv'
         /\ SessionsAreSound'
         /\ UNCHANGED <<transport, scrapper, late, credit, failures>>
<1> USE DEF scrapper
<1>1. /\ work[h].pc \in {"begin", "url", "cancel", "clear", "tags", "get", "remove"}
      /\ UNCHANGED <<transport, scrapper, late, credit, failures>>
  BY DEF Dialogue, StartTracking, SetURL, Cancel, Start, SetTags, GetURL, EndTracking, At
<1>2. work[h] \in Task /\ TaskOK(work[h])
  BY <1>1, BusyTask DEF WorkInv
<1> DEFINE c == work[h].chat
<1>3. c \in Chats /\ work[h].text \in Args /\ work[h].op \in Calls
  BY <1>2 DEF Task
<1>4. 0 \in 0 .. MaxAttempts - 1
  BY ChatSessionAssumption DEF ChatSessionAssumption
<1>5. CASE StartTracking(h) \/ SetURL(h) \/ Cancel(h) \/ EndTracking(h)
  <2>1. PICK s \in Session :
          /\ Store(c, s)
          /\ s.state # "available" /\ (s.state = "tags" => s.url # NoText)
    <3>1. CASE StartTracking(h)
      <4>1. [state |-> "link", url |-> NoText] \in Session
        BY DEF Session
      <4> QED  BY <3>1, <4>1 DEF StartTracking
    <3>2. CASE SetURL(h)
      <4>1. [state |-> "tags", url |-> work[h].text] \in Session
        BY <1>3 DEF Session
      <4>2. work[h].text # NoText
        BY <1>2, <3>2 DEF SetURL, At, TaskOK
      <4> QED  BY <3>2, <4>1, <4>2 DEF SetURL
    <3>3. CASE Cancel(h) \/ EndTracking(h)
      <4>1. NoSession \in Session /\ NoSession.state = "none"
        BY DEF NoSession, Session
      <4> QED  BY <3>3, <4>1 DEF Cancel, EndTracking
    <3> QED  BY <1>5, <3>1, <3>2, <3>3
  <2>2. work' = [work EXCEPT ![h] = Replying(c)]
    BY <1>5, AnswerReplies DEF StartTracking, SetURL, Cancel, EndTracking
  <2>3. Replying(c) \in Task \cup {Idle} /\ TaskOK(Replying(c))
    BY <1>3, ReplyingTyped
  <2>4. session' \in [Chats -> Session] /\ SessionsAreSound'
    BY <1>2, <2>1, <2>2, <2>3, SoundStore
  <2>5. work' \in [Handlers -> Task \cup {Idle}] /\ WorkInv'
    BY <2>2, <2>3, WorkFrame
  <2> QED  BY <1>1, <2>4, <2>5
<1>6. CASE Start(h)
  <2> DEFINE t == [work[h] EXCEPT !.pc = "call", !.attempt = 0]
  <2>1. work' = [work EXCEPT ![h] = t] /\ Store(c, NoSession)
    BY <1>2, <1>6, GotoMoves DEF Start
  <2>2. t \in Task
    BY <1>2, <1>4 DEF Task
  <2>3. TaskOK(t)
    BY <1>2 DEF TaskOK, Task
  <2>4. NoSession \in Session /\ NoSession.state = "none"
    BY DEF NoSession, Session
  <2> HIDE DEF t
  <2>5. session' \in [Chats -> Session] /\ SessionsAreSound'
    BY <1>2, <2>1, <2>2, <2>3, <2>4, SoundStore
  <2>6. work' \in [Handlers -> Task \cup {Idle}] /\ WorkInv'
    BY <2>1, <2>2, <2>3, WorkFrame
  <2> QED  BY <1>1, <2>5, <2>6
<1>7. CASE SetTags(h)
  <2> DEFINE t == [work[h] EXCEPT !.pc = "get", !.attempt = 0]
             s == IF session[c] = NoSession
                    THEN [session[c] EXCEPT !.state = "available"] ELSE session[c]
  <2>1. work' = [work EXCEPT ![h] = t] /\ Store(c, s)
    BY <1>2, <1>7, GotoMoves DEF SetTags
  <2>2. t \in Task
    BY <1>2, <1>4 DEF Task
  <2>3. t.pc = "get" /\ t.op = "track" /\ t.chat = c
    BY <1>2, <1>7 DEF SetTags, At, TaskOK, Task
  <2>4. TaskOK(t) /\ Owns(t, c)
    BY <2>3 DEF TaskOK, Owns
  <2>5. s \in Session /\ (s.state = "tags" => s.url # NoText)
    <3>1. CASE session[c] = NoSession
      <4>1. s = [state |-> "available", url |-> NoText]
        BY <3>1 DEF NoSession
      <4> QED  BY <4>1 DEF Session
    <3>2. CASE session[c] # NoSession
      BY <1>3, <3>2 DEF Shape, SessionsAreSound
    <3> QED  BY <3>1, <3>2
  <2> HIDE DEF t, s
  <2>6. session' \in [Chats -> Session] /\ SessionsAreSound'
    BY <1>2, <2>1, <2>2, <2>4, <2>5, SoundStore
  <2>7. work' \in [Handlers -> Task \cup {Idle}] /\ WorkInv'
    BY <2>1, <2>2, <2>4, WorkFrame
  <2> QED  BY <1>1, <2>6, <2>7
<1>8. CASE GetURL(h)
  <2> DEFINE t == [work[h] EXCEPT !.pc = "call", !.text = session[c].url]
  <2>1. session' = session
    BY <1>8 DEF GetURL
  <2>2. session[c].url \in Args
    BY <1>3 DEF Shape, Session, Args
  <2>3. t \in Task
    BY <1>2, <2>2 DEF Task
  <2>4. t.pc = "call" /\ t.op = work[h].op /\ t.chat = c
    BY <1>2 DEF Task
  <2>5. work' = [work EXCEPT ![h] = t]
    <3> DEFINE f == [work EXCEPT ![h].pc = "call"]
               url == session[c].url
    <3>1. work' = [f EXCEPT ![h].text = url]
      BY <1>8 DEF GetURL
    <3>2. h \in DOMAIN work /\ DOMAIN f = DOMAIN work
      BY DEF Shape
    <3>3. f[h] = [work[h] EXCEPT !.pc = "call"]
          /\ \A g \in Handlers \ {h} : f[g] = work[g]
      BY <3>2 DEF Shape
    <3>4. [f[h] EXCEPT !.text = url] = t
      BY <3>3
    <3> QED  BY <3>1, <3>2, <3>3, <3>4 DEF Shape
  <2>6. TaskOK(t) /\ \A d \in Chats : Owns(work[h], d) => Owns(t, d)
    BY <2>4 DEF TaskOK, Owns
  <2> HIDE DEF t
  <2>7. SessionsAreSound'
    BY <2>1, <2>3, <2>5, <2>6, SoundFrame
  <2>8. work' \in [Handlers -> Task \cup {Idle}] /\ WorkInv'
    BY <2>3, <2>5, <2>6, WorkFrame
  <2> QED  BY <1>1, <2>1, <2>7, <2>8 DEF Shape
<1> QED  BY <1>5, <1>6, <1>7, <1>8 DEF Dialogue

----------------------------------------------------------------------------
(* The scrapper's tables and the account of a request. *)

LEMMA ExecuteTyped ==
  ASSUME Shape, NEW r, r.chat \in Chats, Execute(r)
  PROVE  users' \subseteq Chats /\ tracked' \in [Chats -> SUBSET Links]
<1>1. r.op = "track" /\ Result(r) = "ok" => r.text \in Links
  BY DEF Result, NeedsText
<1>2. tracked[r.chat] \subseteq Links
  BY DEF Shape
<1>3. \E S \in SUBSET Links : tracked' = [tracked EXCEPT ![r.chat] = S]
  <2>1. CASE r.op = "track" /\ Result(r) = "ok"
    BY <1>1, <1>2, <2>1 DEF Execute
  <2>2. CASE r.op = "untrack" /\ Result(r) = "ok"
    BY <1>2, <2>2 DEF Execute
  <2>3. CASE ~(r.op = "track" /\ Result(r) = "ok") /\ ~(r.op = "untrack" /\ Result(r) = "ok")
    BY <1>2, <2>3 DEF Execute
  <2> QED  BY <2>1, <2>2, <2>3
<1>4. tracked' \in [Chats -> SUBSET Links]
  BY <1>3 DEF Shape
<1> QED  BY <1>4 DEF Execute, Shape

(* The client is told that a request is done when the service did it: no   *)
(* other answer has the status of this one, and this one is final.         *)
LEMMA ToldIsEffect ==
  ASSUME NEW r
  PROVE  LET status == Status(r.op, Result(r))
         IN  Effect(r) = IF IsDone(status) /\ ~IsRetryable(status) THEN 1 ELSE 0
<1>1. Result(r) \in {"ok", "exists", "nochat", "invalid", "nolink"}
  BY DEF Result
<1>2. Result(r) = "ok" => Status(r.op, Result(r)) = "ok"
  BY DEF Status
<1>3. Result(r) # "ok" => Status(r.op, Result(r)) # "ok"
  <2>1. CASE Result(r) = "exists"
    BY <2>1 DEF Status
  <2>2. CASE Result(r) = "nolink"
    BY <2>2 DEF Status
  <2>3. CASE Result(r) \in {"nochat", "invalid"} /\ transport = "grpc"
    BY <2>3 DEF Status
  <2>4. CASE Result(r) \in {"nochat", "invalid"} /\ transport # "grpc"
    BY <2>4 DEF Status
  <2> QED  BY <1>1, <2>1, <2>2, <2>3, <2>4
<1> QED  BY <1>2, <1>3 DEF Effect, IsDone, IsRetryable

(* An account that an execution and a failure change together. *)
LEMMA AccountPaid ==
  ASSUME Accounts, Shape, NEW r, NEW n \in {0, 1}, Account(r, n),
         failures' \in Int,
         \/ late' = late /\ failures' = failures + 1
         \/ late' = late /\ failures' = failures /\ n = 0
         \/ r \in Changes /\ late[r] > 0 /\ failures' = failures
            /\ late' = [late EXCEPT ![r] = @ - 1]
  PROVE  Accounts'
<1>1. /\ late \in [Changes -> Nat] /\ credit \in [Changes -> Int]
      /\ failures \in Int
      /\ \A q \in Changes : credit[q] >= 0 /\ credit[q] + late[q] <= failures
  BY DEF Accounts, Shape
<1>2. late' \in [Changes -> Nat]
  BY <1>1
<1>3. credit' = [q \in Changes |-> IF q = r THEN credit[q] + n ELSE credit[q]]
  BY DEF Account
<1>4. credit' \in [Changes -> Int]
  BY <1>1, <1>3
<1>5. ASSUME NEW q \in Changes
      PROVE  credit'[q] >= 0 /\ credit'[q] + late'[q] <= failures'
  <2>1. credit'[q] = IF q = r THEN credit[q] + n ELSE credit[q]
    BY <1>3
  <2>2. late'[q] = late[q] \/ (q = r /\ late'[q] = late[q] - 1 /\ failures' = failures)
    BY <1>1
  <2>3. credit[q] \in Int /\ late[q] \in Nat
    BY <1>1
  <2>4. CASE late' = late
    BY <1>1, <2>1, <2>3, <2>4
  <2>5. CASE r \in Changes /\ failures' = failures /\ late' = [late EXCEPT ![r] = @ - 1]
    <3>1. q = r => late'[q] = late[q] - 1
      BY <1>1, <2>5
    <3>2. q # r => late'[q] = late[q]
      BY <1>1, <2>5
    <3> QED  BY <1>1, <2>1, <2>3, <2>5, <3>1, <3>2
  <2> QED  BY <2>4, <2>5
<1> QED  BY <1>2, <1>4, <1>5 DEF Accounts

LEMMA FailPays ==
  ASSUME Shape, Fail
  PROVE  failures' = failures + 1 /\ failures' \in 0 .. MaxFailures
  BY ChatSessionAssumption DEF Shape, Fail, ChatSessionAssumption

(* An attempt: its effect, its answer, and what both do to the account.    *)
LEMMA CallStep ==
  ASSUME Shape, Accounts, NEW h \in Handlers, Call(h)
  PROVE  /\ users' \subseteq Chats /\ tracked' \in [Chats -> SUBSET Links]
         /\ failures' \in 0 .. MaxFailures
         /\ Accounts'
<1> USE DEF scrapper
<1> DEFINE r == RequestOf(h)
<1>1. r.chat \in Chats
  <2>1. work[h] \in Task
    BY BusyTask DEF Call, Reply, ReplyWithError, Unreachable, ReplyLost, GiveUp, Abandon, At
  <2> QED  BY <2>1 DEF RequestOf, Task
<1>2. failures \in Int /\ failures \in 0 .. MaxFailures
  BY DEF Shape
<1>3. CASE Reply(h)
  <2>1. Execute(r) /\ late' = late /\ failures' = failures
    BY <1>3 DEF Reply
  <2>2. Account(r, 0)
    <3>1. Effect(r) \in {0, 1}
      BY DEF Effect
    <3> DEFINE status == Status(r.op, Result(r))
               told == IF IsDone(status) /\ ~IsRetryable(status) THEN 1 ELSE 0
    <3>2. Account(r, Effect(r) - told)
      BY <1>3 DEF Reply
    <3>3. Effect(r) = told
      BY ToldIsEffect
    <3> QED  BY <3>1, <3>2, <3>3
  <2>3. Accounts'
    BY <1>2, <2>1, <2>2, AccountPaid
  <2> QED  BY <1>1, <1>2, <2>1, <2>3, ExecuteTyped
<1>4. CASE ReplyLost(h)
  <2>1. Execute(r) /\ late' = late /\ Fail /\ Account(r, Effect(r))
    BY <1>4 DEF ReplyLost
  <2>2. Effect(r) \in {0, 1}
    BY DEF Effect
  <2>3. failures' = failures + 1 /\ failures' \in 0 .. MaxFailures
    BY <2>1, FailPays
  <2>4. Accounts'
    BY <2>1, <2>2, <2>3, AccountPaid
  <2> QED  BY <1>1, <2>1, <2>3, <2>4, ExecuteTyped
<1>5. CASE Abandon(h)
  <2>1. /\ r \in Changes /\ Fail /\ late' = [late EXCEPT ![r] = @ + 1]
        /\ UNCHANGED <<users, tracked, credit>>
    BY <1>5 DEF Abandon
  <2>2. failures' = failures + 1 /\ failures' \in 0 .. MaxFailures
    BY <2>1, FailPays
  <2>3. \A q \in Changes : late'[q] \in Nat /\ late'[q] <= late[q] + 1
    BY <2>1 DEF Accounts
  <2>4. late' \in [Changes -> Nat]
    BY <2>1, <2>3 DEF Accounts
  <2>5. ASSUME NEW q \in Changes
        PROVE  credit'[q] >= 0 /\ credit'[q] + late'[q] <= failures'
    BY <1>2, <2>1, <2>2, <2>3 DEF Accounts
  <2> QED  BY <2>1, <2>2, <2>4, <2>5 DEF Accounts, Shape
<1>6. CASE ReplyWithError(h) \/ Unreachable(h) \/ GiveUp(h)
  BY <1>2, <1>6 DEF ReplyWithError, Unreachable, GiveUp, Accounts, Shape
<1> QED  BY <1>3, <1>4, <1>5, <1>6 DEF Call

LEMMA ExecuteLateStep ==
  ASSUME Shape, Accounts, NEW r \in Changes, ExecuteLate(r)
  PROVE  /\ users' \subseteq Chats /\ tracked' \in [Chats -> SUBSET Links]
         /\ Accounts'
         /\ UNCHANGED <<transport, session, work, failures>>
<1>1. Effect(r) \in {0, 1} /\ r.chat \in Chats /\ failures \in Int
  BY DEF Effect, Changes, Shape
<1>2. /\ late[r] > 0 /\ late' = [late EXCEPT ![r] = @ - 1] /\ Execute(r)
      /\ Account(r, Effect(r)) /\ UNCHANGED <<transport, session, work, failures>>
  BY DEF ExecuteLate
<1>3. Accounts'
  BY <1>1, <1>2, AccountPaid
<1> QED  BY <1>1, <1>2, <1>3, ExecuteTyped

(* A restart gives up the requests in work, each for a failure. *)
LEMMA RestartStep ==
  ASSUME Shape, Accounts, Restart
  PROVE  /\ failures' \in 0 .. MaxFailures
         /\ Accounts'
<1>1. PICK left \in SUBSET {h \in Handlers : At(h, "call") /\ RequestOf(h) \in Changes} :
        /\ failures + 1 + Cardinality(left) <= MaxFailures
        /\ failures' = failures + 1 + Cardinality(left)
        /\ late' = [r \in Changes |->
             late[r] + Cardinality({h \in left : RequestOf(h) = r})]
  BY DEF Restart
<1>2. credit' = credit
  BY DEF Restart
<1>3. left \in SUBSET Handlers
  OBVIOUS
<1>4. IsFiniteSet(left) /\ Cardinality(left) \in Nat
  BY <1>3, ChatSessionAssumption, FS_Subset, FS_CardinalityType DEF ChatSessionAssumption
<1>5. ASSUME NEW r \in Changes
      PROVE  /\ Cardinality({h \in left : RequestOf(h) = r}) \in Nat
             /\ Cardinality({h \in left : RequestOf(h) = r}) <= Cardinality(left)
  <2>1. {h \in left : RequestOf(h) = r} \in SUBSET left
    OBVIOUS
  <2>2. IsFiniteSet({h \in left : RequestOf(h) = r})
    BY <1>4, <2>1, FS_Subset
  <2> QED  BY <1>4, <2>1, <2>2, FS_Subset, FS_CardinalityType
<1> DEFINE n(r) == Cardinality({h \in left : RequestOf(h) = r})
<1>6. \A r \in Changes : late'[r] = late[r] + n(r) /\ n(r) \in Nat /\ n(r) <= Cardinality(left)
  BY <1>1, <1>5
<1> HIDE DEF n
<1>7. failures \in Nat /\ MaxFailures \in Nat
  BY ChatSessionAssumption DEF Shape, ChatSessionAssumption
<1>8. late' \in [Changes -> Nat]
  <2>1. \A r \in Changes : late[r] + n(r) \in Nat
    BY <1>6 DEF Accounts
  <2> QED  BY <1>1, <2>1 DEF n
<1>9. ASSUME NEW r \in Changes
      PROVE  credit'[r] >= 0 /\ credit'[r] + late'[r] <= failures'
  <2>1. credit[r] \in Int /\ late[r] \in Nat /\ credit[r] >= 0
        /\ credit[r] + late[r] <= failures
    BY DEF Accounts
  <2>2. late'[r] = late[r] + n(r) /\ n(r) \in Nat /\ n(r) <= Cardinality(left)
    BY <1>6
  <2> QED  BY <1>1, <1>2, <1>4, <1>7, <2>1, <2>2
<1>10. failures' \in 0 .. MaxFailures
  BY <1>1, <1>4, <1>7
<1> QED  BY <1>2, <1>8, <1>9, <1>10 DEF Accounts

----------------------------------------------------------------------------
Inv == Shape /\ WorkInv /\ SessionsAreSound /\ Accounts

LEMMA InitInv == Init => Inv
<1> SUFFICES ASSUME Init PROVE Inv
  OBVIOUS
<1>1. NoSession \in Session /\ NoSession.state = "none"
  BY DEF NoSession, Session
<1>2. TaskOK(Idle)
  BY DEF Idle, TaskOK
<1>3. 0 \in 0 .. MaxFailures
  BY ChatSessionAssumption DEF ChatSessionAssumption
<1>4. Shape
  BY <1>1, <1>3 DEF Init, Shape
<1>5. WorkInv /\ SessionsAreSound /\ Accounts
  BY <1>1, <1>2 DEF Init, WorkInv, SessionsAreSound, Accounts
<1> QED  BY <1>4, <1>5 DEF Inv

LEMMA NextInv == Inv /\ [Next]_vars => Inv'
<1> SUFFICES ASSUME Shape, WorkInv, SessionsAreSound, Accounts, [Next]_vars
             PROVE  Inv'
  BY DEF Inv
<1> USE DEF scrapper
<1>1. ASSUME NEW h \in Handlers, NEW c \in Chats, NEW cmd \in Commands, NEW arg \in Args,
             Receive(h, c, cmd, arg)
      PROVE  Inv'
  <2>1. PICK t \in Task : work' = [work EXCEPT ![h] = t] /\ TaskOK(t)
    BY <1>1, ReceiveMoves
  <2>2. work[h].pc = "idle" /\ UNCHANGED <<transport, session, scrapper, late, credit, failures>>
    BY <1>1, ReceiveMoves
  <2>3. \A d \in Chats : ~Owns(work[h], d)
    BY <2>2 DEF Owns
  <2>4. work' \in [Handlers -> Task \cup {Idle}] /\ WorkInv'
    BY <2>1, WorkFrame
  <2>5. SessionsAreSound'
    BY <2>1, <2>2, <2>3, SoundFrame
  <2> QED  BY <2>2, <2>4, <2>5 DEF Inv, Shape, Accounts
<1>2. ASSUME NEW h \in Handlers, Dialogue(h)
      PROVE  Inv'
  BY <1>2, DialogueStep DEF Inv, Shape, Accounts
<1>3. ASSUME NEW h \in Handlers, Call(h)
      PROVE  Inv'
  <2>1. UNCHANGED <<transport, session>>
    BY <1>3, CallMoves
  <2>2. PICK t : AfterAttempt(h, t)
    BY <1>3, CallMoves
  <2>3. work' \in [Handlers -> Task \cup {Idle}] /\ WorkInv'
    BY <2>2, WorkFrame DEF AfterAttempt
  <2>4. SessionsAreSound'
    BY <2>1, <2>2, SoundFrame DEF AfterAttempt
  <2> QED  BY <1>3, <2>1, <2>3, <2>4, CallStep DEF Inv, Shape
<1>4. ASSUME NEW h \in Handlers, Send(h) \/ SendFails(h)
      PROVE  Inv'
  <2>1. work[h].pc = "send" /\ UNCHANGED <<transport, session, scrapper, late, credit, failures>>
    BY <1>4 DEF Send, SendFails, At
  <2>2. work[h] \in Task
    BY <2>1, BusyTask
  <2>3. PICK t \in Task \cup {Idle} : work' = [work EXCEPT ![h] = t] /\ TaskOK(t)
    <3>1. TaskOK(Idle)
      BY DEF Idle, TaskOK
    <3>2. CASE work' = [work EXCEPT ![h] = Idle]
      BY <3>1, <3>2
    <3>3. CASE /\ work[h].attempt + 1 < MaxAttempts
               /\ work' = [work EXCEPT ![h].attempt = @ + 1]
      <4> DEFINE t == [work[h] EXCEPT !.attempt = @ + 1]
      <4>1. work' = [work EXCEPT ![h] = t]
        BY <3>3, <2>2 DEF Shape, Task
      <4>2. t \in Task /\ t.pc = "send"
        BY <3>3, <2>1, <2>2, ChatSessionAssumption DEF Task, ChatSessionAssumption
      <4> QED  BY <4>1, <4>2 DEF TaskOK
    <3> QED  BY <1>4, <3>2, <3>3 DEF Send, SendFails
  <2>4. \A d \in Chats : ~Owns(work[h], d)
    BY <2>1 DEF Owns
  <2>5. work' \in [Handlers -> Task \cup {Idle}] /\ WorkInv'
    BY <2>3, WorkFrame
  <2>6. SessionsAreSound'
    BY <2>1, <2>3, <2>4, SoundFrame
  <2> QED  BY <2>1, <2>5, <2>6 DEF Inv, Shape, Accounts
<1>5. ASSUME NEW r \in Changes, ExecuteLate(r)
      PROVE  Inv'
  BY <1>5, ExecuteLateStep DEF Inv, Shape, WorkInv, SessionsAreSound
<1>6. CASE Restart
  <2>1. NoSession \in Session /\ NoSession.state = "none"
    BY DEF NoSession, Session
  <2>2. TaskOK(Idle)
    BY DEF Idle, TaskOK
  <2>3. /\ session' = [c \in Chats |-> NoSession] /\ work' = [h \in Handlers |-> Idle]
        /\ UNCHANGED <<transport, users, tracked>>
    BY <1>6 DEF Restart
  <2>4. WorkInv' /\ SessionsAreSound'
    BY <2>1, <2>2, <2>3 DEF WorkInv, SessionsAreSound
  <2> QED  BY <1>6, <2>1, <2>3, <2>4, RestartStep DEF Inv, Shape
<1>7. CASE UNCHANGED vars
  BY <1>7 DEF vars, Inv, Shape, WorkInv, SessionsAreSound, Accounts
<1> QED
  BY <1>1, <1>2, <1>3, <1>4, <1>5, <1>6, <1>7 DEF Next, Handle

LEMMA InvHolds == Spec => []Inv
  BY InitInv, NextInv, PTL DEF Spec

(* The sessions, the goroutines, the scrapper's tables and the accounts    *)
(* keep their types.                                                       *)
THEOREM TypeCorrect == Spec => []TypeOK
<1>1. Inv => TypeOK
  BY TypesFollow DEF Inv
<1> QED  BY <1>1, InvHolds, PTL

(* A chat that is asked for tags has given a link, whatever its other      *)
(* messages did meanwhile; an entry made by SetTags alone has a handler    *)
(* that will remove it.                                                    *)
THEOREM SessionsStaySound == Spec => []SessionsAreSound
<1>1. Inv => SessionsAreSound
  BY DEF Inv
<1> QED  BY <1>1, InvHolds, PTL

(* No answer says "done" for an execution that another answer was given    *)
(* for, or for none.                                                       *)
THEOREM DoneStaysBacked == Spec => []DoneIsBacked
<1>1. Inv => DoneIsBacked
  BY DEF Inv, Accounts, DoneIsBacked
<1> QED  BY <1>1, InvHolds, PTL

(* Every execution that no answer was given for has cost a lost reply, an  *)
(* abandoned request or a restart.                                         *)
THEOREM EffectsAreReported == Spec => []EffectIsReported
<1>1. Inv => EffectIsReported
  BY DEF Inv, Shape, Accounts, EffectIsReported
<1> QED  BY <1>1, InvHolds, PTL
=============================================================================
