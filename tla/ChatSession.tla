----------------------------- MODULE ChatSession -----------------------------
(***************************************************************************)
(* The bot's dialogue with a chat (internal/bot/application) and the calls *)
(* it makes to the scrapper (internal/bot/infrastructure/{grpc,http}).     *)
(*                                                                         *)
(* Every message is handled in a goroutine of its own: it reads the chat's *)
(* session, decides, and acts on what may have changed meanwhile.  A call  *)
(* is tried again when it failed, although a failed attempt may have done  *)
(* its work, and may be given up while the scrapper still works on it.     *)
(*                                                                         *)
(* The scrapper executes a request in one step here; Subscriptions has its *)
(* transactions and their interleaving.                                    *)
(***************************************************************************)
EXTENDS Integers, FiniteSets

CONSTANTS
  Chats,        \* telegram chats
  Links,        \* links that can be tracked
  BadText,      \* an argument that is no link
  NoText,       \* no argument
  Handlers,     \* goroutines at work at the same time
  NoChat,       \* the chat of an idle handler
  MaxAttempts,  \* BOT_RETRY_MAX_ATTEMPTS
  MaxFailures   \* bound: lost replies, abandoned requests, restarts

ASSUME ChatSessionAssumption ==
  /\ NoChat \notin Chats
  /\ BadText # NoText /\ {BadText, NoText} \cap Links = {}
  /\ IsFiniteSet(Handlers)
  /\ MaxAttempts \in Nat \ {0}
  /\ MaxFailures \in Nat

VARIABLES
  transport,    \* REQUEST_PROTOCOL
  session,      \* the bot's map of chat states
  work,         \* state of each handler
  users,        \* the scrapper's table users
  tracked,      \* the scrapper's table subscriptions
  late,         \* abandoned requests the scrapper may still execute
  credit,       \* history: executions of a request less answers that it is done
  failures      \* failures so far

scrapper == <<users, tracked>>
vars == <<transport, session, work, scrapper, late, credit, failures>>

Texts == Links \cup {BadText}
Args  == Texts \cup {NoText}

(* ChatState.  "none" is a missing entry, which Get reports as available;  *)
(* "available" is an entry that SetTags made for want of one.              *)
Session == [state: {"none", "available", "link"}, url: {NoText}]
             \cup [state: {"tags"}, url: Args]

NoSession == [state |-> "none", url |-> NoText]

(* help, cancel and everything unknown are "other"; addtags and cleartags  *)
(* are "tag".                                                              *)
Commands == {"start", "track", "untrack", "list", "tag", "url", "tags", "other"}

(* What a chat in the state read does with a command, if it acts at all:   *)
(* the steps of the dialogue, and the calls to the scrapper.               *)
Calls == {"start", "track", "untrack", "list", "tag"}

NeedsText == {"untrack", "tag"}

(* The requests that change the scrapper's tables. *)
Changes == [op: {"start"}, chat: Chats, text: {NoText}]
             \cup [op: {"track", "untrack"}, chat: Chats, text: Links]

(* pc: "begin" and "url" store a step of the dialogue, "cancel" ends it,   *)
(* "tags" and "get" store the tags and read the session back, "clear" is   *)
(* before a call to start, "call" before an attempt, "remove" after a call *)
(* to track, and "send" is the reply.                                      *)
Task ==
  [pc: {"begin", "url", "cancel", "tags", "get", "call", "clear", "remove", "send"},
   op: Calls, chat: Chats, text: Args, attempt: 0 .. MaxAttempts - 1]

Idle == [pc |-> "idle", op |-> "list", chat |-> NoChat, text |-> NoText, attempt |-> 0]

TypeOK ==
  /\ transport \in {"grpc", "http"}
  /\ session \in [Chats -> Session]
  /\ work \in [Handlers -> Task \cup {Idle}]
  /\ users \subseteq Chats
  /\ tracked \in [Chats -> SUBSET Links]
  /\ late \in [Changes -> 0 .. MaxFailures]
  /\ credit \in [Changes -> Int]
  /\ failures \in 0 .. MaxFailures

Init ==
  /\ transport \in {"grpc", "http"}
  /\ session = [c \in Chats |-> NoSession]
  /\ work = [h \in Handlers |-> Idle]
  /\ users = {}
  /\ tracked = [c \in Chats |-> {}]
  /\ late = [r \in Changes |-> 0]
  /\ credit = [r \in Changes |-> 0]
  /\ failures = 0

Fail == failures < MaxFailures /\ failures' = failures + 1

At(h, pc) == work[h].pc = pc

Goto(h, pc) == work' = [work EXCEPT ![h].pc = pc, ![h].attempt = 0]

(* The reply is ready; what was asked is of no more consequence. *)
Answer(h) == work' = [work EXCEPT ![h] = [Idle EXCEPT !.pc = "send", !.chat = work[h].chat]]

Store(c, s) == session' = [session EXCEPT ![c] = s]

RequestOf(h) == [op |-> work[h].op, chat |-> work[h].chat, text |-> work[h].text]

----------------------------------------------------------------------------
(* The dialogue. *)

(* Handle: what the command leads to in the state the session is in.       *)
NextStep(state, cmd, arg) ==
  IF state = "link" THEN
    IF cmd # "url" THEN "cancel" ELSE IF arg = NoText THEN "send" ELSE "url"
  ELSE IF state = "tags" THEN
    IF cmd = "tags" THEN "tags" ELSE "cancel"
  ELSE
    CASE cmd = "track" -> "begin"
      [] cmd = "start" -> "clear"
      [] cmd = "list" \/ (cmd \in NeedsText /\ arg # NoText) -> "call"
      [] OTHER -> "send"

Receive(h, c, cmd, arg) ==
  LET state == IF session[c].state = "none" THEN "available" ELSE session[c].state
      pc == NextStep(state, cmd, arg)
  IN  /\ At(h, "idle")
      /\ arg # NoText => cmd \in NeedsText \cup {"url"}
      /\ work' = [work EXCEPT ![h] = [Idle EXCEPT
           !.pc = pc,
           !.op = IF pc = "tags" THEN "track" ELSE IF pc \in {"clear", "call"} THEN cmd ELSE @,
           !.chat = c,
           !.text = IF pc \in {"url", "call"} THEN arg ELSE @]]
      /\ UNCHANGED <<transport, session, scrapper, late, credit, failures>>

(* Fault: what the entry held before is kept. *)
FaultKeepsUrl(h) ==
  /\ At(h, "begin")
  /\ session' = [session EXCEPT ![work[h].chat].state = "link"]
  /\ Answer(h)
  /\ UNCHANGED <<transport, scrapper, late, credit, failures>>

StartTracking(h) ==
  /\ At(h, "begin")
  /\ Store(work[h].chat, [state |-> "link", url |-> NoText])
  /\ Answer(h)
  /\ UNCHANGED <<transport, scrapper, late, credit, failures>>

SetURL(h) ==
  /\ At(h, "url")
  /\ Store(work[h].chat, [state |-> "tags", url |-> work[h].text])
  /\ Answer(h)
  /\ UNCHANGED <<transport, scrapper, late, credit, failures>>

Cancel(h) ==
  /\ At(h, "cancel")
  /\ Store(work[h].chat, NoSession)
  /\ Answer(h)
  /\ UNCHANGED <<transport, scrapper, late, credit, failures>>

(* /start removes the session before it registers the chat. *)
Start(h) ==
  /\ At(h, "clear")
  /\ Store(work[h].chat, NoSession)
  /\ Goto(h, "call")
  /\ UNCHANGED <<transport, scrapper, late, credit, failures>>

(* The tags themselves are of no consequence here; a missing entry is made *)
(* with the zero state. *)
SetTags(h) ==
  LET s == session[work[h].chat]
  IN  /\ At(h, "tags")
      /\ Store(work[h].chat, IF s = NoSession THEN [s EXCEPT !.state = "available"] ELSE s)
      /\ Goto(h, "get")
      /\ UNCHANGED <<transport, scrapper, late, credit, failures>>

(* The link is read back, which a concurrent message may have changed.     *)
GetURL(h) ==
  /\ At(h, "get")
  /\ work' = [work EXCEPT ![h].pc = "call", ![h].text = session[work[h].chat].url]
  /\ UNCHANGED <<transport, session, scrapper, late, credit, failures>>

(* Fault: the session is not removed after the call. *)
FaultKeepsSession(h) ==
  /\ At(h, "remove")
  /\ Answer(h)
  /\ UNCHANGED <<transport, session, scrapper, late, credit, failures>>

(* Whatever came of the call, the dialogue is over. *)
EndTracking(h) ==
  /\ At(h, "remove")
  /\ Store(work[h].chat, NoSession)
  /\ Answer(h)
  /\ UNCHANGED <<transport, scrapper, late, credit, failures>>

----------------------------------------------------------------------------
(* The scrapper. *)

(* The answer of the service to a request. *)
Result(r) ==
  CASE r.op = "start" -> IF r.chat \in users THEN "exists" ELSE "ok"
    [] r.op # "start" /\ r.chat \notin users -> "nochat"
    [] r.op = "track" /\ r.chat \in users ->
         IF r.text \notin Links THEN "invalid" ELSE
           IF r.text \in tracked[r.chat] THEN "exists" ELSE "ok"
    [] r.op \in NeedsText /\ r.chat \in users ->
         IF r.text \in tracked[r.chat] THEN "ok" ELSE "nolink"
    [] OTHER -> "ok"

Effect(r) == IF Result(r) = "ok" THEN 1 ELSE 0

(* The account of a request, if it is one that changes something. *)
Account(r, n) ==
  credit' = [q \in Changes |-> IF q = r THEN credit[q] + n ELSE credit[q]]

Execute(r) ==
  /\ users' = IF r.op = "start" THEN users \cup {r.chat} ELSE users
  /\ tracked' = [tracked EXCEPT ![r.chat] =
       CASE r.op = "track" /\ Result(r) = "ok" -> @ \cup {r.text}
         [] r.op = "untrack" /\ Result(r) = "ok" -> @ \ {r.text}
         [] OTHER -> @]

(* The status the server makes of it.  An unknown chat is ErrNotFound,     *)
(* which only the gRPC server maps; the HTTP handlers answer with the      *)
(* status of their default branch.                                         *)
Status(op, result) ==
  IF result \in {"ok", "exists"} THEN result
  ELSE IF result = "nolink" THEN "notfound"
  ELSE IF transport = "grpc" THEN IF result = "nochat" THEN "notfound" ELSE "internal"
  ELSE IF op \in NeedsText THEN "internal" ELSE "bad"

----------------------------------------------------------------------------
(* The client. *)

(* Fault: a request the scrapper did before counts as done. *)
FaultExistsIsDone(status) == status \in {"ok", "exists"}

(* mapErrors, mapStatusCodes: nil. *)
IsDone(status) == status = "ok"

(* Fault: the retrier asks the list of codes before it looks for an error. *)
FaultRetriesAll(status) == TRUE

(* NewGRPCRetryableFunc with BOT_RETRY_GRPC_CODES.  Over HTTP the function *)
(* that DoWithCode calls returns no error with a status, so that no status *)
(* is ever tried again.                                                    *)
IsRetryable(status) == transport = "grpc" /\ status = "internal"

(* A call ends: a call to track first removes the session. *)
Return(h) == IF work[h].op = "track" THEN Goto(h, "remove") ELSE Answer(h)

(* Fault: attempts have no limit (the number starts over to be finite). *)
FaultNoLimit(h) == work' = [work EXCEPT ![h].attempt = (@ + 1) % MaxAttempts]

(* The next attempt, if one is left. *)
TryAgain(h) ==
  IF work[h].attempt + 1 < MaxAttempts
    THEN work' = [work EXCEPT ![h].attempt = @ + 1]
    ELSE Return(h)

(* An attempt is answered, by the service or by an error of its database.  *)
Reply(h) ==
  LET r == RequestOf(h)
      status == Status(r.op, Result(r))
      retry == IsRetryable(status)
      told == IF IsDone(status) /\ ~retry THEN 1 ELSE 0
  IN  /\ At(h, "call")
      /\ Execute(r)
      /\ Account(r, Effect(r) - told)
      /\ IF retry THEN TryAgain(h) ELSE Return(h)
      /\ UNCHANGED <<transport, session, late, failures>>

ReplyWithError(h) ==
  /\ At(h, "call")
  /\ IF IsRetryable(Status(work[h].op, "error")) THEN TryAgain(h) ELSE Return(h)
  /\ UNCHANGED <<transport, session, scrapper, late, credit, failures>>

(* The scrapper cannot be reached: a transport error. *)
Unreachable(h) ==
  /\ At(h, "call")
  /\ TryAgain(h)
  /\ UNCHANGED <<transport, session, scrapper, late, credit, failures>>

(* It did what it was asked, and the reply was lost: the same error. *)
ReplyLost(h) ==
  /\ At(h, "call")
  /\ Fail
  /\ Execute(RequestOf(h))
  /\ Account(RequestOf(h), Effect(RequestOf(h)))
  /\ TryAgain(h)
  /\ UNCHANGED <<transport, session, late>>

(* The breaker is open, or the time for all attempts is over: unavailable. *)
GiveUp(h) ==
  /\ At(h, "call")
  /\ Return(h)
  /\ UNCHANGED <<transport, session, scrapper, late, credit, failures>>

(* The same in the middle of an attempt. *)
Abandon(h) ==
  /\ At(h, "call")
  /\ RequestOf(h) \in Changes
  /\ Fail
  /\ late' = [late EXCEPT ![RequestOf(h)] = @ + 1]
  /\ Return(h)
  /\ UNCHANGED <<transport, session, scrapper, credit>>

ExecuteLate(r) ==
  /\ late[r] > 0
  /\ late' = [late EXCEPT ![r] = @ - 1]
  /\ Execute(r)
  /\ Account(r, Effect(r))
  /\ UNCHANGED <<transport, session, work, failures>>

----------------------------------------------------------------------------
(* The handler sends the answer to Telegram, with the same retrier; an     *)
(* error that it does not try again ends the handler as the answer does.   *)
Send(h) ==
  /\ At(h, "send")
  /\ work' = [work EXCEPT ![h] = Idle]
  /\ UNCHANGED <<transport, session, scrapper, late, credit, failures>>

SendFails(h) ==
  /\ At(h, "send")
  /\ IF work[h].attempt + 1 < MaxAttempts
       THEN work' = [work EXCEPT ![h].attempt = @ + 1]
       ELSE work' = [work EXCEPT ![h] = Idle]
  /\ UNCHANGED <<transport, session, scrapper, late, credit, failures>>

(* The bot dies with its sessions; of the requests it was waiting for, the *)
(* scrapper may have some in work.                                         *)
Restart ==
  /\ \E left \in SUBSET {h \in Handlers : At(h, "call") /\ RequestOf(h) \in Changes} :
       /\ failures + 1 + Cardinality(left) <= MaxFailures
       /\ failures' = failures + 1 + Cardinality(left)
       /\ late' = [r \in Changes |->
            late[r] + Cardinality({h \in left : RequestOf(h) = r})]
  /\ session' = [c \in Chats |-> NoSession]
  /\ work' = [h \in Handlers |-> Idle]
  /\ UNCHANGED <<transport, scrapper, credit>>

----------------------------------------------------------------------------
Dialogue(h) ==
  StartTracking(h) \/ SetURL(h) \/ Cancel(h) \/ Start(h) \/ SetTags(h)
    \/ GetURL(h) \/ EndTracking(h)

Call(h) ==
  Reply(h) \/ ReplyWithError(h) \/ Unreachable(h) \/ ReplyLost(h) \/ GiveUp(h)
    \/ Abandon(h)

Handle(h) == Dialogue(h) \/ Call(h) \/ Send(h) \/ SendFails(h)

Next ==
  \/ \E h \in Handlers, c \in Chats, cmd \in Commands, arg \in Args :
       Receive(h, c, cmd, arg)
  \/ \E h \in Handlers : Handle(h)
  \/ \E r \in Changes : ExecuteLate(r)
  \/ Restart

Spec == Init /\ [][Next]_vars

(* A goroutine goes on. *)
FairSpec == Spec /\ \A h \in Handlers : WF_vars(Handle(h))

----------------------------------------------------------------------------
(* Correctness. *)

(* Handlers act on sessions they read before others changed them; still a  *)
(* chat that is asked for tags has given a link, and an entry that SetTags *)
(* made without a dialogue is one its handler will remove.                 *)
SessionsAreSound ==
  \A c \in Chats :
    /\ session[c].state = "tags" => session[c].url # NoText
    /\ session[c].state = "available" =>
         \E h \in Handlers : /\ work[h].pc \in {"get", "call", "remove"}
                             /\ work[h].op = "track"
                             /\ work[h].chat = c

(* A chat is told that a request is done only if the scrapper did it for   *)
(* this answer: retries, lost replies and requests that run after they     *)
(* were given up never make one execution answer twice.                    *)
DoneIsBacked == \A r \in Changes : credit[r] >= 0

(* What the scrapper did, the chat is told, unless a reply was lost, a     *)
(* request given up or the bot restarted.                                  *)
EffectIsReported == \A r \in Changes : credit[r] <= failures

(* Every message is answered (or its answer given up), although the        *)
(* scrapper and Telegram may stay out of reach.                            *)
EveryMessageAnswered == \A h \in Handlers : ~At(h, "idle") ~> At(h, "idle")
============================================================================
