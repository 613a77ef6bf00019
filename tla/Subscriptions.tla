---------------------------- MODULE Subscriptions ----------------------------
(***************************************************************************)
(* The scrapper's subscription service behind its read cache:              *)
(* CachedScrapperService around ScrapperService                            *)
(* (internal/scrapper/application/subscription_*.go).                      *)
(*                                                                         *)
(* A command runs in one transaction, which first looks up the chat and    *)
(* the link and then writes; other commands commit in between.  After the  *)
(* commit, and only then, the chat's entry in Valkey is deleted.  A list   *)
(* reads the entry, or else the tables, and stores what it read.           *)
(*                                                                         *)
(* A link is tracked under the text the chat typed; the tables know it by  *)
(* its normalised path, so that several texts mean one link.               *)
(***************************************************************************)
EXTENDS Integers, FiniteSets

CONSTANTS
  Chats,        \* telegram chats
  Links,        \* normalised paths
  Spellings,    \* ways to write a link
  Tags,
  Handlers,     \* requests the service works on at the same time
  NoChat, NoText, \* fields of an idle handler
  MaxFailures   \* bound: failed transactions, cache commands, and crashes

ASSUME SubscriptionsAssumption ==
  /\ NoChat \notin Chats
  /\ NoText \notin Links \X Spellings
  /\ MaxFailures \in Nat

VARIABLES
  users,        \* rows of table users
  links,        \* rows of table links
  subs,         \* rows of table subscriptions
  cached,       \* chats with an entry in Valkey
  cache,        \* what the entry holds
  req,          \* state of each handler
  failures,     \* failures so far
  disturbed     \* history: chats whose requests overlapped, or whose entry
                \* outlived a write because its deletion failed or because the
                \* answer of its commit was lost, since the entry was last
                \* deleted in peace

tables == <<users, links, subs>>
vars == <<tables, cached, cache, req, failures, disturbed>>

Texts == Links \X Spellings

(* NewTrackedLink(text).Path(). *)
Path(text) == text[1]

Sub == [chat: Chats, text: Texts, tags: SUBSET Tags]

Ops == {"start", "stop", "track", "untrack", "tag", "untag", "list"}

(* The errors of the service, and what became of a request otherwise:      *)
(* "none" before it is answered, "error" for an internal error.            *)
Outcomes == {"none", "ok", "error", "NotFound", "AlreadyExists",
             "LinkNotFound", "LinkAlreadyTracked"}

NeedsLink == {"untrack", "tag", "untag"}
WithText  == {"track"} \cup NeedsLink

(* A request in work; known: the link was found before the write; seen:    *)
(* the rows a list read.                                                   *)
Active(ops, texts) ==
  [pc: {"get", "find", "write", "set", "delete"}, op: ops, chat: Chats,
   text: texts, tags: SUBSET Tags, known: BOOLEAN, seen: SUBSET Sub,
   outcome: {"none"}]

Done(outcome) == [pc |-> "idle", op |-> "list", chat |-> NoChat, text |-> NoText,
                  tags |-> {}, known |-> FALSE, seen |-> {}, outcome |-> outcome]

Idle == Done("none")

Request == {Done(o) : o \in Outcomes} \cup Active(WithText, Texts)
             \cup Active(Ops \ WithText, {NoText})

TypeOK ==
  /\ users \subseteq Chats
  /\ links \subseteq Links
  /\ subs \subseteq Sub
  /\ \A s, t \in subs : (s.chat = t.chat /\ Path(s.text) = Path(t.text)) => s = t
  /\ cached \subseteq Chats
  /\ cache \in [Chats -> SUBSET Sub]
  /\ req \in [Handlers -> Request]
  /\ failures \in 0 .. MaxFailures
  /\ disturbed \subseteq Chats

Init ==
  /\ users = {}
  /\ links = {}
  /\ subs = {}
  /\ cached = {}
  /\ cache = [c \in Chats |-> {}]
  /\ req = [h \in Handlers |-> Idle]
  /\ failures = 0
  /\ disturbed = {}

Fail == failures < MaxFailures /\ failures' = failures + 1

View(c) == {s \in subs : s.chat = c}

Busy(h, c) == req[h].pc # "idle" /\ req[h].chat = c

Goto(h, pc) == req' = [req EXCEPT ![h].pc = pc]

Answer(h, outcome) == req' = [req EXCEPT ![h] = Done(outcome)]

At(h, pc, ops) == req[h].pc = pc /\ req[h].op \in ops

----------------------------------------------------------------------------
(* A request arrives.  AddTags refuses an empty list of tags. *)
Arrive(h, op, c, text, tags) ==
  /\ req[h].pc = "idle"
  /\ op = "tag" => tags # {}
  /\ op \notin {"track", "tag"} => tags = {}
  /\ text \in IF op \in WithText THEN Texts ELSE {NoText}
  /\ req' = [req EXCEPT ![h] = [Idle EXCEPT
       !.pc = IF op = "list" THEN "get" ELSE "find",
       !.op = op, !.chat = c, !.text = text, !.tags = tags]]
  /\ disturbed' = IF \E k \in Handlers : Busy(k, c) THEN disturbed \cup {c} ELSE disturbed
  /\ UNCHANGED <<tables, cached, cache, failures>>

----------------------------------------------------------------------------
(* The transactions. *)

(* AddClient: one INSERT, without a transaction and without invalidation. *)
AddClient(h) ==
  /\ At(h, "find", {"start"})
  /\ users' = users \cup {req[h].chat}
  /\ Answer(h, IF req[h].chat \in users THEN "AlreadyExists" ELSE "ok")
  /\ UNCHANGED <<links, subs, cached, cache, failures, disturbed>>

(* ensureClientExists, and GetLinkByName where a link is given. *)
Find(h) ==
  LET known == req[h].op \in WithText /\ Path(req[h].text) \in links
  IN  /\ At(h, "find", Ops \ {"start"})
      /\ \/ /\ req[h].chat \notin users
            /\ Answer(h, "NotFound")
         \/ /\ req[h].chat \in users
            /\ req[h].op \in NeedsLink
            /\ ~known
            /\ Answer(h, "LinkNotFound")
         \/ /\ req[h].chat \in users
            /\ req[h].op \in WithText
            /\ req[h].op \in NeedsLink => known
            /\ req' = [req EXCEPT ![h].pc = "write", ![h].known = known]
         \/ /\ req[h].chat \in users
            /\ req[h].op \in {"list", "stop"}
            /\ Goto(h, "write")
      /\ UNCHANGED <<tables, cached, cache, failures, disturbed>>

(* Fault: what was found about the chat before is relied upon. *)
FaultTrustsFind(h) == TRUE

(* The foreign key of subscriptions. *)
StillRegistered(h) == req[h].chat \in users

(* Fault: UNIQUE(user_id, link) in place of UNIQUE(user_id, res_id). *)
FaultUniqueText(h) == {s \in View(req[h].chat) : s.text = req[h].text}

(* The chat's subscriptions to the request's link. *)
Tracked(h) == {s \in View(req[h].chat) : Path(s.text) = Path(req[h].text)}

(* subscribeTx: AddLink, if the link was not there before, and             *)
(* AddSubscription.                                                        *)
Subscribe(h) ==
  /\ At(h, "write", {"track"})
  /\ req[h].known \/ Path(req[h].text) \notin links
  /\ StillRegistered(h)
  /\ Tracked(h) = {}
  /\ links' = links \cup {Path(req[h].text)}
  /\ subs' = subs \cup {[chat |-> req[h].chat, text |-> req[h].text,
                         tags |-> req[h].tags]}
  /\ Goto(h, "delete")
  /\ UNCHANGED <<users, cached, cache, failures, disturbed>>

(* It rolls back: the link was added meanwhile (UNIQUE(path), reported as  *)
(* ErrAlreadyExists), the chat was removed, or it tracks the link already. *)
SubscribeRefused(h) ==
  LET lostRace == ~req[h].known /\ Path(req[h].text) \in links
  IN  /\ At(h, "write", {"track"})
      /\ \/ lostRace /\ Answer(h, "AlreadyExists")
         \/ ~lostRace /\ ~StillRegistered(h) /\ Answer(h, "error")
         \/ ~lostRace /\ StillRegistered(h) /\ Tracked(h) # {}
              /\ Answer(h, "LinkAlreadyTracked")
      /\ UNCHANGED <<tables, cached, cache, failures, disturbed>>

(* unsubscribeTx: DELETE ... AND link = $3, the text as it is given now. *)
UnSubscribe(h) ==
  LET same == {s \in Tracked(h) : s.text = req[h].text}
  IN  /\ At(h, "write", {"untrack"})
      /\ subs' = subs \ same
      /\ IF same = {} THEN Answer(h, "LinkNotFound") ELSE Goto(h, "delete")
      /\ UNCHANGED <<users, links, cached, cache, failures, disturbed>>

Retagged(h) ==
  {[s EXCEPT !.tags = IF req[h].op = "tag" THEN @ \cup req[h].tags ELSE {}] :
     s \in Tracked(h)}

(* Fault: the entry in the cache is forgotten. *)
FaultTagsOnly(h) ==
  /\ At(h, "write", {"tag", "untag"})
  /\ subs' = (subs \ Tracked(h)) \cup Retagged(h)
  /\ Answer(h, "ok")
  /\ UNCHANGED <<users, links, cached, cache, failures, disturbed>>

(* addTagsTx and clearTagsTx. *)
ChangeTags(h) ==
  /\ At(h, "write", {"tag", "untag"})
  /\ subs' = (subs \ Tracked(h)) \cup Retagged(h)
  /\ IF Tracked(h) = {} THEN Answer(h, "LinkNotFound") ELSE Goto(h, "delete")
  /\ UNCHANGED <<users, links, cached, cache, failures, disturbed>>

(* removeClientTx: a chat without subscriptions is ErrNotFound. *)
RemoveClient(h) ==
  /\ At(h, "write", {"stop"})
  /\ \/ /\ View(req[h].chat) = {}
        /\ Answer(h, "NotFound")
        /\ UNCHANGED <<users, subs>>
     \/ /\ View(req[h].chat) # {}
        /\ subs' = subs \ View(req[h].chat)
        /\ users' = users \ {req[h].chat}
        /\ Goto(h, "delete")
  /\ UNCHANGED <<links, cached, cache, failures, disturbed>>

(* A statement or the commit fails, and the database keeps nothing of the  *)
(* transaction; among the reasons is a subscription that is added between  *)
(* the two DELETEs of removeClientTx.                                      *)
TxFails(h) ==
  /\ req[h].pc \in {"find", "write"}
  /\ Fail
  /\ Answer(h, "error")
  /\ UNCHANGED <<tables, cached, cache, disturbed>>

(* The database has committed, and tx.Commit returns an error all the      *)
(* same, its answer lost or its context ended: the request fails, and the  *)
(* cached service returns before it has deleted the entry.                 *)
CommitUnanswered(h) ==
  /\ req[h].pc = "delete"
  /\ Fail
  /\ Answer(h, "error")
  /\ disturbed' = disturbed \cup {req[h].chat}
  /\ UNCHANGED <<tables, cached, cache>>

(* The INSERT of AddClient commits by itself, and its answer is lost.      *)
AddClientUnanswered(h) ==
  /\ At(h, "find", {"start"})
  /\ Fail
  /\ users' = users \cup {req[h].chat}
  /\ Answer(h, "error")
  /\ UNCHANGED <<links, subs, cached, cache, disturbed>>

----------------------------------------------------------------------------
(* The cache. *)

(* GetLinks: the entry is there. *)
CacheHit(h) ==
  /\ At(h, "get", {"list"})
  /\ req[h].chat \in cached
  /\ Answer(h, "ok")
  /\ UNCHANGED <<tables, cached, cache, failures, disturbed>>

CacheMiss(h) ==
  /\ At(h, "get", {"list"})
  /\ req[h].chat \notin cached
  /\ Goto(h, "find")
  /\ UNCHANGED <<tables, cached, cache, failures, disturbed>>

(* An error of Get counts as a miss, and one of Set is only logged. *)
CacheGetFails(h) ==
  /\ At(h, "get", {"list"})
  /\ Fail
  /\ Goto(h, "find")
  /\ UNCHANGED <<tables, cached, cache, disturbed>>

(* getLinksTx: the rows are read ... *)
ReadSubscriptions(h) ==
  /\ At(h, "write", {"list"})
  /\ req' = [req EXCEPT ![h].pc = "set", ![h].seen = View(req[h].chat)]
  /\ UNCHANGED <<tables, cached, cache, failures, disturbed>>

(* ... and stored, as they were then. *)
CacheSet(h) ==
  /\ At(h, "set", {"list"})
  /\ cached' = cached \cup {req[h].chat}
  /\ cache' = [cache EXCEPT ![req[h].chat] = req[h].seen]
  /\ Answer(h, "ok")
  /\ UNCHANGED <<tables, failures, disturbed>>

CacheSetFails(h) ==
  /\ At(h, "set", {"list"})
  /\ Fail
  /\ Answer(h, "ok")
  /\ UNCHANGED <<tables, cached, cache, disturbed>>

Forget(c, others) ==
  /\ cached' = cached \ {c}
  /\ cache' = [cache EXCEPT ![c] = {}]
  /\ disturbed' = IF \E k \in others : Busy(k, c) THEN disturbed ELSE disturbed \ {c}

(* invalidateCache. *)
CacheDelete(h) ==
  /\ req[h].pc = "delete"
  /\ Forget(req[h].chat, Handlers \ {h})
  /\ Answer(h, "ok")
  /\ UNCHANGED <<tables, failures>>

(* An error is logged, and the request succeeds. *)
CacheDeleteFails(h) ==
  /\ req[h].pc = "delete"
  /\ Fail
  /\ Answer(h, "ok")
  /\ disturbed' = disturbed \cup {req[h].chat}
  /\ UNCHANGED <<tables, cached, cache>>

(* VALKEY_TTL. *)
Expire(c) ==
  /\ c \in cached
  /\ Forget(c, Handlers)
  /\ UNCHANGED <<tables, req, failures>>

(* The scrapper dies; requests before the commit are as if never made. *)
Crash ==
  /\ Fail
  /\ req' = [h \in Handlers |-> Idle]
  /\ disturbed' = disturbed \cup {c \in Chats :
       \E h \in Handlers : req[h].pc = "delete" /\ req[h].chat = c}
  /\ UNCHANGED <<tables, cached, cache>>

----------------------------------------------------------------------------
Step(h) ==
  \/ \E op \in Ops, c \in Chats, text \in Texts \cup {NoText}, tags \in SUBSET Tags :
       Arrive(h, op, c, text, tags)
  \/ AddClient(h)
  \/ Find(h)
  \/ Subscribe(h) \/ SubscribeRefused(h)
  \/ UnSubscribe(h)
  \/ ChangeTags(h)
  \/ RemoveClient(h)
  \/ CacheHit(h) \/ CacheMiss(h)
  \/ ReadSubscriptions(h)
  \/ CacheSet(h)
  \/ CacheDelete(h)

Failure(h) ==
  \/ TxFails(h) \/ CommitUnanswered(h) \/ AddClientUnanswered(h)
  \/ CacheGetFails(h) \/ CacheSetFails(h) \/ CacheDeleteFails(h)

Next ==
  \/ \E h \in Handlers : Step(h) \/ Failure(h)
  \/ \E c \in Chats : Expire(c)
  \/ Crash

Spec == Init /\ [][Next]_vars

----------------------------------------------------------------------------
(* Correctness. *)

(* Only registered chats have subscriptions, although a chat may be        *)
(* removed between the first read of a subscribing transaction and its     *)
(* INSERT: a removed chat gets no notifications.                           *)
RemovedChatIsForgotten == \A s \in subs : s.chat \in users

(* The entry of a chat in the cache is what the tables say, or a command   *)
(* is about to delete it, unless since the entry was last deleted in peace *)
(* requests of the chat overlapped, a deletion failed, the scrapper died   *)
(* before one, or a command was answered with an error although it had     *)
(* committed: a chat that waits for its answers, and gets them, reads its  *)
(* own writes, whatever others do and whatever else fails.                 *)
CacheIsCurrent ==
  \A c \in cached \ disturbed :
    cache[c] = View(c) \/ \E h \in Handlers : At(h, "delete", Ops) /\ req[h].chat = c
============================================================================
