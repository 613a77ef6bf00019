----------------------------- MODULE Lifecycle -----------------------------
(***************************************************************************)
(* The life of one process of the agent, the bot or the scrapper: it is    *)
(* started, serves, is told to stop, runs the OnStop hooks of its modules, *)
(* and is started again on what it left behind                             *)
(* (cmd/*/app.go, the fx_module.go files, internal/infrastructure/server). *)
(*                                                                         *)
(* fx runs the OnStop hooks in the reverse order of lc.Append, and that is *)
(* the order in which the modules are listed.  A hook is a few steps, each *)
(* of which closes something, and some then wait for those who use it.     *)
(* Beside the hooks run what was started: the loop of the Kafka consumer,  *)
(* the Telegram loop or the server, scheduled jobs, and requests.          *)
(*                                                                         *)
(* The updates come through Kafka (UPDATES_PROTOCOL=kafka); the tables and *)
(* the job's transactions are in the modules of the components, and only   *)
(* what a stop can do to them is here.                                     *)
(***************************************************************************)
EXTENDS Integers, Sequences, FiniteSets, SequencesExt

CONSTANTS
  Services,     \* the services whose life is looked at
  Jobs,         \* overlapping runs of the relay job
  Requests,     \* requests the scrapper's server handles at a time
  Rows,         \* rows that wait in the table the relay sends from
  NoRow,        \* the row of a job without one
  Bad,          \* offsets of the messages that cannot be decoded
  MaxConns,     \* connections of the pool
  MaxMessages,  \* bound: messages in the consumer's topic
  MaxStops,     \* bound: how often the process is told to stop
  MaxCuts       \* bound: kills, timeouts and crashes of the server

AllServices == {"agent", "bot", "scrapper"}

ASSUME LifecycleAssumption ==
  /\ Services \subseteq AllServices
  /\ NoRow \notin Rows
  /\ MaxConns \in Nat \ {0}
  /\ MaxMessages \in Nat
  /\ Bad \subseteq 1 .. MaxMessages
  /\ MaxStops \in Nat
  /\ MaxCuts \in Nat

VARIABLES
  service,      \* which service this process is
  phase,        \* "up", "stopping" or "exited"
  script,       \* the steps of the OnStop hooks that are not done
  begun,        \* has the first of them begun?
  closed,       \* what the steps have closed
  cancelled,    \* has the hook's context been cancelled?
  loop,         \* the consumer: "fetch", "insert", "commit", "ended"
  serving,      \* the Telegram loop, or the server: "live" or "ended"
  job,          \* state of each job
  request,      \* state of each request
  offset,       \* committed offset of the consumer's topic
  kept,         \* offsets of the messages whose update is in the inbox
  dlq,          \* offsets of the messages copied to the dead-letter topic
  pending,      \* rows not marked
  sent,         \* how often each row was sent
  stops,        \* stops so far
  cuts,         \* kills, timeouts and crashes of the server so far
  spoiled       \* history: jobs and requests that were refused or cut off

hookVars    == <<phase, script, begun, closed>>
loopVars    == <<loop, offset, kept, dlq>>
workVars    == <<job, request, pending, sent, spoiled>>
countVars   == <<stops, cuts>>
vars == <<service, hookVars, cancelled, loopVars, serving, workVars, countVars>>

(* What the steps of the loop, of a job and of a request leave alone. *)
besideLoop    == <<service, hookVars, serving, workVars, countVars>>
besideJob     == <<service, hookVars, cancelled, loopVars, serving, request, countVars>>
besideRequest == <<service, hookVars, cancelled, loopVars, serving, job, pending, sent,
                   countVars>>

Steps == {"server", "jobs", "pool", "producer", "reader", "cancel", "await"}

NoJob == [pc |-> "idle", row |-> NoRow]
Job == {NoJob, [pc |-> "begin", row |-> NoRow]}
         \cup [pc: {"send", "mark", "failed"}, row: Rows]

TypeOK ==
  /\ service \in Services
  /\ phase \in {"up", "stopping", "exited"}
  /\ script \in Seq(Steps)
  /\ begun \in BOOLEAN
  /\ closed \subseteq Steps
  /\ cancelled \in BOOLEAN
  /\ loop \in {"fetch", "insert", "commit", "ended"}
  /\ serving \in {"live", "ended"}
  /\ job \in [Jobs -> Job]
  /\ request \in [Requests -> {"idle", "begin", "tx"}]
  /\ offset \in 0 .. MaxMessages
  /\ kept \subseteq 1 .. MaxMessages
  /\ dlq \subseteq 1 .. MaxMessages
  /\ pending \subseteq Rows
  /\ sent \in [Rows -> Nat]
  /\ stops \in 0 .. MaxStops
  /\ cuts \in 0 .. MaxCuts
  /\ spoiled \subseteq Jobs \cup Requests
  /\ phase # "stopping" => script = << >> /\ ~begun

HasLoop(s)    == s \in {"agent", "bot"}
HasServing(s) == s \in {"bot", "scrapper"}

Init ==
  /\ service \in Services
  /\ phase = "up"
  /\ script = << >>
  /\ begun = FALSE
  /\ closed = {}
  /\ cancelled = FALSE
  /\ loop = IF HasLoop(service) THEN "fetch" ELSE "ended"
  /\ serving = IF HasServing(service) THEN "live" ELSE "ended"
  /\ job = [j \in Jobs |-> NoJob]
  /\ request = [q \in Requests |-> "idle"]
  /\ offset = 0
  /\ kept = {}
  /\ dlq = {}
  /\ pending = Rows
  /\ sent = [r \in Rows |-> 0]
  /\ stops = 0
  /\ cuts = 0
  /\ spoiled = {}

Cut == cuts < MaxCuts /\ cuts' = cuts + 1

----------------------------------------------------------------------------
(* The OnStop hooks. *)

PoolStop      == <<"pool">>
ProducerStop  == <<"producer">>
SchedulerStop == <<"jobs">>

(* Fault: the hook waits for its goroutine before it stops it. *)
FaultAwaitFirst == <<"await", "reader", "cancel">>

ConsumerStop  == <<"reader", "cancel", "await">>
BotStop       == <<"reader", "cancel", "await">>
ScrapperStop   == <<"server", "jobs", "cancel", "await", "producer">>

(* The hooks of each service in the order in which they are appended. *)
AgentHooks    == <<ConsumerStop, ProducerStop, PoolStop, SchedulerStop>>

(* Fault: the modules with the pool and the jobs are listed last. *)
FaultBotHooks == <<BotStop, PoolStop, SchedulerStop>>

BotHooks      == <<PoolStop, SchedulerStop, BotStop>>

(* Fault: the pool is stopped before those who use it. *)
FaultPoolFirst == <<ScrapperStop, PoolStop>>

ScrapperHooks == <<PoolStop, ScrapperStop>>

Hooks(s) == CASE s = "agent"    -> AgentHooks
              [] s = "bot"      -> BotHooks
              [] s = "scrapper" -> ScrapperHooks

(* fx stops in the reverse order of the start. *)
StopScript(s) == FlattenSeq(Reverse(Hooks(s)))

(* SIGTERM. *)
Stop ==
  /\ phase = "up"
  /\ stops < MaxStops
  /\ stops' = stops + 1
  /\ phase' = "stopping"
  /\ script' = StopScript(service)
  /\ UNCHANGED <<service, begun, closed, cancelled, loopVars, serving, workVars, cuts>>

(* A step of a hook takes effect ... *)
BeginStep ==
  /\ script # << >>
  /\ ~begun
  /\ begun' = TRUE
  /\ closed' = closed \cup {Head(script)}
  /\ cancelled' = (cancelled \/ Head(script) = "cancel")
  /\ UNCHANGED <<service, phase, script, loopVars, serving, workVars, countVars>>

JobsDone     == \A j \in Jobs : job[j].pc = "idle"
RequestsDone == \A q \in Requests : request[q] = "idle"
Connected    == {j \in Jobs : job[j].pc \in {"send", "mark", "failed"}}
                  \cup {q \in Requests : request[q] = "tx"}

(* The goroutine that closes the channel done. *)
Ended == IF service = "agent" THEN loop = "ended" ELSE serving = "ended"

(* ... and is done when those it waits for are. *)
StepIsDone(step) ==
  CASE step = "server" -> RequestsDone
    [] step = "jobs"   -> JobsDone
    [] step = "pool"   -> Connected = {}
    [] step = "await"  -> Ended
    [] OTHER           -> TRUE

EndStep ==
  /\ begun
  /\ StepIsDone(Head(script))
  /\ begun' = FALSE
  /\ script' = Tail(script)
  /\ UNCHANGED <<service, phase, closed, cancelled, loopVars, serving, workVars, countVars>>

(* Shutdown of the scheduler, of an HTTP server and the wait for done give *)
(* up after a while, and the hook goes on beside those still at work.      *)
StepTimesOut ==
  /\ begun
  /\ Head(script) \in {"server", "jobs", "await"}
  /\ ~StepIsDone(Head(script))
  /\ Cut
  /\ begun' = FALSE
  /\ script' = Tail(script)
  /\ UNCHANGED <<service, phase, closed, cancelled, loopVars, serving, workVars, stops>>

(* A gRPC server that could not stop gracefully in time cuts them off. *)
ServerStopsHard ==
  /\ begun
  /\ Head(script) = "server"
  /\ ~RequestsDone
  /\ Cut
  /\ begun' = FALSE
  /\ script' = Tail(script)
  /\ request' = [q \in Requests |-> "idle"]
  /\ spoiled' = spoiled \cup {q \in Requests : request[q] # "idle"}
  /\ UNCHANGED <<service, phase, closed, cancelled, loopVars, serving, job,
                 pending, sent, stops>>

(* Fault: a step of a hook outlives the process that was killed in it. *)
FaultStepStays ==
  /\ phase' = "exited"
  /\ script' = << >>
  /\ loop' = "ended"
  /\ serving' = "ended"
  /\ job' = [j \in Jobs |-> NoJob]
  /\ request' = [q \in Requests |-> "idle"]
  /\ UNCHANGED <<service, begun, closed, cancelled, offset, kept, dlq, pending, sent,
                 spoiled, stops>>

(* The process ends, and with it everything that still runs. *)
Vanish ==
  /\ phase' = "exited"
  /\ script' = << >>
  /\ begun' = FALSE
  /\ loop' = "ended"
  /\ serving' = "ended"
  /\ job' = [j \in Jobs |-> NoJob]
  /\ request' = [q \in Requests |-> "idle"]
  /\ spoiled' = spoiled \cup {j \in Jobs : job[j].pc # "idle"}
                        \cup {q \in Requests : request[q] # "idle"}
  /\ UNCHANGED <<service, closed, cancelled, offset, kept, dlq, pending, sent, stops>>

Exit ==
  /\ phase = "stopping"
  /\ script = << >>
  /\ Vanish
  /\ UNCHANGED cuts

(* A crash, the end of fx's or of the container's patience. *)
Kill ==
  /\ phase # "exited"
  /\ Cut
  /\ Vanish

(* The OnStart hooks: everything is made anew. *)
Start ==
  /\ phase = "exited"
  /\ phase' = "up"
  /\ closed' = {}
  /\ cancelled' = FALSE
  /\ loop' = IF HasLoop(service) THEN "fetch" ELSE "ended"
  /\ serving' = IF HasServing(service) THEN "live" ELSE "ended"
  /\ UNCHANGED <<service, script, begun, offset, kept, dlq, workVars, countVars>>

----------------------------------------------------------------------------
(* The loop of the Kafka consumer: Consume of the agent, PostUpdates of    *)
(* the bot.                                                                *)

ReaderOpen == "reader" \notin closed
CanAcquire == "pool" \notin closed /\ Cardinality(Connected) < MaxConns

Fetch ==
  /\ loop = "fetch"
  /\ ReaderOpen
  /\ ~cancelled
  /\ offset < MaxMessages
  /\ loop' = "insert"
  /\ UNCHANGED <<besideLoop, cancelled, offset, kept, dlq>>

AddRecord ==
  /\ loop = "insert"
  /\ offset + 1 \notin Bad
  /\ CanAcquire
  /\ kept' = kept \cup {offset + 1}
  /\ loop' = "commit"
  /\ UNCHANGED <<besideLoop, cancelled, offset, dlq>>

(* A closed pool and a cancelled context make errors that are no PgError,  *)
(* and AddRecord answers nil.                                              *)
AddRecordRefused ==
  /\ loop = "insert"
  /\ offset + 1 \notin Bad
  /\ "pool" \in closed \/ cancelled
  /\ loop' = "commit"
  /\ UNCHANGED <<besideLoop, cancelled, offset, kept, dlq>>

(* Consume or PostUpdates returns with an error: the hook's goroutine      *)
(* cancels the context.                                                    *)
EndLoop ==
  /\ loop' = "ended"
  /\ cancelled' = TRUE
  /\ UNCHANGED <<besideLoop, offset, kept>>

(* A message that cannot be decoded goes to the dead-letter topic, whose   *)
(* writer is closed with the reader.  The bot's loop goes on; the agent's  *)
(* Consume returns nil, which does not cancel the context.                 *)
DeadLetter ==
  /\ loop = "insert"
  /\ offset + 1 \in Bad
  /\ ReaderOpen
  /\ ~cancelled
  /\ dlq' = dlq \cup {offset + 1}
  /\ loop' = IF service = "agent" THEN "ended" ELSE "commit"
  /\ UNCHANGED <<besideLoop, cancelled, offset, kept>>

DeadLetterRefused ==
  /\ loop = "insert"
  /\ offset + 1 \in Bad
  /\ ~ReaderOpen \/ cancelled
  /\ EndLoop
  /\ UNCHANGED dlq

CommitMessages ==
  /\ loop = "commit"
  /\ ReaderOpen
  /\ ~cancelled
  /\ offset' = offset + 1
  /\ loop' = "fetch"
  /\ UNCHANGED <<besideLoop, cancelled, kept, dlq>>

(* The reader is closed, or its context cancelled. *)
ReaderRefuses ==
  /\ loop \in {"fetch", "commit"}
  /\ ~ReaderOpen \/ cancelled
  /\ EndLoop
  /\ UNCHANGED dlq

(* Kafka fails. *)
KafkaFails ==
  /\ loop # "ended"
  /\ EndLoop
  /\ UNCHANGED dlq

(* tgBot.Start returns when the context is cancelled, Serve when the       *)
(* server is stopped.                                                      *)
ServingEnds ==
  /\ serving = "live"
  /\ IF service = "bot" THEN cancelled ELSE "server" \in closed
  /\ serving' = "ended"
  /\ UNCHANGED <<service, hookVars, cancelled, loopVars, workVars, countVars>>

(* The server cannot listen any more: the context of the jobs is cancelled *)
(* with it, and the process lives on.                                      *)
ServerCrashes ==
  /\ service = "scrapper"
  /\ serving = "live"
  /\ Cut
  /\ serving' = "ended"
  /\ cancelled' = TRUE
  /\ UNCHANGED <<service, hookVars, loopVars, workVars, stops>>

----------------------------------------------------------------------------
(* A run of the relay job: in a transaction it fetches a row, sends it and *)
(* marks it.  Only the scrapper's jobs hear of the cancelled context, and  *)
(* only its relay is a singleton.                                          *)

JobCancelled == service = "scrapper" /\ cancelled

JobBegins(j) ==
  /\ phase # "exited"
  /\ "jobs" \notin closed
  /\ ~JobCancelled
  /\ job[j] = NoJob
  /\ service = "scrapper" => JobsDone
  /\ pending # {}
  /\ job' = [job EXCEPT ![j].pc = "begin"]
  /\ UNCHANGED <<besideJob, pending, sent, spoiled>>

Locked == {job[j].row : j \in Jobs}

(* FetchPending; without a free row the job has nothing to do. *)
JobFetches(j) ==
  /\ job[j].pc = "begin"
  /\ CanAcquire
  /\ ~JobCancelled
  /\ \/ \E r \in pending \ Locked : job' = [job EXCEPT ![j] = [pc |-> "send", row |-> r]]
     \/ pending \subseteq Locked /\ job' = [job EXCEPT ![j] = NoJob]
  /\ UNCHANGED <<besideJob, pending, sent, spoiled>>

JobRefused(j) ==
  /\ job[j].pc = "begin"
  /\ "pool" \in closed \/ JobCancelled
  /\ job' = [job EXCEPT ![j] = NoJob]
  /\ spoiled' = spoiled \cup {j}
  /\ UNCHANGED <<besideJob, pending, sent>>

JobSends(j) ==
  /\ job[j].pc = "send"
  /\ "producer" \notin closed
  /\ sent' = [sent EXCEPT ![job[j].row] = @ + 1]
  /\ job' = [job EXCEPT ![j].pc = "mark"]
  /\ UNCHANGED <<besideJob, pending, spoiled>>

(* The writer is closed, or the write was cancelled; it may have arrived   *)
(* nevertheless.                                                           *)
JobSendFails(j) ==
  /\ job[j].pc = "send"
  /\ "producer" \in closed \/ JobCancelled
  /\ \E n \in {0, IF "producer" \in closed THEN 0 ELSE 1} :
       sent' = [sent EXCEPT ![job[j].row] = @ + n]
  /\ job' = [job EXCEPT ![j].pc = "failed"]
  /\ spoiled' = spoiled \cup {j}
  /\ UNCHANGED <<besideJob, pending>>

(* UpdateStatus sets processed_at of a row that was sent. *)
MarkedBy(j) == IF job[j].pc = "mark" THEN {job[j].row} ELSE {}

JobMarks(j) ==
  /\ job[j].pc \in {"mark", "failed"}
  /\ ~JobCancelled
  /\ pending' = pending \ MarkedBy(j)
  /\ job' = [job EXCEPT ![j] = NoJob]
  /\ UNCHANGED <<besideJob, sent, spoiled>>

JobRollsBack(j) ==
  /\ job[j].pc \in {"mark", "failed"}
  /\ JobCancelled
  /\ job' = [job EXCEPT ![j] = NoJob]
  /\ spoiled' = spoiled \cup {j}
  /\ UNCHANGED <<besideJob, pending, sent>>

----------------------------------------------------------------------------
(* A request to the scrapper's server: one transaction. *)

RequestArrives(q) ==
  /\ service = "scrapper"
  /\ serving = "live"
  /\ "server" \notin closed
  /\ request[q] = "idle"
  /\ request' = [request EXCEPT ![q] = "begin"]
  /\ UNCHANGED <<besideRequest, spoiled>>

RequestBegins(q) ==
  /\ request[q] = "begin"
  /\ CanAcquire
  /\ request' = [request EXCEPT ![q] = "tx"]
  /\ UNCHANGED <<besideRequest, spoiled>>

RequestRefused(q) ==
  /\ request[q] = "begin"
  /\ "pool" \in closed
  /\ request' = [request EXCEPT ![q] = "idle"]
  /\ spoiled' = spoiled \cup {q}
  /\ UNCHANGED besideRequest

RequestEnds(q) ==
  /\ request[q] = "tx"
  /\ request' = [request EXCEPT ![q] = "idle"]
  /\ UNCHANGED <<besideRequest, spoiled>>

----------------------------------------------------------------------------
HookStep == BeginStep \/ EndStep \/ Exit

LoopStep ==
  \/ Fetch
  \/ AddRecord
  \/ AddRecordRefused
  \/ DeadLetter
  \/ DeadLetterRefused
  \/ CommitMessages
  \/ ReaderRefuses

JobStep(j) ==
  \/ JobFetches(j)
  \/ JobRefused(j)
  \/ JobSends(j)
  \/ JobSendFails(j)
  \/ JobMarks(j)
  \/ JobRollsBack(j)

RequestStep(q) == RequestBegins(q) \/ RequestRefused(q) \/ RequestEnds(q)

Failure == StepTimesOut \/ ServerStopsHard \/ Kill \/ KafkaFails \/ ServerCrashes

Next ==
  \/ Start
  \/ Stop
  \/ HookStep
  \/ LoopStep
  \/ ServingEnds
  \/ \E j \in Jobs : JobBegins(j) \/ JobStep(j)
  \/ \E q \in Requests : RequestArrives(q) \/ RequestStep(q)
  \/ Failure

Spec == Init /\ [][Next]_vars

(* The goroutines go on, and a connection that is given back is handed to  *)
(* those who wait for it in turn.  Neither a stop nor a timeout is assumed.*)
Fairness ==
  /\ WF_vars(HookStep)
  /\ WF_vars(LoopStep)
  /\ WF_vars(ServingEnds)
  /\ \A j \in Jobs : SF_vars(JobStep(j))
  /\ \A q \in Requests : SF_vars(RequestStep(q))

FairSpec == Spec /\ Fairness

----------------------------------------------------------------------------
(* Correctness. *)

AcknowledgedIsKept == \A k \in 1 .. offset : k \in kept \cup dlq

(* The bot's stop loses no update: a message whose offset was committed is *)
(* in the inbox or in the dead-letter topic, although the bot does not     *)
(* wait for its consumer and the inserts of a stopping process fail        *)
(* unnoticed.  The reader is closed before anything the insert needs.      *)
BotKeepsAcknowledged == service = "bot" => AcknowledgedIsKept

(* The same of the agent: "the consumer first records the event in the     *)
(* database ... correctly handles restarts" (README.md).                   *)
AgentKeepsAcknowledged == service = "agent" => AcknowledgedIsKept

(* What was begun before a stop that keeps its time is finished: no job    *)
(* and no request meets a closed pool or producer, or the process's end,   *)
(* and a row is sent again only after a kill, a timeout or a crash of the  *)
(* server.                                                                 *)
GraceIsKept ==
  /\ spoiled # {} => cuts > 0
  /\ \A r \in Rows : sent[r] <= 1 + cuts

(* A stop ends without the help of a timeout: the hooks wait for nobody    *)
(* who waits for a later hook.                                             *)
StopEnds == (phase = "stopping") ~> (phase = "exited")
=============================================================================
