------------------------- MODULE LifecycleProofs -------------------------
(***************************************************************************)
(* Proofs about Lifecycle: the types, what the bot acknowledges (BotKeeps- *)
(* Acknowledged), and what a stop that keeps its time finishes             *)
(* (GraceIsKept).                                                          *)
(*                                                                         *)
(* All of it rests on the order of the steps of a stop: a step has begun   *)
(* only when those before it are done, and the scripts of the three        *)
(* services put those who use something before what they use.              *)
(***************************************************************************)
EXTENDS Lifecycle, TLAPS

----------------------------------------------------------------------------
(* The scripts. *)

(* FlattenSeq, for as many hooks as a service has: a recursive function    *)
(* that is chosen, and unfolded by hand.                                   *)
LEMMA Flatten ==
  ASSUME NEW s, NEW n \in 1 .. 4, Len(s) = n
  PROVE  /\ n = 2 => FlattenSeq(s) = s[1] \o s[2]
         /\ n = 3 => FlattenSeq(s) = (s[1] \o s[2]) \o s[3]
         /\ n = 4 => FlattenSeq(s) = ((s[1] \o s[2]) \o s[3]) \o s[4]
<1> DEFINE Flat(f) == f = [i \in 1 .. n |-> IF i = 1 THEN s[i] ELSE f[i - 1] \o s[i]]
           g == [i \in 1 .. n |-> IF i = 1 THEN s[1]
                                  ELSE IF i = 2 THEN s[1] \o s[2]
                                  ELSE IF i = 3 THEN (s[1] \o s[2]) \o s[3]
                                  ELSE ((s[1] \o s[2]) \o s[3]) \o s[4]]
<1>1. FlattenSeq(s) = (CHOOSE f : Flat(f))[n]
  BY DEF FlattenSeq
<1>2. Flat(g)
  <2> DEFINE b == s[1] \o s[2]
             c == b \o s[3]
             d == c \o s[4]
  <2>1. g = [i \in 1 .. n |-> IF i = 1 THEN s[1] ELSE IF i = 2 THEN b ELSE IF i = 3 THEN c ELSE d]
    OBVIOUS
  <2>2. b = s[1] \o s[2] /\ c = b \o s[3] /\ d = c \o s[4]
    OBVIOUS
  <2> HIDE DEF b, c, d, g
  <2>3. ASSUME NEW i \in 1 .. n
        PROVE  g[i] = IF i = 1 THEN s[i] ELSE g[i - 1] \o s[i]
    <3>1. CASE i = 1
      BY <2>1, <3>1
    <3>2. CASE i = 2
      <4>1. g[i] = b /\ g[1] = s[1] /\ i - 1 = 1
        BY <2>1, <3>2
      <4>2. b = s[1] \o s[i]
        BY <2>2, <3>2
      <4>3. i # 1
        BY <3>2
      <4> QED  BY <4>1, <4>2, <4>3
    <3>3. CASE i = 3
      <4>1. g[i] = c /\ g[2] = b /\ i - 1 = 2
        BY <2>1, <3>3
      <4>2. c = b \o s[i]
        BY <2>2, <3>3
      <4>3. i # 1
        BY <3>3
      <4> QED  BY <4>1, <4>2, <4>3
    <3>4. CASE i = 4
      <4>1. g[i] = d /\ g[3] = c /\ i - 1 = 3
        BY <2>1, <3>4
      <4>2. d = c \o s[i]
        BY <2>2, <3>4
      <4>3. i # 1
        BY <3>4
      <4> QED  BY <4>1, <4>2, <4>3
    <3> QED  BY <3>1, <3>2, <3>3, <3>4
  <2>4. g = [i \in 1 .. n |-> g[i]]
    BY <2>1
  <2> QED  BY <2>3, <2>4
<1> HIDE DEF g, Flat
<1> DEFINE f == CHOOSE h : Flat(h)
<1>3. Flat(f)
  BY <1>2
<1> HIDE DEF f
<1>4. \A i \in 1 .. n : f[i] = IF i = 1 THEN s[i] ELSE f[i - 1] \o s[i]
  BY <1>3 DEF Flat
<1>5. f[1] = s[1]
  BY <1>4
<1>6. \A i \in 2 .. n : f[i] = f[i - 1] \o s[i]
  <2>1. \A i \in 2 .. n : i \in 1 .. n /\ i # 1
    OBVIOUS
  <2> QED  BY <1>4, <2>1
<1>7. n >= 2 => f[2] = f[1] \o s[2]
  <2>1. 2 - 1 = 1 /\ (n >= 2 => 2 \in 2 .. n)
    OBVIOUS
  <2>2. n >= 2 => f[2] = f[2 - 1] \o s[2]
    BY <1>6, <2>1
  <2> QED  BY <2>1, <2>2
<1>8. n >= 3 => f[3] = f[2] \o s[3]
  <2>1. 3 - 1 = 2 /\ (n >= 3 => 3 \in 2 .. n)
    OBVIOUS
  <2>2. n >= 3 => f[3] = f[3 - 1] \o s[3]
    BY <1>6, <2>1
  <2> QED  BY <2>1, <2>2
<1>9. n >= 4 => f[4] = f[3] \o s[4]
  <2>1. 4 - 1 = 3 /\ (n >= 4 => 4 \in 2 .. n)
    OBVIOUS
  <2>2. n >= 4 => f[4] = f[4 - 1] \o s[4]
    BY <1>6, <2>1
  <2> QED  BY <2>1, <2>2
<1>21. n >= 2 => f[2] = s[1] \o s[2]
  BY <1>5, <1>7
<1>22. n >= 3 => f[3] = (s[1] \o s[2]) \o s[3]
  <2>1. n >= 3 => n >= 2
    OBVIOUS
  <2> QED  BY <1>8, <1>21, <2>1, Zenon
<1>23. n >= 4 => f[4] = ((s[1] \o s[2]) \o s[3]) \o s[4]
  <2>1. n >= 4 => n >= 3
    OBVIOUS
  <2> QED  BY <1>9, <1>22, <2>1, Zenon
<1>10. FlattenSeq(s) = f[n]
  BY <1>1 DEF f
<1>11. CASE n = 1
  BY <1>11
<1>12. CASE n = 2
  BY <1>21, <1>10, <1>12
<1>13. CASE n = 3
  <2>1. n >= 3 /\ n # 2 /\ n # 4
    BY <1>13
  <2> QED  BY <1>22, <1>10, <1>13, <2>1, Zenon
<1>14. CASE n = 4
  <2>1. n >= 4 /\ n # 2 /\ n # 3
    BY <1>14
  <2> QED  BY <1>23, <1>10, <1>14, <2>1, Zenon
<1> QED  BY <1>11, <1>12, <1>13, <1>14

(* The steps of a stop, one after another. *)
LEMMA StopScripts ==
  /\ StopScript("agent") = <<"jobs", "pool", "producer", "reader", "cancel", "await">>
  /\ StopScript("bot") = <<"reader", "cancel", "await", "jobs", "pool">>
  /\ StopScript("scrapper") = <<"server", "jobs", "cancel", "await", "producer", "pool">>
<1> USE DEF SchedulerStop, PoolStop, ProducerStop, ConsumerStop, BotStop, ScrapperStop
<1>1. StopScript("agent") = <<"jobs", "pool", "producer", "reader", "cancel", "await">>
  <2> DEFINE s == Reverse(AgentHooks)
             t == ((SchedulerStop \o PoolStop) \o ProducerStop) \o ConsumerStop
  <2>1. /\ Len(s) = 4 /\ s[1] = SchedulerStop /\ s[2] = PoolStop
        /\ s[3] = ProducerStop /\ s[4] = ConsumerStop
    BY DEF Reverse, AgentHooks
  <2>2. StopScript("agent") = FlattenSeq(s)
    BY DEF StopScript, Hooks
  <2> HIDE DEF s
  <2>3. FlattenSeq(s) = t
    <3>1. FlattenSeq(s) = ((s[1] \o s[2]) \o s[3]) \o s[4]
      BY ONLY <2>1, 4 \in 1 .. 4, Flatten
    <3> QED  BY <3>1, <2>1
  <2>4. /\ t \in Seq(Steps) /\ Len(t) = 6
        /\ t[1] = "jobs" /\ t[2] = "pool" /\ t[3] = "producer"
        /\ t[4] = "reader" /\ t[5] = "cancel" /\ t[6] = "await"
    BY DEF Steps
  <2> HIDE DEF t
  <2>5. t = <<"jobs", "pool", "producer", "reader", "cancel", "await">>
    BY <2>4
  <2> QED  BY <2>2, <2>3, <2>5
<1>2. StopScript("bot") = <<"reader", "cancel", "await", "jobs", "pool">>
  <2> DEFINE s == Reverse(BotHooks)
             t == (BotStop \o SchedulerStop) \o PoolStop
  <2>1. Len(s) = 3 /\ s[1] = BotStop /\ s[2] = SchedulerStop /\ s[3] = PoolStop
    BY DEF Reverse, BotHooks
  <2>2. StopScript("bot") = FlattenSeq(s)
    BY DEF StopScript, Hooks
  <2> HIDE DEF s
  <2>3. FlattenSeq(s) = t
    <3>1. FlattenSeq(s) = (s[1] \o s[2]) \o s[3]
      BY ONLY <2>1, 3 \in 1 .. 4, Flatten
    <3> QED  BY <3>1, <2>1
  <2>4. /\ t \in Seq(Steps) /\ Len(t) = 5
        /\ t[1] = "reader" /\ t[2] = "cancel" /\ t[3] = "await"
        /\ t[4] = "jobs" /\ t[5] = "pool"
    BY DEF Steps
  <2> HIDE DEF t
  <2>5. t = <<"reader", "cancel", "await", "jobs", "pool">>
    BY <2>4
  <2> QED  BY <2>2, <2>3, <2>5
<1>3. StopScript("scrapper") = <<"server", "jobs", "cancel", "await", "producer", "pool">>
  <2> DEFINE s == Reverse(ScrapperHooks)
             t == ScrapperStop \o PoolStop
  <2>1. Len(s) = 2 /\ s[1] = ScrapperStop /\ s[2] = PoolStop
    BY DEF Reverse, ScrapperHooks
  <2>2. StopScript("scrapper") = FlattenSeq(s)
    BY DEF StopScript, Hooks
  <2> HIDE DEF s
  <2>3. FlattenSeq(s) = t
    <3>1. FlattenSeq(s) = s[1] \o s[2]
      BY ONLY <2>1, 2 \in 1 .. 4, Flatten
    <3> QED  BY <3>1, <2>1
  <2>4. /\ t \in Seq(Steps) /\ Len(t) = 6
        /\ t[1] = "server" /\ t[2] = "jobs" /\ t[3] = "cancel"
        /\ t[4] = "await" /\ t[5] = "producer" /\ t[6] = "pool"
    BY DEF Steps
  <2> HIDE DEF t
  <2>5. t = <<"server", "jobs", "cancel", "await", "producer", "pool">>
    BY <2>4
  <2> QED  BY <2>2, <2>3, <2>5
<1> QED  BY <1>1, <1>2, <1>3

----------------------------------------------------------------------------
(* Types. *)

Typed ==
  /\ TypeOK
  /\ begun => script # << >>
  /\ loop \in {"insert", "commit"} => offset < MaxMessages

(* A job becomes t, and no other job changes. *)
Becomes(j, t) == job' = [job EXCEPT ![j] = t]

JobAt(p, r) == [pc |-> p, row |-> r]

(* What the steps of a job make of it. *)
LEMMA JobBecomes ==
  ASSUME TypeOK, NEW j \in Jobs
  PROVE  /\ JobBegins(j) => Becomes(j, JobAt("begin", NoRow))
         /\ JobFetches(j) => \/ \E r \in pending \ Locked : Becomes(j, JobAt("send", r))
                             \/ pending \subseteq Locked /\ Becomes(j, NoJob)
         /\ JobRefused(j) => Becomes(j, NoJob)
         /\ JobSends(j) => Becomes(j, JobAt("mark", job[j].row)) /\ job[j].row \in Rows
         /\ JobSendFails(j) => Becomes(j, JobAt("failed", job[j].row)) /\ job[j].row \in Rows
         /\ JobMarks(j) => Becomes(j, NoJob)
         /\ JobRollsBack(j) => Becomes(j, NoJob)
<1> DEFINE u == job[j]
<1>1. u \in Job
  BY DEF TypeOK
<1>2. u = [pc |-> u.pc, row |-> u.row] /\ (u.pc = "send" => u.row \in Rows)
  BY <1>1 DEF Job, NoJob
<1>3. \A p : [job EXCEPT ![j].pc = p] = [job EXCEPT ![j] = [u EXCEPT !.pc = p]]
  OBVIOUS
<1> HIDE DEF u
<1>4. \A p : [u EXCEPT !.pc = p] = [pc |-> p, row |-> u.row]
  BY <1>2
<1>5. u = NoJob => u.row = NoRow
  BY DEF NoJob
<1>6. \A p : [job EXCEPT ![j].pc = p] = [job EXCEPT ![j] = JobAt(p, u.row)]
  BY <1>3, <1>4 DEF JobAt
<1> QED
  BY <1>2, <1>5, <1>6 DEF u, Becomes, JobAt, JobBegins, JobFetches, JobRefused, JobSends,
     JobSendFails, JobMarks, JobRollsBack

(* The states a job can be in. *)
LEMMA JobTypes ==
  /\ NoJob \in Job
  /\ JobAt("begin", NoRow) \in Job
  /\ \A p \in {"send", "mark", "failed"}, r \in Rows : JobAt(p, r) \in Job
BY DEF Job, NoJob, JobAt

(* A job that changes stays a job. *)
LEMMA BecomesTyped ==
  ASSUME job \in [Jobs -> Job], NEW j \in Jobs, NEW t \in Job, Becomes(j, t)
  PROVE  job' \in [Jobs -> Job]
BY DEF Becomes

(* A stop always has something to do. *)
LEMMA ScriptsTyped == \A s \in AllServices : StopScript(s) \in Seq(Steps) /\ StopScript(s) # << >>
<1>1. /\ <<"jobs", "pool", "producer", "reader", "cancel", "await">> \in Seq(Steps)
      /\ <<"jobs", "pool", "producer", "reader", "cancel", "await">> # << >>
  BY DEF Steps
<1>2. /\ <<"reader", "cancel", "await", "jobs", "pool">> \in Seq(Steps)
      /\ <<"reader", "cancel", "await", "jobs", "pool">> # << >>
  BY DEF Steps
<1>3. /\ <<"server", "jobs", "cancel", "await", "producer", "pool">> \in Seq(Steps)
      /\ <<"server", "jobs", "cancel", "await", "producer", "pool">> # << >>
  BY DEF Steps
<1> QED  BY <1>1, <1>2, <1>3, StopScripts DEF AllServices

LEMMA InitTyped == Init => Typed
<1> SUFFICES ASSUME Init PROVE Typed
  OBVIOUS
<1>1. job \in [Jobs -> Job] /\ request \in [Requests -> {"idle", "begin", "tx"}]
  BY JobTypes DEF Init
<1>2. script \in Seq(Steps)
  BY DEF Init
<1>3. /\ loop \in {"fetch", "ended"}
      /\ serving \in {"live", "ended"}
  BY DEF Init
<1>4. /\ offset \in 0 .. MaxMessages /\ stops \in 0 .. MaxStops /\ cuts \in 0 .. MaxCuts
      /\ sent \in [Rows -> Nat]
  BY LifecycleAssumption DEF Init
<1> QED  BY <1>1, <1>2, <1>3, <1>4 DEF Init, Typed, TypeOK

LEMMA TypedStep == Typed /\ [Next]_vars => Typed'
<1> SUFFICES ASSUME Typed, [Next]_vars PROVE Typed'
  OBVIOUS
<1> USE LifecycleAssumption
<1> USE DEF Typed, vars, hookVars, loopVars, workVars, countVars, besideLoop, besideJob,
            besideRequest
<1>0. TypeOK
  OBVIOUS
<1>1. CASE Start
  BY <1>1 DEF Start, TypeOK
<1>2. CASE Stop
  BY <1>2, ScriptsTyped DEF Stop, TypeOK
<1>3. CASE BeginStep
  BY <1>3 DEF BeginStep, TypeOK
<1>4. CASE EndStep
  <2>1. script' \in Seq(Steps)
    BY <1>4 DEF EndStep, TypeOK
  <2>2. phase' = "stopping"
    BY <1>4 DEF EndStep, TypeOK
  <2> QED  BY <1>4, <2>1, <2>2 DEF EndStep, TypeOK
<1>5. CASE StepTimesOut
  <2>1. script' \in Seq(Steps)
    BY <1>5 DEF StepTimesOut, TypeOK
  <2>2. phase' = "stopping"
    BY <1>5 DEF StepTimesOut, TypeOK
  <2>3. cuts' \in 0 .. MaxCuts
    BY <1>5 DEF StepTimesOut, Cut, TypeOK
  <2> QED  BY <1>5, <2>1, <2>2, <2>3 DEF StepTimesOut, TypeOK
<1>6. CASE ServerStopsHard
  <2>1. script' \in Seq(Steps)
    BY <1>6 DEF ServerStopsHard, TypeOK
  <2>2. phase' = "stopping"
    BY <1>6 DEF ServerStopsHard, TypeOK
  <2>3. cuts' \in 0 .. MaxCuts
    BY <1>6 DEF ServerStopsHard, Cut, TypeOK
  <2>4. /\ request' \in [Requests -> {"idle", "begin", "tx"}]
        /\ spoiled' \subseteq Jobs \cup Requests
    BY <1>6 DEF ServerStopsHard, TypeOK
  <2> QED  BY <1>6, <2>1, <2>2, <2>3, <2>4 DEF ServerStopsHard, TypeOK
<1>7. CASE Exit \/ Kill
  <2>1. Vanish /\ cuts' \in 0 .. MaxCuts
    BY <1>7 DEF Exit, Kill, Cut, TypeOK
  <2>2. /\ job' \in [Jobs -> Job]
        /\ request' \in [Requests -> {"idle", "begin", "tx"}]
        /\ spoiled' \subseteq Jobs \cup Requests
    BY <2>1, JobTypes DEF Vanish, TypeOK
  <2>3. script' \in Seq(Steps)
    BY <2>1 DEF Vanish
  <2> QED  BY <2>1, <2>2, <2>3 DEF Vanish, TypeOK
<1>9. CASE Fetch
  BY <1>9 DEF Fetch, TypeOK
<1>10. CASE AddRecord
  BY <1>10 DEF AddRecord, TypeOK
<1>11. CASE AddRecordRefused
  BY <1>11 DEF AddRecordRefused, TypeOK
<1>12. CASE DeadLetter
  <2>1. dlq' \subseteq 1 .. MaxMessages
    BY <1>12 DEF DeadLetter, TypeOK
  <2>2. UNCHANGED <<besideLoop, offset, kept>>
    BY <1>12 DEF DeadLetter
  <2>3. cancelled' \in BOOLEAN /\ loop' \in {"commit", "ended"}
    BY <1>12 DEF DeadLetter, TypeOK
  <2> QED  BY <1>12, <2>1, <2>2, <2>3 DEF DeadLetter, TypeOK
<1>13. CASE DeadLetterRefused
  BY <1>13 DEF DeadLetterRefused, EndLoop, TypeOK
<1>14. CASE CommitMessages
  BY <1>14 DEF CommitMessages, TypeOK
<1>15. CASE ReaderRefuses \/ KafkaFails
  <2>1. EndLoop /\ UNCHANGED dlq
    BY <1>15 DEF ReaderRefuses, KafkaFails
  <2> QED  BY <2>1 DEF EndLoop, TypeOK
<1>16. CASE ServingEnds
  BY <1>16 DEF ServingEnds, TypeOK
<1>17. CASE ServerCrashes
  BY <1>17 DEF ServerCrashes, Cut, TypeOK
<1>18. ASSUME NEW j \in Jobs, JobBegins(j) \/ JobStep(j) PROVE Typed'
  <2>1. UNCHANGED besideJob
    BY <1>18 DEF JobStep, JobBegins, JobFetches, JobRefused, JobSends, JobSendFails, JobMarks,
       JobRollsBack
  <2>2. job' \in [Jobs -> Job]
    <3>1. job \in [Jobs -> Job]
      BY DEF TypeOK
    <3>2. pending \ Locked \subseteq Rows
      BY DEF TypeOK
    <3> QED
      BY <1>0, <1>18, <3>1, <3>2, JobBecomes, JobTypes, BecomesTyped DEF JobStep
  <2>3. /\ pending' \subseteq Rows
        /\ spoiled' \subseteq Jobs \cup Requests
    BY <1>18 DEF JobStep, JobBegins, JobFetches, JobRefused, JobSends, JobSendFails, JobMarks,
       JobRollsBack, TypeOK
  <2>4. sent' \in [Rows -> Nat]
    <3>1. ASSUME NEW r \in Rows, NEW n \in {0, 1}, sent' = [sent EXCEPT ![r] = @ + n]
          PROVE  sent' \in [Rows -> Nat]
      BY <3>1 DEF TypeOK
    <3>2. CASE JobSends(j)
      BY <1>0, <3>1, <3>2, JobBecomes DEF JobSends
    <3>3. CASE JobSendFails(j)
      <4>1. PICK n \in {0, 1} : sent' = [sent EXCEPT ![job[j].row] = @ + n]
        BY <3>3 DEF JobSendFails
      <4>2. job[j].row \in Rows
        BY <1>0, <3>3, JobBecomes
      <4> QED  BY <3>1, <4>1, <4>2
    <3>4. CASE UNCHANGED sent
      BY <3>4 DEF TypeOK
    <3> QED
      BY <1>18, <3>2, <3>3, <3>4 DEF JobStep, JobBegins, JobFetches, JobRefused, JobMarks, JobRollsBack
  <2> QED  BY <2>1, <2>2, <2>3, <2>4 DEF TypeOK
<1>19. ASSUME NEW q \in Requests, RequestArrives(q) \/ RequestStep(q) PROVE Typed'
  <2>1. UNCHANGED besideRequest
    BY <1>19 DEF RequestStep, RequestArrives, RequestBegins, RequestRefused, RequestEnds
  <2>2. /\ request' \in [Requests -> {"idle", "begin", "tx"}]
        /\ spoiled' \subseteq Jobs \cup Requests
    BY <1>19 DEF RequestStep, RequestArrives, RequestBegins, RequestRefused, RequestEnds, TypeOK
  <2> QED  BY <2>1, <2>2 DEF TypeOK
<1>20. CASE UNCHANGED vars
  BY <1>20 DEF TypeOK
<1> QED
  BY <1>1, <1>2, <1>3, <1>4, <1>5, <1>6, <1>7, <1>9, <1>10, <1>11, <1>12, <1>13, <1>14, <1>15,
     <1>16, <1>17, <1>18, <1>19, <1>20 DEF Next, HookStep, LoopStep, Failure

LEMMA TypedAlways == Spec => []Typed
<1> QED  BY InitTyped, TypedStep, PTL DEF Spec

(* The types of the process's state.  The stop of a consumer that holds a  *)
(* message leaves the offset within the topic, and no hook's step begins   *)
(* when the script is at its end.                                          *)
THEOREM TypeCorrect == Spec => []TypeOK
<1>1. Typed => TypeOK
  BY DEF Typed
<1> QED  BY <1>1, TypedAlways, PTL

----------------------------------------------------------------------------
(* The order of the steps of a stop. *)

Finished(a) == a \in closed /\ \A i \in 1 .. Len(script) : script[i] # a

(* Step b begins only when step a is done, *)
Before(a, b) ==
  /\ b \in closed => Finished(a)
  /\ \A i \in 1 .. Len(script) : script[i] = b =>
       /\ \A k \in i + 1 .. Len(script) : script[k] # a
       /\ a \in closed \/ \E k \in 1 .. i - 1 : script[k] = a

(* ... and step a does not fail to come. *)
Comes(a) == phase = "stopping" => a \in closed \/ \E i \in 1 .. Len(script) : script[i] = a

Ordered ==
  /\ begun => Head(script) \in closed
  /\ phase = "up" => closed = {}
  /\ Comes("jobs")
  /\ Before("jobs", "pool")
  /\ Before("jobs", "producer")
  /\ service = "bot" => Before("reader", "pool")
  /\ service = "scrapper" => /\ Comes("server")
                             /\ Before("server", "pool")
                             /\ Before("jobs", "cancel")

(* All that the steps of the process do to its script. *)
Ends     == begun /\ script' = Tail(script) /\ begun' = FALSE /\ UNCHANGED <<phase, closed>>
Vanishes == phase' = "exited" /\ script' = << >> /\ begun' = FALSE /\ UNCHANGED closed
Starts   == /\ phase = "exited"
            /\ phase' = "up"
            /\ closed' = {}
            /\ UNCHANGED <<script, begun>>

(* ... and no step does anything else to it. *)
LEMMA HookMoves ==
  ASSUME [Next]_vars
  PROVE  /\ service' = service
         /\ Stop \/ BeginStep \/ Ends \/ Vanishes \/ Starts \/ UNCHANGED hookVars
<1> USE DEF vars, hookVars, besideLoop, besideJob, besideRequest
<1>1. CASE Start \/ Stop \/ HookStep \/ Failure
  BY <1>1 DEF Start, HookStep, Failure, BeginStep, EndStep, Exit, Kill, Vanish, StepTimesOut,
     ServerStopsHard, KafkaFails, EndLoop, ServerCrashes, Stop, Ends, Vanishes, Starts
<1>2. CASE LoopStep \/ ServingEnds
  BY <1>2 DEF LoopStep, Fetch, AddRecord, AddRecordRefused, DeadLetter, DeadLetterRefused,
     CommitMessages, ReaderRefuses, EndLoop, ServingEnds
<1>3. ASSUME NEW j \in Jobs, JobBegins(j) \/ JobStep(j)
      PROVE  service' = service /\ UNCHANGED hookVars
  BY <1>3 DEF JobStep, JobBegins, JobFetches, JobRefused, JobSends, JobSendFails, JobMarks,
     JobRollsBack
<1>4. ASSUME NEW q \in Requests, RequestArrives(q) \/ RequestStep(q)
      PROVE  service' = service /\ UNCHANGED hookVars
  BY <1>4 DEF RequestStep, RequestArrives, RequestBegins, RequestRefused, RequestEnds
<1>5. CASE UNCHANGED vars
  BY <1>5
<1> QED  BY <1>1, <1>2, <1>3, <1>4, <1>5 DEF Next

(* The steps of a script that is not empty, and of its rest. *)
LEMMA Rest ==
  ASSUME script \in Seq(Steps), script # << >>, script' = Tail(script)
  PROVE  /\ Head(script) = script[1]
         /\ Len(script) \in Nat /\ 1 \in 1 .. Len(script)
         /\ Len(script') = Len(script) - 1
         /\ \A i \in 1 .. Len(script') : script'[i] = script[i + 1]
OBVIOUS

(* A stop begins with the script of the service. *)
Listed(a) == \E i \in 1 .. Len(script) : script[i] = a
Sorted(a, b) ==
  \A i \in 1 .. Len(script) : script[i] = b =>
     /\ \A k \in i + 1 .. Len(script) : script[k] # a
     /\ \E k \in 1 .. i - 1 : script[k] = a

(* The scripts of the three services put these steps in this order. *)
LEMMA ScriptsSorted ==
  ASSUME service \in AllServices, script' = StopScript(service)
  PROVE  /\ Listed("jobs")'
         /\ Sorted("jobs", "pool")'
         /\ Sorted("jobs", "producer")'
         /\ service = "bot" => Sorted("reader", "pool")'
         /\ service = "scrapper" => /\ Listed("server")'
                                    /\ Sorted("server", "pool")'
                                    /\ Sorted("jobs", "cancel")'
<1>1. CASE service = "agent"
  <2>1. script' = <<"jobs", "pool", "producer", "reader", "cancel", "await">>
    BY <1>1, StopScripts
  <2>2. /\ Len(script') = 6
        /\ script'[1] = "jobs" /\ script'[2] = "pool" /\ script'[3] = "producer"
        /\ script'[4] = "reader" /\ script'[5] = "cancel" /\ script'[6] = "await"
    BY <2>1
  <2> QED  BY <1>1, <2>2 DEF Listed, Sorted
<1>2. CASE service = "bot"
  <2>1. script' = <<"reader", "cancel", "await", "jobs", "pool">>
    BY <1>2, StopScripts
  <2>2. /\ Len(script') = 5
        /\ script'[1] = "reader" /\ script'[2] = "cancel" /\ script'[3] = "await"
        /\ script'[4] = "jobs" /\ script'[5] = "pool"
    BY <2>1
  <2> QED  BY <1>2, <2>2 DEF Listed, Sorted
<1>3. CASE service = "scrapper"
  <2>1. script' = <<"server", "jobs", "cancel", "await", "producer", "pool">>
    BY <1>3, StopScripts
  <2>2. /\ Len(script') = 6
        /\ script'[1] = "server" /\ script'[2] = "jobs" /\ script'[3] = "cancel"
        /\ script'[4] = "await" /\ script'[5] = "producer" /\ script'[6] = "pool"
    BY <2>1
  <2>3. Listed("jobs")' /\ Listed("server")'
    BY <2>2 DEF Listed
  <2>4. Sorted("jobs", "pool")' /\ Sorted("jobs", "producer")'
    BY <2>2 DEF Sorted
  <2>5. Sorted("server", "pool")' /\ Sorted("jobs", "cancel")'
    BY <2>2 DEF Sorted
  <2> QED  BY <1>3, <2>3, <2>4, <2>5
<1> QED  BY <1>1, <1>2, <1>3 DEF AllServices

(* Once a step is before another, or sure to come, it remains so. *)
LEMMA BeforeStays ==
  ASSUME Typed, begun => Head(script) \in closed, NEW a, NEW b, a # b, Before(a, b),
         BeginStep \/ Ends \/ Vanishes \/ Starts \/ UNCHANGED hookVars
  PROVE  Before(a, b)'
<1> USE DEF Before, Finished
<1>1. CASE BeginStep
  <2>1. /\ script # << >> /\ script' = script /\ closed' = closed \cup {script[1]}
        /\ Len(script) \in Nat /\ 1 \in 1 .. Len(script)
    BY <1>1 DEF BeginStep, Typed, TypeOK
  <2>2. b \in closed' => Finished(a)'
    <3>1. CASE b \in closed
      BY <2>1, <3>1
    <3>2. CASE b = script[1]
      <4>1. \A k \in 1 .. 1 - 1 : FALSE
        OBVIOUS
      <4>2. a \in closed /\ \A k \in 2 .. Len(script) : script[k] # a
        BY <2>1, <3>2, <4>1
      <4>3. \A k \in 1 .. Len(script) : script[k] # a
        BY <2>1, <3>2, <4>2
      <4> QED  BY <2>1, <4>2, <4>3
    <3> QED  BY <2>1, <3>1, <3>2
  <2> QED  BY <2>1, <2>2
<1>2. CASE Ends
  <2>1. /\ script \in Seq(Steps) /\ script # << >> /\ script' = Tail(script) /\ closed' = closed
        /\ Head(script) \in closed
    BY <1>2 DEF Ends, Typed, TypeOK
  <2>2. /\ script[1] \in closed
        /\ Len(script) \in Nat /\ 1 \in 1 .. Len(script)
        /\ Len(script') = Len(script) - 1
        /\ \A i \in 1 .. Len(script') : script'[i] = script[i + 1]
    BY <2>1, Rest
  <2>3. b \in closed' => Finished(a)'
    BY <2>1, <2>2
  <2>4. ASSUME NEW i \in 1 .. Len(script'), script'[i] = b
        PROVE  /\ \A k \in i + 1 .. Len(script') : script'[k] # a
               /\ a \in closed' \/ \E k \in 1 .. i - 1 : script'[k] = a
    <3>1. i + 1 \in 1 .. Len(script) /\ script[i + 1] = b
      BY <2>2, <2>4
    <3>2. \A k \in i + 1 .. Len(script') : script'[k] # a
      BY <2>2, <3>1
    <3>3. CASE a \in closed
      BY <2>1, <3>2, <3>3
    <3>4. ASSUME NEW k \in 1 .. (i + 1) - 1, script[k] = a
          PROVE  a \in closed' \/ \E m \in 1 .. i - 1 : script'[m] = a
      <4>1. CASE k = 1
        BY <2>1, <2>2, <3>4, <4>1
      <4>2. CASE k # 1
        <5>1. k - 1 \in 1 .. i - 1 /\ k - 1 \in 1 .. Len(script') /\ (k - 1) + 1 = k
          BY <2>2, <4>2
        <5>2. script'[k - 1] = script[(k - 1) + 1]
          BY <2>2, <5>1
        <5> QED  BY <3>4, <5>1, <5>2
      <4> QED  BY <4>1, <4>2
    <3> QED  BY <3>1, <3>2, <3>3, <3>4
  <2> QED  BY <2>3, <2>4
<1>3. CASE Vanishes
  BY <1>3 DEF Vanishes
<1>4. CASE Starts
  BY <1>4 DEF Starts, Typed, TypeOK
<1>5. CASE UNCHANGED hookVars
  BY <1>5 DEF hookVars
<1> QED  BY <1>1, <1>2, <1>3, <1>4, <1>5

LEMMA ComesStays ==
  ASSUME Typed, begun => Head(script) \in closed, NEW a, Comes(a),
         BeginStep \/ Ends \/ Vanishes \/ Starts \/ UNCHANGED hookVars
  PROVE  Comes(a)'
<1> USE DEF Comes
<1>1. CASE BeginStep
  BY <1>1 DEF BeginStep
<1>2. CASE Ends
  <2>1. /\ script \in Seq(Steps) /\ script # << >> /\ script' = Tail(script)
        /\ closed' = closed /\ phase' = phase /\ Head(script) \in closed
    BY <1>2 DEF Ends, Typed, TypeOK
  <2>2. /\ script[1] \in closed
        /\ Len(script) \in Nat /\ 1 \in 1 .. Len(script)
        /\ Len(script') = Len(script) - 1
        /\ \A i \in 1 .. Len(script') : script'[i] = script[i + 1]
    BY <2>1, Rest
  <2>3. ASSUME NEW i \in 1 .. Len(script), script[i] = a, i # 1
        PROVE  \E m \in 1 .. Len(script') : script'[m] = a
    <3>1. i - 1 \in 1 .. Len(script') /\ (i - 1) + 1 = i
      BY <2>2, <2>3
    <3>2. script'[i - 1] = script[(i - 1) + 1]
      BY <2>2, <3>1
    <3> QED  BY <2>3, <3>1, <3>2
  <2> QED  BY <2>1, <2>2, <2>3
<1>3. CASE Vanishes \/ Starts
  BY <1>3 DEF Vanishes, Starts
<1>4. CASE UNCHANGED hookVars
  BY <1>4 DEF hookVars
<1> QED  BY <1>1, <1>2, <1>3, <1>4

LEMMA InitOrdered == Init => Ordered
BY DEF Init, Ordered, Comes, Before

LEMMA OrderedStep == Typed /\ Ordered /\ [Next]_vars => Ordered'
<1> SUFFICES ASSUME Typed, Ordered, [Next]_vars PROVE Ordered'
  OBVIOUS
<1>1. /\ service' = service
      /\ Stop \/ BeginStep \/ Ends \/ Vanishes \/ Starts \/ UNCHANGED hookVars
  BY HookMoves
<1>2. begun => Head(script) \in closed
  BY DEF Ordered
<1>3. CASE Stop
  <2>1. /\ script' = StopScript(service) /\ closed' = {} /\ ~begun'
        /\ phase' = "stopping"
    BY <1>3 DEF Stop, Ordered, Typed, TypeOK
  <2>2. service \in AllServices
    BY LifecycleAssumption DEF Typed, TypeOK
  <2>3. /\ Listed("jobs")'
        /\ Sorted("jobs", "pool")'
        /\ Sorted("jobs", "producer")'
        /\ service = "bot" => Sorted("reader", "pool")'
        /\ service = "scrapper" => /\ Listed("server")'
                                   /\ Sorted("server", "pool")'
                                   /\ Sorted("jobs", "cancel")'
    BY <2>1, <2>2, ScriptsSorted
  <2> QED  BY <1>1, <2>1, <2>3 DEF Ordered, Comes, Before, Listed, Sorted
<1>4. CASE ~Stop
  <2>1. BeginStep \/ Ends \/ Vanishes \/ Starts \/ UNCHANGED hookVars
    BY <1>1, <1>4
  <2>2. (begun => Head(script) \in closed)'
    <3>1. CASE BeginStep
      BY <3>1 DEF BeginStep
    <3>2. CASE Ends \/ Vanishes
      BY <3>2 DEF Ends, Vanishes
    <3>3. CASE Starts
      BY <3>3 DEF Starts, Typed, TypeOK
    <3>4. CASE UNCHANGED hookVars
      BY <1>2, <3>4 DEF hookVars
    <3> QED  BY <2>1, <3>1, <3>2, <3>3, <3>4
  <2>3. (phase = "up" => closed = {})'
    BY <2>1 DEF BeginStep, Ends, Vanishes, Starts, hookVars, Ordered, Typed, TypeOK
  <2>4. \A a, b : a # b /\ Before(a, b) => Before(a, b)'
    BY <1>2, <2>1, BeforeStays
  <2>5. \A a : Comes(a) => Comes(a)'
    BY <1>2, <2>1, ComesStays
  <2>6. Comes("jobs")' /\ Before("jobs", "pool")' /\ Before("jobs", "producer")'
    BY <2>4, <2>5 DEF Ordered
  <2>7. service' = "bot" => Before("reader", "pool")'
    BY <1>1, <2>4 DEF Ordered
  <2>8. service' = "scrapper" => /\ Comes("server")'
                                 /\ Before("server", "pool")'
                                 /\ Before("jobs", "cancel")'
    BY <1>1, <2>4, <2>5 DEF Ordered
  <2> QED  BY <2>2, <2>3, <2>6, <2>7, <2>8 DEF Ordered
<1> QED  BY <1>3, <1>4

LEMMA OrderedAlways == Spec => [](Typed /\ Ordered)
<1> QED  BY InitTyped, TypedStep, InitOrdered, OrderedStep, PTL DEF Spec

----------------------------------------------------------------------------
(* What the bot acknowledges. *)

(* A commit of a message that was not kept cannot succeed any more: its    *)
(* insert was refused because the pool was closed, and so the reader was   *)
(* closed before, or because the context was cancelled.                    *)
Kept ==
  service = "bot" =>
    /\ AcknowledgedIsKept
    /\ loop = "commit" /\ offset + 1 \notin kept \cup dlq =>
         "reader" \in closed \/ cancelled

LEMMA InitKept == Init => Kept
BY DEF Init, Kept, AcknowledgedIsKept

LEMMA KeptStep == Typed /\ Ordered /\ Kept /\ [Next]_vars => Kept'
<1> DEFINE In(k) == k \in kept \cup dlq
           Doomed == "reader" \in closed \/ cancelled
<1> SUFFICES ASSUME Typed, Ordered, Kept, [Next]_vars, service' = "bot"
             PROVE  /\ \A k \in 1 .. offset' : In(k)'
                    /\ loop' = "commit" /\ ~In(offset + 1)' => Doomed'
  BY DEF Kept, AcknowledgedIsKept
<1> DEFINE Goal == /\ \A k \in 1 .. offset' : In(k)'
                   /\ loop' = "commit" /\ ~In(offset + 1)' => Doomed'
<1>0. /\ service = "bot"
      /\ "pool" \in closed => "reader" \in closed
      /\ offset \in Nat
  BY HookMoves, LifecycleAssumption DEF Ordered, Before, Finished, Typed, TypeOK
<1>21. /\ \A k \in 1 .. offset : In(k)
       /\ loop = "commit" /\ ~In(offset + 1) => Doomed
  <2>1. \A k \in 1 .. offset : In(k)
    BY <1>0 DEF Kept, AcknowledgedIsKept
  <2>2. loop = "commit" /\ ~In(offset + 1) => Doomed
    BY <1>0 DEF Kept
  <2> QED  BY <2>1, <2>2
<1>1. CASE UNCHANGED loopVars /\ closed \subseteq closed' /\ (cancelled => cancelled')
  BY <1>21, <1>1 DEF loopVars
<1>2. CASE loop' # "commit" /\ offset' = offset /\ kept \subseteq kept' /\ dlq \subseteq dlq'
  BY <1>21, <1>2
<1>3. CASE Start
  BY <1>2, <1>3 DEF Start, HasLoop
<1>4. CASE Fetch
  BY <1>2, <1>4 DEF Fetch
<1>5. CASE AddRecord
  <2>1. offset' = offset /\ kept' = kept \cup {offset + 1} /\ dlq' = dlq
    BY <1>5 DEF AddRecord
  <2> QED  BY <1>21, <2>1
<1>6. CASE AddRecordRefused
  <2>1. /\ offset' = offset /\ kept' = kept /\ dlq' = dlq /\ closed' = closed
        /\ cancelled' = cancelled /\ ("pool" \in closed \/ cancelled)
    BY <1>6 DEF AddRecordRefused, besideLoop, hookVars
  <2>2. Doomed'
    BY <1>0, <2>1
  <2>3. \A k \in 1 .. offset' : In(k)'
    BY <1>21, <2>1
  <2> QED  BY <2>2, <2>3
<1>7. CASE DeadLetter
  <2>1. offset' = offset /\ kept' = kept /\ dlq' = dlq \cup {offset + 1}
    BY <1>7 DEF DeadLetter
  <2> QED  BY <1>21, <2>1
<1>8. CASE CommitMessages
  <2>1. /\ offset' = offset + 1 /\ kept' = kept /\ dlq' = dlq /\ loop' = "fetch"
        /\ loop = "commit" /\ "reader" \notin closed /\ ~cancelled
    BY <1>8 DEF CommitMessages, ReaderOpen
  <2>2. In(offset + 1)
    BY <1>21, <2>1
  <2>3. \A k \in 1 .. offset' : k \in 1 .. offset \/ k = offset + 1
    BY <1>0, <2>1
  <2> QED  BY <1>21, <2>1, <2>2, <2>3
<1>9. CASE Exit \/ Kill \/ DeadLetterRefused \/ ReaderRefuses \/ KafkaFails
  BY <1>2, <1>9 DEF Exit, Kill, Vanish, DeadLetterRefused, ReaderRefuses, KafkaFails, EndLoop
<1>10. CASE \/ Stop \/ BeginStep \/ EndStep \/ StepTimesOut \/ ServerStopsHard
            \/ ServingEnds \/ ServerCrashes \/ UNCHANGED vars
  <2>1. UNCHANGED loopVars
    BY <1>10 DEF Stop, BeginStep, EndStep, StepTimesOut, ServerStopsHard, ServingEnds,
       ServerCrashes, vars
  <2>2. closed \subseteq closed'
    BY <1>10 DEF Stop, BeginStep, EndStep, StepTimesOut, ServerStopsHard, ServingEnds,
       ServerCrashes, vars, hookVars
  <2>3. cancelled => cancelled'
    BY <1>10 DEF Stop, BeginStep, EndStep, StepTimesOut, ServerStopsHard, ServingEnds,
       ServerCrashes, vars
  <2> QED  BY <1>1, <2>1, <2>2, <2>3
<1>11. ASSUME NEW j \in Jobs, JobBegins(j) \/ JobStep(j) PROVE Goal
  <2>1. UNCHANGED <<closed, cancelled, loopVars>>
    BY <1>11 DEF JobStep, JobBegins, JobFetches, JobRefused, JobSends, JobSendFails, JobMarks,
       JobRollsBack, besideJob, hookVars
  <2> QED  BY <1>1, <2>1
<1>12. ASSUME NEW q \in Requests, RequestArrives(q) \/ RequestStep(q) PROVE Goal
  <2>1. UNCHANGED <<closed, cancelled, loopVars>>
    BY <1>12 DEF RequestStep, RequestArrives, RequestBegins, RequestRefused, RequestEnds,
       besideRequest, hookVars
  <2> QED  BY <1>1, <2>1
<1> QED
  BY <1>3, <1>4, <1>5, <1>6, <1>7, <1>8, <1>9, <1>10, <1>11, <1>12 DEF Next, HookStep, LoopStep, Failure

(* A stopping bot loses no update, whatever the sizes of the pool and the  *)
(* topic, the number of jobs, and wherever a stop or a kill meets it: an   *)
(* offset it committed is of a message in the inbox or in the dead-letter  *)
(* topic.                                                                  *)
THEOREM BotAcknowledgesWhatItKept == Spec => []BotKeepsAcknowledged
<1>1. Kept => BotKeepsAcknowledged
  BY DEF Kept, BotKeepsAcknowledged
<1> QED
  BY <1>1, OrderedAlways, InitTyped, InitOrdered, InitKept, TypedStep, OrderedStep, KeptStep, PTL
     DEF Spec

----------------------------------------------------------------------------
(* Who is at work. *)

Working ==
  /\ service = "scrapper" => loop = "ended"
  /\ service # "scrapper" => RequestsDone
  /\ phase = "exited" => serving = "ended" /\ JobsDone /\ RequestsDone
  /\ \A j \in Jobs : job[j].row # NoRow => job[j].row \in pending
  /\ \A i, j \in Jobs : i # j /\ job[i].row = job[j].row => job[i].row = NoRow
  /\ service = "scrapper" =>
       \A i, j \in Jobs : i # j => job[i].pc = "idle" \/ job[j].pc = "idle"

(* A step of one job leaves the others alone. *)
LEMMA OthersStay ==
  ASSUME job \in [Jobs -> Job], NEW j \in Jobs, NEW t, Becomes(j, t)
  PROVE  /\ job'[j] = t
         /\ \A i \in Jobs : i # j => job'[i] = job[i]
BY DEF Becomes

(* What a step of a job begins with, and what it leaves. *)
LEMMA JobWork ==
  ASSUME Typed, NEW j \in Jobs, JobBegins(j) \/ JobStep(j)
  PROVE  /\ UNCHANGED <<service, phase, script, begun, closed, cancelled, loop, request, cuts>>
         /\ \E t : /\ Becomes(j, t)
                   /\ \/ t.row = job[j].row /\ pending' = pending
                      \/ t.row \in pending \ Locked /\ pending' = pending
                      \/ t.row = NoRow /\ pending \ {job[j].row} \subseteq pending'
                   /\ t.pc # "idle" =>
                        (service = "scrapper" /\ JobsDone) \/ service # "scrapper" \/ job[j].pc # "idle"
<1> USE DEF Typed
<1>0. NoJob.row = NoRow /\ NoJob.pc = "idle" /\ \A p, r : JobAt(p, r).row = r /\ JobAt(p, r).pc = p
  BY DEF NoJob, JobAt
<1>1. UNCHANGED <<service, phase, script, begun, closed, cancelled, loop, request, cuts>>
  BY DEF JobStep, JobBegins, JobFetches, JobRefused, JobSends, JobSendFails, JobMarks, JobRollsBack,
     besideJob, hookVars, loopVars, countVars
<1> DEFINE Works(t) ==
      /\ Becomes(j, t)
      /\ \/ t.row = job[j].row /\ pending' = pending
         \/ t.row \in pending \ Locked /\ pending' = pending
         \/ t.row = NoRow /\ pending \ {job[j].row} \subseteq pending'
      /\ t.pc # "idle" =>
           (service = "scrapper" /\ JobsDone) \/ service # "scrapper" \/ job[j].pc # "idle"
<1>2. CASE JobBegins(j)
  <2>1. Works(JobAt("begin", NoRow))
    BY <1>0, <1>2, JobBecomes DEF JobBegins
  <2> QED  BY <1>1, <2>1
<1>3. CASE JobFetches(j)
  <2>1. job[j].pc = "begin" /\ pending' = pending
    BY <1>3 DEF JobFetches
  <2>2. CASE Becomes(j, NoJob)
    <3>1. Works(NoJob)
      BY <1>0, <2>1, <2>2
    <3> QED  BY <1>1, <3>1
  <2>3. CASE \E r \in pending \ Locked : Becomes(j, JobAt("send", r))
    <3>1. PICK r \in pending \ Locked : Becomes(j, JobAt("send", r))
      BY <2>3
    <3>2. Works(JobAt("send", r))
      BY <1>0, <2>1, <3>1
    <3> QED  BY <1>1, <3>2
  <2> QED  BY <1>3, <2>2, <2>3, JobBecomes
<1>4. CASE JobRefused(j) \/ JobRollsBack(j) \/ JobMarks(j)
  <2>1. pending \ {job[j].row} \subseteq pending'
    BY <1>4 DEF JobRefused, JobRollsBack, JobMarks, MarkedBy
  <2>2. Works(NoJob)
    BY <1>0, <1>4, <2>1, JobBecomes
  <2> QED  BY <1>1, <2>2
<1>5. CASE JobSends(j)
  <2>1. Works(JobAt("mark", job[j].row))
    BY <1>0, <1>5, JobBecomes DEF JobSends
  <2> QED  BY <1>1, <2>1
<1>6. CASE JobSendFails(j)
  <2>1. Works(JobAt("failed", job[j].row))
    BY <1>0, <1>6, JobBecomes DEF JobSendFails
  <2> QED  BY <1>1, <2>1
<1> QED  BY <1>2, <1>3, <1>4, <1>5, <1>6 DEF JobStep

LEMMA InitWorking == Init => Working
BY DEF Init, Working, JobsDone, RequestsDone, NoJob, HasLoop

LEMMA WorkingStep == Typed /\ Working /\ [Next]_vars => Working'
<1> SUFFICES ASSUME Typed, Working, [Next]_vars PROVE Working'
  OBVIOUS
<1>1. CASE /\ UNCHANGED <<service, job, request, pending>>
           /\ phase' = "exited" => phase = "exited"
           /\ loop = "ended" => loop' = "ended"
           /\ serving = "ended" => serving' = "ended"
  BY <1>1 DEF Working, JobsDone, RequestsDone
<1>2. CASE Exit \/ Kill
  <2>1. /\ service' = service /\ loop' = "ended" /\ serving' = "ended" /\ pending' = pending
        /\ job' = [j \in Jobs |-> NoJob] /\ request' = [q \in Requests |-> "idle"]
    BY <1>2 DEF Exit, Kill, Vanish
  <2> QED  BY <2>1 DEF Working, JobsDone, RequestsDone, NoJob
<1>3. CASE ServerStopsHard
  <2>1. /\ UNCHANGED <<service, phase, loop, serving, job, pending>>
        /\ request' = [q \in Requests |-> "idle"]
    BY <1>3 DEF ServerStopsHard, loopVars
  <2> QED  BY <2>1 DEF Working, JobsDone, RequestsDone
<1>4. CASE Start
  <2>1. /\ UNCHANGED <<service, job, request, pending>> /\ phase' = "up"
        /\ service = "scrapper" => loop' = "ended"
    BY <1>4 DEF Start, HasLoop, workVars
  <2> QED  BY <2>1 DEF Working, JobsDone, RequestsDone
<1>5. CASE \/ Stop \/ BeginStep \/ EndStep \/ StepTimesOut \/ LoopStep \/ KafkaFails
           \/ ServingEnds \/ ServerCrashes \/ UNCHANGED vars
  <2>1. UNCHANGED <<service, job, request, pending>>
    BY <1>5 DEF Stop, BeginStep, EndStep, StepTimesOut, LoopStep, Fetch, AddRecord, AddRecordRefused,
       DeadLetter, DeadLetterRefused, CommitMessages, ReaderRefuses, KafkaFails, EndLoop,
       ServingEnds, ServerCrashes, vars, workVars, besideLoop
  <2>2. phase' = "exited" => phase = "exited"
    BY <1>5 DEF Stop, BeginStep, EndStep, StepTimesOut, LoopStep, Fetch, AddRecord, AddRecordRefused,
       DeadLetter, DeadLetterRefused, CommitMessages, ReaderRefuses, KafkaFails, EndLoop,
       ServingEnds, ServerCrashes, vars, hookVars, besideLoop
  <2>3. loop = "ended" => loop' = "ended"
    BY <1>5 DEF Stop, BeginStep, EndStep, StepTimesOut, LoopStep, Fetch, AddRecord, AddRecordRefused,
       DeadLetter, DeadLetterRefused, CommitMessages, ReaderRefuses, KafkaFails, EndLoop,
       ServingEnds, ServerCrashes, vars, loopVars
  <2>4. serving = "ended" => serving' = "ended"
    BY <1>5 DEF Stop, BeginStep, EndStep, StepTimesOut, LoopStep, Fetch, AddRecord, AddRecordRefused,
       DeadLetter, DeadLetterRefused, CommitMessages, ReaderRefuses, KafkaFails, EndLoop,
       ServingEnds, ServerCrashes, vars, besideLoop
  <2> QED  BY <1>1, <2>1, <2>2, <2>3, <2>4
<1>6. ASSUME NEW j \in Jobs, JobBegins(j) \/ JobStep(j) PROVE Working'
  <2>1. /\ UNCHANGED <<service, phase, loop, request>>
        /\ job \in [Jobs -> Job]
    BY <1>6, JobWork DEF Typed, TypeOK
  <2>2. PICK t : /\ Becomes(j, t)
                 /\ \/ t.row = job[j].row /\ pending' = pending
                    \/ t.row \in pending \ Locked /\ pending' = pending
                    \/ t.row = NoRow /\ pending \ {job[j].row} \subseteq pending'
                 /\ t.pc # "idle" =>
                      (service = "scrapper" /\ JobsDone) \/ service # "scrapper" \/ job[j].pc # "idle"
    BY <1>6, JobWork
  <2>3. /\ job'[j] = t
        /\ \A i \in Jobs : i # j => job'[i] = job[i]
    BY <2>1, <2>2, OthersStay
  <2>4. phase # "exited"
    <3>1. CASE JobBegins(j)
      BY <3>1 DEF JobBegins
    <3>2. CASE JobStep(j)
      <4>1. job[j].pc # "idle"
        BY <3>2 DEF JobStep, JobFetches, JobRefused, JobSends, JobSendFails, JobMarks, JobRollsBack
      <4> QED  BY <4>1 DEF Working, JobsDone
    <3> QED  BY <1>6, <3>1, <3>2
  <2>5. \A i \in Jobs : job'[i].row # NoRow => job'[i].row \in pending'
    <3>1. ASSUME NEW i \in Jobs, i # j, job[i].row # NoRow
          PROVE  job[i].row \in pending /\ job[i].row # job[j].row
      BY <3>1 DEF Working
    <3>2. job[j].row # NoRow => job[j].row \in pending
      BY DEF Working
    <3> QED  BY <2>2, <2>3, <3>1, <3>2
  <2>6. \A i, k \in Jobs : i # k /\ job'[i].row = job'[k].row => job'[i].row = NoRow
    <3>1. \A i \in Jobs : t.row \in pending \ Locked => job[i].row # t.row
      BY DEF Locked
    <3>2. \A i, k \in Jobs : i # k /\ job[i].row = job[k].row => job[i].row = NoRow
      BY DEF Working
    <3>3. t.row = job[j].row \/ t.row \in pending \ Locked \/ t.row = NoRow
      BY <2>2
    <3>4. ASSUME NEW i \in Jobs, i # j, job[i].row = t.row PROVE t.row = NoRow
      BY <3>1, <3>2, <3>3, <3>4
    <3> QED  BY <2>3, <3>2, <3>4
  <2>7. service = "scrapper" =>
          \A i, k \in Jobs : i # k => job'[i].pc = "idle" \/ job'[k].pc = "idle"
    <3> SUFFICES ASSUME service = "scrapper"
                 PROVE  \A i, k \in Jobs : i # k => job'[i].pc = "idle" \/ job'[k].pc = "idle"
      OBVIOUS
    <3>1. \A i, k \in Jobs : i # k => job[i].pc = "idle" \/ job[k].pc = "idle"
      BY DEF Working
    <3>2. t.pc # "idle" => \A i \in Jobs : i # j => job[i].pc = "idle"
      BY <2>2, <3>1 DEF JobsDone
    <3> QED  BY <2>3, <3>1, <3>2
  <2> QED  BY <2>1, <2>4, <2>5, <2>6, <2>7 DEF Working, RequestsDone
<1>7. ASSUME NEW q \in Requests, RequestArrives(q) \/ RequestStep(q) PROVE Working'
  <2>1. UNCHANGED <<service, phase, loop, serving, job, pending>>
    BY <1>7 DEF RequestStep, RequestArrives, RequestBegins, RequestRefused, RequestEnds,
       besideRequest, hookVars, loopVars
  <2>2. service = "scrapper" /\ phase # "exited"
    <3>1. CASE RequestArrives(q)
      BY <3>1 DEF RequestArrives, Working
    <3>2. CASE RequestStep(q)
      <4>1. request[q] # "idle"
        BY <3>2 DEF RequestStep, RequestBegins, RequestRefused, RequestEnds
      <4> QED  BY <4>1 DEF Working, RequestsDone
    <3> QED  BY <1>7, <3>1, <3>2
  <2> QED  BY <2>1, <2>2 DEF Working, JobsDone
<1> QED
  BY <1>2, <1>3, <1>4, <1>5, <1>6, <1>7 DEF Next, HookStep, Failure

----------------------------------------------------------------------------
(* What a stop that keeps its time finishes. *)

(* Too late for the jobs: they are at work, and the context is cancelled   *)
(* or the hook that waits for them is over.                                *)
TooLate == JobCancelled \/ Finished("jobs")
Late    == ~JobsDone /\ TooLate

(* A row whose copy is sent and will be marked, or whose copy may have     *)
(* arrived although its sending failed. *)
Holds(u, r) == u.row = r /\ (u.pc = "mark" \/ (u.pc = "failed" /\ JobCancelled))
Loose(r)    == r \in pending /\ \A j \in Jobs : ~Holds(job[j], r)

(* Whoever comes too late has a kill, a timeout or a crash behind him that *)
(* pays for the copy he may still make.                                    *)
CopyOK(r) ==
  /\ sent[r] <= 1 + cuts
  /\ Loose(r) => sent[r] <= cuts
  /\ Late => sent[r] <= cuts
  /\ Late /\ Loose(r) => sent[r] + 1 <= cuts

Graceful ==
  /\ service = "scrapper" /\ cancelled /\ cuts = 0 => "cancel" \in closed
  /\ Late => cuts > 0
  /\ cuts = 0 /\ Finished("server") => RequestsDone
  /\ spoiled # {} => cuts > 0

Copies == \A r \in Rows : CopyOK(r)

LEMMA InitGrace == Init => Graceful /\ Copies
<1> SUFFICES ASSUME Init PROVE Graceful /\ Copies
  OBVIOUS
<1>1. JobsDone /\ RequestsDone
  BY DEF Init, JobsDone, RequestsDone, NoJob
<1>2. cuts = 0 /\ spoiled = {} /\ ~cancelled /\ \A r \in Rows : sent[r] = 0
  BY DEF Init
<1> QED  BY <1>1, <1>2 DEF Graceful, Copies, CopyOK, Late

(* Too late is the time after the jobs: a closed pool or producer, or a    *)
(* cancelled context, all come after it.                                   *)
LEMMA ClosedIsLate ==
  ASSUME Ordered, Graceful
  PROVE  /\ "pool" \in closed \/ "producer" \in closed => TooLate
         /\ "pool" \in closed /\ service = "scrapper" => Finished("server")
BY DEF Ordered, Before, TooLate

(* When jobs are at work, no step of a hook makes it too late, unless it   *)
(* cuts them short.                                                        *)
LEMMA NoSuddenEnd ==
  ASSUME Typed, Ordered, Working, [Next]_vars, cuts' = cuts, TooLate'
  PROVE  TooLate \/ JobsDone
<1> SUFFICES ASSUME ~TooLate PROVE JobsDone
  OBVIOUS
<1> USE DEF TooLate, JobCancelled
<1>1. CASE Stop
  BY <1>1 DEF Stop, Ordered, Finished
<1>2. CASE BeginStep
  <2>1. /\ script # << >> /\ script' = script /\ closed' = closed \cup {script[1]}
        /\ service' = service /\ Len(script) \in Nat /\ 1 \in 1 .. Len(script)
        /\ cancelled' => cancelled \/ script[1] = "cancel"
    BY <1>2 DEF BeginStep, Typed, TypeOK
  <2>2. CASE Finished("jobs")'
    BY <2>1, <2>2 DEF Finished
  <2>3. CASE service = "scrapper" /\ script[1] = "cancel"
    <3>1. Before("jobs", "cancel")
      BY <2>3 DEF Ordered
    <3>2. \A k \in 1 .. 1 - 1 : FALSE
      OBVIOUS
    <3>3. "jobs" \in closed /\ \A k \in 2 .. Len(script) : script[k] # "jobs"
      BY <2>1, <2>3, <3>1, <3>2 DEF Before
    <3>4. \A k \in 1 .. Len(script) : script[k] # "jobs"
      BY <2>1, <2>3, <3>3
    <3> QED  BY <3>3, <3>4 DEF Finished
  <2> QED  BY <2>1, <2>2, <2>3
<1>3. CASE EndStep
  <2>1. /\ script \in Seq(Steps) /\ script # << >> /\ script' = Tail(script)
        /\ UNCHANGED <<closed, cancelled, service>>
        /\ StepIsDone(Head(script))
    BY <1>3 DEF EndStep, Typed, TypeOK
  <2>2. /\ Head(script) = script[1]
        /\ Len(script) \in Nat /\ 1 \in 1 .. Len(script)
        /\ Len(script') = Len(script) - 1
        /\ \A i \in 1 .. Len(script') : script'[i] = script[i + 1]
    BY <2>1, Rest
  <2>3. CASE script[1] = "jobs"
    BY <2>1, <2>2, <2>3 DEF StepIsDone
  <2>4. CASE script[1] # "jobs"
    <3>1. ASSUME NEW i \in 1 .. Len(script), script[i] = "jobs"
          PROVE  \E k \in 1 .. Len(script') : script'[k] = "jobs"
      <4>1. i - 1 \in 1 .. Len(script') /\ (i - 1) + 1 = i
        BY <2>2, <2>4, <3>1
      <4>2. script'[i - 1] = script[(i - 1) + 1]
        BY <2>2, <4>1
      <4> QED  BY <3>1, <4>1, <4>2
    <3> QED  BY <2>1, <3>1 DEF Finished
  <2> QED  BY <2>3, <2>4
<1>4. CASE Exit \/ Kill
  <2>1. CASE Exit
    <3>1. /\ script = << >> /\ script' = << >> /\ phase = "stopping"
          /\ UNCHANGED <<closed, cancelled, service>>
      BY <2>1 DEF Exit, Vanish
    <3> QED  BY <3>1 DEF Finished
  <2>2. CASE Kill
    BY <2>2 DEF Kill, Cut, Typed, TypeOK
  <2> QED  BY <1>4, <2>1, <2>2
<1>5. CASE Start
  BY <1>5 DEF Start, Finished
<1>6. CASE StepTimesOut \/ ServerStopsHard \/ ServerCrashes
  BY <1>6 DEF StepTimesOut, ServerStopsHard, ServerCrashes, Cut, Typed, TypeOK
<1>7. CASE UNCHANGED <<service, hookVars, cancelled>>
  BY <1>7 DEF Finished, hookVars
<1>8. CASE LoopStep \/ KafkaFails
  <2>1. UNCHANGED <<service, hookVars>> /\ loop # "ended"
    BY <1>8 DEF LoopStep, Fetch, AddRecord, AddRecordRefused, DeadLetter, DeadLetterRefused,
       CommitMessages, ReaderRefuses, KafkaFails, EndLoop, besideLoop
  <2>2. service # "scrapper"
    BY <2>1 DEF Working
  <2> QED  BY <2>1, <2>2 DEF Finished, hookVars
<1>9. CASE ServingEnds \/ UNCHANGED vars
  BY <1>7, <1>9 DEF ServingEnds, vars
<1>10. ASSUME NEW j \in Jobs, JobBegins(j) \/ JobStep(j) PROVE JobsDone
  BY <1>7, <1>10, JobWork DEF hookVars
<1>11. ASSUME NEW q \in Requests, RequestArrives(q) \/ RequestStep(q) PROVE JobsDone
  BY <1>7, <1>11 DEF RequestStep, RequestArrives, RequestBegins, RequestRefused, RequestEnds,
     besideRequest
<1> QED
  BY <1>1, <1>2, <1>3, <1>4, <1>5, <1>6, <1>8, <1>9, <1>10, <1>11 DEF Next, HookStep, Failure

(* Those who do not touch the rows: a kill, a timeout or a crash pays for  *)
(* a copy that has become possible.                                        *)
LEMMA CopiesRest ==
  ASSUME Typed, Copies, UNCHANGED <<job, pending, sent>>,
         cuts' = cuts \/ cuts' = cuts + 1,
         JobsDone \/ (JobCancelled => JobCancelled'),
         cuts' = cuts /\ TooLate' => TooLate \/ JobsDone
  PROVE  Copies'
<1> SUFFICES ASSUME NEW r \in Rows PROVE CopyOK(r)'
  BY DEF Copies
<1>1. sent[r] \in Nat /\ cuts \in Nat /\ sent'[r] = sent[r]
  BY DEF Typed, TypeOK
<1>2. CopyOK(r)
  BY DEF Copies
<1>3. JobsDone' <=> JobsDone
  BY DEF JobsDone
<1>4. Loose(r)' => Loose(r)
  <2>1. CASE JobsDone
    BY <2>1 DEF Loose, Holds, JobsDone
  <2>2. CASE JobCancelled => JobCancelled'
    BY <2>2 DEF Loose, Holds
  <2> QED  BY <2>1, <2>2
<1>5. cuts' = cuts /\ Late' => Late
  BY <1>3 DEF Late
<1>6. CASE cuts' = cuts
  BY <1>1, <1>2, <1>4, <1>5, <1>6 DEF CopyOK
<1>7. CASE cuts' = cuts + 1
  BY <1>1, <1>2, <1>4, <1>7 DEF CopyOK
<1> QED  BY <1>6, <1>7

(* The row of a job that sends is loose, and it is nobody else's. *)
LEMMA OwnRow ==
  ASSUME Typed, Working, NEW j \in Jobs, job[j].row \in Rows
  PROVE  /\ job[j].row \in pending
         /\ \A i \in Jobs : i # j => job[i].row # job[j].row
BY LifecycleAssumption DEF Working

(* What no job but j does to a row that is not j's. *)
LEMMA OtherRows ==
  ASSUME Typed, Working, Copies, NEW j \in Jobs, NEW t, Becomes(j, t), NEW r \in Rows,
         ~JobsDone, UNCHANGED <<service, cancelled, script, closed, cuts>>,
         r \in pending' => r \in pending, sent'[r] = sent[r],
         ~Holds(job[j], r) \/ Holds(t, r)
  PROVE  CopyOK(r)'
<1>1. job \in [Jobs -> Job] /\ sent[r] \in Nat /\ cuts \in Nat
  BY DEF Typed, TypeOK
<1>2. /\ job'[j] = t
      /\ \A i \in Jobs : i # j => job'[i] = job[i]
  BY <1>1, OthersStay
<1>3. JobCancelled' <=> JobCancelled
  BY DEF JobCancelled
<1>4. TooLate' <=> TooLate
  BY <1>3 DEF TooLate, Finished
<1>5. \A u : Holds(u, r)' <=> Holds(u, r)
  BY <1>3 DEF Holds
<1>6. Loose(r)' => Loose(r)
  BY <1>2, <1>3 DEF Loose, Holds
<1>7. Late' => Late
  BY <1>4 DEF Late
<1>8. CopyOK(r)
  BY DEF Copies
<1> QED  BY <1>1, <1>6, <1>7, <1>8 DEF CopyOK

(* A step of a job keeps the account of the copies. *)
LEMMA JobCopies ==
  ASSUME Typed, Ordered, Working, Graceful, Copies, NEW j \in Jobs, JobBegins(j) \/ JobStep(j)
  PROVE  Copies'
<1> SUFFICES ASSUME NEW r \in Rows PROVE CopyOK(r)'
  BY DEF Copies
<1>1. UNCHANGED <<service, cancelled, script, closed, cuts>>
  BY JobWork
<1>2. job \in [Jobs -> Job] /\ sent[r] \in Nat /\ cuts \in Nat /\ sent \in [Rows -> Nat]
  BY DEF Typed, TypeOK
<1>3. (JobCancelled' <=> JobCancelled) /\ (TooLate' <=> TooLate)
  BY <1>1 DEF JobCancelled, TooLate, Finished
<1>4. CopyOK(r)
  BY DEF Copies
<1>5. NoJob.row = NoRow /\ NoJob.pc = "idle" /\ \A p, x : JobAt(p, x).row = x /\ JobAt(p, x).pc = p
  BY DEF NoJob, JobAt
<1>6. job[j].pc # "idle" => ~JobsDone
  BY DEF JobsDone
<1>7. TypeOK
  BY DEF Typed
<1>8. CASE JobBegins(j)
  <2>1. /\ job[j] = NoJob /\ pending' = pending /\ sent' = sent
        /\ Becomes(j, JobAt("begin", NoRow))
    BY <1>7, <1>8, JobBecomes DEF JobBegins
  <2>2. ~TooLate'
    BY <1>3, <1>8 DEF JobBegins, TooLate, Finished
  <2>3. /\ job'[j] = JobAt("begin", NoRow)
        /\ \A i \in Jobs : i # j => job'[i] = job[i]
    BY <1>2, <2>1, OthersStay
  <2>4. Loose(r)' => Loose(r)
    BY <1>3, <1>5, <2>1, <2>3 DEF Loose, Holds
  <2> QED  BY <1>1, <1>2, <1>4, <2>1, <2>2, <2>4 DEF CopyOK, Late
<1>9. CASE JobFetches(j) \/ JobRefused(j)
  <2>1. /\ job[j].pc = "begin" /\ pending' = pending /\ sent' = sent
        /\ \E t : Becomes(j, t)
    BY <1>7, <1>9, JobBecomes DEF JobFetches, JobRefused
  <2>2. ~Holds(job[j], r)
    BY <2>1 DEF Holds
  <2> QED  BY <1>1, <1>6, <2>1, <2>2, OtherRows
<1>10. CASE JobSends(j)
  <2>1. /\ job[j].pc = "send" /\ pending' = pending /\ sent' = [sent EXCEPT ![job[j].row] = @ + 1]
        /\ Becomes(j, JobAt("mark", job[j].row)) /\ job[j].row \in Rows
    BY <1>7, <1>10, JobBecomes DEF JobSends
  <2>2. ~Holds(job[j], r)
    BY <2>1 DEF Holds
  <2>3. CASE r # job[j].row
    <3>1. sent'[r] = sent[r]
      BY <1>2, <2>1, <2>3
    <3> QED  BY <1>1, <1>6, <2>1, <2>2, <3>1, OtherRows
  <2>4. CASE r = job[j].row
    <3>1. r \in pending /\ \A i \in Jobs : i # j => job[i].row # r
      BY <2>1, <2>4, OwnRow
    <3>2. Loose(r)
      BY <2>2, <3>1 DEF Loose, Holds
    <3>3. sent'[r] = sent[r] + 1
      BY <1>2, <2>1, <2>4
    <3>4. job'[j] = JobAt("mark", r)
      BY <1>2, <2>1, <2>4, OthersStay
    <3>5. ~Loose(r)'
      BY <1>5, <3>4 DEF Loose, Holds
    <3>6. Late' => Late
      BY <1>3, <1>6, <2>1 DEF Late
    <3> QED  BY <1>1, <1>2, <1>4, <3>2, <3>3, <3>5, <3>6 DEF CopyOK
  <2> QED  BY <2>3, <2>4
<1>11. CASE JobSendFails(j)
  <2>1. /\ job[j].pc = "send" /\ pending' = pending
        /\ "producer" \in closed \/ JobCancelled
        /\ Becomes(j, JobAt("failed", job[j].row)) /\ job[j].row \in Rows
    BY <1>7, <1>11, JobBecomes DEF JobSendFails
  <2>2. PICK n \in {0, 1} : /\ sent' = [sent EXCEPT ![job[j].row] = @ + n]
                            /\ n = 0 \/ "producer" \notin closed
    BY <1>11 DEF JobSendFails
  <2>3. ~Holds(job[j], r)
    BY <2>1 DEF Holds
  <2>4. CASE r # job[j].row
    <3>1. sent'[r] = sent[r]
      BY <1>2, <2>1, <2>2, <2>4
    <3> QED  BY <1>1, <1>6, <2>1, <2>3, <3>1, OtherRows
  <2>5. CASE r = job[j].row
    <3>1. r \in pending /\ \A i \in Jobs : i # j => job[i].row # r
      BY <2>1, <2>5, OwnRow
    <3>2. Loose(r)
      BY <2>3, <3>1 DEF Loose, Holds
    <3>3. Late
      BY <1>6, <2>1, ClosedIsLate DEF Late, TooLate
    <3>4. sent'[r] = sent[r] + n
      BY <1>2, <2>1, <2>2, <2>5
    <3>5. job'[j] = JobAt("failed", r)
      BY <1>2, <2>1, <2>5, OthersStay
    <3>6. JobCancelled => ~Loose(r)'
      BY <1>3, <1>5, <3>5 DEF Loose, Holds
    <3>7. sent[r] + 1 <= cuts
      BY <1>4, <3>2, <3>3 DEF CopyOK
    <3>8. CASE JobCancelled
      BY <1>1, <1>2, <3>4, <3>6, <3>7, <3>8 DEF CopyOK
    <3>9. CASE ~JobCancelled
      <4>1. n = 0
        BY <2>1, <2>2, <3>9
      <4> QED  BY <1>1, <1>2, <3>4, <3>7, <4>1 DEF CopyOK
    <3> QED  BY <3>8, <3>9
  <2> QED  BY <2>4, <2>5
<1>12. CASE JobMarks(j)
  <2>1. /\ job[j].pc \in {"mark", "failed"} /\ ~JobCancelled /\ sent' = sent
        /\ pending' = pending \ MarkedBy(j) /\ Becomes(j, NoJob)
    BY <1>7, <1>12, JobBecomes DEF JobMarks
  <2>2. CASE Holds(job[j], r)
    <3>1. job[j].pc = "mark" /\ r = job[j].row
      BY <2>1, <2>2 DEF Holds
    <3>2. ~Loose(r)'
      BY <2>1, <3>1 DEF Loose, MarkedBy
    <3>3. Late' => Late
      BY <1>3, <1>6, <2>1 DEF Late
    <3> QED  BY <1>1, <1>2, <1>4, <2>1, <3>2, <3>3 DEF CopyOK
  <2>3. CASE ~Holds(job[j], r)
    BY <1>1, <1>6, <2>1, <2>3, OtherRows
  <2> QED  BY <2>2, <2>3
<1>13. CASE JobRollsBack(j)
  <2>1. /\ job[j].pc \in {"mark", "failed"} /\ JobCancelled /\ sent' = sent
        /\ pending' = pending /\ Becomes(j, NoJob)
    BY <1>7, <1>13, JobBecomes DEF JobRollsBack
  <2>2. Late
    BY <1>6, <2>1 DEF Late, TooLate
  <2>3. JobsDone'
    <3>1. /\ job'[j] = NoJob
          /\ \A i \in Jobs : i # j => job'[i] = job[i]
      BY <1>2, <2>1, OthersStay
    <3>2. \A i \in Jobs : i # j => job[i].pc = "idle"
      BY <2>1 DEF Working, JobCancelled
    <3> QED  BY <1>5, <3>1, <3>2 DEF JobsDone
  <2> QED  BY <1>1, <1>2, <1>4, <2>1, <2>2, <2>3 DEF CopyOK, Late
<1> QED  BY <1>8, <1>9, <1>10, <1>11, <1>12, <1>13 DEF JobStep

(* Kills, timeouts and crashes are counted one by one. *)
LEMMA CutsGrow ==
  ASSUME Typed, [Next]_vars
  PROVE  cuts \in Nat /\ (cuts' = cuts \/ cuts' = cuts + 1)
<1>1. CASE Failure
  BY <1>1 DEF Failure, StepTimesOut, ServerStopsHard, Kill, Cut, KafkaFails, EndLoop, ServerCrashes,
     besideLoop, countVars, Typed, TypeOK
<1>2. CASE Start \/ Stop \/ HookStep \/ LoopStep \/ ServingEnds
  <2>1. cuts' = cuts
    BY <1>2 DEF Start, Stop, HookStep, BeginStep, EndStep, Exit, LoopStep, Fetch, AddRecord,
       AddRecordRefused, DeadLetter, DeadLetterRefused, CommitMessages, ReaderRefuses, EndLoop,
       ServingEnds, besideLoop, countVars
  <2> QED  BY <2>1 DEF Typed, TypeOK
<1>3. ASSUME NEW j \in Jobs, JobBegins(j) \/ JobStep(j) PROVE cuts' = cuts
  BY <1>3, JobWork
<1>4. ASSUME NEW q \in Requests, RequestArrives(q) \/ RequestStep(q) PROVE cuts' = cuts
  BY <1>4 DEF RequestStep, RequestArrives, RequestBegins, RequestRefused, RequestEnds,
     besideRequest, countVars
<1>5. CASE UNCHANGED vars
  BY <1>5 DEF vars, countVars, Typed, TypeOK
<1>6. cuts \in Nat
  BY DEF Typed, TypeOK
<1> QED  BY <1>1, <1>2, <1>3, <1>4, <1>5, <1>6 DEF Next

(* What touches neither the rows nor the jobs. *)
LEMMA RowsRest ==
  ASSUME Typed, [Next]_vars, ~Exit, ~Kill, ~\E j \in Jobs : JobBegins(j) \/ JobStep(j)
  PROVE  /\ UNCHANGED <<job, pending, sent>>
         /\ Start \/ (cancelled => cancelled')
<1>1. CASE \/ Start \/ Stop \/ BeginStep \/ EndStep \/ StepTimesOut \/ ServerStopsHard
           \/ ServingEnds \/ ServerCrashes \/ UNCHANGED vars
  <2>1. UNCHANGED <<job, pending, sent>>
    BY <1>1 DEF Start, Stop, BeginStep, EndStep, StepTimesOut, ServerStopsHard, ServingEnds,
       ServerCrashes, vars, workVars
  <2>2. Start \/ (cancelled => cancelled')
    BY <1>1 DEF Stop, BeginStep, EndStep, StepTimesOut, ServerStopsHard, ServingEnds,
       ServerCrashes, vars
  <2> QED  BY <2>1, <2>2
<1>2. CASE LoopStep \/ KafkaFails
  BY <1>2 DEF LoopStep, Fetch, AddRecord, AddRecordRefused, DeadLetter, DeadLetterRefused,
     CommitMessages, ReaderRefuses, KafkaFails, EndLoop, besideLoop, workVars
<1>3. ASSUME NEW q \in Requests, RequestArrives(q) \/ RequestStep(q)
      PROVE  UNCHANGED <<job, pending, sent, cancelled>>
  BY <1>3 DEF RequestStep, RequestArrives, RequestBegins, RequestRefused, RequestEnds,
     besideRequest
<1> QED  BY <1>1, <1>2, <1>3 DEF Next, HookStep, Failure

(* Without a cut, who is late was late before. *)
LEMMA LateStays ==
  ASSUME Typed, Ordered, Working, Graceful, [Next]_vars, cuts' = cuts, Late'
  PROVE  Late
<1>1. CASE Exit \/ Kill
  BY <1>1 DEF Exit, Kill, Vanish, Late, JobsDone, NoJob
<1>2. ASSUME NEW j \in Jobs, JobBegins(j) \/ JobStep(j) PROVE Late
  <2>1. UNCHANGED <<service, cancelled, script, closed>>
    BY <1>2, JobWork
  <2>2. TooLate
    BY <2>1 DEF Late, TooLate, JobCancelled, Finished
  <2>3. ~JobBegins(j)
    BY <2>2 DEF JobBegins, TooLate, Finished
  <2>4. job[j].pc # "idle"
    BY <1>2, <2>3 DEF JobStep, JobFetches, JobRefused, JobSends, JobSendFails, JobMarks, JobRollsBack
  <2> QED  BY <2>2, <2>4 DEF Late, JobsDone
<1>3. CASE ~Exit /\ ~Kill /\ ~\E j \in Jobs : JobBegins(j) \/ JobStep(j)
  <2>1. job' = job
    BY <1>3, RowsRest
  <2>2. ~JobsDone
    BY <2>1 DEF Late, JobsDone
  <2> QED  BY <2>2, NoSuddenEnd DEF Late
<1> QED  BY <1>1, <1>2, <1>3

LEMMA CopiesStep == Typed /\ Ordered /\ Working /\ Graceful /\ Copies /\ [Next]_vars => Copies'
<1> SUFFICES ASSUME Typed, Ordered, Working, Graceful, Copies, [Next]_vars PROVE Copies'
  OBVIOUS
<1>0. cuts \in Nat /\ (cuts' = cuts \/ cuts' = cuts + 1)
  BY CutsGrow
<1>1. CASE Exit \/ Kill
  <2> SUFFICES ASSUME NEW r \in Rows PROVE CopyOK(r)'
    BY DEF Copies
  <2>1. sent[r] \in Nat /\ sent'[r] = sent[r]
    BY <1>1 DEF Exit, Kill, Vanish, Typed, TypeOK
  <2>2. JobsDone'
    BY <1>1 DEF Exit, Kill, Vanish, JobsDone, NoJob
  <2>3. CopyOK(r)
    BY DEF Copies
  <2>4. CASE Kill
    <3>1. cuts' = cuts + 1
      BY <2>4 DEF Kill, Cut
    <3> QED  BY <1>0, <2>1, <2>2, <2>3, <3>1 DEF CopyOK, Late
  <2>5. CASE Exit
    <3>1. cuts' = cuts /\ pending' = pending /\ phase = "stopping" /\ script = << >>
      BY <2>5 DEF Exit, Vanish
    <3>2. Finished("jobs")
      BY <3>1 DEF Ordered, Comes, Finished
    <3>3. CASE JobsDone
      <4>1. Loose(r)' => Loose(r)
        BY <3>1, <3>3 DEF Loose, Holds, JobsDone
      <4> QED  BY <1>0, <2>1, <2>2, <2>3, <3>1, <4>1 DEF CopyOK, Late
    <3>4. CASE ~JobsDone
      <4>1. Late
        BY <3>2, <3>4 DEF Late, TooLate
      <4> QED  BY <1>0, <2>1, <2>2, <2>3, <3>1, <4>1 DEF CopyOK, Late
    <3> QED  BY <3>3, <3>4
  <2> QED  BY <1>1, <2>4, <2>5
<1>2. CASE \E j \in Jobs : JobBegins(j) \/ JobStep(j)
  BY <1>2, JobCopies
<1>3. CASE ~Exit /\ ~Kill /\ ~\E j \in Jobs : JobBegins(j) \/ JobStep(j)
  <2>1. /\ UNCHANGED <<job, pending, sent>>
        /\ Start \/ (cancelled => cancelled')
    BY <1>3, RowsRest
  <2>2. Start => JobsDone
    BY DEF Start, Working
  <2>3. service' = service
    BY HookMoves
  <2>4. JobsDone \/ (JobCancelled => JobCancelled')
    BY <2>1, <2>2, <2>3 DEF JobCancelled
  <2>5. cuts' = cuts /\ TooLate' => TooLate \/ JobsDone
    BY NoSuddenEnd
  <2> QED  BY <1>0, <2>1, <2>4, <2>5, CopiesRest
<1> QED  BY <1>1, <1>2, <1>3

LEMMA GracefulStep == Typed /\ Ordered /\ Working /\ Graceful /\ [Next]_vars => Graceful'
<1> SUFFICES ASSUME Typed, Ordered, Working, Graceful, [Next]_vars PROVE Graceful'
  OBVIOUS
<1>0. cuts \in Nat /\ (cuts' = cuts \/ cuts' = cuts + 1) /\ service' = service
  BY CutsGrow, HookMoves
<1>1. CASE cuts' = cuts + 1
  BY <1>0, <1>1 DEF Graceful
<1>2. CASE cuts' = cuts
  <2>1. Late' => cuts' > 0
    BY <1>2, LateStays DEF Graceful
  <2>2. service' = "scrapper" /\ cancelled' /\ cuts' = 0 => "cancel" \in closed'
    <3> SUFFICES ASSUME service = "scrapper", cancelled', cuts' = 0, cuts = 0
                 PROVE  "cancel" \in closed'
      BY <1>0, <1>2
    <3>1. cancelled => "cancel" \in closed
      BY DEF Graceful
    <3>2. CASE Start \/ BeginStep
      BY <3>1, <3>2 DEF Start, BeginStep
    <3>3. CASE \/ Stop \/ EndStep \/ StepTimesOut \/ ServerStopsHard \/ Exit \/ Kill
               \/ ServingEnds \/ UNCHANGED vars
      BY <3>1, <3>3 DEF Stop, EndStep, StepTimesOut, ServerStopsHard, Exit, Kill, Vanish,
         ServingEnds, vars, hookVars
    <3>4. CASE ServerCrashes
      BY <1>0, <1>2, <3>4 DEF ServerCrashes, Cut
    <3>5. CASE LoopStep \/ KafkaFails
      <4>1. loop # "ended"
        BY <3>5 DEF LoopStep, Fetch, AddRecord, AddRecordRefused, DeadLetter, DeadLetterRefused,
           CommitMessages, ReaderRefuses, KafkaFails
      <4> QED  BY <4>1 DEF Working
    <3>6. ASSUME NEW j \in Jobs, JobBegins(j) \/ JobStep(j) PROVE "cancel" \in closed'
      BY <3>1, <3>6, JobWork
    <3>7. ASSUME NEW q \in Requests, RequestArrives(q) \/ RequestStep(q)
          PROVE  "cancel" \in closed'
      BY <3>1, <3>7 DEF RequestStep, RequestArrives, RequestBegins, RequestRefused, RequestEnds,
         besideRequest, hookVars
    <3> QED  BY <3>2, <3>3, <3>4, <3>5, <3>6, <3>7 DEF Next, HookStep, Failure
  <2>3. cuts' = 0 /\ Finished("server")' => RequestsDone'
    <3> SUFFICES ASSUME cuts' = 0, cuts = 0, Finished("server")' PROVE RequestsDone'
      BY <1>2
    <3>1. Finished("server") => RequestsDone
      BY DEF Graceful
    <3>2. CASE Start \/ Stop
      BY <3>2 DEF Start, Stop, Finished, Ordered
    <3>3. CASE BeginStep
      <4>1. /\ script # << >> /\ script' = script /\ closed' = closed \cup {script[1]}
            /\ Len(script) \in Nat /\ 1 \in 1 .. Len(script) /\ request' = request
        BY <3>3 DEF BeginStep, workVars, Typed, TypeOK
      <4>2. Finished("server")
        BY <4>1 DEF Finished
      <4> QED  BY <3>1, <4>1, <4>2 DEF RequestsDone
    <3>4. CASE EndStep
      <4>1. /\ script \in Seq(Steps) /\ script # << >> /\ script' = Tail(script)
            /\ closed' = closed /\ request' = request /\ StepIsDone(Head(script))
        BY <3>4 DEF EndStep, workVars, Typed, TypeOK
      <4>2. /\ Head(script) = script[1]
            /\ Len(script) \in Nat /\ 1 \in 1 .. Len(script)
            /\ Len(script') = Len(script) - 1
            /\ \A i \in 1 .. Len(script') : script'[i] = script[i + 1]
        BY <4>1, Rest
      <4>3. CASE script[1] = "server"
        BY <4>1, <4>2, <4>3 DEF StepIsDone, RequestsDone
      <4>4. CASE script[1] # "server"
        <5>1. ASSUME NEW i \in 1 .. Len(script), script[i] = "server"
              PROVE  \E k \in 1 .. Len(script') : script'[k] = "server"
          <6>1. i - 1 \in 1 .. Len(script') /\ (i - 1) + 1 = i
            BY <4>2, <4>4, <5>1
          <6>2. script'[i - 1] = script[(i - 1) + 1]
            BY <4>2, <6>1
          <6> QED  BY <5>1, <6>1, <6>2
        <5>2. Finished("server")
          BY <4>1, <5>1 DEF Finished
        <5> QED  BY <3>1, <4>1, <5>2 DEF RequestsDone
      <4> QED  BY <4>3, <4>4
    <3>5. CASE Exit \/ Kill
      BY <3>5 DEF Exit, Kill, Vanish, RequestsDone
    <3>6. CASE StepTimesOut \/ ServerStopsHard \/ ServerCrashes
      BY <1>0, <1>2, <3>6 DEF StepTimesOut, ServerStopsHard, ServerCrashes, Cut
    <3>7. CASE UNCHANGED <<script, closed, request>>
      BY <3>1, <3>7 DEF Finished, RequestsDone
    <3>8. CASE LoopStep \/ KafkaFails \/ ServingEnds \/ UNCHANGED vars
      <4>1. UNCHANGED <<hookVars, workVars>>
        BY <3>8 DEF LoopStep, Fetch, AddRecord, AddRecordRefused, DeadLetter, DeadLetterRefused,
           CommitMessages, ReaderRefuses, KafkaFails, EndLoop, besideLoop, ServingEnds, vars
      <4> QED  BY <3>7, <4>1 DEF hookVars, workVars
    <3>9. ASSUME NEW j \in Jobs, JobBegins(j) \/ JobStep(j) PROVE RequestsDone'
      BY <3>7, <3>9, JobWork
    <3>10. ASSUME NEW q \in Requests, RequestArrives(q) \/ RequestStep(q) PROVE RequestsDone'
      <4>1. UNCHANGED <<script, closed>>
        BY <3>10 DEF RequestStep, RequestArrives, RequestBegins, RequestRefused, RequestEnds,
           besideRequest, hookVars
      <4>2. Finished("server")
        BY <4>1 DEF Finished
      <4>3. request[q] = "idle" /\ ~RequestArrives(q)
        BY <3>1, <4>2 DEF RequestsDone, Finished, RequestArrives
      <4> QED
        BY <3>10, <4>3 DEF RequestStep, RequestBegins, RequestRefused, RequestEnds
    <3> QED  BY <3>2, <3>3, <3>4, <3>5, <3>6, <3>8, <3>9, <3>10 DEF Next, HookStep, LoopStep, Failure
  <2>4. spoiled' # {} => cuts' > 0
    <3> SUFFICES ASSUME cuts = 0 PROVE spoiled' = {}
      BY <1>0, <1>2
    <3>1. spoiled = {} /\ ~Late /\ (Finished("server") => RequestsDone)
      BY DEF Graceful
    <3>2. "pool" \in closed \/ JobCancelled => JobsDone
      BY <3>1, ClosedIsLate DEF Late, TooLate
    <3>3. "pool" \in closed => RequestsDone
      <4>1. service # "scrapper" => RequestsDone
        BY DEF Working
      <4> QED  BY <3>1, <4>1, ClosedIsLate
    <3>4. CASE Exit
      <4>1. /\ phase = "stopping" /\ script = << >>
            /\ spoiled' = spoiled \cup {j \in Jobs : job[j].pc # "idle"}
                            \cup {q \in Requests : request[q] # "idle"}
        BY <3>4 DEF Exit, Vanish
      <4>2. JobsDone
        BY <3>1, <4>1 DEF Ordered, Comes, Finished, Late, TooLate
      <4>3. RequestsDone
        <5>1. CASE service = "scrapper"
          BY <3>1, <4>1, <5>1 DEF Ordered, Comes, Finished
        <5>2. CASE service # "scrapper"
          BY <5>2 DEF Working
        <5> QED  BY <5>1, <5>2
      <4> QED  BY <3>1, <4>1, <4>2, <4>3 DEF JobsDone, RequestsDone
    <3>5. CASE StepTimesOut \/ ServerStopsHard \/ ServerCrashes \/ Kill
      BY <1>0, <1>2, <3>5 DEF StepTimesOut, ServerStopsHard, ServerCrashes, Kill, Cut
    <3>6. CASE \/ Start \/ Stop \/ BeginStep \/ EndStep \/ LoopStep \/ KafkaFails \/ ServingEnds
               \/ UNCHANGED vars
      <4>1. spoiled' = spoiled
        BY <3>6 DEF Start, Stop, BeginStep, EndStep, LoopStep, Fetch, AddRecord, AddRecordRefused,
           DeadLetter, DeadLetterRefused, CommitMessages, ReaderRefuses, KafkaFails, EndLoop,
           besideLoop, ServingEnds, vars, workVars
      <4> QED  BY <3>1, <4>1
    <3>7. ASSUME NEW j \in Jobs, JobBegins(j) \/ JobStep(j) PROVE spoiled' = {}
      <4>1. CASE JobBegins(j) \/ JobFetches(j) \/ JobSends(j) \/ JobMarks(j)
        BY <3>1, <4>1 DEF JobBegins, JobFetches, JobSends, JobMarks
      <4>2. CASE JobRefused(j) \/ JobSendFails(j) \/ JobRollsBack(j)
        <5>1. job[j].pc # "idle" /\ TooLate
          BY <4>2, ClosedIsLate DEF JobRefused, JobSendFails, JobRollsBack, TooLate
        <5> QED  BY <3>1, <5>1 DEF Late, JobsDone
      <4> QED  BY <3>7, <4>1, <4>2 DEF JobStep
    <3>8. ASSUME NEW q \in Requests, RequestArrives(q) \/ RequestStep(q) PROVE spoiled' = {}
      <4>1. ~RequestRefused(q)
        BY <3>3 DEF RequestRefused, RequestsDone
      <4> QED
        BY <3>1, <3>8, <4>1 DEF RequestStep, RequestArrives, RequestBegins, RequestEnds
    <3> QED  BY <3>4, <3>5, <3>6, <3>7, <3>8 DEF Next, HookStep, Failure
  <2> QED  BY <2>1, <2>2, <2>3, <2>4 DEF Graceful
<1> QED  BY <1>0, <1>1, <1>2

(* What a process had begun before a stop that keeps its time is finished, *)
(* whatever the numbers of jobs, requests, rows, connections and stops: a  *)
(* job or a request that was refused or cut off, and each copy of a row    *)
(* beyond the first, is paid for by a kill, a timeout or a crash.          *)
THEOREM StopsFinishWhatWasBegun == Spec => []GraceIsKept
<1>1. Graceful /\ Copies => GraceIsKept
  BY DEF Graceful, Copies, CopyOK, GraceIsKept
<1>2. Init => Typed /\ Ordered /\ Working /\ Graceful /\ Copies
  BY InitTyped, InitOrdered, InitWorking, InitGrace
<1>3. Typed /\ Ordered /\ Working /\ Graceful /\ Copies /\ [Next]_vars
        => (Typed /\ Ordered /\ Working /\ Graceful /\ Copies)'
  BY TypedStep, OrderedStep, WorkingStep, GracefulStep, CopiesStep
<1> QED  BY <1>1, <1>2, <1>3, PTL DEF Spec
=============================================================================
