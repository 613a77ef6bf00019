---------------------------- MODULE AgentOutbox ----------------------------
(***************************************************************************)
(* The agent's second half: the outbox relay sends the rows of             *)
(* agent_outbox to link-processed-updates and marks them                   *)
(* (internal/agent/infrastructure/scheduler/jobs.go, relayOutboxTx).       *)
(*                                                                         *)
(* A row has no key of its own in the queries: UpdateStatus says           *)
(* WHERE update_id = ..., and update_id is not unique here, for a window   *)
(* makes one row for the chats with a single update and one group row per  *)
(* chat with several, under the id of one of the group's updates.          *)
(*                                                                         *)
(* The job is not a singleton.  The rows a run fetches are locked, so that *)
(* other runs skip them; but the UPDATE locks every row with the id, waits *)
(* for those that other runs hold, and may end as the victim of a deadlock.*)
(***************************************************************************)
EXTENDS Integers, FiniteSets

CONSTANTS
  Ids,          \* update ids
  Chats,        \* telegram chats
  Jobs,         \* overlapping runs of the outbox relay
  BatchSize,    \* rows one run fetches
  MaxTxs,       \* bound: windows that were processed
  MaxDeadlocks, \* bound: transactions ended by the deadlock detector
  MaxFailures   \* bound: failures, of all kinds

ASSUME AgentOutboxAssumption ==
  /\ IsFiniteSet(Jobs)
  /\ BatchSize \in Nat \ {0}
  /\ MaxTxs \in Nat
  /\ MaxDeadlocks \in Nat
  /\ MaxFailures \in Nat

VARIABLES
  txs,          \* windows committed so far (created_at order)
  rows,         \* history: every row ever inserted
  pending,      \* rows with processed_at IS NULL
  processed,    \* rows with processed_at set, not yet deleted
  sends,        \* how many copies of each row are in link-processed-updates
  run,          \* state of each relay run
  deadlocks,    \* transactions ended by the deadlock detector so far
  failures      \* failures so far

tableVars == <<txs, rows, pending, processed>>
vars == <<tableVars, sends, run, deadlocks, failures>>

Row == [tx: Nat, id: Ids, chats: SUBSET Chats]

(* pc: between jobs, sending the next row of batch, or waiting for the     *)
(* UPDATE after a send that succeeded ("mark") or did not ("error");       *)
(* targets: the rows that UPDATE saw when it started;                      *)
(* doomed: the transaction is aborted, and the loop goes on nevertheless.  *)
Run == [pc: {"idle", "send", "mark", "error"}, batch: SUBSET Row,
        targets: SUBSET Row, locked: SUBSET Row, marked: SUBSET Row,
        doomed: BOOLEAN]

Idle == [pc |-> "idle", batch |-> {}, targets |-> {}, locked |-> {},
         marked |-> {}, doomed |-> FALSE]

TypeOK ==
  /\ txs \in 0 .. MaxTxs
  /\ rows \subseteq Row
  /\ pending \subseteq rows
  /\ processed \subseteq rows \ pending
  /\ sends \in [rows -> Nat]
  /\ run \in [Jobs -> Run]
  /\ deadlocks \in 0 .. MaxDeadlocks
  /\ failures \in 0 .. MaxFailures

Init ==
  /\ txs = 0
  /\ rows = {}
  /\ pending = {}
  /\ processed = {}
  /\ sends = [r \in {} |-> 0]
  /\ run = [j \in Jobs |-> Idle]
  /\ deadlocks = 0
  /\ failures = 0

Fail == failures < MaxFailures /\ failures' = failures + 1

----------------------------------------------------------------------------
(* AddBatch of a window: of the chats in some set, each has one update or  *)
(* a group ending with some update; chats with one update share a row.     *)
WindowRows(idOf, grouped) ==
  LET D == DOMAIN idOf
  IN  {[tx |-> txs + 1, id |-> idOf[c],
        chats |-> IF c \in grouped THEN {c}
                  ELSE {d \in D \ grouped : idOf[d] = idOf[c]}] : c \in D}

AddBatch ==
  /\ txs < MaxTxs
  /\ \E D \in (SUBSET Chats) \ {{}} :
       \E idOf \in [D -> Ids], grouped \in SUBSET D :
         LET new == WindowRows(idOf, grouped)
         IN  /\ rows' = rows \cup new
             /\ pending' = pending \cup new
             /\ sends' = [r \in rows \cup new |-> IF r \in rows THEN sends[r] ELSE 0]
  /\ txs' = txs + 1
  /\ UNCHANGED <<processed, run, deadlocks, failures>>

----------------------------------------------------------------------------
(* One run of relayOutboxTx. *)

(* Fault: a plain SELECT, without FOR UPDATE SKIP LOCKED. *)
FaultNoLocks(j) == {}

LockedByOthers(j) == UNION {run[k].locked : k \in Jobs \ {j}}

Oldest(S, from) ==
  /\ S \subseteq from
  /\ \A r \in S, q \in from \ S : r.tx <= q.tx
  /\ \/ Cardinality(S) = BatchSize
     \/ S = from /\ Cardinality(S) < BatchSize

FetchPending(j) ==
  LET free == pending \ LockedByOthers(j)
  IN  /\ run[j].pc = "idle"
      /\ free # {}
      /\ \E S \in SUBSET free :
           /\ Oldest(S, free)
           /\ run' = [run EXCEPT ![j] =
                [Idle EXCEPT !.pc = "send", !.batch = S, !.locked = S]]
      /\ UNCHANGED <<tableVars, sends, deadlocks, failures>>

IsNext(r, S) == r \in S /\ \A q \in S : r.tx <= q.tx

(* WHERE update_id = $1: every row of the table with the id of the row     *)
(* that was sent.                                                          *)
SameId(r) == {q \in pending \cup processed : q.id = r.id}

(* Publish succeeds, and the UPDATE starts. *)
Publish(j, r) ==
  /\ run[j].pc = "send"
  /\ IsNext(r, run[j].batch)
  /\ sends' = [sends EXCEPT ![r] = @ + 1]
  /\ run' = [run EXCEPT ![j].pc = "mark", ![j].batch = @ \ {r},
                        ![j].targets = SameId(r)]
  /\ UNCHANGED <<tableVars, deadlocks, failures>>

(* Publish answers with an error; after a timeout the message may be in    *)
(* the topic nevertheless.                                                 *)
PublishFails(j, r) ==
  /\ run[j].pc = "send"
  /\ IsNext(r, run[j].batch)
  /\ Fail
  /\ \E n \in {0, 1} : sends' = [sends EXCEPT ![r] = @ + n]
  /\ run' = [run EXCEPT ![j].pc = "error", ![j].batch = @ \ {r},
                        ![j].targets = SameId(r)]
  /\ UNCHANGED <<tableVars, deadlocks>>

(* The rows the UPDATE is about, those not deleted since. *)
Targets(j) == run[j].targets \cap (pending \cup processed)

Updating(j) == run[j].pc \in {"mark", "error"} /\ ~run[j].doomed

(* Fault: a failed row is marked like a sent one. *)
FaultAlwaysMark(j) == Targets(j)

(* What the UPDATE sets processed_at of: nothing for a failed row. *)
MarkedBy(j) == IF run[j].pc = "mark" THEN Targets(j) ELSE {}

(* UpdateStatus goes through when nobody else holds one of the rows. *)
UpdateStatus(j) ==
  /\ Updating(j)
  /\ Targets(j) \cap LockedByOthers(j) = {}
  /\ run' = [run EXCEPT ![j].pc = "send", ![j].targets = {},
       ![j].locked = @ \cup Targets(j), ![j].marked = @ \cup MarkedBy(j)]
  /\ UNCHANGED <<tableVars, sends, deadlocks, failures>>

(* It locks the free rows one by one while it waits for the others. *)
UpdateWaits(j) ==
  /\ Updating(j)
  /\ \E r \in Targets(j) \ (run[j].locked \cup LockedByOthers(j)) :
       run' = [run EXCEPT ![j].locked = @ \cup {r}]
  /\ UNCHANGED <<tableVars, sends, deadlocks, failures>>

WaitsFor(j, k) == Updating(j) /\ Targets(j) \cap run[k].locked # {}

(* Runs wait for each other: PostgreSQL aborts one of them.  The error is  *)
(* logged, and the loop goes on sending in the aborted transaction, whose  *)
(* locks are gone.                                                         *)
Deadlock(j) ==
  /\ deadlocks < MaxDeadlocks
  /\ \E S \in SUBSET Jobs :
       j \in S /\ \A x \in S : \E y \in S \ {x} : WaitsFor(x, y)
  /\ run' = [run EXCEPT ![j].doomed = TRUE, ![j].pc = "send",
       ![j].targets = {}, ![j].locked = {}]
  /\ deadlocks' = deadlocks + 1
  /\ UNCHANGED <<tableVars, sends, failures>>

(* UpdateStatus in an aborted transaction only answers with an error. *)
UpdateRefused(j) ==
  /\ run[j].pc \in {"mark", "error"}
  /\ run[j].doomed
  /\ run' = [run EXCEPT ![j].pc = "send", ![j].targets = {}]
  /\ UNCHANGED <<tableVars, sends, deadlocks, failures>>

(* Fault: the commit does not clear the column the fetch looks at. *)
FaultStaysPending(j) ==
  /\ run[j].pc = "send"
  /\ run[j].batch = {}
  /\ ~run[j].doomed
  /\ processed' = processed \cup run[j].marked
  /\ run' = [run EXCEPT ![j] = Idle]
  /\ UNCHANGED <<txs, rows, pending, sends, deadlocks, failures>>

Commit(j) ==
  /\ run[j].pc = "send"
  /\ run[j].batch = {}
  /\ ~run[j].doomed
  /\ pending' = pending \ run[j].marked
  /\ processed' = processed \cup (run[j].marked \cap pending)
  /\ run' = [run EXCEPT ![j] = Idle]
  /\ UNCHANGED <<txs, rows, sends, deadlocks, failures>>

(* Fault: the aborted transaction is kept, and the run never ends. *)
FaultRunStuck(j) ==
  /\ run[j].pc = "send"
  /\ run[j].batch = {}
  /\ run[j].doomed
  /\ UNCHANGED vars

Rollback(j) ==
  /\ run[j].pc = "send"
  /\ run[j].batch = {}
  /\ run[j].doomed
  /\ run' = [run EXCEPT ![j] = Idle]
  /\ UNCHANGED <<tableVars, sends, deadlocks, failures>>

(* The connection is lost: the transaction is gone, the rest of the batch  *)
(* is sent nevertheless (statements fail, errors are logged).              *)
TxFails(j) ==
  /\ run[j].pc # "idle"
  /\ ~run[j].doomed
  /\ Fail
  /\ run' = [run EXCEPT ![j].doomed = TRUE, ![j].locked = {}]
  /\ UNCHANGED <<tableVars, sends, deadlocks>>

(* cleanOutbox deletes old processed rows. *)
CleanOutbox ==
  /\ \E S \in SUBSET (processed \ UNION {run[j].locked : j \in Jobs}) :
       S # {} /\ processed' = processed \ S
  /\ UNCHANGED <<txs, rows, pending, sends, run, deadlocks, failures>>

Crash ==
  /\ \E j \in Jobs : run[j].pc # "idle"
  /\ Fail
  /\ run' = [j \in Jobs |-> Idle]
  /\ UNCHANGED <<tableVars, sends, deadlocks>>

----------------------------------------------------------------------------
RelayStep(j) ==
  \/ FetchPending(j)
  \/ \E r \in run[j].batch : Publish(j, r)
  \/ UpdateStatus(j)
  \/ UpdateWaits(j)
  \/ Deadlock(j)
  \/ UpdateRefused(j)
  \/ Commit(j)
  \/ Rollback(j)

Failure ==
  \/ \E j \in Jobs : TxFails(j) \/ \E r \in run[j].batch : PublishFails(j, r)
  \/ Crash

Next ==
  \/ AddBatch
  \/ \E j \in Jobs : RelayStep(j)
  \/ CleanOutbox
  \/ Failure

Spec == Init /\ [][Next]_vars

(* The job runs again and again, and a run that started goes on. *)
Fairness == \A j \in Jobs : WF_vars(RelayStep(j))

FairSpec == Spec /\ Fairness

----------------------------------------------------------------------------
(* Correctness. *)

(* A row that is no longer pending was sent, or a row with its update_id   *)
(* was: what the queries, which know rows by update_id only, can promise.  *)
SettledSharesId ==
  \A r \in rows \ pending : \E q \in rows : q.id = r.id /\ sends[q] > 0

(* Overlapping runs do not send a row twice: every further copy is paid    *)
(* for by a failure or a deadlock.                                         *)
ResendOnlyAfterFailure ==
  \A r \in rows : sends[r] <= 1 + failures + deadlocks

(* The relay empties the table, although its runs wait for each other,     *)
(* unless they deadlock again and again.                                   *)
OutboxDrains == []<>(pending = {} \/ deadlocks = MaxDeadlocks)
============================================================================
