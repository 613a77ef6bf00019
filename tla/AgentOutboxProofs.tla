-------------------------- MODULE AgentOutboxProofs -------------------------
(***************************************************************************)
(* For every number of ids, chats, relay runs, windows and failures: a row *)
(* is settled only when one with its update_id was sent, and sent again    *)
(* only for a failure or a deadlock.                                       *)
(***************************************************************************)
EXTENDS AgentOutbox, FiniteSetTheorems, TLAPS

(* TypeOK without the bounds, and the age of the rows. *)
Typed ==
  /\ txs \in Nat
  /\ rows \subseteq Row
  /\ pending \subseteq rows
  /\ processed \subseteq rows
  /\ sends \in [rows -> Nat]
  /\ run \in [Jobs -> Run]
  /\ deadlocks \in Nat
  /\ failures \in Nat
  /\ \A r \in rows : r.tx <= txs

----------------------------------------------------------------------------
(* The steps of a relay run: what each makes of the run's state. *)

(* Run j is replaced by t; the other runs go on. *)
Becomes(j, t) == /\ run' \in [Jobs -> Run]
                 /\ run'[j] = t
                 /\ \A k \in Jobs \ {j} : run'[k] = run[k]

LEMMA SetRun ==
  ASSUME Typed, NEW j \in Jobs, NEW t \in Run, run' = [run EXCEPT ![j] = t]
  PROVE  Becomes(j, t)
  BY DEF Typed, Becomes

LEMMA IdleTyped ==
  /\ Idle \in Run /\ Idle.pc = "idle" /\ Idle.batch = {} /\ Idle.marked = {}
  /\ Idle.locked = {} /\ ~Idle.doomed
  BY DEF Idle, Run

LEMMA FetchRun ==
  ASSUME Typed, NEW j \in Jobs, FetchPending(j)
  PROVE  \E S \in SUBSET (pending \ LockedByOthers(j)), t \in Run :
           /\ Becomes(j, t)
           /\ t.pc = "send" /\ t.batch = S /\ t.locked = S
           /\ t.marked = {} /\ t.targets = {} /\ ~t.doomed
<1>1. PICK S \in SUBSET (pending \ LockedByOthers(j)) :
        run' = [run EXCEPT ![j] = [Idle EXCEPT !.pc = "send", !.batch = S, !.locked = S]]
  BY DEF FetchPending
<1>2. PICK t : t = [Idle EXCEPT !.pc = "send", !.batch = S, !.locked = S]
  OBVIOUS
<1>3. t = [pc |-> "send", batch |-> S, targets |-> {}, locked |-> S,
           marked |-> {}, doomed |-> FALSE]
  BY <1>2 DEF Idle
<1>4. S \subseteq Row
  BY DEF Typed
<1>5. t \in Run
  BY <1>3, <1>4 DEF Run
<1>6. Becomes(j, t)
  BY <1>1, <1>2, <1>5, SetRun
<1> QED  BY <1>3, <1>5, <1>6

LEMMA UpdateRun ==
  ASSUME Typed, NEW j \in Jobs, UpdateStatus(j)
  PROVE  /\ Updating(j) /\ Targets(j) \cap LockedByOthers(j) = {}
         /\ \E t \in Run :
              /\ Becomes(j, t)
              /\ t.pc = "send" /\ t.batch = run[j].batch /\ t.targets = {}
              /\ t.locked = run[j].locked \cup Targets(j)
              /\ t.marked = run[j].marked \cup MarkedBy(j)
              /\ ~t.doomed
<1> DEFINE locked == run[j].locked \cup Targets(j)
           marked == run[j].marked \cup MarkedBy(j)
           f == [run EXCEPT ![j].pc = "send"]
           g == [f EXCEPT ![j].targets = {}]
           h == [g EXCEPT ![j].locked = locked]
           u == [run[j] EXCEPT !.pc = "send"]
           v == [u EXCEPT !.targets = {}]
           w == [v EXCEPT !.locked = locked]
           t == [w EXCEPT !.marked = marked]
<1>1. run[j] \in Run /\ DOMAIN run = Jobs /\ ~run[j].doomed
      /\ Updating(j) /\ Targets(j) \cap LockedByOthers(j) = {}
  BY DEF Typed, UpdateStatus, Updating
<1>2. locked \subseteq Row /\ marked \subseteq Row
  BY <1>1 DEF Targets, MarkedBy, Typed, Run
<1>3. f[j] = u /\ DOMAIN f = Jobs /\ \A k \in Jobs \ {j} : f[k] = run[k]
  BY <1>1
<1>4. /\ u \in Run /\ u.pc = "send" /\ u.batch = run[j].batch /\ u.locked = run[j].locked
      /\ u.marked = run[j].marked /\ ~u.doomed
  BY <1>1 DEF Run
<1>5. g[j] = v /\ DOMAIN g = Jobs /\ \A k \in Jobs \ {j} : g[k] = run[k]
  BY <1>3
<1>6. /\ v \in Run /\ v.pc = "send" /\ v.batch = run[j].batch /\ v.locked = run[j].locked
      /\ v.marked = run[j].marked /\ ~v.doomed /\ v.targets = {}
  <2> HIDE DEF u
  <2> QED  BY <1>4 DEF Run
<1>7. run' = [h EXCEPT ![j].marked = marked]
  <2>1. h[j].marked = run[j].marked
    <3> HIDE DEF g, v, locked
    <3> QED  BY <1>5, <1>6 DEF Run
  <2>2. run' = [h EXCEPT ![j].marked = @ \cup MarkedBy(j)]
    <3>1. g[j].locked = run[j].locked
      BY <1>5, <1>6
    <3> QED  BY <3>1 DEF UpdateStatus
  <2> HIDE DEF h
  <2> QED  BY <2>1, <2>2
<1> HIDE DEF locked, marked, f, g, u, v
<1>8. h[j] = w /\ DOMAIN h = Jobs /\ \A k \in Jobs \ {j} : h[k] = run[k]
  BY <1>5
<1>9. /\ w \in Run /\ w.pc = "send" /\ w.batch = run[j].batch /\ w.locked = locked
      /\ w.marked = run[j].marked /\ ~w.doomed /\ w.targets = {}
  BY <1>2, <1>6 DEF Run
<1> HIDE DEF h, w
<1>10. run' = [run EXCEPT ![j] = t]
  BY <1>1, <1>7, <1>8
<1>11. /\ t \in Run /\ t.pc = "send" /\ t.batch = run[j].batch /\ t.locked = locked
       /\ t.marked = marked /\ ~t.doomed /\ t.targets = {}
  BY <1>2, <1>9 DEF Run
<1> HIDE DEF t
<1>12. Becomes(j, t)
  BY <1>10, <1>11, SetRun
<1> QED  BY <1>1, <1>11, <1>12 DEF locked, marked

LEMMA UpdateWaitsRun ==
  ASSUME Typed, NEW j \in Jobs, UpdateWaits(j)
  PROVE  \E r \in pending \cup processed, t \in Run :
           /\ r \notin LockedByOthers(j) /\ Updating(j)
           /\ Becomes(j, t)
           /\ t.pc = run[j].pc /\ t.batch = run[j].batch
           /\ t.targets = run[j].targets
           /\ t.locked = run[j].locked \cup {r}
           /\ t.marked = run[j].marked
           /\ ~t.doomed
<1>1. PICK r \in pending \cup processed : /\ r \notin LockedByOthers(j)
                                          /\ run' = [run EXCEPT ![j].locked = @ \cup {r}]
  BY DEF UpdateWaits, Targets
<1> DEFINE t == [run[j] EXCEPT !.locked = @ \cup {r}]
<1>2. run[j] \in Run /\ r \in Row /\ Updating(j) /\ ~run[j].doomed
  BY DEF Typed, UpdateWaits, Updating
<1>3. t \in Run
  BY <1>2 DEF Run
<1>4. run' = [run EXCEPT ![j] = t]
  BY <1>1, <1>2 DEF Typed, Run
<1>5. /\ t.pc = run[j].pc /\ t.batch = run[j].batch
      /\ t.targets = run[j].targets
      /\ t.locked = run[j].locked \cup {r}
      /\ t.marked = run[j].marked /\ ~t.doomed
  BY <1>2 DEF Run
<1> HIDE DEF t
<1> QED  BY <1>1, <1>2, <1>3, <1>4, <1>5, SetRun

(* A transaction is lost, and the run goes on. *)
Loses(j) == Deadlock(j) \/ TxFails(j)

LEMMA LosesRun ==
  ASSUME Typed, NEW j \in Jobs, Loses(j)
  PROVE  /\ ~run[j].doomed /\ run[j].pc # "idle"
         /\ \E t \in Run :
              /\ Becomes(j, t)
              /\ t.pc # "idle" /\ t.batch = run[j].batch
              /\ t.pc = "mark" => run[j].pc = "mark"
              /\ t.targets \in {{}, run[j].targets}
              /\ t.locked = {} /\ t.marked = run[j].marked
              /\ t.doomed
<1>1. run[j] \in Run /\ DOMAIN run = Jobs
  BY DEF Typed
<1>2. CASE TxFails(j)
  <2> DEFINE f == [run EXCEPT ![j].doomed = TRUE]
             u == [run[j] EXCEPT !.doomed = TRUE]
             t == [u EXCEPT !.locked = {}]
  <2>1. run' = [f EXCEPT ![j].locked = {}] /\ run[j].pc # "idle" /\ ~run[j].doomed
    BY <1>2 DEF TxFails
  <2>2. f[j] = u /\ DOMAIN f = Jobs /\ \A k \in Jobs \ {j} : f[k] = run[k]
    BY <1>1
  <2>3. /\ u \in Run /\ u.pc = run[j].pc /\ u.batch = run[j].batch
        /\ u.targets = run[j].targets /\ u.marked = run[j].marked /\ u.doomed
    BY <1>1 DEF Run
  <2> HIDE DEF f, u
  <2>4. run' = [run EXCEPT ![j] = t]
    BY <1>1, <2>1, <2>2
  <2>5. /\ t \in Run /\ t.pc = run[j].pc /\ t.batch = run[j].batch
        /\ t.targets = run[j].targets /\ t.marked = run[j].marked /\ t.doomed
        /\ t.locked = {}
    BY <2>3 DEF Run
  <2> HIDE DEF t
  <2>6. Becomes(j, t)
    BY <2>4, <2>5, SetRun
  <2> QED  BY <2>1, <2>5, <2>6
<1>3. CASE Deadlock(j)
  <2> DEFINE f == [run EXCEPT ![j].doomed = TRUE]
             g == [f EXCEPT ![j].pc = "send"]
             h == [g EXCEPT ![j].targets = {}]
             u == [run[j] EXCEPT !.doomed = TRUE]
             v == [u EXCEPT !.pc = "send"]
             w == [v EXCEPT !.targets = {}]
             t == [w EXCEPT !.locked = {}]
  <2>1. run' = [h EXCEPT ![j].locked = {}]
    BY <1>3 DEF Deadlock
  <2>2. ~run[j].doomed /\ run[j].pc # "idle"
    BY <1>3 DEF Deadlock, WaitsFor, Updating
  <2>3. f[j] = u /\ DOMAIN f = Jobs /\ \A k \in Jobs \ {j} : f[k] = run[k]
    BY <1>1
  <2>4. /\ u \in Run /\ u.batch = run[j].batch /\ u.marked = run[j].marked /\ u.doomed
    BY <1>1 DEF Run
  <2> HIDE DEF f, u
  <2>5. g[j] = v /\ DOMAIN g = Jobs /\ \A k \in Jobs \ {j} : g[k] = run[k]
    BY <2>3
  <2>6. /\ v \in Run /\ v.batch = run[j].batch /\ v.marked = run[j].marked /\ v.doomed
        /\ v.pc = "send"
    BY <2>4 DEF Run
  <2> HIDE DEF g, v
  <2>7. h[j] = w /\ DOMAIN h = Jobs /\ \A k \in Jobs \ {j} : h[k] = run[k]
    BY <2>5
  <2>8. /\ w \in Run /\ w.batch = run[j].batch /\ w.marked = run[j].marked /\ w.doomed
        /\ w.pc = "send" /\ w.targets = {}
    BY <2>6 DEF Run
  <2> HIDE DEF h, w
  <2>9. run' = [run EXCEPT ![j] = t]
    BY <1>1, <2>1, <2>7
  <2>10. /\ t \in Run /\ t.batch = run[j].batch /\ t.marked = run[j].marked /\ t.doomed
         /\ t.pc = "send" /\ t.targets = {} /\ t.locked = {}
    BY <2>8 DEF Run
  <2> HIDE DEF t
  <2>11. Becomes(j, t)
    BY <2>9, <2>10, SetRun
  <2> QED  BY <2>2, <2>10, <2>11
<1> QED  BY <1>2, <1>3 DEF Loses

LEMMA RefusedRun ==
  ASSUME Typed, NEW j \in Jobs, UpdateRefused(j)
  PROVE  /\ run[j].doomed
         /\ \E t \in Run :
              /\ Becomes(j, t)
              /\ t.pc = "send" /\ t.batch = run[j].batch /\ t.targets = {}
              /\ t.locked = run[j].locked /\ t.marked = run[j].marked
              /\ t.doomed
<1> DEFINE f == [run EXCEPT ![j].pc = "send"]
           u == [run[j] EXCEPT !.pc = "send"]
           t == [u EXCEPT !.targets = {}]
<1>1. run[j] \in Run /\ DOMAIN run = Jobs /\ run[j].doomed
  BY DEF Typed, UpdateRefused
<1>2. run' = [f EXCEPT ![j].targets = {}]
  BY DEF UpdateRefused
<1>3. f[j] = u /\ DOMAIN f = Jobs /\ \A k \in Jobs \ {j} : f[k] = run[k]
  BY <1>1
<1>4. /\ u \in Run /\ u.pc = "send" /\ u.batch = run[j].batch
      /\ u.locked = run[j].locked /\ u.marked = run[j].marked /\ u.doomed
  BY <1>1 DEF Run
<1> HIDE DEF f, u
<1>5. run' = [run EXCEPT ![j] = t]
  BY <1>1, <1>2, <1>3
<1>6. /\ t \in Run /\ t.pc = "send" /\ t.batch = run[j].batch /\ t.targets = {}
      /\ t.locked = run[j].locked /\ t.marked = run[j].marked /\ t.doomed
  BY <1>4 DEF Run
<1> HIDE DEF t
<1>7. Becomes(j, t)
  BY <1>5, <1>6, SetRun
<1> QED  BY <1>1, <1>6, <1>7

(* The run ends: its transaction commits, or is rolled back. *)
Ends(j) == Commit(j) \/ Rollback(j)

LEMMA EndsRun ==
  ASSUME Typed, NEW j \in Jobs, Ends(j)
  PROVE  Becomes(j, Idle)
  BY IdleTyped, SetRun DEF Ends, Commit, Rollback

----------------------------------------------------------------------------
(* The steps, as the invariants look at them. *)

(* One send, and how it went. *)
Sends(j, r) == Publish(j, r) \/ PublishFails(j, r)

LEMMA StepKinds ==
  ASSUME [Next]_vars
  PROVE  \/ AddBatch \/ CleanOutbox \/ Crash
         \/ \E j \in Jobs : FetchPending(j)
         \/ \E j \in Jobs : \E r : Sends(j, r)
         \/ \E j \in Jobs : UpdateStatus(j)
         \/ \E j \in Jobs : UpdateWaits(j)
         \/ \E j \in Jobs : Loses(j)
         \/ \E j \in Jobs : UpdateRefused(j)
         \/ \E j \in Jobs : Ends(j)
         \/ UNCHANGED vars
  BY DEF Next, RelayStep, Failure, Sends, Loses, Ends

LEMMA FailCounts ==
  ASSUME Typed, Fail
  PROVE  failures' = failures + 1 /\ failures' \in Nat
  BY DEF Typed, Fail

(* A window brings rows that were not there before. *)
LEMMA AddBatchAdds ==
  ASSUME Typed, AddBatch
  PROVE  /\ \E new \in SUBSET Row :
              /\ rows' = rows \cup new /\ pending' = pending \cup new
              /\ new \cap rows = {}
              /\ \A r \in new : r.tx = txs + 1 /\ sends'[r] = 0
         /\ sends' \in [rows' -> Nat]
         /\ \A r \in rows : sends'[r] = sends[r]
         /\ txs' = txs + 1
         /\ UNCHANGED <<processed, run, deadlocks, failures>>
<1>0. PICK D \in (SUBSET Chats) \ {{}} :
        \E idOf \in [D -> Ids], grouped \in SUBSET D :
          LET new == WindowRows(idOf, grouped)
          IN  /\ rows' = rows \cup new
              /\ pending' = pending \cup new
              /\ sends' = [r \in rows \cup new |-> IF r \in rows THEN sends[r] ELSE 0]
  BY DEF AddBatch
<1>1. PICK idOf \in [D -> Ids], grouped \in SUBSET D :
        /\ rows' = rows \cup WindowRows(idOf, grouped)
        /\ pending' = pending \cup WindowRows(idOf, grouped)
        /\ sends' = [r \in rows \cup WindowRows(idOf, grouped) |->
                       IF r \in rows THEN sends[r] ELSE 0]
  BY <1>0
<1> DEFINE new == WindowRows(idOf, grouped)
<1>2. ASSUME NEW r \in new PROVE r \in Row /\ r.tx = txs + 1
  <2>1. PICK c \in D :
          r = [tx |-> txs + 1, id |-> idOf[c],
               chats |-> IF c \in grouped THEN {c}
                         ELSE {d \in D \ grouped : idOf[d] = idOf[c]}]
    BY DEF WindowRows
  <2>2. idOf[c] \in Ids /\ txs + 1 \in Nat
    BY DEF Typed
  <2> QED  BY <2>1, <2>2 DEF Row
<1>3. txs' = txs + 1 /\ UNCHANGED <<processed, run, deadlocks, failures>>
  BY DEF AddBatch
<1> HIDE DEF new
<1>4. new \cap rows = {}
  BY <1>2 DEF Typed
<1>5. /\ rows' = rows \cup new /\ pending' = pending \cup new
      /\ sends' = [r \in rows \cup new |-> IF r \in rows THEN sends[r] ELSE 0]
  BY <1>1 DEF new
<1>6. sends' \in [rows' -> Nat] /\ \A r \in rows : sends'[r] = sends[r]
  BY <1>5 DEF Typed
<1>7. \A r \in new : sends'[r] = 0
  BY <1>4, <1>5
<1> QED  BY <1>2, <1>3, <1>4, <1>5, <1>6, <1>7

(* A send puts one copy into the topic, and one that fails may. *)
LEMMA SendCounts ==
  ASSUME Typed, NEW j \in Jobs, NEW r, Sends(j, r)
  PROVE  /\ run[j].pc = "send" /\ r \in run[j].batch
         /\ sends' \in [rows -> Nat]
         /\ \A q \in rows : q # r => sends'[q] = sends[q]
         /\ r \in rows => sends'[r] \in {sends[r], sends[r] + 1}
         /\ Publish(j, r) /\ r \in rows => sends'[r] = sends[r] + 1
         /\ UNCHANGED <<tableVars, deadlocks>>
         /\ Publish(j, r) => failures' = failures
         /\ PublishFails(j, r) => Fail
<1>1. sends \in [rows -> Nat]
  BY DEF Typed
<1>2. /\ run[j].pc = "send" /\ r \in run[j].batch
      /\ UNCHANGED <<tableVars, deadlocks>>
  BY DEF Sends, Publish, PublishFails, IsNext
<1>3. PICK n \in {0, 1} : /\ sends' = [sends EXCEPT ![r] = @ + n]
                          /\ Publish(j, r) => n = 1
  <2>1. CASE Publish(j, r)
    <3>1. sends' = [sends EXCEPT ![r] = @ + 1]
      BY <2>1 DEF Publish
    <3> QED  BY <3>1
  <2>2. CASE ~Publish(j, r)
    BY <2>2 DEF Sends, PublishFails
  <2> QED  BY <2>1, <2>2
<1>4. /\ sends' \in [rows -> Nat]
      /\ \A q \in rows : q # r => sends'[q] = sends[q]
      /\ r \in rows => sends'[r] = sends[r] + n
  <2>1. CASE r \in rows
    <3>1. sends[r] + n \in Nat
      BY <1>1, <2>1
    <3> QED  BY <1>1, <1>3, <2>1, <3>1
  <2>2. CASE r \notin rows
    BY <1>1, <1>3, <2>2
  <2> QED  BY <2>1, <2>2
<1>5. r \in rows => sends[r] \in Nat
  BY <1>1
<1> QED  BY <1>2, <1>3, <1>4, <1>5 DEF Publish, PublishFails

(* A row leaves the batch when it is sent, or was to be. *)
LEMMA SendRun ==
  ASSUME Typed, NEW j \in Jobs, NEW r, Sends(j, r)
  PROVE  \E t \in Run :
           /\ Becomes(j, t)
           /\ Publish(j, r) => t.pc = "mark"
           /\ ~Publish(j, r) => t.pc = "error"
           /\ t.pc \in {"mark", "error"}
           /\ t.batch = run[j].batch \ {r}
           /\ t.targets = SameId(r) /\ t.locked = run[j].locked
           /\ t.marked = run[j].marked /\ t.doomed = run[j].doomed
<1>0. PICK pc \in {"mark", "error"} :
        /\ run' = [run EXCEPT ![j].pc = pc, ![j].batch = @ \ {r},
                              ![j].targets = SameId(r)]
        /\ Publish(j, r) => pc = "mark"
        /\ ~Publish(j, r) => pc = "error"
  <2>1. CASE Publish(j, r)
    BY <2>1 DEF Publish
  <2>2. CASE ~Publish(j, r)
    BY <2>2 DEF Sends, PublishFails
  <2> QED  BY <2>1, <2>2
<1> DEFINE batch == run[j].batch \ {r}
           targets == SameId(r)
           f == [run EXCEPT ![j].pc = pc]
           g == [f EXCEPT ![j].batch = batch]
           u == [run[j] EXCEPT !.pc = pc]
           v == [u EXCEPT !.batch = batch]
           t == [v EXCEPT !.targets = targets]
<1>1. run[j] \in Run /\ DOMAIN run = Jobs
  BY DEF Typed
<1>2. targets \subseteq Row /\ batch \subseteq Row
  BY <1>1 DEF SameId, Typed, Run
<1>3. f[j] = u /\ DOMAIN f = Jobs /\ \A k \in Jobs \ {j} : f[k] = run[k]
  BY <1>1
<1>4. u \in Run /\ u.batch = run[j].batch
  BY <1>1 DEF Run
<1>5. run' = [g EXCEPT ![j].targets = targets]
  BY <1>0, <1>3, <1>4
<1> HIDE DEF batch, targets
<1>6. g[j] = v /\ DOMAIN g = Jobs /\ \A k \in Jobs \ {j} : g[k] = run[k]
  BY <1>3
<1>7. /\ u.pc = pc /\ u.locked = run[j].locked
      /\ u.marked = run[j].marked /\ u.doomed = run[j].doomed
  BY <1>1 DEF Run
<1> HIDE DEF f, u
<1>8. /\ v \in Run /\ v.pc = u.pc /\ v.batch = batch /\ v.locked = u.locked
      /\ v.marked = u.marked /\ v.doomed = u.doomed
  BY <1>2, <1>4 DEF Run
<1> HIDE DEF g, v
<1>9. run' = [run EXCEPT ![j] = t]
  BY <1>1, <1>5, <1>6
<1>10. /\ t \in Run /\ t.pc = v.pc /\ t.batch = v.batch /\ t.targets = targets
       /\ t.locked = v.locked /\ t.marked = v.marked /\ t.doomed = v.doomed
  BY <1>2, <1>8 DEF Run
<1> HIDE DEF t
<1>11. Becomes(j, t)
  BY <1>9, <1>10, SetRun
<1> QED  BY <1>0, <1>7, <1>8, <1>10, <1>11 DEF batch, targets

LEMMA TypedStep == Typed /\ [Next]_vars => Typed'
<1> SUFFICES ASSUME Typed, [Next]_vars PROVE Typed'
  OBVIOUS
<1> USE DEF tableVars
<1>1. CASE AddBatch
  <2>1. PICK new \in SUBSET Row :
          /\ rows' = rows \cup new /\ pending' = pending \cup new
          /\ \A r \in new : r.tx = txs + 1
    BY <1>1, AddBatchAdds
  <2>2. /\ sends' \in [rows' -> Nat] /\ txs' = txs + 1
        /\ UNCHANGED <<processed, run, deadlocks, failures>>
    BY <1>1, AddBatchAdds
  <2>3. \A r \in rows' : r.tx <= txs'
    BY <2>1, <2>2 DEF Typed, Row
  <2> QED  BY <2>1, <2>2, <2>3 DEF Typed
<1>2. CASE CleanOutbox
  BY <1>2 DEF CleanOutbox, Typed
<1>3. CASE Crash
  <2>1. run' \in [Jobs -> Run]
    BY <1>3, IdleTyped DEF Crash
  <2> QED  BY <1>3, <2>1, FailCounts DEF Crash, Typed
<1>4. ASSUME NEW j \in Jobs, FetchPending(j) \/ UpdateStatus(j) \/ UpdateWaits(j)
                             \/ UpdateRefused(j)
      PROVE  Typed'
  <2>1. run' \in [Jobs -> Run]
    BY <1>4, FetchRun, UpdateRun, UpdateWaitsRun, RefusedRun DEF Becomes
  <2> QED  BY <1>4, <2>1 DEF FetchPending, UpdateStatus, UpdateWaits, UpdateRefused, Typed
<1>5. ASSUME NEW j \in Jobs, NEW r, Sends(j, r) PROVE Typed'
  <2>1. run' \in [Jobs -> Run]
    BY <1>5, SendRun DEF Becomes
  <2>2. failures' \in Nat
    BY <1>5, SendCounts, FailCounts DEF Sends, Typed
  <2>3. sends' \in [rows -> Nat] /\ UNCHANGED <<tableVars, deadlocks>>
    BY <1>5, SendCounts
  <2> QED  BY <2>1, <2>2, <2>3 DEF Typed
<1>6. ASSUME NEW j \in Jobs, Loses(j) PROVE Typed'
  <2>1. run' \in [Jobs -> Run]
    BY <1>6, LosesRun DEF Becomes
  <2>2. failures' \in Nat /\ deadlocks' \in Nat
    BY <1>6, FailCounts DEF Loses, Deadlock, TxFails, Typed
  <2> QED  BY <1>6, <2>1, <2>2 DEF Loses, Deadlock, TxFails, Typed
<1>7. ASSUME NEW j \in Jobs, Ends(j) PROVE Typed'
  <2>1. run' \in [Jobs -> Run]
    BY <1>7, EndsRun DEF Becomes
  <2>2. pending' \subseteq rows /\ processed' \subseteq rows
    BY <1>7 DEF Ends, Commit, Rollback, Typed
  <2> QED  BY <1>7, <2>1, <2>2 DEF Ends, Commit, Rollback, Typed
<1>8. CASE UNCHANGED vars
  BY <1>8 DEF vars, Typed
<1> QED  BY <1>1, <1>2, <1>3, <1>4, <1>5, <1>6, <1>7, <1>8, StepKinds

----------------------------------------------------------------------------
(* The relay runs. *)

(* A run whose transaction lives holds the rows that it has yet to send,   *)
(* which are pending, and those that it will mark.                         *)
RunOK(t) ==
  /\ t.batch \subseteq rows /\ t.marked \subseteq rows /\ t.targets \subseteq rows
  /\ ~t.doomed => /\ t.batch \subseteq pending
                  /\ t.batch \subseteq t.locked /\ t.marked \subseteq t.locked
  /\ t.pc = "idle" => t.batch = {} /\ t.marked = {} /\ ~t.doomed

RunsInv ==
  /\ \A j \in Jobs : RunOK(run[j])
  /\ \A j, k \in Jobs : j # k => run[j].locked \cap run[k].locked = {}

LEMMA IdleOK == RunOK(Idle)
  BY DEF Idle, RunOK

(* One run moves, the tables stay. *)
LEMMA RunsFrame ==
  ASSUME Typed, RunsInv, UNCHANGED tableVars,
         NEW j \in Jobs, NEW t \in Run, Becomes(j, t), RunOK(t),
         t.locked \cap LockedByOthers(j) = {}
  PROVE  RunsInv'
<1>1. /\ run'[j] = t /\ \A k \in Jobs \ {j} : run'[k] = run[k]
      /\ rows' = rows /\ pending' = pending
  BY DEF Becomes, tableVars
<1>2. ASSUME NEW k \in Jobs PROVE RunOK(run[k])'
  <2>1. CASE k = j
    BY <1>1, <2>1 DEF RunOK
  <2>2. CASE k # j
    BY <1>1, <2>2 DEF RunOK, RunsInv
  <2> QED  BY <2>1, <2>2
<1>3. \A k \in Jobs \ {j} : t.locked \cap run[k].locked = {}
  BY DEF LockedByOthers
<1> QED  BY <1>1, <1>2, <1>3 DEF RunsInv

LEMMA OwnLocks ==
  ASSUME RunsInv, NEW j \in Jobs
  PROVE  run[j].locked \cap LockedByOthers(j) = {}
  BY DEF RunsInv, LockedByOthers

LEMMA RunsStep == Typed /\ RunsInv /\ [Next]_vars => RunsInv'
<1> SUFFICES ASSUME Typed, RunsInv, [Next]_vars PROVE RunsInv'
  OBVIOUS
<1>1. CASE UNCHANGED run /\ rows \subseteq rows' /\ pending \subseteq pending'
  BY <1>1 DEF RunsInv, RunOK
<1>2. CASE AddBatch \/ CleanOutbox \/ UNCHANGED vars
  BY <1>1, <1>2, AddBatchAdds DEF CleanOutbox, vars, tableVars
<1>3. CASE Crash
  <2>1. \A k \in Jobs : run'[k] = Idle
    BY <1>3 DEF Crash
  <2>2. \A k \in Jobs : RunOK(run[k])'
    BY <2>1, IdleTyped DEF RunOK, Idle
  <2> QED  BY <2>1, <2>2, IdleTyped DEF RunsInv
<1>4. ASSUME NEW j \in Jobs, FetchPending(j) PROVE RunsInv'
  <2>1. PICK S \in SUBSET (pending \ LockedByOthers(j)), t \in Run :
          /\ Becomes(j, t)
          /\ t.pc = "send" /\ t.batch = S /\ t.locked = S
          /\ t.marked = {} /\ t.targets = {} /\ ~t.doomed
    BY <1>4, FetchRun
  <2>2. RunOK(t)
    BY <2>1 DEF RunOK, Typed
  <2> QED  BY <1>4, <2>1, <2>2, RunsFrame DEF FetchPending
<1>5. ASSUME NEW j \in Jobs, NEW r, Sends(j, r) PROVE RunsInv'
  <2>1. PICK t \in Run :
           /\ Becomes(j, t)
           /\ t.pc \in {"mark", "error"} /\ t.batch = run[j].batch \ {r}
           /\ t.targets = SameId(r) /\ t.locked = run[j].locked
           /\ t.marked = run[j].marked /\ t.doomed = run[j].doomed
    BY <1>5, SendRun
  <2>2. SameId(r) \subseteq rows
    BY DEF SameId, Typed
  <2>3. RunOK(t)
    BY <2>1, <2>2 DEF RunsInv, RunOK
  <2> QED  BY <1>5, <2>1, <2>3, OwnLocks, SendCounts, RunsFrame
<1>6. ASSUME NEW j \in Jobs, UpdateStatus(j) PROVE RunsInv'
  <2>1. PICK t \in Run :
          /\ Becomes(j, t)
          /\ t.pc = "send" /\ t.batch = run[j].batch /\ t.targets = {}
          /\ t.locked = run[j].locked \cup Targets(j)
          /\ t.marked = run[j].marked \cup MarkedBy(j)
          /\ ~t.doomed
    BY <1>6, UpdateRun
  <2>2. /\ ~run[j].doomed /\ MarkedBy(j) \subseteq Targets(j)
        /\ Targets(j) \subseteq rows
        /\ Targets(j) \cap LockedByOthers(j) = {}
    BY <1>6, UpdateRun DEF Updating, MarkedBy, Targets, Typed
  <2>3. RunOK(t)
    BY <2>1, <2>2 DEF RunsInv, RunOK
  <2>4. t.locked \cap LockedByOthers(j) = {}
    BY <2>1, <2>2, OwnLocks
  <2> QED  BY <1>6, <2>1, <2>3, <2>4, RunsFrame DEF UpdateStatus
<1>7. ASSUME NEW j \in Jobs, UpdateWaits(j) PROVE RunsInv'
  <2>1. PICK r \in pending \cup processed, t \in Run :
           /\ r \notin LockedByOthers(j) /\ Updating(j)
           /\ Becomes(j, t)
           /\ t.pc = run[j].pc /\ t.batch = run[j].batch
           /\ t.targets = run[j].targets
           /\ t.locked = run[j].locked \cup {r}
           /\ t.marked = run[j].marked
           /\ ~t.doomed
    BY <1>7, UpdateWaitsRun
  <2>2. RunOK(t)
    BY <2>1 DEF RunsInv, RunOK, Updating
  <2>3. t.locked \cap LockedByOthers(j) = {}
    BY <2>1, OwnLocks
  <2> QED  BY <1>7, <2>1, <2>2, <2>3, RunsFrame DEF UpdateWaits
<1>8. ASSUME NEW j \in Jobs, Loses(j) PROVE RunsInv'
  <2>1. PICK t \in Run :
          /\ Becomes(j, t)
          /\ t.pc # "idle" /\ t.batch = run[j].batch
          /\ t.targets \in {{}, run[j].targets}
          /\ t.locked = {} /\ t.marked = run[j].marked
          /\ t.doomed
    BY <1>8, LosesRun
  <2>2. RunOK(t)
    BY <2>1 DEF RunsInv, RunOK
  <2> QED  BY <1>8, <2>1, <2>2, RunsFrame DEF Loses, Deadlock, TxFails
<1>9. ASSUME NEW j \in Jobs, UpdateRefused(j) PROVE RunsInv'
  <2>1. PICK t \in Run :
          /\ Becomes(j, t)
          /\ t.pc = "send" /\ t.batch = run[j].batch /\ t.targets = {}
          /\ t.locked = run[j].locked /\ t.marked = run[j].marked
          /\ t.doomed
    BY <1>9, RefusedRun
  <2>2. RunOK(t)
    BY <2>1 DEF RunsInv, RunOK
  <2> QED  BY <1>9, <2>1, <2>2, OwnLocks, RunsFrame DEF UpdateRefused
<1>10. ASSUME NEW j \in Jobs, Ends(j) PROVE RunsInv'
  <2>1. Becomes(j, Idle)
    BY <1>10, EndsRun
  <2>2. CASE Rollback(j)
    BY <2>1, <2>2, IdleOK, IdleTyped, RunsFrame DEF Rollback
  <2>3. CASE Commit(j)
    <3>1. rows' = rows /\ pending' = pending \ run[j].marked /\ ~run[j].doomed
      BY <2>3 DEF Commit
    <3>2. ASSUME NEW k \in Jobs \ {j}, ~run[k].doomed
          PROVE  run[k].batch \subseteq pending'
      BY <3>1, <3>2 DEF RunsInv, RunOK
    <3>3. run'[j] = Idle /\ \A k \in Jobs \ {j} : run'[k] = run[k]
      BY <2>1 DEF Becomes
    <3>4. ASSUME NEW k \in Jobs PROVE RunOK(run[k])'
      <4>1. CASE k = j
        BY <3>3, <4>1 DEF RunOK, Idle
      <4>2. CASE k # j
        BY <3>1, <3>2, <3>3, <4>2 DEF RunsInv, RunOK
      <4> QED  BY <4>1, <4>2
    <3> QED  BY <3>3, <3>4, IdleTyped DEF RunsInv
  <2> QED  BY <1>10, <2>2, <2>3 DEF Ends
<1> QED
  BY <1>2, <1>3, <1>4, <1>5, <1>6, <1>7, <1>8, <1>9, <1>10, StepKinds

(* The tables are typed, and a row is held by one run. *)
LEMMA RunsCorrect == Spec => [](Typed /\ RunsInv)
<1>1. Init => Typed /\ RunsInv
  <2> SUFFICES ASSUME Init PROVE Typed /\ RunsInv
    OBVIOUS
  <2>1. Typed
    BY IdleTyped DEF Init, Typed
  <2>2. RunsInv
    BY IdleTyped, IdleOK DEF Init, RunsInv
  <2> QED  BY <2>1, <2>2
<1>2. Typed /\ RunsInv /\ [Next]_vars => (Typed /\ RunsInv)'
  BY TypedStep, RunsStep
<1> QED  BY <1>1, <1>2, PTL DEF Spec

----------------------------------------------------------------------------
(* What is settled was sent, as far as the queries can tell. *)

SentId(id) == \E q \in rows : q.id = id /\ sends[q] > 0

(* What a run marks, or is about to mark, shares its id with a row sent.   *)
MarksInv ==
  \A j \in Jobs :
    /\ \A r \in run[j].marked : SentId(r.id)
    /\ run[j].pc = "mark" => \A r \in run[j].targets : SentId(r.id)

(* Rows and copies are only added. *)
LEMMA SendsGrow ==
  ASSUME Typed, [Next]_vars
  PROVE  /\ rows \subseteq rows'
         /\ \A r \in rows : /\ sends[r] \in Nat /\ sends'[r] \in Nat
                            /\ sends'[r] >= sends[r]
         /\ \A id : SentId(id) => SentId(id)'
<1>1. \A r \in rows : sends[r] \in Nat
  BY DEF Typed
<1>2. /\ rows \subseteq rows'
      /\ \A r \in rows : sends'[r] \in Nat /\ sends'[r] >= sends[r]
  <2>1. CASE AddBatch
    BY <1>1, <2>1, AddBatchAdds
  <2>2. ASSUME NEW j \in Jobs, NEW r, Sends(j, r)
        PROVE  /\ rows' = rows
               /\ \A q \in rows : sends'[q] \in Nat /\ sends'[q] >= sends[q]
    <3>1. rows' = rows /\ sends' \in [rows -> Nat]
      BY <2>2, SendCounts DEF tableVars
    <3>2. ASSUME NEW q \in rows PROVE sends'[q] >= sends[q]
      <4>1. sends'[q] = sends[q] \/ sends'[q] = sends[q] + 1
        BY <2>2, SendCounts
      <4> QED  BY <1>1, <4>1
    <3> QED  BY <3>1, <3>2
  <2>3. CASE UNCHANGED <<rows, sends>>
    BY <1>1, <2>3
  <2>4. \/ AddBatch \/ UNCHANGED <<rows, sends>>
        \/ \E j \in Jobs : \E r : Sends(j, r)
    BY StepKinds
    DEF CleanOutbox, Crash, FetchPending, UpdateStatus, UpdateWaits, Loses, Deadlock,
        TxFails, UpdateRefused, Ends, Commit, Rollback, tableVars, vars
  <2> QED  BY <2>1, <2>2, <2>3, <2>4
<1>3. ASSUME NEW id, SentId(id) PROVE SentId(id)'
  <2>1. PICK q \in rows : q.id = id /\ sends[q] > 0
    BY <1>3 DEF SentId
  <2>2. q \in rows' /\ sends'[q] > 0
    BY <1>1, <1>2, <2>1
  <2> QED  BY <2>1, <2>2 DEF SentId
<1> QED  BY <1>1, <1>2, <1>3

LEMMA MarksStep == Typed /\ RunsInv /\ MarksInv /\ [Next]_vars => MarksInv'
<1> SUFFICES ASSUME Typed, RunsInv, MarksInv, [Next]_vars, NEW k \in Jobs
             PROVE  /\ \A r \in run'[k].marked : SentId(r.id)'
                    /\ run'[k].pc = "mark" => \A r \in run'[k].targets : SentId(r.id)'
  BY DEF MarksInv
<1> DEFINE Goal == /\ \A r \in run'[k].marked : SentId(r.id)'
                   /\ run'[k].pc = "mark" => \A r \in run'[k].targets : SentId(r.id)'
<1>1. \A id : SentId(id) => SentId(id)'
  BY SendsGrow
<1>2. ASSUME run'[k].marked \subseteq run[k].marked,
             run'[k].pc = "mark" =>
               run[k].pc = "mark" /\ run'[k].targets \subseteq run[k].targets
      PROVE  Goal
  BY <1>1, <1>2 DEF MarksInv
<1>3. ASSUME run'[k] = run[k] PROVE Goal
  BY <1>2, <1>3
<1>4. ASSUME run'[k].marked = {}, run'[k].pc # "mark" PROVE Goal
  BY <1>4
<1> HIDE DEF Goal
<1>5. ASSUME Crash PROVE Goal
  <2>1. run'[k] = Idle
    BY <1>5 DEF Crash
  <2> QED  BY <1>4, <2>1, IdleTyped
<1>6. ASSUME NEW j \in Jobs, FetchPending(j) PROVE Goal
  <2>1. PICK t \in Run : Becomes(j, t) /\ t.marked = {} /\ t.pc = "send"
    BY <1>6, FetchRun
  <2> QED  BY <1>3, <1>4, <2>1 DEF Becomes
<1>7. ASSUME NEW j \in Jobs, NEW r, Sends(j, r) PROVE Goal
  <2>1. PICK t \in Run : /\ Becomes(j, t) /\ t.targets = SameId(r)
                         /\ t.marked = run[j].marked
                         /\ ~Publish(j, r) => t.pc = "error"
    BY <1>7, SendRun
  <2>2. CASE k # j
    BY <1>3, <2>1, <2>2 DEF Becomes
  <2>3. CASE k = j /\ ~Publish(j, r)
    BY <1>2, <2>1, <2>3 DEF Becomes
  <2>4. CASE k = j /\ Publish(j, r)
    <3>1. r \in rows /\ rows' = rows
      BY <1>7, SendCounts DEF RunsInv, RunOK, tableVars
    <3>2. sends'[r] = sends[r] + 1 /\ sends[r] \in Nat
      BY <1>7, <2>4, <3>1, SendCounts DEF Typed
    <3>3. SentId(r.id)'
      <4>1. sends'[r] > 0
        BY <3>2
      <4> QED  BY <3>1, <4>1 DEF SentId
    <3>4. \A q \in SameId(r) : q.id = r.id
      BY DEF SameId
    <3>5. \A q \in SameId(r) : SentId(q.id)'
      BY <3>3, <3>4
    <3>6. \A q \in run[k].marked : SentId(q.id)'
      BY <1>1 DEF MarksInv
    <3> QED  BY <2>1, <2>4, <3>5, <3>6 DEF Becomes, Goal
  <2> QED  BY <2>2, <2>3, <2>4
<1>8. ASSUME NEW j \in Jobs, UpdateStatus(j) PROVE Goal
  <2>1. PICK t \in Run :
          /\ Becomes(j, t) /\ t.pc = "send"
          /\ t.marked = run[j].marked \cup MarkedBy(j)
    BY <1>8, UpdateRun
  <2>2. CASE k # j
    BY <1>3, <2>1, <2>2 DEF Becomes
  <2>3. CASE k = j
    <3>1. \A r \in MarkedBy(j) : SentId(r.id)
      BY DEF MarkedBy, Targets, MarksInv
    <3>2. \A r \in t.marked : SentId(r.id)'
      BY <1>1, <2>1, <3>1 DEF MarksInv
    <3> QED  BY <2>1, <2>3, <3>2 DEF Becomes, Goal
  <2> QED  BY <2>2, <2>3
<1>9. ASSUME NEW j \in Jobs, UpdateWaits(j) \/ Loses(j) \/ UpdateRefused(j) PROVE Goal
  <2>1. PICK t \in Run :
          /\ Becomes(j, t)
          /\ t.pc = "mark" => run[j].pc = "mark"
          /\ t.targets \subseteq run[j].targets
          /\ t.marked = run[j].marked
    <3>1. CASE UpdateWaits(j)
      BY <3>1, UpdateWaitsRun
    <3>2. CASE Loses(j)
      <4>1. PICK t \in Run :
              /\ Becomes(j, t)
              /\ t.pc = "mark" => run[j].pc = "mark"
              /\ t.targets \in {{}, run[j].targets}
              /\ t.marked = run[j].marked
        BY <3>2, LosesRun
      <4> QED  BY <4>1
    <3>3. CASE UpdateRefused(j)
      <4>1. PICK t \in Run :
              /\ Becomes(j, t)
              /\ t.pc = "send" /\ t.targets = {} /\ t.marked = run[j].marked
        BY <3>3, RefusedRun
      <4> QED  BY <4>1
    <3> QED  BY <1>9, <3>1, <3>2, <3>3
  <2>2. CASE k = j
    BY <1>2, <2>1, <2>2 DEF Becomes
  <2>3. CASE k # j
    BY <1>3, <2>1, <2>3 DEF Becomes
  <2> QED  BY <2>2, <2>3
<1>10. ASSUME NEW j \in Jobs, Ends(j) PROVE Goal
  <2>1. Becomes(j, Idle)
    BY <1>10, EndsRun
  <2> QED  BY <1>3, <1>4, <2>1, IdleTyped DEF Becomes
<1>11. ASSUME run' = run PROVE Goal
  BY <1>3, <1>11
<1>12. Goal
  BY <1>5, <1>6, <1>7, <1>8, <1>9, <1>10, <1>11, StepKinds, AddBatchAdds
  DEF CleanOutbox, vars
<1> QED  BY <1>12 DEF Goal

(* A row leaves the pending ones only when a run that marked it commits.   *)
LEMMA LeavesPending ==
  ASSUME Typed, [Next]_vars
  PROVE  \A r \in rows' \ pending' :
           \/ r \in rows \ pending
           \/ \E j \in Jobs : Commit(j) /\ r \in run[j].marked
<1>1. CASE AddBatch
  <2>1. PICK new : rows' = rows \cup new /\ pending' = pending \cup new
    BY <1>1, AddBatchAdds
  <2> QED  BY <2>1
<1>2. ASSUME NEW j \in Jobs, Commit(j)
      PROVE  \A r \in rows' \ pending' : r \in rows \ pending \/ r \in run[j].marked
  BY <1>2 DEF Commit
<1>3. CASE UNCHANGED <<rows, pending>>
  BY <1>3
<1>4. \/ AddBatch \/ UNCHANGED <<rows, pending>>
      \/ \E j \in Jobs : Commit(j)
  BY StepKinds, SendCounts
  DEF CleanOutbox, Crash, FetchPending, UpdateStatus, UpdateWaits, Loses, Deadlock,
      TxFails, UpdateRefused, Ends, Rollback, tableVars, vars
<1> QED  BY <1>1, <1>2, <1>3, <1>4

(* Whatever runs overlap, wait, deadlock or die: a row that the relay no   *)
(* longer looks at was sent, or a row with its update_id was.              *)
THEOREM SettledRowsShareId == Spec => []SettledSharesId
<1>1. Init => MarksInv /\ SettledSharesId
  <2> SUFFICES ASSUME Init PROVE MarksInv /\ SettledSharesId
    OBVIOUS
  <2>1. \A j \in Jobs : run[j].marked = {} /\ run[j].pc # "mark"
    BY IdleTyped DEF Init
  <2> QED  BY <2>1 DEF Init, MarksInv, SettledSharesId
<1>2. ASSUME Typed, RunsInv, MarksInv, SettledSharesId, [Next]_vars
      PROVE  SettledSharesId'
  <2>1. ASSUME NEW r \in rows' \ pending' PROVE SentId(r.id)
    BY <1>2, <2>1, LeavesPending DEF SettledSharesId, MarksInv, SentId
  <2>2. ASSUME NEW r \in rows' \ pending' PROVE SentId(r.id)'
    BY <1>2, <2>1, SendsGrow
  <2> QED  BY <2>2 DEF SettledSharesId, SentId
<1>3. Typed /\ RunsInv /\ MarksInv /\ SettledSharesId /\ [Next]_vars
        => MarksInv' /\ SettledSharesId'
  BY <1>2, MarksStep
<1> QED  BY <1>1, <1>3, RunsCorrect, PTL DEF Spec

----------------------------------------------------------------------------
(* What was sent again. *)

(* What may repeat a send. *)
Budget == failures + deadlocks

(* Runs with a lost transaction that will still send row r. *)
DoomedSends(r) == {j \in Jobs : run[j].doomed /\ r \in run[j].batch}

(* The copies of r, with those that cannot be stopped. *)
Copies(r) == sends[r] + Cardinality(DoomedSends(r))

(* A live run holds r, is done with it, and its commit will settle it.     *)
HasSent(t, r) == /\ ~t.doomed
                 /\ r \in t.locked /\ r \notin t.batch
                 /\ r \in t.marked \/ (t.pc = "mark" /\ r \in t.targets)

Sent(r) == \E j \in Jobs : HasSent(run[j], r)

(* A failure has paid for every copy but one, and for this one too while   *)
(* the row is pending and no live run is about to settle it.               *)
CopyOK(r) == /\ Copies(r) <= 1 + Budget
             /\ r \in pending /\ ~Sent(r) => Copies(r) <= Budget

PaidInv == \A r \in rows : CopyOK(r)

LEMMA BudgetTyped ==
  ASSUME Typed
  PROVE  Budget \in Nat
  BY DEF Typed, Budget

LEMMA DoomedFinite ==
  ASSUME NEW r
  PROVE  IsFiniteSet(DoomedSends(r)) /\ Cardinality(DoomedSends(r)) \in Nat
<1>1. DoomedSends(r) \in SUBSET Jobs
  BY DEF DoomedSends
<1> QED  BY <1>1, FS_Subset, FS_CardinalityType, AgentOutboxAssumption
         DEF AgentOutboxAssumption

LEMMA CopiesTyped ==
  ASSUME Typed, NEW r \in rows
  PROVE  /\ sends[r] \in Nat /\ Cardinality(DoomedSends(r)) \in Nat
         /\ Copies(r) \in Nat
<1>1. sends[r] \in Nat
  BY DEF Typed
<1> QED  BY <1>1, DoomedFinite DEF Copies

(* What the move of a run does to the copies that cannot be stopped. *)
LEMMA DoomedStep ==
  ASSUME Typed, NEW j \in Jobs, NEW t \in Run, Becomes(j, t), NEW r
  PROVE  LET before == run[j].doomed /\ r \in run[j].batch
             after  == t.doomed /\ r \in t.batch
             n  == Cardinality(DoomedSends(r))
         IN  /\ before /\ after => n' = n
             /\ ~before /\ ~after => n' = n
             /\ ~before /\ after => n' = n + 1
             /\ before /\ ~after => n' = n - 1
<1> DEFINE before == run[j].doomed /\ r \in run[j].batch
           after  == t.doomed /\ r \in t.batch
           D == DoomedSends(r)
<1>1. run'[j] = t /\ \A k \in Jobs \ {j} : run'[k] = run[k]
  BY DEF Becomes
<1>2. (j \in D <=> before) /\ (j \in D' <=> after)
  BY <1>1 DEF DoomedSends
<1>3. \A k : k # j => (k \in D' <=> k \in D)
  BY <1>1 DEF DoomedSends
<1>4. IsFiniteSet(D)
  BY DoomedFinite
<1> HIDE DEF D, before, after
<1>5. CASE before <=> after
  <2>1. D' = D
    BY <1>2, <1>3, <1>5
  <2> QED  BY <1>5, <2>1 DEF D, before, after
<1>6. CASE ~before /\ after
  <2>1. D' = D \cup {j} /\ j \notin D
    BY <1>2, <1>3, <1>6
  <2>2. Cardinality(D') = Cardinality(D) + 1
    BY <1>4, <2>1, FS_AddElement
  <2> QED  BY <1>6, <2>2 DEF D, before, after
<1>7. CASE before /\ ~after
  <2>1. D' = D \ {j} /\ j \in D
    BY <1>2, <1>3, <1>7
  <2>2. Cardinality(D') = Cardinality(D) - 1
    BY <1>4, <2>1, FS_RemoveElement
  <2> QED  BY <1>7, <2>2 DEF D, before, after
<1> QED  BY <1>5, <1>6, <1>7

(* Who holds a row that is done with, after the move of one run. *)
SentByOthers(j, r) == \E k \in Jobs \ {j} : HasSent(run[k], r)

LEMMA SentMove ==
  ASSUME NEW j \in Jobs, NEW t, Becomes(j, t), NEW r
  PROVE  /\ Sent(r) <=> HasSent(run[j], r) \/ SentByOthers(j, r)
         /\ Sent(r)' <=> HasSent(t, r) \/ SentByOthers(j, r)
  BY DEF Becomes, Sent, HasSent, SentByOthers

(* A row in the batch of a live run is pending, and no other run is done   *)
(* with it: every copy so far is paid for.                                 *)
LEMMA BatchPaid ==
  ASSUME Typed, RunsInv, NEW j \in Jobs, ~run[j].doomed, NEW r \in run[j].batch, CopyOK(r)
  PROVE  r \in pending /\ ~Sent(r) /\ Copies(r) <= Budget
<1>1. r \in pending /\ r \in run[j].locked
  BY DEF RunsInv, RunOK
<1>2. ASSUME NEW k \in Jobs PROVE ~HasSent(run[k], r)
  <2>1. CASE k = j
    BY <2>1 DEF HasSent
  <2>2. CASE k # j
    BY <1>1, <2>2 DEF HasSent, RunsInv
  <2> QED  BY <2>1, <2>2
<1>3. ~Sent(r)
  BY <1>2 DEF Sent
<1> QED  BY <1>1, <1>3 DEF CopyOK

(* A move that sends nothing, and dooms no run: what holds of a row before *)
(* holds after it, if the run that has sent it goes on to settle it.       *)
LEMMA QuietMove ==
  ASSUME Typed, NEW j \in Jobs, NEW t \in Run, Becomes(j, t),
         NEW r \in rows, CopyOK(r),
         sends' = sends, UNCHANGED <<failures, deadlocks>>,
         t.doomed /\ r \in t.batch => run[j].doomed /\ r \in run[j].batch,
         r \in pending' => r \in pending /\ (HasSent(run[j], r) => HasSent(t, r))
  PROVE  CopyOK(r)'
<1>1. Cardinality(DoomedSends(r))' <= Cardinality(DoomedSends(r))
      /\ Cardinality(DoomedSends(r))' \in Int
  <2>1. Cardinality(DoomedSends(r)) \in Nat
    BY DoomedFinite
  <2> QED  BY <2>1, DoomedStep
<1>2. /\ Copies(r)' <= Copies(r) /\ Copies(r)' \in Int
      /\ Copies(r) \in Nat /\ Budget \in Nat
  BY <1>1, CopiesTyped, BudgetTyped DEF Copies
<1>3. Budget' = Budget
  BY DEF Budget
<1> QED  BY <1>2, <1>3, SentMove DEF CopyOK

LEMMA QuietCopies ==
  ASSUME Typed, RunsInv, NEW j \in Jobs,
         \/ FetchPending(j) \/ UpdateStatus(j) \/ UpdateWaits(j)
         \/ UpdateRefused(j) \/ Ends(j),
         NEW r \in rows, CopyOK(r)
  PROVE  CopyOK(r)'
<1>1. sends' = sends /\ UNCHANGED <<failures, deadlocks>>
  BY DEF FetchPending, UpdateStatus, UpdateWaits, UpdateRefused, Ends, Commit, Rollback
<1>2. CASE FetchPending(j)
  <2>1. PICK t \in Run : Becomes(j, t) /\ ~t.doomed
    BY <1>2, FetchRun
  <2>2. run[j].pc = "idle" /\ run[j].marked = {} /\ pending' = pending
    BY <1>2 DEF FetchPending, RunsInv, RunOK, tableVars
  <2>3. ~HasSent(run[j], r)
    BY <2>2 DEF HasSent
  <2> QED  BY <1>1, <2>1, <2>2, <2>3, QuietMove
<1>3. CASE UpdateStatus(j)
  <2>1. PICK t \in Run :
          /\ Becomes(j, t)
          /\ t.batch = run[j].batch
          /\ t.locked = run[j].locked \cup Targets(j)
          /\ t.marked = run[j].marked \cup MarkedBy(j)
          /\ ~t.doomed
    BY <1>3, UpdateRun
  <2>2. pending' = pending
    BY <1>3 DEF UpdateStatus, tableVars
  <2>3. ASSUME r \in pending, HasSent(run[j], r) PROVE HasSent(t, r)
    <3>1. r \in run[j].marked \/ r \in MarkedBy(j)
      BY <2>3 DEF HasSent, MarkedBy, Targets
    <3> QED  BY <2>1, <2>3, <3>1 DEF HasSent
  <2> QED  BY <1>1, <2>1, <2>2, <2>3, QuietMove
<1>4. CASE UpdateWaits(j)
  <2>1. PICK q \in pending \cup processed, t \in Run :
           /\ Becomes(j, t)
           /\ t.pc = run[j].pc /\ t.batch = run[j].batch
           /\ t.targets = run[j].targets
           /\ t.locked = run[j].locked \cup {q}
           /\ t.marked = run[j].marked
           /\ ~t.doomed
    BY <1>4, UpdateWaitsRun
  <2>2. pending' = pending
    BY <1>4 DEF UpdateWaits, tableVars
  <2>3. HasSent(run[j], r) => HasSent(t, r)
    BY <2>1 DEF HasSent
  <2> QED  BY <1>1, <2>1, <2>2, <2>3, QuietMove
<1>5. CASE UpdateRefused(j)
  <2>1. PICK t \in Run : Becomes(j, t) /\ t.batch = run[j].batch
    BY <1>5, RefusedRun
  <2>2. pending' = pending /\ run[j].doomed
    BY <1>5 DEF UpdateRefused, tableVars
  <2>3. ~HasSent(run[j], r)
    BY <2>2 DEF HasSent
  <2> QED  BY <1>1, <2>1, <2>2, <2>3, QuietMove
<1>6. CASE Ends(j)
  <2>1. Becomes(j, Idle) /\ Idle \in Run /\ ~Idle.doomed
    BY <1>6, EndsRun, IdleTyped
  <2>2. CASE Commit(j)
    <3>1. pending' = pending \ run[j].marked /\ run[j].pc = "send"
      BY <2>2 DEF Commit
    <3>2. HasSent(run[j], r) => r \in run[j].marked
      BY <3>1 DEF HasSent
    <3> QED  BY <1>1, <2>1, <3>1, <3>2, QuietMove
  <2>3. CASE Rollback(j)
    <3>1. pending' = pending /\ run[j].doomed
      BY <2>3 DEF Rollback, tableVars
    <3>2. ~HasSent(run[j], r)
      BY <3>1 DEF HasSent
    <3> QED  BY <1>1, <2>1, <3>1, <3>2, QuietMove
  <2> QED  BY <1>6, <2>2, <2>3 DEF Ends
<1> QED  BY <1>2, <1>3, <1>4, <1>5, <1>6

(* A lost transaction pays for the row that is sent without it. *)
LEMMA LosesCopies ==
  ASSUME Typed, RunsInv, NEW j \in Jobs, Loses(j), NEW r \in rows, CopyOK(r)
  PROVE  CopyOK(r)'
<1>1. PICK t \in Run : Becomes(j, t) /\ t.batch = run[j].batch /\ t.doomed
  BY LosesRun
<1>2. ~run[j].doomed
  BY LosesRun
<1>3. UNCHANGED <<pending, sends>>
  BY DEF Loses, Deadlock, TxFails, tableVars
<1>4. Budget' = Budget + 1 /\ Budget \in Nat
  BY FailCounts, BudgetTyped DEF Loses, Deadlock, TxFails, Budget, Typed
<1>5. /\ Copies(r) \in Nat /\ sends[r] \in Nat
      /\ Cardinality(DoomedSends(r)) \in Nat
  BY CopiesTyped
<1>6. CASE r \in run[j].batch
  <2>1. Cardinality(DoomedSends(r))' = Cardinality(DoomedSends(r)) + 1
    BY <1>1, <1>2, <1>6, DoomedStep
  <2>2. Copies(r)' = Copies(r) + 1
    BY <1>3, <1>5, <2>1 DEF Copies
  <2>3. Copies(r) <= Budget
    BY <1>2, <1>6, BatchPaid
  <2> QED  BY <1>4, <1>5, <2>2, <2>3 DEF CopyOK
<1>7. CASE r \notin run[j].batch
  <2>1. Cardinality(DoomedSends(r))' = Cardinality(DoomedSends(r))
    BY <1>1, <1>2, <1>7, DoomedStep
  <2>2. Copies(r)' = Copies(r)
    BY <1>3, <1>5, <2>1 DEF Copies
  <2> QED  BY <1>4, <1>5, <2>2 DEF CopyOK
<1> QED  BY <1>6, <1>7

LEMMA SendCopies ==
  ASSUME Typed, RunsInv, NEW j \in Jobs, NEW x, Sends(j, x), NEW r \in rows, CopyOK(r)
  PROVE  CopyOK(r)'
<1>1. PICK t \in Run :
        /\ Becomes(j, t)
        /\ Publish(j, x) => t.pc = "mark"
        /\ t.batch = run[j].batch \ {x}
        /\ t.targets = SameId(x) /\ t.locked = run[j].locked
        /\ t.marked = run[j].marked /\ t.doomed = run[j].doomed
  BY SendRun
<1>2. /\ run[j].pc = "send" /\ x \in run[j].batch /\ x \in rows
      /\ UNCHANGED <<rows, pending, deadlocks>>
  BY SendCounts DEF RunsInv, RunOK, tableVars
<1>3. /\ Budget \in Nat
      /\ Publish(j, x) => Budget' = Budget
      /\ ~Publish(j, x) => Budget' = Budget + 1
  <2>1. failures \in Nat /\ deadlocks \in Nat
    BY DEF Typed
  <2>2. Publish(j, x) => failures' = failures
    BY DEF Publish
  <2>3. ~Publish(j, x) => failures' = failures + 1
    BY FailCounts DEF Sends, PublishFails
  <2> QED  BY <1>2, <2>1, <2>2, <2>3 DEF Budget
<1>4. /\ Copies(r) \in Nat /\ sends[r] \in Nat
      /\ Cardinality(DoomedSends(r)) \in Nat
  BY CopiesTyped
<1>5. run[j].pc # "mark"
  BY <1>2
<1>6. HasSent(run[j], r) => HasSent(t, r)
  BY <1>1, <1>5 DEF HasSent
<1>7. CASE r # x
  <2>1. sends'[r] = sends[r]
    BY <1>7, SendCounts
  <2>2. r \in t.batch <=> r \in run[j].batch
    BY <1>1, <1>7
  <2>3. Cardinality(DoomedSends(r))' = Cardinality(DoomedSends(r))
    BY <1>1, <2>2, DoomedStep
  <2>4. Copies(r)' = Copies(r)
    BY <2>1, <2>3 DEF Copies
  <2>5. Sent(r) => Sent(r)'
    BY <1>1, <1>6, SentMove
  <2> QED  BY <1>2, <1>3, <1>4, <2>4, <2>5 DEF CopyOK
<1>8. CASE r = x /\ run[j].doomed
  <2>1. r \in run[j].batch /\ r \notin t.batch
    BY <1>1, <1>2, <1>8
  <2>2. Cardinality(DoomedSends(r))' = Cardinality(DoomedSends(r)) - 1
    BY <1>1, <1>8, <2>1, DoomedStep
  <2>3. sends'[r] = sends[r] \/ sends'[r] = sends[r] + 1
    BY <1>8, SendCounts
  <2>4. Copies(r)' <= Copies(r) /\ Copies(r)' \in Int
    BY <1>4, <2>2, <2>3 DEF Copies
  <2>5. Sent(r) => Sent(r)'
    BY <1>1, <1>6, SentMove
  <2> QED  BY <1>2, <1>3, <1>4, <2>4, <2>5 DEF CopyOK
<1>9. CASE r = x /\ ~run[j].doomed
  <2>1. r \in run[j].batch /\ r \notin t.batch
    BY <1>1, <1>2, <1>9
  <2>2. ~t.doomed /\ Becomes(j, t)
    BY <1>1, <1>9
  <2>3. Cardinality(DoomedSends(r))' = Cardinality(DoomedSends(r))
    BY <1>9, <2>2, DoomedStep
  <2>4. sends'[r] = sends[r] \/ sends'[r] = sends[r] + 1
    BY <1>9, SendCounts
  <2>5. Copies(r)' <= Copies(r) + 1 /\ Copies(r)' \in Int
    BY <1>4, <2>3, <2>4 DEF Copies
  <2>6. r \in pending /\ Copies(r) <= Budget
    BY <1>9, <2>1, BatchPaid
  <2>7. CASE ~Publish(j, x)
    BY <1>3, <1>4, <2>5, <2>6, <2>7 DEF CopyOK
  <2>8. CASE Publish(j, x)
    <3>1. r \in SameId(x) /\ r \in run[j].locked
      BY <1>9, <2>1, <2>6 DEF SameId, RunsInv, RunOK
    <3>2. HasSent(t, r)
      BY <1>1, <2>1, <2>2, <2>8, <3>1 DEF HasSent
    <3>3. Sent(r)'
      BY <2>2, <3>2, SentMove
    <3> QED  BY <1>3, <1>4, <2>5, <2>6, <2>8, <3>3 DEF CopyOK
  <2> QED  BY <2>7, <2>8
<1> QED  BY <1>7, <1>8, <1>9

LEMMA PaidStep == Typed /\ RunsInv /\ PaidInv /\ [Next]_vars => PaidInv'
<1> SUFFICES ASSUME Typed, RunsInv, PaidInv, [Next]_vars PROVE PaidInv'
  OBVIOUS
<1>1. CASE AddBatch
  <2>1. PICK new \in SUBSET Row :
          /\ rows' = rows \cup new /\ pending' = pending \cup new
          /\ new \cap rows = {}
          /\ \A r \in new : sends'[r] = 0
    BY <1>1, AddBatchAdds
  <2>2. /\ \A r \in rows : sends'[r] = sends[r]
        /\ UNCHANGED <<run, deadlocks, failures>>
    BY <1>1, AddBatchAdds
  <2>3. Budget' = Budget /\ Budget \in Nat
    BY <2>2, BudgetTyped DEF Budget
  <2>4. ASSUME NEW r \in rows PROVE CopyOK(r)'
    <3>1. DoomedSends(r)' = DoomedSends(r) /\ (Sent(r)' <=> Sent(r))
      BY <2>2 DEF DoomedSends, Sent
    <3>2. Copies(r)' = Copies(r)
      BY <2>2, <3>1 DEF Copies
    <3>3. r \notin new
      BY <2>1
    <3> QED  BY <2>1, <2>3, <3>1, <3>2, <3>3 DEF PaidInv, CopyOK
  <2>5. ASSUME NEW r \in new PROVE CopyOK(r)'
    <3>1. r \notin rows
      BY <2>1
    <3>2. DoomedSends(r)' = {}
      BY <2>2, <3>1 DEF DoomedSends, RunsInv, RunOK
    <3>3. Copies(r)' = 0
      BY <2>1, <3>2, FS_EmptySet DEF Copies
    <3> QED  BY <2>3, <3>3 DEF CopyOK
  <2> QED  BY <2>1, <2>4, <2>5 DEF PaidInv
<1>2. CASE CleanOutbox \/ UNCHANGED vars
  <2>1. UNCHANGED <<rows, pending, run, sends, deadlocks, failures>>
    BY <1>2 DEF CleanOutbox, vars, tableVars
  <2>2. ASSUME NEW r \in rows PROVE CopyOK(r)'
    <3>1. DoomedSends(r)' = DoomedSends(r) /\ (Sent(r)' <=> Sent(r)) /\ Budget' = Budget
      BY <2>1 DEF DoomedSends, Sent, Budget
    <3>2. Copies(r)' = Copies(r)
      BY <2>1, <3>1 DEF Copies
    <3> QED  BY <2>1, <3>1, <3>2 DEF PaidInv, CopyOK
  <2> QED  BY <2>1, <2>2 DEF PaidInv
<1>3. CASE Crash
  <2>1. /\ UNCHANGED <<rows, sends, deadlocks>> /\ Fail
        /\ \A k \in Jobs : run'[k] = Idle
    BY <1>3 DEF Crash, tableVars
  <2>2. Budget' = Budget + 1 /\ Budget \in Nat
    BY <2>1, FailCounts, BudgetTyped DEF Budget, Typed
  <2>3. ASSUME NEW r \in rows PROVE CopyOK(r)'
    <3>1. DoomedSends(r)' = {}
      BY <2>1, IdleTyped DEF DoomedSends
    <3>2. /\ Copies(r) \in Nat /\ sends[r] \in Nat
          /\ Cardinality(DoomedSends(r)) \in Nat
      BY CopiesTyped
    <3>3. Copies(r)' = sends[r]
      BY <2>1, <3>1, <3>2, FS_EmptySet DEF Copies
    <3>4. Copies(r)' <= Copies(r) /\ Copies(r)' \in Nat
      BY <3>2, <3>3 DEF Copies
    <3> QED  BY <2>2, <3>2, <3>4 DEF PaidInv, CopyOK
  <2> QED  BY <2>1, <2>3 DEF PaidInv
<1>4. ASSUME NEW j \in Jobs,
             \/ FetchPending(j) \/ UpdateStatus(j) \/ UpdateWaits(j)
             \/ UpdateRefused(j) \/ Ends(j)
      PROVE  PaidInv'
  <2>1. rows' = rows
    BY <1>4 DEF FetchPending, UpdateStatus, UpdateWaits, UpdateRefused, Ends, Commit,
                Rollback, tableVars
  <2>2. \A r \in rows : CopyOK(r)'
    BY <1>4, QuietCopies DEF PaidInv
  <2> QED  BY <2>1, <2>2 DEF PaidInv
<1>5. ASSUME NEW j \in Jobs, Loses(j) PROVE PaidInv'
  <2>1. rows' = rows
    BY <1>5 DEF Loses, Deadlock, TxFails, tableVars
  <2>2. \A r \in rows : CopyOK(r)'
    BY <1>5, LosesCopies DEF PaidInv
  <2> QED  BY <2>1, <2>2 DEF PaidInv
<1>6. ASSUME NEW j \in Jobs, NEW x, Sends(j, x) PROVE PaidInv'
  <2>1. rows' = rows
    BY <1>6, SendCounts DEF tableVars
  <2>2. \A r \in rows : CopyOK(r)'
    BY <1>6, SendCopies DEF PaidInv
  <2> QED  BY <2>1, <2>2 DEF PaidInv
<1> QED  BY <1>1, <1>2, <1>3, <1>4, <1>5, <1>6, StepKinds

(* Runs of the relay that overlap do not send a row twice: each further    *)
(* copy is paid for by a failure or a deadlock, although UPDATEs settle    *)
(* rows of other runs, and a lost transaction is noticed only at its end.  *)
THEOREM ResendsArePaid == Spec => []ResendOnlyAfterFailure
<1>1. Init => PaidInv
  BY DEF Init, PaidInv
<1>2. Typed /\ PaidInv => ResendOnlyAfterFailure
  <2> SUFFICES ASSUME Typed, PaidInv, NEW r \in rows
               PROVE  sends[r] <= 1 + failures + deadlocks
    BY DEF ResendOnlyAfterFailure
  <2>1. failures \in Nat /\ deadlocks \in Nat
    BY DEF Typed
  <2>2. sends[r] \in Nat /\ Cardinality(DoomedSends(r)) \in Nat
    BY CopiesTyped
  <2>3. sends[r] + Cardinality(DoomedSends(r)) <= 1 + (failures + deadlocks)
    BY DEF PaidInv, CopyOK, Copies, Budget
  <2> QED  BY <2>1, <2>2, <2>3
<1> QED  BY <1>1, <1>2, PaidStep, RunsCorrect, PTL DEF Spec
----------------------------------------------------------------------------
(* The bounds, and that a row is not pending and processed at once. *)
Bounded ==
  /\ txs <= MaxTxs /\ deadlocks <= MaxDeadlocks /\ failures <= MaxFailures
  /\ pending \cap processed = {}

LEMMA BoundedStep == Typed /\ RunsInv /\ Bounded /\ [Next]_vars => Bounded'
<1> SUFFICES ASSUME Typed, RunsInv, Bounded, [Next]_vars PROVE Bounded'
  OBVIOUS
<1>1. txs' <= MaxTxs /\ deadlocks' <= MaxDeadlocks /\ failures' <= MaxFailures
  <2>1. txs' = txs \/ (txs < MaxTxs /\ txs' = txs + 1)
    BY DEF Next, RelayStep, Failure, AddBatch, FetchPending, Publish, PublishFails,
           UpdateStatus, UpdateWaits, Deadlock, UpdateRefused, Commit, Rollback,
           TxFails, CleanOutbox, Crash, tableVars, vars
  <2>2. deadlocks' = deadlocks \/ (deadlocks < MaxDeadlocks /\ deadlocks' = deadlocks + 1)
    BY DEF Next, RelayStep, Failure, AddBatch, FetchPending, Publish, PublishFails,
           UpdateStatus, UpdateWaits, Deadlock, UpdateRefused, Commit, Rollback,
           TxFails, CleanOutbox, Crash, tableVars, vars
  <2>3. failures' = failures \/ (failures < MaxFailures /\ failures' = failures + 1)
    BY DEF Next, RelayStep, Failure, AddBatch, FetchPending, Publish, PublishFails,
           UpdateStatus, UpdateWaits, Deadlock, UpdateRefused, Commit, Rollback,
           TxFails, CleanOutbox, Crash, tableVars, vars, Fail
  <2> QED  BY <2>1, <2>2, <2>3, AgentOutboxAssumption DEF Bounded, Typed
<1>2. (pending \cap processed = {})'
  <2>1. CASE AddBatch
    <3>1. PICK new \in SUBSET Row : pending' = pending \cup new /\ new \cap rows = {}
      BY <2>1, AddBatchAdds
    <3>2. processed' = processed
      BY <2>1, AddBatchAdds
    <3> QED  BY <3>1, <3>2 DEF Bounded, Typed
  <2>2. CASE CleanOutbox
    BY <2>2 DEF CleanOutbox, Bounded
  <2>3. ASSUME NEW j \in Jobs, Ends(j) PROVE (pending \cap processed = {})'
    BY <2>3 DEF Ends, Commit, Rollback, Bounded, tableVars
  <2>4. CASE UNCHANGED tableVars
    BY <2>4 DEF Bounded, tableVars
  <2> QED  BY <2>1, <2>2, <2>3, <2>4, StepKinds
           DEF Crash, FetchPending, Sends, Publish, PublishFails, UpdateStatus, UpdateWaits,
               Loses, Deadlock, TxFails, UpdateRefused, vars
<1> QED  BY <1>1, <1>2 DEF Bounded

(* The type invariant: among others, no row is both pending and processed. *)
THEOREM TypeCorrect == Spec => []TypeOK
<1>1. Init => Bounded
  BY AgentOutboxAssumption DEF Init, Bounded
<1>2. Typed /\ Bounded => TypeOK
  BY AgentOutboxAssumption DEF Typed, Bounded, TypeOK
<1> QED  BY <1>1, <1>2, BoundedStep, RunsCorrect, PTL DEF Spec
=============================================================================
