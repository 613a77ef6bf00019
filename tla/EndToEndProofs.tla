--------------------------- MODULE EndToEndProofs ---------------------------
(***************************************************************************)
(* For every number of events, chats, relay runs and failures: each part   *)
(* of the way behaves as its own module says, so that what is proved about *)
(* the parts holds on the way; what a chat is told of one event is paid    *)
(* for by the failures and the deadlocks of the two outgoing relays; and   *)
(* an event that a chat is not told of is still on its way to it, but for  *)
(* the causes that Excused and Losing name.                                *)
(***************************************************************************)
EXTENDS EndToEnd, FiniteSetTheorems, WellFoundedInduction, TLAPS

(* The parts, with what is proved about them. *)
InboxP == INSTANCE AgentInboxProofs WITH
  Jobs <- AgentJobs, EmptyChats <- FALSE, Faults <- AgentFaults,
  MaxMessages <- MaxEvents,
  topic <- rawTopic, offset <- rawOffset, consumer <- rawConsumer, dlq <- rawDlq,
  seq <- inSeq, stored <- inStored, inbox <- inPending, done <- inDone,
  locked <- inLocked, txs <- inTxs, outbox <- grouped, failures <- inFailures

OutboxP == INSTANCE AgentOutboxProofs WITH
  Jobs <- AgentJobs, BatchSize <- OutBatchSize, MaxTxs <- MaxWindows,
  txs <- outTxs, pending <- outPending, processed <- outProcessed, run <- outRun,
  failures <- outFailures

BotP == INSTANCE BotDeliveryProofs WITH
  Shots <- Ids, Jobs <- BotJobs, BatchSize <- BotBatchSize, Faults <- BotFaults,
  MaxMessages <- MaxProcessed,
  seq <- botSeq, stored <- botStored, inbox <- botPending, done <- botDone,
  run <- botRun, deadlocks <- botDeadlocks, failures <- botFailures

----------------------------------------------------------------------------
(* Sums over finite sets, by induction over their size. *)

(* A set of numbers with 0 that is closed under successor holds them all. *)
LEMMA Induct ==
  ASSUME NEW T, 0 \in T, \A n \in T \cap Nat : n + 1 \in T
  PROVE  Nat \subseteq T
<1> DEFINE Out == Nat \ T
<1>1. CASE Out # {}
  <2>1. \E x \in Out : \A y \in Out : ~(<<y, x>> \in OpToRel(<, Nat))
    BY <1>1, NatLessThanWellFounded, WFMin
  <2>2. PICK x \in Out : \A y \in Out : ~(y < x)
    BY <2>1 DEF OpToRel
  <2>3. x - 1 \in Nat /\ x - 1 < x
    BY <2>2
  <2>4. x - 1 \in T
    BY <2>2, <2>3
  <2>5. (x - 1) + 1 = x
    BY <2>2
  <2>6. x \in T
    BY <2>3, <2>4, <2>5
  <2> QED  BY <2>6
<1> QED  BY <1>1

(* The equation that a sum's iterator satisfies. *)
Pick(s) == CHOOSE x \in s : TRUE
IsIter(g, f, S) ==
  g = [s \in SUBSET S |-> IF s = {} THEN 0 ELSE f[Pick(s)] + g[s \ {Pick(s)}]]
Iter(f, S) == CHOOSE g : IsIter(g, f, S)

(* The sum over a set is its iterator at the set. *)
LEMMA SumIs == ASSUME NEW f, NEW S PROVE SumFunctionOnSet(f, S) = Iter(f, S)[S]
  BY DEF SumFunctionOnSet, FoldFunctionOnSet, MapThenFoldSet, Iter, IsIter, Pick

(* A finite set that is not empty has one element more than the rest. *)
LEMMA Picked ==
  ASSUME NEW S, IsFiniteSet(S), S # {}
  PROVE  /\ Pick(S) \in S
         /\ IsFiniteSet(S \ {Pick(S)})
         /\ Cardinality(S) \in Nat \ {0}
         /\ Cardinality(S \ {Pick(S)}) = Cardinality(S) - 1
<1>1. Pick(S) \in S  BY DEF Pick
<1> HIDE DEF Pick
<1> QED  BY <1>1, FS_RemoveElement, FS_CardinalityType, FS_EmptySet

(* There is an iterator: the equation is solved for the subsets of one     *)
(* size after the other.                                                   *)
LEMMA IterExists == ASSUME NEW f, NEW S, IsFiniteSet(S) PROVE \E g : IsIter(g, f, S)
<1> DEFINE Eq(g, s) == g[s] = IF s = {} THEN 0 ELSE f[Pick(s)] + g[s \ {Pick(s)}]
           Upto(n) == {s \in SUBSET S : Cardinality(s) <= n}
           T == {n \in Nat : \E g : /\ DOMAIN g = SUBSET S
                                /\ g = [s \in SUBSET S |-> g[s]]
                                /\ \A s \in Upto(n) : Eq(g, s)}
<1>0. \A s \in SUBSET S : IsFiniteSet(s) /\ Cardinality(s) \in Nat
  BY FS_Subset, FS_CardinalityType
<1>1. 0 \in T
  <2> DEFINE g == [s \in SUBSET S |-> 0]
  <2>1. \A s \in Upto(0) : s = {}
    BY <1>0, FS_EmptySet
  <2>2. \A s \in Upto(0) : Eq(g, s)
    BY <2>1
  <2> HIDE DEF Eq
  <2> QED  BY <2>2
<1>2. ASSUME NEW n \in T PROVE n + 1 \in T
  <2>1. PICK g : DOMAIN g = SUBSET S /\ \A s \in Upto(n) : Eq(g, s)
    OBVIOUS
  <2> DEFINE h == [s \in SUBSET S |-> IF s \in Upto(n) THEN g[s]
                     ELSE IF s = {} THEN 0 ELSE f[Pick(s)] + g[s \ {Pick(s)}]]
  <2>2. ASSUME NEW s \in Upto(n + 1), s # {} PROVE s \ {Pick(s)} \in Upto(n)
    BY <1>0, <2>2, Picked
  <2>3. ASSUME NEW s \in Upto(n + 1) PROVE Eq(h, s)
    <3>1. CASE s = {}
      BY <2>1, <3>1
    <3>2. CASE s # {}
      <4>1. h[s \ {Pick(s)}] = g[s \ {Pick(s)}]
        BY <2>2, <3>2
      <4>2. h[s] = f[Pick(s)] + g[s \ {Pick(s)}]
        BY <2>1, <3>2
      <4> QED  BY <3>2, <4>1, <4>2
    <3> QED  BY <3>1, <3>2
  <2>4. DOMAIN h = SUBSET S /\ h = [s \in SUBSET S |-> h[s]]
    OBVIOUS
  <2>5. n + 1 \in Nat OBVIOUS
  <2> HIDE DEF h, Eq, Upto
  <2>6. \E k : /\ DOMAIN k = SUBSET S
               /\ k = [s \in SUBSET S |-> k[s]]
               /\ \A s \in Upto(n + 1) : Eq(k, s)
    BY <2>3, <2>4
  <2> QED  BY <2>5, <2>6
<1>3. Cardinality(S) \in T
  <2> HIDE DEF T
  <2> QED  BY <1>0, <1>1, <1>2, Induct
<1>4. PICK g : g = [s \in SUBSET S |-> g[s]] /\ \A s \in Upto(Cardinality(S)) : Eq(g, s)
  BY <1>3
<1>5. \A s \in SUBSET S : Cardinality(s) <= Cardinality(S)
  BY FS_Subset
<1>6. \A s \in SUBSET S : Eq(g, s)
  BY <1>4, <1>5
<1>7. IsIter(g, f, S)
  BY <1>4, <1>6 DEF IsIter
<1> QED  BY <1>7

(* So that the chosen iterator is one. *)
LEMMA IterIs == ASSUME NEW f, NEW S, IsFiniteSet(S) PROVE IsIter(Iter(f, S), f, S)
  BY IterExists DEF Iter

(* Its equation, at one subset. *)
LEMMA IterAt ==
  ASSUME NEW f, NEW S, IsFiniteSet(S), NEW s \in SUBSET S
  PROVE  Iter(f, S)[s] = IF s = {} THEN 0 ELSE f[Pick(s)] + Iter(f, S)[s \ {Pick(s)}]
<1>1. IsIter(Iter(f, S), f, S)  BY IterIs
<1> DEFINE g == Iter(f, S)
<1> HIDE DEF g
<1>2. g = [t \in SUBSET S |-> IF t = {} THEN 0 ELSE f[Pick(t)] + g[t \ {Pick(t)}]]
  BY <1>1 DEF IsIter, g
<1>3. g[s] = IF s = {} THEN 0 ELSE f[Pick(s)] + g[s \ {Pick(s)}]
  BY <1>2
<1> QED  BY <1>3 DEF g

(* The iterator of a set is that of its subsets. *)
LEMMA IterSame ==
  ASSUME NEW f, NEW S, IsFiniteSet(S), NEW t \in SUBSET S
  PROVE  Iter(f, S)[t] = Iter(f, t)[t]
<1> DEFINE T == {n \in Nat : \A s \in SUBSET t :
                    Cardinality(s) = n => Iter(f, S)[s] = Iter(f, t)[s]}
<1>0. /\ IsFiniteSet(t)
      /\ \A s \in SUBSET t : IsFiniteSet(s) /\ Cardinality(s) \in Nat /\ s \in SUBSET S
  BY FS_Subset, FS_CardinalityType
<1>1. 0 \in T
  <2>1. ASSUME NEW s \in SUBSET t, Cardinality(s) = 0
        PROVE  Iter(f, S)[s] = Iter(f, t)[s]
    <3>1. s = {} BY <1>0, <2>1, FS_EmptySet
    <3> QED  BY <1>0, <3>1, IterAt
  <2> QED BY <2>1
<1>2. ASSUME NEW n \in T PROVE n + 1 \in T
  <2>1. ASSUME NEW s \in SUBSET t, Cardinality(s) = n + 1
        PROVE  Iter(f, S)[s] = Iter(f, t)[s]
    <3>1. s # {} BY <1>0, <2>1, FS_EmptySet
    <3>2. s \ {Pick(s)} \in SUBSET t /\ Cardinality(s \ {Pick(s)}) = n
      BY <1>0, <2>1, <3>1, Picked
    <3>3. Iter(f, S)[s \ {Pick(s)}] = Iter(f, t)[s \ {Pick(s)}]
      BY <3>2
    <3>4. Iter(f, S)[s] = f[Pick(s)] + Iter(f, S)[s \ {Pick(s)}]
      <4>1. s \in SUBSET S  BY <1>0
      <4> HIDE DEF T
      <4> QED  BY <3>1, <4>1, IterAt
    <3>5. Iter(f, t)[s] = f[Pick(s)] + Iter(f, t)[s \ {Pick(s)}]
      BY <1>0, <3>1, IterAt
    <3> QED  BY <3>3, <3>4, <3>5
  <2> QED BY <2>1
<1>3. Cardinality(t) \in T
  <2> HIDE DEF T
  <2> QED  BY <1>0, <1>1, <1>2, Induct
<1> QED  BY <1>3

(* The sum over the empty set. *)
LEMMA SumEmpty == ASSUME NEW f PROVE SumFunctionOnSet(f, {}) = 0
  BY SumIs, IterAt, FS_EmptySet

(* The sum over a set is that over the rest and the picked element. *)
LEMMA SumPick ==
  ASSUME NEW f, NEW S, IsFiniteSet(S), S # {}
  PROVE  SumFunctionOnSet(f, S) = f[Pick(S)] + SumFunctionOnSet(f, S \ {Pick(S)})
<1> DEFINE r == S \ {Pick(S)}
<1>1. r \in SUBSET S OBVIOUS
<1>2. Iter(f, S)[r] = Iter(f, r)[r]  BY <1>1, IterSame
<1>3. Iter(f, S)[S] = f[Pick(S)] + Iter(f, S)[r] BY IterAt
<1> QED  BY <1>2, <1>3, SumIs

(* Induction over the size of a finite set. *)
LEMMA SumNat ==
  ASSUME NEW S, IsFiniteSet(S), NEW f, \A x \in S : f[x] \in Nat
  PROVE  SumFunctionOnSet(f, S) \in Nat
<1> DEFINE Sum(s) == SumFunctionOnSet(f, s)
           T == {n \in Nat : \A s \in SUBSET S : Cardinality(s) = n => Sum(s) \in Nat}
<1>0. \A s \in SUBSET S : IsFiniteSet(s) /\ Cardinality(s) \in Nat
  BY FS_Subset, FS_CardinalityType
<1>1. 0 \in T
  BY <1>0, SumEmpty, FS_EmptySet
<1>2. ASSUME NEW n \in T PROVE n + 1 \in T
  <2>1. ASSUME NEW s \in SUBSET S, Cardinality(s) = n + 1 PROVE Sum(s) \in Nat
    <3>1. s # {}  BY <1>0, <2>1, FS_EmptySet
    <3>2. Pick(s) \in S /\ s \ {Pick(s)} \in SUBSET S /\ Cardinality(s \ {Pick(s)}) = n
      BY <1>0, <2>1, <3>1, Picked
    <3>3. Sum(s) = f[Pick(s)] + Sum(s \ {Pick(s)})
      BY <1>0, <3>1, SumPick
    <3> QED  BY <3>2, <3>3
  <2> QED  BY <2>1
<1>3. Cardinality(S) \in T
  <2> HIDE DEF T
  <2> QED  BY <1>0, <1>1, <1>2, Induct
<1> QED  BY <1>3

(* Functions that agree on a set have the same sum over it. *)
LEMMA SumSame ==
  ASSUME NEW S, IsFiniteSet(S), NEW f, NEW g, \A x \in S : f[x] = g[x]
  PROVE  SumFunctionOnSet(f, S) = SumFunctionOnSet(g, S)
<1> DEFINE Same(s) == SumFunctionOnSet(f, s) = SumFunctionOnSet(g, s)
           T == {n \in Nat : \A s \in SUBSET S : Cardinality(s) = n => Same(s)}
<1>0. \A s \in SUBSET S : IsFiniteSet(s) /\ Cardinality(s) \in Nat
  BY FS_Subset, FS_CardinalityType
<1>1. 0 \in T
  BY <1>0, SumEmpty, FS_EmptySet
<1>2. ASSUME NEW n \in T PROVE n + 1 \in T
  <2>1. ASSUME NEW s \in SUBSET S, Cardinality(s) = n + 1 PROVE Same(s)
    <3>1. s # {}  BY <1>0, <2>1, FS_EmptySet
    <3>2. Pick(s) \in S /\ s \ {Pick(s)} \in SUBSET S /\ Cardinality(s \ {Pick(s)}) = n
      BY <1>0, <2>1, <3>1, Picked
    <3>3. SumFunctionOnSet(f, s) = f[Pick(s)] + SumFunctionOnSet(f, s \ {Pick(s)})
      BY <1>0, <3>1, SumPick
    <3>4. SumFunctionOnSet(g, s) = g[Pick(s)] + SumFunctionOnSet(g, s \ {Pick(s)})
      BY <1>0, <3>1, SumPick
    <3> QED  BY <3>2, <3>3, <3>4
  <2> QED  BY <2>1
<1>3. Cardinality(S) \in T
  <2> HIDE DEF T
  <2> QED  BY <1>0, <1>1, <1>2, Induct
<1> QED  BY <1>3

(* The order does not matter. *)
LEMMA SumRemove ==
  ASSUME NEW S, IsFiniteSet(S), NEW f, \A x \in S : f[x] \in Nat, NEW e \in S
  PROVE  SumFunctionOnSet(f, S) = f[e] + SumFunctionOnSet(f, S \ {e})
<1> DEFINE Sum(s) == SumFunctionOnSet(f, s)
           T == {n \in Nat : \A s \in SUBSET S : Cardinality(s) = n =>
                               \A x \in s : Sum(s) = f[x] + Sum(s \ {x})}
<1>0. \A s \in SUBSET S : IsFiniteSet(s) /\ Cardinality(s) \in Nat
  BY FS_Subset, FS_CardinalityType
<1>1. 0 \in T
  BY <1>0, FS_EmptySet
<1>2. ASSUME NEW n \in T PROVE n + 1 \in T
  <2>1. ASSUME NEW s \in SUBSET S, Cardinality(s) = n + 1, NEW x \in s
        PROVE  Sum(s) = f[x] + Sum(s \ {x})
    <3> DEFINE y == Pick(s)
    <3>1. s # {}  BY <1>0, <2>1, FS_EmptySet
    <3>2. y \in s /\ s \ {y} \in SUBSET S /\ Cardinality(s \ {y}) = n
      BY <1>0, <2>1, <3>1, Picked
    <3>3. Sum(s) = f[y] + Sum(s \ {y})
      BY <1>0, <3>1, SumPick
    <3> HIDE DEF y, Sum
    <3>4. CASE x = y
      BY <3>3, <3>4
    <3>5. CASE x # y
      <4>1. Sum(s \ {y}) = f[x] + Sum((s \ {y}) \ {x})
        BY <3>2, <3>5
      <4>2. s \ {x} \in SUBSET S /\ Cardinality(s \ {x}) = n
        <5>1. IsFiniteSet(s) /\ n \in Nat
          BY <1>0
        <5> HIDE DEF T
        <5>2. Cardinality(s \ {x}) = Cardinality(s) - 1
          BY <5>1, FS_RemoveElement
        <5> QED  BY <2>1, <5>1, <5>2
      <4>3. Sum(s \ {x}) = f[y] + Sum((s \ {x}) \ {y})
        BY <3>2, <3>5, <4>2
      <4>4. Sum((s \ {x}) \ {y}) = Sum((s \ {y}) \ {x})
        <5>1. (s \ {x}) \ {y} = (s \ {y}) \ {x}
          OBVIOUS
        <5> QED  BY <5>1, Zenon
      <4>5. Sum((s \ {y}) \ {x}) \in Nat /\ f[x] \in Nat /\ f[y] \in Nat
        <5>1. (s \ {y}) \ {x} \in SUBSET S /\ x \in S /\ y \in S
          BY <3>2
        <5>2. IsFiniteSet((s \ {y}) \ {x})
          BY <1>0, <5>1
        <5> QED  BY <5>1, <5>2, SumNat DEF Sum
      <4> HIDE DEF T
      <4> QED  BY <3>3, <4>1, <4>3, <4>4, <4>5
    <3> QED  BY <3>4, <3>5
  <2> QED  BY <2>1
<1>3. Cardinality(S) \in T
  <2> HIDE DEF T
  <2> QED  BY <1>0, <1>1, <1>2, Induct
<1> QED  BY <1>3

(* As many numbers as there are elements, each at most b. *)
LEMMA SumBound ==
  ASSUME NEW S, IsFiniteSet(S), NEW f, NEW b \in Nat,
         \A x \in S : f[x] \in Nat /\ f[x] <= b
  PROVE  SumFunctionOnSet(f, S) <= Cardinality(S) * b
<1> DEFINE Sum(s) == SumFunctionOnSet(f, s)
           T == {n \in Nat : \A s \in SUBSET S : Cardinality(s) = n => Sum(s) <= n * b}
<1>0. \A s \in SUBSET S : IsFiniteSet(s) /\ Cardinality(s) \in Nat /\ Sum(s) \in Nat
  BY FS_Subset, FS_CardinalityType, SumNat
<1>1. 0 \in T
  BY <1>0, SumEmpty, FS_EmptySet
<1>2. ASSUME NEW n \in T PROVE n + 1 \in T
  <2>1. ASSUME NEW s \in SUBSET S, Cardinality(s) = n + 1 PROVE Sum(s) <= (n + 1) * b
    <3>1. s # {}  BY <1>0, <2>1, FS_EmptySet
    <3>2. Pick(s) \in S /\ s \ {Pick(s)} \in SUBSET S /\ Cardinality(s \ {Pick(s)}) = n
      BY <1>0, <2>1, <3>1, Picked
    <3>3. Sum(s) = f[Pick(s)] + Sum(s \ {Pick(s)})
      BY <1>0, <3>1, SumPick
    <3>4. Sum(s \ {Pick(s)}) <= n * b /\ Sum(s \ {Pick(s)}) \in Nat
      BY <1>0, <3>2
    <3>5. f[Pick(s)] \in Nat /\ f[Pick(s)] <= b
      BY <3>2
    <3> HIDE DEF Sum
    <3>6. n \in Nat OBVIOUS
    <3>7. (n + 1) * b = n * b + b /\ n * b \in Nat  BY <3>6
    <3> QED  BY <3>3, <3>4, <3>5, <3>7
  <2> QED  BY <2>1
<1>3. Cardinality(S) \in T
  <2> HIDE DEF T
  <2> QED  BY <1>0, <1>1, <1>2, Induct
<1> QED  BY <1>3

----------------------------------------------------------------------------
(* The names of the components in their own modules and in those of their  *)
(* proofs mean the same.                                                   *)

(* What the three modules assume, for the instances with the proofs. *)
LEMMA Assumptions ==
  /\ InboxP!AgentInboxAssumption
  /\ OutboxP!AgentOutboxAssumption
  /\ BotP!BotDeliveryAssumption
<1>1. InboxP!AgentInboxAssumption
  BY EndToEndAssumption
  DEF Inbox!AgentInboxAssumption, InboxP!AgentInboxAssumption, Inbox!FaultKinds,
     InboxP!FaultKinds
<1>2. OutboxP!AgentOutboxAssumption
  BY EndToEndAssumption
  DEF Outbox!AgentOutboxAssumption, OutboxP!AgentOutboxAssumption, Outbox!IsFiniteSet,
     OutboxP!IsFiniteSet
<1>3. BotP!BotDeliveryAssumption
  BY EndToEndAssumption
  DEF Bot!BotDeliveryAssumption, BotP!BotDeliveryAssumption, Bot!FaultKinds,
     BotP!FaultKinds, Bot!IsFiniteSet, BotP!IsFiniteSet
<1> QED  BY <1>1, <1>2, <1>3

(* The sums of the instances are those of this module. *)
LEMMA Sums ==
  /\ Inbox!Failures = SumFunction(inFailures)
  /\ InboxP!Failures = SumFunction(inFailures)
  /\ Bot!Failures = SumFunction(botFailures)
  /\ BotP!Failures = SumFunction(botFailures)
<1> USE DEF SumFunction, SumFunctionOnSet, FoldFunctionOnSet, MapThenFoldSet
<1>1. /\ Inbox!Failures = SumFunction(inFailures)
      /\ InboxP!Failures = SumFunction(inFailures)
  BY DEF Inbox!Failures, InboxP!Failures, Inbox!SumFunction, InboxP!SumFunction,
     Inbox!SumFunctionOnSet, InboxP!SumFunctionOnSet, Inbox!FoldFunctionOnSet,
     InboxP!FoldFunctionOnSet, Inbox!MapThenFoldSet, InboxP!MapThenFoldSet
<1>2. /\ Bot!Failures = SumFunction(botFailures)
      /\ BotP!Failures = SumFunction(botFailures)
  BY DEF Bot!Failures, BotP!Failures, Bot!SumFunction, BotP!SumFunction,
     Bot!SumFunctionOnSet, BotP!SumFunctionOnSet, Bot!FoldFunctionOnSet,
     BotP!FoldFunctionOnSet, Bot!MapThenFoldSet, BotP!MapThenFoldSet
<1> QED  BY <1>1, <1>2

----------------------------------------------------------------------------
(* Every step on the way is a step of each part, or one beside it. *)

(* The steps of the inbox; the cleaner is not among them. *)
LEMMA InboxMoves ==
  ASSUME [Next]_vars
  PROVE  \/ \E id \in Ids, chats \in SUBSET Chats : InboxP!RawUpdate(id, chats)
         \/ InboxP!ConsumerStep
         \/ \E j \in AgentJobs : InboxP!FetchPending(j)
         \/ \E j \in AgentJobs : RelayInbox(j) /\ InboxP!RelayInbox(j)
         \/ InboxP!Failure
         \/ UNCHANGED InboxP!vars
<1> USE Sums DEF Inbox!consumerVars, InboxP!consumerVars, Inbox!inboxVars,
   InboxP!inboxVars, Inbox!relayVars, InboxP!relayVars, Inbox!vars, InboxP!vars,
   Inbox!Fail, InboxP!Fail
<1>1. ASSUME UNCHANGED inboxVars PROVE UNCHANGED InboxP!vars
  BY <1>1 DEF inboxVars
<1>2. CASE Event
  <2>1. PICK id \in Ids, chats \in SUBSET Chats : Inbox!RawUpdate(id, chats)
    BY <1>2 DEF Event
  <2>2. InboxP!RawUpdate(id, chats)
    BY <2>1 DEF Inbox!RawUpdate, InboxP!RawUpdate
  <2> QED  BY <2>2
<1>3. ASSUME AgentConsumer PROVE InboxP!ConsumerStep
  BY <1>3
  DEF AgentConsumer, Inbox!ConsumerStep, InboxP!ConsumerStep, Inbox!AddRecord,
      InboxP!AddRecord, Inbox!AddDuplicate, InboxP!AddDuplicate, Inbox!InvalidMessage,
      InboxP!InvalidMessage, Inbox!CommitMessages, InboxP!CommitMessages,
      Inbox!DeadLetter, InboxP!DeadLetter, Inbox!CanFetch, InboxP!CanFetch,
      Inbox!Valid, InboxP!Valid, Inbox!Current, InboxP!Current, Inbox!IsDuplicate,
      InboxP!IsDuplicate, Inbox!Insert, InboxP!Insert
<1>4. ASSUME NEW j \in AgentJobs, FetchWindow(j) PROVE InboxP!FetchPending(j)
  BY <1>4
  DEF FetchWindow, Inbox!FetchPending, InboxP!FetchPending, Inbox!IsWindow,
      InboxP!IsWindow, Inbox!LockedByOthers, InboxP!LockedByOthers
<1>5. ASSUME NEW j \in AgentJobs, RelayInbox(j) PROVE InboxP!RelayInbox(j)
  BY <1>5
  DEF RelayInbox, Inbox!RelayInbox, InboxP!RelayInbox, Inbox!Orders, InboxP!Orders,
      Inbox!Passed, InboxP!Passed, Inbox!Deliveries, InboxP!Deliveries, Inbox!Singles,
      InboxP!Singles, Inbox!Groups, InboxP!Groups, Inbox!For, InboxP!For,
      Inbox!MarkProcessed, InboxP!MarkProcessed, Inbox!Mark, InboxP!Mark,
      Inbox!Cardinality, InboxP!Cardinality
<1>6. ASSUME InboxFails PROVE InboxP!Failure
  <2>1. Inbox!AddRecordNetError => InboxP!AddRecordNetError
    BY DEF Inbox!AddRecordNetError, InboxP!AddRecordNetError, Inbox!CanFetch,
       InboxP!CanFetch, Inbox!Valid, InboxP!Valid, Inbox!Current, InboxP!Current,
       Inbox!IsDuplicate, InboxP!IsDuplicate
  <2>2. Inbox!AddRecordPgError => InboxP!AddRecordPgError
    BY DEF Inbox!AddRecordPgError, InboxP!AddRecordPgError, Inbox!DeadLetter,
     InboxP!DeadLetter, Inbox!CanFetch, InboxP!CanFetch, Inbox!Valid, InboxP!Valid,
     Inbox!Current, InboxP!Current
  <2>3. Inbox!KafkaFails => InboxP!KafkaFails
    BY DEF Inbox!KafkaFails, InboxP!KafkaFails
  <2>4. \A j \in AgentJobs : Inbox!RelayInboxFails(j) => InboxP!RelayInboxFails(j)
    BY DEF Inbox!RelayInboxFails, InboxP!RelayInboxFails
  <2> QED  BY <1>6, <2>1, <2>2, <2>3, <2>4 DEF InboxFails, InboxP!Failure
<1>7. ASSUME AgentRestart PROVE InboxP!Failure
  BY <1>7 DEF AgentRestart, InboxP!Failure, Inbox!Restart, InboxP!Restart
<1>8. ASSUME NEW j \in AgentJobs, RelayOutbox(j) \/ OutboxFails(j)
      PROVE  UNCHANGED inboxVars
  BY <1>8
  DEF RelayOutbox, OutboxFails, OutboxInner, Publish, PublishFails, OutboxBeside
<1>9. ASSUME \/ BotConsumer \/ BotFails \/ \E j \in BotJobs : BotRelay(j)
             \/ UNCHANGED vars
      PROVE  UNCHANGED inboxVars
  BY <1>9 DEF BotConsumer, BotFails, BotRelay, BotBeside, vars
<1> HIDE Sums
<1> QED  BY <1>1, <1>2, <1>3, <1>4, <1>5, <1>6, <1>7, <1>8, <1>9 DEF Next

(* A step of the way is a step of the agent's inbox or leaves it alone. *)
LEMMA InboxSteps == [Next]_vars => [InboxP!Next]_(InboxP!vars)
  BY InboxMoves DEF InboxP!Next

(* The steps of the agent's outbox: a send writes a message of the bot. *)
LEMMA OutboxMoves ==
  ASSUME [Next]_vars
  PROVE  \/ \E j \in AgentJobs : RelayInbox(j) /\ OutboxP!AddBatch
         \/ \E j \in AgentJobs : \E r \in outRun[j].batch :
              OutboxP!Publish(j, r) /\ Write(r)
         \/ \E j \in AgentJobs : \E r \in outRun[j].batch :
              OutboxP!PublishFails(j, r) /\ PublishFails(j, r)
         \/ /\ [OutboxP!Next]_(OutboxP!vars)
            /\ UNCHANGED <<rows, sends, carried>>
<1> USE DEF Outbox!tableVars, OutboxP!tableVars, Outbox!vars, OutboxP!vars,
   Outbox!Fail, OutboxP!Fail, Outbox!Idle, OutboxP!Idle
<1>1. ASSUME UNCHANGED <<outboxVars, carried>>
      PROVE  UNCHANGED OutboxP!vars /\ UNCHANGED <<rows, sends, carried>>
  BY <1>1 DEF outboxVars
<1>2. ASSUME NEW j \in AgentJobs, RelayInbox(j)
      PROVE  OutboxP!AddBatch \/ UNCHANGED <<outboxVars, carried>>
  BY <1>2
  DEF RelayInbox, Outbox!AddBatch, OutboxP!AddBatch, Outbox!WindowRows,
      OutboxP!WindowRows
<1>3. ASSUME NEW j \in AgentJobs, OutboxInner(j)
      PROVE  OutboxP!RelayStep(j) /\ UNCHANGED <<rows, sends, carried>>
  BY <1>3
  DEF OutboxInner, OutboxBeside, OutboxP!RelayStep, Outbox!FetchPending,
      OutboxP!FetchPending, Outbox!LockedByOthers, OutboxP!LockedByOthers,
      Outbox!Oldest, OutboxP!Oldest, Outbox!UpdateStatus, OutboxP!UpdateStatus,
      Outbox!UpdateWaits, OutboxP!UpdateWaits, Outbox!Deadlock, OutboxP!Deadlock,
      Outbox!UpdateRefused, OutboxP!UpdateRefused, Outbox!Commit, OutboxP!Commit,
      Outbox!Rollback, OutboxP!Rollback, Outbox!Updating, OutboxP!Updating,
      Outbox!Targets, OutboxP!Targets, Outbox!MarkedBy, OutboxP!MarkedBy,
      Outbox!WaitsFor, OutboxP!WaitsFor, Outbox!Cardinality, OutboxP!Cardinality
<1>4. ASSUME NEW j \in AgentJobs, NEW r \in outRun[j].batch, Publish(j, r)
      PROVE  OutboxP!Publish(j, r) /\ Write(r)
  BY <1>4
  DEF Publish, Outbox!Publish, OutboxP!Publish, Outbox!IsNext, OutboxP!IsNext,
      Outbox!SameId, OutboxP!SameId
<1>5. ASSUME NEW j \in AgentJobs, NEW r \in outRun[j].batch, PublishFails(j, r)
      PROVE  OutboxP!PublishFails(j, r)
  BY <1>5
  DEF PublishFails, Outbox!PublishFails, OutboxP!PublishFails, Outbox!IsNext,
      OutboxP!IsNext, Outbox!SameId, OutboxP!SameId
<1>6. ASSUME NEW j \in AgentJobs, Outbox!TxFails(j), OutboxBeside
      PROVE  OutboxP!Failure /\ UNCHANGED <<rows, sends, carried>>
  BY <1>6 DEF OutboxBeside, OutboxP!Failure, Outbox!TxFails, OutboxP!TxFails
<1>7. ASSUME AgentRestart
      PROVE  \/ OutboxP!Failure /\ UNCHANGED <<rows, sends, carried>>
             \/ UNCHANGED <<outboxVars, carried>>
  BY <1>7 DEF AgentRestart, OutboxP!Failure, Outbox!Crash, OutboxP!Crash
<1>8. ASSUME \/ Event \/ AgentConsumer \/ InboxFails
             \/ \E j \in AgentJobs : FetchWindow(j)
             \/ BotConsumer \/ BotFails \/ \E j \in BotJobs : BotRelay(j)
             \/ UNCHANGED vars
      PROVE  UNCHANGED <<outboxVars, carried>>
  BY <1>8 DEF Event, AgentConsumer, InboxFails, FetchWindow, InboxBeside,
              BotConsumer, BotFails, BotRelay, BotBeside, vars
<1>9. ASSUME NEW j \in AgentJobs, RelayOutbox(j) \/ OutboxFails(j)
      PROVE  \/ OutboxInner(j)
             \/ \E r \in outRun[j].batch : Publish(j, r) \/ PublishFails(j, r)
             \/ Outbox!TxFails(j) /\ OutboxBeside
  BY <1>9 DEF RelayOutbox, OutboxFails
<1>10. ASSUME NEW j \in AgentJobs PROVE OutboxP!RelayStep(j) => OutboxP!Next
  BY DEF OutboxP!Next
<1>11. OutboxP!Failure => OutboxP!Next
  BY DEF OutboxP!Next
<1> QED
  BY <1>1, <1>2, <1>3, <1>4, <1>5, <1>6, <1>7, <1>8, <1>9, <1>10, <1>11 DEF Next

(* A step of the way is a step of the agent's outbox or leaves it alone. *)
LEMMA OutboxSteps == [Next]_vars => [OutboxP!Next]_(OutboxP!vars)
  BY OutboxMoves DEF OutboxP!Next, OutboxP!RelayStep, OutboxP!Failure

(* A row that is sent is one of the table. *)
LEMMA SentRow ==
  ASSUME OutboxP!Typed, OutboxP!RunsInv, NEW j \in AgentJobs, NEW r \in outRun[j].batch
  PROVE  r \in rows /\ r.id \in Ids /\ r.chats \in SUBSET Chats
<1>1. r \in rows
  BY DEF OutboxP!RunsInv, OutboxP!RunOK
<1>2. r \in OutboxP!Row
  BY <1>1 DEF OutboxP!Typed
<1> QED  BY <1>1, <1>2 DEF OutboxP!Row

(* The steps of the bot: it is sent rows with chats, each under a new key. *)
LEMMA BotMoves ==
  ASSUME [Next]_vars
  PROVE  \/ \E j \in AgentJobs : \E r \in outRun[j].batch :
              Write(r) /\ BotP!ProcessedUpdate(r.id, r.chats)
         \/ BotP!ConsumerStep
         \/ \E j \in BotJobs : BotP!RelayStep(j)
         \/ BotP!Failure
         \/ UNCHANGED BotP!vars
<1> USE Sums DEF Bot!consumerVars, BotP!consumerVars, Bot!inboxVars, BotP!inboxVars,
   Bot!relayVars, BotP!relayVars, Bot!vars, BotP!vars, Bot!Fail, BotP!Fail, Bot!Idle,
   BotP!Idle
<1>1. ASSUME UNCHANGED botVars PROVE UNCHANGED BotP!vars
  BY <1>1 DEF botVars
<1>2. ASSUME NEW r, Write(r) PROVE BotP!ProcessedUpdate(r.id, r.chats)
  BY <1>2
  DEF Write, Bot!ProcessedUpdate, BotP!ProcessedUpdate, Bot!Write, BotP!Write,
      Bot!NewKey, BotP!NewKey
<1>3. ASSUME NEW j \in AgentJobs, RelayOutbox(j) \/ OutboxFails(j)
      PROVE  (\E r \in outRun[j].batch : Write(r)) \/ UNCHANGED botVars
  BY <1>3
  DEF RelayOutbox, OutboxFails, OutboxInner, Publish, PublishFails, OutboxBeside
<1>4. ASSUME BotConsumer PROVE BotP!ConsumerStep
  BY <1>4
  DEF BotConsumer, Bot!ConsumerStep, BotP!ConsumerStep, Bot!AddRecord, BotP!AddRecord,
      Bot!AddDuplicate, BotP!AddDuplicate, Bot!CommitMessages, BotP!CommitMessages,
      Bot!CanFetch, BotP!CanFetch, Bot!Current, BotP!Current, Bot!IsDuplicate,
      BotP!IsDuplicate
<1>5. ASSUME NEW j \in BotJobs, BotRelay(j) PROVE BotP!RelayStep(j)
  BY <1>5
  DEF BotRelay, Bot!RelayStep, BotP!RelayStep, Bot!FetchPending, BotP!FetchPending,
      Bot!Free, BotP!Free, Bot!Oldest, BotP!Oldest, Bot!LockedByOthers,
      BotP!LockedByOthers, Bot!SendMessage, BotP!SendMessage, Bot!IsNext, BotP!IsNext,
      Bot!StartMark, BotP!StartMark, Bot!SameShot, BotP!SameShot, Bot!MarkProcessed,
      BotP!MarkProcessed, Bot!MarkWaits, BotP!MarkWaits, Bot!Targets, BotP!Targets,
      Bot!Deadlock, BotP!Deadlock, Bot!WaitsFor, BotP!WaitsFor, Bot!Rollback,
      BotP!Rollback, Bot!Cardinality, BotP!Cardinality
<1>6. ASSUME BotFails PROVE BotP!Failure
  BY <1>6
  DEF BotFails, Bot!Failure, BotP!Failure, Bot!AddRecordNetError,
      BotP!AddRecordNetError, Bot!DeadLetter, BotP!DeadLetter, Bot!KafkaFails,
      BotP!KafkaFails, Bot!TxFails, BotP!TxFails, Bot!SendFails, BotP!SendFails,
      Bot!IsNext, BotP!IsNext, Bot!Restart, BotP!Restart, Bot!CanFetch, BotP!CanFetch,
      Bot!Current, BotP!Current, Bot!IsDuplicate, BotP!IsDuplicate
<1>7. ASSUME \/ Event \/ AgentConsumer \/ InboxFails \/ AgentRestart
             \/ \E j \in AgentJobs : FetchWindow(j) \/ RelayInbox(j)
             \/ UNCHANGED vars
      PROVE  UNCHANGED botVars
  BY <1>7 DEF Event, AgentConsumer, InboxFails, AgentRestart, FetchWindow, RelayInbox,
              InboxBeside, vars
<1> HIDE Sums
<1> QED  BY <1>1, <1>2, <1>3, <1>4, <1>5, <1>6, <1>7 DEF Next

(* A step of the way is a step of the bot or leaves it alone: the rows     *)
(* that are sent are messages that the bot is given.                       *)
LEMMA BotSteps ==
  /\ OutboxP!Typed /\ OutboxP!RunsInv /\ (\A r \in rows : r.chats # {})
  /\ [Next]_vars
  => [BotP!Next]_(BotP!vars)
<1> SUFFICES ASSUME OutboxP!Typed, OutboxP!RunsInv, \A r \in rows : r.chats # {},
                    [Next]_vars
             PROVE  [BotP!Next]_(BotP!vars)
  OBVIOUS
<1>1. ASSUME NEW j \in AgentJobs, NEW r \in outRun[j].batch,
             BotP!ProcessedUpdate(r.id, r.chats)
      PROVE  BotP!Producer
  BY <1>1, SentRow DEF BotP!Producer
<1> QED  BY <1>1, BotMoves DEF BotP!Next

----------------------------------------------------------------------------
(* The parts at work together. *)

(* A row of the agent's outbox is one that a window handed on. *)
Made(r, o) == o.id = r.id /\ o.chats = r.chats /\ o.parts = parts[r]

(* Rows are made of inbox rows, for some chat, and no two alike. *)
RowsInv ==
  /\ parts \in [rows -> SUBSET inStored]
  /\ \A r \in rows : r.chats # {} /\ \E o \in grouped : Made(r, o)
  /\ \A r, q \in rows :
       r.id = q.id /\ r.chats = q.chats /\ parts[r] = parts[q] => r = q

(* What a window handed on is in the agent's outbox. *)
HandedInv == \A o \in grouped : \E r \in rows : Made(r, o)

(* Nothing is deleted: the inbox knows every update_id it has stored, and  *)
(* has one row for each.                                                   *)
StoredInv ==
  /\ inStored = inPending \cup inDone
  /\ \A q \in inStored : /\ q.msg \in 1 .. Len(rawTopic)
                         /\ q.id = rawTopic[q.msg].id
                         /\ q.chats = rawTopic[q.msg].chats
  /\ \A p, q \in inStored : p.id = q.id => p = q

(* The message that carries a row under key i. *)
MessageOf(r, i) == [key |-> i, shot |-> r.id, chats |-> r.chats]

(* Every message carries a row, and as many carry one as it has sends.     *)
Carrying(r) == {i \in 1 .. Len(carried) : carried[i] = r}

CarriedInv ==
  /\ carried \in Seq(rows)
  /\ Len(carried) = Len(topic)
  /\ \A i \in 1 .. Len(carried) : topic[i] = MessageOf(carried[i], i)
  /\ \A r \in rows : Cardinality(Carrying(r)) = sends[r]

----------------------------------------------------------------------------
(* Rows are stored only from the topic, and the topic only grows. *)
LEMMA StoredStep ==
  InboxP!Typed /\ InboxP!LocksInv /\ StoredInv /\ [Next]_vars => StoredInv'
<1> SUFFICES ASSUME InboxP!Typed, InboxP!LocksInv, StoredInv, [Next]_vars
             PROVE  StoredInv'
  OBVIOUS
<1> USE DEF InboxP!consumerVars, InboxP!inboxVars, InboxP!relayVars
<1>1. ASSUME NEW id \in Ids, NEW chats \in SUBSET Chats, InboxP!RawUpdate(id, chats)
      PROVE  StoredInv'
  <2> DEFINE m == [id |-> id, chats |-> chats]
  <2>1. rawTopic' = Append(rawTopic, m) /\ UNCHANGED <<inStored, inPending, inDone>>
    BY <1>1 DEF InboxP!RawUpdate
  <2>2. rawTopic \in Seq(InboxP!Message) /\ m \in InboxP!Message
    BY DEF InboxP!Typed, InboxP!Message
  <2>3. /\ Len(rawTopic') = Len(rawTopic) + 1 /\ Len(rawTopic) \in Nat
        /\ \A k \in 1 .. Len(rawTopic) : rawTopic'[k] = rawTopic[k]
    BY <2>1, <2>2
  <2> QED  BY <2>1, <2>3 DEF StoredInv
<1>2. CASE InboxP!AddRecord
  <2> DEFINE r == InboxP!NewRecord
  <2>1. /\ inStored' = inStored \cup {r} /\ inPending' = inPending \cup {r}
        /\ inDone' = inDone /\ r.msg = rawOffset + 1 /\ r.id = InboxP!Current.id
        /\ \A q \in inPending \cup inDone : q.id # r.id
    BY <1>2, Assumptions, InboxP!InsertAdds
  <2>2. rawTopic' = rawTopic /\ rawOffset < Len(rawTopic)
    BY <1>2 DEF InboxP!AddRecord, InboxP!CanFetch
  <2>3. /\ r.msg \in 1 .. Len(rawTopic)
        /\ r.id = rawTopic[r.msg].id /\ r.chats = rawTopic[r.msg].chats
    BY <2>1, <2>2 DEF InboxP!Typed, InboxP!Current, InboxP!NewRecord
  <2> HIDE DEF r
  <2> QED  BY <2>1, <2>2, <2>3 DEF StoredInv
<1>3. CASE UNCHANGED <<rawTopic, inStored, inPending, inDone>>
  BY <1>3 DEF StoredInv
<1>4. ASSUME NEW j \in AgentJobs, InboxP!RelayInbox(j) PROVE StoredInv'
  <2>1. inPending' = inPending \ inLocked[j] /\ inDone' = inDone \cup inLocked[j]
    BY <1>4, Assumptions, InboxP!MarkMarks DEF InboxP!RelayInbox
  <2>2. inLocked[j] \subseteq inPending
    BY DEF InboxP!LocksInv
  <2>3. UNCHANGED <<rawTopic, inStored>>
    BY <1>4 DEF InboxP!RelayInbox
  <2> QED  BY <2>1, <2>2, <2>3 DEF StoredInv
<1>5. ASSUME \/ InboxP!AddDuplicate \/ InboxP!InvalidMessage \/ InboxP!CommitMessages
             \/ InboxP!Failure \/ \E j \in AgentJobs : InboxP!FetchPending(j)
             \/ UNCHANGED InboxP!vars
      PROVE  UNCHANGED <<rawTopic, inStored, inPending, inDone>>
  BY <1>5
  DEF InboxP!AddDuplicate, InboxP!InvalidMessage, InboxP!CommitMessages,
      InboxP!DeadLetter, InboxP!Failure, InboxP!AddRecordNetError,
      InboxP!AddRecordPgError, InboxP!KafkaFails, InboxP!RelayInboxFails,
      InboxP!Restart, InboxP!FetchPending, InboxP!vars
<1> QED  BY <1>1, <1>2, <1>3, <1>4, <1>5, InboxMoves DEF InboxP!ConsumerStep

(* A window that hands something on: its rows and what they are made of.   *)
LEMMA WindowRowsMade ==
  ASSUME OutboxP!Typed, InboxP!Shaped', InboxP!OutboxInv', RowsInv,
         NEW j \in AgentJobs, RelayInbox(j), OutboxP!AddBatch,
         grouped' \ grouped # {}
  PROVE  /\ rows \subseteq rows'
         /\ \A r \in rows' \ rows : r.tx = outTxs + 1
         /\ DOMAIN parts' = rows' /\ parts' = [r \in rows' |-> parts'[r]]
         /\ \A r \in rows : parts'[r] = parts[r]
         /\ \A r \in rows' \ rows : \E o \in grouped' \ grouped :
              o.id = r.id /\ o.chats = r.chats /\ o.parts = parts'[r]
<1> DEFINE window == grouped' \ grouped
           new == rows' \ rows
           Of(r) == CHOOSE o \in window : o.id = r.id /\ o.chats = r.chats
<1>1. /\ {<<r.id, r.chats>> : r \in new} = {<<o.id, o.chats>> : o \in window}
      /\ parts' = [r \in rows' |-> IF r \in rows THEN parts[r] ELSE Of(r).parts]
  BY DEF RelayInbox
<1>2. PICK added \in SUBSET OutboxP!Row :
        rows' = rows \cup added /\ \A r \in added : r.tx = outTxs + 1
  BY Assumptions, OutboxP!AddBatchAdds
<1>3. ASSUME NEW r \in new
      PROVE  /\ Of(r) \in window /\ Of(r).id = r.id /\ Of(r).chats = r.chats
             /\ parts'[r] = Of(r).parts
  <2>1. <<r.id, r.chats>> \in {<<o.id, o.chats>> : o \in window}
    BY <1>1
  <2>2. \E o \in window : o.id = r.id /\ o.chats = r.chats
    BY <2>1
  <2> QED  BY <1>1, <2>2
<1> HIDE DEF Of
<1>4. ASSUME NEW r \in rows PROVE parts'[r] = parts[r]
  BY <1>1, <1>2
<1>5. parts' = [r \in rows' |-> parts'[r]]
  BY <1>1
<1> QED  BY <1>1, <1>2, <1>3, <1>4, <1>5

(* Only the inbox relay hands rows on. *)
LEMMA HandsOn ==
  ASSUME [Next]_vars
  PROVE  \/ UNCHANGED <<rows, parts, grouped>>
         \/ \E j \in AgentJobs : RelayInbox(j) /\ InboxP!RelayInbox(j)
<1>1. \/ UNCHANGED <<rows, parts>>
      \/ \E j \in AgentJobs : RelayInbox(j)
  BY OutboxMoves
  DEF Next, Event, AgentConsumer, FetchWindow, InboxFails, AgentRestart, RelayOutbox,
      OutboxInner, OutboxFails, Publish, PublishFails, BotConsumer, BotRelay,
      BotFails, InboxBeside, OutboxBeside, BotBeside, outboxVars, vars,
      OutboxP!Publish, OutboxP!PublishFails, OutboxP!tableVars
<1>2. grouped' = grouped \/ \E j \in AgentJobs : RelayInbox(j) /\ InboxP!RelayInbox(j)
  BY InboxMoves
  DEF InboxP!RawUpdate, InboxP!ConsumerStep, InboxP!AddRecord, InboxP!AddDuplicate,
      InboxP!InvalidMessage, InboxP!CommitMessages, InboxP!DeadLetter,
      InboxP!FetchPending, InboxP!Failure, InboxP!AddRecordNetError,
      InboxP!AddRecordPgError, InboxP!KafkaFails, InboxP!RelayInboxFails,
      InboxP!Restart, InboxP!relayVars, InboxP!vars
<1>3. ASSUME NEW j \in AgentJobs, RelayInbox(j) PROVE InboxP!RelayInbox(j)
  BY <1>3
  DEF RelayInbox, Inbox!RelayInbox, InboxP!RelayInbox, Inbox!Orders, InboxP!Orders,
      Inbox!Passed, InboxP!Passed, Inbox!Deliveries, InboxP!Deliveries, Inbox!Singles,
      InboxP!Singles, Inbox!Groups, InboxP!Groups, Inbox!For, InboxP!For,
      Inbox!MarkProcessed, InboxP!MarkProcessed, Inbox!Mark, InboxP!Mark,
      Inbox!Cardinality, InboxP!Cardinality, Inbox!consumerVars, InboxP!consumerVars
<1> QED  BY <1>1, <1>2, <1>3

(* What the rows are made of is what the window was. *)
LEMMA RowsStep ==
  ASSUME InboxP!Typed, InboxP!Shaped', InboxP!OutboxInv', InboxP!HandedOnOnce',
         OutboxP!Typed, OutboxP!Typed', RowsInv, [Next]_vars
  PROVE  RowsInv'
<1>1. inStored \subseteq inStored'
  BY Assumptions, InboxSteps, InboxP!Grows
<1>2. CASE UNCHANGED <<rows, parts>> /\ grouped \subseteq grouped'
  BY <1>1, <1>2 DEF RowsInv, Made
<1>3. ASSUME NEW j \in AgentJobs, RelayInbox(j), InboxP!RelayInbox(j)
      PROVE  RowsInv'
  <2>1. grouped \subseteq grouped'
    BY <1>3 DEF InboxP!RelayInbox
  <2>2. CASE grouped' \ grouped = {}
    <3>1. UNCHANGED <<rows, parts>>
      BY <1>3, <2>2 DEF RelayInbox, outboxVars
    <3> QED  BY <1>2, <2>1, <3>1
  <2>3. CASE grouped' \ grouped # {}
    <3>0. OutboxP!AddBatch
      BY <1>3, <2>3
      DEF RelayInbox, Outbox!AddBatch, OutboxP!AddBatch, Outbox!WindowRows,
          OutboxP!WindowRows
    <3>1. /\ rows \subseteq rows'
          /\ \A r \in rows' \ rows : r.tx = outTxs + 1
          /\ parts' = [r \in rows' |-> parts'[r]]
          /\ \A r \in rows : parts'[r] = parts[r]
          /\ \A r \in rows' \ rows : \E o \in grouped' \ grouped :
               o.id = r.id /\ o.chats = r.chats /\ o.parts = parts'[r]
      BY <1>3, <2>3, <3>0, WindowRowsMade
    <3>2. ASSUME NEW r \in rows'
          PROVE  r.chats # {} /\ \E o \in grouped' :
                   o.id = r.id /\ o.chats = r.chats /\ o.parts = parts'[r]
      <4>1. CASE r \in rows
        BY <2>1, <3>1, <4>1 DEF RowsInv, Made
      <4>2. CASE r \notin rows
        <5>1. PICK o \in grouped' :
                o.id = r.id /\ o.chats = r.chats /\ o.parts = parts'[r]
          BY <3>1, <4>2
        <5> QED  BY <5>1 DEF InboxP!Shaped
      <4> QED  BY <4>1, <4>2
    <3>3. ASSUME NEW r \in rows' PROVE parts'[r] \in SUBSET inStored'
      BY <3>2 DEF InboxP!OutboxInv
    <3>4. parts' \in [rows' -> SUBSET inStored']
      BY <3>1, <3>3
    <3>5. ASSUME NEW r \in rows, NEW q \in rows' \ rows,
                 r.id = q.id, r.chats = q.chats, parts'[r] = parts'[q]
          PROVE  FALSE
      <4>1. PICK o \in grouped : o.id = r.id /\ o.chats = r.chats /\ o.parts = parts'[r]
        BY <3>1 DEF RowsInv, Made
      <4>2. PICK p \in grouped' \ grouped :
              p.id = q.id /\ p.chats = q.chats /\ p.parts = parts'[q]
        BY <3>1
      <4>3. o.chats = p.chats /\ o.chats # {} /\ o.parts = p.parts /\ o.parts # {}
        BY <2>1, <3>5, <4>1, <4>2 DEF InboxP!Shaped
      <4>4. o = p
        BY <2>1, <4>1, <4>2, <4>3 DEF InboxP!HandedOnOnce
      <4> QED  BY <4>1, <4>2, <4>4
    <3>6. ASSUME NEW r \in rows', NEW q \in rows',
                 r.id = q.id, r.chats = q.chats, parts'[r] = parts'[q]
          PROVE  r = q
      <4>1. CASE r \in rows /\ q \in rows
        BY <3>1, <3>6, <4>1 DEF RowsInv
      <4>2. CASE r \notin rows /\ q \notin rows
        <5>1. r.tx = q.tx
          BY <3>1, <4>2
        <5>2. r \in OutboxP!Row /\ q \in OutboxP!Row
          BY DEF OutboxP!Typed
        <5> QED  BY <3>6, <5>1, <5>2 DEF OutboxP!Row
      <4> QED  BY <3>5, <3>6, <4>1, <4>2
    <3> QED  BY <3>2, <3>4, <3>6 DEF RowsInv, Made
  <2> QED  BY <2>2, <2>3
<1> QED  BY <1>2, <1>3, HandsOn

(* The outbox takes all of a window. *)
LEMMA HandedStep ==
  ASSUME InboxP!Typed, InboxP!LocksInv, InboxP!Shaped', InboxP!OutboxInv',
         InboxP!HandedOnOnce', OutboxP!Typed, RowsInv, HandedInv, [Next]_vars
  PROVE  HandedInv'
<1>1. CASE UNCHANGED <<rows, parts, grouped>>
  BY <1>1 DEF HandedInv, Made
<1>2. ASSUME NEW j \in AgentJobs, RelayInbox(j), InboxP!RelayInbox(j)
      PROVE  HandedInv'
  <2>1. CASE grouped' \ grouped = {}
    <3>1. UNCHANGED <<rows, parts>> /\ grouped \subseteq grouped'
      BY <1>2, <2>1 DEF RelayInbox, outboxVars, InboxP!RelayInbox
    <3>2. grouped' = grouped
      BY <2>1, <3>1
    <3> QED  BY <1>1, <3>1, <3>2
  <2>2. CASE grouped' \ grouped # {}
    <3>1. OutboxP!AddBatch
      BY <1>2, <2>2
      DEF RelayInbox, Outbox!AddBatch, OutboxP!AddBatch, Outbox!WindowRows,
          OutboxP!WindowRows
    <3>2. /\ rows \subseteq rows'
          /\ \A r \in rows : parts'[r] = parts[r]
          /\ \A r \in rows' \ rows : \E p \in grouped' \ grouped :
               p.id = r.id /\ p.chats = r.chats /\ p.parts = parts'[r]
      BY <1>2, <2>2, <3>1, WindowRowsMade
    <3>3. {<<r.id, r.chats>> : r \in rows' \ rows}
            = {<<o.id, o.chats>> : o \in grouped' \ grouped}
      BY <1>2, <2>2 DEF RelayInbox
    <3>4. \A o \in grouped' \ grouped : o.tx = inTxs + 1
      <4>1. PICK order : grouped' =
              grouped \cup InboxP!Deliveries(InboxP!Passed(inLocked[j]), order)
        BY <1>2, Assumptions, InboxP!RelayAdds
      <4> QED  BY <4>1, Assumptions, InboxP!DeliveriesOf
    <3>5. ASSUME NEW o \in grouped' \ grouped
          PROVE  \E r \in rows' : /\ o.id = r.id
                                  /\ o.chats = r.chats
                                  /\ o.parts = parts'[r]
      <4>1. <<o.id, o.chats>> \in {<<r.id, r.chats>> : r \in rows' \ rows}
        BY <3>3
      <4>2. PICK r \in rows' \ rows : r.id = o.id /\ r.chats = o.chats
        BY <4>1
      <4>3. PICK p \in grouped' \ grouped :
              p.id = r.id /\ p.chats = r.chats /\ p.parts = parts'[r]
        BY <3>2
      <4>4. p.tx = o.tx /\ p.chats = o.chats /\ o.chats # {}
        BY <3>4, <4>2, <4>3 DEF InboxP!Shaped
      <4>5. p = o
        BY <4>4 DEF InboxP!HandedOnOnce
      <4> QED  BY <4>2, <4>3, <4>5
    <3>6. ASSUME NEW o \in grouped
          PROVE  \E r \in rows' : /\ o.id = r.id
                                  /\ o.chats = r.chats
                                  /\ o.parts = parts'[r]
      BY <3>2 DEF HandedInv, Made
    <3> QED  BY <3>5, <3>6 DEF HandedInv, Made
  <2> QED  BY <2>1, <2>2
<1> QED  BY <1>1, <1>2, HandsOn

(* A message that is written carries the row that is sent. *)
LEMMA WriteCarries ==
  ASSUME BotP!Typed, OutboxP!Typed, CarriedInv, NEW r \in rows, Write(r), rows' = rows,
         sends' \in [rows -> Nat], sends'[r] = sends[r] + 1,
         \A q \in rows : q # r => sends'[q] = sends[q]
  PROVE  CarriedInv'
<1> DEFINE n == Len(carried)
<1>1. /\ carried \in Seq(rows) /\ n \in Nat /\ Len(topic) = n
      /\ \A q \in rows : Cardinality(Carrying(q)) = sends[q]
  BY DEF CarriedInv
<1>2. carried' = Append(carried, r)
  BY DEF Write
<1>3. /\ carried' \in Seq(rows) /\ Len(carried') = n + 1 /\ carried'[n + 1] = r
      /\ \A i \in 1 .. n : carried'[i] = carried[i]
  BY <1>1, <1>2
<1>4. /\ Len(topic') = n + 1 /\ topic'[n + 1] = MessageOf(r, n + 1)
      /\ \A i \in 1 .. n : topic'[i] = topic[i]
  <2>1. topic' = Append(topic, MessageOf(r, n + 1))
    BY <1>1 DEF Write, Bot!ProcessedUpdate, Bot!Write, Bot!NewKey, MessageOf
  <2>2. topic \in Seq(BotP!Message)
    BY DEF BotP!Typed
  <2> HIDE DEF n
  <2> QED  BY <1>1, <2>1, <2>2
<1>5. ASSUME NEW q \in rows PROVE Cardinality(Carrying(q)') = sends'[q]
  <2> DEFINE C == {i \in 1 .. n : carried[i] = q}
  <2>1. /\ Carrying(q) = C
        /\ Carrying(q)' = {i \in 1 .. (n + 1) : carried'[i] = q}
    BY <1>3 DEF Carrying
  <2>2. IsFiniteSet(C) /\ Cardinality(C) \in Nat /\ n + 1 \notin C
    <3>1. IsFiniteSet(1 .. n)
      BY <1>1, FS_Interval
    <3>2. C \subseteq 1 .. n
      OBVIOUS
    <3> HIDE DEF n
    <3>3. n + 1 \notin 1 .. n
      BY <1>1
    <3> QED  BY <3>1, <3>2, <3>3, FS_Subset, FS_CardinalityType
  <2>3. Cardinality(C) = sends[q]
    BY <1>1, <2>1
  <2>4. CASE q = r
    <3>1. Carrying(q)' = C \cup {n + 1}
      BY <1>1, <1>3, <2>1, <2>4
    <3> HIDE DEF C
    <3>2. Cardinality(C \cup {n + 1}) = Cardinality(C) + 1
      BY <2>2, FS_AddElement
    <3> QED  BY <2>3, <2>4, <3>1, <3>2
  <2>5. CASE q # r
    <3>1. Carrying(q)' = C
      BY <1>1, <1>3, <2>1, <2>5
    <3> QED  BY <2>3, <2>5, <3>1
  <2> QED  BY <2>4, <2>5
<1>6. ASSUME NEW i \in 1 .. Len(carried') PROVE topic'[i] = MessageOf(carried'[i], i)
  <2>1. CASE i = n + 1
    BY <1>3, <1>4, <2>1
  <2>2. CASE i # n + 1
    <3>1. i \in 1 .. n
      BY <1>1, <1>3, <2>2
    <3> QED  BY <1>3, <1>4, <3>1 DEF CarriedInv
  <2> QED  BY <2>1, <2>2
<1> QED  BY <1>3, <1>4, <1>5, <1>6 DEF CarriedInv, MessageOf

(* A message is written with the row it carries, and not without. *)
LEMMA TopicWritten ==
  ASSUME carried \in Seq(rows), [Next]_vars, carried' = carried
  PROVE  topic' = topic
<1>1. ASSUME NEW r, Write(r) PROVE FALSE
  <2>1. carried' = Append(carried, r)
    BY <1>1 DEF Write
  <2>2. Len(Append(carried, r)) = Len(carried) + 1 /\ Len(carried) \in Nat
    OBVIOUS
  <2> QED  BY <2>1, <2>2
<1>2. ASSUME BotP!ConsumerStep PROVE topic' = topic
  BY <1>2
  DEF BotP!ConsumerStep, BotP!AddRecord, BotP!AddDuplicate, BotP!CommitMessages
<1>3. ASSUME NEW j \in BotJobs, BotP!RelayStep(j) PROVE topic' = topic
  BY <1>3 DEF BotP!RelayStep, BotP!FetchPending, BotP!SendMessage, BotP!StartMark,
              BotP!MarkProcessed, BotP!MarkWaits, BotP!Deadlock, BotP!Rollback
<1>4. ASSUME BotP!Failure PROVE topic' = topic
  BY <1>4 DEF BotP!Failure, BotP!AddRecordNetError, BotP!DeadLetter, BotP!KafkaFails,
              BotP!TxFails, BotP!SendFails, BotP!Restart
<1> QED  BY <1>1, <1>2, <1>3, <1>4, BotMoves DEF BotP!vars

(* A send adds one message to the topic and one to the count of its row. *)
LEMMA CarriedStep ==
  ASSUME BotP!Typed, OutboxP!Typed, OutboxP!RunsInv, CarriedInv, [Next]_vars
  PROVE  CarriedInv'
<1>0. /\ sends \in [rows -> Nat] /\ carried \in Seq(rows) /\ Len(carried) = Len(topic)
      /\ \A i \in 1 .. Len(carried) : carried[i] \in rows
  BY DEF OutboxP!Typed, CarriedInv
<1>1. ASSUME UNCHANGED <<rows, sends, carried>> PROVE CarriedInv'
  <2>1. topic' = topic
    BY <1>0, <1>1, TopicWritten
  <2> QED  BY <1>1, <2>1 DEF CarriedInv, Carrying, MessageOf
<1>2. ASSUME NEW j \in AgentJobs, RelayInbox(j), OutboxP!AddBatch PROVE CarriedInv'
  <2>1. PICK new \in SUBSET OutboxP!Row :
          /\ rows' = rows \cup new /\ new \cap rows = {}
          /\ \A r \in new : sends'[r] = 0
          /\ \A r \in rows : sends'[r] = sends[r]
    BY <1>2, Assumptions, OutboxP!AddBatchAdds
  <2>2. UNCHANGED <<topic, carried>>
    BY <1>2 DEF RelayInbox, botVars
  <2>3. ASSUME NEW r \in new PROVE Cardinality(Carrying(r)) = sends'[r]
    <3>1. Carrying(r) = {}
      BY <1>0, <2>1 DEF Carrying
    <3> QED  BY <2>1, <3>1, FS_EmptySet
  <2>4. carried' \in Seq(rows')
    BY <1>0, <2>1, <2>2
  <2>5. \A r : Carrying(r)' = Carrying(r)
    BY <2>2 DEF Carrying
  <2> QED  BY <1>0, <2>1, <2>2, <2>3, <2>4, <2>5 DEF CarriedInv, MessageOf
<1>3. ASSUME NEW j \in AgentJobs, NEW r \in outRun[j].batch,
             OutboxP!Publish(j, r) \/ OutboxP!PublishFails(j, r), Write(r), sends' # sends
      PROVE  CarriedInv'
  <2>1. r \in rows
    BY SentRow
  <2>2. OutboxP!Sends(j, r)
    BY <1>3 DEF OutboxP!Sends
  <2>3. /\ sends' \in [rows -> Nat] /\ rows' = rows
        /\ \A q \in rows : q # r => sends'[q] = sends[q]
        /\ sends'[r] \in {sends[r], sends[r] + 1}
    BY <2>1, <2>2, Assumptions, OutboxP!SendCounts DEF OutboxP!tableVars
  <2>4. sends'[r] # sends[r]
    BY <1>0, <1>3, <2>3
  <2> QED  BY <1>3, <2>1, <2>3, <2>4, WriteCarries
<1>4. ASSUME NEW j \in AgentJobs, NEW r \in outRun[j].batch,
             OutboxP!Publish(j, r), Write(r)
      PROVE  CarriedInv'
  <2>1. r \in rows
    BY SentRow
  <2>2. sends'[r] = sends[r] + 1 /\ sends[r] \in Nat
    BY <1>0, <1>4, <2>1, Assumptions, OutboxP!SendCounts DEF OutboxP!Sends
  <2> QED  BY <1>3, <1>4, <2>2
<1>5. ASSUME NEW j \in AgentJobs, NEW r \in outRun[j].batch,
             OutboxP!PublishFails(j, r), PublishFails(j, r)
      PROVE  CarriedInv'
  <2>1. CASE sends' # sends /\ Write(r)
    BY <1>3, <1>5, <2>1
  <2>2. CASE sends' = sends /\ UNCHANGED <<botVars, carried>>
    BY <1>1, <1>5, <2>2 DEF OutboxP!PublishFails, OutboxP!tableVars
  <2> QED  BY <1>5, <2>1, <2>2 DEF PublishFails
<1> QED  BY <1>1, <1>2, <1>4, <1>5, OutboxMoves

----------------------------------------------------------------------------
(* The parts on the way behave as they do alone. *)

(* The agent's consumer and inbox relay do not notice what is beside them. *)
THEOREM InboxIsItsModule == Spec => InboxP!Spec
<1>1. Init => InboxP!Init
  BY DEF Init, Inbox!Init, InboxP!Init, Inbox!FaultKinds, InboxP!FaultKinds
<1>2. [Next]_vars => [InboxP!Next]_(InboxP!vars)
  BY InboxSteps
<1> QED  BY <1>1, <1>2, PTL DEF Spec, InboxP!Spec

(* Nor does the agent's outbox relay: a window is a batch of its rows, and *)
(* a message in the topic is what it calls a send.                         *)
THEOREM OutboxIsItsModule == Spec => OutboxP!Spec
<1>1. Init => OutboxP!Init
  BY DEF Init, Outbox!Init, OutboxP!Init, Outbox!Idle, OutboxP!Idle
<1>2. [Next]_vars => [OutboxP!Next]_(OutboxP!vars)
  BY OutboxSteps
<1> QED  BY <1>1, <1>2, PTL DEF Spec, OutboxP!Spec

(* What AgentInboxProofs and AgentOutboxProofs prove holds on the way. *)
LEMMA AgentHolds ==
  Spec => [](/\ InboxP!Typed /\ InboxP!LocksInv /\ InboxP!OutboxInv /\ InboxP!Shaped
             /\ InboxP!HandedOnOnce /\ InboxP!SettledInv /\ InboxP!CommittedIsRecorded
             /\ OutboxP!Typed /\ OutboxP!RunsInv /\ OutboxP!TypeOK
             /\ OutboxP!SettledSharesId /\ OutboxP!ResendOnlyAfterFailure)
  BY Assumptions, InboxIsItsModule, OutboxIsItsModule, InboxP!LocksCorrect,
     InboxP!OutboxCorrect, InboxP!ShapesCorrect, InboxP!UpdatesAreHandedOnOnce,
     InboxP!SettledHolds, InboxP!CommittedMessagesAreRecorded,
     OutboxP!RunsCorrect, OutboxP!TypeCorrect, OutboxP!SettledRowsShareId,
     OutboxP!ResendsArePaid, PTL

(* The rows of agent_outbox are those of the windows. *)
LEMMA RowsHold == Spec => [](RowsInv /\ StoredInv /\ HandedInv)
<1>1. Init => RowsInv /\ StoredInv /\ HandedInv
  BY DEF Init, Inbox!Init, Outbox!Init, RowsInv, StoredInv, HandedInv
<1>2. StoredInv /\ InboxP!Typed /\ InboxP!LocksInv /\ [Next]_vars => StoredInv'
  BY StoredStep
<1>3. /\ InboxP!Typed /\ InboxP!Shaped' /\ InboxP!OutboxInv' /\ InboxP!HandedOnOnce'
      /\ OutboxP!Typed /\ OutboxP!Typed' /\ RowsInv /\ [Next]_vars
      => RowsInv'
  BY RowsStep
<1>4. /\ InboxP!Typed /\ InboxP!LocksInv /\ InboxP!Shaped' /\ InboxP!OutboxInv'
      /\ InboxP!HandedOnOnce' /\ OutboxP!Typed /\ RowsInv /\ HandedInv /\ [Next]_vars
      => HandedInv'
  BY HandedStep
<1> QED  BY <1>1, <1>2, <1>3, <1>4, AgentHolds, PTL DEF Spec

(* The bot is sent what its module expects: updates with chats, each under *)
(* a key of its own.                                                       *)
THEOREM BotIsItsModule == Spec => BotP!Spec
<1>1. Init => BotP!Init
  BY DEF Init, Bot!Init, BotP!Init, Bot!FaultKinds, BotP!FaultKinds, Bot!Idle,
     BotP!Idle, Bot!Keys, BotP!Keys
<1>2. RowsInv => \A r \in rows : r.chats # {}
  BY DEF RowsInv
<1>3. /\ OutboxP!Typed /\ OutboxP!RunsInv /\ RowsInv /\ [Next]_vars
      => [BotP!Next]_(BotP!vars)
  BY <1>2, BotSteps
<1> QED  BY <1>1, <1>3, AgentHolds, RowsHold, PTL DEF Spec, BotP!Spec

(* What BotDeliveryProofs proves holds on the way. *)
LEMMA BotHolds ==
  Spec => [](/\ BotP!Typed /\ BotP!KeysInv /\ BotP!Shaped
             /\ BotP!UnnotifiedHasCause /\ BotP!DeadInv /\ BotP!CommittedIsAccounted
             /\ BotP!NotifiedAgainOnlyAfterFailure)
  BY Assumptions, BotIsItsModule, BotP!KeysCorrect, BotP!ShapesCorrect,
     BotP!UnnotifiedRowsHaveCause, BotP!DeadLettersPaid, BotP!CommittedMessagesAreAccounted,
     BotP!RepeatsArePaid, PTL

(* The messages of the topic are sends of rows. *)
LEMMA CarriedHolds == Spec => []CarriedInv
<1>1. Init => CarriedInv
  BY DEF Init, Outbox!Init, Bot!Init, CarriedInv
<1>2. /\ BotP!Typed /\ OutboxP!Typed /\ OutboxP!RunsInv /\ CarriedInv
      /\ [Next]_vars
      => CarriedInv'
  BY CarriedStep
<1> QED  BY <1>1, <1>2, AgentHolds, BotHolds, PTL DEF Spec

(* A row of the bot's inbox is a message under its key. *)
BotRowsInv ==
  \A b \in botStored : /\ b.key \in 1 .. Len(topic)
                       /\ b.shot = carried[b.key].id /\ b.chats = carried[b.key].chats

(* What is written stays. *)
LEMMA CarriedGrows ==
  ASSUME CarriedInv, [Next]_vars
  PROVE  /\ Len(carried') >= Len(carried)
         /\ \A i \in 1 .. Len(carried) : carried'[i] = carried[i]
<1>1. carried' = carried \/ \E r : carried' = Append(carried, r)
  BY OutboxMoves DEF Write, RelayInbox, PublishFails
<1> QED  BY <1>1 DEF CarriedInv

(* The rows of the bot are those of its messages. *)
LEMMA BotRowsStep ==
  ASSUME BotP!Typed, BotP!KeysInv, CarriedInv, CarriedInv', BotRowsInv, [Next]_vars
  PROVE  BotRowsInv'
<1>1. /\ Len(carried) = Len(topic) /\ Len(carried') = Len(topic')
      /\ Len(topic) \in Nat /\ Len(topic') \in Nat
      /\ \A i \in 1 .. Len(topic) : topic[i] = MessageOf(carried[i], i)
  BY DEF CarriedInv
<1>2. CASE botStored' = botStored
  <2>1. \A i \in 1 .. Len(topic) : i \in 1 .. Len(topic') /\ carried'[i] = carried[i]
    BY <1>1, CarriedGrows
  <2> QED  BY <1>2, <2>1 DEF BotRowsInv
<1>3. CASE BotP!AddRecord
  <2> DEFINE b == BotP!NewRecord
  <2>1. /\ botStored' = botStored \cup {b} /\ offset < Len(topic)
        /\ topic' = topic
    BY <1>3, Assumptions, BotP!AddRecordAdds
  <2>2. offset + 1 \in 1 .. Len(topic)
    BY <2>1 DEF BotP!Typed
  <2>3. BotP!Current = MessageOf(carried[offset + 1], offset + 1)
    BY <1>1, <2>2 DEF BotP!Current
  <2>4. /\ b.key = offset + 1 /\ b.shot = carried[offset + 1].id
        /\ b.chats = carried[offset + 1].chats
    BY <2>3 DEF BotP!NewRecord, MessageOf
  <2>5. \A i \in 1 .. Len(topic) : carried'[i] = carried[i]
    BY <1>1, CarriedGrows
  <2> HIDE DEF b
  <2> QED  BY <2>1, <2>2, <2>4, <2>5 DEF BotRowsInv
<1>4. BotP!AddRecord \/ botStored' = botStored
  BY BotMoves
  DEF BotP!ProcessedUpdate, BotP!Write, BotP!ConsumerStep, BotP!AddDuplicate,
      BotP!CommitMessages, BotP!RelayStep, BotP!FetchPending, BotP!SendMessage,
      BotP!StartMark, BotP!MarkProcessed, BotP!MarkWaits, BotP!Deadlock,
      BotP!Rollback, BotP!Failure, BotP!AddRecordNetError, BotP!DeadLetter,
      BotP!KafkaFails, BotP!TxFails, BotP!SendFails, BotP!Restart, BotP!inboxVars,
      BotP!vars
<1> QED  BY <1>2, <1>3, <1>4

(* ... and stay it. *)
LEMMA BotRowsHold == Spec => []BotRowsInv
<1>1. Init => BotRowsInv
  BY DEF Init, Bot!Init, BotRowsInv
<1>2. /\ BotP!Typed /\ BotP!KeysInv /\ CarriedInv /\ CarriedInv' /\ BotRowsInv
      /\ [Next]_vars
      => BotRowsInv'
  BY BotRowsStep
<1> QED  BY <1>1, <1>2, BotHolds, CarriedHolds, PTL DEF Spec

----------------------------------------------------------------------------
(* The failures of each kind, and those of all kinds. *)

(* One more of a kind is one more. *)
LEMMA SumCounts ==
  ASSUME NEW S, IsFiniteSet(S), NEW f \in [S -> Nat], NEW e \in S
  PROVE  SumFunction([f EXCEPT ![e] = @ + 1]) = SumFunction(f) + 1
<1> DEFINE g == [f EXCEPT ![e] = @ + 1]
           R == S \ {e}
<1>1. /\ DOMAIN f = S /\ DOMAIN g = S /\ g \in [S -> Nat] /\ g[e] = f[e] + 1
      /\ \A x \in R : g[x] = f[x]
  OBVIOUS
<1> HIDE DEF g
<1>2. IsFiniteSet(R)
  BY FS_Subset
<1>3. SumFunctionOnSet(f, S) = f[e] + SumFunctionOnSet(f, R)
  BY SumRemove
<1>4. SumFunctionOnSet(g, S) = g[e] + SumFunctionOnSet(g, R)
  BY <1>1, SumRemove
<1>5. SumFunctionOnSet(g, R) = SumFunctionOnSet(f, R)
  BY <1>1, <1>2, SumSame
<1>6. SumFunctionOnSet(f, R) \in Nat /\ f[e] \in Nat
  BY <1>2, SumNat
<1> QED  BY <1>1, <1>3, <1>4, <1>5, <1>6 DEF SumFunction, g

(* Three kinds are no more than all of them. *)
LEMMA SumOfThree ==
  ASSUME NEW S, IsFiniteSet(S), NEW f \in [S -> Nat],
         NEW a \in S, NEW b \in S, NEW c \in S, a # b, b # c, a # c
  PROVE  f[a] + f[b] + f[c] <= SumFunction(f)
<1> DEFINE Sum(s) == SumFunctionOnSet(f, s)
           A == S \ {a}
           B == A \ {b}
           C == B \ {c}
<1>1. IsFiniteSet(A) /\ IsFiniteSet(B) /\ IsFiniteSet(C)
  BY FS_Subset
<1>2. Sum(S) = f[a] + Sum(A)
  BY SumRemove
<1>3. Sum(A) = f[b] + Sum(B)
  BY <1>1, SumRemove
<1>4. Sum(B) = f[c] + Sum(C)
  BY <1>1, SumRemove
<1>5. Sum(C) \in Nat
  BY <1>1, SumNat
<1>6. f[a] \in Nat /\ f[b] \in Nat /\ f[c] \in Nat /\ DOMAIN f = S
  OBVIOUS
<1> HIDE DEF Sum, A, B, C
<1>7. f[a] + f[b] + f[c] <= Sum(S)
  BY <1>2, <1>3, <1>4, <1>5, <1>6
<1> QED  BY <1>6, <1>7 DEF Sum, SumFunction

(* A sum of natural numbers is one. *)
LEMMA SumFunctionNat ==
  ASSUME NEW S, IsFiniteSet(S), NEW f \in [S -> Nat]
  PROVE  SumFunction(f) \in Nat
  BY SumNat DEF SumFunction

(* The kinds of failures are finite sets. *)
LEMMA KindsFinite == IsFiniteSet(InboxP!FaultKinds) /\ IsFiniteSet(BotP!FaultKinds)
<1>1. IsFiniteSet({"net", "pg", "kafka", "tx", "crash"})
  <2>1. IsFiniteSet({"net"}) BY FS_Singleton
  <2>2. IsFiniteSet({"net"} \cup {"pg"}) BY <2>1, FS_AddElement
  <2>3. IsFiniteSet(({"net"} \cup {"pg"}) \cup {"kafka"}) BY <2>2, FS_AddElement
  <2>4. IsFiniteSet((({"net"} \cup {"pg"}) \cup {"kafka"}) \cup {"tx"})
    BY <2>3, FS_AddElement
  <2>5. IsFiniteSet(((({"net"} \cup {"pg"}) \cup {"kafka"}) \cup {"tx"}) \cup {"crash"})
    BY <2>4, FS_AddElement
  <2>6. ((({"net"} \cup {"pg"}) \cup {"kafka"}) \cup {"tx"}) \cup {"crash"}
          = {"net", "pg", "kafka", "tx", "crash"}
    OBVIOUS
  <2> QED  BY <2>5, <2>6
<1> DEFINE T == {"net", "pg", "kafka", "tx", "crash"}
<1>2. IsFiniteSet(((T \cup {"resend"}) \cup {"copy"}) \cup {"send"})
  <2>1. IsFiniteSet(T \cup {"resend"})  BY <1>1, FS_AddElement
  <2> HIDE DEF T
  <2>2. IsFiniteSet((T \cup {"resend"}) \cup {"copy"})  BY <2>1, FS_AddElement
  <2> QED  BY <2>2, FS_AddElement
<1>3. /\ InboxP!FaultKinds \subseteq T
      /\ BotP!FaultKinds \subseteq ((T \cup {"resend"}) \cup {"copy"}) \cup {"send"}
  BY DEF InboxP!FaultKinds, BotP!FaultKinds
<1> QED  BY <1>1, <1>2, <1>3, FS_Subset

(* The bound holds for each part's own failures. *)
Budgeted ==
  /\ SumFunction(inFailures) <= MaxFailures
  /\ SumFunction(botFailures) <= MaxFailures

(* A failure of any of the three is counted within the one bound. *)
LEMMA BudgetedStep ==
  ASSUME InboxP!Typed, BotP!Typed, Budgeted, [Next]_vars
  PROVE  Budgeted'
<1>1. /\ inFailures \in [InboxP!FaultKinds -> Nat]
      /\ botFailures \in [BotP!FaultKinds -> Nat]
      /\ AgentFaults \subseteq InboxP!FaultKinds /\ BotFaults \subseteq BotP!FaultKinds
      /\ MaxFailures \in Nat
  BY Assumptions
  DEF InboxP!Typed, BotP!Typed, InboxP!AgentInboxAssumption,
      BotP!BotDeliveryAssumption
<1>2. inFailures' = inFailures \/ \E kind : InboxP!Fail(kind)
  BY InboxMoves
  DEF InboxP!RawUpdate, InboxP!ConsumerStep, InboxP!AddRecord, InboxP!AddDuplicate,
      InboxP!InvalidMessage, InboxP!CommitMessages, InboxP!DeadLetter,
      InboxP!FetchPending, InboxP!RelayInbox, InboxP!Failure,
      InboxP!AddRecordNetError, InboxP!AddRecordPgError, InboxP!KafkaFails,
      InboxP!RelayInboxFails, InboxP!Restart, InboxP!vars
<1>3. botFailures' = botFailures \/ \E kind : BotP!Fail(kind)
  BY BotMoves
  DEF BotP!ProcessedUpdate, BotP!ConsumerStep, BotP!AddRecord, BotP!AddDuplicate,
      BotP!CommitMessages, BotP!RelayStep, BotP!FetchPending, BotP!SendMessage,
      BotP!StartMark, BotP!MarkProcessed, BotP!MarkWaits, BotP!Deadlock,
      BotP!Rollback, BotP!Failure, BotP!AddRecordNetError, BotP!DeadLetter,
      BotP!KafkaFails, BotP!TxFails, BotP!SendFails, BotP!Restart, BotP!vars
<1>4. ASSUME NEW kind, InboxP!Fail(kind) PROVE SumFunction(inFailures') <= MaxFailures
  <2>1. SumFunction(inFailures') = SumFunction(inFailures) + 1
    BY <1>1, <1>4, KindsFinite, SumCounts DEF InboxP!Fail
  <2>2. SumFunction(inFailures) < MaxFailures
    BY <1>4, Sums DEF InboxP!Fail
  <2>3. SumFunction(inFailures) \in Nat
    BY <1>1, KindsFinite, SumFunctionNat
  <2> QED  BY <1>1, <2>1, <2>2, <2>3
<1>5. ASSUME NEW kind, BotP!Fail(kind) PROVE SumFunction(botFailures') <= MaxFailures
  <2>1. SumFunction(botFailures') = SumFunction(botFailures) + 1
    BY <1>1, <1>5, KindsFinite, SumCounts DEF BotP!Fail
  <2>2. SumFunction(botFailures) < MaxFailures
    BY <1>5, Sums DEF BotP!Fail
  <2>3. SumFunction(botFailures) \in Nat
    BY <1>1, KindsFinite, SumFunctionNat
  <2> QED  BY <1>1, <2>1, <2>2, <2>3
<1> QED  BY <1>2, <1>3, <1>4, <1>5 DEF Budgeted

----------------------------------------------------------------------------
(* Type correctness of the whole way. *)
LEMMA BudgetedHolds == Spec => []Budgeted
<1>1. Init => Budgeted
  <2> SUFFICES ASSUME Init PROVE Budgeted
    OBVIOUS
  <2>1. /\ inFailures = [kind \in InboxP!FaultKinds |-> 0]
        /\ botFailures = [kind \in BotP!FaultKinds |-> 0]
    BY DEF Init, Inbox!Init, InboxP!Init, Inbox!FaultKinds, InboxP!FaultKinds,
       Bot!Init, BotP!Init, Bot!FaultKinds, BotP!FaultKinds
  <2>2. ASSUME NEW S, IsFiniteSet(S) PROVE SumFunction([kind \in S |-> 0]) <= MaxFailures
    <3> DEFINE zero == [kind \in S |-> 0]
    <3>1. SumFunctionOnSet(zero, S) <= Cardinality(S) * 0
      <4> HIDE DEF zero
      <4>1. \A x \in S : zero[x] \in Nat /\ zero[x] <= 0
        BY DEF zero
      <4> QED  BY <2>2, <4>1, SumBound
    <3>2. Cardinality(S) \in Nat /\ SumFunctionOnSet(zero, S) \in Nat
      BY <2>2, SumNat, FS_CardinalityType
    <3>3. MaxFailures \in Nat
      BY Assumptions DEF InboxP!AgentInboxAssumption
    <3>4. Cardinality(S) * 0 = 0
      BY <3>2
    <3>5. DOMAIN zero = S
      OBVIOUS
    <3> HIDE DEF zero
    <3>6. SumFunction(zero) <= MaxFailures
      BY <3>1, <3>2, <3>3, <3>4, <3>5 DEF SumFunction
    <3> QED  BY <3>6 DEF zero
  <2> QED  BY <2>1, <2>2, KindsFinite DEF Budgeted
<1>2. InboxP!Typed /\ BotP!Typed /\ Budgeted /\ [Next]_vars => Budgeted'
  BY BudgetedStep
<1> QED  BY <1>1, <1>2, AgentHolds, BotHolds, PTL DEF Spec

(* The types of the parts and of the two histories, and every bound: of    *)
(* the windows, the messages, the deadlocks, and of the failures of all    *)
(* kinds together.                                                         *)
THEOREM TypeCorrect == Spec => []TypeOK
<1>1. InboxP!Typed /\ InboxP!Shaped /\ Budgeted => Inbox!TypeOK
  BY Sums DEF InboxP!Typed, InboxP!Shaped, Budgeted, Inbox!TypeOK,
     Inbox!Message, InboxP!Message, Inbox!Record, InboxP!Record, Inbox!OutRow,
     InboxP!OutRow, Inbox!FaultKinds, InboxP!FaultKinds
<1>2. OutboxP!TypeOK => Outbox!TypeOK
  BY DEF Outbox!TypeOK, OutboxP!TypeOK, Outbox!Row, OutboxP!Row, Outbox!Run,
     OutboxP!Run
<1>3. BotP!Typed /\ BotP!Shaped /\ Budgeted => Bot!TypeOK
  <2> SUFFICES ASSUME BotP!Typed, BotP!Shaped, Budgeted PROVE Bot!TypeOK
    OBVIOUS
  <2>1. /\ Bot!Message = BotP!Message /\ Bot!Record = BotP!Record
        /\ Bot!FaultKinds = BotP!FaultKinds /\ Bot!Keys = BotP!Keys
    BY DEF Bot!Message, BotP!Message, Bot!Record, BotP!Record, Bot!FaultKinds,
     BotP!FaultKinds, Bot!Keys, BotP!Keys
  <2>2. Bot!Run = BotP!Run
    BY <2>1 DEF Bot!Run, BotP!Run
  <2> QED  BY <2>1, <2>2, Sums DEF BotP!Typed, BotP!Shaped, Budgeted, Bot!TypeOK
<1>4. RowsInv /\ CarriedInv
      => parts \in [rows -> SUBSET inStored] /\ carried \in Seq(rows)
  BY DEF RowsInv, CarriedInv
<1>5. /\ InboxP!Typed /\ InboxP!Shaped /\ OutboxP!TypeOK /\ BotP!Typed /\ BotP!Shaped
      /\ Budgeted /\ RowsInv /\ CarriedInv
      => TypeOK
  BY <1>1, <1>2, <1>3, <1>4 DEF TypeOK
<1> QED  BY <1>5, AgentHolds, RowsHold, BotHolds, CarriedHolds, BudgetedHolds, PTL

----------------------------------------------------------------------------
(* What a chat is told of an event. *)

(* A larger number of equal shares is more. *)
LEMMA ProductGrows ==
  ASSUME NEW m \in Nat, NEW n \in Nat, NEW b \in Nat, m <= n
  PROVE  m * b <= n * b
<1>1. PICK d \in Nat : n = m + d
  <2>1. n - m \in Nat /\ n = m + (n - m)
    OBVIOUS
  <2> QED  BY <2>1
<1>2. n * b = m * b + d * b /\ m * b \in Nat /\ d * b \in Nat
  BY <1>1
<1> QED  BY <1>2

(* The rows that tell a chat of an event are one. *)
LEMMA OneRow ==
  ASSUME RowsInv, StoredInv, InboxP!HandedOnOnce,
         NEW c, NEW k,
         NEW r \in rows, NEW p \in parts[r], p.msg = k, c \in r.chats,
         NEW s \in rows, NEW q \in parts[s], q.msg = k, c \in s.chats
  PROVE  r = s
<1>1. p \in inStored /\ q \in inStored
  BY DEF RowsInv
<1>2. p = q
  BY <1>1 DEF StoredInv
<1>3. PICK o \in grouped : Made(r, o)
  BY DEF RowsInv
<1>4. PICK u \in grouped : Made(s, u)
  BY DEF RowsInv
<1>5. o = u
  BY <1>2, <1>3, <1>4 DEF InboxP!HandedOnOnce, Made
<1> QED  BY <1>3, <1>4, <1>5 DEF RowsInv, Made

(* What the parts promise bounds the copies: an event is in one row for    *)
(* each chat, the row is sent once and once more for each failure or       *)
(* deadlock of the relay, and each message is told once and once more for  *)
(* each of the bot.                                                        *)
LEMMA CopiesStep ==
  ASSUME InboxP!HandedOnOnce, RowsInv, StoredInv, CarriedInv,
         OutboxP!TypeOK, OutboxP!ResendOnlyAfterFailure,
         BotP!Typed, BotP!Shaped, BotP!NotifiedAgainOnlyAfterFailure
  PROVE  CopiesArePaid
<1> SUFFICES ASSUME NEW k \in Events, NEW c \in Chats
             PROVE  Told(k, c) <= (1 + outFailures + deadlocks)
                                    * (1 + botDeadlocks + Bot!Failures)
  BY DEF CopiesArePaid
<1> DEFINE C == Carriers(k, c)
           f == [i \in C |-> notified[<<i, c>>]]
           a == 1 + outFailures + deadlocks
           b == 1 + botDeadlocks + SumFunction(botFailures)
<1>1. outFailures \in Nat /\ deadlocks \in Nat
  BY Assumptions DEF OutboxP!TypeOK, OutboxP!AgentOutboxAssumption
<1>2. /\ botDeadlocks \in Nat /\ SumFunction(botFailures) \in Nat
      /\ botFailures \in [BotP!FaultKinds -> Nat]
  BY KindsFinite, SumFunctionNat DEF BotP!Typed
<1>3. a \in Nat /\ b \in Nat
  BY <1>1, <1>2
<1>4. /\ carried \in Seq(rows) /\ Len(carried) \in Nat /\ Len(carried) <= MaxProcessed
      /\ \A i \in 1 .. Len(carried) : carried[i] \in rows
      /\ \A r \in rows : Cardinality(Carrying(r)) = sends[r]
  BY DEF CarriedInv, BotP!Shaped
<1>5. C \subseteq 1 .. Len(carried) /\ IsFiniteSet(C) /\ IsFiniteSet(1 .. Len(carried))
  <2>1. IsFiniteSet(1 .. Len(carried))
    BY <1>4, FS_Interval
  <2>2. C \subseteq 1 .. Len(carried)
    BY DEF Carriers
  <2> HIDE DEF C
  <2> QED  BY <2>1, <2>2, FS_Subset
<1>6. Cardinality(C) \in Nat /\ Cardinality(C) <= a
  <2>1. CASE C = {}
    BY <1>3, <2>1, FS_EmptySet
  <2>2. CASE C # {}
    <3>1. PICK i \in C : TRUE
      BY <2>2
    <3> DEFINE r == carried[i]
    <3>2. r \in rows /\ c \in r.chats /\ \E p \in parts[r] : p.msg = k
      BY <1>4, <1>5 DEF Carriers
    <3>3. ASSUME NEW h \in C PROVE carried[h] = r
      <4>1. carried[h] \in rows /\ c \in carried[h].chats
            /\ \E q \in parts[carried[h]] : q.msg = k
        BY <1>4, <1>5 DEF Carriers
      <4> HIDE DEF C, r
      <4> QED  BY <3>2, <4>1, OneRow
    <3>4. C \subseteq Carrying(r)
      BY <1>5, <3>3 DEF Carrying
    <3>5. IsFiniteSet(Carrying(r))
      <4>1. Carrying(r) \subseteq 1 .. Len(carried)
        BY DEF Carrying
      <4> QED  BY <1>5, <4>1, FS_Subset
    <3>6. /\ Cardinality(C) \in Nat /\ Cardinality(Carrying(r)) \in Nat
          /\ Cardinality(C) <= Cardinality(Carrying(r))
      <4> HIDE DEF C, r
      <4> QED  BY <1>5, <3>4, <3>5, FS_Subset, FS_CardinalityType
    <3>7. Cardinality(Carrying(r)) <= a
      BY <1>4, <3>2 DEF OutboxP!ResendOnlyAfterFailure
    <3> HIDE DEF C, r
    <3> QED  BY <1>3, <3>6, <3>7
  <2> QED  BY <2>1, <2>2
<1>7. ASSUME NEW i \in C PROVE f[i] \in Nat /\ f[i] <= b
  <2>1. i \in BotP!Keys
    <3>1. i \in 1 .. Len(carried) /\ MaxProcessed \in Nat
      BY <1>5, Assumptions DEF BotP!BotDeliveryAssumption
    <3> HIDE DEF C
    <3> QED  BY <1>4, <3>1 DEF BotP!Keys
  <2>2. f[i] = notified[<<i, c>>] /\ notified[<<i, c>>] \in Nat
    BY <2>1 DEF BotP!Typed
  <2>3. notified[<<i, c>>] <= 1 + botDeadlocks + botFailures["send"] + botFailures["tx"]
                                + botFailures["crash"]
    BY <2>1 DEF BotP!NotifiedAgainOnlyAfterFailure
  <2>4. botFailures["send"] + botFailures["tx"] + botFailures["crash"]
          <= SumFunction(botFailures)
    <3>1. {"send", "tx", "crash"} \subseteq BotP!FaultKinds
      BY DEF BotP!FaultKinds
    <3> QED  BY <1>2, <3>1, KindsFinite, SumOfThree
  <2>5. /\ botFailures["send"] \in Nat /\ botFailures["tx"] \in Nat
        /\ botFailures["crash"] \in Nat
    BY <1>2 DEF BotP!FaultKinds
  <2> HIDE DEF f
  <2> QED  BY <1>2, <2>2, <2>3, <2>4, <2>5
<1> HIDE DEF C, a, b
<1>8. SumFunctionOnSet(f, C) <= Cardinality(C) * b
  <2> HIDE DEF f
  <2> QED  BY <1>3, <1>5, <1>7, SumBound
<1>9. SumFunctionOnSet(f, C) \in Nat
  <2> HIDE DEF f
  <2> QED  BY <1>5, <1>7, SumNat
<1>10. Cardinality(C) * b <= a * b /\ Cardinality(C) * b \in Nat /\ a * b \in Nat
  BY <1>3, <1>6, ProductGrows
<1>11. SumFunctionOnSet(f, C) <= a * b
  <2> HIDE DEF f
  <2> QED  BY <1>8, <1>9, <1>10
<1>12. Told(k, c) = SumFunctionOnSet(f, C)
  BY DEF Told, SumFunction, C
<1> QED  BY <1>11, <1>12, Sums DEF a, b

(* A chat is told of an event once, and more often only as the failures of *)
(* the two outgoing relays multiply: redelivery to a consumer, a restart   *)
(* of the inbox relay, overlapping runs and copies of a message bring      *)
(* nothing of their own.  The four parts of the argument are those of the  *)
(* way: the update is stored once, handed on to the chat once, sent as     *)
(* often as the agent's relay is to pay for, and told under each key as    *)
(* often as the bot's relay is.                                            *)
THEOREM CopiesArePaidFor == Spec => []CopiesArePaid
<1>1. /\ InboxP!HandedOnOnce /\ RowsInv /\ StoredInv /\ CarriedInv
      /\ OutboxP!TypeOK /\ OutboxP!ResendOnlyAfterFailure
      /\ BotP!Typed /\ BotP!Shaped /\ BotP!NotifiedAgainOnlyAfterFailure
      => CopiesArePaid
  BY CopiesStep
<1> QED  BY <1>1, AgentHolds, RowsHold, BotHolds, CarriedHolds, PTL

----------------------------------------------------------------------------
(* Where an event is. *)

(* An event that no cause keeps from a chat, and that the agent is done    *)
(* with, was sent with one row.                                            *)
LEMMA EventIsSent ==
  ASSUME InboxP!Typed, InboxP!CommittedIsRecorded, InboxP!SettledInv,
         StoredInv, HandedInv,
         OutboxP!Typed, OutboxP!SettledSharesId,
         inFailures["net"] = 0,
         NEW k \in Events, NEW c \in Chats, ~Excused(k, c), ~OnItsWay(k, c)
  PROVE  \E r \in rows : /\ sends[r] > 0 /\ c \in r.chats
                         /\ \E p \in parts[r] : p.msg = k
<1>1. /\ k <= rawOffset /\ rawOffset \in Nat /\ k \in 1 .. Len(rawTopic)
      /\ c \in rawTopic[k].chats /\ rawTopic[k].id \notin Ignored
      /\ \A i \in Events \ {k} : rawTopic[i].id # rawTopic[k].id
  BY DEF OnItsWay, Excused, Events, InboxP!Typed
<1>2. k \notin InboxP!Unrecorded
  <2>1. IsFiniteSet(InboxP!Unrecorded) /\ Cardinality(InboxP!Unrecorded) \in Nat
    BY Assumptions, InboxP!UnrecordedFinite
    DEF IsFiniteSet, InboxP!IsFiniteSet, Cardinality, InboxP!Cardinality
  <2>2. Cardinality(InboxP!Unrecorded) <= inFailures["net"]
    BY DEF InboxP!CommittedIsRecorded, Cardinality, InboxP!Cardinality
  <2>3. Cardinality(InboxP!Unrecorded) = 0
    BY <2>1, <2>2
  <2> QED  BY <2>1, <2>3, FS_EmptySet
<1>3. PICK q \in inStored : q.id = rawTopic[k].id
  BY <1>1, <1>2 DEF InboxP!Unrecorded
<1>4. q.msg = k /\ q.chats = rawTopic[k].chats
  BY <1>1, <1>3 DEF StoredInv, Events
<1>5. q \notin inPending
  BY <1>4 DEF OnItsWay
<1>6. PICK o \in grouped : c \in o.chats /\ q \in o.parts
  BY <1>1, <1>3, <1>4, <1>5 DEF InboxP!SettledInv, InboxP!Delivered
<1>7. PICK r \in rows : Made(r, o)
  BY DEF HandedInv
<1>8. c \in r.chats /\ q \in parts[r]
  BY <1>6, <1>7 DEF Made
<1>9. r \notin outPending
  BY <1>4, <1>8 DEF OnItsWay
<1>10. PICK s \in rows : s.id = r.id /\ sends[s] > 0
  BY <1>9 DEF OutboxP!SettledSharesId
<1>11. s = r
  BY <1>4, <1>8, <1>10 DEF Excused
<1> QED  BY <1>4, <1>8, <1>10, <1>11

(* A row that was sent, and that the bot is done with, told its chats.     *)
LEMMA SentIsTold ==
  ASSUME OutboxP!Typed, BotP!Typed, BotP!Shaped, BotP!CommittedIsAccounted,
         BotP!UnnotifiedHasCause, BotP!DeadInv, CarriedInv, BotRowsInv,
         botFailures["net"] = 0, botFailures["pg"] = 0,
         NEW k \in Events, NEW c \in Chats, ~Excused(k, c), ~OnItsWay(k, c),
         NEW r \in rows, sends[r] > 0, c \in r.chats, \E p \in parts[r] : p.msg = k
  PROVE  \E i \in Carriers(k, c) : i \in BotP!Keys /\ notified[<<i, c>>] > 0
<1>1. /\ Len(carried) = Len(topic) /\ Len(topic) \in Nat /\ carried \in Seq(rows)
      /\ Len(topic) <= MaxProcessed /\ MaxProcessed \in Nat
      /\ \A i \in 1 .. Len(topic) : topic[i] = MessageOf(carried[i], i)
  BY Assumptions DEF CarriedInv, BotP!Shaped, BotP!BotDeliveryAssumption
<1>2. PICK i \in 1 .. Len(topic) : carried[i] = r
  <2>1. Cardinality(Carrying(r)) > 0
    BY DEF CarriedInv
  <2>2. Carrying(r) # {}
    BY <2>1, FS_EmptySet
  <2> QED  BY <1>1, <2>2 DEF Carrying
<1>3. i \in Carriers(k, c)
  BY <1>1, <1>2 DEF Carriers
<1>4. i <= offset /\ offset \in Nat /\ \A b \in botPending : b.key # i
  BY <1>3 DEF OnItsWay, BotP!Typed
<1>5. i \notin BotP!Unaccounted
  <2>1. IsFiniteSet(BotP!Unaccounted) /\ Cardinality(BotP!Unaccounted) \in Nat
    BY Assumptions, BotP!UnaccountedFinite
    DEF IsFiniteSet, BotP!IsFiniteSet, Cardinality, BotP!Cardinality
  <2>2. Cardinality(BotP!Unaccounted) <= botFailures["net"]
    BY DEF BotP!CommittedIsAccounted, Cardinality, BotP!Cardinality
  <2>3. Cardinality(BotP!Unaccounted) = 0
    BY <2>1, <2>2
  <2> QED  BY <2>1, <2>3, FS_EmptySet
<1>6. dlq = {}
  BY DEF BotP!DeadInv
<1>7. PICK b \in botStored : b.key = i
  <2>1. topic[i].key = i
    <3>1. topic[i] = MessageOf(carried[i], i)
      BY <1>1
    <3>2. MessageOf(carried[i], i).key = i
      BY DEF MessageOf
    <3> QED  BY <3>1, <3>2
  <2>2. i \in 1 .. offset
    BY <1>1, <1>4
  <2> QED  BY <1>5, <1>6, <2>1, <2>2 DEF BotP!Unaccounted
<1>8. b \notin botPending /\ b.shot = r.id
  BY <1>2, <1>4, <1>7 DEF BotRowsInv
<1>9. PICK q \in botStored : q.shot = r.id /\ BotP!Finished(q)
  BY <1>8 DEF BotP!UnnotifiedHasCause
<1>10. /\ q.key \in 1 .. Len(topic) /\ carried[q.key] \in rows
       /\ carried[q.key].id = r.id /\ q.chats = carried[q.key].chats
  BY <1>1, <1>9 DEF BotRowsInv
<1>11. carried[q.key] = r
  BY <1>10 DEF Excused
<1>12. q.key \in Carriers(k, c) /\ c \in q.chats
  BY <1>1, <1>10, <1>11 DEF Carriers
<1>13. notified[<<q.key, c>>] > 0
  BY <1>9, <1>12 DEF BotP!Finished, Excused
<1>14. q.key \in BotP!Keys
  BY <1>1, <1>10 DEF BotP!Keys
<1> QED  BY <1>12, <1>13, <1>14

(* One message that told a chat is enough. *)
LEMMA ToldByOne ==
  ASSUME BotP!Typed, BotP!Shaped, CarriedInv, NEW k \in Events, NEW c \in Chats,
         NEW i \in Carriers(k, c), notified[<<i, c>>] > 0
  PROVE  Told(k, c) > 0
<1> DEFINE C == Carriers(k, c)
           f == [h \in C |-> notified[<<h, c>>]]
<1>1. /\ Len(carried) \in Nat /\ Len(carried) <= MaxProcessed /\ MaxProcessed \in Nat
      /\ C \subseteq 1 .. Len(carried)
  BY Assumptions DEF CarriedInv, BotP!Shaped, BotP!BotDeliveryAssumption, Carriers
<1>2. IsFiniteSet(C) /\ IsFiniteSet(C \ {i})
  <2>1. IsFiniteSet(1 .. Len(carried))
    BY <1>1, FS_Interval
  <2> HIDE DEF C
  <2> QED  BY <1>1, <2>1, FS_Subset
<1>3. ASSUME NEW h \in C PROVE f[h] = notified[<<h, c>>] /\ f[h] \in Nat
  <2>1. h \in BotP!Keys
    <3> HIDE DEF C
    <3> QED  BY <1>1 DEF BotP!Keys
  <2> QED  BY <2>1 DEF BotP!Typed
<1>4. f[i] \in Nat /\ f[i] > 0 /\ DOMAIN f = C
  BY <1>3
<1> HIDE DEF f, C
<1>5. SumFunctionOnSet(f, C) = f[i] + SumFunctionOnSet(f, C \ {i})
  <2>1. i \in C
    BY DEF C
  <2> QED  BY <1>2, <1>3, <2>1, SumRemove
<1>6. SumFunctionOnSet(f, C \ {i}) \in Nat
  BY <1>2, <1>3, SumNat
<1>7. Told(k, c) = SumFunctionOnSet(f, C)
  BY DEF Told, SumFunction, C, f
<1> QED  BY <1>4, <1>5, <1>6, <1>7

(* An event that has not reached one of its chats is on its way to it, or  *)
(* one of the named causes keeps it: however the runs of the three relays  *)
(* overlap, and wherever they were killed, rolled back or refused.  Each   *)
(* stage gives a message up only when the next has it: the offset of a     *)
(* stored message is committed, a window is marked with its rows, a row    *)
(* with its message in the topic, and a row of the bot with its sends.     *)
THEOREM EventsAreNotLost == Spec => []NoEventIsLost
<1>1. ASSUME InboxP!Typed, InboxP!CommittedIsRecorded, InboxP!SettledInv,
             StoredInv, HandedInv, OutboxP!Typed, OutboxP!SettledSharesId,
             BotP!Typed, BotP!Shaped, BotP!CommittedIsAccounted, BotP!UnnotifiedHasCause,
             BotP!DeadInv, CarriedInv, BotRowsInv
      PROVE  NoEventIsLost
  <2> SUFFICES ASSUME ~Losing, NEW k \in Events, NEW c \in Chats,
                      ~Excused(k, c), ~OnItsWay(k, c)
               PROVE  Told(k, c) > 0
    BY DEF NoEventIsLost
  <2>1. inFailures["net"] = 0 /\ botFailures["net"] = 0 /\ botFailures["pg"] = 0
    <3>1. /\ inFailures["net"] \in Nat
          /\ botFailures["net"] \in Nat /\ botFailures["pg"] \in Nat
      BY <1>1 DEF InboxP!Typed, BotP!Typed, InboxP!FaultKinds, BotP!FaultKinds
    <3> QED  BY <3>1 DEF Losing
  <2>2. PICK r \in rows : /\ sends[r] > 0 /\ c \in r.chats
                          /\ \E p \in parts[r] : p.msg = k
    BY <1>1, <2>1, EventIsSent
  <2>3. PICK i \in Carriers(k, c) : notified[<<i, c>>] > 0
    BY <1>1, <2>1, <2>2, SentIsTold
  <2> QED  BY <1>1, <2>3, ToldByOne
<1> QED
  BY <1>1, AgentHolds, RowsHold, BotHolds, CarriedHolds, BotRowsHold, PTL
=============================================================================
