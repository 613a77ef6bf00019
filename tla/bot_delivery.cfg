\* Two overlapping relay runs under every failure, with copied and repeated messages.
CONSTANTS
  s1 = s1
  s2 = s2
  c1 = c1
  c2 = c2
  j1 = j1
  j2 = j2
  Shots = {s1, s2}
  Chats = {c1, c2}
  Jobs = {j1, j2}
  BatchSize = 2
  Faults = {"resend", "copy", "kafka", "pg", "net", "send", "tx", "crash"}
  MaxMessages = 2
  MaxDeadlocks = 2
  MaxFailures = 1
SPECIFICATION FairSpec
INVARIANTS NotifiedAgainOnlyAfterFailure UnnotifiedHasCause CommittedIsAccounted
PROPERTIES ConsumerProgress InboxDrains
\* The model stops when MaxMessages updates are delivered and nothing is pending.
CHECK_DEADLOCK FALSE
