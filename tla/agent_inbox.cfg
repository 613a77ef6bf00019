\* Two overlapping relay runs under every failure; messages without chats, updates the policy ignores, and duplicates.
CONSTANTS
  u1 = u1
  u2 = u2
  u3 = u3
  c1 = c1
  c2 = c2
  j1 = j1
  j2 = j2
  Ids = {u1, u2, u3}
  Chats = {c1, c2}
  Ignored = {u3}
  Jobs = {j1, j2}
  EmptyChats = TRUE
  Faults = {"crash", "tx", "pg", "kafka", "net"}
  MaxMessages = 2
  MaxFailures = 2
SPECIFICATION FairSpec
INVARIANTS HandedOnOnce CommittedIsRecorded
PROPERTIES DeliversAtLeastOnce ConsumerProgress
\* The model stops when MaxMessages updates are delivered and nothing is pending.
CHECK_DEADLOCK FALSE
