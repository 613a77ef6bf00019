\* Two overlapping relay runs, failures and deadlocks.
CONSTANTS
  u1 = u1
  u2 = u2
  c1 = c1
  c2 = c2
  c3 = c3
  j1 = j1
  j2 = j2
  Ids = {u1, u2}
  Chats = {c1, c2, c3}
  Jobs = {j1, j2}
  BatchSize = 2
  MaxTxs = 1
  MaxDeadlocks = 2
  MaxFailures = 1
SPECIFICATION FairSpec
INVARIANTS SettledSharesId ResendOnlyAfterFailure
PROPERTY OutboxDrains
\* The model stops when MaxTxs windows are sent and nothing is pending.
CHECK_DEADLOCK FALSE
