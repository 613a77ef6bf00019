\* A crawl beside another, failures and crashes, under fairness.
CONSTANTS
  c1 = c1
  c2 = c2
  l1 = l1
  s1 = s1
  s2 = s2
  w1 = w1
  w2 = w2
  Chats = {c1}
  Links = {l1}
  Shots = {s1}
  Workers = {w1, w2}
  NoShot = NoShot
  NoLink = NoLink
  Access = "sql"
  BatchSize = 2
  MaxTime = 2
  MaxEpochs = 1
  MaxOverlaps = 1
  MaxFailures = 2
SPECIFICATION FairSpec
INVARIANTS TypeOK OncePerSubscription ResendOnlyAfterFailure
PROPERTIES DeliversAtLeastOnce ChangeIsNoticed OutboxDrains
