\* The query builder's repository, without any failure.
CONSTANTS
  c1 = c1
  c2 = c2
  l1 = l1
  s1 = s1
  s2 = s2
  w1 = w1
  w2 = w2
  Chats = {c1}
  Links = {l1}
  Shots = {s1}
  Workers = {w1}
  NoShot = NoShot
  NoLink = NoLink
  Access = "builder"
  BatchSize = 2
  MaxTime = 2
  MaxEpochs = 1
  MaxOverlaps = 0
  MaxFailures = 0
SPECIFICATION FairSpec
PROPERTY ChangeIsNoticed
