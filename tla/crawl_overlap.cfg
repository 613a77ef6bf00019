\* Overlapping crawls of one link, with subscribers that leave and come back.
CONSTANTS
  c1 = c1
  c2 = c2
  l1 = l1
  s1 = s1
  s2 = s2
  w1 = w1
  w2 = w2
  Chats = {c1, c2}
  Links = {l1}
  Shots = {s1}
  Workers = {w1, w2}
  NoShot = NoShot
  NoLink = NoLink
  Access = "sql"
  BatchSize = 1
  MaxTime = 2
  MaxEpochs = 2
  MaxOverlaps = 1
  MaxFailures = 0
SPECIFICATION Spec
SYMMETRY Symmetry
INVARIANTS CursorBacked NoSilentSkip OncePerSubscription
