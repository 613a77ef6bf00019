\* One walk in batches of two over four links, three of them added meanwhile.
\* Walks do not meet, and the builder's order allows every order of the SQL one.
CONSTANTS
  w1 = w1
  Links = {1, 2, 3, 4}
  Migrated = {2}
  Walks = {w1}
  Access = "builder"
  BatchSize = 2
  MaxTime = 2
  MaxFailures = 2
SPECIFICATION FairSpec
INVARIANT SkippedHasTwin
PROPERTY CrawledAgain
