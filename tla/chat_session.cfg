\* Two messages of one chat at a time, two attempts, and two failures.
CONSTANTS
  c1 = c1
  l1 = l1
  h1 = h1
  h2 = h2
  BadText = BadText
  NoText = NoText
  NoChat = NoChat
  Chats = {c1}
  Links = {l1}
  Handlers = {h1, h2}
  MaxAttempts = 2
  MaxFailures = 2
SPECIFICATION FairSpec
INVARIANTS TypeOK SessionsAreSound DoneIsBacked EffectIsReported
PROPERTY EveryMessageAnswered
