\* Two requests of one chat at a time, and two failures.
CONSTANTS
  c1 = c1
  c2 = c2
  l1 = l1
  l2 = l2
  p1 = p1
  p2 = p2
  g1 = g1
  h1 = h1
  h2 = h2
  NoChat = NoChat
  NoText = NoText
  Chats = {c1}
  Links = {l1}
  Spellings = {p1, p2}
  Tags = {g1}
  Handlers = {h1, h2}
  MaxFailures = 2
SPECIFICATION Spec
INVARIANTS TypeOK RemovedChatIsForgotten CacheIsCurrent
