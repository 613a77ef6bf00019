\* Two events for two chats on their way through both services, and one failure.
CONSTANTS
  a1 = a1
  b1 = b1
  Ids = {1, 2}
  Chats = {1, 2}
  Ignored = {}
  AgentJobs = {a1}
  BotJobs = {b1}
  AgentFaults = {"crash", "tx", "kafka", "net", "pg"}
  BotFaults = {"crash", "tx", "send", "kafka", "net", "pg"}
  OutBatchSize = 1
  BotBatchSize = 1
  MaxEvents = 2
  MaxProcessed = 3
  MaxWindows = 2
  MaxDeadlocks = 0
  MaxFailures = 1
SPECIFICATION FairSpec
INVARIANTS TypeOK CopiesArePaid NoEventIsLost
PROPERTY EventIsTold
\* The model stops when MaxEvents events are delivered and nothing is pending.
CHECK_DEADLOCK FALSE
