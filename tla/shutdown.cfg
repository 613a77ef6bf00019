\* Every service, stopped and killed while jobs, requests and messages are on their way.
CONSTANTS
  j1 = j1
  j2 = j2
  q1 = q1
  r1 = r1
  NoRow = NoRow
  Services = {"agent", "bot", "scrapper"}
  Jobs = {j1, j2}
  Requests = {q1}
  Rows = {r1}
  Bad = {2}
  MaxConns = 1
  MaxMessages = 2
  MaxStops = 2
  MaxCuts = 1
SPECIFICATION FairSpec
INVARIANTS TypeOK BotKeepsAcknowledged GraceIsKept
PROPERTY StopEnds
\* The model stops when the process was stopped MaxStops times and has nothing left to do.
CHECK_DEADLOCK FALSE
