\* The agent is told to stop; nothing else goes wrong.
CONSTANTS
  j1 = j1
  j2 = j2
  q1 = q1
  r1 = r1
  NoRow = NoRow
  Services = {"agent"}
  Jobs = {j1}
  Requests = {q1}
  Rows = {r1}
  Bad = {}
  MaxConns = 1
  MaxMessages = 2
  MaxStops = 1
  MaxCuts = 0
SPECIFICATION Spec
INVARIANT AgentKeepsAcknowledged
\* The model stops when the process was stopped MaxStops times and has nothing left to do.
CHECK_DEADLOCK FALSE
