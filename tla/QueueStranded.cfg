SPECIFICATION FairSpec
CONSTANTS
  m1 = m1
  m2 = m2
  r1 = r1
  d1 = d1
  d2 = d2
  Msgs = {m1}
  Rcpts = {r1}
  Recipient <- MCRecipient
  Priority <- MCPriority
  Dsns = {}
  Reported <- MCReported
  Batch = 1
  Retries = 1
  MaxFaults = 1
PROPERTY Settles
\* Once every message is settled the bounded instance has nothing left to do.
CHECK_DEADLOCK FALSE
