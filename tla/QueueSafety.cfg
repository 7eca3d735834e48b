SPECIFICATION FairSpec
CONSTANTS
  m1 = m1
  m2 = m2
  r1 = r1
  d1 = d1
  d2 = d2
  Msgs = {m1, m2}
  Rcpts = {r1}
  Recipient <- MCRecipient
  Priority <- MCPriority
  Dsns = {d1}
  Reported <- MCReported
  Batch = 1
  Retries = 2
  MaxFaults = 1
INVARIANTS TypeOK OneJobPerMessage JobOwnsRow RetryBudget AuditTrail BounceSuppresses
PROPERTIES KeepsContract WorkRunsDown KeepsIntakeContract SettlesOrStrands
\* Once every message is settled the bounded instance has nothing left to do.
CHECK_DEADLOCK FALSE
