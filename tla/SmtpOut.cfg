SPECIFICATION Spec
CONSTANTS
  domain = domain
  first = first
  second = second
  third = third
  Hosts = {domain, first, second, third}
  Domain = domain
  NameText <- MCNames
  MxAnswers <- MCAnswers
  Replies <- MCReplies
  HostLimit = 2
  MaxCalls = 3
INVARIANTS TypeOK CopiesBounded AckedOnce VerdictNeedsReply
PROPERTIES DeliverReturns CallRunsDown
CHECK_DEADLOCK FALSE
