SPECIFICATION Spec
CONSTANTS
  domain = domain
  first = first
  second = second
  third = third
  Hosts = {domain, first, second, third}
  Domain = domain
  NameText <- MCNames
  MxAnswers <- OneHost
  Replies <- Greylisting
  HostLimit = 2
  MaxCalls = 2
INVARIANT GreylistDefers
CHECK_DEADLOCK FALSE
