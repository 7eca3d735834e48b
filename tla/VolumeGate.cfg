SPECIFICATION Spec
CONSTANTS
  new = new
  old = old
  Domains = {new, old}
  Ip = ip
  Isp = "apple"
  IpHealth = "warmup"
  Ages <- FirstDays
  SentBefore <- NearlyFull
  Verdicts = {"hold", "cut"}
  MaxCalls <- FewCalls
  MaxSends <- TwoDays
  MaxLost = 1
  MaxDays = 1
INVARIANTS TypeOK DomainOvershootBounded IpOvershootBounded
