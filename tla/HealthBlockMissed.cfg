SPECIFICATION FairSpec
CONSTANTS
  i1 = i1
  i2 = i2
  Ips = {i1}
  Windows <- QuietWindow
  Ages = {2}
  MaxFaults = 0
PROPERTY EveryBlockQuarantines
