SPECIFICATION FairSpec
CONSTANTS
  i1 = i1
  i2 = i2
  Ips = {i1}
  Windows <- AllWindows
  Ages = {13, 14}
  MaxFaults = 1
INVARIANTS TypeOK QuarantineMeansStop ListedMeansStop
PROPERTIES QuarantineLeftOnlyUnseen CountedBlockQuarantines
