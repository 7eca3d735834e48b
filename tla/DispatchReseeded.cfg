SPECIFICATION Spec
CONSTANTS
  mail_hostname = mail
  bulk = bulk
  single = single
  Msgs = {bulk}
  StreamOf <- MCStreamOf
  Addresses = {1, 2, 3}
  Configs <- MCConfigs
  MaxSends = 1
  MaxSeeds = 1
PROPERTY PoolsStayApart
