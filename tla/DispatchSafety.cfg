SPECIFICATION Spec
CONSTANTS
  mail_hostname = mail
  bulk = bulk
  single = single
  Msgs = {bulk, single}
  StreamOf <- MCStreamOf
  Addresses = {1, 2, 3}
  Configs <- MCConfigs
  MaxSends = 1
  MaxSeeds = 1
INVARIANTS TypeOK PoolsApartUntilReseeded ServedWhileHealthy SignaturesVerify
