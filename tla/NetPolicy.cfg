SPECIFICATION CacheSpec
CONSTANTS
  Ips = {0, 1, 2}
  Domains <- Names
  Canonical <- Cnames
  Ttls = {0, 2}
  MinTtl = 1
  MaxEntries = 2
  MaxTime = 2
  Width = 2
  Policies <- SomePolicies
  Ports = {80, 443}
INVARIANTS  AnswerUsable
