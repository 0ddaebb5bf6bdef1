\* One escrow, two ticks: what must eventually happen.
SPECIFICATION FairSpec
CONSTANTS
  alice = alice  bob = bob  carol = carol  t1 = t1  t2 = t2  e1 = e1  e2 = e2
  Accounts = {alice, bob, carol}
  Vault = vault
  TokenIds = {t1}
  Ids = {e1}
  Amounts = {1}
  Supply = 1
  Parties <- SomeParties
  Grants <- SomeGrants
  MaxTime = 2
  MaxSchema = 2
  Absent = Absent
PROPERTIES ActiveEnds DisputeEnds
CHECK_DEADLOCK FALSE
