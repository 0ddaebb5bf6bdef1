\* Two disputes; a third of 3 units is a split that rounds, 30000 does not fit.
SPECIFICATION FairSpec
CONSTANTS
  alice = alice  bob = bob  carol = carol
  Accounts = {alice, bob, carol}
  Vault = vault
  TokenIds = {t1}
  Ids = {d1, d2}
  Amounts = {0, 3}
  Supply = 3
  Parties <- SomeParties
  Arbiters = {carol}
  Splits = {0, 3334, 10000, 20000}
  Hashes = {h1}
  MaxI128 = 29999
  None = None
INVARIANTS TypeOK Solvency WalletsExplained
PROPERTIES DecidedByArbitrator DecisionFinal DecidedSettles
CHECK_DEADLOCK FALSE
