\* Two escrows in two tokens, three accounts, one tick of ledger time.
SPECIFICATION Spec
CONSTANTS
  alice = alice  bob = bob  carol = carol  t1 = t1  t2 = t2  e1 = e1  e2 = e2
  Accounts = {alice, bob, carol}
  Vault = vault
  TokenIds = {t1, t2}
  Ids = {e1, e2}
  Amounts = {0, 1, 2}
  Supply = 2
  Parties <- SomeParties
  Grants <- SomeGrants
  MaxTime = 1
  MaxSchema = 1
  Absent = Absent
INVARIANTS TypeOK Solvency WalletsExplained
PROPERTIES EscrowEndsByAuthority PauseFreezes ImplementsPromise
CHECK_DEADLOCK FALSE
SYMMETRY Interchangeable
