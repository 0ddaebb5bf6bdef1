\* Two ids that both kinds of escrow use, all expired from the start, no pause.
SPECIFICATION Spec
CONSTANTS
  payer = payer  worker = worker  judge = judge  e1 = e1  e2 = e2
  Accounts = {payer, worker, judge}
  Vault = vault
  TokenIds = {t1}
  Ids = {e1, e2}
  Amounts = {0, 20}
  Supply = 40
  Parties <- SomeParties
  Grants <- NoGrants
  Owners = {judge}
  Treasuries = {judge}
  Arbiters = {judge}
  FeeRates = {500}
  JudgeFees = {1}
  SignerLists <- OneList
  MaxTime = 0
  MaxSchema = 2
  MaxI128 = 100000
  None = None
INVARIANTS TypeOK
PROPERTIES OnlyArbitrationLeaks ReleasedByQuorum MultisigEndsOnce
SYMMETRY Interchangeable
CHECK_DEADLOCK FALSE
