\* One id that both kinds of escrow use, a pause, and time to expire; at the higher
\* legal fee a release overflows.
SPECIFICATION FairSpec
CONSTANTS
  payer = payer  worker = worker  judge = judge  e1 = e1  e2 = e2
  Accounts = {payer, worker, judge}
  Vault = vault
  TokenIds = {t1}
  Ids = {e1}
  Amounts = {0, 40}
  Supply = 80
  Parties <- SomeParties
  Grants <- SomeGrants
  Owners = {judge}
  Treasuries = {judge}
  Arbiters = {judge}
  FeeRates = {250, 500, 600}
  JudgeFees = {1}
  SignerLists <- SomeSigners
  MaxTime = 1
  MaxSchema = 1
  MaxI128 = 12000
  None = None
PROPERTIES ClosingPays PauseLeavesOnlyArbitration EscrowsEnd
CHECK_DEADLOCK FALSE
