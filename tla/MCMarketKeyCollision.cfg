\* A verdict on an escrow that nobody brought to arbitration.
SPECIFICATION Spec
CONSTANTS
  payer = payer  worker = worker  judge = judge  e1 = e1  e2 = e2
  Accounts = {payer, worker, judge}
  Vault = vault
  TokenIds = {t1}
  Ids = {e1}
  Amounts = {0, 20}
  Supply = 40
  Parties <- SomeParties
  Grants <- SomeGrants
  Owners = {judge}
  Treasuries = {judge}
  Arbiters = {judge}
  FeeRates = {500, 1000}
  JudgeFees = {1}
  SignerLists <- SomeSigners
  MaxTime = 1
  MaxSchema = 2
  MaxI128 = 100000
  None = None
PROPERTIES VerdictOnRequest
CHECK_DEADLOCK FALSE
