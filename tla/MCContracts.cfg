\* Three accounts, one of which starts as administrator; one token that all have,
\* a second in the worker registry.
SPECIFICATION Spec
CONSTANTS
  alice = alice  bob = bob  carol = carol  t1 = t1
  Accounts = {alice, bob, carol}
  Vault = vault
  TokenIds = {t1, t2}
  Amounts = {0, 40}
  Supply = 40
  Deployers = {carol}
  Powers <- SomePowers
  MaxClock = 1
  MaxPays = 1
  Donors = {bob}
  MaxDonations = 1
  PaymentIds = {p1, p2}
  Pairs <- SomePairs
  Treasuries = {bob, carol}
  FeeRates = {0, 250, 500, 600}
  MaxI128 = 12000
  Splits <- SomeSplits
  MaxCollected = 80
  ClaimIds = {c1}
  Premiums = {100, 20000}
  MaxApprovals = 2
  JobIds = {j1}
  WorkerIds = {w1}
  Ratings = {0, 5, 10001}
  Badges = {b1}
  MaxReviews = 2
  ProfileIds = {i1}
  Curators = {bob}
  Owners = {alice, bob}
  Cooldown = 1
  RewardScale = 40
  MaxSeconds = 2
  MaxListed = 2
INVARIANTS ContractsTypeOK BooksMatchBalances OneApprovalOnePayment ScoreFromReviews PausesCanBeLifted
CHECK_DEADLOCK FALSE
