\* Two stakers and one token: whose stake pays the rewards.
SPECIFICATION WorkersSpec
CONSTANTS
  alice = alice  bob = bob  carol = carol
  Accounts = {alice, bob, carol}
  Vault = vault
  TokenIds = {t1}
  Amounts = {20}
  Supply = 20
  Deployers = {carol}
  Powers <- SomePowers
  Donors = {}
  MaxDonations = 0
  ProfileIds = {i1, i2}
  Curators = {bob}
  Owners = {alice, bob}
  Cooldown = 1
  RewardScale = 20
  MaxSeconds = 3
  MaxListed = 1
INVARIANTS StakesHeld
CHECK_DEADLOCK FALSE
