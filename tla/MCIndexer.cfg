SPECIFICATION FairSpec
CONSTANTS
  Instances = {api1, api2}
  N = 4
  LedgerOf <- MCLedgerOf
  TxOf <- MCTxOf
  Mapped <- MCMapped
  Limit = 3
  MaxFaults = 2
INVARIANTS TypeOK NothingElseLost AnnouncedIsIndexed
PROPERTY EventsSettle
