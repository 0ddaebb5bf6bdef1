SPECIFICATION Spec
CONSTANTS
  \* two subscriptions, one event, three attempts, two faults
  Subscriptions = {s1, s2}
  Publications = {pub}
  MaxAttempts = 3
  MaxWebhookFaults = 2
  \* three concurrent calls
  Calls = {call1, call2, call3}
  FailureThreshold = 4
  MaxRetries = 3
  \* two concurrent requests, two refresh tokens, one change of the password
  Requests = {r1, r2}
  MaxTokens = 2
  MaxPassword = 1
  \* two actions queued offline, three passes at once
  MaxActions = 2
  MaxQueueSize = 2
  Passes = {q1, q2, q3}
  \* two applicants, two concurrent requests
  Workers = {w1, w2}
  JobRequests = {j1, j2}
  \* the bare list and a page, two readers, two writers
  CacheKeys = {bare, page}
  BareKeys = {bare}
  Readers = {get1, get2}
  Writers = {put1, put2}
  MaxVersion = 2
  MaxCacheFaults = 1
  \* one rule whose definition changes
  RuleIds = {rule}
  Definitions <- SomeDefinitions
  Values = {0, 5, 9}
  MaxTime = 4
  \* three requests with one key
  Posts = {post1, post2, post3}
INVARIANTS PlatformTypeOK FinalLogIsTrue ResetEndsSessions ServedAsQueued FilledByAcceptance
           StaleExplained VerdictFromSamples CarriedOutOnce
PROPERTIES DeliveriesGetTheirDue OpenDrains
CHECK_DEADLOCK FALSE
