\* One caller looks keys up, two send requests; two permits, so that a half
\* open breaker meets a second request while a third one waits.
SPECIFICATION Spec
CONSTANTS
  k1 = k1
  k2 = k2
  k3 = k3
  k4 = k4
  Calls = {c1, c2, c3}
  Readers = {c1}
  Keys <- MCKeys
  Lookups <- MCLookups
  Table <- MCTable
  BatchGetSize = 3
  MaxConcurrency = 2
  MaxRetries = 1
  MaxFailures = 2
INVARIANTS TypeOK LookupComplete
PROPERTIES OpensOnFailures BreakerRecovers CallsAnswered
CHECK_DEADLOCK FALSE
