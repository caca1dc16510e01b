\* Two processes, each request with up to two handles of the key.
SPECIFICATION FairSpec
CONSTANTS
  Processes = {1, 2}
  MaxAcquire = 1
  Handles = {1, 2}
  MaxSets = 2
INVARIANTS PermitsBounded PermitsExact Serialized
PROPERTY WaitsEnd
