SPECIFICATION MatchSpec
CONSTANTS
  Keys = {1, 2, 3}
  Hashes <- CollidingHashes
  Capacities <- SmallCapacities
  MaxRows = 5
  KeyedRows = 3
  SigHash <- SmallSigHash
  Unkeyed <- SmallUnkeyed
INVARIANTS
  TypeOK
  PairedByKey
  DuplicateNamed
  MatchInv
  ExactByDigest
  BestCandidates
  WorkBounded
  PilesSound
  KeptIsLongest
  DistanceIsRankShift
PROPERTY Returns
CHECK_DEADLOCK FALSE
