SPECIFICATION FairSpec
CONSTANTS
  Socket = {n1, n2, n3}
  NONE = NONE
  StoreMax = 2
INVARIANTS TypeOK KeepsPromise BootIsProtected StatusIsProof
PROPERTY GetsReadyOrBlocks
