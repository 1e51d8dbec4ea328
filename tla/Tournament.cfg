SPECIFICATION FairSpec
CONSTANT N = 7
INVARIANTS
  PairingSafe
  EachPairOnce
PROPERTY
  Terminates
