SPECIFICATION FairSpec
CONSTANTS
  Contents <- FourContents
  hashCode <- Colliding
  TabLen = 2
  MaxCrashes = 2
INVARIANTS
  TypeOK
  GetAllIsSnapshot
  LeaksBounded
PROPERTIES
  ImplementsContentSet
  GetAllEnds
