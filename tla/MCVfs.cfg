SPECIFICATION FairSpec
CONSTANTS
  Names <- MCNames
  Creates <- MCCreates
  Mounts <- MCMounts
INVARIANTS WellFormed Found
PROPERTIES Returns ImplementsNamespace
CHECK_DEADLOCK FALSE
