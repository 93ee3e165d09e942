SPECIFICATION Spec
CONSTANTS
  Blocks = {1, 2, 3}
  Parent <- MCParent
  Notarises <- MCNotarises
  MaxFile = 1
  FileSlots = 2
  Keep = 1
  MaxReorg = 1
  PruneMode = TRUE
  UpgradeHeight = 1
  CrashPoints = {"any", "rewind"}
INVARIANTS
  StoredWhereIndexed
  CoinsReferToIndex
  
