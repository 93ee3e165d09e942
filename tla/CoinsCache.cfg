SPECIFICATION Spec
CONSTANTS
  Txids = {k}
  Outputs = {o1, o2}
  Nullifiers = {n}
  ShieldedTypes = {sprout}
  Roots = {1, 2}
  Blocks = {1}
INVARIANTS
  HintsSound
  BestAnchorLatest
PROPERTIES
  ImplementsLedger
