SPECIFICATION Spec
CONSTANTS
  g = g
  a1 = a1
  a2 = a2
  a3 = a3
  a4 = a4
  b2 = b2
  b3 = b3
  b4 = b4
  None = None
  forkPower = 6
  Threads = {t1}
  Blocks = {g, a1, a2, a3, a4, b2}
  Genesis = g
  Parent <- MCParent
  Ancestors <- MCAncestors
  ChainPower <- MCChainPower
  Invalid = {}
  ContextInvalid = {}
  Notarises <- MCNotarises
  MaxReorg = 2
  DownloadWindow = 2
  ASSETCHAINS_CC = TRUE
  Rpcs = {"invalidateblock", "reconsiderblock"}
INVARIANTS
  TypeOK
  Finality
  CandidatesSound
PROPERTIES
  PruneLeavesOne
