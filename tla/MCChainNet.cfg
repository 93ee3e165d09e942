SPECIFICATION Spec
CONSTANTS
  g = g
  a1 = a1
  a2 = a2
  a3 = a3
  a4 = a4
  b2 = b2
  b3 = b3
  b4 = b4
  None = None
  forkPower = 5
  Threads = {t1, t2}
  Blocks = {g, a1, a2, a3, a4, b2, b3, b4}
  Genesis = g
  Parent <- MCParent
  Ancestors <- MCAncestors
  ChainPower <- MCChainPower
  Invalid = {b3}
  ContextInvalid = {a4}
  Notarises <- MCNoNotarisation
  MaxReorg = 3
  DownloadWindow = 2
  ASSETCHAINS_CC = FALSE
  Rpcs = {}
INVARIANTS
  CandidatesComplete
  LinkedExact
  BestChainActive
PROPERTIES
  ActivationReturns
