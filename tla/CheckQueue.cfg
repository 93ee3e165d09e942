SPECIFICATION Spec
CONSTANTS
  Workers = {w1, w2}
  Master = m
  Checks = {good1, good2, bad1}
  Bad = {bad1}
  BatchSize = 2
CHECK_DEADLOCK FALSE
INVARIANTS
  TypeOK
  VerdictCorrect
  ControlFindsIdle
  TodoExact
  WakeupOwed
PROPERTIES
  WaitReturns
