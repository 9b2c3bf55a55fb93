CONSTANTS
  Device = {d1, d2}
  Cluster = {a, b}
  Channels <- TwoChannels
  Rates = 2
  Listen = 1
  Width = 8
  Remember = 2
  Window = 1
  FloodCount = 2
  FloodWindow = 1
  BaselineMin = 2
  MaxTracked = 3
  MaxIncidents = 2
  MaxGap = 1
  Budgets <- OneCapture
SPECIFICATION Spec
INVARIANT RegressionIsReal
CHECK_DEADLOCK FALSE
