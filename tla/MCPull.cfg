SPECIFICATION PullFairSpec
CONSTANTS
  Workers = {w1, w2}
  N = 2
  Retries = 0
  Files = {f, g, h}
  Archive = {f, g}
  RemoveCanFail = TRUE
  OthersWrite = TRUE
PROPERTIES TouchedOnlyWhenVerified CallReturns
