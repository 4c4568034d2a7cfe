SPECIFICATION PushSpec
CONSTANTS
  Workers = {w1, w2}
  N = 2
  Retries = 1
  Contents = {a, b}
  ApiRetries = 1
  MaxVersions = 2
SYMMETRY PushSymmetry
INVARIANTS FirstErrorIsTheCause PushedIsWhole 
