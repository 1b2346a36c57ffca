SPECIFICATION SafeSpec
CONSTANTS
  Amounts <- SomeUps
  Times = {1}
  Gaps <- Seconds
  FirstGap = 10000000
  TargetPhi = 105
  InitialCL <- Default
  MaxHistory = 2
  MaxOps = 4
  MaxAtOnce = 1
INVARIANTS OutputFollowsPhi
