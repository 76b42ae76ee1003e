SPECIFICATION MCSpec
CONSTANTS
  r1 = r1
  r2 = r2
  Runs = {r1, r2}
  NoRun = NoRun
  First = first
  Second = second
  Third = third
  Sentinel = sentinel
  NoTenant = noTenant
  MaxVersion = 6
INVARIANTS ReadinessIsProved NothingLeftBehind NoFalseAlarm
PROPERTIES ContinuedIsOver
CHECK_DEADLOCK FALSE
