CONSTANTS
  left = left
  right = right
  Sleeper <- Left
  Poller <- Right
  N = 2
  MaxLockup = 1
  MaxMove = 1
SPECIFICATION Spec
INVARIANTS RefsBalance AnswerIsOnItsWay DemandIsArmed
PROPERTIES TruthfulSignal
CHECK_DEADLOCK FALSE
