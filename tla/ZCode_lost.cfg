SPECIFICATION ZSpec
CONSTANTS
  ZSessions = {"z"}
  Fragments = {4}
  CaptureThreshold = 3
  Growth = 4
  MaxTalk = 12
  MaxCompactions = 1
  MaxToggles = 0
  MaxLosses = 0
INVARIANT AtLeastOnce
CHECK_DEADLOCK FALSE
