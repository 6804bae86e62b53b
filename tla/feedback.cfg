CONSTANTS
  WakeAckHold = 1
  OverrideHold = 1
  SpeakingHold = 1
  TalkingHold = 1
  ThinkingMax = 1
  ConsoleStates = {"listening", "wakeack", "error"}
SPECIFICATION FairFeedback
INVARIANTS FeedbackTypeOK DedupSound WakeAckHeld
PROPERTIES LiveRingCurrent
