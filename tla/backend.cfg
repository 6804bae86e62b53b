CONSTANTS
  c1 = c1
  s1 = s1
  s2 = s2
  Connections = {c1}
  Streams = {s1, s2}
  QueueMax = 1
  MaxEvents = 3
  MaxReplies = 2
  MaxTokens = 2
SPECIFICATION BotSpec
INVARIANTS BotTypeOK EachTokenOnce EachStreamAccounted TextsReachPipelines
PROPERTIES PipelinesEnd
