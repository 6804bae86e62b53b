CONSTANTS
  Probs = {30, 80}
  WindowLen = 2
  MinHits = 2
  Threshold = 60
  PeakMin = 80
  AvgMin = 50
  Cooldown = 1
  Capacity = 2
  MaxFrames = 4
  Room = 4
  Payloads = {1, 2}
  MaxReply = 3
SPECIFICATION AudioSpec
INVARIANTS AudioTypeOK SnapshotIsLeadUp PostsFollowFires OneFirePerBurst PlaysWholePackets
PROPERTIES LatestIsPosted ReplyIsPlayed LatestChirpHeard
