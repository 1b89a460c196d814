SPECIFICATION FairSpec
CONSTANTS
  Requests = {r1, r2}
  Signals = {s1}
  Replies <- MCReplies
  Banned <- MCBanned
  PoolSize = 1
  Cooldown = 2
  Patience = 1
  Horizon = 4
  None = None
INVARIANTS
  RepeatsOnlyByOverlap
  NothingBannedIsStored
PROPERTY
  EveryRequestEnds
