SPECIFICATION MCSpec
CONSTANTS
  m1 = m1
  m2 = m2
  r1 = r1
  r2 = r2
  r3 = r3
  Messages = {m1, m2}
  Simulated = m1
  Recorders = {r1, r2, r3}
  RingCap = 3
  Limit = 2
  Inboxes <- MCInboxes
  JobLists <- MCJobLists
  Folders <- MCFolders
  Episodes <- MCEpisodes
\* The gateway waits for its server, and ends with it.
CHECK_DEADLOCK FALSE
INVARIANT RepliesGoHome
INVARIANT SkillRepliesAreWhole
INVARIANT MemoryIsTheLatestTurns
INVARIANT EpisodesAreFound
PROPERTY MessagesAreSettled
