\* Released pids come back, but fork returns none the table still lists.
CONSTANTS
  Pid = {p1, p2, p3}
  NoPid = NoPid
  MaxBg = 2
  MaxCmds = 3
  PidReuse = TRUE
  ListedReuse = FALSE
SPECIFICATION FairSpec
INVARIANTS RememberedAreListed TableExactAtPrompt
PROPERTIES LostOnlyByKillbpOrOverflow OnlyContLeavesStale ImplementsJobTable
  FinishedJobsLeave PromptReturns
