CONSTANTS
  s1 = s1
  s2 = s2
  t1 = t1
  base = base
  Nobody = Nobody
  Servers = {s1}
  Tasks = {t1}
  Base = base
  Actions = {"start-agent", "start-investigation", "approve-plan", "create-worktree", "request-plan-changes", "commit-worktree", "merge-worktree", "complete", "request-implementation-changes", "start-fix", "resume", "cancel", "chat", "stop-chat", "snapshot"}
  MaxRuns = 2
  MaxCrashes = 1
  MaxFaults = 1
  MaxUpsets = 1
  KnownSession = TRUE
  MaxChunks = 2
SPECIFICATION SuiteSpec
INVARIANT LiveRunIsRecorded
INVARIANT AnswerIsComplete
PROPERTY CallsReturn
PROPERTY CancelReturns
CHECK_DEADLOCK FALSE
