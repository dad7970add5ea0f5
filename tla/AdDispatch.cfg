\* Two overlapping jobs with lost answers and deaths; four jobs in sequence.
SPECIFICATION DispatchSpec
CONSTANTS
  p1 = p1
  p2 = p2
  Base = base
  Jobs = {j1, j2, j3, j4}
  Parts = {p1, p2}
  Plans <- MCPlans
  Share <- MCShare
  Worlds <- MCWorlds
SYMMETRY JobSymmetry
CHECK_DEADLOCK FALSE
INVARIANT SentLeavesTrace
INVARIANT ProgressNotInflated
INVARIANT SerialRunsKeepToTarget
INVARIANT TableMatchesAds
