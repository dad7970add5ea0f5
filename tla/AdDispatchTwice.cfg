\* Two overlapping runs, no faults: the day goes out twice.
SPECIFICATION DispatchSpec
CONSTANTS
  p1 = p1
  p2 = p2
  Base = base
  Jobs = {j1, j2}
  Parts = {p1, p2}
  Plans <- MCPlans
  Share <- MCShare
  Worlds <- MCOverlap
SYMMETRY JobSymmetry
CHECK_DEADLOCK FALSE
INVARIANT DayGoesOutOnce
