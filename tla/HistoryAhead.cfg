SPECIFICATION Spec
CONSTANTS
  Games = 1
  Ongoing = {}
  Job = {a, b}
  Request <- FutureRequests
  Last = 2
  PageSize = 1
  MaxPageSize = 4
  BatchSize = 1
  MaxFaults = 0
INVARIANT CoverageProven
