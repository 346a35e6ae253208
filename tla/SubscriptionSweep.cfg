\* A subscription billed every two days, and an invoice its subscriber only
\* pays in part.
CONSTANTS
  Subs = {s1}
  MaxInvoices = 2
  MaxDay = 2
  Intervals = {2}
  NewIntervals = {2}
  TrialDays = {0}
  StartOffsets = {0}
  Plans = {}
  Soft = 0
  Hard = 1
SPECIFICATION FairSpec
PROPERTY SweepEnds
\* The system stops where the bounds do.
CHECK_DEADLOCK FALSE
