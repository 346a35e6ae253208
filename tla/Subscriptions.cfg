\* One subscription, three invoices and two days, with every interleaving of
\* API requests, payments, expiry, the sweep and its crashes.
CONSTANTS
  Subs = {s1}
  MaxInvoices = 3
  MaxDay = 2
  Intervals = {1}
  NewIntervals = {2}
  TrialDays = {0, 1}
  StartOffsets = {0}
  Plans = {1}
  Soft = 0
  Hard = 1
SPECIFICATION Spec
INVARIANTS TypeOK OneOpenInvoice BilledOnce PastDueIsUnpaid
PROPERTY ImplementsCalendar
\* The system stops where the bounds do.
CHECK_DEADLOCK FALSE
