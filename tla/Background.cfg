\* Two publishers, three events of two aggregates, one crash; two events of the
\* queue, two workers, one crash or late worker, one operator's request; two
\* worker processes, two crashes, redeliveries or retries.
SPECIFICATION BackgroundSpec
CONSTANTS
  o1 = o1  o2 = o2  w1 = w1  w2 = w2  e1 = e1  e2 = e2  p1 = p1  j1 = j1
  Aggregates = {o1, o2}  Workers = {w1, w2}  Batch = 2  MaxEvents = 3  MaxCrashes = 1
  Events = {e1, e2}  QueueWorkers = {w1, w2}  Operators = {p1}  MaxAttempts = 2  MaxTrouble = 1  MaxForms = 1
  Jobs = {j1}  TaskWorkers = {w1, w2}  MaxRunAttempts = 2  MaxWindow = 2  MaxExtra = 2
INVARIANTS EventsTellHistory HandedOnce WorkedOnOnce
PROPERTIES EventsAreClaimed OnlyFormsUndoSuccess EventsAreSettled SuccessOutlivesItsRuns ExportsAreRecovered
CHECK_DEADLOCK FALSE
