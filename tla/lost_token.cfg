\* A waiter is cancelled between the grant of its token and its next run.
SPECIFICATION Spec
CONSTANTS
  Callers = {a, b}
  Capacity = 2
  Cost = 2
  Rate = 1
  MaxQueue = 2
  MaxCalls = 2
  NoTimer = NoTimer
INVARIANTS CancelledTokenGoesOn
