SPECIFICATION Spec
CONSTANTS
  Callers = {a, b, c}
  Capacity = 7
  Cost = 3
  Rate = 2
  MaxQueue = 2
  MaxCalls = 2
  NoTimer = NoTimer
INVARIANTS TypeOK TimerNotLate QueueIsTheWaiters TokensAccountedFor
PROPERTIES KeepsTheRate WaitersMoveOn
