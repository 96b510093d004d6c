\* Who wins when three calls race for two previews: one channel, an ephemeral secret,
\* a guard with room for one token, one restart.
SPECIFICATION Spec
CONSTANTS
  Calls = {c1, c2, c3}
  Names = {n1}
  NoRoot = NoRoot
  NoValue = NoValue
  Ttl = 0
  Channels = {chA}
  Roots = {NoRoot}
  Texts = {t1, t2}
  Workspaces = {w1}
  GuardSize = 1
  Persistent = FALSE
  MaxTime = 0
  MaxPlans = 2
  MaxBoots = 2
SYMMETRY Symmetry
INVARIANTS TypeOK ReplayNeedsEviction ReceiptTellsTheTruth
