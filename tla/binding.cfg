\* What a confirmation is bound to, and one write per token: a name that moves between two channels, a thread
\* root, a clock that passes the expiry, a restart that may change the workspace.
SPECIFICATION Spec
CONSTANTS
  Calls = {c1, c2}
  Names = {n1}
  NoRoot = NoRoot
  NoValue = NoValue
  Ttl = 0
  Channels = {chA, chB}
  Roots = {NoRoot, r1}
  Texts = {t1}
  Workspaces = {w1, w2}
  GuardSize = 1
  Persistent = FALSE
  MaxTime = 1
  MaxPlans = 1
  MaxBoots = 2
INVARIANTS SentAsPreviewed
PROPERTIES WritesAreOneShot
