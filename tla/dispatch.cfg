CONSTANTS
  Functions = {f, g, h}
  Hooked = {f, h}
  Sites = {a, b}
  MaxPending = 3
  MaxDepth = 5
SPECIFICATION Spec
INVARIANTS
  PendingFollowsTheStack
  EveryHookedFrameIsPending
