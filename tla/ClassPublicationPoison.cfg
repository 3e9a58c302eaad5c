SPECIFICATION Spec
CONSTANTS
  Drafts = {1, 2, 3, 4}
  r = r
  t = t
  Ready = {r}
  Tainted = {t}
  NoBase = NoBase
  Programs <- MCPrograms
  Allocations <- MCAllocations
CHECK_DEADLOCK FALSE
INVARIANT
  PoisonPropagates
