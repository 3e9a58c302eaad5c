SPECIFICATION Spec
CONSTANTS
  a = a
  b = b
  d = d
  g = g
  x = x
  u = u
  f1 = f1
  f2 = f2
  n1 = n1
  n2 = n2
  j1 = j1
  j2 = j2
  j3 = j3
  files = files
  project = project
  Names = {n1, n2}
  RootNames = {n1}
  Contributors = {n2}
  Planned = {a, b, d, g}
  Unplanned = {x}
  UserOwners = {u}
  GlobalObject = g
  Seeded <- MCSeeded
  Consumers <- MCConsumers
  Site <- MCSite
  Files = {f1, f2}
  Calls = {files, project}
  Jobs = {j1, j2, j3}
  CallOf <- MCCallOf
  Pooled = {files}
  PoolSize = 2
  Inputs <- MCInputs
  Mutations <- MCMutations
  Units = 2
  MayAdmit = TRUE
CHECK_DEADLOCK FALSE
INVARIANT
  OneUniverse
