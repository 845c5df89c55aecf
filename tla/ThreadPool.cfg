SPECIFICATION FairSpec
CONSTANTS
  Workers = {w1, w2}
  Clients = {c1, c2}
  c1 = c1 c2 = c2 r1 = r1 r2 = r2 a = a b = b a1 = a1 a2 = a2 d = d e = e f = f
  Tasks <- AllTasks
  Children <- Tree
  Program <- Programs
  Forgetful <- Leaves
  ByIds <- OneByOne
INVARIANTS
  TypeOK
  SleepersHaveReason
PROPERTIES
  Kept
  EverythingEnds
