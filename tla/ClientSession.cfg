\* Two tabs, two calls at a time, three sessions.
CONSTANTS
  t1 = t1
  t2 = t2
  c1 = c1
  c2 = c2
  s1 = s1
  s2 = s2
  s3 = s3
  Tab = {t1, t2}
  Call = {c1, c2}
  Session = {s1, s2, s3}
  None = None
SPECIFICATION Spec
SYMMETRY Symmetry
INVARIANTS
  TypeOK
  SessionKept
  SignOutHolds
PROPERTIES
  ProfileOfTheJar
CHECK_DEADLOCK FALSE
