SPECIFICATION Spec
CONSTANTS
  Task = {t1}
  Run = {r1, r2, r3}
  Entry = {e1}
  Session = {s1, s2}
  Null = Null
  Serial = FALSE
  MaxRetries = 2
PROPERTY StatusFollowsTheTable
