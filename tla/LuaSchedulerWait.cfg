SPECIFICATION Spec
CONSTANTS
  Scripts = {s1}
  Tasks = {t1}
  NoCo = NoCo
  Delays = {1}
  Stoppable = {}
  MaxResumes = 9
  Budget = 0
  RefreshEvery = 8
  MaxTime = 1
  Infinity = 20
PROPERTY WaitReportsSeconds
