SPECIFICATION SleepSpec
CONSTANTS
  Scripts = {s1, s2, s3, s4}
  Tasks = {}
  NoCo = NoCo
  Delays = {1, 2, 3}
  Stoppable = {s1, s2, s3, s4}
  MaxResumes = 9
  Budget = 0
  RefreshEvery = 8
  MaxTime = 2
  Infinity = 20
INVARIANT DueSleepersWake
