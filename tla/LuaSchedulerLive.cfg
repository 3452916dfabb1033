SPECIFICATION QuietFairSpec
CONSTANTS
  Scripts = {s1, s2}
  Tasks = {t1}
  NoCo = NoCo
  Delays = {1, 2}
  Stoppable = {s1, s2}
  MaxResumes = 1
  Budget = 0
  RefreshEvery = 8
  MaxTime = 2
  Infinity = 9
PROPERTIES ReadyScriptsRun TimedCallsWake
