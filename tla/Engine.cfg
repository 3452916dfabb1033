SPECIFICATION FairSpec
CONSTANTS
  Scripts = {s1}
  Stoppable = {s1}
  NoCo = NoCo
  Delays = {}
  MaxResumes = 2
  Budget = 0
  RefreshEvery = 8
  MaxTime = 0
  Infinity = 9
  MaxListeners = 2
  Ephemerals = {e1}
PROPERTIES SchedulerKept SignalKept FireWakesAll WaitersRun
