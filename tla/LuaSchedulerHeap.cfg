SPECIFICATION SleepSpec
CONSTANTS
  Scripts = {s1}
  Tasks = {t1, t2, t3, t4}
  NoCo = NoCo
  Delays = {1, 2}
  Stoppable = {}
  MaxResumes = 9
  Budget = 0
  RefreshEvery = 8
  MaxTime = 2
  Infinity = 20
SYMMETRY Symmetry
INVARIANTS OneSlotEach DueSleepersWake
