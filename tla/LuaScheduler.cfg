SPECIFICATION Spec
CONSTANTS
  Scripts = {s1, s2}
  Tasks = {t1}
  NoCo = NoCo
  Delays = {1}
  Stoppable = {s1, s2}
  MaxResumes = 3
  Budget = 1
  RefreshEvery = 2
  MaxTime = 2
  Infinity = 9
SYMMETRY Symmetry
INVARIANTS TypeOK OneSlotEach RegistryExact
PROPERTIES ResumedAsAsked BudgetKept KeepsPromise
