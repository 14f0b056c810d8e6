CONSTANTS
  Config <- ConfigFile
  MaxCrashes = 2
  MaxFaults = 2
  MaxDeletes = 2
  Limits <- FetchLimits
SPECIFICATION Spec
INVARIANTS TypeOK SameWinners
PROPERTIES ImportIsAtomic RelaunchRepairs SecondImportIndependent NoMoreMeansAll
