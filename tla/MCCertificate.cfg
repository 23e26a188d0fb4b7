CONSTANTS
  Nil = Nil
  Missing = Missing
  Corrupt = Corrupt
  Configs <- MCConfigs
  Sites <- MCSites
  Files <- MCFiles
  InitDisks <- MCInitDisks
  Life = 2
  MaxFails = 1
  MaxMishaps = 1
  Damaged = {"crt"}
  Changing <- MCChanging
SPECIFICATION Spec
INVARIANTS TypeOK OwnDomain Paired InTime
