CONSTANTS
  Proc <- MCProc
  Name <- MCName
  User <- MCUser
  Override <- MCOverride
  Exe <- MCExe
  Hashed <- MCHashed
  Marked <- MCMarked
  Before <- MCBefore
  Home <- MCHome
  Casts <- MCCasts
  TempName = {"n1", "n2"}
  MaxFaults = 1
SPECIFICATION Spec
INVARIANTS
  OneDatabase
  NobodyIsTurnedAway
  NoLitter
PROPERTIES
  ImplementsAtomicPublish
  EveryOpenerEnds
