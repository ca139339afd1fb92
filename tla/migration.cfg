CONSTANTS
  Label = {"a"}
  Opener = {"o1", "o2"}
  Legacy = {"l1", "l2"}
  LabelsOf <- MCLabelsOf
  SerialOf <- MCSerialOf
  LegacySerial <- MCLegacySerial
  Faults = TRUE
SPECIFICATION Spec
INVARIANTS
  ExclusionSurvives
PROPERTIES
  MigrationIsOneStep
  EveryOpenerEnds
